------------------------------ MODULE MakerProofs ------------------------------
(***************************************************************************)
(* Theorems about Startup and MarketMaker, for any settings files, any     *)
(* modes, whatever lies behind the parser's vector, any limits and any     *)
(* number of replies under way.                                            *)
(*                                                                         *)
(* StartInv says at every point of the start what has been loaded;         *)
(* CountInv ties the counter of failed connections to the flags that end   *)
(* the client; FlagInv finds the login that a reply, under way or taken,   *)
(* speaks of.  ConfInv says that ports in use were read as the file means  *)
(* them, for files as FilesPlain describes.                                *)
(***************************************************************************)
EXTENDS MarketMaker, SequenceTheorems, WellFoundedInduction, TLAPS

\* The fields of the replies a client makes something of.
Field == {"1234", "number", "nid", "success", "OrderExec", "newline"}

\* What is loaded at each point of the start.  Where the loaders do not test the
\* connection, a handler that gave up has left no handle.
StartInv ==
  /\ pcTrader \in {"down", "connect", "trading data", "products", "orders", "server",
                   "users", "listen", "serving"}
  /\ pcTrader \in {"down", "connect"} => handles = {} /\ loaded = {}
  /\ pcTrader = "trading data" => loaded = {} /\ ("trader" \in handles => connstatus)
  /\ pcTrader = "products" => loaded = {"trading data"}
  /\ pcTrader = "orders" => \/ loaded = {"trading data", "products"}
                            \/ loaded = {} /\ "trader" \notin handles
  /\ pcTrader \in {"server", "users"} => loaded = {"trading data", "products", "orders"}
  /\ pcTrader \in {"listen", "serving"} =>
       loaded = {"trading data", "products", "orders", "users"}

\* The type invariant, part by part.
PlacesOK ==
  /\ pcBeat \in {"down", "boot", "beat"}
  /\ pcRecv \in {"off", "recv", "mark", "connect", "set", "check", "end"}
  /\ pcTrade \in {"off", "send", "quoted", "skipped", "sleep"}
  /\ (pcBeat = "beat") = (pcRecv # "off") /\ (pcBeat = "beat") = (pcTrade # "off")
  /\ mutex = (IF pcTrade = "sleep" THEN "trade" ELSE "free")

FlagsOK == {exit_flag, firstconn_flag, connStatus, loginflag, halved, again} \subseteq BOOLEAN

CountsOK ==
  /\ {connCalculate, failures} \subseteq 0..4
  /\ orderNum \in Nat /\ inventoryNum \in Nat

LinkOK ==
  /\ link \in {"closed", "up", "broken"}
  /\ inbox \in Seq(Seq(Field)) /\ Len(inbox) <= MaxInbox
  /\ link # "up" => session = "out" /\ inbox = <<>>
  /\ link = "up" => Serving

\* A process that has not connected yet.
FreshInv ==
  pcBeat # "beat" =>
    /\ ~exit_flag /\ firstconn_flag /\ ~loginflag /\ ~again
    /\ connCalculate = 0 /\ failures = 0 /\ link = "closed"

\* Without a first connection the receiver never gets to work; after it, the count
\* is that of the failures, and the client gives up when it passes three.
CountInv ==
  pcBeat = "beat" =>
    IF firstconn_flag THEN exit_flag /\ pcRecv = "recv"
    ELSE /\ failures = connCalculate
         /\ exit_flag => connCalculate > 3
         /\ connCalculate > 3 => pcRecv = "end"

\* On a first connection a login reply comes from the session.
FlagInv ==
  link = "up" /\ ~again /\ (loginflag \/ \E i \in DOMAIN inbox : inbox[i][1] = "1234") =>
    session = "in"

MakerInv ==
  PlacesOK /\ FlagsOK /\ CountsOK /\ LinkOK /\ FreshInv /\ CountInv /\ FlagInv

-------------------------------------------------------------------------------
(* The start of the trader *)

\* A process that has not started has loaded nothing.
LEMMA InitialStart == Init => StartInv
BY DEF Init, ServerInit, StartInv

\* Both constructors' connections.
LEMMA ConnectKeeps ==
  ASSUME StartInv, ConnectTrader \/ ConnectServer
  PROVE  StartInv'
<1>1. CASE ConnectTrader
  <2>1. /\ pcTrader = "connect" /\ UNCHANGED loaded
        /\ \/ pcTrader' \in {"connect", "trading data"} /\ connstatus'
              /\ pcTrader' = "trading data"
           \/ pcTrader' \in {"connect", "trading data"} /\ UNCHANGED handles
    BY <1>1 DEF ConnectTrader, Connect
  <2> QED
    BY <2>1 DEF StartInv
<1>2. CASE ConnectServer
  <2>1. pcTrader = "server" /\ UNCHANGED loaded /\ pcTrader' \in {"server", "users"}
    BY <1>2 DEF ConnectServer, Connect
  <2> QED
    BY <2>1 DEF StartInv
<1> QED
  BY <1>1, <1>2

\* The loaders: a query on a handle that is not there ends the process.
LEMMA LoadKeeps ==
  ASSUME StartInv, getTradingData \/ getProductList \/ getExistOrder \/ getUserData
  PROVE  StartInv'
<1>1. CASE getTradingData
  BY <1>1 DEF getTradingData, Query, Fail, StartInv
<1>2. CASE getProductList
  BY <1>2 DEF getProductList, Query, Fail, StartInv
<1>3. CASE getExistOrder
  BY <1>3 DEF getExistOrder, Query, Fail, StartInv
<1>4. CASE getUserData
  BY <1>4 DEF getUserData, Query, Fail, StartInv
<1> QED
  BY <1>1, <1>2, <1>3, <1>4

\* Every step of the start keeps the invariant.
LEMMA NextStart == StartInv /\ [Next]_vars => StartInv'
<1> SUFFICES ASSUME StartInv, [Next]_vars PROVE StartInv'
  OBVIOUS
<1>1. CASE ConnectTrader \/ ConnectServer
  BY <1>1, ConnectKeeps
<1>2. CASE getTradingData \/ getProductList \/ getExistOrder \/ getUserData
  BY <1>2, LoadKeeps
<1>3. CASE Launch
  BY <1>3 DEF Launch, StartInv
<1>4. CASE socketini
  <2>1. /\ pcTrader = "listen"
        /\ \/ pcTrader' = "down" /\ handles' = {} /\ loaded' = {}
           \/ pcTrader' = "serving" /\ loaded' = loaded
    <3>1. PICK ini \in reading["socket"] :
            IF "port" \in DOMAIN ini /\ port = "free" /\ mode # "test"
            THEN pcTrader' = "serving" /\ loaded' = loaded
            ELSE Fail
      BY <1>4 DEF socketini
    <3>2. pcTrader = "listen"
      BY <1>4 DEF socketini
    <3> QED
      BY <3>1, <3>2 DEF Fail
  <2> QED
    BY <2>1 DEF StartInv
<1>5. CASE DbUp \/ DbDown \/ PortFreed
  BY <1>5 DEF DbUp, DbDown, PortFreed, startVars, StartInv
<1>6. CASE StopServing
  BY <1>6 DEF StopServing, Fail, StartInv
<1>7. CASE UNCHANGED serverVars
  BY <1>7 DEF serverVars, startVars, StartInv
<1>8. \/ ServerSteps
      \/ UNCHANGED serverVars
  BY DEF Next, MakerNext, BootMaker, ConnectFirst, Beat, EndBeat, recvMsg, Receive,
         ReceiveFails, MarkLost, Reconnect, SetStatus, CheckStatus, startTradingProcess,
         SendPair, LockMutex, Wake, NetworkFails, Announce, SigPipe, vars
<1> QED
  BY <1>1, <1>2, <1>3, <1>4, <1>5, <1>6, <1>7, <1>8 DEF ServerSteps, StartStep

\* At every point of the start exactly the loads that point relies on were made: the
\* constructors of Trader and Server, while the database comes and goes.
THEOREM StartInvariant == Spec => []StartInv
BY InitialStart, NextStart, PTL DEF Spec

\* The server never serves without the balances, the products, the orders and the
\* users, whichever of its two connections failed and whenever the database went
\* away: the constructors of Trader and Server and the loaders they call.
THEOREM InitialisedWhenServing == Spec => []ServesInitialised
<1>1. StartInv => ServesInitialised
  BY DEF StartInv, ServesInitialised, Serving
<1> QED
  BY <1>1, StartInvariant, PTL

-------------------------------------------------------------------------------
(* The market maker: the shape of the state *)

\* The empty channel holds no reply.
LEMMA NoReplies == <<>> \in Seq(Seq(Field)) /\ Len(<<>>) = 0 /\ DOMAIN <<>> = {}
BY EmptySeq

\* At first neither process runs.
LEMMA InitialMaker == Init => MakerInv
<1> SUFFICES ASSUME Init PROVE MakerInv
  OBVIOUS
<1>1. PlacesOK /\ CountsOK
  BY DEF Init, PlacesOK, CountsOK
<1>3. FlagsOK
  BY DEF Init, FlagsOK
<1>2. LinkOK /\ FreshInv /\ CountInv /\ FlagInv
  BY NoReplies, LimitsAssumption DEF Init, LinkOK, FreshInv, CountInv, FlagInv
<1> QED
  BY <1>1, <1>2, <1>3 DEF MakerInv

\* The end of the client keeps the invariant: nothing survives it.
LEMMA EndsKeeps ==
  ASSUME MakerEnds
  PROVE  MakerInv'
<1>1. PlacesOK' /\ CountsOK'
  BY DEF MakerEnds, PlacesOK, CountsOK
<1>3. FlagsOK'
  BY DEF MakerEnds, FlagsOK
<1>2. LinkOK' /\ FreshInv' /\ CountInv' /\ FlagInv'
  BY NoReplies, LimitsAssumption DEF MakerEnds, LinkOK, FreshInv, CountInv, FlagInv
<1> QED
  BY <1>1, <1>2, <1>3 DEF MakerInv

\* A server that takes a step of its start serves nobody.
LEMMA StartsDown ==
  ASSUME StartStep
  PROVE  ~Serving
BY DEF StartStep, Launch, ConnectTrader, ConnectServer, Connect, getTradingData,
       getProductList, getExistOrder, getUserData, socketini, Serving

\* A broken session keeps the invariant.
LEMMA BrokenKeeps ==
  ASSUME MakerInv, LinkBroken,
         UNCHANGED <<pcBeat, pcRecv, pcTrade, mutex, clientVars, failures, again>>
  PROVE  MakerInv'
<1>1. link' # "up" /\ (link = "closed" => link' = "closed") /\ link' \in {"closed", "broken"}
  BY DEF LinkBroken, MakerInv, PlacesOK, FlagsOK, CountsOK, LinkOK
<1>2. PlacesOK' /\ FlagsOK' /\ CountsOK'
  BY DEF LinkBroken, clientVars, MakerInv, PlacesOK, FlagsOK, CountsOK
<1>4. LinkOK'
  BY <1>1, NoReplies, LimitsAssumption DEF LinkBroken, LinkOK
<1>3. FreshInv' /\ CountInv' /\ FlagInv'
  BY <1>1 DEF LinkBroken, clientVars, MakerInv, FreshInv, CountInv, FlagInv
<1> QED
  BY <1>2, <1>3, <1>4 DEF MakerInv

\* The steps of the server, its start among them, keep the invariant.
LEMMA ServerKeeps ==
  ASSUME MakerInv, ServerSteps
  PROVE  MakerInv'
<1>1. CASE StartStep /\ UNCHANGED makerVars
  <2>1. link # "up"
    BY <1>1, StartsDown DEF MakerInv, PlacesOK, FlagsOK, CountsOK, LinkOK
  <2> QED
    BY <1>1, <2>1 DEF makerVars, clientVars, linkVars, MakerInv, PlacesOK, FlagsOK, CountsOK, LinkOK, FreshInv,
                      CountInv, FlagInv
<1>2. CASE (DbUp \/ DbDown \/ PortFreed) /\ UNCHANGED makerVars
  <2>1. pcTrader' = pcTrader
    BY <1>2 DEF DbUp, DbDown, PortFreed, startVars
  <2> QED
    BY <1>2, <2>1 DEF makerVars, clientVars, linkVars, MakerInv, PlacesOK, FlagsOK, CountsOK, LinkOK, FreshInv,
                      CountInv, FlagInv, Serving
<1>3. CASE /\ StopServing /\ LinkBroken
           /\ UNCHANGED <<pcBeat, pcRecv, pcTrade, mutex, clientVars, failures, again>>
  BY <1>3, BrokenKeeps
<1> QED
  BY <1>1, <1>2, <1>3 DEF ServerSteps

-------------------------------------------------------------------------------
(* The market maker: its steps *)

\* The replies under way, one more at their end.
LEMMA ReplyAdded ==
  ASSUME MakerInv, NEW text \in Seq(Field), text # <<>>, Len(inbox) < MaxInbox,
         inbox' = Append(inbox, Line(text))
  PROVE  /\ inbox' \in Seq(Seq(Field)) /\ Len(inbox') <= MaxInbox
         /\ \A i \in DOMAIN inbox' :
              \/ i \in DOMAIN inbox /\ inbox'[i] = inbox[i]
              \/ inbox'[i][1] = text[1]
<1>1. Line(text) \in Seq(Field) /\ Line(text)[1] = text[1]
  <2>1. Len(text) \in Nat \ {0}
    BY EmptySeq
  <2>2. 1 \in 1..Len(text)
    BY <2>1
  <2> QED
    BY <2>2, AppendProperties DEF Line, Field
<1>2. inbox \in Seq(Seq(Field)) /\ Len(inbox) \in Nat /\ MaxInbox \in Nat
  BY LimitsAssumption DEF MakerInv, LinkOK
<1> DEFINE line == Line(text)
<1>3. line \in Seq(Field) /\ line[1] = text[1] /\ inbox' = Append(inbox, line)
  BY <1>1
<1> HIDE DEF line
<1>4. /\ inbox' \in Seq(Seq(Field)) /\ Len(inbox') = Len(inbox) + 1
      /\ \A i \in 1..Len(inbox) : inbox'[i] = inbox[i]
      /\ inbox'[Len(inbox) + 1] = line
  BY <1>2, <1>3, AppendProperties
<1> QED
  BY <1>2, <1>3, <1>4

\* A message served: a login is answered by a session that is in.
LEMMA ServeKeeps ==
  ASSUME MakerInv, NEW message \in {"price", "login", "orders"}, sendMsg(message)
  PROVE  /\ link' = link /\ halved' = halved /\ session' \in {"in", session}
         /\ inbox' \in Seq(Seq(Field)) /\ Len(inbox') <= MaxInbox
         /\ link # "up" => session' = session /\ inbox' = inbox
         /\ FlagInv /\ loginflag' = loginflag /\ again' = again => FlagInv'
<1>1. CASE link # "up"
  BY <1>1 DEF sendMsg, linkVars, MakerInv, PlacesOK, FlagsOK, CountsOK, LinkOK, FlagInv
<1>2. CASE link = "up" /\ message = "login" /\ session = "out"
  <2> DEFINE text == <<"1234", "number">>
  <2>1. /\ UNCHANGED <<link, halved>> /\ session' = "in" /\ Len(inbox) < MaxInbox
        /\ inbox' = Append(inbox, Line(text))
    BY <1>2 DEF sendMsg, Serve
  <2>2. text \in Seq(Field) /\ text # <<>>
    BY DEF Field
  <2> HIDE DEF text
  <2>3. inbox' \in Seq(Seq(Field)) /\ Len(inbox') <= MaxInbox
    BY <2>1, <2>2, ReplyAdded
  <2> QED
    BY <1>2, <2>1, <2>3 DEF FlagInv
<1>3. CASE link = "up" /\ message = "orders" /\ session = "in"
  <2> DEFINE text == <<"nid", "success">>
  <2>1. /\ UNCHANGED <<link, halved, session>> /\ Len(inbox) < MaxInbox
        /\ inbox' = Append(inbox, Line(text))
    BY <1>3 DEF sendMsg, Serve
  <2>2. text \in Seq(Field) /\ text # <<>>
    BY DEF Field
  <2> HIDE DEF text
  <2>3. inbox' \in Seq(Seq(Field)) /\ Len(inbox') <= MaxInbox
    BY <2>1, <2>2, ReplyAdded
  <2> QED
    BY <1>3, <2>1, <2>3 DEF FlagInv
<1>4. CASE /\ link = "up" /\ ~(message = "login" /\ session = "out")
           /\ ~(message = "orders" /\ session = "in")
  <2>1. UNCHANGED <<link, halved, session, inbox>>
    BY <1>4 DEF sendMsg, Serve
  <2> QED
    BY <2>1 DEF MakerInv, PlacesOK, FlagsOK, CountsOK, LinkOK, FlagInv
<1> QED
  BY <1>1, <1>2, <1>3, <1>4

\* An execution of one of its orders is announced to it.
LEMMA AnnounceKeeps ==
  ASSUME MakerInv, Announce
  PROVE  MakerInv'
<1> DEFINE text == <<"nid", "OrderExec">>
<1>1. /\ link = "up" /\ session = "in" /\ inbox' = Append(inbox, Line(text))
      /\ Len(inbox) < MaxInbox
      /\ UNCHANGED <<serverVars, pcBeat, pcRecv, pcTrade, mutex, clientVars, link, session,
                     halved, failures, again>>
  BY LimitsAssumption DEF Announce, MakerInv
<1>2. text \in Seq(Field) /\ text # <<>>
  BY DEF Field
<1> HIDE DEF text
<1>3. inbox' \in Seq(Seq(Field)) /\ Len(inbox') <= MaxInbox
  BY <1>1, <1>2, ReplyAdded
<1> QED
  BY <1>1, <1>3 DEF MakerInv, PlacesOK, FlagsOK, CountsOK, LinkOK, FreshInv, CountInv, FlagInv, clientVars,
                    serverVars, startVars, Serving

\* The threads that send.
LEMMA SendersKeep ==
  ASSUME MakerInv, Beat \/ SendPair
  PROVE  MakerInv'
<1>1. PICK message \in {"price", "login", "orders"} :
        /\ sendMsg(message) \/ UNCHANGED linkVars
        /\ pcTrade' \in {pcTrade, "quoted", "skipped"}
        /\ pcTrade' # pcTrade => pcTrade = "send"
        /\ UNCHANGED <<serverVars, pcBeat, pcRecv, mutex, clientVars, failures, again>>
  BY DEF Beat, SendPair, TradeGoes
<1>2. CASE sendMsg(message)
  BY <1>1, <1>2, ServeKeeps DEF MakerInv, PlacesOK, FlagsOK, CountsOK, LinkOK, FreshInv, CountInv, clientVars,
                                serverVars, startVars, Serving
<1>3. CASE UNCHANGED linkVars
  BY <1>1, <1>3 DEF MakerInv, PlacesOK, FlagsOK, CountsOK, LinkOK, FreshInv, CountInv, FlagInv, clientVars,
                    linkVars, serverVars, startVars, Serving
<1> QED
  BY <1>1, <1>2, <1>3

\* The sleeps of the threads keep the invariant.
LEMMA SleepersKeep ==
  ASSUME MakerInv, LockMutex \/ Wake
  PROVE  MakerInv'
BY DEF LockMutex, Wake, TradeGoes, MakerInv, PlacesOK, FlagsOK, CountsOK, LinkOK, FreshInv, CountInv, FlagInv,
       clientVars, linkVars, serverVars, startVars, Serving

\* Reading the file and the first steps of the client keep the invariant.
LEMMA BootKeeps ==
  ASSUME MakerInv, BootMaker
  PROVE  MakerInv'
BY DEF BootMaker, MakerInv, PlacesOK, FlagsOK, CountsOK, LinkOK, FreshInv, CountInv, FlagInv,
       clientVars, linkVars, serverVars, startVars, Serving

\* The first connection keeps the invariant.
LEMMA ConnectFirstKeeps ==
  ASSUME MakerInv, ConnectFirst
  PROVE  MakerInv'
<1>1. PICK ini \in reading["TraderServer"] :
        \/ MakerEnds
        \/ /\ pcBeat' = "beat" /\ pcRecv' = "recv" /\ pcTrade' = "send"
           /\ \/ /\ Reachable(ini) /\ Linked /\ connStatus' = TRUE /\ firstconn_flag' = FALSE
                 /\ UNCHANGED <<exit_flag, failures>>
              \/ /\ exit_flag' = TRUE /\ failures' = 1
                 /\ UNCHANGED <<linkVars, connStatus, firstconn_flag>>
           /\ UNCHANGED <<mutex, connCalculate, loginflag, orderNum, inventoryNum, again>>
  BY DEF ConnectFirst
<1>2. pcBeat = "boot" /\ UNCHANGED serverVars
  BY DEF ConnectFirst
<1>3. CASE MakerEnds
  BY <1>3, EndsKeeps
<1>4. CASE ~MakerEnds
  <2>1. /\ ~exit_flag /\ ~loginflag /\ ~again /\ connCalculate = 0 /\ failures = 0
        /\ link = "closed" /\ firstconn_flag
    BY <1>2 DEF MakerInv, FreshInv
  <2>5. PlacesOK'
    BY <1>1, <1>2, <1>4 DEF MakerInv, PlacesOK
  <2>8. /\ pcBeat' = "beat" /\ failures' \in {failures, 1}
        /\ UNCHANGED <<connCalculate, orderNum, inventoryNum>>
    BY <1>1, <1>4
  <2>6. CountsOK' /\ FreshInv'
    BY <2>1, <2>8 DEF MakerInv, CountsOK, FreshInv
  <2>2. FlagsOK'
    BY <1>1, <1>4 DEF MakerInv, FlagsOK, Linked, linkVars
  <2>3. CountInv'
    <3>1. CASE exit_flag' = TRUE /\ firstconn_flag' = firstconn_flag
      BY <1>1, <1>4, <2>1, <3>1 DEF CountInv
    <3>2. CASE /\ exit_flag' = exit_flag /\ failures' = failures /\ firstconn_flag' = FALSE
               /\ connCalculate' = connCalculate
      BY <2>1, <3>2 DEF CountInv
    <3> QED
      BY <1>1, <1>4, <3>1, <3>2
  <2>4. CASE Serving /\ Linked
    <3>1. LinkOK'
      BY <1>2, <2>4, NoReplies, LimitsAssumption DEF LinkOK, Linked, serverVars, startVars, Serving
    <3>2. FlagInv'
      BY <1>1, <1>4, <2>1, <2>4, NoReplies DEF FlagInv, Linked
    <3> QED
      BY <2>2, <2>3, <2>5, <2>6, <3>1, <3>2 DEF MakerInv
  <2>7. CASE UNCHANGED linkVars
    <3>1. LinkOK' /\ FlagInv'
      BY <1>2, <2>1, <2>7 DEF MakerInv, LinkOK, FlagInv, linkVars
    <3> QED
      BY <2>2, <2>3, <2>5, <2>6, <3>1 DEF MakerInv
  <2> QED
    BY <1>1, <1>4, <2>4, <2>7 DEF Reachable
<1> QED
  BY <1>3, <1>4

-------------------------------------------------------------------------------
(* The market maker: the receiver *)

\* A reply taken: who is logged in by it has a session.
LEMMA ReceiveKeeps ==
  ASSUME MakerInv, Receive
  PROVE  MakerInv'
<1>1. CASE MakerEnds
  BY <1>1, EndsKeeps
<1>2. CASE /\ halved' \in BOOLEAN /\ UNCHANGED serverVars
           /\ UNCHANGED <<pcBeat, pcRecv, pcTrade, mutex, clientVars, link, session, inbox,
                          failures, again>>
  BY <1>2 DEF MakerInv, PlacesOK, FlagsOK, CountsOK, LinkOK, FreshInv, CountInv, FlagInv,
              clientVars, serverVars, startVars, Serving
<1>3. CASE inbox # <<>> /\ msgHandler(Head(inbox)) /\ inbox' = Tail(inbox)
           /\ pcRecv = "recv" /\ link = "up" /\ halved' \in BOOLEAN
           /\ UNCHANGED <<serverVars, pcBeat, pcRecv, pcTrade, mutex, exit_flag,
                          firstconn_flag, connStatus, connCalculate, iniContainer, link,
                          session, failures, again>>
  <2>1. /\ inbox \in Seq(Seq(Field)) /\ Len(inbox) \in Nat /\ Len(inbox) <= MaxInbox
        /\ MaxInbox \in Nat
    BY LimitsAssumption DEF MakerInv, LinkOK
  <2>2. /\ inbox' \in Seq(Seq(Field)) /\ Len(inbox') = Len(inbox) - 1
        /\ \A i \in DOMAIN inbox' : i + 1 \in DOMAIN inbox /\ inbox'[i] = inbox[i + 1]
        /\ Head(inbox) = inbox[1] /\ 1 \in DOMAIN inbox /\ Head(Head(inbox)) = inbox[1][1]
    BY <1>3, <2>1, HeadTailProperties
  <2>3. /\ pcBeat = "beat"
        /\ loginflag' = (loginflag \/ inbox[1][1] = "1234")
        /\ orderNum' \in Nat /\ inventoryNum' \in Nat
    BY <1>3, <2>2 DEF msgHandler, MakerInv, PlacesOK, CountsOK
  <2>4. PlacesOK' /\ CountsOK' /\ FreshInv' /\ CountInv'
    BY <1>3, <2>3 DEF MakerInv, PlacesOK, CountsOK, FreshInv, CountInv
  <2>5. FlagsOK'
    BY <1>3, <2>3 DEF MakerInv, FlagsOK
  <2>6. LinkOK'
    BY <1>3, <2>1, <2>2 DEF MakerInv, LinkOK, serverVars, startVars, Serving
  <2>7. FlagInv'
    BY <1>3, <2>2, <2>3 DEF MakerInv, FlagInv
  <2> QED
    BY <2>4, <2>5, <2>6, <2>7 DEF MakerInv
<1> QED
  BY <1>1, <1>2, <1>3 DEF Receive, HandleRest

\* A receiver that is not at rest has connected before.
LEMMA Connected ==
  ASSUME MakerInv, pcRecv \in {"mark", "connect", "set", "check"}
  PROVE  /\ pcBeat = "beat" /\ ~firstconn_flag /\ failures = connCalculate
         /\ connCalculate \in 0..3 /\ ~exit_flag
BY DEF MakerInv, PlacesOK, CountsOK, CountInv

\* The mutex and the status.
LEMMA MarksKeep ==
  ASSUME MakerInv, MarkLost \/ SetStatus
  PROVE  MakerInv'
<1>1. /\ pcRecv \in {"mark", "set"} /\ pcRecv' \in {"connect", "check"}
      /\ connStatus' \in BOOLEAN
      /\ UNCHANGED <<serverVars, pcBeat, pcTrade, mutex, exit_flag, firstconn_flag,
                     connCalculate, loginflag, orderNum, inventoryNum, iniContainer, linkVars,
                     failures, again>>
  BY DEF MarkLost, SetStatus, RecvGoes
<1> QED
  BY <1>1, Connected DEF MakerInv, PlacesOK, FlagsOK, CountsOK, LinkOK, FreshInv, CountInv,
                         FlagInv, linkVars, serverVars, startVars, Serving

\* A receive that fails keeps the invariant.
LEMMA ReceiveFailsKeeps ==
  ASSUME MakerInv, ReceiveFails
  PROVE  MakerInv'
<1>1. /\ pcRecv = "recv" /\ ~exit_flag /\ link # "up" /\ link' = "closed" /\ pcRecv' = "mark"
      /\ UNCHANGED <<serverVars, pcBeat, pcTrade, mutex, clientVars, session, inbox, halved,
                     failures, again>>
  BY DEF ReceiveFails, RecvGoes
<1> QED
  BY <1>1 DEF MakerInv, PlacesOK, FlagsOK, CountsOK, LinkOK, FreshInv, CountInv,
              FlagInv, clientVars

\* A second connection may be taken for logged in.
LEMMA ReconnectKeeps ==
  ASSUME MakerInv, Reconnect
  PROVE  MakerInv'
<1>1. /\ pcRecv = "connect" /\ pcRecv' = "set"
      /\ \/ Serving /\ Linked /\ again' = TRUE
         \/ UNCHANGED <<linkVars, again>>
      /\ UNCHANGED <<serverVars, pcBeat, pcTrade, mutex, exit_flag, firstconn_flag, connStatus,
                     connCalculate, loginflag, orderNum, inventoryNum, failures>>
  BY DEF Reconnect, RecvGoes, Reachable
<1>2. PlacesOK' /\ CountsOK' /\ FreshInv' /\ CountInv'
  BY <1>1, Connected DEF MakerInv, PlacesOK, CountsOK, FreshInv, CountInv
<1>3. FlagsOK'
  BY <1>1 DEF MakerInv, FlagsOK, Linked, linkVars
<1>4. LinkOK' /\ FlagInv'
  <2>1. CASE Serving /\ Linked /\ again' = TRUE
    <3>1. LinkOK'
      BY <1>1, <2>1, NoReplies, LimitsAssumption DEF LinkOK, Linked, serverVars, startVars, Serving
    <3> QED
      BY <2>1, <3>1 DEF FlagInv
  <2>2. CASE UNCHANGED <<linkVars, again>>
    BY <1>1, <2>2 DEF MakerInv, LinkOK, FlagInv, linkVars, serverVars, startVars, Serving
  <2> QED
    BY <1>1, <2>1, <2>2
<1> QED
  BY <1>2, <1>3, <1>4 DEF MakerInv

\* The count and the flag that ends the client move together.
LEMMA CheckKeeps ==
  ASSUME MakerInv, CheckStatus
  PROVE  MakerInv'
<1>1. /\ pcRecv = "check"
      /\ connCalculate' = IF connStatus THEN 0 ELSE connCalculate + 1
      /\ failures' = IF connStatus THEN 0 ELSE failures + 1
      /\ exit_flag' = (connCalculate' > 3)
      /\ pcRecv' = IF connStatus THEN "recv" ELSE IF exit_flag' THEN "end" ELSE "connect"
      /\ UNCHANGED <<serverVars, pcBeat, pcTrade, mutex, firstconn_flag, connStatus,
                     loginflag, orderNum, inventoryNum, iniContainer, linkVars, again>>
  BY DEF CheckStatus, RecvGoes
<1>2. connCalculate' \in 0..4 /\ failures' = connCalculate'
  BY <1>1, Connected
<1>3. /\ pcRecv' \in {"recv", "end", "connect"} /\ exit_flag' \in BOOLEAN
      /\ exit_flag' => connCalculate' > 3
      /\ connCalculate' > 3 => pcRecv' = "end"
  <2>1. (connCalculate' > 3) \in BOOLEAN /\ ~(0 > 3)
    BY <1>2
  <2>2. exit_flag' \in BOOLEAN /\ (exit_flag' <=> connCalculate' > 3)
    BY <1>1, <2>1, Zenon
  <2>3. connStatus => connCalculate' = 0
    BY <1>1
  <2>4. connStatus => pcRecv' = "recv"
    BY <1>1
  <2>5. ~connStatus => pcRecv' = IF exit_flag' THEN "end" ELSE "connect"
    BY <1>1, Zenon
  <2>6. connCalculate' > 3 => ~connStatus
    BY <2>1, <2>3, Zenon
  <2> QED
    BY <2>2, <2>4, <2>5, <2>6, Zenon
<1>4. PlacesOK' /\ CountsOK' /\ FreshInv' /\ CountInv'
  BY <1>1, <1>2, <1>3, Connected DEF MakerInv, PlacesOK, CountsOK, FreshInv, CountInv
<1>5. FlagsOK'
  BY <1>1, <1>3 DEF MakerInv, FlagsOK, linkVars
<1>6. LinkOK' /\ FlagInv'
  BY <1>1 DEF MakerInv, LinkOK, FlagInv, linkVars, serverVars, startVars, Serving
<1> QED
  BY <1>4, <1>5, <1>6 DEF MakerInv

-------------------------------------------------------------------------------
\* Every step of either process keeps the invariant.
LEMMA NextMaker == MakerInv /\ [Next]_vars => MakerInv'
<1> SUFFICES ASSUME MakerInv, [Next]_vars PROVE MakerInv'
  OBVIOUS
<1>1. CASE ServerSteps
  BY <1>1, ServerKeeps
<1>2. CASE BootMaker \/ ConnectFirst \/ Beat \/ EndBeat
  BY <1>2, BootKeeps, ConnectFirstKeeps, SendersKeep, EndsKeeps DEF EndBeat
<1>3. CASE recvMsg
  BY <1>3, ReceiveKeeps, ReceiveFailsKeeps, MarksKeep, ReconnectKeeps, CheckKeeps DEF recvMsg
<1>4. CASE startTradingProcess
  BY <1>4, SendersKeep, SleepersKeep DEF startTradingProcess
<1>5. CASE NetworkFails
  BY <1>5, BrokenKeeps DEF NetworkFails
<1>6. CASE Announce \/ SigPipe
  BY <1>6, AnnounceKeeps, EndsKeeps DEF SigPipe
<1>7. CASE UNCHANGED vars
  BY <1>7 DEF vars, makerVars, MakerInv, PlacesOK, FlagsOK, CountsOK, LinkOK, FreshInv,
              CountInv, FlagInv, clientVars, linkVars, serverVars, startVars, Serving
<1> QED
  BY <1>1, <1>2, <1>3, <1>4, <1>5, <1>6, <1>7 DEF Next, MakerNext

\* The parts of the invariant of the market maker hold together: its threads, its
\* flags and counts, its connection and the replies under way.
THEOREM MakerInvariant == Spec => []MakerInv
BY InitialMaker, NextMaker, PTL DEF Spec

\* The mutex is held exactly during the sleep, the counts stay in their bounds, and
\* a connection has a serving server behind it: the four threads of the client.
THEOREM MakerTypeCorrect == Spec => []MakerTypeOK
<1>1. MakerInv => MakerTypeOK
  BY DEF MakerInv, MakerTypeOK, PlacesOK, FlagsOK, CountsOK, LinkOK
<1> QED
  BY <1>1, MakerInvariant, PTL

\* After its first connection the market maker gives up only when four attempts in a
\* row have failed: allowConn and the flags it shares with the other threads.
THEOREM GivesUpAfterFour == Spec => []GivesUpLate
<1>1. MakerInv => GivesUpLate
  BY DEF MakerInv, FreshInv, CountInv, GivesUpLate
<1> QED
  BY <1>1, MakerInvariant, PTL

\* loginflag speaks of a session the server has, on the first connection: recvMsg,
\* msgHandler, and loginMsgHandle of the server.
THEOREM FlagSpeaksTrue == Spec => []FlagTruthful
<1>1. MakerInv => FlagTruthful
  BY DEF MakerInv, FlagInv, FlagTruthful
<1> QED
  BY <1>1, MakerInvariant, PTL

-------------------------------------------------------------------------------
(* The settings *)

Shape == Seq(Seq(STRING) \ {<<>>})

\* The last and the first of a set of lines.
IsLast(x, T) == x \in T /\ \A y \in T : x >= y
IsFirst(x, T) == x \in T /\ \A y \in T : x <= y

\* A set of numbers has a first one, and a bounded one a last one.
LEMMA FirstLine ==
  ASSUME NEW T \in SUBSET Nat, T # {}
  PROVE  IsFirst(Min(T), T)
<1>1. PICK x \in T : \A y \in T : ~(<<y, x>> \in OpToRel(<, Nat))
  BY NatLessThanWellFounded, WFMin
<1>2. \A y \in T : ~(y < x)
  BY <1>1 DEF OpToRel
<1>3. \A y \in T : x <= y
  BY <1>2
<1> QED
  BY <1>3 DEF Min, IsFirst

\* The same from the other end.
LEMMA LastLine ==
  ASSUME NEW L \in Nat, NEW T \in SUBSET (0..L), T # {}
  PROVE  IsLast(Max(T), T)
<1> DEFINE D == {L - x : x \in T}
<1>1. D \in SUBSET Nat /\ D # {}
  <2>1. \A x \in T : L - x \in Nat
    OBVIOUS
  <2>2. PICK x \in T : TRUE
    OBVIOUS
  <2>3. L - x \in D
    BY <2>2
  <2> QED
    BY <2>1, <2>3
<1>2. IsFirst(Min(D), D)
  <2> HIDE DEF D
  <2> QED
    BY <1>1, FirstLine
<1>3. PICK x \in T : Min(D) = L - x
  BY <1>2 DEF IsFirst
<1>4. \A y \in T : L - x <= L - y
  BY <1>2, <1>3 DEF IsFirst
<1>5. \A y \in T : x >= y
  BY <1>4
<1> QED
  BY <1>5 DEF Max, IsLast

\* The lines InitParser reads are in the section of the target, and all of it when
\* another section follows.
InSection(f, target, n) ==
  /\ n \in DOMAIN f /\ StartPos(f, target) < n
  /\ \A k \in (StartPos(f, target) + 1)..n : f[k][1] # "["

ReadLines(f, target, twice, b) ==
  {n \in DOMAIN f : StartPos(f, target) < n /\ n < EndPos(f, target, twice, b)}

\* Where a section begins.
LEMMA StartFound ==
  ASSUME NEW f \in Shape, NEW target
  PROVE  /\ StartPos(f, target) \in 0..Len(f)
         /\ StartPos(f, target) # 0 =>
              StartPos(f, target) \in DOMAIN f /\ f[StartPos(f, target)] = Tag(target)
         /\ \A n \in DOMAIN f : f[n] = Tag(target) => n <= StartPos(f, target)
<1> DEFINE T == {0} \cup {n \in DOMAIN f : f[n] = Tag(target)}
<1>1. Len(f) \in Nat /\ DOMAIN f = 1..Len(f)
  BY DEF Shape
<1>2. T \in SUBSET (0..Len(f)) /\ T # {}
  <2>1. 0 \in T /\ 0 \in 0..Len(f)
    BY <1>1
  <2>2. \A n \in T : n = 0 \/ n \in 1..Len(f)
    BY <1>1
  <2> HIDE DEF T
  <2>3. \A n \in T : n \in 0..Len(f)
    BY <1>1, <2>1, <2>2
  <2> QED
    BY <2>1, <2>3
<1>3. IsLast(Max(T), T)
  <2> HIDE DEF T
  <2> QED
    BY <1>1, <1>2, LastLine
<1>4. StartPos(f, target) = Max(T)
  BY DEF StartPos
<1>5. \A n \in DOMAIN f : f[n] = Tag(target) => n \in T
  OBVIOUS
<1>6. Max(T) \in T /\ \A n \in T : n <= Max(T)
  <2>1. \A n \in T : n \in 0..Len(f)
    BY <1>2
  <2> HIDE DEF T
  <2> QED
    BY <1>3, <2>1 DEF IsLast
<1>7. Max(T) \in 0..Len(f)
  <2> HIDE DEF T
  <2> QED
    BY <1>2, <1>6
<1>8. Max(T) # 0 => Max(T) \in DOMAIN f /\ f[Max(T)] = Tag(target)
  <2> DEFINE x == Max(T)
  <2>1. x \in T
    BY <1>6
  <2> HIDE DEF x
  <2> QED
    BY <2>1 DEF x
<1> QED
  <2> HIDE DEF T
  <2> QED
    BY <1>4, <1>5, <1>6, <1>7, <1>8

\* What is read lies inside the section.
LEMMA LinesInSection ==
  ASSUME NEW f \in Shape, NEW target, NEW twice \in BOOLEAN, NEW b \in Nat,
         NEW n \in ReadLines(f, target, twice, b)
  PROVE  /\ InSection(f, target, n) /\ StartPos(f, target) # 0
         /\ (\E t \in TagLines(f) : t > StartPos(f, target)) =>
              \A m \in DOMAIN f : InSection(f, target, m) => m \in ReadLines(f, target, twice, b)
<1> DEFINE start == StartPos(f, target)
           end == EndPos(f, target, twice, b)
           later == {t \in TagLines(f) : t > start}
           next == IF later # {} THEN Min(later)
                   ELSE IF twice THEN Min(TagLines(f)) ELSE b
<1>1. Len(f) \in Nat /\ DOMAIN f = 1..Len(f)
  BY DEF Shape
<1>2. end = IF start = 0 THEN 0 ELSE IF next = 0 THEN Len(f) + 1 ELSE next
  BY DEF EndPos
<1>3. n \in 1..Len(f) /\ start < n /\ n < end /\ start \in 0..Len(f)
  BY <1>1, StartFound DEF ReadLines
<1>4. TagLines(f) \in SUBSET Nat /\ later \in SUBSET Nat
      /\ TagLines(f) = {t \in 1..Len(f) : f[t][1] = "["}
      /\ \A t \in 1..Len(f) : t > start /\ f[t][1] = "[" => t \in later
  BY <1>1 DEF TagLines
<1>5. start # 0 /\ start \in TagLines(f)
  <2>1. start # 0
    <3> HIDE DEF start, end, next
    <3>1. start = 0 => end = 0
      BY <1>2
    <3> QED
      BY <1>3, <3>1
  <2>2. start \in DOMAIN f /\ f[start] = Tag(target)
    BY <2>1, StartFound
  <2> QED
    BY <2>1, <2>2 DEF TagLines, Tag
<1>6. end = IF next = 0 THEN Len(f) + 1 ELSE next
  BY <1>2, <1>5
<1>7. later # {} => IsFirst(Min(later), later) /\ end = Min(later)
  <2> SUFFICES ASSUME later # {} PROVE IsFirst(Min(later), later) /\ end = Min(later)
    OBVIOUS
  <2>1. IsFirst(Min(later), later)
    <3> HIDE DEF later
    <3> QED
      BY <1>4, FirstLine
  <2>2. Min(later) \in Nat /\ Min(later) > start
    BY <1>4, <2>1 DEF IsFirst
  <2>3. Min(later) # 0
    <3> HIDE DEF later, start
    <3> QED
      BY <1>3, <2>2
  <2> QED
    BY <1>6, <2>1, <2>3
<1>8. ASSUME later = {} PROVE \A k \in (start + 1)..Len(f) : f[k][1] # "["
  BY <1>3, <1>4, <1>8
<1>9. ASSUME later # {}, NEW m \in 1..Len(f), start < m, m < end
      PROVE  \A k \in (start + 1)..m : f[k][1] # "["
  <2> SUFFICES ASSUME NEW k \in (start + 1)..m, f[k][1] = "[" PROVE FALSE
    OBVIOUS
  <2>1. k \in 1..Len(f) /\ k > start /\ k < end
    <3>1. end \in Nat
      BY <1>4, <1>7, <1>9 DEF IsFirst
    <3> QED
      BY <1>3, <1>9, <3>1
  <2>2. k \in later
    BY <1>4, <2>1
  <2>3. end <= k
    BY <1>7, <1>9, <2>2 DEF IsFirst
  <2>4. end \in Nat
    BY <1>4, <1>7, <1>9 DEF IsFirst
  <2> QED
    BY <2>1, <2>3, <2>4
<1>10. \A k \in (start + 1)..n : f[k][1] # "["
  <2>1. CASE later # {}
    BY <1>3, <1>9, <2>1
  <2>2. CASE later = {}
    BY <1>3, <1>8, <2>2
  <2> QED
    BY <2>1, <2>2
<1>11. ASSUME later # {}, NEW m \in DOMAIN f, InSection(f, target, m) PROVE m < end
  <2>1. end \in later /\ end \in Nat /\ end > start /\ end \in 1..Len(f) /\ f[end][1] = "["
    BY <1>1, <1>4, <1>7, <1>11 DEF IsFirst, TagLines
  <2>2. m \in 1..Len(f) /\ \A k \in (start + 1)..m : f[k][1] # "["
    BY <1>1, <1>11 DEF InSection
  <2> QED
    BY <1>3, <2>1, <2>2
<1>12. ASSUME \E t \in TagLines(f) : t > start, NEW m \in DOMAIN f, InSection(f, target, m)
       PROVE  m \in ReadLines(f, target, twice, b)
  <2>1. later # {}
    BY <1>12
  <2>2. m < end
    BY <1>11, <1>12, <2>1
  <2> QED
    BY <1>12, <2>2 DEF ReadLines, InSection
<1> QED
  BY <1>1, <1>3, <1>5, <1>10, <1>12 DEF InSection

\* The places of the keys that are read.
LEMMA PlacesOfKeys ==
  ASSUME NEW f \in Shape, NEW R \in SUBSET DOMAIN f
  PROVE  \A p : p \in Assignments(f, R) <=>
                  \E n \in R : \E i \in 1..(Len(f[n]) - 1) : p = <<n, i>>
<1>1. ASSUME NEW n \in R
      PROVE  {i \in DOMAIN f[n] : i < Len(f[n])} = 1..(Len(f[n]) - 1)
  <2>1. Len(f[n]) \in Nat /\ DOMAIN f[n] = 1..Len(f[n])
    BY DEF Shape
  <2> QED
    BY <2>1
<1>2. Assignments(f, R) = UNION {{n} \X (1..(Len(f[n]) - 1)) : n \in R}
  BY <1>1 DEF Assignments
<1> QED
  BY <1>2

\* A value that is read is the one the file gives the key, however often the file was
\* read before and whatever lies behind the vector.
LEMMA ReadsConfigured ==
  ASSUME NEW f \in Shape, NEW target, NEW key, key # "[",
         Plain(f, target, key), NEW twice \in BOOLEAN, NEW b \in Nat,
         key \in DOMAIN readLine(f, target, twice, b)
  PROVE  readLine(f, target, twice, b)[key] = Configured(f, target, key)
<1> DEFINE start == StartPos(f, target)
           R == ReadLines(f, target, twice, b)
           P == {p \in Assignments(f, R) : f[p[1]][p[2]] = key}
           N == {p[1] : p \in P}
           Keyed(n) == \E i \in 1..(Len(f[n]) - 1) : f[n][i] = key
           section == {n \in DOMAIN f :
                         \E m \in 1..n : /\ f[m] = Tag(target)
                                         /\ \A k \in (m + 1)..n : f[k][1] # "["}
           C == {n \in section : Len(f[n]) > 1 /\ f[n][1] = key}
<1>1. Len(f) \in Nat /\ DOMAIN f = 1..Len(f) /\ R \in SUBSET DOMAIN f
      /\ \A n \in 1..Len(f) : Len(f[n]) \in Nat /\ f[n] \in Seq(STRING)
  BY DEF Shape, ReadLines
<1>2. readLine(f, target, twice, b) =
        [k \in {f[p[1]][p[2]] : p \in Assignments(f, R)} |-> LastValue(f, R, k)]
  BY DEF readLine, ReadLines
<1>3. P # {} /\ readLine(f, target, twice, b)[key] = LastValue(f, R, key)
  <2> HIDE DEF R
  <2> QED
    BY <1>2
<1>4. \A p : p \in P <=> \E n \in R : \E i \in 1..(Len(f[n]) - 1) : p = <<n, i>> /\ f[n][i] = key
  <2>1. \A p : p \in Assignments(f, R) <=>
                 \E n \in R : \E i \in 1..(Len(f[n]) - 1) : p = <<n, i>>
    <3> HIDE DEF R
    <3> QED
      BY <1>1, PlacesOfKeys
  <2> HIDE DEF R
  <2> QED
    BY <2>1
<1> HIDE DEF P
<1>5. PICK r \in R : Keyed(r)
  BY <1>3, <1>4
<1>6. start # 0 /\ start \in DOMAIN f /\ f[start] = Tag(target) /\ start \in 1..Len(f)
  BY <1>1, <1>5, LinesInSection, StartFound
<1>7. \A n \in R : InSection(f, target, n)
  BY LinesInSection
<1> HIDE DEF R
<1>8. /\ \A m, n \in DOMAIN f : f[m] = Tag(target) /\ f[n] = Tag(target) => m = n
      /\ \A n \in DOMAIN f : InSection(f, target, n) /\ Keyed(n) =>
           \A i \in 1..(Len(f[n]) - 1) : f[n][i] = key => i = 1
      /\ \/ \E t \in TagLines(f) : t > start
         \/ \A m, n \in DOMAIN f :
               (/\ InSection(f, target, m) /\ Keyed(m)
                /\ InSection(f, target, n) /\ Keyed(n)) => m = n
  <2> DEFINE sec == {n \in DOMAIN f :
                       \E m \in 1..(n - 1) : /\ f[m] = Tag(target)
                                             /\ \A k \in (m + 1)..n : f[k][1] # "["}
             keyed == {n \in sec : Keyed(n)}
  <2>1. /\ \A m, n \in DOMAIN f : f[m] = Tag(target) /\ f[n] = Tag(target) => m = n
        /\ \A n \in keyed : \A i \in 1..(Len(f[n]) - 1) : f[n][i] = key => i = 1
        /\ \/ \E t \in TagLines(f) : t > start
           \/ \A m, n \in keyed : m = n
    BY DEF Plain
  <2>2. \A n \in DOMAIN f : InSection(f, target, n) => n \in sec
    <3> SUFFICES ASSUME NEW n \in DOMAIN f, InSection(f, target, n) PROVE n \in sec
      OBVIOUS
    <3>1. start \in 1..(n - 1) /\ \A k \in (start + 1)..n : f[k][1] # "["
      BY <1>1, <1>6 DEF InSection
    <3> QED
      BY <1>6, <3>1
  <2> HIDE DEF sec, Keyed
  <2>3. \A n \in DOMAIN f : InSection(f, target, n) /\ Keyed(n) => n \in keyed
    BY <2>2
  <2> HIDE DEF keyed
  <2>4. \A n \in DOMAIN f : InSection(f, target, n) /\ Keyed(n) =>
          \A i \in 1..(Len(f[n]) - 1) : f[n][i] = key => i = 1
    BY <2>1, <2>3
  <2>5. \/ \E t \in TagLines(f) : t > start
        \/ \A m, n \in DOMAIN f :
              (/\ InSection(f, target, m) /\ Keyed(m)
               /\ InSection(f, target, n) /\ Keyed(n)) => m = n
    <3> DEFINE Once ==
           \A m, n \in DOMAIN f :
              (/\ InSection(f, target, m) /\ Keyed(m)
               /\ InSection(f, target, n) /\ Keyed(n)) => m = n
    <3>1. ASSUME \A m, n \in keyed : m = n PROVE Once
      <4> SUFFICES ASSUME NEW m \in DOMAIN f, NEW n \in DOMAIN f,
                          InSection(f, target, m), Keyed(m), InSection(f, target, n), Keyed(n)
                   PROVE  m = n
        OBVIOUS
      <4>1. m \in keyed /\ n \in keyed
        BY <2>3
      <4> QED
        BY <3>1, <4>1
    <3>2. (\E t \in TagLines(f) : t > start) \/ Once
      <4> HIDE DEF start, Once
      <4> QED
        BY <2>1, <3>1
    <3> QED
      BY <3>2
  <2> QED
    BY <2>1, <2>4, <2>5
<1>9. \A n \in C : n \in DOMAIN f /\ InSection(f, target, n) /\ 1 \in 1..(Len(f[n]) - 1)
                   /\ f[n][1] = key
  <2> SUFFICES ASSUME NEW n \in C
               PROVE  /\ n \in DOMAIN f /\ InSection(f, target, n) /\ 1 \in 1..(Len(f[n]) - 1)
                      /\ f[n][1] = key
    OBVIOUS
  <2>1. n \in DOMAIN f /\ Len(f[n]) > 1 /\ f[n][1] = key
    OBVIOUS
  <2>2. PICK m \in 1..n : f[m] = Tag(target) /\ \A k \in (m + 1)..n : f[k][1] # "["
    OBVIOUS
  <2>3. m = start
    <3>1. m \in DOMAIN f
      BY <1>1, <2>1
    <3> HIDE DEF start
    <3> QED
      BY <1>6, <1>8, <2>2, <3>1
  <2>4. f[start][1] = "["
    BY <1>6 DEF Tag
  <2>5. n # start
    BY <2>1, <2>4
  <2>6. start < n
    BY <1>1, <2>1, <2>2, <2>3, <2>5
  <2>7. InSection(f, target, n)
    BY <2>1, <2>2, <2>3, <2>6 DEF InSection
  <2> QED
    BY <1>1, <2>1, <2>7
<1>10. \A p \in P : p[1] \in C /\ p[1] \in R /\ p[2] = 1
  <2> SUFFICES ASSUME NEW p \in P PROVE p[1] \in C /\ p[1] \in R /\ p[2] = 1
    OBVIOUS
  <2>1. PICK n \in R : \E i \in 1..(Len(f[n]) - 1) : p = <<n, i>> /\ f[n][i] = key
    BY <1>4
  <2>2. PICK i \in 1..(Len(f[n]) - 1) : p = <<n, i>> /\ f[n][i] = key
    BY <2>1
  <2>3. n \in DOMAIN f /\ InSection(f, target, n) /\ i = 1
    BY <1>1, <1>7, <1>8, <2>2
  <2>4. n \in section
    <3>1. start \in 1..n /\ \A k \in (start + 1)..n : f[k][1] # "["
      BY <1>1, <1>6, <2>3 DEF InSection
    <3> QED
      BY <1>6, <2>3, <3>1
  <2>5. Len(f[n]) > 1
    BY <1>1, <2>2, <2>3
  <2> QED
    BY <2>2, <2>3, <2>4, <2>5
<1>11. \A n \in C \cap R : <<n, 1>> \in P
  BY <1>4, <1>9
<1>12. C \subseteq R
  <2>1. CASE \E t \in TagLines(f) : t > start
    BY <1>5, <1>9, <2>1, LinesInSection DEF R
  <2>2. CASE \A m, n \in DOMAIN f :
                (/\ InSection(f, target, m) /\ Keyed(m)
                 /\ InSection(f, target, n) /\ Keyed(n)) => m = n
    BY <1>1, <1>5, <1>7, <1>9, <2>2
  <2> QED
    BY <1>8, <2>1, <2>2
<1> HIDE DEF C, section
<1>13. N = C
  <2>1. \A n \in C : \E p \in P : p[1] = n
    <3> SUFFICES ASSUME NEW n \in C PROVE \E p \in P : p[1] = n
      OBVIOUS
    <3>1. <<n, 1>> \in P /\ <<n, 1>>[1] = n
      BY <1>11, <1>12
    <3> QED
      BY <3>1
  <2>2. N \subseteq C
    BY <1>10
  <2>3. C \subseteq N
    BY <2>1
  <2> QED
    BY <2>2, <2>3
<1>14. C # {} /\ C \in SUBSET (0..Len(f))
  <2>1. PICK p \in P : TRUE
    BY <1>3
  <2>2. p[1] \in C
    BY <1>10, <2>1
  <2>3. \A n \in C : n \in 1..Len(f)
    BY <1>1, <1>9
  <2>4. \A n \in C : n \in 0..Len(f)
    BY <1>1, <2>3
  <2> QED
    BY <2>2, <2>4
<1> DEFINE n == Max(C)
<1>15. n \in C
  BY <1>1, <1>14, LastLine DEF IsLast
<1> HIDE DEF n
<1> DEFINE places == {p[2] : p \in {q \in P : q[1] = n}}
<1>16. places = {1}
  BY <1>10, <1>11, <1>12, <1>15
<1>17. Max({1}) = 1
  <2>1. IsLast(Max({1}), {1})
    <3>1. {1} \in SUBSET (0..1) /\ {1} # {}
      OBVIOUS
    <3> QED
      BY <3>1, LastLine
  <2> QED
    BY <2>1 DEF IsLast
<1>18. LastValue(f, R, key) = SubSeq(f[n], 1 + 1, Len(f[n]))
  <2>1. LastValue(f, R, key) =
          SubSeq(f[Max(N)], Max({p[2] : p \in {q \in P : q[1] = Max(N)}}) + 1, Len(f[Max(N)]))
    BY DEF LastValue, P
  <2>2. Max(N) = n
    BY <1>13 DEF n
  <2> HIDE DEF N
  <2> QED
    BY <1>16, <1>17, <2>1, <2>2
<1>19. SubSeq(f[n], 1 + 1, Len(f[n])) = Tail(f[n])
  <2>1. f[n] \in Seq(STRING) /\ Len(f[n]) > 1
    BY <1>1, <1>9, <1>15
  <2> QED
    BY <2>1
<1>20. Configured(f, target, key) = Tail(f[n])
  <2>1. Configured(f, target, key) = IF C = {} THEN <<>> ELSE Tail(f[Max(C)])
    BY DEF Configured, C, section
  <2> QED
    BY <1>14, <2>1 DEF n
<1> QED
  BY <1>3, <1>18, <1>19, <1>20

\* What the parsers read, and what the processes have from them.
ConfInv ==
  /\ file \in Files
  /\ reading = [s \in Sections |-> {readLine(file, s, FALSE, b) : b \in Beyond}]
  /\ rereading = [s \in Sections |-> readLine(file, s, TRUE, 0)]
  /\ UsesConfigured

\* A port read is the one of its section, also with the line numbers of two readings.
LEMMA PortsRead ==
  ASSUME FilesPlain, ConfInv, NEW s \in {"socket", "TraderServer"},
         NEW ini \in reading[s] \cup {rereading[s]}, "port" \in DOMAIN ini
  PROVE  ini["port"] = Configured(file, s, "port")
<1>1. file \in Shape /\ Plain(file, s, "port") /\ s \in Sections
  <2>1. file \in Files /\ Files \subseteq Shape
    BY FilesAssumption DEF ConfInv, Shape
  <2>2. Plain(file, s, "port")
    BY <2>1 DEF FilesPlain
  <2> QED
    BY <2>1, <2>2 DEF Sections
<1>2. PICK twice \in BOOLEAN, b \in Nat : ini = readLine(file, s, twice, b)
  <2>1. reading[s] = {readLine(file, s, FALSE, b) : b \in Beyond}
        /\ rereading[s] = readLine(file, s, TRUE, 0)
    BY <1>1 DEF ConfInv
  <2> QED
    BY <2>1, ModesAssumption
<1>3. "port" # "["
  OBVIOUS
<1>4. "port" \in DOMAIN readLine(file, s, twice, b)
  BY <1>2
<1>5. readLine(file, s, twice, b)["port"] = Configured(file, s, "port")
  BY <1>1, <1>3, <1>4, ReadsConfigured
<1> QED
  BY <1>2, <1>5

\* At first nobody serves and nobody has read.
LEMMA InitialConf == Init => ConfInv
BY DEF Init, ServerInit, ConfInv, UsesConfigured, Serving

\* Every step keeps it: who begins to serve or to look for the server has just read.
LEMMA NextConf == FilesPlain /\ ConfInv /\ [Next]_vars => ConfInv'
<1> SUFFICES ASSUME FilesPlain, ConfInv, [Next]_vars PROVE ConfInv'
  OBVIOUS
<1>1. UNCHANGED <<file, reading, rereading>>
  BY DEF Next, ServerSteps, StartStep, Launch, ConnectTrader, ConnectServer, Connect,
         getTradingData, getProductList, getExistOrder, getUserData, socketini, DbUp, DbDown,
         PortFreed, StopServing, MakerNext, BootMaker, ConnectFirst, Beat, EndBeat, recvMsg,
         Receive, ReceiveFails, MarkLost, Reconnect, SetStatus, CheckStatus,
         startTradingProcess, SendPair, LockMutex, Wake, NetworkFails, Announce, SigPipe,
         vars, serverVars, world
<1>2. ASSUME Serving' PROVE listening' = Configured(file, "socket", "port")
  <2>1. CASE socketini
    <3>1. PICK ini \in reading["socket"] :
            IF "port" \in DOMAIN ini /\ port = "free" /\ mode # "test"
            THEN listening' = ini["port"]
            ELSE Fail
      BY <2>1 DEF socketini
    <3>2. "port" \in DOMAIN ini /\ listening' = ini["port"]
      BY <1>2, <3>1 DEF Fail, Serving
    <3> QED
      BY <3>2, PortsRead
  <2>2. CASE ~socketini
    <3>1. Serving /\ listening' = listening
      BY <1>2, <2>2
         DEF Next, ServerSteps, StartStep, Launch, ConnectTrader, ConnectServer, Connect,
             getTradingData, getProductList, getExistOrder, getUserData, Query, Fail, DbUp,
             DbDown, PortFreed, StopServing, MakerNext, BootMaker, ConnectFirst, Beat,
             EndBeat, recvMsg, Receive, ReceiveFails, MarkLost, Reconnect, SetStatus,
             CheckStatus, startTradingProcess, SendPair, LockMutex, Wake, NetworkFails,
             Announce, SigPipe, vars, serverVars, startVars, Serving
    <3> QED
      BY <3>1 DEF ConfInv, UsesConfigured
  <2> QED
    BY <2>1, <2>2
<1>3. ASSUME pcBeat' = "beat"
      PROVE  /\ "port" \in DOMAIN iniContainer'
             /\ iniContainer'["port"] = Configured(file, "TraderServer", "port")
  <2>1. CASE ConnectFirst
    <3>1. PICK ini \in reading["TraderServer"] :
            IF "port" \notin DOMAIN ini THEN MakerEnds ELSE iniContainer' = ini
      BY <2>1 DEF ConnectFirst
    <3>2. "port" \in DOMAIN ini /\ iniContainer' = ini
      BY <1>3, <3>1 DEF MakerEnds
    <3> QED
      BY <3>2, PortsRead
  <2>2. CASE Reconnect
    <3> DEFINE more == rereading["TraderServer"]
    <3>1. /\ iniContainer' = Overwrite(iniContainer, more) /\ pcBeat = "beat"
          /\ "port" \in DOMAIN more => more["port"] = Configured(file, "TraderServer", "port")
      BY <1>3, <2>2, PortsRead DEF Reconnect
    <3>2. /\ "port" \in DOMAIN iniContainer
          /\ iniContainer["port"] = Configured(file, "TraderServer", "port")
      BY <3>1 DEF ConfInv, UsesConfigured
    <3> HIDE DEF more
    <3> QED
      BY <3>1, <3>2 DEF Overwrite
  <2>3. CASE ~ConnectFirst /\ ~Reconnect
    <3>1. pcBeat = "beat" /\ iniContainer' = iniContainer
      BY <1>3, <2>3
         DEF Next, ServerSteps, MakerNext, BootMaker, Beat, EndBeat, recvMsg, Receive,
             HandleRest, ReceiveFails, MarkLost, SetStatus, CheckStatus,
             startTradingProcess, SendPair, LockMutex, Wake, NetworkFails, Announce,
             SigPipe, MakerEnds, vars, makerVars, clientVars
    <3> QED
      BY <3>1 DEF ConfInv, UsesConfigured
  <2> QED
    BY <2>1, <2>2, <2>3
<1> QED
  BY <1>1, <1>2, <1>3 DEF ConfInv, UsesConfigured, Serving

\* With settings files that name each of the two sections once and give its port
\* before a first "=" only (and once, in a last section), the server listens and the
\* market maker looks for it where the file says, whatever InitParser finds behind
\* its vector and however often the file was read before: findLine and readLine.
THEOREM PortsConfigured == FilesPlain /\ Spec => []UsesConfigured
<1>1. FilesPlain => FilesPlain'
  BY DEF FilesPlain
<1>2. ConfInv => UsesConfigured
  BY DEF ConfInv
<1> QED
  BY <1>1, <1>2, InitialConf, NextConf, PTL DEF Spec
===============================================================================
