------------------------------ MODULE MarketMaker ------------------------------
(***************************************************************************)
(* The market maker, a client of the server Startup starts; docker starts  *)
(* it again as well.                                                       *)
(*                                                                         *)
(*   allowConn             connects; the first failure, or the fourth in   *)
(*                         a row later, sets exit_flag_                    *)
(*   heartbeatSending      logs in until loginflag is set, then asks for   *)
(*                         the price; the process ends with this loop      *)
(*   recvMsg, msgHandler   takes replies, connects again when that fails   *)
(*   startTradingProcess   sends a pair of orders every ten seconds and    *)
(*                         sleeps with the mutex                           *)
(*                                                                         *)
(* The server handles a message when it is sent.  Replies the client makes *)
(* nothing of in any case (heartbeats, prices, the text login) are left    *)
(* out.  A reply is a padded block that recv may return in two parts, the  *)
(* text in the first.                                                      *)
(***************************************************************************)
EXTENDS Startup

CONSTANTS
  OrderLimitation, InventoryLimit,
  MaxInbox    \* bound on the replies under way

ASSUME LimitsAssumption ==
  OrderLimitation \in Nat /\ InventoryLimit \in Nat /\ MaxInbox \in Nat \ {0}

VARIABLES
  pcBeat,      \* "down", "boot", "beat"
  pcRecv,      \* "off", "recv", "mark", "connect", "set", "check", "end"
  pcTrade,     \* "off", "send", "quoted" or "skipped" (before the lock), "sleep"
  mutex,       \* "free", or "trade" while startTradingProcess sleeps
  exit_flag, firstconn_flag, connStatus, connCalculate, loginflag,
  orderNum, inventoryNum,
  iniContainer,   \* of its InitParser
  \* the connection
  link,        \* "closed", "up", or "broken" when only the server side is gone
  session,     \* the server's login_flag_ for it, "in" or "out"
  inbox,       \* replies under way
  halved,      \* whether the next recv begins inside a block
  \* history
  failures,    \* failed attempts since the last connection, up to four
  again        \* whether this process connected a second time

clientVars == <<exit_flag, firstconn_flag, connStatus, connCalculate, loginflag,
                orderNum, inventoryNum, iniContainer>>
linkVars == <<link, session, inbox, halved>>
makerVars == <<pcBeat, pcRecv, pcTrade, mutex, clientVars, linkVars, failures, again>>
vars == <<serverVars, makerVars>>

Empty == [k \in {} |-> <<>>]

Init ==
  /\ ServerInit
  /\ pcBeat = "down" /\ pcRecv = "off" /\ pcTrade = "off" /\ mutex = "free"
  /\ exit_flag = FALSE /\ firstconn_flag = TRUE /\ connStatus = FALSE
  /\ connCalculate = 0 /\ loginflag = FALSE /\ orderNum = 0 /\ inventoryNum = 0
  /\ iniContainer = Empty
  /\ link = "closed" /\ session = "out" /\ inbox = <<>> /\ halved = FALSE
  /\ failures = 0 /\ again = FALSE

\* The process ends, and leaves nothing to the next one.
MakerEnds ==
  /\ pcBeat' = "down" /\ pcRecv' = "off" /\ pcTrade' = "off" /\ mutex' = "free"
  /\ exit_flag' = FALSE /\ firstconn_flag' = TRUE /\ connStatus' = FALSE
  /\ connCalculate' = 0 /\ loginflag' = FALSE /\ orderNum' = 0 /\ inventoryNum' = 0
  /\ iniContainer' = Empty
  /\ link' = "closed" /\ session' = "out" /\ inbox' = <<>> /\ halved' = FALSE
  /\ failures' = 0 /\ again' = FALSE

BootMaker ==
  /\ pcBeat = "down" /\ pcBeat' = "boot"
  /\ UNCHANGED <<serverVars, pcRecv, pcTrade, mutex, clientVars, linkVars, failures, again>>

-------------------------------------------------------------------------------
(* The connection *)

\* connect succeeds when the server listens where the client looks for it.
Reachable(ini) == Serving /\ "port" \in DOMAIN ini /\ listening = ini["port"]

\* The server does not initialise login_flag_ of a new connection.
Linked == /\ link' = "up" /\ session' \in {"in", "out"}
          /\ inbox' = <<>> /\ halved' = FALSE

\* The server ends, or the network fails.
LinkBroken ==
  /\ link' = IF link = "up" THEN "broken" ELSE link
  /\ session' = "out" /\ inbox' = <<>> /\ halved' = FALSE

ServerSteps ==
  \/ StartStep /\ UNCHANGED makerVars
  \/ (DbUp \/ DbDown \/ PortFreed) /\ UNCHANGED makerVars
  \/ /\ StopServing /\ LinkBroken
     /\ UNCHANGED <<pcBeat, pcRecv, pcTrade, mutex, clientVars, failures, again>>

NetworkFails ==
  /\ link = "up" /\ LinkBroken
  /\ UNCHANGED <<serverVars, pcBeat, pcRecv, pcTrade, mutex, clientVars, failures, again>>

\* Mutant: the text is sent as it is.
BareLine(text) == text

\* The server ends every text with a newline, so that its last field is another.
Line(text) == Append(text, "newline")

\* What the server makes of a message on a connection that is up.
Serve(message) ==
  /\ Len(inbox) < MaxInbox
  /\ CASE message = "login" /\ session = "out" ->
            session' = "in" /\ inbox' = Append(inbox, Line(<<"1234", "number">>))
       [] message = "orders" /\ session = "in" ->
            inbox' = Append(inbox, Line(<<"nid", "success">>)) /\ UNCHANGED session
       [] OTHER -> UNCHANGED <<session, inbox>>
  /\ UNCHANGED <<link, halved>>

\* An order of the market maker executes some time.  The bound leaves room for an
\* answer.
Announce ==
  /\ link = "up" /\ session = "in" /\ Len(inbox) + 1 < MaxInbox
  /\ inbox' = Append(inbox, Line(<<"nid", "OrderExec">>))
  /\ UNCHANGED <<serverVars, pcBeat, pcRecv, pcTrade, mutex, clientVars, link, session,
                 halved, failures, again>>

\* sendMsg.  Without a connection send fails, which is caught, or raises SIGPIPE,
\* which is not.
sendMsg(message) == IF link = "up" THEN Serve(message) ELSE UNCHANGED linkVars

SigPipe ==
  /\ link # "up" /\ ~exit_flag /\ pcBeat = "beat"
  /\ MakerEnds /\ UNCHANGED serverVars

-------------------------------------------------------------------------------
(* The constructor and heartbeatSending *)

\* Mutant: a connection counts as a login.
ConnectFlagged ==
  /\ pcBeat = "boot"
  /\ \E ini \in reading["TraderServer"] :
       IF "port" \notin DOMAIN ini THEN MakerEnds
       ELSE /\ iniContainer' = ini
            /\ pcBeat' = "beat" /\ pcRecv' = "recv" /\ pcTrade' = "send"
            /\ IF Reachable(ini)
               THEN /\ Linked /\ connStatus' = TRUE /\ firstconn_flag' = FALSE
                    /\ loginflag' = TRUE
                    /\ UNCHANGED <<exit_flag, failures>>
               ELSE /\ exit_flag' = TRUE /\ failures' = 1
                    /\ UNCHANGED <<linkVars, connStatus, firstconn_flag, loginflag>>
            /\ UNCHANGED <<mutex, connCalculate, orderNum, inventoryNum, again>>
  /\ UNCHANGED serverVars

\* The first allowConn, before there are threads.  stoi of a port that was not read
\* ends the process.
ConnectFirst ==
  /\ pcBeat = "boot"
  /\ \E ini \in reading["TraderServer"] :
       IF "port" \notin DOMAIN ini THEN MakerEnds
       ELSE /\ iniContainer' = ini
            /\ pcBeat' = "beat" /\ pcRecv' = "recv" /\ pcTrade' = "send"
            /\ IF Reachable(ini)
               THEN /\ Linked /\ connStatus' = TRUE /\ firstconn_flag' = FALSE
                    /\ UNCHANGED <<exit_flag, failures>>
               ELSE /\ exit_flag' = TRUE /\ failures' = 1
                    /\ UNCHANGED <<linkVars, connStatus, firstconn_flag>>
            /\ UNCHANGED <<mutex, connCalculate, loginflag, orderNum, inventoryNum,
                           again>>
  /\ UNCHANGED serverVars

Beat ==
  /\ pcBeat = "beat" /\ ~exit_flag
  /\ sendMsg(IF loginflag THEN "price" ELSE "login")
  /\ UNCHANGED <<serverVars, pcBeat, pcRecv, pcTrade, mutex, clientVars, failures, again>>

\* heatbeat.join() returns, and so does main.
EndBeat == pcBeat = "beat" /\ exit_flag /\ MakerEnds /\ UNCHANGED serverVars

-------------------------------------------------------------------------------
(* recvMsg and msgHandler *)

\* The rest of a block is no message: an empty text has no first field, and
\* whatever else is there is no code.
HandleRest ==
  \/ MakerEnds
  \/ /\ halved' \in BOOLEAN
     /\ UNCHANGED <<pcBeat, pcRecv, pcTrade, mutex, clientVars, link, session, inbox,
                    failures, again>>

msgHandler(reply) ==
  /\ loginflag' = (loginflag \/ Head(reply) = "1234")
  /\ orderNum' = IF reply = <<"nid", "success">> THEN orderNum + 1 ELSE orderNum
  /\ inventoryNum' = IF reply = <<"nid", "exec">> THEN inventoryNum + 1 ELSE inventoryNum

Receive ==
  /\ pcRecv = "recv" /\ ~exit_flag /\ link = "up"
  /\ IF halved THEN HandleRest
     ELSE /\ inbox # <<>> /\ msgHandler(Head(inbox)) /\ inbox' = Tail(inbox)
          /\ halved' \in BOOLEAN
          /\ UNCHANGED <<pcBeat, pcRecv, pcTrade, mutex, exit_flag, firstconn_flag,
                         connStatus, connCalculate, iniContainer, link, session, failures,
                         again>>
  /\ UNCHANGED serverVars

RecvGoes(l) == pcRecv' = l

\* recv fails: close.
ReceiveFails ==
  /\ pcRecv = "recv" /\ ~exit_flag /\ link # "up"
  /\ link' = "closed" /\ RecvGoes("mark")
  /\ UNCHANGED <<serverVars, pcBeat, pcTrade, mutex, clientVars, session, inbox, halved,
                 failures, again>>

\* setConnStatus and getConnStatus, which take the mutex for a moment.
MarkLost ==
  /\ pcRecv = "mark" /\ mutex = "free"
  /\ connStatus' = FALSE /\ RecvGoes("connect")
  /\ UNCHANGED <<serverVars, pcBeat, pcTrade, mutex, exit_flag, firstconn_flag,
                 connCalculate, loginflag, orderNum, inventoryNum, iniContainer, linkVars,
                 failures, again>>

\* socketini, which reads the file again with the same parser.
Reconnect ==
  /\ pcRecv = "connect" /\ RecvGoes("set")
  /\ LET ini == Overwrite(iniContainer, rereading["TraderServer"])
     IN  /\ iniContainer' = ini
         /\ IF Reachable(ini) THEN Linked /\ again' = TRUE
            ELSE UNCHANGED <<linkVars, again>>
  /\ UNCHANGED <<serverVars, pcBeat, pcTrade, mutex, exit_flag, firstconn_flag, connStatus,
                 connCalculate, loginflag, orderNum, inventoryNum, failures>>

SetStatus ==
  /\ pcRecv = "set" /\ mutex = "free"
  /\ connStatus' = (link # "closed") /\ RecvGoes("check")
  /\ UNCHANGED <<serverVars, pcBeat, pcTrade, mutex, exit_flag, firstconn_flag,
                 connCalculate, loginflag, orderNum, inventoryNum, iniContainer, linkVars,
                 failures, again>>

\* Mutant: connCalculate is not set back.
CheckCounting ==
  /\ pcRecv = "check" /\ mutex = "free"
  /\ connCalculate' = IF connStatus THEN connCalculate ELSE connCalculate + 1
  /\ failures' = IF connStatus THEN 0 ELSE failures + 1
  /\ exit_flag' = (connCalculate' > 3)
  /\ RecvGoes(IF connStatus THEN "recv" ELSE IF exit_flag' THEN "end" ELSE "connect")
  /\ UNCHANGED <<serverVars, pcBeat, pcTrade, mutex, firstconn_flag, connStatus,
                 loginflag, orderNum, inventoryNum, iniContainer, linkVars, again>>

\* allowConn, after the first connection.
CheckStatus ==
  /\ pcRecv = "check" /\ mutex = "free"
  /\ connCalculate' = IF connStatus THEN 0 ELSE connCalculate + 1
  /\ failures' = IF connStatus THEN 0 ELSE failures + 1
  /\ exit_flag' = (connCalculate' > 3)
  /\ RecvGoes(IF connStatus THEN "recv" ELSE IF exit_flag' THEN "end" ELSE "connect")
  /\ UNCHANGED <<serverVars, pcBeat, pcTrade, mutex, firstconn_flag, connStatus,
                 loginflag, orderNum, inventoryNum, iniContainer, linkVars, again>>

recvMsg == Receive \/ ReceiveFails \/ MarkLost \/ Reconnect \/ SetStatus \/ CheckStatus

-------------------------------------------------------------------------------
(* startTradingProcess *)

TradeGoes(l) == pcTrade' = l

SendPair ==
  /\ pcTrade = "send" /\ ~exit_flag
  /\ IF orderNum < OrderLimitation
     THEN sendMsg("orders") /\ TradeGoes("quoted")
     ELSE UNCHANGED linkVars /\ TradeGoes("skipped")
  /\ UNCHANGED <<serverVars, pcBeat, pcRecv, mutex, clientVars, failures, again>>

\* The lock, and the wait for room in the inventory.
LockMutex ==
  /\ pcTrade \in {"quoted", "skipped"}
  /\ mutex = "free" /\ inventoryNum < InventoryLimit
  /\ mutex' = "trade" /\ TradeGoes("sleep")
  /\ UNCHANGED <<serverVars, pcBeat, pcRecv, clientVars, linkVars, failures, again>>

\* Mutant: the lock outlives the loop's body.
WakeLocked ==
  /\ pcTrade = "sleep"
  /\ TradeGoes("send")
  /\ UNCHANGED <<serverVars, pcBeat, pcRecv, mutex, clientVars, linkVars, failures, again>>

\* The end of the sleep, and of the loop's body.
Wake ==
  /\ pcTrade = "sleep"
  /\ mutex' = "free" /\ TradeGoes("send")
  /\ UNCHANGED <<serverVars, pcBeat, pcRecv, clientVars, linkVars, failures, again>>

startTradingProcess == SendPair \/ LockMutex \/ Wake

-------------------------------------------------------------------------------
MakerNext ==
  \/ BootMaker \/ ConnectFirst \/ Beat \/ EndBeat
  \/ recvMsg \/ startTradingProcess
  \/ NetworkFails \/ Announce \/ SigPipe

Next == ServerSteps \/ MakerNext

Spec == Init /\ [][Next]_vars

\* Both processes are scheduled and started again, and every thread of the market
\* maker runs.  The mutex is free again and again, during the two sends of every
\* ten seconds: the receiving thread, which is woken then, gets it some time.
FairSpec ==
  /\ Spec
  /\ ServerFair
  /\ WF_vars(BootMaker \/ ConnectFirst \/ Beat \/ EndBeat)
  /\ WF_vars(startTradingProcess)
  /\ SF_vars(recvMsg)

-------------------------------------------------------------------------------
\* The shape of the state: the mutex is held exactly during the sleep, threads run
\* while their process does, and there is a session only on a connection.
MakerTypeOK ==
  /\ pcBeat \in {"down", "boot", "beat"}
  /\ pcRecv \in {"off", "recv", "mark", "connect", "set", "check", "end"}
  /\ pcTrade \in {"off", "send", "quoted", "skipped", "sleep"}
  /\ (pcBeat = "beat") = (pcRecv # "off") /\ (pcBeat = "beat") = (pcTrade # "off")
  /\ mutex = (IF pcTrade = "sleep" THEN "trade" ELSE "free")
  /\ {exit_flag, firstconn_flag, connStatus, loginflag, halved, again} \subseteq BOOLEAN
  /\ {connCalculate, failures} \subseteq 0..4
  /\ orderNum \in Nat /\ inventoryNum \in Nat
  /\ link \in {"closed", "up", "broken"} /\ Len(inbox) <= MaxInbox
  /\ link # "up" => session = "out" /\ inbox = <<>>
  /\ link = "up" => Serving

\* The server listens, and the market maker looks for it, where their sections say,
\* also after the file was read again by a parser that has the line numbers of two
\* readings.
UsesConfigured ==
  /\ Serving => listening = Configured(file, "socket", "port")
  /\ pcBeat = "beat" => /\ "port" \in DOMAIN iniContainer
                        /\ iniContainer["port"] = Configured(file, "TraderServer", "port")

\* Files from which both ports are read as they are meant.
FilesPlain ==
  \A f \in Files : Plain(f, "socket", "port") /\ Plain(f, "TraderServer", "port")

\* The market maker gives up a connection it had only after four attempts in a row
\* have failed, however many it has lost and found again before.
GivesUpLate == exit_flag => firstconn_flag \/ failures > 3

\* It takes itself for logged in without being so only on a second connection: the
\* flag is never set back.
FlagTruthful == loginflag /\ link = "up" => session = "in" \/ again

\* On its first connection a market maker is logged in, although its orders are
\* under way before the answer, unless the connection is lost.
FirstSessionLogsIn ==
  (link = "up" /\ ~again) ~> (session = "in" \/ link # "up")

\* A lost connection is noticed and another one made, or the process ends, although
\* startTradingProcess holds the mutex nearly all the time.
ConnectsAgain ==
  (pcBeat = "beat" /\ link # "up") ~> (link = "up" \/ pcBeat # "beat")

\* The market maker sends pair after pair as long as it is connected: its limits
\* bind no one, since no answer is counted.
KeepsQuoting == []<>(pcTrade = "quoted") \/ []<>(link # "up")
===============================================================================
