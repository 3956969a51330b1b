------------------------------- MODULE OrderDesk -------------------------------
(***************************************************************************)
(* Cancel and modify requests, and the restarts between them.              *)
(*                                                                         *)
(*   msgHandler      queues a request and, for want of a break, goes on to *)
(*                   the code of a price request, which dereferences a     *)
(*                   null pointer: the process ends                        *)
(*   getCancelOrder  takes requests off the queue and works on the orders  *)
(*                   loadExistOrder found in the database                  *)
(*   loadExistOrder  runs when the process is started again                *)
(*                                                                         *)
(* The trading threads are seen from here as orders that enter, are        *)
(* stored, execute, are announced and are marked; Trader says how.  A      *)
(* vector of loaded orders is a set: the view it is loaded from has no     *)
(* order, so the first element with an identifier is any element with it.  *)
(* An identifier is one the FLOAT column gives back as it was written.     *)
(***************************************************************************)
EXTENDS Naturals, Sequences, FiniteSets, TradingDb

CONSTANTS
  Orders,       \* what clients order: identifier, price and side
  Requests,     \* what clients ask of the desk
  MaxPlaced,    \* bound on the orders of all processes together
  MaxRequests,  \* bound on the requests of all processes together
  MaxLives,     \* bound on the processes
  DbOutcomes,   \* {TRUE}: statements succeed; {TRUE, FALSE}: any may fail
  Null

ASSUME OrdersAssumption ==
  \A o \in Orders : /\ o = [nid |-> o.nid, price |-> o.price, side |-> o.side]
                     /\ o.price \in Nat /\ o.side \in {"BUY", "SELL"}

ASSUME RequestsAssumption ==
  /\ Null \notin Requests
  /\ \A m \in Requests : /\ m.code \in {"cancel", "modify"}
                         /\ m.side \in {"BUY", "SELL", "other"}
                         /\ m.price \in Nat

ASSUME BoundsAssumption ==
  /\ MaxPlaced \in Nat /\ MaxRequests \in Nat /\ MaxLives \in Nat \ {0}
  /\ DbOutcomes \in {{TRUE}, {TRUE, FALSE}}

VARIABLES
  process,      \* "up" or "dead"
  lives,        \* processes started
  receiver,     \* "falling" once msgHandler has queued a request, else "idle"
  \* the trading threads
  nid_sub2,     \* counter of generateNid
  entry,        \* order between orderDataInsert and insertOrderToDB, or Null
  book,         \* orders in the raw books
  reportList,   \* executed orders to announce
  report,       \* order announced and not yet marked, or Null
  \* the desk
  dq_orderhandle,
  loaded,       \* loaded["BUY"] and loaded["SELL"]: buyside_ and sellside_
  vectors,      \* the sides whose vector ever held an element
  pcDesk, request, target,
  outcome,      \* what the desk is about to answer
  \* database
  dbOrder,
  \* history, across processes: an order is its place in the sequence placed
  placed,       \* identifiers in the order the orders entered
  stored,       \* orders whose row was inserted, with their keys
  announced,    \* orders whose client was told of an execution
  cancelled,    \* orders whose client was told of a cancellation
  settled,      \* keys of the orders whose cancellation was stored
  asked, told   \* requests received and answered

tradeVars   == <<nid_sub2, entry, book, reportList, report>>
deskVars    == <<dq_orderhandle, loaded, vectors, pcDesk, request, target, outcome>>
historyVars == <<placed, stored, announced, cancelled, settled, asked, told>>
vars == <<process, lives, receiver, tradeVars, deskVars, dbOrder, historyVars>>

Up == process = "up"
Crash == process' = "dead"
AtDesk(l) == Up /\ pcDesk = l
IsKey(o, k) == o.nid = k.nid /\ o.serial = k.serial

\* Mutant: the branch for sell orders is missing.
LoadedBuysOnly(rows, side) ==
  {[nid |-> r.nid, serial |-> r.serial, price |-> r.price] :
     r \in {x \in ValidOrder(rows) : x.side = side /\ side = "BUY"}}

\* Mutant: the rows of the table are read instead of those of the view.
LoadedOfTable(rows, side) ==
  {[nid |-> r.nid, serial |-> r.serial, price |-> r.price] :
     r \in {x \in rows : x.side = side}}

\* loadExistOrder, for one side.
LoadedOrders(rows, side) ==
  {[nid |-> r.nid, serial |-> r.serial, price |-> r.price] :
     r \in {x \in ValidOrder(rows) : x.side = side}}

Loaded == loaded["BUY"] \cup loaded["SELL"]

Init ==
  /\ process = "up" /\ lives = 1 /\ receiver = "idle"
  /\ nid_sub2 = 1 /\ entry = Null /\ book = {} /\ reportList = {} /\ report = Null
  /\ dq_orderhandle = <<>>
  /\ loaded = [s \in {"BUY", "SELL"} |-> {}] /\ vectors = {}
  /\ pcDesk = "poll" /\ request = Null /\ target = Null /\ outcome = "none"
  /\ dbOrder = {}
  /\ placed = <<>> /\ stored = {} /\ announced = {} /\ cancelled = {}
  /\ settled = {} /\ asked = 0 /\ told = 0

\* The container runtime starts a process that ended again: it has what the
\* database holds, by loadExistOrder, and nothing else.
Restart ==
  /\ process = "dead" /\ lives < MaxLives
  /\ process' = "up" /\ lives' = lives + 1 /\ receiver' = "idle"
  /\ nid_sub2' = 1 /\ entry' = Null /\ book' = {} /\ reportList' = {} /\ report' = Null
  /\ dq_orderhandle' = <<>>
  /\ loaded' = [s \in {"BUY", "SELL"} |-> LoadedOrders(dbOrder, s)]
  /\ vectors' = {s \in {"BUY", "SELL"} : loaded'[s] # {}}
  /\ pcDesk' = "poll" /\ request' = Null /\ target' = Null /\ outcome' = "none"
  /\ UNCHANGED <<dbOrder, historyVars>>

-------------------------------------------------------------------------------
(* The trading threads *)

\* getOrder admits an order and orderDataInsert puts it in its book.
EnterOrder(o) ==
  /\ Up /\ entry = Null
  /\ Len(placed) < MaxPlaced
  /\ entry' = [nid |-> o.nid, price |-> o.price, side |-> o.side,
               serial |-> nid_sub2, id |-> Len(placed) + 1]
  /\ book' = book \cup {entry'}
  /\ nid_sub2' = nid_sub2 + 1
  /\ placed' = Append(placed, o.nid)
  /\ UNCHANGED <<process, lives, receiver, reportList, report, deskVars, dbOrder,
                 stored, announced, cancelled, settled, asked, told>>

\* insertOrderToDB and the answer.
StoreOrder ==
  /\ Up /\ entry # Null
  /\ \E succeeds \in DbOutcomes :
       IF succeeds /\ ~OrderKeyTaken(dbOrder, entry.nid, entry.serial)
       THEN /\ dbOrder' = insertOrder(dbOrder, entry, entry.serial)
            /\ stored' = stored \cup {[nid |-> entry.nid, serial |-> entry.serial,
                                       id |-> entry.id]}
       ELSE UNCHANGED <<dbOrder, stored>>
  /\ entry' = Null
  /\ UNCHANGED <<process, lives, receiver, nid_sub2, book, reportList, report,
                 deskVars, placed, announced, cancelled, settled, asked, told>>

\* matchup executes an order.
ExecuteOrder(o) ==
  /\ Up /\ o \in book
  /\ book' = book \ {o}
  /\ reportList' = reportList \cup {o}
  /\ UNCHANGED <<process, lives, receiver, nid_sub2, entry, report, deskVars,
                 dbOrder, historyVars>>

\* sendExecReport tells the client.
AnnounceOrder(o) ==
  /\ Up /\ report = Null /\ o \in reportList
  /\ reportList' = reportList \ {o}
  /\ report' = o
  /\ announced' = announced \cup {o.id}
  /\ UNCHANGED <<process, lives, receiver, nid_sub2, entry, book, deskVars, dbOrder,
                 placed, stored, cancelled, settled, asked, told>>

\* sendExecReport marks the rows of the order's identifier.
MarkOrder ==
  /\ Up /\ report # Null
  /\ \E succeeds \in DbOutcomes :
       dbOrder' = IF succeeds
                  THEN updateOrderSituation(dbOrder, report.nid, EXECUTE)
                  ELSE dbOrder
  /\ report' = Null
  /\ UNCHANGED <<process, lives, receiver, nid_sub2, entry, book, reportList,
                 deskVars, historyVars>>

-------------------------------------------------------------------------------
(* The receiving threads *)

\* msgHandler, codes 88 and 89.
PushRequest(m) ==
  /\ Up /\ asked < MaxRequests
  /\ dq_orderhandle' = Append(dq_orderhandle, m)
  /\ receiver' = "falling"
  /\ asked' = asked + 1
  /\ UNCHANGED <<process, lives, tradeVars, loaded, vectors, pcDesk, request,
                 target, outcome, dbOrder, placed, stored, announced, cancelled,
                 settled, told>>

\* The identifier is looked up in quotesList as if it were a symbol; the null
\* pointer found there is dereferenced, which no handler catches.
FallThrough ==
  /\ Up /\ receiver = "falling"
  /\ Crash
  /\ UNCHANGED <<lives, receiver, tradeVars, deskVars, dbOrder, historyVars>>

-------------------------------------------------------------------------------
(* Thread getCancelOrder *)

\* Mutant: the request is read and left in the queue.
PeekRequest ==
  /\ AtDesk("poll") /\ dq_orderhandle # <<>>
  /\ request' = Head(dq_orderhandle)
  /\ pcDesk' = "search"
  /\ UNCHANGED <<process, lives, receiver, tradeVars, dq_orderhandle, loaded,
                 vectors, target, outcome, dbOrder, historyVars>>

TakeRequest ==
  /\ AtDesk("poll") /\ dq_orderhandle # <<>>
  /\ request' = Head(dq_orderhandle)
  /\ dq_orderhandle' = Tail(dq_orderhandle)
  /\ pcDesk' = "search"
  /\ UNCHANGED <<process, lives, receiver, tradeVars, loaded, vectors, target,
                 outcome, dbOrder, historyVars>>

\* What every step of the search leaves alone.
searchFrame == <<lives, receiver, tradeVars, dq_orderhandle, vectors, request,
                 dbOrder, historyVars>>

Named(side) == {o \in loaded[side] : o.nid = request.nid}

\* Mutant: every order of the identifier is erased.
EraseAllNamed(o, side) == [loaded EXCEPT ![side] = @ \ Named(side)]

EraseNamed(o, side) == [loaded EXCEPT ![side] = @ \ {o}]

\* The order is in the list of its side and is erased.
CancelLoaded ==
  /\ AtDesk("search") /\ request.code = "cancel" /\ request.side # "other"
  /\ \E o \in Named(request.side) :
       /\ loaded' = EraseNamed(o, request.side)
       /\ target' = o
  /\ outcome' = "cancelled"
  /\ pcDesk' = "reply"
  /\ UNCHANGED <<searchFrame, process>>

\* It is not, or the side is neither 1 nor 2.
CancelNothing ==
  /\ AtDesk("search") /\ request.code = "cancel"
  /\ request.side # "other" => Named(request.side) = {}
  /\ outcome' = "refused"
  /\ pcDesk' = "reply"
  /\ UNCHANGED <<searchFrame, process, loaded, target>>

Reprice(o) ==
  [loaded EXCEPT !["BUY"] = (@ \ {o}) \cup {[o EXCEPT !.price = request.price]}]

\* Whatever the side, the buy list is searched; a buy order found is repriced.
ModifyLoaded ==
  /\ AtDesk("search") /\ request.code = "modify"
  /\ \E o \in Named("BUY") :
       /\ loaded' = Reprice(o)
       /\ target' = o
  /\ outcome' = "modified"
  /\ pcDesk' = "reply"
  /\ UNCHANGED <<searchFrame, process>>

\* For a sell order the end of the buy list is compared with the end of the
\* sell list: they are equal when neither vector ever had a buffer.
ModifyNothing ==
  /\ AtDesk("search") /\ request.code = "modify"
  /\ Named("BUY") = {}
  /\ request.side = "BUY" \/ vectors = {}
  /\ outcome' = "refused"
  /\ pcDesk' = "reply"
  /\ UNCHANGED <<searchFrame, process, loaded, target>>

\* Otherwise the element past the end of the buy list is written through: a
\* null or wild pointer, memory nobody looks at, or an order the vector held
\* in that place before an erasure moved it down.
ModifyPastEnd ==
  /\ AtDesk("search") /\ request.code = "modify" /\ request.side # "BUY"
  /\ Named("BUY") = {} /\ vectors # {}
  /\ \/ /\ Crash
        /\ UNCHANGED <<loaded, target, outcome, pcDesk>>
     \/ /\ "BUY" \in vectors
        /\ loaded' \in {loaded} \cup {Reprice(o) : o \in loaded["BUY"]}
        /\ outcome' = "modified"
        /\ pcDesk' = "reply"
        /\ UNCHANGED <<process, target>>
  /\ UNCHANGED searchFrame

\* The answer, which ends the process when the connection is gone by now.
ReplyRequest ==
  /\ AtDesk("reply")
  /\ \/ /\ told' = told + 1
        /\ cancelled' = IF outcome = "cancelled"
                        THEN cancelled \cup {s.id : s \in {x \in stored : IsKey(x, target)}}
                        ELSE cancelled
        /\ pcDesk' = IF outcome = "refused" THEN "poll" ELSE "store"
        /\ UNCHANGED process
     \/ /\ Crash
        /\ UNCHANGED <<told, cancelled, pcDesk>>
  /\ UNCHANGED <<lives, receiver, tradeVars, dq_orderhandle, loaded, vectors,
                 request, target, outcome, dbOrder, placed, stored, announced,
                 settled, asked>>

\* The statement, on every row of the identifier.
StoreOutcome ==
  /\ AtDesk("store")
  /\ \E succeeds \in DbOutcomes :
       IF succeeds
       THEN /\ dbOrder' = IF outcome = "cancelled"
                          THEN updateOrderSituation(dbOrder, request.nid, CANCEL)
                          ELSE updateOrderPrice(dbOrder, request.nid, request.price)
            /\ settled' = IF outcome = "cancelled"
                          THEN settled \cup {[nid |-> target.nid, serial |-> target.serial]}
                          ELSE settled
       ELSE UNCHANGED <<dbOrder, settled>>
  /\ pcDesk' = "poll"
  /\ UNCHANGED <<process, lives, receiver, tradeVars, dq_orderhandle, loaded,
                 vectors, request, target, outcome, placed, stored, announced,
                 cancelled, asked, told>>

getCancelOrder ==
  \/ TakeRequest \/ CancelLoaded \/ CancelNothing \/ ModifyLoaded \/ ModifyNothing
  \/ ModifyPastEnd \/ ReplyRequest \/ StoreOutcome

-------------------------------------------------------------------------------
Next ==
  \/ \E o \in Orders : EnterOrder(o)
  \/ StoreOrder
  \/ \E o \in book : ExecuteOrder(o)
  \/ \E o \in reportList : AnnounceOrder(o)
  \/ MarkOrder
  \/ \E m \in Requests : PushRequest(m)
  \/ FallThrough
  \/ getCancelOrder
  \/ Restart

Spec == Init /\ [][Next]_vars

\* Threads are scheduled and the container is restarted (docker-compose.yml
\* says restart: always); nothing obliges clients or the market.
FairSpec ==
  Spec /\ WF_vars(getCancelOrder) /\ WF_vars(FallThrough) /\ WF_vars(Restart)

Loads == [nid : {o.nid : o \in Orders}, serial : Nat,
          price : {o.price : o \in Orders} \cup {m.price : m \in Requests}]

\* The shape of the state: every list holds orders that entered, and every
\* thread is at one of its program points.
DeskTypeOK ==
  /\ process \in {"up", "dead"} /\ lives \in 1..MaxLives
  /\ receiver \in {"idle", "falling"}
  /\ nid_sub2 \in 1..MaxPlaced + 1
  /\ \A o \in book \cup reportList \cup ({entry, report} \ {Null}) :
       /\ [nid |-> o.nid, price |-> o.price, side |-> o.side] \in Orders
       /\ o.serial \in 1..MaxPlaced /\ o.id \in DOMAIN placed
  /\ dq_orderhandle \in Seq(Requests)
  /\ loaded \in [{"BUY", "SELL"} -> SUBSET Loads]
  /\ vectors \subseteq {"BUY", "SELL"}
  /\ pcDesk \in {"poll", "search", "reply", "store"}
  /\ request \in Requests \cup {Null} /\ target \in Loads \cup {Null}
  /\ outcome \in {"none", "cancelled", "modified", "refused"}
  /\ \A r \in dbOrder : \E s \in stored : IsKey(r, s)
  /\ announced \cup cancelled \subseteq DOMAIN placed
  /\ told <= asked /\ asked <= MaxRequests

\* A cancellation that was stored holds for every later process: the order is
\* never loaded again, whatever orders reuse its identifier or its serial
\* number.
CancelIsPermanent ==
  \A k \in settled : ~\E o \in Loaded : IsKey(o, k)

\* No other order was ever given the identifier.
Unshared(i) == \A j \in DOMAIN placed : placed[j] = placed[i] => j = i

\* The desk has erased the order and not yet answered.
Withdrawn(s) == pcDesk = "reply" /\ outcome = "cancelled" /\ IsKey(target, s)

\* A stored order survives the processes it outlives: until its client is told
\* that it executed or was cancelled it is in a raw book, among the reports or
\* loaded, provided no other order shares its identifier.
UnsharedOrderSurvives ==
  Up => \A s \in stored :
          Unshared(s.id) /\ s.id \notin announced \cup cancelled /\ ~Withdrawn(s) =>
            \/ \E o \in book \cup reportList : o.id = s.id
            \/ \E o \in Loaded : IsKey(o, s)

\* A running process takes an order off a loaded list only for a cancel
\* request: one order at a time, of the identifier and the side asked for.
CancelTakesOneNamed ==
  [][Up /\ process' = "up" =>
       \A s \in {"BUY", "SELL"} :
         Cardinality(loaded'[s]) < Cardinality(loaded[s]) =>
           \E o \in loaded[s] : /\ request.code = "cancel"
                                /\ request.side = s /\ request.nid = o.nid
                                /\ loaded'[s] = loaded[s] \ {o}]_vars

-------------------------------------------------------------------------------
(* What the documentation says, and the code does not do *)

\* Clients may cancel and modify: every request is answered.
CancelAnswered ==
  \A k \in 1..MaxRequests : (asked >= k) ~> (told >= k)

===============================================================================
