-------------------------------- MODULE Trader --------------------------------
(***************************************************************************)
(* The trading process: four threads over one set of shared containers.    *)
(*                                                                         *)
(*   getOrder            pops order messages, runs risk control, inserts   *)
(*                       the order in a raw book, stores it, answers       *)
(*   matchup             scans the raw books and executes one pair a round *)
(*   generateExecReport  announces and records executed orders             *)
(*   main                waits on cv_ for the rest of the process' life    *)
(*                                                                         *)
(* One action is the code between two points where another thread can      *)
(* observe or change what the thread uses.  A container operation          *)
(* (insert, erase, push_back, pop_back) is one step; so is a statement     *)
(* sent to the database.                                                   *)
(*                                                                         *)
(* cv_m is locked twice by one thread and unlocked by threads that do not  *)
(* own it, which the C++ standard leaves undefined.  The build is g++ on   *)
(* Linux, where std::mutex is a default pthread mutex: it records no owner,*)
(* a lock waits until it is free, an unlock frees it whoever holds it.     *)
(* cv_m is that: a flag, a guard on lock and none on unlock.               *)
(*                                                                         *)
(* rawBuyside_ and rawSellside_ are multisets of pointers: they are        *)
(* ordered by address, not by price.  An order is its address here, and    *)
(* the allocator may return any unused one.                                *)
(***************************************************************************)
EXTENDS Naturals, Sequences, FiniteSets, TradingDb

CONSTANTS
  Addr,         \* addresses `new Order` can return; their number bounds a run
  AnyAddress,   \* FALSE: the heap only grows; TRUE: any unused address
  Conn,         \* connection numbers, the keys of Server::connStorage_
  Flaky,        \* the connections that may be lost
  MaxPending,   \* bound on the messages waiting in dq
  Requests,     \* the well-formed order messages clients send
  ProductList,  \* symbols RiskController accepts
  BasePrice,    \* tradeBasicData[2], the price of the day
  Balance,      \* Balance[c]: balance of the user logged in on c
  StoredOrders, \* rows of `Order` when the process starts
  DbOutcomes,   \* {TRUE}: statements succeed; {TRUE, FALSE}: any may fail
  Null          \* a null or not yet assigned pointer

ASSUME AddrAssumption == Addr \subseteq Nat /\ Null \notin Addr

ASSUME RequestAssumption ==
  /\ Null \notin Requests
  /\ \A r \in Requests : /\ r.price \in Nat \ {0}
                         /\ r.side \in {"BUY", "SELL"}
                         /\ r.connId \in Conn

ASSUME EnvironmentAssumption ==
  /\ Flaky \subseteq Conn
  /\ AnyAddress \in BOOLEAN
  /\ MaxPending \in Nat \ {0}
  /\ BasePrice \in Nat
  /\ Balance \in [Conn -> Nat]
  /\ DbOutcomes \in {{TRUE}, {TRUE, FALSE}}

ASSUME RowsAssumption ==
  \A r \in StoredOrders :
    DOMAIN r = {"nid", "serial", "price", "side", "situation"}

VARIABLES
  \* Server, as far as the trader uses it
  dq,           \* Server::dq, order messages not yet taken
  connStorage,  \* connections a message can be sent to
  quote,        \* quotesList["KKC"]: priceNow, priceMax, priceMin
  process,      \* "up", or "dead" once a null pointer was dereferenced
  \* Trader
  order,        \* order[a]: the fields of the Order at a, Null if unallocated
  serial,       \* serial[a]: client_serialNum, 0 if none was generated
  execPrice,    \* execPrice[a]: 0 until the order is matched
  nid_sub2,     \* counter of generateNid
  od,           \* Trader::od, the order getOrder last allocated
  rawBuyside, rawSellside,
  reportList,   \* executed orders to announce, used as a stack
  cv_m,         \* the mutex: "free" or "locked"
  \* locals and program counters of the threads
  pcOrder, answer,
  pcMatch, odb, ods,
  pcReport, p,
  pcMain,
  \* database
  dbOrder, dbReport,
  \* what clients were told and what was executed, for the properties
  replies,      \* replies[a]: the answer sent for the order at a
  fills,        \* fills[a]: times the order at a was executed
  notices       \* notices[a]: times "OrderExec" was sent for it

serverVars == <<dq, connStorage, quote, process>>
orderVars  == <<order, serial, nid_sub2, od, pcOrder, answer>>
bookVars   == <<rawBuyside, rawSellside>>
matchVars  == <<pcMatch, odb, ods>>
reportVars == <<pcReport, p>>
dbVars     == <<dbOrder, dbReport>>
vars == <<serverVars, orderVars, bookVars, execPrice, cv_m, matchVars,
          reportList, reportVars, pcMain, dbVars, replies, fills, notices>>

\* What the steps of a thread never change.
getOrderFrame == <<connStorage, quote, execPrice, matchVars, reportList,
                   reportVars, pcMain, dbReport, fills, notices>>
matchupFrame  == <<dq, connStorage, process, orderVars, reportVars, pcMain, dbVars,
                   replies, notices>>
reportFrame   == <<dq, connStorage, quote, orderVars, bookVars, execPrice, cv_m,
                   matchVars, pcMain, replies, fills>>
mainFrame     == <<serverVars, orderVars, bookVars, execPrice, matchVars,
                   reportList, reportVars, dbVars, replies, fills, notices>>

-------------------------------------------------------------------------------
(* Operators *)

Allocated == {a \in Addr : order[a] # Null}

\* A thread of the running process is at one of its program points.
Alive == process = "up"
AtOrder(l)  == Alive /\ pcOrder = l
AtMatch(l)  == Alive /\ pcMatch = l
AtReport(l) == Alive /\ pcReport = l

\* The price band and the product list of RiskController::verify; the double
\* products BasePrice*1.1 and BasePrice*0.9 are compared as exact tenths.
InBand(price) == 10 * price <= 11 * BasePrice /\ 10 * price >= 9 * BasePrice
Verified(req) == InBand(req.price) /\ req.symbol \in ProductList

\* The balance test of getOrder.
Affordable(req) == Balance[req.connId] > req.price * 1000

\* First and last element of a raw book, and the successor of an element.
IsFirst(a, book) == a \in book /\ \A b \in book : a <= b
IsLast(a, book)  == a \in book /\ \A b \in book : b <= a
IsNext(b, a, book) ==
  b \in book /\ b > a /\ \A c \in book : c > a => b <= c

\* Mutant: a price under the minimum moves the quote but not the minimum.
QuoteKeepsMin(q, price) ==
  [now |-> price, max |-> IF q.max >= price THEN q.max ELSE price, min |-> q.min]

\* Server::quoteUpdate, for the one symbol matchup passes.
QuoteUpdate(q, price) ==
  [now |-> price,
   max |-> IF q.min > price \/ q.max >= price THEN q.max ELSE price,
   min |-> IF q.min > price THEN price ELSE q.min]

InitialQuote == [now |-> 60, max |-> 60, min |-> 60]

\* Server::sendToClient: connStorage_[c] is a null pointer when c is not
\* stored, and the send through it ends the process.
Reachable(c) == c \in connStorage
Crash == process' = "dead"

-------------------------------------------------------------------------------
Init ==
  /\ dq = <<>>
  /\ connStorage = Conn
  /\ quote = InitialQuote
  /\ process = "up"
  /\ order = [a \in Addr |-> Null]
  /\ serial = [a \in Addr |-> 0]
  /\ execPrice = [a \in Addr |-> 0]
  /\ nid_sub2 = 1
  /\ od = Null
  /\ rawBuyside = {} /\ rawSellside = {}
  /\ reportList = <<>>
  /\ cv_m = "free"
  /\ pcOrder = "poll" /\ answer = "none"
  /\ pcMatch = "start" /\ odb = Null /\ ods = Null
  /\ pcReport = "idle" /\ p = Null
  /\ pcMain = "start"
  /\ dbOrder = StoredOrders /\ dbReport = {}
  /\ replies = [a \in Addr |-> "none"]
  /\ fills = [a \in Addr |-> 0]
  /\ notices = [a \in Addr |-> 0]

-------------------------------------------------------------------------------
(* The server, the environment of the trader's threads *)

\* A receiving thread hands over an order message.  The connection may have
\* been freed meanwhile: a chunk of several messages is handled to its end.
\* The queue's limitation_ is never consulted; MaxPending and the addresses
\* left bound it here.
PushOrder(req) ==
  /\ Alive
  /\ Len(dq) < MaxPending
  /\ Cardinality(Allocated) + Len(dq) < Cardinality(Addr)
  /\ dq' = Append(dq, req)
  /\ UNCHANGED <<connStorage, quote, process, orderVars, bookVars, execPrice, cv_m,
                 matchVars, reportList, reportVars, pcMain, dbVars, replies,
                 fills, notices>>

\* freeEmptysocket erases a connection whose peer has gone.
FreeConnection(c) ==
  /\ Alive
  /\ c \in connStorage
  /\ connStorage' = connStorage \ {c}
  /\ UNCHANGED <<dq, quote, process, orderVars, bookVars, execPrice, cv_m,
                 matchVars, reportList, reportVars, pcMain, dbVars, replies,
                 fills, notices>>

-------------------------------------------------------------------------------
(* Thread getOrder *)

\* Pop a message and allocate its Order.  od points at it from here on, but
\* od->orderPrice is not written before the parse: see PriceUnwritten.
TakeOrder ==
  /\ AtOrder("poll") /\ dq # <<>>
  /\ \E a \in Addr \ Allocated :
       /\ AnyAddress \/ \A b \in Addr \ Allocated : a <= b
       /\ od' = a
       /\ order' = [order EXCEPT ![a] = Head(dq)]
  /\ dq' = Tail(dq)
  /\ pcOrder' = "parse"
  /\ UNCHANGED <<getOrderFrame, process, serial, nid_sub2, answer, bookVars, cv_m,
                 dbOrder, replies>>

\* The order fails risk control.
RefuseUnverified ==
  /\ AtOrder("parse")
  /\ ~Verified(order[od])
  /\ answer' = "failed"
  /\ pcOrder' = "reply"
  /\ UNCHANGED <<getOrderFrame, dq, process, order, serial, nid_sub2, od, bookVars,
                 cv_m, dbOrder, replies>>

\* The user's balance does not cover the order.
RefuseUnaffordable ==
  /\ AtOrder("parse")
  /\ Verified(order[od])
  /\ Reachable(order[od].connId)
  /\ ~Affordable(order[od])
  /\ answer' = "insufficient_balance"
  /\ pcOrder' = "reply"
  /\ UNCHANGED <<getOrderFrame, dq, process, order, serial, nid_sub2, od, bookVars,
                 cv_m, dbOrder, replies>>

\* The order is accepted and gets its serial number.
AdmitOrder ==
  /\ AtOrder("parse")
  /\ Verified(order[od])
  /\ Reachable(order[od].connId)
  /\ Affordable(order[od])
  /\ serial' = [serial EXCEPT ![od] = nid_sub2]
  /\ nid_sub2' = nid_sub2 + 1
  /\ pcOrder' = "insert"
  /\ UNCHANGED <<getOrderFrame, dq, process, order, od, answer, bookVars, cv_m,
                 dbOrder, replies>>

\* getConnObject returns a null pointer and its username is read.
LookUpLostConnection ==
  /\ AtOrder("parse")
  /\ Verified(order[od])
  /\ ~Reachable(order[od].connId)
  /\ Crash
  /\ UNCHANGED <<getOrderFrame, dq, orderVars, bookVars, cv_m, dbOrder, replies>>

\* orderDataInsert, up to its last line.
InsertOrder ==
  /\ AtOrder("insert")
  /\ \/ /\ order[od].side = "BUY"
        /\ rawBuyside' = rawBuyside \cup {od}
        /\ UNCHANGED rawSellside
     \/ /\ order[od].side = "SELL"
        /\ rawSellside' = rawSellside \cup {od}
        /\ UNCHANGED rawBuyside
  /\ pcOrder' = "signal"
  /\ UNCHANGED <<getOrderFrame, dq, process, order, serial, nid_sub2, od, answer,
                 cv_m, dbOrder, replies>>

\* Mutant: the insertion waits for the mutex as a lock_guard would.
SignalWhenFree ==
  /\ AtOrder("signal")
  /\ cv_m = "free"
  /\ pcOrder' = "store"
  /\ UNCHANGED <<getOrderFrame, dq, process, order, serial, nid_sub2, od, answer,
                 bookVars, cv_m, dbOrder, replies>>

\* The last line of orderDataInsert frees a mutex this thread never locked.
SignalMatchup ==
  /\ AtOrder("signal")
  /\ cv_m' = "free"
  /\ pcOrder' = "store"
  /\ UNCHANGED <<getOrderFrame, dq, process, order, serial, nid_sub2, od, answer,
                 bookVars, dbOrder, replies>>

\* Mutant: the client is told of success whatever the database says.
SuccessAnyway(stored) == "success"

\* The answer to an order that was, or was not, stored.
StoreAnswer(stored) == IF stored THEN "success" ELSE "repeat_nid"

\* insertOrderToDB.  An order whose row was not stored is in its book by now
\* and stays there.
StoreOrder ==
  /\ AtOrder("store")
  /\ \E succeeds \in DbOutcomes :
       LET stored == succeeds /\ ~OrderKeyTaken(dbOrder, order[od].nid, serial[od])
       IN  /\ dbOrder' = IF stored
                         THEN insertOrder(dbOrder, order[od], serial[od])
                         ELSE dbOrder
           /\ answer' = StoreAnswer(stored)
  /\ pcOrder' = "reply"
  /\ UNCHANGED <<getOrderFrame, dq, process, order, serial, nid_sub2, od, bookVars,
                 cv_m, replies>>

\* Mutant: the Order is deleted once its client has its answer.
ReplyAndDelete ==
  /\ AtOrder("reply")
  /\ Reachable(order[od].connId)
  /\ replies' = [replies EXCEPT ![od] = answer]
  /\ order' = [order EXCEPT ![od] = Null]
  /\ od' = Null
  /\ answer' = "none"
  /\ pcOrder' = "poll"
  /\ UNCHANGED <<getOrderFrame, dq, process, serial, nid_sub2, bookVars, cv_m, dbOrder>>

\* sendToClient with the answer.
ReplyOrder ==
  /\ AtOrder("reply")
  /\ \/ /\ Reachable(order[od].connId)
        /\ replies' = [replies EXCEPT ![od] = answer]
        /\ answer' = "none"
        /\ pcOrder' = "poll"
        /\ UNCHANGED process
     \/ /\ ~Reachable(order[od].connId)
        /\ Crash
        /\ UNCHANGED <<replies, answer, pcOrder>>
  /\ UNCHANGED <<getOrderFrame, dq, order, serial, nid_sub2, od, bookVars, cv_m,
                 dbOrder>>

getOrder ==
  \/ TakeOrder \/ RefuseUnverified \/ RefuseUnaffordable \/ AdmitOrder
  \/ LookUpLostConnection \/ InsertOrder \/ SignalMatchup \/ StoreOrder
  \/ ReplyOrder

-------------------------------------------------------------------------------
(* Thread matchup *)

\* lk1(cv_m); the wait returns at once since the server is connected, so the
\* mutex stays locked.
StartMatchup ==
  /\ AtMatch("start")
  /\ cv_m = "free"
  /\ cv_m' = "locked"
  /\ pcMatch' = "loop"
  /\ UNCHANGED <<matchupFrame, quote, bookVars, execPrice, odb, ods, reportList,
                 fills>>

\* lck(cv_m), for the first time while this thread still holds it.  A scan
\* starts at the first buy order when both books have orders.
EnterRound ==
  /\ AtMatch("loop")
  /\ cv_m = "free"
  /\ cv_m' = "locked"
  /\ \/ /\ rawSellside # {}
        /\ \E b \in rawBuyside : IsFirst(b, rawBuyside) /\ odb' = b
        /\ pcMatch' = "scan"
     \/ /\ rawBuyside = {} \/ rawSellside = {}
        /\ pcMatch' = "sleep"
        /\ UNCHANGED odb
  /\ UNCHANGED <<matchupFrame, quote, bookVars, execPrice, ods, reportList, fills>>

\* odb is the scanned buy order, ods the last sell order.
PickPair ==
  /\ AtMatch("scan")
  /\ \E s \in rawSellside : IsLast(s, rawSellside) /\ ods' = s
  /\ pcMatch' = "compare"
  /\ UNCHANGED <<matchupFrame, quote, bookVars, execPrice, cv_m, odb, reportList,
                 fills>>

\* The price compared is that of Trader::od, not of odb.  Between `new Order`
\* and the parse it is uninitialized memory and compares either way.
PriceUnwritten == pcOrder = "parse"
PairCrosses == PriceUnwritten \/ order[od].price >= order[ods].price
PairDiffers == PriceUnwritten \/ order[od].price < order[ods].price

AcceptPair ==
  /\ AtMatch("compare")
  /\ PairCrosses
  /\ pcMatch' = "relock"
  /\ UNCHANGED <<matchupFrame, quote, bookVars, execPrice, cv_m, odb, ods,
                 reportList, fills>>

\* On to the next buy order, or to the end of the round.
RejectPair ==
  /\ AtMatch("compare")
  /\ PairDiffers
  /\ \/ /\ \E b \in rawBuyside : IsNext(b, odb, rawBuyside) /\ odb' = b
        /\ pcMatch' = "scan"
     \/ /\ \A b \in rawBuyside : b <= odb
        /\ pcMatch' = "sleep"
        /\ UNCHANGED odb
  /\ UNCHANGED <<matchupFrame, quote, bookVars, execPrice, cv_m, ods, reportList,
                 fills>>

\* cv_m.lock() while lck holds it: waits for another thread's unlock.
RelockForFill ==
  /\ AtMatch("relock")
  /\ cv_m = "free"
  /\ cv_m' = "locked"
  /\ pcMatch' = "fill"
  /\ UNCHANGED <<matchupFrame, quote, bookVars, execPrice, odb, ods, reportList,
                 fills>>

\* Mutant: the execution price is taken from Trader::od, as the compared one.
FillAtOd == order[od].price

\* Both orders execute at the price of the sell order.
FillPrice == order[ods].price

\* Execute the pair; the buy order is reported.
FillPair ==
  /\ AtMatch("fill")
  /\ execPrice' = [a \in Addr |-> IF a \in {odb, ods} THEN FillPrice
                                                     ELSE execPrice[a]]
  /\ quote' = QuoteUpdate(quote, order[ods].price)
  /\ fills' = [a \in Addr |-> IF a \in {odb, ods} THEN fills[a] + 1 ELSE fills[a]]
  /\ reportList' = Append(reportList, odb)
  /\ pcMatch' = "reportSell"
  /\ UNCHANGED <<matchupFrame, bookVars, cv_m, odb, ods>>

\* Mutant: the sell order reported is looked up anew, as the one erased is.
ReportLastSell ==
  /\ AtMatch("reportSell")
  /\ \E s \in rawSellside :
       IsLast(s, rawSellside) /\ reportList' = Append(reportList, s)
  /\ pcMatch' = "eraseSell"
  /\ UNCHANGED <<matchupFrame, quote, bookVars, execPrice, cv_m, odb, ods, fills>>

ReportSell ==
  /\ AtMatch("reportSell")
  /\ reportList' = Append(reportList, ods)
  /\ pcMatch' = "eraseSell"
  /\ UNCHANGED <<matchupFrame, quote, bookVars, execPrice, cv_m, odb, ods, fills>>

\* Mutant: nothing is erased when the last sell order is no longer ods.
EraseSellIfLast ==
  /\ AtMatch("eraseSell")
  /\ rawSellside' = IF IsLast(ods, rawSellside)
                    THEN rawSellside \ {ods} ELSE rawSellside
  /\ pcMatch' = "eraseBuy"
  /\ UNCHANGED <<matchupFrame, quote, rawBuyside, execPrice, cv_m, odb, ods,
                 reportList, fills>>

\* The last sell order is looked up anew: it need not be ods any more.
EraseSell ==
  /\ AtMatch("eraseSell")
  /\ \E s \in rawSellside :
       IsLast(s, rawSellside) /\ rawSellside' = rawSellside \ {s}
  /\ pcMatch' = "eraseBuy"
  /\ UNCHANGED <<matchupFrame, quote, rawBuyside, execPrice, cv_m, odb, ods,
                 reportList, fills>>

\* Mutant: the first buy order is erased instead of the scanned one.
EraseFirstBuy ==
  /\ AtMatch("eraseBuy")
  /\ \E b \in rawBuyside :
       IsFirst(b, rawBuyside) /\ rawBuyside' = rawBuyside \ {b}
  /\ pcMatch' = "unlock"
  /\ UNCHANGED <<matchupFrame, quote, rawSellside, execPrice, cv_m, odb, ods,
                 reportList, fills>>

EraseBuy ==
  /\ AtMatch("eraseBuy")
  /\ rawBuyside' = rawBuyside \ {odb}
  /\ pcMatch' = "unlock"
  /\ UNCHANGED <<matchupFrame, quote, rawSellside, execPrice, cv_m, odb, ods,
                 reportList, fills>>

UnlockAfterFill ==
  /\ AtMatch("unlock")
  /\ cv_m' = "free"
  /\ pcMatch' = "sleep"
  /\ UNCHANGED <<matchupFrame, quote, bookVars, execPrice, odb, ods, reportList,
                 fills>>

\* The sleep at the end of a round, then lck's destructor.
LeaveRound ==
  /\ AtMatch("sleep")
  /\ cv_m' = "free"
  /\ pcMatch' = "loop"
  /\ odb' = Null /\ ods' = Null
  /\ UNCHANGED <<matchupFrame, quote, bookVars, execPrice, reportList, fills>>

matchup ==
  \/ StartMatchup \/ EnterRound \/ PickPair \/ AcceptPair \/ RejectPair
  \/ RelockForFill \/ FillPair \/ ReportSell \/ EraseSell \/ EraseBuy
  \/ UnlockAfterFill \/ LeaveRound

-------------------------------------------------------------------------------
(* Thread generateExecReport *)

\* Mutant: a list of one report is left alone.
TakeReportOfMany ==
  /\ AtReport("idle") /\ Len(reportList) > 1
  /\ p' = reportList[Len(reportList)]
  /\ pcReport' = "send"
  /\ UNCHANGED <<reportFrame, process, reportList, dbVars, notices>>

\* The list is not locked: matchup may push while a report is handled.
TakeReport ==
  /\ AtReport("idle") /\ reportList # <<>>
  /\ p' = reportList[Len(reportList)]
  /\ pcReport' = "send"
  /\ UNCHANGED <<reportFrame, process, reportList, dbVars, notices>>

SendExecReport ==
  /\ AtReport("send")
  /\ \/ /\ Reachable(order[p].connId)
        /\ notices' = [notices EXCEPT ![p] = @ + 1]
        /\ pcReport' = "store"
        /\ UNCHANGED process
     \/ /\ ~Reachable(order[p].connId)
        /\ Crash
        /\ UNCHANGED <<notices, pcReport>>
  /\ UNCHANGED <<reportFrame, p, reportList, dbVars>>

StoreReport ==
  /\ AtReport("store")
  /\ \E succeeds \in DbOutcomes :
       dbReport' = IF succeeds
                   THEN insertReport(dbReport, order[p], execPrice[p], serial[p])
                   ELSE dbReport
  /\ pcReport' = "mark"
  /\ UNCHANGED <<reportFrame, process, p, reportList, dbOrder, notices>>

MarkExecuted ==
  /\ AtReport("mark")
  /\ \E succeeds \in DbOutcomes :
       dbOrder' = IF succeeds
                  THEN updateOrderSituation(dbOrder, order[p].nid, EXECUTE)
                  ELSE dbOrder
  /\ pcReport' = "pop"
  /\ UNCHANGED <<reportFrame, process, p, reportList, dbReport, notices>>

\* Mutant: the list is cleared once a report was handled.
ClearReports ==
  /\ AtReport("pop")
  /\ reportList' = <<>>
  /\ p' = Null
  /\ pcReport' = "idle"
  /\ UNCHANGED <<reportFrame, process, dbVars, notices>>

\* pop_back drops the last element, whatever it is by now.
PopReport ==
  /\ AtReport("pop")
  /\ reportList' = SubSeq(reportList, 1, Len(reportList) - 1)
  /\ p' = Null
  /\ pcReport' = "idle"
  /\ UNCHANGED <<reportFrame, process, dbVars, notices>>

generateExecReport ==
  TakeReport \/ SendExecReport \/ StoreReport \/ MarkExecuted \/ PopReport

-------------------------------------------------------------------------------
(* The main thread, in startTransaction: serverstatus is never set *)

\* Lock cv_m, on entry and on each wakeup of the wait, the spurious ones the
\* standard allows being the only ones.
MainLock ==
  /\ Alive /\ pcMain \in {"start", "waiting"}
  /\ cv_m = "free"
  /\ cv_m' = "locked"
  /\ pcMain' = "locked"
  /\ UNCHANGED mainFrame

\* The wait unlocks cv_m.
MainWait ==
  /\ Alive /\ pcMain = "locked"
  /\ cv_m' = "free"
  /\ pcMain' = "waiting"
  /\ UNCHANGED mainFrame

startTransaction == MainLock \/ MainWait

-------------------------------------------------------------------------------
Next ==
  \/ \E req \in Requests : PushOrder(req)
  \/ \E c \in Flaky : FreeConnection(c)
  \/ getOrder
  \/ matchup
  \/ generateExecReport
  \/ startTransaction

Spec == Init /\ [][Next]_vars

\* The operating system schedules every thread.  Nothing obliges clients to
\* send, connections to fail or the main thread to wake up spuriously.
Fairness ==
  /\ WF_vars(getOrder)
  /\ WF_vars(matchup)
  /\ WF_vars(generateExecReport)
  /\ WF_vars(MainWait)

FairSpec == Spec /\ Fairness

\* The most a scheduler can do for matchup: it gets the mutex when the mutex is
\* free again and again, whatever the main thread's spurious wakeups take.
LockFairSpec == FairSpec /\ SF_vars(matchup)

-------------------------------------------------------------------------------
(* Type correctness *)

Replies == {"none", "success", "failed", "insufficient_balance",
            "repeat_nid"}

ServerTypes ==
  /\ dq \in Seq(Requests)
  /\ connStorage \subseteq Conn
  /\ quote \in [now : Nat, max : Nat, min : Nat]
  /\ process \in {"up", "dead"}

OrderTypes ==
  /\ order \in [Addr -> Requests \cup {Null}]
  /\ serial \in [Addr -> Nat]
  /\ nid_sub2 \in Nat \ {0}
  /\ od \in Allocated \cup {Null}
  /\ pcOrder \in {"poll", "parse", "insert", "signal", "store", "reply"}
  /\ pcOrder # "poll" => od # Null
  /\ answer \in Replies

BookTypes ==
  /\ rawBuyside \subseteq Allocated
  /\ rawSellside \subseteq Allocated
  /\ reportList \in Seq(Allocated)
  /\ execPrice \in [Addr -> Nat]

ThreadTypes ==
  /\ cv_m \in {"free", "locked"}
  /\ pcMatch \in {"start", "loop", "scan", "compare", "relock", "fill",
                  "reportSell", "eraseSell", "eraseBuy", "unlock", "sleep"}
  /\ odb \in Allocated \cup {Null}
  /\ ods \in Allocated \cup {Null}
  /\ pcReport \in {"idle", "send", "store", "mark", "pop"}
  /\ p \in Allocated \cup {Null}
  /\ pcReport # "idle" => p # Null
  /\ pcMain \in {"start", "locked", "waiting"}

HistoryTypes ==
  /\ replies \in [Addr -> Replies]
  /\ fills \in [Addr -> Nat]
  /\ notices \in [Addr -> Nat]

\* The shape of the state: every pointer is null or an allocated address, and
\* every thread is at one of its program points.
TypeOK ==
  /\ ServerTypes /\ OrderTypes /\ BookTypes /\ ThreadTypes /\ HistoryTypes

-------------------------------------------------------------------------------
(* Safety *)

\* The orders of a side that went through orderDataInsert.
Booked(side) ==
  {a \in Allocated : /\ order[a].side = side
                     /\ serial[a] # 0
                     /\ ~(pcOrder = "insert" /\ od = a)}

\* A buy order is executed at most once, and it has left the buy book exactly
\* when it was: whatever getOrder inserts while matchup waits inside a match,
\* the iterator still erases the order that was reported.
BuyFilledOnce ==
  \A a \in Booked("BUY") :
    fills[a] = IF a \in rawBuyside
               THEN IF a = odb /\ pcMatch \in {"reportSell", "eraseSell", "eraseBuy"}
                    THEN 1 ELSE 0
               ELSE 1

\* Every match takes one order off each book, even when the sell order it
\* takes off is not the one it executed.
BookBalance ==
  Cardinality(Booked("SELL") \ rawSellside) =
    Cardinality(Booked("BUY") \ rawBuyside) + IF pcMatch = "eraseBuy" THEN 1 ELSE 0

\* An executed order passed risk control and the balance test, and executed
\* inside the price band although matchup compares prices that never passed
\* either; a sell order executes at its own price.
FillsPassedRiskControl ==
  \A a \in Addr : execPrice[a] # 0 =>
    /\ order[a] # Null
    /\ Verified(order[a]) /\ Affordable(order[a])
    /\ InBand(execPrice[a])
    /\ order[a].side = "SELL" => execPrice[a] = order[a].price

\* The quoted price is that of an execution and lies between the quoted
\* minimum and maximum, which are prices of executions too.
QuoteFollowsTrades ==
  /\ quote.min <= quote.now /\ quote.now <= quote.max
  /\ {quote.now, quote.min, quote.max} \subseteq
       {60} \cup {execPrice[a] : a \in {b \in Addr : execPrice[b] # 0}}

\* A client is told of an execution only when there was one, whatever matchup
\* pushes on the list between generateExecReport's back() and its pop_back().
NoticeOnlyAfterFill ==
  \A a \in Addr : notices[a] > 0 => fills[a] > 0

\* What f counts, one pair for each time.
Times(f) == UNION {{a} \X (1..f[a]) : a \in Addr}

\* As many notices are sent as there are executions taken off the list, the
\* one being handled counted when it was sent: pop_back drops one report per
\* notice, although it may drop another report than the one sent.
ReportAccounting ==
  Cardinality(Times(fills)) + (IF pcReport \in {"store", "mark", "pop"} THEN 1 ELSE 0)
    = Cardinality(Times(notices)) + Len(reportList)
        + (IF pcMatch = "reportSell" THEN 1 ELSE 0)

\* An order refused by risk control or for its balance is never in a book and
\* never executed; an order acknowledged has its row in the database.
AnswerMatchesFate ==
  \A a \in Addr :
    /\ replies[a] \in {"failed", "insufficient_balance"} =>
         a \notin rawBuyside \cup rawSellside /\ fills[a] = 0
    /\ replies[a] = "success" => OrderKeyTaken(dbOrder, order[a].nid, serial[a])

\* The price an order executed at never changes afterwards, even when a sell
\* order left in the book is executed again.
ExecPriceFinal ==
  [][\A a \in Addr : execPrice[a] # 0 => execPrice'[a] = execPrice[a]]_vars

-------------------------------------------------------------------------------
(* Liveness, under FairSpec *)

\* Order handling never waits for the matching thread: every queued message
\* is taken and answered unless the process dies.
OrdersServed ==
  (dq # <<>> \/ pcOrder # "poll") ~> (~Alive \/ (dq = <<>> /\ pcOrder = "poll"))

\* The list of reports is worked off.
ReportsDrained == (reportList # <<>>) ~> (~Alive \/ reportList = <<>>)

-------------------------------------------------------------------------------
(* What the documentation says, and the code does not do *)

\* A buy order never pays more than its order price.
BuyLimitRespected ==
  \A a \in Allocated :
    order[a].side = "BUY" => execPrice[a] <= order[a].price

\* Orders are matched one by one: no order is executed twice.
OneByOne == \A a \in Addr : fills[a] <= 1

\* Settlement is immediate: a pair matchup has decided to execute is executed,
\* without waiting for another client to send an order.
AcceptedPairTrades == (pcMatch = "relock") ~> (~Alive \/ pcMatch = "fill")

===============================================================================
