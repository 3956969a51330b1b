------------------------------ MODULE TraderProofs ------------------------------
(***************************************************************************)
(* Theorems about Trader, for every set of addresses, connections and      *)
(* requests, any balance, any bound on the queue and any database.         *)
(*                                                                         *)
(* They rest on one inductive invariant, IInv: what matchup holds is still *)
(* in the books, what is in the books was admitted, and what is reported   *)
(* was executed.                                                           *)
(***************************************************************************)
EXTENDS Trader, FiniteSetTheorems, SequenceTheorems, TLAPS

\* The orders matchup holds stay in their books until it erases them.
ScanInv ==
  /\ pcMatch \in {"scan", "compare", "relock", "fill", "reportSell",
                  "eraseSell", "eraseBuy"} => odb \in rawBuyside
  /\ pcMatch \in {"compare", "relock", "fill", "reportSell", "eraseSell"}
       => ods \in rawSellside

\* A serial number is given to an order that passed both tests, and an order
\* is in a book only after it got one.
BookInv ==
  /\ rawBuyside \subseteq Booked("BUY")
  /\ rawSellside \subseteq Booked("SELL")
  /\ \A a \in Addr : serial[a] # 0 =>
       order[a] # Null /\ Verified(order[a]) /\ Affordable(order[a])
  /\ pcOrder = "parse" => serial[od] = 0
  /\ pcOrder \in {"insert", "signal", "store"} => serial[od] # 0

\* An executed order was booked, and it has an execution price.
FillInv ==
  /\ \A a \in Addr : fills[a] # 0 => a \in Booked("BUY") \cup Booked("SELL")
  /\ \A a \in Addr : execPrice[a] = 0 <=> fills[a] = 0

\* Everything on its way to a client was executed.
ReportInv ==
  /\ pcReport # "idle" => reportList # <<>> /\ fills[p] # 0
  /\ pcMatch = "reportSell" => fills[ods] # 0
  /\ \A i \in 1..Len(reportList) : fills[reportList[i]] # 0

IInv == /\ TypeOK /\ ScanInv /\ BookInv /\ FillInv /\ ReportInv
        /\ BuyFilledOnce /\ FillsPassedRiskControl /\ NoticeOnlyAfterFill

-------------------------------------------------------------------------------
(* Facts about sequences and addresses *)

\* Appending and dropping an element stay within the sequences over a set, and
\* a larger set has more sequences.
LEMMA SeqFacts ==
  ASSUME NEW S, NEW s \in Seq(S)
  PROVE  /\ \A e \in S : Append(s, e) \in Seq(S)
         /\ s # <<>> => /\ SubSeq(s, 1, Len(s) - 1) \in Seq(S)
                        /\ Tail(s) \in Seq(S)
                        /\ Head(s) \in S
                        /\ s[Len(s)] \in S
                        /\ Len(s) \in 1..Len(s)
         /\ \A T : S \subseteq T => s \in Seq(T)
  OBVIOUS

\* The elements of a sequence after an append.
LEMMA AppendElements ==
  ASSUME NEW S, NEW s \in Seq(S), NEW e \in S
  PROVE  /\ \A i \in 1..Len(Append(s, e)) :
              Append(s, e)[i] = e \/ \E k \in 1..Len(s) : Append(s, e)[i] = s[k]
         /\ Append(s, e) # <<>>
  OBVIOUS

\* The elements of a sequence after its last one was dropped.
LEMMA FrontElements ==
  ASSUME NEW S, NEW s \in Seq(S), s # <<>>
  PROVE  \A i \in 1..Len(SubSeq(s, 1, Len(s) - 1)) :
           i \in 1..Len(s) /\ SubSeq(s, 1, Len(s) - 1)[i] = s[i]
  OBVIOUS

\* Allocating an address leaves the addresses allocated before allocated.
LEMMA AllocationGrows ==
  ASSUME TypeOK, TakeOrder
  PROVE  /\ Allocated' = Allocated \cup {od'}
         /\ od' \in Addr \ Allocated
         /\ order'[od'] \in Requests
         /\ \A a \in Allocated : order'[a] = order[a]
<1>1. Head(dq) \in Requests
  BY SeqFacts DEF TypeOK, ServerTypes, TakeOrder
<1>2. /\ od' \in Addr \ Allocated
      /\ order' = [order EXCEPT ![od'] = Head(dq)]
      /\ order \in [Addr -> Requests \cup {Null}]
  BY DEF TypeOK, OrderTypes, TakeOrder
<1> QED
  BY <1>1, <1>2, RequestAssumption DEF Allocated

\* A function updated with a value of its range keeps its type.
LEMMA UpdateType ==
  ASSUME NEW S, NEW T, NEW f \in [S -> T], NEW x, NEW v \in T
  PROVE  [f EXCEPT ![x] = v] \in [S -> T]
  OBVIOUS

-------------------------------------------------------------------------------
(* What the steps of each thread leave alone *)

otherStep ==
  \/ \E req \in Requests : PushOrder(req)
  \/ \E c \in Flaky : FreeConnection(c)
  \/ startTransaction
  \/ UNCHANGED vars

\* The steps of the order thread.
LEMMA OrderFrame ==
  ASSUME getOrder
  PROVE  /\ UNCHANGED <<connStorage, quote, execPrice, pcMatch, odb, ods,
                        reportList, pcReport, p, pcMain, fills, notices>>
         /\ TakeOrder \/ UNCHANGED <<dq, order, od>>
         /\ AdmitOrder \/ UNCHANGED <<serial, nid_sub2>>
         /\ InsertOrder \/ UNCHANGED <<rawBuyside, rawSellside>>
         /\ SignalMatchup \/ UNCHANGED cv_m
         /\ LookUpLostConnection \/ ReplyOrder \/ UNCHANGED process
         /\ ReplyOrder \/ UNCHANGED replies
  BY SMTT(30)
  DEF getOrder, TakeOrder, RefuseUnverified, RefuseUnaffordable, AdmitOrder,
      LookUpLostConnection, InsertOrder, SignalMatchup, StoreOrder, ReplyOrder,
      getOrderFrame, orderVars, bookVars, matchVars, reportVars, dbVars

\* The steps of the matching thread.
LEMMA MatchFrame ==
  ASSUME matchup
  PROVE  /\ UNCHANGED <<dq, connStorage, process, order, serial, nid_sub2, od,
                        pcOrder, answer, pcReport, p, pcMain, replies, notices>>
         /\ FillPair \/ UNCHANGED <<quote, execPrice, fills>>
         /\ FillPair \/ ReportSell \/ UNCHANGED reportList
         /\ EraseBuy \/ UNCHANGED rawBuyside
         /\ EraseSell \/ UNCHANGED rawSellside
  BY SMTT(30)
  DEF matchup, StartMatchup, EnterRound, PickPair, AcceptPair, RejectPair,
      RelockForFill, FillPair, ReportSell, EraseSell, EraseBuy, UnlockAfterFill,
      LeaveRound, matchupFrame, orderVars, bookVars, reportVars, dbVars

\* The steps of the report thread.
LEMMA ReportFrame ==
  ASSUME generateExecReport
  PROVE  /\ UNCHANGED <<dq, connStorage, quote, order, serial, nid_sub2, od,
                        pcOrder, answer, rawBuyside, rawSellside, execPrice,
                        cv_m, pcMatch, odb, ods, pcMain, replies, fills>>
         /\ SendExecReport \/ UNCHANGED <<process, notices>>
         /\ PopReport \/ UNCHANGED reportList
  BY SMTT(30)
  DEF generateExecReport, TakeReport, SendExecReport, StoreReport, MarkExecuted,
      PopReport, reportFrame, orderVars, bookVars, matchVars, dbVars

\* The steps of everybody else, and stuttering.
LEMMA OtherFrame ==
  ASSUME otherStep
  PROVE  UNCHANGED <<quote, process, order, serial, nid_sub2, od, pcOrder, answer,
                     rawBuyside, rawSellside, execPrice, pcMatch, odb, ods,
                     reportList, pcReport, p, replies, fills, notices>>
  BY SMTT(30)
  DEF otherStep, PushOrder, FreeConnection, startTransaction, MainLock, MainWait,
      mainFrame, vars, serverVars, orderVars, bookVars, matchVars, reportVars,
      dbVars

\* A step is one of order entry, of matching, of reporting, or another one.
LEMMA StepCases ==
  ASSUME [Next]_vars
  PROVE  getOrder \/ matchup \/ generateExecReport \/ otherStep
  BY DEF Next, otherStep

\* Addresses are only ever added.
LEMMA AllocatedStep ==
  ASSUME [Next]_vars
  PROVE  TakeOrder \/ (UNCHANGED order /\ Allocated' = Allocated)
  BY StepCases, OrderFrame, MatchFrame, ReportFrame, OtherFrame DEF Allocated

-------------------------------------------------------------------------------
(* Type correctness *)

\* A pointer that is not null where it is used points at an order.
LEMMA Pointers ==
  ASSUME IInv
  PROVE  /\ \A a \in Allocated : a \in Addr /\ a # Null /\ order[a] \in Requests
         /\ rawBuyside \subseteq Allocated /\ rawSellside \subseteq Allocated
         /\ pcOrder # "poll" => od \in Allocated
         /\ pcReport # "idle" => p \in Allocated
  BY AddrAssumption, RequestAssumption
  DEF IInv, TypeOK, OrderTypes, BookTypes, ThreadTypes, Allocated

\* Every step keeps the types of connections, queue and process.
LEMMA ServerTypesStep ==
  ASSUME IInv, [Next]_vars
  PROVE  ServerTypes'
<1> USE DEF ServerTypes
<1>0. ServerTypes
  BY DEF IInv, TypeOK
<1>1. CASE getOrder
  <2>1. UNCHANGED <<connStorage, quote>>
    BY <1>1, OrderFrame
  <2>2. dq' \in Seq(Requests)
    <3>1. CASE TakeOrder
      BY <1>0, <3>1, SeqFacts DEF TakeOrder
    <3>2. CASE UNCHANGED dq
      BY <1>0, <3>2
    <3> QED
      BY <1>1, <3>1, <3>2, OrderFrame
  <2>3. process' \in {"up", "dead"}
    BY <1>0, <1>1, OrderFrame DEF LookUpLostConnection, ReplyOrder, Crash
  <2> QED
    BY <1>0, <2>1, <2>2, <2>3
<1>2. CASE matchup
  <2>1. UNCHANGED <<dq, connStorage, process>>
    BY <1>2, MatchFrame
  <2>2. ASSUME FillPair
        PROVE  quote' \in [now : Nat, max : Nat, min : Nat]
    <3>1. ods \in Allocated /\ order[ods] \in Requests
      BY <2>2, Pointers DEF IInv, ScanInv, FillPair, AtMatch
    <3>2. order[ods].price \in Nat
      BY <3>1, RequestAssumption
    <3> QED
      BY <1>0, <2>2, <3>2 DEF FillPair, QuoteUpdate
  <2> QED
    BY <1>0, <1>2, <2>1, <2>2, MatchFrame
<1>3. CASE generateExecReport
  BY <1>0, <1>3, ReportFrame DEF SendExecReport, Crash
<1>4. CASE otherStep
  <2>1. UNCHANGED <<quote, process>>
    BY <1>4, OtherFrame
  <2>2. dq' \in Seq(Requests)
    BY <1>0, <1>4, SeqFacts
    DEF otherStep, PushOrder, FreeConnection, startTransaction, MainLock,
        MainWait, mainFrame, serverVars, vars
  <2>3. connStorage' \subseteq Conn
    BY <1>0, <1>4
    DEF otherStep, PushOrder, FreeConnection, startTransaction, MainLock,
        MainWait, mainFrame, serverVars, vars
  <2> QED
    BY <1>0, <2>1, <2>2, <2>3
<1> QED
  BY <1>1, <1>2, <1>3, <1>4, StepCases

\* Every step keeps the types of the orders and their fields.
LEMMA OrderTypesStep ==
  ASSUME IInv, [Next]_vars
  PROVE  OrderTypes'
<1> USE DEF OrderTypes
<1>0. OrderTypes
  BY DEF IInv, TypeOK
<1>1. CASE TakeOrder
  <2>1. /\ od' \in Allocated'
        /\ order' \in [Addr -> Requests \cup {Null}]
    <3>1. od' \in Addr /\ order'[od'] \in Requests
      BY <1>1, AllocationGrows DEF IInv
    <3>2. order' = [order EXCEPT ![od'] = order'[od']]
      BY <1>0, <1>1, <3>1 DEF TakeOrder
    <3> QED
      BY <1>0, <1>1, <3>1, <3>2, AllocationGrows DEF IInv
  <2>2. od' # Null
    BY <2>1, AddrAssumption DEF Allocated
  <2>3. pcOrder' = "parse" /\ UNCHANGED <<serial, nid_sub2, answer>>
    BY <1>1 DEF TakeOrder
  <2> QED
    BY <1>0, <2>1, <2>2, <2>3
<1>2. CASE AdmitOrder
  <2>1. serial' \in [Addr -> Nat]
    BY <1>0, <1>2, UpdateType DEF AdmitOrder
  <2>2. nid_sub2' \in Nat \ {0} /\ pcOrder' = "insert" /\ UNCHANGED <<od, answer>>
    BY <1>0, <1>2 DEF AdmitOrder
  <2>3. UNCHANGED order /\ Allocated' = Allocated /\ pcOrder = "parse"
    BY <1>2 DEF AdmitOrder, AtOrder, Allocated
  <2> QED
    BY <1>0, <2>1, <2>2, <2>3
<1>3. CASE getOrder /\ ~TakeOrder /\ ~AdmitOrder
  <2>1. UNCHANGED <<order, od, serial, nid_sub2>> /\ Allocated' = Allocated
    BY <1>3, OrderFrame DEF Allocated
  <2>2. /\ pcOrder' \in {"poll", "parse", "insert", "signal", "store", "reply"}
        /\ answer' \in Replies
        /\ pcOrder # "poll"
    BY <1>0, <1>3
    DEF getOrder, RefuseUnverified, RefuseUnaffordable, LookUpLostConnection,
        InsertOrder, SignalMatchup, StoreOrder, StoreAnswer, ReplyOrder, AtOrder,
        orderVars, Replies
  <2> QED
    BY <1>0, <2>1, <2>2
<1>4. CASE matchup \/ generateExecReport \/ otherStep
  <2>1. UNCHANGED <<order, od, serial, nid_sub2, pcOrder, answer>>
    BY <1>4, MatchFrame, ReportFrame, OtherFrame
  <2>2. Allocated' = Allocated
    BY <2>1 DEF Allocated
  <2> QED
    BY <1>0, <2>1, <2>2
<1> QED
  BY <1>1, <1>2, <1>3, <1>4, StepCases

\* Every step keeps the types of the books and the report list.
LEMMA BookTypesStep ==
  ASSUME IInv, [Next]_vars
  PROVE  BookTypes'
<1> USE DEF BookTypes
<1>0. BookTypes
  BY DEF IInv, TypeOK
<1>1. Allocated \subseteq Allocated'
  BY AllocatedStep, AllocationGrows DEF IInv
<1>2. CASE getOrder
  <2>1. UNCHANGED <<execPrice, reportList>>
    BY <1>2, OrderFrame
  <2>2. rawBuyside' \subseteq Allocated' /\ rawSellside' \subseteq Allocated'
    <3>1. CASE InsertOrder
      <4>1. od \in Allocated
        BY <3>1, Pointers DEF InsertOrder, AtOrder
      <4> QED
        BY <1>0, <1>1, <3>1, <4>1 DEF InsertOrder
    <3>2. CASE UNCHANGED <<rawBuyside, rawSellside>>
      BY <1>0, <1>1, <3>2
    <3> QED
      BY <1>2, <3>1, <3>2, OrderFrame
  <2>3. reportList \in Seq(Allocated')
    BY <1>0, <1>1, SeqFacts
  <2> QED
    BY <1>0, <2>1, <2>2, <2>3
<1>3. CASE matchup
  <2>1. Allocated' = Allocated
    BY <1>3, MatchFrame DEF Allocated
  <2>2. rawBuyside' \subseteq Allocated /\ rawSellside' \subseteq Allocated
    BY <1>0, <1>3, MatchFrame DEF EraseBuy, EraseSell
  <2>3. reportList' \in Seq(Allocated)
    <3>1. CASE FillPair
      <4>1. odb \in Allocated /\ reportList' = Append(reportList, odb)
        BY <3>1, Pointers DEF FillPair, IInv, ScanInv, AtMatch
      <4> QED
        BY <1>0, <4>1, SeqFacts
    <3>2. CASE ReportSell
      <4>1. ods \in Allocated /\ reportList' = Append(reportList, ods)
        BY <3>2, Pointers DEF ReportSell, IInv, ScanInv, AtMatch
      <4> QED
        BY <1>0, <4>1, SeqFacts
    <3> QED
      BY <1>0, <1>3, <3>1, <3>2, MatchFrame
  <2>4. ASSUME FillPair
        PROVE  execPrice' \in [Addr -> Nat]
    <3>1. ods \in Allocated /\ order[ods] \in Requests
      BY <2>4, Pointers DEF IInv, ScanInv, FillPair, AtMatch
    <3>2. FillPrice \in Nat
      BY <3>1, RequestAssumption DEF FillPrice
    <3> QED
      BY <1>0, <2>4, <3>2 DEF FillPair
  <2> QED
    BY <1>0, <1>3, <2>1, <2>2, <2>3, <2>4, MatchFrame
<1>4. CASE generateExecReport
  <2>1. UNCHANGED <<order, rawBuyside, rawSellside, execPrice>>
    BY <1>4, ReportFrame
  <2>2. Allocated' = Allocated
    BY <2>1 DEF Allocated
  <2>3. reportList' \in Seq(Allocated)
    BY <1>0, <1>4, ReportFrame, SeqFacts DEF PopReport, IInv, ReportInv, AtReport
  <2> QED
    BY <1>0, <2>1, <2>2, <2>3
<1>5. CASE otherStep
  <2>1. UNCHANGED <<order, rawBuyside, rawSellside, execPrice, reportList>>
    BY <1>5, OtherFrame
  <2>2. Allocated' = Allocated
    BY <2>1 DEF Allocated
  <2> QED
    BY <1>0, <2>1, <2>2
<1> QED
  BY <1>2, <1>3, <1>4, <1>5, StepCases

\* Every step keeps the types of what the threads hold.
LEMMA ThreadTypesStep ==
  ASSUME IInv, [Next]_vars
  PROVE  ThreadTypes'
<1> USE DEF ThreadTypes
<1>0. ThreadTypes
  BY DEF IInv, TypeOK
<1>1. Allocated \subseteq Allocated'
  BY AllocatedStep, AllocationGrows DEF IInv
<1>2. CASE getOrder
  <2>1. UNCHANGED <<pcMatch, odb, ods, pcReport, p, pcMain>>
    BY <1>2, OrderFrame
  <2>2. cv_m' \in {"free", "locked"}
    BY <1>0, <1>2, OrderFrame DEF SignalMatchup
  <2> QED
    BY <1>0, <1>1, <2>1, <2>2
<1>3. CASE matchup
  <2>1. UNCHANGED <<pcReport, p, pcMain>>
    BY <1>3, MatchFrame
  <2>2. /\ cv_m' \in {"free", "locked"}
        /\ pcMatch' \in {"start", "loop", "scan", "compare", "relock", "fill",
                         "reportSell", "eraseSell", "eraseBuy", "unlock", "sleep"}
        /\ odb' \in rawBuyside \cup {odb, Null}
        /\ ods' \in rawSellside \cup {ods, Null}
    BY <1>0, <1>3
    DEF matchup, StartMatchup, EnterRound, PickPair, AcceptPair, RejectPair,
        RelockForFill, FillPair, ReportSell, EraseSell, EraseBuy, UnlockAfterFill,
        LeaveRound
  <2> QED
    BY <1>0, <1>1, <2>1, <2>2, Pointers
<1>4. CASE generateExecReport
  <2>1. UNCHANGED <<cv_m, pcMatch, odb, ods, pcMain>>
    BY <1>4, ReportFrame
  <2>2. TakeReport => p' \in Allocated
    BY SeqFacts DEF TakeReport, IInv, TypeOK, BookTypes
  <2>3. /\ p' \in Allocated \cup {Null}
        /\ pcReport' \in {"idle", "send", "store", "mark", "pop"}
        /\ pcReport' # "idle" => p' # Null
    BY <1>0, <1>4, <2>2, Pointers
    DEF generateExecReport, TakeReport, SendExecReport, StoreReport, MarkExecuted,
        PopReport, AtReport
  <2> QED
    BY <1>0, <1>1, <2>1, <2>3
<1>5. CASE otherStep
  <2>1. UNCHANGED <<pcMatch, odb, ods, pcReport, p>>
    BY <1>5, OtherFrame
  <2>2. cv_m' \in {"free", "locked"} /\ pcMain' \in {"start", "locked", "waiting"}
    BY <1>0, <1>5
    DEF otherStep, PushOrder, FreeConnection, startTransaction, MainLock, MainWait,
        vars
  <2> QED
    BY <1>0, <1>1, <2>1, <2>2
<1> QED
  BY <1>2, <1>3, <1>4, <1>5, StepCases

\* Every step keeps the types of the history variables.
LEMMA HistoryTypesStep ==
  ASSUME IInv, [Next]_vars
  PROVE  HistoryTypes'
<1> USE DEF HistoryTypes
<1>0. HistoryTypes /\ answer \in Replies
  BY DEF IInv, TypeOK, OrderTypes
<1>1. CASE getOrder
  BY <1>0, <1>1, OrderFrame, UpdateType DEF ReplyOrder
<1>2. CASE matchup
  <2>1. UNCHANGED <<replies, notices>>
    BY <1>2, MatchFrame
  <2>2. CASE FillPair
    BY <1>0, <2>1, <2>2 DEF FillPair
  <2>3. CASE UNCHANGED fills
    BY <1>0, <2>1, <2>3
  <2> QED
    BY <1>2, <2>2, <2>3, MatchFrame
<1>3. CASE generateExecReport
  <2>1. UNCHANGED <<replies, fills>>
    BY <1>3, ReportFrame
  <2>2. CASE SendExecReport
    BY <1>0, <2>1, <2>2 DEF SendExecReport
  <2>3. CASE UNCHANGED notices
    BY <1>0, <2>1, <2>3
  <2> QED
    BY <1>3, <2>2, <2>3, ReportFrame
<1>4. CASE otherStep
  BY <1>0, <1>4, OtherFrame
<1> QED
  BY <1>1, <1>2, <1>3, <1>4, StepCases

\* Every step keeps the type invariant.
LEMMA TypeStep ==
  ASSUME IInv, [Next]_vars
  PROVE  TypeOK'
BY ServerTypesStep, OrderTypesStep, BookTypesStep, ThreadTypesStep, HistoryTypesStep
DEF TypeOK

-------------------------------------------------------------------------------
(* The books and what matchup holds of them *)

\* Only orderDataInsert adds to the booked orders, and it adds od.
LEMMA BookedStep ==
  ASSUME IInv, [Next]_vars, NEW side \in {"BUY", "SELL"}
  PROVE  /\ InsertOrder \/ Booked(side)' = Booked(side)
         /\ InsertOrder =>
              /\ od \notin Booked(side)
              /\ order[od].side = side => Booked(side)' = Booked(side) \cup {od}
              /\ order[od].side # side => Booked(side)' = Booked(side)
<1>1. CASE TakeOrder
  <2>1. /\ Allocated' = Allocated \cup {od'} /\ od' \in Addr \ Allocated
        /\ \A a \in Allocated : order'[a] = order[a]
        /\ UNCHANGED serial /\ pcOrder = "poll" /\ pcOrder' = "parse"
    BY <1>1, AllocationGrows DEF IInv, TakeOrder, AtOrder
  <2>2. serial[od'] = 0
    BY <2>1 DEF IInv, BookInv, Allocated
  <2>3. ~InsertOrder
    BY <2>1 DEF InsertOrder, AtOrder
  <2> QED
    BY <2>1, <2>2, <2>3 DEF Booked
<1>2. CASE getOrder /\ ~TakeOrder
  <2>1. UNCHANGED <<order, od>> /\ Allocated' = Allocated
    BY <1>2, OrderFrame DEF Allocated
  <2>2. CASE AdmitOrder
    <3>1. /\ pcOrder = "parse" /\ pcOrder' = "insert" /\ serial[od] = 0
          /\ serial' = [serial EXCEPT ![od] = nid_sub2]
          /\ serial \in [Addr -> Nat]
      BY <2>2 DEF AdmitOrder, AtOrder, IInv, BookInv, TypeOK, OrderTypes
    <3>2. ~InsertOrder
      BY <3>1 DEF InsertOrder, AtOrder
    <3>3. \A a \in Allocated : a # od => serial'[a] = serial[a]
      BY <3>1 DEF Allocated
    <3>4. Booked(side)' = Booked(side)
      BY <2>1, <3>1, <3>3 DEF Booked
    <3> QED
      BY <3>2, <3>4
  <2>3. CASE InsertOrder
    <3>1. /\ pcOrder = "insert" /\ pcOrder' = "signal" /\ UNCHANGED serial
          /\ serial[od] # 0 /\ od \in Allocated
      BY <2>3, Pointers DEF InsertOrder, AtOrder, IInv, BookInv
    <3>2. od \notin Booked(side)
      BY <3>1 DEF Booked
    <3>3. \A a : a \in Booked(side)' <=>
            a \in Booked(side) \/ (a = od /\ order[od].side = side)
      BY <2>1, <3>1 DEF Booked
    <3> QED
      BY <2>3, <3>2, <3>3
  <2>4. CASE ~AdmitOrder /\ ~InsertOrder
    <3>1. UNCHANGED serial
      BY <1>2, <2>4, OrderFrame
    <3>2. \/ pcOrder # "insert" /\ pcOrder' # "insert"
          \/ UNCHANGED pcOrder
      BY <1>2, <2>4
      DEF getOrder, RefuseUnverified, RefuseUnaffordable, LookUpLostConnection,
          SignalMatchup, StoreOrder, ReplyOrder, AtOrder, orderVars
    <3> QED
      BY <2>1, <2>4, <3>1, <3>2 DEF Booked
  <2> QED
    BY <2>2, <2>3, <2>4
<1>3. CASE matchup \/ generateExecReport \/ otherStep
  <2>1. UNCHANGED <<order, serial, pcOrder, od>>
    BY <1>3, MatchFrame, ReportFrame, OtherFrame
  <2>2. Allocated' = Allocated
    BY <2>1 DEF Allocated
  <2>3. ~InsertOrder
    BY <2>1 DEF InsertOrder, AtOrder
  <2> QED
    BY <2>1, <2>2, <2>3 DEF Booked
<1> QED
  BY <1>1, <1>2, <1>3, StepCases

\* Every step keeps what is said of the orders in the books.
LEMMA BookStep ==
  ASSUME IInv, [Next]_vars
  PROVE  BookInv'
<1>0. BookInv /\ OrderTypes
  BY DEF IInv, TypeOK
<1>1. rawBuyside' \subseteq Booked("BUY")' /\ rawSellside' \subseteq Booked("SELL")'
  <2>1. CASE InsertOrder
    <3>1. od \in Allocated /\ order[od].side \in {"BUY", "SELL"}
      BY <2>1, Pointers, RequestAssumption DEF InsertOrder, AtOrder
    <3> QED
      BY <1>0, <2>1, <3>1, BookedStep DEF BookInv, InsertOrder
  <2>2. CASE ~InsertOrder
    <3>1. rawBuyside' \subseteq rawBuyside /\ rawSellside' \subseteq rawSellside
      BY <2>2, StepCases, OrderFrame, MatchFrame, ReportFrame, OtherFrame
      DEF EraseBuy, EraseSell
    <3> QED
      BY <1>0, <2>2, <3>1, BookedStep DEF BookInv
  <2> QED
    BY <2>1, <2>2
<1>2. /\ \A a \in Addr : serial'[a] # 0 =>
            order'[a] # Null /\ Verified(order'[a]) /\ Affordable(order'[a])
      /\ pcOrder' = "parse" => serial'[od'] = 0
      /\ pcOrder' \in {"insert", "signal", "store"} => serial'[od'] # 0
  <2>1. CASE TakeOrder
    <3>1. /\ od' \in Addr \ Allocated /\ UNCHANGED serial /\ pcOrder' = "parse"
          /\ \A a \in Allocated : order'[a] = order[a]
      BY <2>1, AllocationGrows DEF IInv, TakeOrder
    <3> QED
      BY <1>0, <3>1 DEF BookInv, Allocated
  <2>2. CASE AdmitOrder
    <3>1. /\ od \in Allocated /\ Verified(order[od]) /\ Affordable(order[od])
          /\ serial' = [serial EXCEPT ![od] = nid_sub2] /\ nid_sub2 # 0
          /\ UNCHANGED <<order, od>> /\ pcOrder' = "insert"
      BY <1>0, <2>2, Pointers DEF AdmitOrder, AtOrder, OrderTypes
    <3> QED
      BY <1>0, <3>1 DEF BookInv, OrderTypes, Allocated
  <2>3. CASE getOrder /\ ~TakeOrder /\ ~AdmitOrder
    <3>1. UNCHANGED <<order, od, serial>>
      BY <2>3, OrderFrame
    <3>2. /\ pcOrder' = "parse" => pcOrder = "parse"
          /\ pcOrder' \in {"insert", "signal", "store"}
               => pcOrder \in {"insert", "signal", "store"}
      BY <2>3
      DEF getOrder, RefuseUnverified, RefuseUnaffordable, LookUpLostConnection,
          InsertOrder, SignalMatchup, StoreOrder, ReplyOrder, AtOrder, orderVars
    <3> QED
      BY <1>0, <3>1, <3>2 DEF BookInv
  <2>4. CASE matchup \/ generateExecReport \/ otherStep
    <3>1. UNCHANGED <<order, od, serial, pcOrder>>
      BY <2>4, MatchFrame, ReportFrame, OtherFrame
    <3> QED
      BY <1>0, <3>1 DEF BookInv
  <2> QED
    BY <2>1, <2>2, <2>3, <2>4, StepCases
<1> QED
  BY <1>1, <1>2 DEF BookInv, Verified, Affordable

\* Every step keeps the pair matching holds in its books.
LEMMA ScanStep ==
  ASSUME IInv, [Next]_vars
  PROVE  ScanInv'
<1>0. ScanInv
  BY DEF IInv
<1>1. CASE matchup
  BY <1>0, <1>1
  DEF ScanInv, matchup, StartMatchup, EnterRound, PickPair, AcceptPair, RejectPair,
      RelockForFill, FillPair, ReportSell, EraseSell, EraseBuy, UnlockAfterFill,
      LeaveRound, AtMatch, IsFirst, IsLast, IsNext, bookVars
<1>2. CASE getOrder \/ generateExecReport \/ otherStep
  <2>1. UNCHANGED <<pcMatch, odb, ods>>
    BY <1>2, OrderFrame, ReportFrame, OtherFrame
  <2>2. rawBuyside \subseteq rawBuyside' /\ rawSellside \subseteq rawSellside'
    BY <1>2, OrderFrame, ReportFrame, OtherFrame DEF InsertOrder
  <2> QED
    BY <1>0, <2>1, <2>2 DEF ScanInv
<1> QED
  BY <1>1, <1>2, StepCases

-------------------------------------------------------------------------------
(* Executions *)

\* The pair that is executed was booked, one order on each side.
LEMMA PairBooked ==
  ASSUME IInv, FillPair
  PROVE  /\ odb \in Booked("BUY") /\ ods \in Booked("SELL") /\ odb # ods
         /\ odb \in rawBuyside /\ pcMatch = "fill" /\ pcMatch' = "reportSell"
         /\ FillPrice = order[ods].price /\ FillPrice \in Nat \ {0}
         /\ UNCHANGED <<order, odb, ods, rawBuyside>>
<1>1. /\ odb \in rawBuyside /\ ods \in rawSellside
      /\ pcMatch = "fill" /\ pcMatch' = "reportSell"
      /\ UNCHANGED <<order, odb, ods, rawBuyside>>
  BY DEF IInv, ScanInv, FillPair, AtMatch, matchupFrame, orderVars, bookVars
<1>2. odb \in Booked("BUY") /\ ods \in Booked("SELL")
  BY <1>1 DEF IInv, BookInv
<1>3. odb # ods
  BY <1>2 DEF Booked
<1>4. FillPrice \in Nat \ {0}
  BY <1>1, Pointers, RequestAssumption DEF FillPrice
<1> QED
  BY <1>1, <1>2, <1>3, <1>4 DEF FillPrice

\* Only FillPair executes anything.
LEMMA OnlyFillPair ==
  ASSUME [Next]_vars
  PROVE  FillPair \/ UNCHANGED <<fills, execPrice>>
  BY StepCases, OrderFrame, MatchFrame, ReportFrame, OtherFrame

\* Every step keeps execution prices and executions together.
LEMMA FillStep ==
  ASSUME IInv, [Next]_vars
  PROVE  FillInv'
<1>0. FillInv /\ HistoryTypes /\ BookTypes
  BY DEF IInv, TypeOK
<1>1. Booked("BUY") \subseteq Booked("BUY")' /\ Booked("SELL") \subseteq Booked("SELL")'
  BY BookedStep, Pointers, RequestAssumption DEF InsertOrder, AtOrder
<1>2. CASE FillPair
  <2>1. /\ odb \in Booked("BUY") /\ ods \in Booked("SELL")
        /\ FillPrice \in Nat \ {0}
    BY <1>2, PairBooked
  <2>2. \A a \in Addr : /\ fills'[a] = IF a \in {odb, ods} THEN fills[a] + 1 ELSE fills[a]
                        /\ execPrice'[a] = IF a \in {odb, ods} THEN FillPrice
                                                              ELSE execPrice[a]
                        /\ fills[a] \in Nat
    BY <1>0, <1>2 DEF FillPair, HistoryTypes
  <2> QED
    BY <1>0, <1>1, <2>1, <2>2 DEF FillInv
<1>3. CASE UNCHANGED <<fills, execPrice>>
  BY <1>0, <1>1, <1>3 DEF FillInv
<1> QED
  BY <1>2, <1>3, OnlyFillPair

\* Every step keeps a buy order executed at most once.
LEMMA BuyFilledOnceStep ==
  ASSUME IInv, [Next]_vars
  PROVE  BuyFilledOnce'
<1> DEFINE M == {"reportSell", "eraseSell", "eraseBuy"}
<1>0. /\ BuyFilledOnce /\ HistoryTypes /\ ScanInv /\ FillInv /\ BookInv
      /\ \A a \in Booked("BUY") : a \in Addr
  BY DEF IInv, TypeOK, Booked, Allocated
<1>1. CASE InsertOrder
  <2>1. UNCHANGED <<order, odb, pcMatch, fills>>
    BY <1>1 DEF InsertOrder, getOrderFrame, matchVars
  <2>2. od \in Allocated /\ order[od].side \in {"BUY", "SELL"} /\ od \in Addr
    BY <1>1, Pointers, RequestAssumption DEF InsertOrder, AtOrder
  <2>3. od \notin Booked("BUY") /\ od \notin Booked("SELL") /\ fills[od] = 0
    BY <1>0, <1>1, <2>2, BookedStep DEF FillInv
  <2>4. pcMatch \in M => odb \in Booked("BUY")
    BY <1>0 DEF ScanInv, BookInv
  <2>5. CASE order[od].side = "BUY"
    <3>1. /\ Booked("BUY")' = Booked("BUY") \cup {od}
          /\ rawBuyside' = rawBuyside \cup {od}
      BY <1>1, <2>5, BookedStep DEF InsertOrder
    <3> QED
      BY <1>0, <2>1, <2>3, <2>4, <3>1 DEF BuyFilledOnce
  <2>6. CASE order[od].side = "SELL"
    <3>1. Booked("BUY")' = Booked("BUY") /\ rawBuyside' = rawBuyside
      BY <1>1, <2>6, BookedStep DEF InsertOrder
    <3> QED
      BY <1>0, <2>1, <3>1 DEF BuyFilledOnce
  <2> QED
    BY <2>2, <2>5, <2>6
<1>2. CASE matchup
  <2>1. Booked("BUY")' = Booked("BUY")
    BY <1>2, BookedStep, MatchFrame DEF InsertOrder, AtOrder
  <2>2. CASE FillPair
    <3>1. \A a \in Booked("BUY") :
            fills'[a] = IF a = odb THEN fills[a] + 1 ELSE fills[a]
      BY <1>0, <2>2, PairBooked DEF FillPair, Booked
    <3> QED
      BY <1>0, <2>1, <2>2, <3>1, PairBooked DEF BuyFilledOnce
  <2>3. CASE EraseBuy
    <3>1. /\ pcMatch = "eraseBuy" /\ pcMatch' = "unlock" /\ UNCHANGED fills
          /\ rawBuyside' = rawBuyside \ {odb} /\ odb \in rawBuyside
      BY <1>0, <2>3 DEF EraseBuy, AtMatch, ScanInv
    <3> QED
      BY <1>0, <2>1, <3>1 DEF BuyFilledOnce
  <2>4. CASE ~FillPair /\ ~EraseBuy
    <3>1. UNCHANGED <<fills, rawBuyside>>
      BY <1>2, <2>4, MatchFrame
    <3>2. \/ pcMatch \in M /\ pcMatch' \in M /\ UNCHANGED odb
          \/ pcMatch \notin M /\ pcMatch' \notin M
      BY <1>2, <2>4
      DEF matchup, StartMatchup, EnterRound, PickPair, AcceptPair, RejectPair,
          RelockForFill, ReportSell, EraseSell, UnlockAfterFill, LeaveRound, AtMatch
    <3> QED
      BY <1>0, <2>1, <3>1, <3>2 DEF BuyFilledOnce
  <2> QED
    BY <2>2, <2>3, <2>4
<1>3. CASE ~InsertOrder /\ (getOrder \/ generateExecReport \/ otherStep)
  <2>1. UNCHANGED <<fills, rawBuyside, pcMatch, odb>>
    BY <1>3, OrderFrame, ReportFrame, OtherFrame
  <2>2. Booked("BUY")' = Booked("BUY")
    BY <1>3, BookedStep
  <2> QED
    BY <1>0, <2>1, <2>2 DEF BuyFilledOnce
<1> QED
  BY <1>1, <1>2, <1>3, StepCases

\* Every step keeps executions to admitted orders.
LEMMA RiskStep ==
  ASSUME IInv, [Next]_vars
  PROVE  FillsPassedRiskControl'
<1>0. FillsPassedRiskControl /\ BookTypes
  BY DEF IInv, TypeOK
<1>1. CASE FillPair
  <2>1. \A a \in {odb, ods} : /\ order[a] # Null
                              /\ Verified(order[a]) /\ Affordable(order[a])
    BY <1>1, PairBooked DEF IInv, BookInv, Booked, Allocated
  <2>2. InBand(FillPrice) /\ FillPrice = order[ods].price /\ order[odb].side = "BUY"
    BY <1>1, <2>1, PairBooked DEF Verified, Booked
  <2>3. \A a \in Addr : execPrice'[a] = IF a \in {odb, ods} THEN FillPrice
                                                          ELSE execPrice[a]
    BY <1>1 DEF FillPair
  <2>4. UNCHANGED order
    BY <1>1, PairBooked
  <2> QED
    BY <1>0, <2>1, <2>2, <2>3, <2>4
    DEF FillsPassedRiskControl, Verified, Affordable, InBand
<1>2. CASE UNCHANGED <<fills, execPrice>>
  <2>1. \A a \in Addr : order[a] # Null => order'[a] = order[a]
    BY AllocatedStep, AllocationGrows DEF IInv, Allocated
  <2> QED
    BY <1>0, <1>2, <2>1 DEF FillsPassedRiskControl, Verified, Affordable, InBand
<1> QED
  BY <1>1, <1>2, OnlyFillPair

-------------------------------------------------------------------------------
(* Reports *)

\* What was executed stays executed.
LEMMA FillsGrow ==
  ASSUME IInv, [Next]_vars
  PROVE  /\ \A a \in Addr : fills[a] # 0 => fills'[a] # 0
         /\ FillPair => fills'[odb] # 0 /\ fills'[ods] # 0
<1>0. HistoryTypes
  BY DEF IInv, TypeOK
<1>1. CASE FillPair
  BY <1>0, <1>1, PairBooked DEF FillPair, HistoryTypes, Booked, Allocated
<1>2. CASE ~FillPair
  BY <1>2, OnlyFillPair
<1> QED
  BY <1>1, <1>2

\* Every step keeps the report list to executed orders.
LEMMA ReportStep ==
  ASSUME IInv, [Next]_vars
  PROVE  ReportInv' /\ NoticeOnlyAfterFill'
<1>0. /\ ReportInv /\ NoticeOnlyAfterFill /\ HistoryTypes
      /\ reportList \in Seq(Allocated) /\ Allocated \subseteq Addr
  BY DEF IInv, TypeOK, BookTypes, Allocated
<1>1. \A i \in 1..Len(reportList) : reportList[i] \in Addr /\ fills'[reportList[i]] # 0
  BY <1>0, FillsGrow DEF ReportInv
<1>2. CASE FillPair
  <2>1. reportList' = Append(reportList, odb) /\ odb \in Allocated /\ UNCHANGED ods
    BY <1>2, PairBooked DEF FillPair, Booked
  <2>2. UNCHANGED <<pcReport, p, notices>>
    BY <1>2 DEF FillPair, matchupFrame, reportVars
  <2>3. pcReport # "idle" => p \in Addr
    BY <1>0, Pointers
  <2>4. \A i \in 1..Len(reportList') : fills'[reportList'[i]] # 0
    <3>1. fills'[odb] # 0
      BY <1>2, FillsGrow
    <3>2. \A i \in 1..Len(reportList') :
            reportList'[i] = odb \/ \E k \in 1..Len(reportList) : reportList'[i] = reportList[k]
      BY <1>0, <2>1, AppendElements
    <3> QED
      BY <1>1, <3>1, <3>2
  <2>5. reportList' # <<>> /\ fills'[ods] # 0
    BY <1>0, <1>2, <2>1, AppendElements, FillsGrow
  <2>6. \A a \in Addr : notices'[a] > 0 => fills'[a] > 0
    <3>1. \A a \in Addr : fills[a] \in Nat /\ fills'[a] \in Nat
      BY <1>0, TypeStep DEF TypeOK, HistoryTypes
    <3> QED
      BY <1>0, <2>2, <3>1, FillsGrow DEF NoticeOnlyAfterFill
  <2> QED
    BY <1>0, <2>1, <2>2, <2>3, <2>4, <2>5, <2>6, FillsGrow
    DEF ReportInv, NoticeOnlyAfterFill
<1>3. CASE ReportSell
  <2>1. /\ ods \in Allocated /\ reportList' = Append(reportList, ods)
        /\ fills[ods] # 0 /\ pcMatch' = "eraseSell"
    BY <1>0, <1>3, Pointers DEF ReportSell, AtMatch, IInv, ScanInv, ReportInv
  <2>2. UNCHANGED <<pcReport, p, notices, fills>>
    BY <1>3 DEF ReportSell, matchupFrame, reportVars
  <2> QED
    BY <1>0, <2>1, <2>2, AppendElements DEF ReportInv, NoticeOnlyAfterFill
<1>4. CASE generateExecReport
  <2>1. UNCHANGED <<fills, pcMatch, ods>>
    BY <1>4, ReportFrame
  <2>2. pcReport' # "idle" => reportList' # <<>> /\ fills[p'] # 0
    <3>1. CASE TakeReport
      <4>1. p' = reportList[Len(reportList)] /\ Len(reportList) \in 1..Len(reportList)
        BY <1>0, <3>1, SeqFacts DEF TakeReport
      <4> QED
        BY <1>0, <3>1, <4>1 DEF TakeReport, ReportInv
    <3>2. CASE ~TakeReport
      BY <1>0, <1>4, <3>2
      DEF generateExecReport, SendExecReport, StoreReport, MarkExecuted,
          PopReport, AtReport, ReportInv
    <3> QED
      BY <3>1, <3>2
  <2>3. \A a \in Addr : notices'[a] > 0 => notices[a] > 0 \/ fills[a] # 0
    <3>1. CASE SendExecReport
      BY <1>0, <3>1 DEF SendExecReport, AtReport, ReportInv, HistoryTypes
    <3>2. CASE UNCHANGED notices
      BY <3>2
    <3> QED
      BY <1>4, <3>1, <3>2, ReportFrame
  <2>4. CASE PopReport
    <3>1. reportList # <<>> /\ reportList' = SubSeq(reportList, 1, Len(reportList) - 1)
      BY <1>0, <2>4 DEF PopReport, AtReport, ReportInv
    <3>2. \A i \in 1..Len(reportList') : fills[reportList'[i]] # 0
      BY <1>0, <3>1, FrontElements DEF ReportInv
    <3> QED
      BY <1>0, <2>1, <2>2, <2>3, <3>2 DEF ReportInv, NoticeOnlyAfterFill, HistoryTypes
  <2>5. CASE UNCHANGED reportList
    BY <1>0, <2>1, <2>2, <2>3, <2>5 DEF ReportInv, NoticeOnlyAfterFill, HistoryTypes
  <2> QED
    BY <1>4, <2>4, <2>5, ReportFrame
<1>5. CASE ~FillPair /\ ~ReportSell /\ (getOrder \/ matchup \/ otherStep)
  <2>1. UNCHANGED <<fills, reportList, pcReport, p, notices>>
    BY <1>5, OrderFrame, MatchFrame, OtherFrame
  <2>2. pcMatch' = "reportSell" => pcMatch = "reportSell" /\ UNCHANGED ods
    BY <1>5, OrderFrame, OtherFrame
    DEF matchup, StartMatchup, EnterRound, PickPair, AcceptPair, RejectPair,
        RelockForFill, EraseSell, EraseBuy, UnlockAfterFill, LeaveRound
  <2> QED
    BY <1>0, <2>1, <2>2 DEF ReportInv, NoticeOnlyAfterFill
<1> QED
  BY <1>2, <1>3, <1>4, <1>5, StepCases

-------------------------------------------------------------------------------
(* The inductive invariant, and the theorems it gives *)

\* The invariant holds before the threads start.
LEMMA Initial == Init => IInv
<1> SUFFICES ASSUME Init
             PROVE  IInv
  OBVIOUS
<1>1. TypeOK
  BY EnvironmentAssumption
  DEF Init, TypeOK, ServerTypes, OrderTypes, BookTypes, ThreadTypes, HistoryTypes,
      InitialQuote, Replies, Allocated
<1>2. ScanInv /\ BookInv /\ FillInv /\ ReportInv
  BY DEF Init, ScanInv, BookInv, FillInv, ReportInv
<1>3. BuyFilledOnce /\ FillsPassedRiskControl /\ NoticeOnlyAfterFill
  BY DEF Init, BuyFilledOnce, FillsPassedRiskControl, NoticeOnlyAfterFill, Booked,
         Allocated
<1> QED
  BY <1>1, <1>2, <1>3 DEF IInv

\* Every step keeps the invariant.
LEMMA Inductive == IInv /\ [Next]_vars => IInv'
BY TypeStep, ScanStep, BookStep, FillStep, ReportStep, BuyFilledOnceStep, RiskStep
DEF IInv

\* The invariant holds in every reachable state.
LEMMA Invariant == Spec => []IInv
BY Initial, Inductive, PTL DEF Spec

\* Every reachable state has its type: in particular no thread uses a pointer
\* that does not point at an order, whatever the other threads did.
THEOREM TypeCorrect == Spec => []TypeOK
<1>1. IInv => TypeOK
  BY DEF IInv
<1> QED
  BY Invariant, <1>1, PTL

\* A buy order is executed at most once, and off the book exactly when it was.
THEOREM BuyExecutedOnce == Spec => []BuyFilledOnce
<1>1. IInv => BuyFilledOnce
  BY DEF IInv
<1> QED
  BY Invariant, <1>1, PTL

\* No order is executed that risk control or the balance test refused.
THEOREM ExecutionsAdmitted == Spec => []FillsPassedRiskControl
<1>1. IInv => FillsPassedRiskControl
  BY DEF IInv
<1> QED
  BY Invariant, <1>1, PTL

\* No client is told of an execution that did not take place.
THEOREM NoticesTruthful == Spec => []NoticeOnlyAfterFill
<1>1. IInv => NoticeOnlyAfterFill
  BY DEF IInv
<1> QED
  BY Invariant, <1>1, PTL

\* The price an order executed at is final: a buy order is executed once, and a
\* sell order executed again is executed at its own price again.
THEOREM PriceFinal == Spec => ExecPriceFinal
<1>1. IInv /\ [Next]_vars
        => [\A a \in Addr : execPrice[a] # 0 => execPrice'[a] = execPrice[a]]_vars
  <2> SUFFICES ASSUME IInv, [Next]_vars, NEW a \in Addr, execPrice[a] # 0
               PROVE  execPrice'[a] = execPrice[a]
    OBVIOUS
  <2>1. CASE FillPair
    <3>1. a # odb
      BY <2>1, PairBooked DEF IInv, FillInv, BuyFilledOnce
    <3>2. a = ods => execPrice[a] = FillPrice
      BY <2>1, PairBooked DEF IInv, FillsPassedRiskControl, Booked
    <3> QED
      BY <2>1, <3>1, <3>2 DEF FillPair
  <2>2. CASE UNCHANGED <<fills, execPrice>>
    BY <2>2
  <2> QED
    BY <2>1, <2>2, OnlyFillPair
<1> QED
  BY Invariant, <1>1, PTL DEF Spec, ExecPriceFinal


-------------------------------------------------------------------------------
(* The quote *)

\* Prices of executions stay, and a new quote is one of them or an older one.
LEMMA QuoteStep ==
  ASSUME IInv, QuoteFollowsTrades, [Next]_vars
  PROVE  QuoteFollowsTrades'
<1>1. CASE FillPair
  <2> DEFINE old == {execPrice[a] : a \in {b \in Addr : execPrice[b] # 0}}
             new == {execPrice'[a] : a \in {b \in Addr : execPrice'[b] # 0}}
  <2>0. /\ FillPrice \in Nat \ {0} /\ FillPrice = order[ods].price
        /\ odb \in Booked("BUY") /\ ods \in Booked("SELL")
        /\ odb \in rawBuyside /\ pcMatch = "fill"
    BY <1>1, PairBooked
  <2> HIDE DEF old, new
  <2>1. /\ FillPrice \in Nat \ {0} /\ odb \in Addr /\ ods \in Addr
        /\ FillPrice = order[ods].price /\ order[ods].side = "SELL"
    <3>1. odb \in Addr
      BY <2>0 DEF Booked, Allocated
    <3>2. ods \in Addr /\ order[ods].side = "SELL"
      BY <2>0 DEF Booked, Allocated
    <3> QED
      BY <2>0, <3>1, <3>2
  <2>2. \A a \in Addr : execPrice'[a] = IF a \in {odb, ods} THEN FillPrice ELSE execPrice[a]
    BY <1>1 DEF FillPair
  <2>3. \A a \in Addr : execPrice[a] # 0 => execPrice'[a] = execPrice[a]
    <3>1. execPrice[odb] = 0
      BY <2>0, <2>1 DEF IInv, FillInv, BuyFilledOnce
    <3>2. execPrice[ods] # 0 => execPrice[ods] = FillPrice
      BY <2>1 DEF IInv, FillsPassedRiskControl
    <3> QED
      BY <2>2, <3>1, <3>2
  <2>4. old \subseteq new
    BY <2>3 DEF old, new
  <2>5. FillPrice \in new
    BY <2>1, <2>2 DEF new
  <2>6. quote' = QuoteUpdate(quote, FillPrice)
    BY <1>1, <2>1 DEF FillPair
  <2>7. quote \in [now : Nat, max : Nat, min : Nat] /\ FillPrice \in Nat
    BY <2>1 DEF IInv, TypeOK, ServerTypes
  <2>8. {quote.now, quote.min, quote.max} \subseteq {60} \cup old
    BY DEF QuoteFollowsTrades, old
  <2>9. {quote'.now, quote'.min, quote'.max} \subseteq {60} \cup new
    BY <2>4, <2>5, <2>6, <2>7, <2>8 DEF QuoteUpdate
  <2>10. quote'.min <= quote'.now /\ quote'.now <= quote'.max
    BY <2>6, <2>7 DEF QuoteUpdate, QuoteFollowsTrades
  <2> QED
    BY <2>9, <2>10 DEF QuoteFollowsTrades, new
<1>2. CASE UNCHANGED <<quote, execPrice>>
  BY <1>2 DEF QuoteFollowsTrades
<1> QED
  BY <1>1, <1>2, StepCases, OrderFrame, MatchFrame, ReportFrame, OtherFrame

\* The price quoted is that of an execution, between the quoted bounds, whatever
\* becomes of the orders: quoteUpdate, called by matchup.
THEOREM QuoteOfTrades == Spec => []QuoteFollowsTrades
<1>1. Init => QuoteFollowsTrades
  BY DEF Init, InitialQuote, QuoteFollowsTrades
<1>2. IInv /\ QuoteFollowsTrades /\ [Next]_vars => QuoteFollowsTrades'
  BY QuoteStep
<1> QED
  BY <1>1, <1>2, Invariant, PTL DEF Spec

-------------------------------------------------------------------------------
(* The table *)

\* A row has the columns of the table.
RowInv ==
  \A r \in dbOrder : DOMAIN r = {"nid", "serial", "price", "side", "situation"}

\* No statement of the trading threads takes a key out of the table.
LEMMA KeysKept ==
  ASSUME IInv, RowInv, [Next]_vars
  PROVE  /\ RowInv'
         /\ \A nid, s : OrderKeyTaken(dbOrder, nid, s) => OrderKeyTaken(dbOrder', nid, s)
<1>1. CASE StoreOrder
  <2>1. \/ dbOrder' = dbOrder
        \/ dbOrder' = dbOrder \cup {OrderRow(order[od], serial[od])}
    BY <1>1 DEF StoreOrder, insertOrder
  <2>2. DOMAIN OrderRow(order[od], serial[od])
          = {"nid", "serial", "price", "side", "situation"}
    BY DEF OrderRow
  <2> QED
    BY <2>1, <2>2 DEF RowInv, OrderKeyTaken
<1>2. CASE MarkExecuted
  <2> DEFINE n == order[p].nid
             mark(r) == IF r.nid = n THEN [r EXCEPT !.situation = EXECUTE] ELSE r
  <2>1. dbOrder' = dbOrder \/ dbOrder' = {mark(r) : r \in dbOrder}
    BY <1>2 DEF MarkExecuted, updateOrderSituation
  <2>2. \A r \in dbOrder : /\ mark(r).nid = r.nid /\ mark(r).serial = r.serial
                           /\ DOMAIN mark(r) = DOMAIN r
    BY DEF RowInv
  <2> HIDE DEF mark
  <2> QED
    BY <2>1, <2>2 DEF RowInv, OrderKeyTaken
<1>3. CASE UNCHANGED dbOrder
  BY <1>3 DEF RowInv, OrderKeyTaken
<1>4. StoreOrder \/ MarkExecuted \/ UNCHANGED dbOrder
  BY SMTT(30)
  DEF Next, getOrder, TakeOrder, RefuseUnverified, RefuseUnaffordable, AdmitOrder,
      LookUpLostConnection, InsertOrder, SignalMatchup, ReplyOrder, matchup,
      StartMatchup, EnterRound, PickPair, AcceptPair, RejectPair, RelockForFill,
      FillPair, ReportSell, EraseSell, EraseBuy, UnlockAfterFill, LeaveRound,
      generateExecReport, TakeReport, SendExecReport, StoreReport, PopReport,
      PushOrder, FreeConnection, startTransaction, MainLock, MainWait,
      matchupFrame, reportFrame, mainFrame, dbVars, vars
<1> QED
  BY <1>1, <1>2, <1>3, <1>4

-------------------------------------------------------------------------------
(* Answers *)

Refusals == {"failed", "insufficient_balance"}

\* An answer, given or about to be, agrees with the serial number and the row of
\* the order; an order that is being worked on has none.
AnswerInv ==
  /\ \A a \in Addr :
       /\ replies[a] # "none" => a \in Allocated /\ (pcOrder # "poll" => a # od)
       /\ replies[a] \in Refusals => serial[a] = 0
       /\ replies[a] = "success" => OrderKeyTaken(dbOrder, order[a].nid, serial[a])
  /\ pcOrder = "reply" =>
       /\ answer \in Refusals => serial[od] = 0
       /\ answer = "success" => OrderKeyTaken(dbOrder, order[od].nid, serial[od])

\* The steps that neither answer nor change what an answer is about.
LEMMA AnswersKept ==
  ASSUME IInv, RowInv, AnswerInv, [Next]_vars,
         UNCHANGED <<order, serial, od, replies, answer>>,
         pcOrder' = pcOrder \/ (pcOrder # "poll" /\ pcOrder' \in {"signal", "store"})
  PROVE  AnswerInv'
BY KeysKept DEF AnswerInv, Allocated

\* Every step keeps the answer true of the order it is about.
LEMMA AnswerStep ==
  ASSUME IInv, RowInv, AnswerInv, [Next]_vars
  PROVE  AnswerInv'
<1>0. \A nid, s : OrderKeyTaken(dbOrder, nid, s) => OrderKeyTaken(dbOrder', nid, s)
  BY KeysKept
<1>1. CASE TakeOrder
  <2>1. /\ Allocated' = Allocated \cup {od'} /\ od' \in Addr \ Allocated
        /\ \A a \in Allocated : order'[a] = order[a]
    BY <1>1, AllocationGrows DEF IInv
  <2>2. UNCHANGED <<serial, replies>> /\ pcOrder' = "parse"
    BY <1>1 DEF TakeOrder
  <2> QED
    BY <1>0, <2>1, <2>2 DEF AnswerInv
<1>2. CASE RefuseUnverified \/ RefuseUnaffordable
  <2>1. /\ pcOrder = "parse" /\ pcOrder' = "reply" /\ answer' \in Refusals
        /\ UNCHANGED <<order, serial, od, replies>>
    BY <1>2 DEF RefuseUnverified, RefuseUnaffordable, AtOrder, Refusals
  <2>2. serial[od] = 0
    BY <2>1 DEF IInv, BookInv
  <2> QED
    BY <1>0, <2>1, <2>2 DEF AnswerInv, Allocated, Refusals
<1>3. CASE AdmitOrder
  <2>1. /\ pcOrder = "parse" /\ pcOrder' = "insert" /\ UNCHANGED <<order, od, replies>>
        /\ serial' = [serial EXCEPT ![od] = nid_sub2]
    BY <1>3 DEF AdmitOrder, AtOrder
  <2>2. \A a \in Addr : a # od => serial'[a] = serial[a]
    BY <2>1 DEF IInv, TypeOK, OrderTypes
  <2>3. \A a \in Addr : replies[a] # "none" => a # od
    BY <2>1 DEF AnswerInv
  <2> QED
    BY <1>0, <2>1, <2>2, <2>3 DEF AnswerInv, Allocated, Refusals
<1>4. CASE StoreOrder
  <2>1. /\ pcOrder = "store" /\ pcOrder' = "reply" /\ UNCHANGED <<order, serial, od, replies>>
        /\ \/ answer' = "repeat_nid"
           \/ answer' = "success" /\ dbOrder' = insertOrder(dbOrder, order[od], serial[od])
    BY <1>4 DEF StoreOrder, StoreAnswer, AtOrder
  <2>2. answer' = "success" => OrderKeyTaken(dbOrder', order[od].nid, serial[od])
    <3>1. CASE OrderKeyTaken(dbOrder, order[od].nid, serial[od])
      BY <1>0, <3>1
    <3>2. CASE ~OrderKeyTaken(dbOrder, order[od].nid, serial[od])
      <4> DEFINE row == OrderRow(order[od], serial[od])
      <4>1. row.nid = order[od].nid /\ row.serial = serial[od]
        BY DEF OrderRow
      <4>2. answer' = "success" => row \in dbOrder'
        BY <2>1, <3>2 DEF insertOrder
      <4> HIDE DEF row
      <4> QED
        BY <4>1, <4>2 DEF OrderKeyTaken
    <3> QED
      BY <3>1, <3>2
  <2> QED
    BY <1>0, <2>1, <2>2 DEF AnswerInv, Allocated, Refusals
<1>5. CASE ReplyOrder
  <2>1. pcOrder = "reply" /\ UNCHANGED <<order, serial, od>>
    BY <1>5 DEF ReplyOrder, AtOrder
  <2>2. CASE replies' = [replies EXCEPT ![od] = answer] /\ pcOrder' = "poll"
    <3>1. od \in Allocated
      BY <2>1, Pointers
    <3>2. \A a \in Addr : replies'[a] = IF a = od THEN answer ELSE replies[a]
      BY <2>2 DEF IInv, TypeOK, HistoryTypes
    <3> QED
      BY <1>0, <2>1, <2>2, <3>1, <3>2 DEF AnswerInv, Allocated
  <2>3. CASE UNCHANGED <<replies, answer, pcOrder>>
    BY <2>1, <2>3, AnswersKept
  <2> QED
    BY <1>5, <2>2, <2>3 DEF ReplyOrder
<1>6. CASE LookUpLostConnection \/ InsertOrder \/ SignalMatchup
  <2>1. /\ UNCHANGED <<order, serial, od, replies, answer>>
        /\ pcOrder' = pcOrder \/ (pcOrder # "poll" /\ pcOrder' \in {"signal", "store"})
    BY <1>6 DEF LookUpLostConnection, InsertOrder, SignalMatchup, AtOrder, orderVars
  <2> QED
    BY <2>1, AnswersKept
<1>7. CASE matchup \/ generateExecReport \/ otherStep
  BY <1>7, MatchFrame, ReportFrame, OtherFrame, AnswersKept
<1> QED
  BY <1>1, <1>2, <1>3, <1>4, <1>5, <1>6, <1>7, StepCases DEF getOrder

\* The three invariants hold in every reachable state.
LEMMA AnswerInvariant == Spec => [](IInv /\ RowInv /\ AnswerInv)
<1>1. Init => RowInv /\ AnswerInv
  BY RowsAssumption DEF Init, RowInv, AnswerInv, Refusals
<1>2. IInv /\ (RowInv /\ AnswerInv) /\ [Next]_vars => (RowInv /\ AnswerInv)'
  BY KeysKept, AnswerStep
<1> QED
  BY <1>1, <1>2, Invariant, PTL DEF Spec

\* An order its client was told was refused is in no book and never executes, and
\* one that was acknowledged has its row, whatever statements failed and however the
\* matching ran meanwhile: getOrder and generateExecReport.
THEOREM AnswersTrue == Spec => []AnswerMatchesFate
<1>1. IInv /\ RowInv /\ AnswerInv => AnswerMatchesFate
  <2> SUFFICES ASSUME IInv, AnswerInv, NEW a \in Addr
               PROVE  /\ replies[a] \in Refusals =>
                           a \notin rawBuyside \cup rawSellside /\ fills[a] = 0
                      /\ replies[a] = "success" =>
                           OrderKeyTaken(dbOrder, order[a].nid, serial[a])
    BY DEF AnswerMatchesFate, Refusals
  <2>1. serial[a] = 0 => a \notin Booked("BUY") \cup Booked("SELL")
    BY DEF Booked
  <2> QED
    BY <2>1 DEF IInv, AnswerInv, BookInv, FillInv
<1> QED
  BY <1>1, AnswerInvariant, PTL

-------------------------------------------------------------------------------
(* The balance of the books *)

\* The booked orders that have left their books.
GoneBuys == Booked("BUY") \ rawBuyside
GoneSells == Booked("SELL") \ rawSellside

BalanceInv == IsFiniteSet(GoneBuys) /\ IsFiniteSet(GoneSells) /\ BookBalance

\* The erasures take one booked order off a book each; an order just booked is in
\* its book, and nothing else touches books or booked orders.
LEMMA GoneStep ==
  ASSUME IInv, [Next]_vars
  PROVE  \/ /\ pcMatch = "eraseSell" /\ pcMatch' = "eraseBuy" /\ GoneBuys' = GoneBuys
            /\ \E s : s \notin GoneSells /\ GoneSells' = GoneSells \cup {s}
         \/ /\ pcMatch = "eraseBuy" /\ pcMatch' = "unlock" /\ GoneSells' = GoneSells
            /\ \E b : b \notin GoneBuys /\ GoneBuys' = GoneBuys \cup {b}
         \/ /\ GoneBuys' = GoneBuys /\ GoneSells' = GoneSells
            /\ pcMatch' = "eraseBuy" <=> pcMatch = "eraseBuy"
<1>0. BookInv /\ ScanInv
  BY DEF IInv
<1>1. CASE InsertOrder
  <2>1. /\ od \in Allocated /\ order[od].side \in {"BUY", "SELL"}
        /\ pcMatch' = pcMatch
    BY <1>1, Pointers, RequestAssumption, OrderFrame DEF InsertOrder, AtOrder, getOrder
  <2>2. GoneBuys' = GoneBuys /\ GoneSells' = GoneSells
    BY <1>1, <2>1, BookedStep DEF GoneBuys, GoneSells, InsertOrder
  <2> QED
    BY <2>1, <2>2
<1>2. CASE ~InsertOrder
  <2>1. Booked("BUY")' = Booked("BUY") /\ Booked("SELL")' = Booked("SELL")
    BY <1>2, BookedStep
  <2>2. CASE EraseSell
    <3>1. /\ pcMatch = "eraseSell" /\ pcMatch' = "eraseBuy" /\ UNCHANGED rawBuyside
      BY <2>2 DEF EraseSell, AtMatch
    <3>2. PICK s \in rawSellside : rawSellside' = rawSellside \ {s}
      BY <2>2 DEF EraseSell
    <3>3. s \notin GoneSells /\ GoneSells' = GoneSells \cup {s}
      BY <1>0, <2>1, <3>2 DEF BookInv, GoneSells
    <3>4. GoneBuys' = GoneBuys
      BY <2>1, <3>1 DEF GoneBuys
    <3> QED
      BY <3>1, <3>3, <3>4
  <2>3. CASE EraseBuy
    <3>1. /\ pcMatch = "eraseBuy" /\ pcMatch' = "unlock" /\ UNCHANGED rawSellside
          /\ rawBuyside' = rawBuyside \ {odb}
      BY <2>3 DEF EraseBuy, AtMatch
    <3>2. odb \in rawBuyside
      BY <1>0, <3>1 DEF ScanInv
    <3>3. odb \notin GoneBuys /\ GoneBuys' = GoneBuys \cup {odb}
      BY <1>0, <2>1, <3>1, <3>2 DEF BookInv, GoneBuys
    <3>4. GoneSells' = GoneSells
      BY <2>1, <3>1 DEF GoneSells
    <3> QED
      BY <3>1, <3>3, <3>4
  <2>4. CASE ~EraseSell /\ ~EraseBuy
    <3>1. UNCHANGED <<rawBuyside, rawSellside>>
      BY <1>2, <2>4, StepCases, OrderFrame, MatchFrame, ReportFrame, OtherFrame
    <3>2. pcMatch' = "eraseBuy" <=> pcMatch = "eraseBuy"
      <4>1. CASE matchup
        BY <2>4, <4>1
        DEF matchup, StartMatchup, EnterRound, PickPair, AcceptPair, RejectPair,
            RelockForFill, FillPair, ReportSell, UnlockAfterFill, LeaveRound, AtMatch
      <4>2. CASE getOrder \/ generateExecReport \/ otherStep
        BY <4>2, OrderFrame, ReportFrame, OtherFrame
      <4> QED
        BY <4>1, <4>2, StepCases
    <3> QED
      BY <2>1, <3>1, <3>2 DEF GoneBuys, GoneSells
  <2> QED
    BY <2>2, <2>3, <2>4
<1> QED
  BY <1>1, <1>2

\* Every step keeps the two counts together.
LEMMA BalanceStep ==
  ASSUME IInv, BalanceInv, [Next]_vars
  PROVE  BalanceInv'
<1>1. /\ IsFiniteSet(GoneBuys) /\ IsFiniteSet(GoneSells)
      /\ Cardinality(GoneSells) = Cardinality(GoneBuys) + IF pcMatch = "eraseBuy" THEN 1 ELSE 0
  BY DEF BalanceInv, BookBalance, GoneBuys, GoneSells
<1>2. Cardinality(GoneBuys) \in Nat /\ Cardinality(GoneSells) \in Nat
  BY <1>1, FS_CardinalityType
<1>3. \A S, e : IsFiniteSet(S) /\ e \notin S =>
        IsFiniteSet(S \cup {e}) /\ Cardinality(S \cup {e}) = Cardinality(S) + 1
  BY FS_AddElement
<1> HIDE DEF GoneBuys, GoneSells
<1>4. /\ IsFiniteSet(GoneBuys') /\ IsFiniteSet(GoneSells')
      /\ Cardinality(GoneSells') = Cardinality(GoneBuys') + IF pcMatch' = "eraseBuy" THEN 1 ELSE 0
  <2>1. CASE /\ pcMatch = "eraseSell" /\ pcMatch' = "eraseBuy" /\ GoneBuys' = GoneBuys
             /\ \E s : s \notin GoneSells /\ GoneSells' = GoneSells \cup {s}
    BY <1>1, <1>2, <1>3, <2>1
  <2>2. CASE /\ pcMatch = "eraseBuy" /\ pcMatch' = "unlock" /\ GoneSells' = GoneSells
             /\ \E b : b \notin GoneBuys /\ GoneBuys' = GoneBuys \cup {b}
    BY <1>1, <1>2, <1>3, <2>2
  <2>3. CASE /\ GoneBuys' = GoneBuys /\ GoneSells' = GoneSells
             /\ pcMatch' = "eraseBuy" <=> pcMatch = "eraseBuy"
    BY <1>1, <2>3
  <2> QED
    BY <2>1, <2>2, <2>3, GoneStep
<1> QED
  BY <1>4 DEF BalanceInv, BookBalance, GoneBuys, GoneSells

\* Nothing is booked at first.
LEMMA BalanceInitial == Init => BalanceInv
<1> SUFFICES ASSUME Init PROVE BalanceInv
  OBVIOUS
<1>1. GoneBuys = {} /\ GoneSells = {}
  BY DEF Init, GoneBuys, GoneSells, Booked, Allocated
<1>2. pcMatch = "start"
  BY DEF Init
<1> QED
  BY <1>1, <1>2, FS_EmptySet DEF BalanceInv, BookBalance, GoneBuys, GoneSells

\* Every match takes one order off each book, whichever the two iterators hit:
\* the erasures at the end of matchup's inner block.
THEOREM BooksBalance == Spec => []BookBalance
<1>1. BalanceInv => BookBalance
  BY DEF BalanceInv
<1> QED
  BY <1>1, Initial, Inductive, BalanceInitial, BalanceStep, PTL DEF Spec


-------------------------------------------------------------------------------
(* Executions and notices *)

\* Counting once more adds one pair.
LEMMA OneMore ==
  ASSUME NEW f \in [Addr -> Nat], NEW x \in Addr, NEW g \in [Addr -> Nat],
         \A a \in Addr : g[a] = IF a = x THEN f[a] + 1 ELSE f[a], IsFiniteSet(Times(f))
  PROVE  IsFiniteSet(Times(g)) /\ Cardinality(Times(g)) = Cardinality(Times(f)) + 1
<1> DEFINE new == <<x, f[x] + 1>>
<1>1. Times(g) = Times(f) \cup {new}
  <2>1. ASSUME NEW e \in Times(g) PROVE e \in Times(f) \cup {new}
    <3>1. PICK a \in Addr : e \in {a} \X (1..g[a])
      BY <2>1 DEF Times
    <3>2. PICK k \in 1..g[a] : e = <<a, k>>
      BY <3>1
    <3>3. CASE a = x /\ k = f[x] + 1
      BY <3>2, <3>3
    <3>4. CASE ~(a = x /\ k = f[x] + 1)
      <4>1. k \in 1..f[a]
        BY <3>4
      <4> QED
        BY <3>2, <4>1 DEF Times
    <3> QED
      BY <3>3, <3>4
  <2>2. ASSUME NEW e \in Times(f) PROVE e \in Times(g)
    <3>1. PICK a \in Addr : e \in {a} \X (1..f[a])
      BY <2>2 DEF Times
    <3>2. PICK k \in 1..f[a] : e = <<a, k>>
      BY <3>1
    <3>3. k \in 1..g[a]
      OBVIOUS
    <3> QED
      BY <3>2, <3>3 DEF Times
  <2>3. new \in Times(g)
    <3>1. f[x] + 1 \in 1..g[x]
      OBVIOUS
    <3> QED
      BY <3>1 DEF Times
  <2> QED
    BY <2>1, <2>2, <2>3
<1>2. new \notin Times(f)
  <2>1. ASSUME new \in Times(f) PROVE FALSE
    <3>1. PICK a \in Addr : new \in {a} \X (1..f[a])
      BY <2>1 DEF Times
    <3>2. a = x /\ f[x] + 1 \in 1..f[a]
      BY <3>1
    <3> QED
      BY <3>2
  <2> QED
    BY <2>1
<1> HIDE DEF new
<1>3. IsFiniteSet(Times(f) \cup {new}) /\ Cardinality(Times(f) \cup {new}) = Cardinality(Times(f)) + 1
  BY <1>2, FS_AddElement
<1> QED
  BY <1>1, <1>3

\* pop_back leaves one element fewer.
LEMMA OneDropped ==
  ASSUME NEW s \in Seq(Allocated), s # <<>>
  PROVE  Len(SubSeq(s, 1, Len(s) - 1)) = Len(s) - 1
<1>1. Len(s) \in Nat /\ Len(s) # 0
  OBVIOUS
<1> DEFINE n == Len(s) - 1
<1>2. n \in Nat /\ n <= Len(s)
  BY <1>1
<1> HIDE DEF n
<1>3. Len(SubSeq(s, 1, n)) = IF 1 <= n THEN n - 1 + 1 ELSE 0
  BY <1>2, SubSeqProperties
<1>4. Len(SubSeq(s, 1, n)) = n
  BY <1>2, <1>3
<1> QED
  BY <1>4 DEF n

\* g counts x once more than f does.
CountsMore(f, g, x) == \A a \in Addr : g[a] = IF a = x THEN f[a] + 1 ELSE f[a]

\* f counts n events in all.
Total(f, n) == IsFiniteSet(Times(f)) /\ Cardinality(Times(f)) = n

\* One event more at one address is one event more in all.
LEMMA TotalMore ==
  ASSUME NEW f, NEW g, NEW x \in Addr, NEW n \in Nat,
         f \in [Addr -> Nat], g \in [Addr -> Nat], CountsMore(f, g, x), Total(f, n)
  PROVE  Total(g, n + 1)
<1>1. IsFiniteSet(Times(g)) /\ Cardinality(Times(g)) = Cardinality(Times(f)) + 1
  BY OneMore DEF CountsMore, Total
<1> QED
  BY <1>1 DEF Total

\* The sums of ReportAccounting are of finite sets.
CountInv == IsFiniteSet(Times(fills)) /\ IsFiniteSet(Times(notices)) /\ ReportAccounting

\* The account in numbers: f executions and n notices, l reports on the list, the
\* threads at r and m.
Balanced(f, n, l, r, m) ==
  f + (IF r \in {"store", "mark", "pop"} THEN 1 ELSE 0)
    = n + l + (IF m = "reportSell" THEN 1 ELSE 0)

\* CountInv holds after a step if the numbers are these and balance.
LEMMA CountFrom ==
  ASSUME NEW f, NEW n, NEW l, Total(fills', f), Total(notices', n), Len(reportList') = l,
         Balanced(f, n, l, pcReport', pcMatch')
  PROVE  CountInv'
<1>1. Times(fills)' = Times(fills') /\ Times(notices)' = Times(notices')
  BY DEF Times
<1>2. /\ IsFiniteSet(Times(fills)') /\ Cardinality(Times(fills)') = f
      /\ IsFiniteSet(Times(notices)') /\ Cardinality(Times(notices)') = n
  BY <1>1 DEF Total
<1> QED
  BY <1>2 DEF Balanced, CountInv, ReportAccounting

\* Every step keeps the account of reports.
LEMMA CountStep ==
  ASSUME IInv, CountInv, [Next]_vars
  PROVE  CountInv'
<1> DEFINE F == Cardinality(Times(fills))
           N == Cardinality(Times(notices))
           L == Len(reportList)
<1>0. /\ ReportInv /\ reportList \in Seq(Allocated) /\ Allocated \subseteq Addr
      /\ fills \in [Addr -> Nat] /\ notices \in [Addr -> Nat]
      /\ F \in Nat /\ N \in Nat /\ L \in Nat
      /\ Total(fills, F) /\ Total(notices, N) /\ Balanced(F, N, L, pcReport, pcMatch)
  <2>1. F \in Nat /\ N \in Nat
    BY FS_CardinalityType DEF CountInv
  <2>2. Balanced(F, N, L, pcReport, pcMatch)
    BY DEF CountInv, ReportAccounting, Balanced
  <2>3. Total(fills, F) /\ Total(notices, N)
    BY DEF CountInv, Total
  <2>4. /\ ReportInv /\ reportList \in Seq(Allocated) /\ Allocated \subseteq Addr
        /\ fills \in [Addr -> Nat] /\ notices \in [Addr -> Nat]
    BY DEF IInv, TypeOK, BookTypes, HistoryTypes, Allocated
  <2>5. L \in Nat
    BY <2>4
  <2> QED
    BY <2>1, <2>2, <2>3, <2>4, <2>5
<1> HIDE DEF F, N
<1>1. fills' \in [Addr -> Nat] /\ notices' \in [Addr -> Nat]
  BY TypeStep DEF TypeOK, HistoryTypes
<1>2. CASE FillPair
  <2>1. /\ odb \in Addr /\ ods \in Addr /\ odb # ods /\ odb \in Allocated
        /\ pcMatch = "fill" /\ pcMatch' = "reportSell" /\ reportList' = Append(reportList, odb)
        /\ UNCHANGED <<pcReport, notices>>
    BY <1>2, PairBooked DEF FillPair, Booked, Allocated, matchupFrame, reportVars
  <2> DEFINE f1 == [a \in Addr |-> IF a = odb THEN fills[a] + 1 ELSE fills[a]]
  <2>2. f1 \in [Addr -> Nat] /\ CountsMore(fills, f1, odb)
    BY <1>0 DEF CountsMore
  <2>3. CountsMore(f1, fills', ods)
    BY <1>2, <2>1 DEF FillPair, CountsMore
  <2> HIDE DEF f1
  <2>4. Total(f1, F + 1)
    BY <1>0, <2>1, <2>2, TotalMore
  <2>5. Total(fills', F + 2)
    <3>1. F + 1 \in Nat /\ (F + 1) + 1 = F + 2
      BY <1>0
    <3>2. Total(fills', (F + 1) + 1)
      BY <1>1, <2>1, <2>2, <2>3, <2>4, <3>1, TotalMore
    <3> QED
      BY <3>1, <3>2
  <2>6. Len(reportList') = L + 1
    BY <1>0, <2>1
  <2>7. Balanced(F + 2, N, L + 1, pcReport', pcMatch')
    <3> HIDE DEF L
    <3> QED
      BY <1>0, <2>1 DEF Balanced
  <2>8. Total(notices', N)
    BY <1>0, <2>1
  <2> QED
    BY <2>5, <2>6, <2>7, <2>8, CountFrom
<1>3. CASE ReportSell
  <2>1. /\ ods \in Allocated /\ reportList' = Append(reportList, ods)
        /\ pcMatch = "reportSell" /\ pcMatch' = "eraseSell"
        /\ UNCHANGED <<fills, notices, pcReport>>
    BY <1>3, Pointers DEF ReportSell, AtMatch, IInv, ScanInv, matchupFrame, reportVars
  <2>2. Len(reportList') = L + 1
    BY <1>0, <2>1
  <2>3. Balanced(F, N, L + 1, pcReport', pcMatch')
    <3> HIDE DEF L
    <3> QED
      BY <1>0, <2>1 DEF Balanced
  <2>4. Total(fills', F) /\ Total(notices', N)
    BY <1>0, <2>1
  <2> QED
    BY <2>2, <2>3, <2>4, CountFrom
<1>4. CASE SendExecReport
  <2>1. /\ pcReport = "send" /\ UNCHANGED <<fills, pcMatch, reportList>>
        /\ \/ UNCHANGED <<notices, pcReport>>
           \/ notices' = [notices EXCEPT ![p] = @ + 1] /\ pcReport' = "store"
    BY <1>4 DEF SendExecReport, AtReport, reportFrame, matchVars
  <2>2. CASE UNCHANGED <<notices, pcReport>>
    BY <2>1, <2>2 DEF CountInv, ReportAccounting, Times
  <2>3. CASE notices' = [notices EXCEPT ![p] = @ + 1] /\ pcReport' = "store"
    <3>1. p \in Addr
      BY <1>0, <2>1, Pointers
    <3>2. CountsMore(notices, notices', p)
      BY <1>0, <2>3 DEF CountsMore
    <3>3. Total(notices', N + 1)
      BY <1>0, <1>1, <3>1, <3>2, TotalMore
    <3>4. Balanced(F, N + 1, L, pcReport', pcMatch')
      <4> HIDE DEF L
      <4> QED
        BY <1>0, <2>1, <2>3 DEF Balanced
    <3>5. Total(fills', F) /\ Len(reportList') = L
      BY <1>0, <2>1
    <3> QED
      BY <3>3, <3>4, <3>5, CountFrom
  <2> QED
    BY <2>1, <2>2, <2>3
<1>5. CASE PopReport
  <2>1. /\ pcReport = "pop" /\ pcReport' = "idle" /\ UNCHANGED <<fills, notices, pcMatch>>
        /\ reportList # <<>> /\ reportList' = SubSeq(reportList, 1, Len(reportList) - 1)
    BY <1>0, <1>5 DEF PopReport, AtReport, reportFrame, matchVars, ReportInv
  <2>2. Len(reportList') = L - 1
    <3>1. L # 0
      BY <1>0, <2>1
    <3>2. L - 1 \in 0..L
      BY <1>0, <3>1
    <3> QED
      BY <1>0, <2>1, <3>1, <3>2, OneDropped
  <2>3. Balanced(F, N, L - 1, pcReport', pcMatch')
    <3> HIDE DEF L
    <3> QED
      BY <1>0, <2>1 DEF Balanced
  <2>4. Total(fills', F) /\ Total(notices', N)
    BY <1>0, <2>1
  <2> QED
    BY <2>2, <2>3, <2>4, CountFrom
<1>6. CASE generateExecReport /\ ~SendExecReport /\ ~PopReport
  <2>1. UNCHANGED <<fills, notices, reportList, pcMatch>>
    BY <1>6, ReportFrame
  <2>2. pcReport \in {"store", "mark", "pop"} <=> pcReport' \in {"store", "mark", "pop"}
    BY <1>6 DEF generateExecReport, TakeReport, StoreReport, MarkExecuted, AtReport
  <2> QED
    BY <2>1, <2>2 DEF CountInv, ReportAccounting, Times
<1>7. CASE ~FillPair /\ ~ReportSell /\ (getOrder \/ matchup \/ otherStep)
  <2>1. UNCHANGED <<fills, reportList, pcReport, notices>>
    BY <1>7, OrderFrame, MatchFrame, OtherFrame
  <2>2. pcMatch' = "reportSell" <=> pcMatch = "reportSell"
    BY <1>7, OrderFrame, OtherFrame
    DEF matchup, StartMatchup, EnterRound, PickPair, AcceptPair, RejectPair,
        RelockForFill, EraseSell, EraseBuy, UnlockAfterFill, LeaveRound, AtMatch
  <2> QED
    BY <2>1, <2>2 DEF CountInv, ReportAccounting, Times
<1> QED
  BY <1>2, <1>3, <1>4, <1>5, <1>6, <1>7, StepCases

\* Nothing is counted before the threads start.
LEMMA CountInitial == Init => CountInv
<1> SUFFICES ASSUME Init PROVE CountInv
  OBVIOUS
<1>1. Times(fills) = {} /\ Times(notices) = {}
  BY DEF Init, Times
<1>2. IsFiniteSet({}) /\ Cardinality({}) = 0
  BY FS_EmptySet
<1>3. Len(reportList) = 0 /\ pcReport = "idle" /\ pcMatch = "start"
  BY DEF Init
<1>4. 0 + (IF pcReport \in {"store", "mark", "pop"} THEN 1 ELSE 0)
        = 0 + Len(reportList) + (IF pcMatch = "reportSell" THEN 1 ELSE 0)
  BY <1>3
<1> QED
  BY <1>1, <1>2, <1>4 DEF CountInv, ReportAccounting

\* One notice is sent for each execution reported: generateExecReport reads the end of
\* the list and drops it three statements later, while matchup pushes; the element
\* dropped may be another one, but never one too many or too few.
THEOREM ReportsCounted == Spec => []ReportAccounting
<1>1. IInv /\ CountInv /\ [Next]_vars => CountInv'
  BY CountStep
<1>2. CountInv => ReportAccounting
  BY DEF CountInv
<1> QED
  BY CountInitial, Invariant, <1>1, <1>2, PTL DEF Spec
===============================================================================
