--------------------------- MODULE TraderBookProofs ---------------------------
(***************************************************************************)
(* The trader implements MatchBook for every value of the constants: its   *)
(* initial state is an initial state of the book, and each of its steps is *)
(* an Accept (orderDataInsert), a Match (the erasure of the sell order) or *)
(* leaves the book alone.                                                  *)
(***************************************************************************)
EXTENDS TraderBook, TraderProofs

\* Between the assignment of the prices and the erasure of the sell order, the
\* pair is executed and carries the price of the sell order.
PairInv ==
  Matching => /\ fills[odb] # 0 /\ fills[ods] # 0
              /\ execPrice[odb] = order[ods].price

\* Every step keeps the price of a pair between execution and erasure.
LEMMA PairStep ==
  ASSUME IInv, PairInv, [Next]_vars
  PROVE  PairInv'
<1>1. CASE FillPair
  <2>1. fills'[odb] # 0 /\ fills'[ods] # 0 /\ UNCHANGED <<odb, ods, order>>
    BY <1>1, FillsGrow, PairBooked
  <2>2. execPrice'[odb] = order[ods].price
    BY <1>1, PairBooked DEF FillPair, Booked, Allocated
  <2> QED
    BY <2>1, <2>2 DEF PairInv
<1>2. CASE UNCHANGED <<fills, execPrice>> /\ ~FillPair
  <2>1. Matching' => Matching /\ UNCHANGED <<odb, ods>>
    <3>1. CASE matchup
      BY <1>2, <3>1
      DEF Matching, matchup, StartMatchup, EnterRound, PickPair, AcceptPair,
          RejectPair, RelockForFill, ReportSell, EraseSell, EraseBuy,
          UnlockAfterFill, LeaveRound, AtMatch
    <3>2. CASE getOrder \/ generateExecReport \/ otherStep
      BY <3>2, OrderFrame, ReportFrame, OtherFrame DEF Matching
    <3> QED
      BY <3>1, <3>2, StepCases
  <2>2. Matching => ods \in Allocated
    BY Pointers DEF Matching, IInv, ScanInv
  <2>3. \A a \in Allocated : order'[a] = order[a]
    BY AllocatedStep, AllocationGrows DEF IInv
  <2> QED
    BY <1>2, <2>1, <2>2, <2>3 DEF PairInv
<1> QED
  BY <1>1, <1>2, OnlyFillPair

-------------------------------------------------------------------------------
\* The trader starts as an empty book.
LEMMA BookInitial == Init => Book!Init
BY DEF Init, Book!Init, bookLimit, bookBuys, bookFills, bookPrice, Accepted, Booked,
       Allocated, Matching

\* What was accepted keeps its limit, unless orderDataInsert adds an order.
LEMMA LimitStep ==
  ASSUME IInv, [Next]_vars, ~InsertOrder
  PROVE  UNCHANGED bookLimit
<1>1. Booked("BUY")' = Booked("BUY") /\ Booked("SELL")' = Booked("SELL")
  BY BookedStep
<1>2. \A a \in Accepted : order'[a] = order[a]
  BY AllocatedStep, AllocationGrows DEF IInv, Accepted, Booked
<1> QED
  BY <1>1, <1>2 DEF bookLimit, Accepted

\* orderDataInsert accepts an order.
LEMMA AcceptStep ==
  ASSUME IInv, [Next]_vars, InsertOrder
  PROVE  Book!Next
<1>1. /\ od \in Allocated /\ od \in Addr /\ order[od] \in Requests
      /\ order[od].side \in {"BUY", "SELL"}
  BY Pointers, RequestAssumption DEF InsertOrder, AtOrder
<1>2. od \notin Booked("BUY") /\ od \notin Booked("SELL")
  BY BookedStep
<1>3. UNCHANGED <<order, odb, ods, pcMatch, fills, execPrice>>
  BY DEF InsertOrder, getOrderFrame, matchVars
<1>4. Accepted' = Accepted \cup {od}
  BY <1>1, BookedStep DEF Accepted
<1>5. bookLimit[od] = 0 /\ bookLimit' = [bookLimit EXCEPT ![od] = order[od].price]
  BY <1>1, <1>2, <1>3, <1>4 DEF bookLimit, Accepted
<1>6. UNCHANGED <<bookFills, bookPrice>>
  BY <1>3 DEF bookFills, bookPrice, Matching
<1>7. \/ bookBuys' = bookBuys \cup {od} /\ UNCHANGED rawSellside
      \/ rawSellside' = rawSellside \cup {od} /\ UNCHANGED bookBuys
  <2>1. pcMatch = "eraseBuy" => odb # od
    BY <1>2 DEF IInv, ScanInv, BookInv
  <2> QED
    BY <1>1, <1>3, <2>1 DEF InsertOrder, bookBuys
<1>8. Book!Accept(od, order[od].price)
  BY <1>5, <1>6, <1>7 DEF Book!Accept
<1> QED
  BY <1>1, <1>8 DEF Book!Next

\* The erasure of the sell order is the match.
LEMMA MatchStep ==
  ASSUME IInv, PairInv, [Next]_vars, EraseSell
  PROVE  Book!Next
<1>1. /\ pcMatch = "eraseSell" /\ pcMatch' = "eraseBuy"
      /\ UNCHANGED <<order, odb, ods, rawBuyside, fills, execPrice>>
      /\ odb \in rawBuyside /\ ods \in rawSellside
  BY DEF EraseSell, AtMatch, IInv, ScanInv, matchupFrame, orderVars
<1>2. PICK s \in rawSellside : rawSellside' = rawSellside \ {s}
  BY DEF EraseSell
<1>3. /\ odb \in Booked("BUY") /\ ods \in Booked("SELL")
      /\ odb \in Addr /\ ods \in Addr /\ order[ods].side = "SELL"
  BY <1>1 DEF IInv, BookInv, Booked, Allocated
<1>4. /\ fills \in [Addr -> Nat] /\ execPrice \in [Addr -> Nat]
      /\ fills[odb] # 0 /\ fills[ods] # 0 /\ fills[odb] = 1
  BY <1>1, <1>3 DEF IInv, TypeOK, HistoryTypes, BookTypes, PairInv, Matching,
                    BuyFilledOnce
<1>5. execPrice[odb] = order[ods].price /\ execPrice[ods] = order[ods].price
  BY <1>1, <1>3, <1>4 DEF PairInv, Matching, IInv, FillInv, FillsPassedRiskControl
<1>6. bookLimit[ods] = order[ods].price
  BY <1>3 DEF bookLimit, Accepted
<1>7. bookBuys = rawBuyside /\ bookBuys' = rawBuyside \ {odb}
  BY <1>1 DEF bookBuys
<1>8. bookFills' = [bookFills EXCEPT ![odb] = @ + 1, ![ods] = @ + 1]
  <2>1. odb # ods
    BY <1>3 DEF Booked
  <2>2. /\ bookFills' = [a \in Addr |-> fills[a]]
        /\ bookFills = [a \in Addr |-> IF a \in {odb, ods} THEN fills[a] - 1 ELSE fills[a]]
    BY <1>1 DEF bookFills, Matching
  <2> QED
    BY <1>3, <1>4, <2>1, <2>2
<1>9. bookPrice' = [bookPrice EXCEPT ![odb] = order[ods].price, ![ods] = order[ods].price]
  <2>1. /\ bookPrice' = [a \in Addr |-> IF fills[a] = 0 THEN 0 ELSE execPrice[a]]
        /\ \A a \in Addr \ {odb, ods} : bookFills[a] = fills[a]
    BY <1>1 DEF bookPrice, bookFills, Matching
  <2>2. bookPrice = [a \in Addr |-> IF bookFills[a] = 0 THEN 0 ELSE execPrice[a]]
    BY DEF bookPrice
  <2> QED
    BY <1>3, <1>4, <1>5, <2>1, <2>2
<1>10. UNCHANGED bookLimit
  BY <1>1, LimitStep DEF EraseSell, InsertOrder, AtOrder, matchupFrame, orderVars
<1>11. Book!Match(odb, ods, s)
  BY <1>2, <1>6, <1>7, <1>8, <1>9, <1>10 DEF Book!Match
<1> QED
  BY <1>1, <1>2, <1>7, <1>11 DEF Book!Next

\* The execution itself is not seen in the book yet; a sell order executed
\* before executes at its own price again.
LEMMA FillHidden ==
  ASSUME IInv, [Next]_vars, FillPair
  PROVE  UNCHANGED Book!vars
<1>1. /\ odb \in Booked("BUY") /\ ods \in Booked("SELL") /\ odb # ods
      /\ odb \in rawBuyside /\ pcMatch = "fill" /\ pcMatch' = "reportSell"
      /\ FillPrice = order[ods].price
      /\ UNCHANGED <<odb, ods, rawBuyside>>
  BY PairBooked
<1>2. odb \in Addr /\ ods \in Addr /\ order[ods].side = "SELL"
  BY <1>1 DEF Booked, Allocated
<1>3. fills \in [Addr -> Nat] /\ execPrice \in [Addr -> Nat] /\ fills[odb] = 0
  BY <1>1 DEF IInv, TypeOK, HistoryTypes, BookTypes, BuyFilledOnce
<1>4. fills[ods] # 0 => execPrice[ods] = order[ods].price
  BY <1>2 DEF IInv, FillInv, FillsPassedRiskControl
<1>5. UNCHANGED <<bookBuys, rawSellside>>
  BY <1>1 DEF bookBuys, FillPair, bookVars
<1>6. bookFills' = bookFills
  <2>1. bookFills = [a \in Addr |-> fills[a]]
    BY <1>1 DEF bookFills, Matching
  <2>2. bookFills' = [a \in Addr |-> IF a \in {odb, ods} THEN fills'[a] - 1 ELSE fills'[a]]
    BY <1>1 DEF bookFills, Matching
  <2>3. fills' = [a \in Addr |-> IF a \in {odb, ods} THEN fills[a] + 1 ELSE fills[a]]
    BY DEF FillPair
  <2> QED
    BY <1>3, <2>1, <2>2, <2>3
<1>7. bookPrice' = bookPrice
  <2>1. bookPrice' = [a \in Addr |-> IF bookFills[a] = 0 THEN 0 ELSE execPrice'[a]]
    BY <1>6 DEF bookPrice
  <2>2. \A a \in Addr : bookFills[a] = fills[a]
    BY <1>1 DEF bookFills, Matching
  <2>3. execPrice' = [a \in Addr |-> IF a \in {odb, ods} THEN order[ods].price
                                                        ELSE execPrice[a]]
    BY <1>1 DEF FillPair
  <2>4. bookPrice = [a \in Addr |-> IF bookFills[a] = 0 THEN 0 ELSE execPrice[a]]
    BY DEF bookPrice
  <2>5. \A a \in Addr : bookFills[a] # 0 => execPrice'[a] = execPrice[a]
    BY <1>3, <1>4, <2>2, <2>3
  <2> QED
    BY <2>1, <2>4, <2>5
<1>8. UNCHANGED bookLimit
  BY <1>1, LimitStep DEF FillPair, InsertOrder, AtOrder, matchupFrame, orderVars
<1> QED
  BY <1>5, <1>6, <1>7, <1>8 DEF Book!vars

\* The executed buy order had left the book with the sell order.
LEMMA EraseBuyHidden ==
  ASSUME IInv, [Next]_vars, EraseBuy
  PROVE  UNCHANGED Book!vars
<1>1. /\ pcMatch = "eraseBuy" /\ pcMatch' = "unlock"
      /\ rawBuyside' = rawBuyside \ {odb}
      /\ UNCHANGED <<rawSellside, fills, execPrice>>
  BY DEF EraseBuy, AtMatch
<1>2. UNCHANGED <<bookBuys, bookFills, bookPrice>>
  BY <1>1 DEF bookBuys, bookFills, bookPrice, Matching
<1>3. UNCHANGED bookLimit
  BY <1>1, LimitStep DEF EraseBuy, InsertOrder, AtOrder, matchupFrame, orderVars
<1> QED
  BY <1>1, <1>2, <1>3 DEF Book!vars

\* The other steps do not touch what the book is made of.
LEMMA OthersHidden ==
  ASSUME IInv, [Next]_vars, ~InsertOrder, ~FillPair, ~EraseSell, ~EraseBuy
  PROVE  UNCHANGED Book!vars
<1>1. UNCHANGED <<rawBuyside, rawSellside, fills, execPrice>>
  BY StepCases, OrderFrame, MatchFrame, ReportFrame, OtherFrame
<1>2. /\ Matching' = Matching
      /\ (pcMatch' = "eraseBuy") = (pcMatch = "eraseBuy")
      /\ Matching \/ pcMatch = "eraseBuy" => UNCHANGED <<odb, ods>>
  <2>1. CASE matchup
    BY <2>1
    DEF Matching, matchup, StartMatchup, EnterRound, PickPair, AcceptPair,
        RejectPair, RelockForFill, ReportSell, UnlockAfterFill, LeaveRound, AtMatch
  <2>2. CASE getOrder \/ generateExecReport \/ otherStep
    BY <2>2, OrderFrame, ReportFrame, OtherFrame DEF Matching
  <2> QED
    BY <2>1, <2>2, StepCases
<1>3. UNCHANGED bookBuys
  BY <1>1, <1>2 DEF bookBuys
<1>4. UNCHANGED bookFills
  BY <1>1, <1>2 DEF bookFills
<1>5. UNCHANGED bookPrice
  BY <1>1, <1>4 DEF bookPrice
<1> QED
  BY <1>1, <1>3, <1>4, <1>5, LimitStep DEF Book!vars

\* Every step of the trader is a step of the book or a stutter.
LEMMA BookStepSimulated ==
  ASSUME IInv, PairInv, [Next]_vars
  PROVE  [Book!Next]_(Book!vars)
BY AcceptStep, MatchStep, FillHidden, EraseBuyHidden, OthersHidden

-------------------------------------------------------------------------------
\* The trader implements the book that executes a pair at once and takes one
\* order off each side: no interleaving of orderDataInsert with the four
\* container operations of matchup splits a match, executes an order that is
\* not resting, or executes at a price other than the sell order's.
THEOREM TraderImplementsBook == Spec => MatchIsAtomic
<1>1. Init => PairInv
  BY DEF Init, PairInv, Matching
<1>2. IInv /\ PairInv /\ [Next]_vars => PairInv'
  BY PairStep
<1>3. IInv /\ PairInv /\ [Next]_vars => [Book!Next]_(Book!vars)
  BY BookStepSimulated
<1> QED
  BY <1>1, <1>2, <1>3, BookInitial, Invariant, PTL DEF Spec, MatchIsAtomic, Book!Spec

===============================================================================
