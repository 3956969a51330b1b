---------------------------- MODULE OrderDeskProofs ----------------------------
(***************************************************************************)
(* What becomes of a stored order, for any orders and requests, any number *)
(* of processes and any failing statements: a cancellation that was stored *)
(* is permanent, a cancellation takes the order it names and no other, and *)
(* an order alone with its identifier is found after any restart.          *)
(*                                                                         *)
(* The argument is about keys.  The table has one row for a key and keeps  *)
(* it for ever; once the row is not resting it never is again; and a list  *)
(* holds an order only while its row is there.  A cancelled order is off   *)
(* its list before its row is marked, and no list gets it back, because    *)
(* only resting rows are loaded (DeskInv).  The row of an order is resting *)
(* until its client is told of an execution or a cancellation, because no  *)
(* statement about another order names an identifier it does not share     *)
(* (LifeInv).                                                              *)
(***************************************************************************)
EXTENDS OrderDesk, FiniteSetTheorems, TLAPS

Sides == {"BUY", "SELL"}

\* What the table holds.
Rows == [nid : {o.nid : o \in Orders}, serial : Nat,
         price : {o.price : o \in Orders} \cup {m.price : m \in Requests},
         side : Sides, situation : {NORMAL, EXECUTE, CANCEL}]

\* What getOrder hands to the database.
Entries == [nid : {o.nid : o \in Orders}, price : {o.price : o \in Orders},
            side : Sides, serial : Nat, id : Nat]

KeyUnique(S) == \A r1, r2 \in S : IsKey(r1, r2) => r1 = r2

Types ==
  /\ dbOrder \subseteq Rows
  /\ loaded \in [Sides -> SUBSET Loads]
  /\ entry \in Entries \cup {Null}
  /\ nid_sub2 \in Nat /\ placed \in Seq({o.nid : o \in Orders})
  /\ dq_orderhandle \in Seq(Requests)
  /\ pcDesk # "poll" => request \in Requests

\* An order on a list has a row, of the side of the list.
LoadedRows ==
  \A s \in Sides : \A o \in loaded[s] : \E r \in dbOrder : IsKey(r, o) /\ r.side = s

\* A list holds no key twice.
LoadedUnique == \A s \in Sides : KeyUnique(loaded[s])

\* The order being cancelled has a row and is off the lists.
TargetInv ==
  pcDesk \in {"reply", "store"} /\ outcome = "cancelled" =>
    /\ target.nid = request.nid
    /\ \E r \in dbOrder : IsKey(r, target)
    /\ ~\E o \in Loaded : IsKey(o, target)

\* The row of a stored cancellation is there and not resting.
SettledInv ==
  \A k \in settled : \E r \in dbOrder : IsKey(r, k) /\ r.situation # NORMAL

DeskInv ==
  /\ Types /\ KeyUnique(dbOrder) /\ LoadedRows /\ LoadedUnique
  /\ TargetInv /\ SettledInv /\ CancelIsPermanent

-------------------------------------------------------------------------------
(* What a statement does to the table *)

\* Every row of S is still in T, resting only if it was.
Keeps(S, T) ==
  \A r \in S : \E t \in T : /\ IsKey(t, r) /\ t.side = r.side
                            /\ r.situation # NORMAL => t.situation # NORMAL

\* Rewriting rows one by one without touching keys and sides keeps them.
LEMMA RewriteRows ==
  ASSUME NEW S \in SUBSET Rows, KeyUnique(S), NEW g \in [S -> Rows],
         \A r \in S : /\ IsKey(g[r], r) /\ g[r].side = r.side
                      /\ r.situation # NORMAL => g[r].situation # NORMAL,
         NEW T, T = {g[r] : r \in S}
  PROVE  T \subseteq Rows /\ KeyUnique(T) /\ Keeps(S, T)
<1>1. T \subseteq Rows
  OBVIOUS
<1>2. Keeps(S, T)
  BY DEF Keeps
<1>3. KeyUnique(T)
  BY DEF KeyUnique, IsKey
<1> QED
  BY <1>1, <1>2, <1>3

\* UPDATE `Order` SET Order_situation.
LEMMA SituationUpdate ==
  ASSUME NEW S \in SUBSET Rows, KeyUnique(S), NEW n, NEW v \in {EXECUTE, CANCEL},
         NEW T, T = updateOrderSituation(S, n, v)
  PROVE  /\ T \subseteq Rows /\ KeyUnique(T) /\ Keeps(S, T)
         /\ \A r \in S : r.nid = n =>
              \E t \in T : IsKey(t, r) /\ t.situation # NORMAL
<1> DEFINE g == [r \in S |-> IF r.nid = n THEN [r EXCEPT !.situation = v] ELSE r]
<1>1. \A r \in S : /\ g[r] \in Rows /\ IsKey(g[r], r) /\ g[r].side = r.side
                   /\ r.situation # NORMAL => g[r].situation # NORMAL
                   /\ r.nid = n => g[r].situation # NORMAL
  BY DEF Rows, IsKey, NORMAL, EXECUTE, CANCEL
<1>2. g \in [S -> Rows]
  BY <1>1
<1>3. T = {g[r] : r \in S}
  BY DEF updateOrderSituation
<1> HIDE DEF g
<1>4. T \subseteq Rows /\ KeyUnique(T) /\ Keeps(S, T)
  BY <1>1, <1>2, <1>3, RewriteRows
<1>5. \A r \in S : r.nid = n => \E t \in T : IsKey(t, r) /\ t.situation # NORMAL
  BY <1>1, <1>3
<1> QED
  BY <1>4, <1>5

\* UPDATE `Order` SET OrderPrice.
LEMMA PriceUpdate ==
  ASSUME NEW S \in SUBSET Rows, KeyUnique(S), NEW n, NEW m \in Requests,
         NEW T, T = updateOrderPrice(S, n, m.price)
  PROVE  T \subseteq Rows /\ KeyUnique(T) /\ Keeps(S, T)
<1> DEFINE g == [r \in S |-> IF r.nid = n THEN [r EXCEPT !.price = m.price] ELSE r]
<1>1. \A r \in S : /\ g[r] \in Rows /\ IsKey(g[r], r) /\ g[r].side = r.side
                   /\ r.situation # NORMAL => g[r].situation # NORMAL
  BY DEF Rows, IsKey, NORMAL, EXECUTE, CANCEL
<1>2. g \in [S -> Rows]
  BY <1>1
<1>3. T = {g[r] : r \in S}
  BY DEF updateOrderPrice
<1> HIDE DEF g
<1> QED
  BY <1>1, <1>2, <1>3, RewriteRows

\* INSERT INTO `Order`.
LEMMA RowInsert ==
  ASSUME NEW S \in SUBSET Rows, KeyUnique(S), NEW e \in Entries,
         ~OrderKeyTaken(S, e.nid, e.serial),
         NEW T, T = insertOrder(S, e, e.serial)
  PROVE  T \subseteq Rows /\ KeyUnique(T) /\ Keeps(S, T)
<1>1. OrderRow(e, e.serial) \in Rows
  BY DEF OrderRow, Rows, Entries
<1>2. \A r \in S : ~IsKey(r, OrderRow(e, e.serial)) /\ ~IsKey(OrderRow(e, e.serial), r)
  BY DEF OrderKeyTaken, IsKey, OrderRow
<1> QED
  BY <1>1, <1>2 DEF insertOrder, KeyUnique, Keeps, IsKey

\* The view that is loaded.
LEMMA LoadView ==
  ASSUME NEW S \in SUBSET Rows, KeyUnique(S), NEW s \in Sides,
         NEW L, L = LoadedOrders(S, s)
  PROVE  /\ L \subseteq Loads /\ KeyUnique(L)
         /\ \A o \in L : \E r \in S : IsKey(r, o) /\ r.side = s /\ r.situation = NORMAL
<1>1. \A o \in L : \E r \in S : /\ IsKey(r, o) /\ r.side = s /\ r.situation = NORMAL
                                /\ o = [nid |-> r.nid, serial |-> r.serial, price |-> r.price]
  BY DEF LoadedOrders, ValidOrder, IsKey
<1>2. L \subseteq Loads
  BY DEF LoadedOrders, ValidOrder, Rows, Loads
<1>3. KeyUnique(L)
  BY <1>1 DEF KeyUnique, IsKey
<1> QED
  BY <1>1, <1>2, <1>3

-------------------------------------------------------------------------------
(* What the steps leave alone *)

\* Which actions change the table, the lists, the stored cancellations, the
\* entering order, the queue and the desk's own variables.
LEMMA Frame ==
  ASSUME [Next]_vars
  PROVE  /\ StoreOrder \/ MarkOrder \/ StoreOutcome \/ UNCHANGED dbOrder
         /\ Restart \/ CancelLoaded \/ ModifyLoaded \/ ModifyPastEnd \/ UNCHANGED loaded
         /\ StoreOutcome \/ UNCHANGED settled
         /\ (\E o \in Orders : EnterOrder(o)) \/ StoreOrder \/ Restart
              \/ UNCHANGED <<entry, nid_sub2>>
         /\ (\E o \in Orders : EnterOrder(o)) \/ UNCHANGED placed
         /\ (\E m \in Requests : PushRequest(m)) \/ TakeRequest \/ Restart
              \/ UNCHANGED dq_orderhandle
         /\ getCancelOrder \/ Restart \/ UNCHANGED <<pcDesk, request, target, outcome>>
<1> USE DEF Next, vars, getCancelOrder, EnterOrder, StoreOrder, ExecuteOrder, AnnounceOrder,
        MarkOrder, PushRequest, FallThrough, TakeRequest, CancelLoaded, CancelNothing,
        ModifyLoaded, ModifyNothing, ModifyPastEnd, ReplyRequest, StoreOutcome, Restart,
        searchFrame, tradeVars, deskVars, historyVars
<1>1. StoreOrder \/ MarkOrder \/ StoreOutcome \/ UNCHANGED dbOrder
  BY SMTT(30)
<1>2. Restart \/ CancelLoaded \/ ModifyLoaded \/ ModifyPastEnd \/ UNCHANGED loaded
  BY SMTT(30)
<1>3. StoreOutcome \/ UNCHANGED settled
  BY SMTT(30)
<1>4. (\E o \in Orders : EnterOrder(o)) \/ StoreOrder \/ Restart \/ UNCHANGED <<entry, nid_sub2>>
  BY SMTT(30)
<1>5. (\E o \in Orders : EnterOrder(o)) \/ UNCHANGED placed
  BY SMTT(30)
<1>6. (\E m \in Requests : PushRequest(m)) \/ TakeRequest \/ Restart \/ UNCHANGED dq_orderhandle
  BY SMTT(30)
<1>7. getCancelOrder \/ Restart \/ UNCHANGED <<pcDesk, request, target, outcome>>
  BY SMTT(30)
<1> HIDE DEF Next, vars, getCancelOrder, EnterOrder, StoreOrder, ExecuteOrder, AnnounceOrder,
        MarkOrder, PushRequest, FallThrough, TakeRequest, CancelLoaded, CancelNothing,
        ModifyLoaded, ModifyNothing, ModifyPastEnd, ReplyRequest, StoreOutcome, Restart,
        searchFrame, tradeVars, deskVars, historyVars
<1> QED
  BY <1>1, <1>2, <1>3, <1>4, <1>5, <1>6, <1>7

\* The table only ever gets rows with new keys and rows that leave the view.
LEMMA TableStep ==
  ASSUME DeskInv, [Next]_vars
  PROVE  /\ dbOrder' \subseteq Rows /\ KeyUnique(dbOrder') /\ Keeps(dbOrder, dbOrder')
<1> USE DEF DeskInv, Types
<1>1. Keeps(dbOrder, dbOrder)
  BY DEF Keeps, IsKey
<1>2. CASE StoreOrder
  <2>1. CASE UNCHANGED dbOrder
    BY <1>1, <2>1
  <2>2. CASE dbOrder' # dbOrder
    <3>1. /\ entry \in Entries /\ ~OrderKeyTaken(dbOrder, entry.nid, entry.serial)
          /\ dbOrder' = insertOrder(dbOrder, entry, entry.serial)
      BY <1>2, <2>2 DEF StoreOrder
    <3> QED
      BY <3>1, RowInsert
  <2> QED
    BY <2>1, <2>2
<1>3. CASE MarkOrder
  <2>1. UNCHANGED dbOrder \/ dbOrder' = updateOrderSituation(dbOrder, report.nid, EXECUTE)
    BY <1>3 DEF MarkOrder
  <2> QED
    BY <1>1, <2>1, SituationUpdate
<1>4. CASE StoreOutcome
  <2>1. \/ UNCHANGED dbOrder
        \/ dbOrder' = updateOrderSituation(dbOrder, request.nid, CANCEL)
        \/ dbOrder' = updateOrderPrice(dbOrder, request.nid, request.price)
    BY <1>4 DEF StoreOutcome
  <2>2. request \in Requests
    BY <1>4 DEF StoreOutcome, AtDesk
  <2> QED
    BY <1>1, <2>1, <2>2, SituationUpdate, PriceUpdate
<1>5. CASE UNCHANGED dbOrder
  BY <1>1, <1>5
<1> QED
  BY <1>2, <1>3, <1>4, <1>5, Frame

\* Repricing an order keeps the keys on its list.
LEMMA RepriceKeys ==
  ASSUME DeskInv, request \in Requests, NEW o \in loaded["BUY"], loaded' = Reprice(o)
  PROVE  /\ loaded' \in [Sides -> SUBSET Loads]
         /\ \A s \in Sides : KeyUnique(loaded'[s])
         /\ \A s \in Sides : \A x \in loaded'[s] : \E y \in loaded[s] : IsKey(x, y)
<1> DEFINE n == [o EXCEPT !.price = request.price]
<1>1. o \in Loads /\ loaded \in [Sides -> SUBSET Loads]
  BY DEF DeskInv, Types, Sides
<1>2. n \in Loads /\ IsKey(n, o) /\ n.nid = o.nid /\ n.serial = o.serial
  BY <1>1 DEF Loads, IsKey
<1> HIDE DEF n
<1>3. /\ loaded'["BUY"] = (loaded["BUY"] \ {o}) \cup {n}
      /\ loaded'["SELL"] = loaded["SELL"]
      /\ loaded' \in [Sides -> SUBSET Loads]
  BY <1>1, <1>2 DEF Reprice, Sides, n
<1>4. KeyUnique(loaded["BUY"]) /\ KeyUnique(loaded["SELL"])
  BY DEF DeskInv, LoadedUnique, Sides
<1>5. KeyUnique(loaded'["BUY"])
  BY <1>2, <1>3, <1>4 DEF KeyUnique, IsKey
<1>6. \A s \in Sides : \A x \in loaded'[s] : \E y \in loaded[s] : IsKey(x, y)
  BY <1>2, <1>3 DEF IsKey, Sides
<1> QED
  BY <1>3, <1>4, <1>5, <1>6 DEF Sides

\* While a process runs, its lists get no key they did not have.
LEMMA ListStep ==
  ASSUME DeskInv, [Next]_vars, ~Restart
  PROVE  /\ loaded' \in [Sides -> SUBSET Loads]
         /\ \A s \in Sides : KeyUnique(loaded'[s])
         /\ \A s \in Sides : \A x \in loaded'[s] : \E y \in loaded[s] : IsKey(x, y)
<1>1. CASE CancelLoaded
  <2>1. PICK o \in Named(request.side) : loaded' = EraseNamed(o, request.side)
    BY <1>1 DEF CancelLoaded
  <2>2. \A s \in Sides : loaded'[s] \subseteq loaded[s]
    BY <2>1 DEF EraseNamed, DeskInv, Types
  <2>3. loaded' \in [Sides -> SUBSET Loads]
    BY <2>1 DEF EraseNamed, DeskInv, Types
  <2> QED
    BY <2>2, <2>3 DEF DeskInv, LoadedUnique, KeyUnique, IsKey
<1>2. CASE ModifyLoaded
  <2>1. PICK o \in loaded["BUY"] : loaded' = Reprice(o)
    BY <1>2 DEF ModifyLoaded, Named
  <2>2. request \in Requests
    BY <1>2 DEF ModifyLoaded, AtDesk, DeskInv, Types
  <2> QED
    BY <2>1, <2>2, RepriceKeys
<1>3. CASE UNCHANGED loaded
  BY <1>3 DEF DeskInv, Types, LoadedUnique, IsKey
<1>4. CASE ModifyPastEnd
  <2>1. UNCHANGED loaded \/ \E o \in loaded["BUY"] : loaded' = Reprice(o)
    BY <1>4 DEF ModifyPastEnd
  <2>2. request \in Requests
    BY <1>4 DEF ModifyPastEnd, AtDesk, DeskInv, Types
  <2> QED
    BY <1>3, <2>1, <2>2, RepriceKeys
<1> QED
  BY <1>1, <1>2, <1>3, <1>4, Frame

-------------------------------------------------------------------------------
(* The invariant *)

\* Every variable the argument uses keeps its type.
LEMMA TypesStep ==
  ASSUME DeskInv, [Next]_vars
  PROVE  Types'
<1> USE DEF DeskInv, Types
<1>1. dbOrder' \subseteq Rows
  BY TableStep
<1>2. loaded' \in [Sides -> SUBSET Loads]
  <2>1. CASE Restart
    <3>1. \A s \in Sides : LoadedOrders(dbOrder, s) \subseteq Loads
      BY LoadView
    <3> QED
      BY <2>1, <3>1 DEF Restart, Sides
  <2> QED
    BY <2>1, ListStep
<1>3. /\ placed' \in Seq({o.nid : o \in Orders})
      /\ nid_sub2' \in Nat /\ entry' \in Entries \cup {Null}
  <2>1. CASE \E o \in Orders : EnterOrder(o)
    <3>1. PICK o \in Orders : EnterOrder(o)
      BY <2>1
    <3>2. Len(placed) + 1 \in Nat
      OBVIOUS
    <3>3. entry' \in Entries
      BY <3>1, <3>2, OrdersAssumption DEF EnterOrder, Entries, Sides
    <3> QED
      BY <3>1, <3>3 DEF EnterOrder
  <2>2. CASE StoreOrder
    BY <2>2 DEF StoreOrder
  <2>3. CASE Restart
    BY <2>3 DEF Restart, historyVars
  <2>4. CASE UNCHANGED <<entry, nid_sub2, placed>>
    BY <2>4
  <2> QED
    BY <2>1, <2>2, <2>3, <2>4, Frame
<1>4. dq_orderhandle' \in Seq(Requests)
  <2>1. CASE \E m \in Requests : PushRequest(m)
    <3>1. PICK m \in Requests : PushRequest(m)
      BY <2>1
    <3> QED
      BY <3>1 DEF PushRequest
  <2>2. CASE TakeRequest
    <3>1. dq_orderhandle \in Seq(Requests) /\ dq_orderhandle # <<>>
      BY <2>2 DEF TakeRequest
    <3>2. Tail(dq_orderhandle) \in Seq(Requests)
      BY <3>1
    <3> QED
      BY <2>2, <3>2 DEF TakeRequest
  <2>3. CASE Restart
    BY <2>3 DEF Restart
  <2> QED
    BY <2>1, <2>2, <2>3, Frame
<1>5. pcDesk' # "poll" => request' \in Requests
  BY Frame
  DEF getCancelOrder, TakeRequest, CancelLoaded, CancelNothing, ModifyLoaded,
      ModifyNothing, ModifyPastEnd, ReplyRequest, StoreOutcome, Restart, AtDesk,
      searchFrame
<1> QED
  BY <1>1, <1>2, <1>3, <1>4, <1>5

\* The lists stay lists of orders with rows, and hold no key twice.
LEMMA LoadedStep ==
  ASSUME DeskInv, [Next]_vars
  PROVE  LoadedRows' /\ LoadedUnique'
<1>1. CASE Restart
  <2>1. \A s \in Sides : loaded'[s] = LoadedOrders(dbOrder, s)
    BY <1>1 DEF Restart, Sides
  <2>2. dbOrder' = dbOrder
    BY <1>1 DEF Restart
  <2> QED
    BY <2>1, <2>2, LoadView DEF LoadedRows, LoadedUnique, DeskInv, Types
<1>2. CASE ~Restart
  <2>1. \A s \in Sides : \A x \in loaded'[s] : \E r \in dbOrder : IsKey(r, x) /\ r.side = s
    BY <1>2, ListStep DEF DeskInv, LoadedRows, IsKey
  <2>2. Keeps(dbOrder, dbOrder')
    BY TableStep
  <2>3. LoadedRows'
    BY <2>1, <2>2 DEF LoadedRows, Keeps, IsKey
  <2> QED
    BY <1>2, <2>3, ListStep DEF LoadedUnique
<1> QED
  BY <1>1, <1>2

\* A key is on one list only, since its row has one side: erased there, it is
\* on none, until the statement on its row.
LEMMA TargetStep ==
  ASSUME DeskInv, [Next]_vars
  PROVE  TargetInv'
<1>1. CASE CancelLoaded
  <2>1. PICK o \in Named(request.side) :
          loaded' = EraseNamed(o, request.side) /\ target' = o
    BY <1>1 DEF CancelLoaded
  <2>2. /\ request.side \in Sides /\ UNCHANGED <<request, dbOrder>>
        /\ o \in loaded[request.side] /\ o.nid = request.nid
    <3>1. request \in Requests /\ request.side # "other"
      BY <1>1 DEF CancelLoaded, AtDesk, DeskInv, Types
    <3> QED
      BY <1>1, <2>1, <3>1, RequestsAssumption DEF CancelLoaded, searchFrame, Named, Sides
  <2>3. PICK r \in dbOrder : IsKey(r, o) /\ r.side = request.side
    BY <2>2 DEF DeskInv, LoadedRows
  <2>4. ASSUME NEW s \in Sides, NEW x \in loaded'[s], IsKey(x, o)
        PROVE  FALSE
    <3>1. x \in loaded[s] /\ (s = request.side => x # o)
      BY <2>1, <2>2 DEF EraseNamed, DeskInv, Types
    <3>2. PICK q \in dbOrder : IsKey(q, x) /\ q.side = s
      BY <3>1 DEF DeskInv, LoadedRows
    <3>3. q = r
      BY <2>3, <2>4, <3>2 DEF DeskInv, KeyUnique, IsKey
    <3> QED
      BY <2>2, <2>3, <2>4, <3>1, <3>2, <3>3 DEF DeskInv, LoadedUnique, KeyUnique
  <2> QED
    BY <2>1, <2>2, <2>3, <2>4 DEF TargetInv, Loaded, Sides
<1>2. CASE UNCHANGED <<pcDesk, request, target, outcome, loaded>>
  <2>1. Keeps(dbOrder, dbOrder')
    BY TableStep
  <2> QED
    BY <1>2, <2>1 DEF DeskInv, TargetInv, Keeps, IsKey, Loaded
<1>3. CASE ReplyRequest
  BY <1>3
  DEF ReplyRequest, DeskInv, TargetInv, AtDesk, Loaded
<1>4. CASE TakeRequest \/ CancelNothing \/ ModifyLoaded \/ ModifyNothing
             \/ StoreOutcome \/ Restart
  BY <1>4
  DEF TakeRequest, CancelNothing, ModifyLoaded, ModifyNothing, StoreOutcome,
      Restart, TargetInv
<1>5. CASE ModifyPastEnd
  BY <1>5 DEF ModifyPastEnd, TargetInv, AtDesk
<1> QED
  BY <1>1, <1>2, <1>3, <1>4, <1>5, Frame DEF getCancelOrder

\* A stored cancellation has a row that is not resting.
LEMMA SettledStep ==
  ASSUME DeskInv, [Next]_vars
  PROVE  SettledInv'
<1>1. Keeps(dbOrder, dbOrder')
  BY TableStep
<1>2. \A k \in settled : \E r \in dbOrder' : IsKey(r, k) /\ r.situation # NORMAL
  BY <1>1 DEF DeskInv, SettledInv, Keeps, IsKey
<1>3. CASE UNCHANGED settled
  BY <1>2, <1>3 DEF SettledInv
<1>4. CASE StoreOutcome /\ settled' # settled
  <2>1. /\ pcDesk = "store" /\ outcome = "cancelled"
        /\ dbOrder' = updateOrderSituation(dbOrder, request.nid, CANCEL)
        /\ settled' = settled \cup {[nid |-> target.nid, serial |-> target.serial]}
    BY <1>4 DEF StoreOutcome, AtDesk
  <2>2. PICK r \in dbOrder : IsKey(r, target) /\ r.nid = request.nid
    BY <2>1 DEF DeskInv, TargetInv, IsKey
  <2>3. \E t \in dbOrder' : IsKey(t, r) /\ t.situation # NORMAL
    BY <2>1, <2>2, SituationUpdate DEF DeskInv, Types
  <2> QED
    BY <1>2, <2>1, <2>2, <2>3 DEF SettledInv, IsKey
<1> QED
  BY <1>3, <1>4, Frame

\* A restart loads resting rows, and no other step brings a key back.
LEMMA PermanentStep ==
  ASSUME DeskInv, [Next]_vars
  PROVE  CancelIsPermanent'
<1>1. CASE Restart
  <2>1. /\ \A s \in Sides : loaded'[s] = LoadedOrders(dbOrder, s)
        /\ settled' = settled
    BY <1>1 DEF Restart, Sides, historyVars
  <2>2. ASSUME NEW k \in settled, NEW s \in Sides, NEW o \in LoadedOrders(dbOrder, s),
               IsKey(o, k)
        PROVE  FALSE
    <3>1. PICK r \in dbOrder : IsKey(r, o) /\ r.situation = NORMAL
      BY LoadView DEF DeskInv, Types
    <3>2. PICK q \in dbOrder : IsKey(q, k) /\ q.situation # NORMAL
      BY DEF DeskInv, SettledInv
    <3> QED
      BY <2>2, <3>1, <3>2 DEF DeskInv, KeyUnique, IsKey
  <2> QED
    BY <2>1, <2>2 DEF CancelIsPermanent, Loaded, Sides
<1>2. CASE ~Restart /\ UNCHANGED settled
  BY <1>2, ListStep DEF DeskInv, CancelIsPermanent, Loaded, Sides, IsKey
<1>3. CASE StoreOutcome /\ settled' # settled
  <2>1. /\ pcDesk = "store" /\ outcome = "cancelled" /\ loaded' = loaded
        /\ settled' = settled \cup {[nid |-> target.nid, serial |-> target.serial]}
    BY <1>3 DEF StoreOutcome, AtDesk
  <2>2. ~\E o \in Loaded : IsKey(o, target)
    BY <2>1 DEF DeskInv, TargetInv
  <2> QED
    BY <2>1, <2>2 DEF DeskInv, CancelIsPermanent, Loaded, IsKey
<1> QED
  BY <1>1, <1>2, <1>3, Frame

\* The first process starts with an empty table and empty lists.
LEMMA DeskInitial == Init => DeskInv
  BY DEF Init, DeskInv, Types, KeyUnique, LoadedRows, LoadedUnique, TargetInv,
         SettledInv, CancelIsPermanent, Sides

\* Every step preserves the invariant.
LEMMA DeskInductive == DeskInv /\ [Next]_vars => DeskInv'
<1> SUFFICES ASSUME DeskInv, [Next]_vars
             PROVE  DeskInv'
  OBVIOUS
<1>1. KeyUnique(dbOrder')
  BY TableStep
<1> QED
  BY <1>1, TypesStep, LoadedStep, TargetStep, SettledStep, PermanentStep
  DEF DeskInv, KeyUnique, IsKey

\* A cancellation that was stored holds in every later process: loadExistOrder
\* loads no order whose row was cancelled, and no insert revives its key.
THEOREM CancelPermanent == Spec => []CancelIsPermanent
<1>1. Spec => []DeskInv
  BY DeskInitial, DeskInductive, PTL DEF Spec
<1>2. DeskInv => CancelIsPermanent
  BY DEF DeskInv
<1> QED
  BY <1>1, <1>2, PTL


-------------------------------------------------------------------------------
(* Sizes of the lists *)

\* The table and the lists are finite.
FiniteInv == IsFiniteSet(dbOrder) /\ \A s \in Sides : IsFiniteSet(loaded[s])

\* The image of a finite set is finite.
LEMMA FiniteImage ==
  ASSUME NEW S, IsFiniteSet(S), NEW g, DOMAIN g = S, NEW T, T = {g[x] : x \in S}
  PROVE  IsFiniteSet(T)
<1> DEFINE f == [x \in S |-> g[x]]
<1>1. f \in Surjection(S, T)
  BY DEF Surjection
<1> QED
  BY <1>1, FS_Surjection

\* What a process loads from a finite table is finite.
LEMMA FiniteView ==
  ASSUME NEW S, IsFiniteSet(S), NEW s
  PROVE  IsFiniteSet(LoadedOrders(S, s))
<1> DEFINE V == {x \in ValidOrder(S) : x.side = s}
           g == [r \in V |-> [nid |-> r.nid, serial |-> r.serial, price |-> r.price]]
<1>1. V \in SUBSET S
  BY DEF ValidOrder
<1>2. IsFiniteSet(V)
  BY <1>1, FS_Subset
<1>3. LoadedOrders(S, s) = {g[x] : x \in V}
  BY DEF LoadedOrders
<1>4. DOMAIN g = V
  OBVIOUS
<1> HIDE DEF V, g
<1> QED
  BY <1>2, <1>3, <1>4, FiniteImage

\* A statement rewrites finitely many rows or adds one.
LEMMA FiniteTable ==
  ASSUME IsFiniteSet(dbOrder), [Next]_vars
  PROVE  IsFiniteSet(dbOrder')
<1>1. ASSUME NEW n, NEW v, dbOrder' = updateOrderSituation(dbOrder, n, v)
      PROVE  IsFiniteSet(dbOrder')
  <2> DEFINE g == [r \in dbOrder |-> IF r.nid = n THEN [r EXCEPT !.situation = v] ELSE r]
  <2>1. dbOrder' = {g[r] : r \in dbOrder}
    BY <1>1 DEF updateOrderSituation
  <2>2. DOMAIN g = dbOrder
    OBVIOUS
  <2> HIDE DEF g
  <2> QED
    BY <2>1, <2>2, FiniteImage
<1>2. ASSUME NEW n, NEW p, dbOrder' = updateOrderPrice(dbOrder, n, p)
      PROVE  IsFiniteSet(dbOrder')
  <2> DEFINE g == [r \in dbOrder |-> IF r.nid = n THEN [r EXCEPT !.price = p] ELSE r]
  <2>1. dbOrder' = {g[r] : r \in dbOrder}
    BY <1>2 DEF updateOrderPrice
  <2>2. DOMAIN g = dbOrder
    OBVIOUS
  <2> HIDE DEF g
  <2> QED
    BY <2>1, <2>2, FiniteImage
<1>3. CASE StoreOrder
  <2>1. \/ UNCHANGED dbOrder
        \/ dbOrder' = dbOrder \cup {OrderRow(entry, entry.serial)}
    BY <1>3 DEF StoreOrder, insertOrder
  <2> QED
    BY <2>1, FS_AddElement
<1>4. CASE MarkOrder
  BY <1>1, <1>4 DEF MarkOrder
<1>5. CASE StoreOutcome
  BY <1>1, <1>2, <1>5 DEF StoreOutcome
<1> QED
  BY <1>3, <1>4, <1>5, Frame

\* Repricing an order keeps the size of the list: the new order is no other one's
\* equal, since keys are unique.
LEMMA RepriceSize ==
  ASSUME DeskInv, FiniteInv, request \in Requests, NEW o \in loaded["BUY"],
         loaded' = Reprice(o)
  PROVE  \A s \in Sides : /\ IsFiniteSet(loaded'[s])
                          /\ Cardinality(loaded'[s]) = Cardinality(loaded[s])
<1> DEFINE n == [o EXCEPT !.price = request.price]
           rest == loaded["BUY"] \ {o}
<1>1. o \in Loads /\ loaded \in [Sides -> SUBSET Loads]
  BY DEF DeskInv, Types, Sides
<1>2. IsKey(n, o)
  BY <1>1 DEF Loads, IsKey
<1>3. loaded'["BUY"] = rest \cup {n} /\ loaded'["SELL"] = loaded["SELL"]
  BY <1>1 DEF Reprice, Sides
<1>4. KeyUnique(loaded["BUY"])
  BY DEF DeskInv, LoadedUnique, Sides
<1> HIDE DEF n
<1>5. n \notin rest
  BY <1>2, <1>4 DEF KeyUnique
<1>6. IsFiniteSet(loaded["BUY"]) /\ IsFiniteSet(loaded["SELL"])
  BY DEF FiniteInv, Sides
<1>7. Cardinality(loaded["BUY"]) \in Nat
  BY <1>6, FS_CardinalityType
<1>8. IsFiniteSet(rest) /\ Cardinality(rest) = Cardinality(loaded["BUY"]) - 1
  BY <1>6, FS_RemoveElement
<1> HIDE DEF rest
<1>9. /\ IsFiniteSet(rest \cup {n})
      /\ Cardinality(rest \cup {n}) = Cardinality(rest) + 1
  BY <1>5, <1>8, FS_AddElement
<1>10. Cardinality(rest \cup {n}) = Cardinality(loaded["BUY"])
  BY <1>7, <1>8, <1>9
<1> QED
  BY <1>3, <1>6, <1>9, <1>10 DEF Sides

\* What a step of a running process does to the lists: an erasure asked for, or
\* nothing to their sizes.
LEMMA SizeStep ==
  ASSUME DeskInv, FiniteInv, [Next]_vars, ~Restart
  PROVE  \/ \E o \in Named(request.side) :
              /\ request.code = "cancel" /\ request.side \in Sides
              /\ loaded' = EraseNamed(o, request.side)
         \/ \A s \in Sides : /\ IsFiniteSet(loaded'[s])
                             /\ Cardinality(loaded'[s]) = Cardinality(loaded[s])
<1>1. CASE CancelLoaded
  <2>1. request \in Requests /\ request.side # "other" /\ request.code = "cancel"
    BY <1>1 DEF CancelLoaded, AtDesk, DeskInv, Types
  <2>2. request.side \in Sides
    BY <2>1, RequestsAssumption DEF Sides
  <2> QED
    BY <1>1, <2>1, <2>2 DEF CancelLoaded
<1>2. CASE ModifyLoaded
  <2>1. PICK o \in loaded["BUY"] : loaded' = Reprice(o)
    BY <1>2 DEF ModifyLoaded, Named
  <2>2. request \in Requests
    BY <1>2 DEF ModifyLoaded, AtDesk, DeskInv, Types
  <2> QED
    BY <2>1, <2>2, RepriceSize
<1>3. CASE UNCHANGED loaded
  BY <1>3 DEF FiniteInv
<1>4. CASE ModifyPastEnd
  <2>1. UNCHANGED loaded \/ \E o \in loaded["BUY"] : loaded' = Reprice(o)
    BY <1>4 DEF ModifyPastEnd
  <2>2. request \in Requests
    BY <1>4 DEF ModifyPastEnd, AtDesk, DeskInv, Types
  <2> QED
    BY <1>3, <2>1, <2>2, RepriceSize
<1> QED
  BY <1>1, <1>2, <1>3, <1>4, Frame

\* Every step keeps the table and the lists finite.
LEMMA FiniteStep ==
  ASSUME DeskInv, FiniteInv, [Next]_vars
  PROVE  FiniteInv'
<1>1. IsFiniteSet(dbOrder')
  BY FiniteTable DEF FiniteInv
<1>2. \A s \in Sides : IsFiniteSet(loaded'[s])
  <2>1. CASE Restart
    <3>1. \A s \in Sides : loaded'[s] = LoadedOrders(dbOrder, s)
      BY <2>1 DEF Restart, Sides
    <3> QED
      BY <3>1, FiniteView DEF FiniteInv
  <2>2. CASE ~Restart
    <3>1. ASSUME NEW o \in Named(request.side), request.side \in Sides,
                 loaded' = EraseNamed(o, request.side), NEW s \in Sides
          PROVE  IsFiniteSet(loaded'[s])
      <4>1. loaded'[s] \in SUBSET loaded[s] /\ IsFiniteSet(loaded[s])
        BY <3>1 DEF EraseNamed, DeskInv, Types, FiniteInv
      <4> QED
        BY <4>1, FS_Subset
    <3> QED
      BY <2>2, <3>1, SizeStep
  <2> QED
    BY <2>1, <2>2
<1> QED
  BY <1>1, <1>2 DEF FiniteInv

\* The table and the lists are empty at first.
LEMMA FiniteInitial == Init => FiniteInv
  BY FS_EmptySet DEF Init, FiniteInv, Sides

\* An order leaves a list only for the cancel request that names it, whatever
\* modifications write where: the two branches of getCancelOrder.
THEOREM CancelTakesNamed == Spec => CancelTakesOneNamed
<1> DEFINE A == Up /\ process' = "up" =>
       \A s \in {"BUY", "SELL"} :
         Cardinality(loaded'[s]) < Cardinality(loaded[s]) =>
           \E o \in loaded[s] : /\ request.code = "cancel"
                                /\ request.side = s /\ request.nid = o.nid
                                /\ loaded'[s] = loaded[s] \ {o}
<1>1. DeskInv /\ FiniteInv /\ [Next]_vars => A
  <2> SUFFICES ASSUME DeskInv, FiniteInv, [Next]_vars, Up, NEW s \in Sides,
                      Cardinality(loaded'[s]) < Cardinality(loaded[s])
               PROVE  \E o \in loaded[s] : /\ request.code = "cancel"
                                           /\ request.side = s /\ request.nid = o.nid
                                           /\ loaded'[s] = loaded[s] \ {o}
    BY DEF Sides
  <2>1. ~Restart
    BY DEF Restart, Up
  <2>2. Cardinality(loaded[s]) \in Nat
    BY FS_CardinalityType DEF FiniteInv
  <2>3. PICK o \in Named(request.side) : /\ request.code = "cancel" /\ request.side \in Sides
                                         /\ loaded' = EraseNamed(o, request.side)
    BY <2>1, <2>2, SizeStep
  <2>4. loaded \in [Sides -> SUBSET Loads]
    BY DEF DeskInv, Types
  <2>5. request.side = s
    <3>1. request.side # s => loaded'[s] = loaded[s]
      BY <2>3, <2>4 DEF EraseNamed
    <3> QED
      BY <2>2, <3>1
  <2>6. o \in loaded[s] /\ o.nid = request.nid
    BY <2>3, <2>5 DEF Named
  <2>7. loaded'[s] = loaded[s] \ {o}
    BY <2>3, <2>4, <2>5 DEF EraseNamed
  <2> QED
    BY <2>3, <2>5, <2>6, <2>7
<1>2. Spec => [](DeskInv /\ FiniteInv)
  BY DeskInitial, DeskInductive, FiniteInitial, FiniteStep, PTL DEF Spec
<1> QED
  BY <1>1, <1>2, PTL DEF Spec, CancelTakesOneNamed

-------------------------------------------------------------------------------
(* What becomes of a stored order *)

\* Orders keep the identifier they were given, wherever they are; an order between
\* its notice and its mark was announced.
PlacedInv ==
  /\ \A o \in book \cup reportList \cup ({entry, report} \ {Null}) :
       o.id \in DOMAIN placed /\ o.nid = placed[o.id]
  /\ \A x \in stored : x.id \in DOMAIN placed /\ x.nid = placed[x.id]
  /\ report # Null => report.id \in announced

\* An order is in its book before it is stored.
EntryInv ==
  Up /\ entry # Null =>
    entry.id \in announced \/ \E o \in book \cup reportList : o.id = entry.id

\* A row is that of a stored order.
TableInv == \A r \in dbOrder : \E x \in stored : IsKey(r, x)

\* Between the answer and the statement everybody of the key was told.
ToldInv ==
  pcDesk = "store" /\ outcome = "cancelled" =>
    \A x \in stored : IsKey(x, target) => x.id \in cancelled

\* The row of an order whose client was told nothing else is resting.
RestingInv ==
  \A x \in stored :
    Unshared(x.id) /\ x.id \notin announced \cup cancelled =>
      \E r \in dbOrder : IsKey(r, x) /\ r.situation = NORMAL

LifeInv == /\ PlacedInv /\ EntryInv /\ TableInv /\ ToldInv /\ RestingInv
           /\ UnsharedOrderSurvives

\* Which actions change where orders are and what clients were told.
LEMMA LifeFrame ==
  ASSUME [Next]_vars
  PROVE  /\ \/ \E o \in Orders : EnterOrder(o)
            \/ \E o \in book : ExecuteOrder(o)
            \/ \E o \in reportList : AnnounceOrder(o)
            \/ Restart \/ UNCHANGED <<book, reportList>>
         /\ (\E o \in reportList : AnnounceOrder(o)) \/ MarkOrder \/ Restart
              \/ UNCHANGED report
         /\ (\E o \in reportList : AnnounceOrder(o)) \/ UNCHANGED announced
         /\ ReplyRequest \/ UNCHANGED cancelled
         /\ StoreOrder \/ UNCHANGED stored
         /\ announced \subseteq announced' /\ cancelled \subseteq cancelled'
         /\ stored \subseteq stored'
<1> USE DEF Next, vars, getCancelOrder, EnterOrder, StoreOrder, ExecuteOrder, AnnounceOrder,
        MarkOrder, PushRequest, FallThrough, TakeRequest, CancelLoaded, CancelNothing,
        ModifyLoaded, ModifyNothing, ModifyPastEnd, ReplyRequest, StoreOutcome, Restart,
        searchFrame, tradeVars, deskVars, historyVars
<1>1. \/ \E o \in Orders : EnterOrder(o)
      \/ \E o \in book : ExecuteOrder(o)
      \/ \E o \in reportList : AnnounceOrder(o)
      \/ Restart \/ UNCHANGED <<book, reportList>>
  BY SMTT(30)
<1>2. (\E o \in reportList : AnnounceOrder(o)) \/ MarkOrder \/ Restart \/ UNCHANGED report
  BY SMTT(30)
<1>3. (\E o \in reportList : AnnounceOrder(o)) \/ UNCHANGED announced
  BY SMTT(30)
<1>4. ReplyRequest \/ UNCHANGED cancelled
  BY SMTT(30)
<1>5. StoreOrder \/ UNCHANGED stored
  BY SMTT(30)
<1>6. announced \subseteq announced' /\ cancelled \subseteq cancelled' /\ stored \subseteq stored'
  BY SMTT(30)
<1> HIDE DEF Next, vars, getCancelOrder, EnterOrder, StoreOrder, ExecuteOrder, AnnounceOrder,
        MarkOrder, PushRequest, FallThrough, TakeRequest, CancelLoaded, CancelNothing,
        ModifyLoaded, ModifyNothing, ModifyPastEnd, ReplyRequest, StoreOutcome, Restart,
        searchFrame, tradeVars, deskVars, historyVars
<1> QED
  BY <1>1, <1>2, <1>3, <1>4, <1>5, <1>6

\* Places already given keep their identifiers; who shares one goes on sharing it.
LEMMA PlacedStep ==
  ASSUME DeskInv, [Next]_vars
  PROVE  /\ \A i \in DOMAIN placed : i \in DOMAIN placed' /\ placed'[i] = placed[i]
         /\ \A i \in DOMAIN placed : Unshared(i)' => Unshared(i)
<1>1. \A i \in DOMAIN placed : i \in DOMAIN placed' /\ placed'[i] = placed[i]
  <2>1. CASE \E o \in Orders : EnterOrder(o)
    <3>1. PICK o \in Orders : placed' = Append(placed, o.nid)
      BY <2>1 DEF EnterOrder
    <3>2. placed \in Seq({x.nid : x \in Orders})
      BY DEF DeskInv, Types
    <3> QED
      BY <3>1, <3>2
  <2> QED
    BY <2>1, Frame
<1> QED
  BY <1>1 DEF Unshared

\* Only a restart makes a process that ended run again.
LEMMA Restarts ==
  ASSUME [Next]_vars, Up', ~Restart
  PROVE  Up
  BY SMTT(30)
  DEF Next, vars, getCancelOrder, EnterOrder, StoreOrder, ExecuteOrder, AnnounceOrder,
      MarkOrder, PushRequest, FallThrough, TakeRequest, CancelLoaded, CancelNothing,
      ModifyLoaded, ModifyNothing, ModifyPastEnd, ReplyRequest, StoreOutcome, AtDesk, Up

\* A row has the fields of a row.
LEMMA DbRows ==
  ASSUME DeskInv, NEW r \in dbOrder
  PROVE  /\ \A v : IsKey([r EXCEPT !.situation = v], r)
         /\ \A v : IsKey([r EXCEPT !.price = v], r)
<1>1. r \in Rows
  BY DEF DeskInv, Types
<1> QED
  BY <1>1 DEF Rows, IsKey

\* No step gives an order another identifier, or announces one that was not placed.
LEMMA IdentStep ==
  ASSUME DeskInv, LifeInv, [Next]_vars
  PROVE  PlacedInv'
<1> DEFINE Fits(o) == o.id \in DOMAIN placed /\ o.nid = placed[o.id]
<1>1. \A o : Fits(o) => Fits(o)'
  BY PlacedStep
<1>2. /\ \A o \in book \cup reportList : Fits(o)
      /\ entry # Null => Fits(entry)
      /\ report # Null => Fits(report) /\ report.id \in announced
      /\ \A x \in stored : Fits(x)
  BY DEF LifeInv, PlacedInv
<1> HIDE DEF Fits
<1>3. /\ \A o \in book' \cup reportList' : Fits(o)'
      /\ entry' # Null => Fits(entry)'
  <2>1. CASE \E o \in Orders : EnterOrder(o)
    <3>1. PICK o \in Orders : EnterOrder(o)
      BY <2>1
    <3>2. placed \in Seq({x.nid : x \in Orders})
      BY DEF DeskInv, Types
    <3>3. /\ entry' = [nid |-> o.nid, price |-> o.price, side |-> o.side,
                       serial |-> nid_sub2, id |-> Len(placed) + 1]
          /\ placed' = Append(placed, o.nid)
          /\ book' = book \cup {entry'} /\ reportList' = reportList
      BY <3>1 DEF EnterOrder
    <3>4. entry'.id = Len(placed) + 1 /\ entry'.nid = o.nid
      BY <3>3
    <3>5. Len(placed) + 1 \in DOMAIN placed' /\ placed'[Len(placed) + 1] = o.nid
      BY <3>2, <3>3
    <3>6. Fits(entry)'
      BY <3>4, <3>5 DEF Fits
    <3> QED
      BY <1>1, <1>2, <3>3, <3>6
  <2>2. CASE StoreOrder
    BY <1>1, <1>2, <2>2 DEF StoreOrder
  <2>3. CASE \E o \in book : ExecuteOrder(o)
    BY <1>1, <1>2, <2>3 DEF ExecuteOrder
  <2>4. CASE \E o \in reportList : AnnounceOrder(o)
    BY <1>1, <1>2, <2>4 DEF AnnounceOrder
  <2>5. CASE Restart
    BY <2>5 DEF Restart
  <2>6. CASE UNCHANGED <<book, reportList, entry>>
    BY <1>1, <1>2, <2>6
  <2> QED
    BY <2>1, <2>2, <2>3, <2>4, <2>5, <2>6, Frame, LifeFrame
<1>4. report' # Null => Fits(report)' /\ report'.id \in announced'
  <2>1. CASE \E o \in reportList : AnnounceOrder(o)
    BY <1>1, <1>2, <2>1 DEF AnnounceOrder
  <2>2. CASE MarkOrder \/ Restart
    BY <2>2 DEF MarkOrder, Restart
  <2>3. CASE UNCHANGED report
    BY <1>1, <1>2, <2>3, LifeFrame
  <2> QED
    BY <2>1, <2>2, <2>3, LifeFrame
<1>5. \A x \in stored' : Fits(x)'
  <2>1. CASE StoreOrder /\ stored' # stored
    <3>1. /\ entry # Null
          /\ stored' = stored \cup {[nid |-> entry.nid, serial |-> entry.serial,
                                     id |-> entry.id]}
      BY <2>1 DEF StoreOrder
    <3>2. ASSUME NEW x, x = [nid |-> entry.nid, serial |-> entry.serial, id |-> entry.id]
          PROVE  Fits(x)'
      <4>1. Fits(entry)
        BY <1>2, <3>1
      <4>2. Fits(x)
        BY <3>2, <4>1 DEF Fits
      <4> QED
        BY <1>1, <4>2
    <3> QED
      BY <1>1, <1>2, <3>1, <3>2
  <2>2. CASE UNCHANGED stored
    BY <1>1, <1>2, <2>2
  <2> QED
    BY <2>1, <2>2, LifeFrame
<1> QED
  BY <1>3, <1>4, <1>5 DEF PlacedInv, Fits

\* The order being stored stays in its book or on the report list until announced.
LEMMA EntryStep ==
  ASSUME DeskInv, LifeInv, [Next]_vars
  PROVE  EntryInv'
<1> SUFFICES ASSUME Up', entry' # Null
             PROVE  \/ entry'.id \in announced'
                    \/ \E o \in book' \cup reportList' : o.id = entry'.id
  BY DEF EntryInv
<1>1. CASE \E o \in Orders : EnterOrder(o)
  BY <1>1 DEF EnterOrder
<1>2. CASE StoreOrder \/ Restart
  BY <1>2 DEF StoreOrder, Restart
<1>3. CASE UNCHANGED entry /\ ~Restart
  <2>1. Up
    BY <1>3, Restarts
  <2>2. entry.id \in announced \/ \E o \in book \cup reportList : o.id = entry.id
    BY <1>3, <2>1 DEF LifeInv, EntryInv
  <2>3. CASE \E o \in reportList : AnnounceOrder(o)
    BY <1>3, <2>2, <2>3 DEF AnnounceOrder
  <2>4. CASE \E o \in book : ExecuteOrder(o)
    BY <1>3, <2>2, <2>4 DEF ExecuteOrder, historyVars
  <2>5. CASE \E o \in Orders : EnterOrder(o)
    BY <1>1, <2>5
  <2>6. CASE UNCHANGED <<book, reportList>>
    BY <1>3, <2>2, <2>6, LifeFrame
  <2> QED
    BY <1>3, <2>3, <2>4, <2>5, <2>6, LifeFrame
<1> QED
  BY <1>1, <1>2, <1>3, Frame

\* A row is added for the order stored and never changes its key.
LEMMA TableRowStep ==
  ASSUME DeskInv, LifeInv, [Next]_vars
  PROVE  TableInv'
<1>1. stored \subseteq stored'
  BY LifeFrame
<1>2. ASSUME NEW n, NEW v, dbOrder' = updateOrderSituation(dbOrder, n, v)
      PROVE  TableInv'
  <2>1. ASSUME NEW q \in dbOrder'
        PROVE  \E r \in dbOrder : IsKey(q, r)
    <3>1. PICK r \in dbOrder : q = IF r.nid = n THEN [r EXCEPT !.situation = v] ELSE r
      BY <1>2, <2>1 DEF updateOrderSituation
    <3>2. IsKey([r EXCEPT !.situation = v], r) /\ IsKey(r, r)
      BY DbRows DEF IsKey
    <3> QED
      BY <3>1, <3>2
  <2> QED
    BY <1>1, <2>1 DEF LifeInv, TableInv, IsKey
<1>3. ASSUME NEW n, NEW v, dbOrder' = updateOrderPrice(dbOrder, n, v)
      PROVE  TableInv'
  <2>1. ASSUME NEW q \in dbOrder'
        PROVE  \E r \in dbOrder : IsKey(q, r)
    <3>1. PICK r \in dbOrder : q = IF r.nid = n THEN [r EXCEPT !.price = v] ELSE r
      BY <1>3, <2>1 DEF updateOrderPrice
    <3>2. IsKey([r EXCEPT !.price = v], r) /\ IsKey(r, r)
      BY DbRows DEF IsKey
    <3> QED
      BY <3>1, <3>2
  <2> QED
    BY <1>1, <2>1 DEF LifeInv, TableInv, IsKey
<1>4. CASE UNCHANGED dbOrder
  BY <1>1, <1>4 DEF LifeInv, TableInv
<1>5. CASE StoreOrder /\ dbOrder' # dbOrder
  <2>1. /\ dbOrder' = dbOrder \cup {OrderRow(entry, entry.serial)}
        /\ stored' = stored \cup {[nid |-> entry.nid, serial |-> entry.serial,
                                   id |-> entry.id]}
    BY <1>5 DEF StoreOrder, insertOrder
  <2>2. \E x \in stored' : IsKey(OrderRow(entry, entry.serial), x)
    <3> DEFINE y == [nid |-> entry.nid, serial |-> entry.serial, id |-> entry.id]
    <3>1. y \in stored'
      BY <2>1
    <3>2. IsKey(OrderRow(entry, entry.serial), y)
      BY DEF OrderRow, IsKey
    <3> QED
      BY <3>1, <3>2
  <2> QED
    BY <1>1, <2>1, <2>2 DEF LifeInv, TableInv
<1>6. CASE MarkOrder
  BY <1>2, <1>4, <1>6 DEF MarkOrder
<1>7. CASE StoreOutcome
  BY <1>2, <1>3, <1>4, <1>7 DEF StoreOutcome
<1> QED
  BY <1>4, <1>5, <1>6, <1>7, Frame

\* Until the statement of a cancellation, everybody of its key stays told.
LEMMA ToldStep ==
  ASSUME DeskInv, LifeInv, [Next]_vars
  PROVE  ToldInv'
<1>1. CASE ReplyRequest
  BY <1>1 DEF ReplyRequest, ToldInv, AtDesk, IsKey
<1>2. CASE StoreOrder /\ stored' # stored
  <2>1. /\ ~OrderKeyTaken(dbOrder, entry.nid, entry.serial)
        /\ stored' = stored \cup {[nid |-> entry.nid, serial |-> entry.serial,
                                   id |-> entry.id]}
        /\ UNCHANGED <<pcDesk, outcome, target, cancelled>>
    BY <1>2 DEF StoreOrder, deskVars
  <2>2. ASSUME pcDesk = "store", outcome = "cancelled"
        PROVE  \A x \in stored' : IsKey(x, target) => x.id \in cancelled
    <3>1. PICK r \in dbOrder : IsKey(r, target)
      BY <2>2 DEF DeskInv, TargetInv
    <3>2. ~(entry.nid = target.nid /\ entry.serial = target.serial)
      BY <2>1, <3>1 DEF OrderKeyTaken, IsKey
    <3> QED
      BY <2>1, <2>2, <3>2 DEF LifeInv, ToldInv, IsKey
  <2> QED
    BY <2>1, <2>2 DEF ToldInv, IsKey
<1>3. CASE UNCHANGED <<pcDesk, outcome, target, stored>>
  BY <1>3, LifeFrame DEF LifeInv, ToldInv, IsKey
<1>4. CASE TakeRequest \/ CancelLoaded \/ CancelNothing \/ ModifyLoaded
             \/ ModifyNothing \/ StoreOutcome \/ Restart
  BY <1>4 DEF TakeRequest, CancelLoaded, CancelNothing, ModifyLoaded, ModifyNothing,
              StoreOutcome, Restart, ToldInv
<1>5. CASE ModifyPastEnd
  BY <1>5 DEF ModifyPastEnd, AtDesk, ToldInv
<1> QED
  BY <1>1, <1>2, <1>3, <1>4, <1>5, Frame, LifeFrame DEF getCancelOrder

\* The statement of a notice or of a cancellation is on no row of an order that is
\* alone with its identifier and was told neither.
LEMMA RestingStep ==
  ASSUME DeskInv, LifeInv, [Next]_vars
  PROVE  RestingInv'
<1> SUFFICES ASSUME NEW x \in stored', Unshared(x.id)', x.id \notin announced' \cup cancelled'
             PROVE  \E r \in dbOrder' : IsKey(r, x) /\ r.situation = NORMAL
  BY DEF RestingInv, IsKey
<1>1. CASE x \notin stored
  <2>1. /\ dbOrder' = insertOrder(dbOrder, entry, entry.serial)
        /\ ~OrderKeyTaken(dbOrder, entry.nid, entry.serial)
        /\ x = [nid |-> entry.nid, serial |-> entry.serial, id |-> entry.id]
    BY <1>1, LifeFrame DEF StoreOrder
  <2>2. OrderRow(entry, entry.serial) \in dbOrder'
    BY <2>1 DEF insertOrder
  <2> QED
    BY <2>1, <2>2 DEF OrderRow, IsKey
<1>2. CASE x \in stored
  <2>1. x.id \in DOMAIN placed /\ x.nid = placed[x.id]
    BY <1>2 DEF LifeInv, PlacedInv
  <2>2. Unshared(x.id) /\ x.id \notin announced \cup cancelled
    BY <2>1, PlacedStep, LifeFrame
  <2>3. PICK r \in dbOrder : IsKey(r, x) /\ r.situation = NORMAL
    BY <1>2, <2>2 DEF LifeInv, RestingInv
  <2>4. ASSUME NEW i, i \in DOMAIN placed, placed[i] = x.nid PROVE i = x.id
    BY <2>1, <2>2, <2>4 DEF Unshared
  <2>5. ASSUME NEW n, NEW v, n # x.nid, dbOrder' = updateOrderSituation(dbOrder, n, v)
        PROVE  r \in dbOrder'
    BY <2>3, <2>5 DEF updateOrderSituation, IsKey
  <2>6. CASE UNCHANGED dbOrder
    BY <2>3, <2>6
  <2>7. CASE StoreOrder
    BY <2>3, <2>7 DEF StoreOrder, insertOrder
  <2>8. CASE MarkOrder /\ dbOrder' # dbOrder
    <3>1. report # Null /\ dbOrder' = updateOrderSituation(dbOrder, report.nid, EXECUTE)
      BY <2>8 DEF MarkOrder
    <3>2. /\ report.id \in DOMAIN placed /\ report.nid = placed[report.id]
          /\ report.id \in announced
      BY <3>1 DEF LifeInv, PlacedInv
    <3>3. report.nid # x.nid
      BY <2>2, <2>4, <3>2
    <3> QED
      BY <2>3, <2>5, <3>1, <3>3
  <2>9. CASE StoreOutcome /\ dbOrder' # dbOrder /\ outcome = "cancelled"
    <3>1. pcDesk = "store" /\ dbOrder' = updateOrderSituation(dbOrder, request.nid, CANCEL)
      BY <2>9 DEF StoreOutcome, AtDesk
    <3>2. PICK t \in dbOrder : IsKey(t, target) /\ target.nid = request.nid
      BY <2>9, <3>1 DEF DeskInv, TargetInv
    <3>3. PICK y \in stored : IsKey(t, y)
      BY DEF LifeInv, TableInv
    <3>4. y.id \in cancelled /\ y.nid = request.nid
      BY <2>9, <3>1, <3>2, <3>3 DEF LifeInv, ToldInv, IsKey
    <3>5. y.id \in DOMAIN placed /\ y.nid = placed[y.id]
      BY DEF LifeInv, PlacedInv
    <3>6. request.nid # x.nid
      BY <2>2, <2>4, <3>4, <3>5
    <3> QED
      BY <2>3, <2>5, <3>1, <3>6
  <2>10. CASE StoreOutcome /\ dbOrder' # dbOrder /\ outcome # "cancelled"
    <3>1. dbOrder' = updateOrderPrice(dbOrder, request.nid, request.price)
      BY <2>10 DEF StoreOutcome
    <3>2. r \in Rows
      BY DEF DeskInv, Types
    <3> DEFINE q == IF r.nid = request.nid THEN [r EXCEPT !.price = request.price] ELSE r
    <3>3. q \in dbOrder'
      BY <3>1 DEF updateOrderPrice
    <3>4. IsKey(q, x) /\ q.situation = NORMAL
      BY <2>3, <3>2 DEF IsKey, Rows
    <3> QED
      BY <3>3, <3>4
  <2> QED
    BY <2>6, <2>7, <2>8, <2>9, <2>10, Frame
<1> QED
  BY <1>1, <1>2

\* A restart loads every resting row, the order it loads having the row's key.
LEMMA RestingLoaded ==
  ASSUME DeskInv, Restart, NEW x, NEW r \in dbOrder, IsKey(r, x), r.situation = NORMAL
  PROVE  \E o \in Loaded' : IsKey(o, x)
<1> DEFINE o == [nid |-> r.nid, serial |-> r.serial, price |-> r.price]
<1>1. r \in Rows
  BY DEF DeskInv, Types
<1>2. r.side \in Sides
  BY <1>1 DEF Rows
<1>3. o \in LoadedOrders(dbOrder, r.side)
  BY DEF LoadedOrders, ValidOrder
<1>4. o \in loaded'[r.side]
  BY <1>2, <1>3 DEF Restart, Sides
<1>5. IsKey(o, x)
  BY DEF IsKey
<1> QED
  BY <1>2, <1>4, <1>5 DEF Loaded, Sides

\* Repricing keeps every key on its list.
LEMMA RepriceKeeps ==
  ASSUME DeskInv, NEW o \in loaded["BUY"], loaded' = Reprice(o), NEW x,
         \E y \in Loaded : IsKey(y, x)
  PROVE  \E y \in Loaded' : IsKey(y, x)
<1> DEFINE n == [o EXCEPT !.price = request.price]
<1>1. o \in Loads /\ loaded \in [Sides -> SUBSET Loads]
  BY DEF DeskInv, Types, Sides
<1>2. n.nid = o.nid /\ n.serial = o.serial
  BY <1>1 DEF Loads
<1>3. /\ loaded'["BUY"] = (loaded["BUY"] \ {o}) \cup {n}
      /\ loaded'["SELL"] = loaded["SELL"]
  BY <1>1 DEF Reprice, Sides
<1> HIDE DEF n
<1>4. PICK y \in Loaded : IsKey(y, x)
  OBVIOUS
<1>5. CASE y = o
  <2>1. n \in Loaded' /\ IsKey(n, x)
    BY <1>2, <1>3, <1>4, <1>5 DEF Loaded, IsKey
  <2> QED
    BY <2>1
<1>6. CASE y # o
  BY <1>3, <1>4, <1>6 DEF Loaded
<1> QED
  BY <1>5, <1>6

\* Every step keeps an order that is alone with its identifier where it is found.
LEMMA SurvivesStep ==
  ASSUME DeskInv, LifeInv, [Next]_vars
  PROVE  UnsharedOrderSurvives'
<1> SUFFICES ASSUME Up', NEW x \in stored', Unshared(x.id)',
                    x.id \notin announced' \cup cancelled', ~Withdrawn(x)'
             PROVE  \/ \E o \in book' \cup reportList' : o.id = x.id
                    \/ \E o \in Loaded' : IsKey(o, x)
  BY DEF UnsharedOrderSurvives, IsKey
<1>1. CASE Restart
  <2>1. RestingInv' /\ dbOrder' = dbOrder
    BY <1>1, RestingStep DEF Restart
  <2>2. PICK r \in dbOrder : IsKey(r, x) /\ r.situation = NORMAL
    BY <2>1 DEF RestingInv, IsKey
  <2> QED
    BY <1>1, <2>2, RestingLoaded
<1>2. CASE x \notin stored
  <2>1. /\ entry # Null /\ Up /\ x = [nid |-> entry.nid, serial |-> entry.serial, id |-> entry.id]
        /\ UNCHANGED <<book, reportList, announced>>
    BY <1>2, LifeFrame DEF StoreOrder
  <2>2. x.id = entry.id /\ entry.id \notin announced
    BY <2>1
  <2>3. \E o \in book \cup reportList : o.id = entry.id
    BY <2>1, <2>2 DEF LifeInv, EntryInv
  <2> QED
    BY <2>1, <2>2, <2>3
<1>3. CASE x \in stored /\ ~Restart
  <2>1. Up
    BY <1>3, Restarts
  <2>2. x.id \in DOMAIN placed
    BY <1>3 DEF LifeInv, PlacedInv
  <2>3. Unshared(x.id) /\ x.id \notin announced \cup cancelled
    BY <2>2, PlacedStep, LifeFrame
  <2>4. ~Withdrawn(x)
    <3>1. CASE ReplyRequest
      BY <1>3, <2>3, <3>1 DEF ReplyRequest, Withdrawn, IsKey, Up
    <3>2. CASE UNCHANGED <<pcDesk, outcome, target>>
      BY <3>2 DEF Withdrawn, IsKey
    <3>3. CASE getCancelOrder /\ ~ReplyRequest
      BY <3>3 DEF getCancelOrder, TakeRequest, CancelLoaded, CancelNothing, ModifyLoaded,
                  ModifyNothing, ModifyPastEnd, StoreOutcome, AtDesk, Withdrawn
    <3> QED
      BY <1>3, <3>1, <3>2, <3>3, Frame
  <2>5. \/ \E o \in book \cup reportList : o.id = x.id
        \/ \E o \in Loaded : IsKey(o, x)
    BY <1>3, <2>1, <2>3, <2>4 DEF LifeInv, UnsharedOrderSurvives
  <2>6. CASE \E o \in book \cup reportList : o.id = x.id
    <3>1. CASE \E o \in Orders : EnterOrder(o)
      BY <2>6, <3>1 DEF EnterOrder
    <3>2. CASE \E o \in book : ExecuteOrder(o)
      BY <2>6, <3>2 DEF ExecuteOrder
    <3>3. CASE \E o \in reportList : AnnounceOrder(o)
      BY <2>6, <3>3 DEF AnnounceOrder
    <3>4. CASE UNCHANGED <<book, reportList>>
      BY <2>6, <3>4
    <3> QED
      BY <1>3, <3>1, <3>2, <3>3, <3>4, LifeFrame
  <2>7. CASE \E o \in Loaded : IsKey(o, x)
    <3>1. CASE CancelLoaded
      <4>1. PICK o \in Named(request.side) :
              loaded' = EraseNamed(o, request.side) /\ target' = o
        BY <3>1 DEF CancelLoaded
      <4>2. pcDesk' = "reply" /\ outcome' = "cancelled"
        BY <3>1 DEF CancelLoaded
      <4>3. ~IsKey(o, x)
        BY <4>1, <4>2 DEF Withdrawn, IsKey
      <4>4. PICK y \in Loaded : IsKey(y, x)
        BY <2>7
      <4>5. y # o
        BY <4>3, <4>4
      <4>6. y \in Loaded'
        BY <4>1, <4>4, <4>5 DEF EraseNamed, Loaded, DeskInv, Types, Sides
      <4> QED
        BY <4>4, <4>6
    <3>2. CASE ModifyLoaded \/ ModifyPastEnd
      <4>1. UNCHANGED loaded \/ \E o \in loaded["BUY"] : loaded' = Reprice(o)
        BY <3>2 DEF ModifyLoaded, ModifyPastEnd, Named
      <4>2. CASE UNCHANGED loaded
        BY <2>7, <4>2 DEF Loaded
      <4>3. CASE \E o \in loaded["BUY"] : loaded' = Reprice(o)
        BY <2>7, <4>3, RepriceKeeps
      <4> QED
        BY <4>1, <4>2, <4>3
    <3>3. CASE UNCHANGED loaded
      BY <2>7, <3>3 DEF Loaded
    <3> QED
      BY <1>3, <3>1, <3>2, <3>3, Frame
  <2> QED
    BY <2>5, <2>6, <2>7
<1> QED
  BY <1>1, <1>2, <1>3

\* Nothing is placed, stored or told at first.
LEMMA LifeInitial == Init => LifeInv
  BY DEF Init, LifeInv, PlacedInv, EntryInv, TableInv, ToldInv, RestingInv,
         UnsharedOrderSurvives

\* The strengthening is inductive over DeskInv.
LEMMA LifeInductive == DeskInv /\ LifeInv /\ [Next]_vars => LifeInv'
  BY IdentStep, EntryStep, TableRowStep, ToldStep, RestingStep, SurvivesStep DEF LifeInv

\* A stored order is never lost, through any number of crashes, as long as it does
\* not share its identifier: loadExistOrder, and what marks the rows it reads.
THEOREM OrderSurvives == Spec => []UnsharedOrderSurvives
<1>1. Spec => [](DeskInv /\ LifeInv)
  BY DeskInitial, DeskInductive, LifeInitial, LifeInductive, PTL DEF Spec
<1>2. DeskInv /\ LifeInv => UnsharedOrderSurvives
  BY DEF LifeInv
<1> QED
  BY <1>1, <1>2, PTL

-------------------------------------------------------------------------------
(* The shape of the state *)

\* A process gives serial numbers to no more orders than were placed.
CountInv ==
  /\ lives \in 1..MaxLives
  /\ Len(placed) <= MaxPlaced
  /\ nid_sub2 \in 1..Len(placed) + 1
  /\ asked \in 0..MaxRequests /\ told \in Nat
  /\ told + Len(dq_orderhandle) + (IF pcDesk \in {"search", "reply"} THEN 1 ELSE 0) <= asked

\* Orders in the trading threads are orders clients may send.
OrderFits(o) ==
  /\ [nid |-> o.nid, price |-> o.price, side |-> o.side] \in Orders
  /\ o.serial \in 1..MaxPlaced

FitsInv == \A o \in book \cup reportList \cup ({entry, report} \ {Null}) : OrderFits(o)

PlacesInv ==
  /\ process \in {"up", "dead"}
  /\ receiver \in {"idle", "falling"}
  /\ vectors \subseteq Sides
  /\ pcDesk \in {"poll", "search", "reply", "store"}
  /\ request \in Requests \cup {Null} /\ target \in Loads \cup {Null}
  /\ outcome \in {"none", "cancelled", "modified", "refused"}
  /\ announced \cup cancelled \subseteq DOMAIN placed

ShapeInv == CountInv /\ FitsInv /\ PlacesInv

AllInv == DeskInv /\ LifeInv /\ ShapeInv

\* Which actions change the counters, and which the places.
LEMMA CountFrame ==
  ASSUME [Next]_vars
  PROVE  \/ \E o \in Orders : EnterOrder(o)
         \/ \E m \in Requests : PushRequest(m)
         \/ getCancelOrder \/ Restart
         \/ UNCHANGED <<lives, placed, nid_sub2, told, asked, dq_orderhandle, pcDesk>>
  BY SMTT(30)
  DEF Next, vars, StoreOrder, ExecuteOrder, AnnounceOrder, MarkOrder, FallThrough,
      tradeVars, deskVars, historyVars

\* What any step may do to the two flags of process and receiver, and to the vectors.
LEMMA PlacesFrame ==
  ASSUME [Next]_vars
  PROVE  /\ process' \in {process, "up", "dead"}
         /\ receiver' \in {receiver, "idle", "falling"}
         /\ Restart \/ UNCHANGED vectors
  BY SMTT(30)
  DEF Next, vars, getCancelOrder, EnterOrder, StoreOrder, ExecuteOrder, AnnounceOrder,
      MarkOrder, PushRequest, FallThrough, TakeRequest, CancelLoaded, CancelNothing,
      ModifyLoaded, ModifyNothing, ModifyPastEnd, ReplyRequest, StoreOutcome, Restart,
      Crash, searchFrame, tradeVars, deskVars, historyVars

\* Every step keeps the serial numbers within the orders placed.
LEMMA CountStep ==
  ASSUME AllInv, [Next]_vars
  PROVE  CountInv'
<1> USE DEF AllInv, ShapeInv, CountInv
<1>1. placed \in Seq({o.nid : o \in Orders}) /\ dq_orderhandle \in Seq(Requests)
  BY DEF DeskInv, Types
<1>2. Len(placed) \in Nat /\ Len(dq_orderhandle) \in Nat /\ told \in Nat /\ asked \in Nat
  BY <1>1
<1>3. CASE \E o \in Orders : EnterOrder(o)
  <2>1. PICK o \in Orders : EnterOrder(o)
    BY <1>3
  <2>2. Len(placed') = Len(placed) + 1 /\ Len(placed) < MaxPlaced /\ nid_sub2' = nid_sub2 + 1
    BY <1>1, <2>1 DEF EnterOrder
  <2>3. UNCHANGED <<lives, asked, told, dq_orderhandle, pcDesk>>
    BY <2>1 DEF EnterOrder, deskVars
  <2> QED
    BY <1>2, <2>2, <2>3, BoundsAssumption
<1>4. CASE \E m \in Requests : PushRequest(m)
  <2>1. PICK m \in Requests : PushRequest(m)
    BY <1>4
  <2>2. Len(dq_orderhandle') = Len(dq_orderhandle) + 1 /\ asked < MaxRequests /\ asked' = asked + 1
    BY <1>1, <2>1 DEF PushRequest
  <2>3. UNCHANGED <<lives, placed, nid_sub2, told, pcDesk>>
    BY <2>1 DEF PushRequest, tradeVars
  <2> QED
    BY <1>2, <2>2, <2>3, BoundsAssumption
<1>5. CASE TakeRequest
  <2>1. /\ Len(dq_orderhandle') = Len(dq_orderhandle) - 1
        /\ pcDesk = "poll" /\ pcDesk' = "search"
    BY <1>1, <1>5 DEF TakeRequest, AtDesk
  <2>2. UNCHANGED <<lives, placed, nid_sub2, told, asked>>
    BY <1>5 DEF TakeRequest, tradeVars, historyVars
  <2> QED
    BY <1>2, <2>1, <2>2
<1>6. CASE CancelLoaded \/ CancelNothing \/ ModifyLoaded \/ ModifyNothing \/ ModifyPastEnd
  <2>1. pcDesk = "search" /\ pcDesk' \in {"search", "reply"}
    BY <1>6 DEF CancelLoaded, CancelNothing, ModifyLoaded, ModifyNothing, ModifyPastEnd, AtDesk
  <2>2. UNCHANGED <<lives, placed, nid_sub2, told, asked, dq_orderhandle>>
    BY <1>6 DEF CancelLoaded, CancelNothing, ModifyLoaded, ModifyNothing, ModifyPastEnd,
                searchFrame, tradeVars, historyVars
  <2> QED
    BY <1>2, <2>1, <2>2
<1>7. CASE ReplyRequest
  <2>1. /\ pcDesk = "reply"
        /\ \/ told' = told + 1 /\ pcDesk' \in {"poll", "store"}
           \/ told' = told /\ pcDesk' = "reply"
    BY <1>7 DEF ReplyRequest, AtDesk
  <2>2. UNCHANGED <<lives, placed, nid_sub2, asked, dq_orderhandle>>
    BY <1>7 DEF ReplyRequest, tradeVars
  <2> QED
    BY <1>2, <2>1, <2>2
<1>8. CASE StoreOutcome
  <2>1. pcDesk = "store" /\ pcDesk' = "poll"
    BY <1>8 DEF StoreOutcome, AtDesk
  <2>2. UNCHANGED <<lives, placed, nid_sub2, told, asked, dq_orderhandle>>
    BY <1>8 DEF StoreOutcome, tradeVars
  <2> QED
    BY <1>2, <2>1, <2>2
<1>9. CASE Restart
  <2>1. /\ lives' = lives + 1 /\ lives < MaxLives /\ nid_sub2' = 1
        /\ dq_orderhandle' = <<>> /\ pcDesk' = "poll"
        /\ UNCHANGED <<placed, told, asked>>
    BY <1>9 DEF Restart, historyVars
  <2>2. Len(dq_orderhandle') = 0
    BY <2>1
  <2> QED
    BY <1>2, <2>1, <2>2, BoundsAssumption
<1>10. CASE UNCHANGED <<lives, placed, nid_sub2, told, asked, dq_orderhandle, pcDesk>>
  BY <1>2, <1>10
<1> QED
  BY <1>3, <1>4, <1>5, <1>6, <1>7, <1>8, <1>9, <1>10, CountFrame DEF getCancelOrder

\* Every step keeps the fields of the orders in the trading threads.
LEMMA FitsStep ==
  ASSUME AllInv, [Next]_vars
  PROVE  FitsInv'
<1>1. /\ \A o \in book \cup reportList : OrderFits(o)
      /\ entry # Null => OrderFits(entry)
      /\ report # Null => OrderFits(report)
  BY DEF AllInv, ShapeInv, FitsInv
<1>2. CASE \E o \in Orders : EnterOrder(o)
  <2>1. PICK o \in Orders : EnterOrder(o)
    BY <1>2
  <2>2. o = [nid |-> o.nid, price |-> o.price, side |-> o.side]
    BY OrdersAssumption
  <2>3. entry'.nid = o.nid /\ entry'.price = o.price /\ entry'.side = o.side
        /\ entry'.serial = nid_sub2
    BY <2>1 DEF EnterOrder
  <2>4. nid_sub2 \in 1..MaxPlaced
    <3>1. Len(placed) \in Nat /\ Len(placed) < MaxPlaced /\ nid_sub2 \in 1..Len(placed) + 1
      BY <2>1 DEF EnterOrder, AllInv, ShapeInv, CountInv, DeskInv, Types
    <3> QED
      BY <3>1, BoundsAssumption
  <2>5. OrderFits(entry')
    <3>1. [nid |-> entry'.nid, price |-> entry'.price, side |-> entry'.side] = o
      BY <2>2, <2>3
    <3> QED
      BY <2>3, <2>4, <3>1 DEF OrderFits
  <2> HIDE DEF OrderFits
  <2>6. book' = book \cup {entry'} /\ UNCHANGED <<reportList, report>>
    BY <2>1 DEF EnterOrder
  <2>7. \A o2 \in book' \cup reportList' \cup ({entry', report'} \ {Null}) : OrderFits(o2)
    BY <1>1, <2>5, <2>6
  <2> QED
    BY <2>7 DEF FitsInv, OrderFits
<1>3. CASE StoreOrder
  <2>1. entry' = Null /\ UNCHANGED <<book, reportList, report>>
    BY <1>3 DEF StoreOrder
  <2>2. \A o2 \in book' \cup reportList' \cup ({entry', report'} \ {Null}) : OrderFits(o2)
    BY <1>1, <2>1
  <2> QED
    BY <2>2 DEF FitsInv, OrderFits
<1>4. CASE \E o \in book : ExecuteOrder(o)
  <2>1. \A o2 \in book' \cup reportList' \cup ({entry', report'} \ {Null}) : OrderFits(o2)
    BY <1>1, <1>4 DEF ExecuteOrder
  <2> QED
    BY <2>1 DEF FitsInv, OrderFits
<1>5. CASE \E o \in reportList : AnnounceOrder(o)
  <2>1. \A o2 \in book' \cup reportList' \cup ({entry', report'} \ {Null}) : OrderFits(o2)
    BY <1>1, <1>5 DEF AnnounceOrder
  <2> QED
    BY <2>1 DEF FitsInv, OrderFits
<1>6. CASE MarkOrder
  <2>1. report' = Null /\ UNCHANGED <<book, reportList, entry>>
    BY <1>6 DEF MarkOrder
  <2>2. \A o2 \in book' \cup reportList' \cup ({entry', report'} \ {Null}) : OrderFits(o2)
    BY <1>1, <2>1
  <2> QED
    BY <2>2 DEF FitsInv, OrderFits
<1>7. CASE Restart
  BY <1>7 DEF Restart, FitsInv
<1>8. CASE UNCHANGED <<book, reportList, entry, report>>
  <2>1. \A o2 \in book' \cup reportList' \cup ({entry', report'} \ {Null}) : OrderFits(o2)
    BY <1>1, <1>8
  <2> QED
    BY <2>1 DEF FitsInv, OrderFits
<1> QED
  BY <1>2, <1>3, <1>4, <1>5, <1>6, <1>7, <1>8, Frame, LifeFrame

\* Every step keeps what is recorded about places within the places given.
LEMMA PlacesStep ==
  ASSUME AllInv, [Next]_vars
  PROVE  PlacesInv'
<1> USE DEF AllInv, ShapeInv, PlacesInv
<1>1. process' \in {"up", "dead"} /\ receiver' \in {"idle", "falling"} /\ vectors' \subseteq Sides
  BY PlacesFrame DEF Restart, Sides
<1>2. /\ pcDesk' \in {"poll", "search", "reply", "store"}
      /\ outcome' \in {"none", "cancelled", "modified", "refused"}
  BY Frame DEF getCancelOrder, TakeRequest, CancelLoaded, CancelNothing, ModifyLoaded,
     ModifyNothing, ModifyPastEnd, ReplyRequest, StoreOutcome, Restart
<1>3. request' \in Requests \cup {Null}
  <2>1. CASE TakeRequest
    <3>1. dq_orderhandle \in Seq(Requests) /\ dq_orderhandle # <<>>
          /\ request' = Head(dq_orderhandle)
      BY <2>1 DEF TakeRequest, DeskInv, Types
    <3> QED
      BY <3>1
  <2> QED
    BY <2>1, Frame DEF getCancelOrder, CancelLoaded, CancelNothing, ModifyLoaded,
       ModifyNothing, ModifyPastEnd, ReplyRequest, StoreOutcome, Restart, searchFrame
<1>4. target' \in Loads \cup {Null}
  <2>1. CASE CancelLoaded
    <3>1. PICK o \in Named(request.side) : target' = o
      BY <2>1 DEF CancelLoaded
    <3>2. request \in Requests /\ request.side # "other"
      BY <2>1 DEF CancelLoaded, AtDesk, DeskInv, Types
    <3>3. request.side \in Sides
      BY <3>2, RequestsAssumption DEF Sides
    <3> QED
      BY <3>1, <3>3 DEF Named, DeskInv, Types
  <2>2. CASE ModifyLoaded
    <3>1. PICK o \in loaded["BUY"] : target' = o
      BY <2>2 DEF ModifyLoaded, Named
    <3> QED
      BY <3>1 DEF DeskInv, Types, Sides
  <2> QED
    BY <2>1, <2>2, Frame DEF getCancelOrder, TakeRequest, CancelNothing,
       ModifyNothing, ModifyPastEnd, ReplyRequest, StoreOutcome, Restart, searchFrame
<1>5. announced' \cup cancelled' \subseteq DOMAIN placed'
  <2>1. DOMAIN placed \subseteq DOMAIN placed'
    BY PlacedStep
  <2>2. announced' \subseteq announced \cup DOMAIN placed
    <3>1. CASE \E o \in reportList : AnnounceOrder(o)
      BY <3>1 DEF AnnounceOrder, LifeInv, PlacedInv
    <3> QED
      BY <3>1, LifeFrame
  <2>3. cancelled' \subseteq cancelled \cup DOMAIN placed
    <3>1. CASE ReplyRequest
      BY <3>1 DEF ReplyRequest, LifeInv, PlacedInv
    <3> QED
      BY <3>1, LifeFrame
  <2> QED
    BY <2>1, <2>2, <2>3
<1> QED
  BY <1>1, <1>2, <1>3, <1>4, <1>5

\* The empty process has the shape.
LEMMA ShapeInitial == Init => ShapeInv
<1> SUFFICES ASSUME Init PROVE ShapeInv
  OBVIOUS
<1>1. CountInv
  BY BoundsAssumption DEF Init, CountInv
<1>2. FitsInv
  BY DEF Init, FitsInv
<1>3. PlacesInv
  BY DEF Init, PlacesInv
<1> QED
  BY <1>1, <1>2, <1>3 DEF ShapeInv

\* All of it is inductive.
LEMMA AllInductive == AllInv /\ [Next]_vars => AllInv'
  BY DeskInductive, LifeInductive, CountStep, FitsStep, PlacesStep DEF AllInv, ShapeInv

\* Every list, every thread and every counter of the desk and of the trading threads
\* keeps its type, over all processes.
THEOREM DeskTypeCorrect == Spec => []DeskTypeOK
<1>1. Init => AllInv
  BY DeskInitial, LifeInitial, ShapeInitial DEF AllInv
<1>2. AllInv => DeskTypeOK
  <2> SUFFICES ASSUME AllInv PROVE DeskTypeOK
    OBVIOUS
  <2>1. FitsInv /\ PlacesInv /\ PlacedInv /\ TableInv /\ Types
    BY DEF AllInv, ShapeInv, LifeInv, DeskInv
  <2>2. /\ lives \in 1..MaxLives /\ nid_sub2 \in 1..MaxPlaced + 1
        /\ told <= asked /\ asked <= MaxRequests
    <3>1. CountInv /\ Len(placed) \in Nat /\ Len(dq_orderhandle) \in Nat
      BY DEF AllInv, ShapeInv, DeskInv, Types
    <3> QED
      BY <3>1, BoundsAssumption DEF CountInv
  <2>3. \A o \in book \cup reportList \cup ({entry, report} \ {Null}) :
          /\ [nid |-> o.nid, price |-> o.price, side |-> o.side] \in Orders
          /\ o.serial \in 1..MaxPlaced /\ o.id \in DOMAIN placed
    BY <2>1 DEF FitsInv, OrderFits, PlacedInv
  <2> QED
    BY <2>1, <2>2, <2>3 DEF DeskTypeOK, PlacesInv, TableInv, Types, Sides
<1> QED
  BY <1>1, <1>2, AllInductive, PTL DEF Spec

===============================================================================
