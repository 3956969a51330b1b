------------------------------- MODULE MatchBook -------------------------------
(***************************************************************************)
(* What the matching thread promises to those who see only the two books   *)
(* and the executions: a match is one indivisible step.  It executes one   *)
(* resting buy order and one resting sell order at the price of the sell   *)
(* order, and takes one order off each side, whatever order arrives in the *)
(* middle of it.                                                           *)
(*                                                                         *)
(* Exact says whether the sell order taken off is the one executed.  A     *)
(* book matched one by one has Exact = TRUE; the trader only implements    *)
(* the book with Exact = FALSE.                                            *)
(***************************************************************************)
EXTENDS Naturals

CONSTANTS
  Orders,  \* identities of orders
  Limits,  \* prices an order can name
  Exact    \* TRUE: the sell order executed is the one taken off

VARIABLES
  limit,   \* limit[o]: price of an accepted order, 0 before that
  buys,    \* resting buy orders
  sells,   \* resting sell orders
  fills,   \* fills[o]: times o was executed
  price    \* price[o]: price o executed at, 0 before that

vars == <<limit, buys, sells, fills, price>>

Init ==
  /\ limit = [o \in Orders |-> 0]
  /\ buys = {} /\ sells = {}
  /\ fills = [o \in Orders |-> 0]
  /\ price = [o \in Orders |-> 0]

\* A new order comes to rest on its side.
Accept(o, l) ==
  /\ \/ buys' = buys \cup {o} /\ UNCHANGED sells
     \/ sells' = sells \cup {o} /\ UNCHANGED buys
  /\ limit[o] = 0
  /\ limit' = [limit EXCEPT ![o] = l]
  /\ UNCHANGED <<fills, price>>

\* b and s execute at the price of s; b and gone leave the book.
Match(b, s, gone) ==
  /\ Exact => gone = s
  /\ buys' = buys \ {b}
  /\ sells' = sells \ {gone}
  /\ fills' = [fills EXCEPT ![b] = @ + 1, ![s] = @ + 1]
  /\ price' = [price EXCEPT ![b] = limit[s], ![s] = limit[s]]
  /\ UNCHANGED limit

Next ==
  \/ \E o \in Orders, l \in Limits : Accept(o, l)
  \/ \E b \in buys, s \in sells, gone \in sells : Match(b, s, gone)

Spec == Init /\ [][Next]_vars

================================================================================
