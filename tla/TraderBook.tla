------------------------------ MODULE TraderBook ------------------------------
(***************************************************************************)
(* The trader implements MatchBook: seen from the books, a match takes     *)
(* effect at once when matchup erases the sell order, although it spans    *)
(* four operations on containers that getOrder inserts into meanwhile.     *)
(***************************************************************************)
EXTENDS Trader

\* The pair is executed and its orders are still in the books.
Matching == pcMatch \in {"reportSell", "eraseSell"}

\* The orders that went through orderDataInsert.
Accepted == Booked("BUY") \cup Booked("SELL")

bookLimit == [a \in Addr |-> IF a \in Accepted THEN order[a].price ELSE 0]
bookBuys  == IF pcMatch = "eraseBuy" THEN rawBuyside \ {odb} ELSE rawBuyside
bookFills ==
  [a \in Addr |-> IF Matching /\ a \in {odb, ods} THEN fills[a] - 1 ELSE fills[a]]
bookPrice == [a \in Addr |-> IF bookFills[a] = 0 THEN 0 ELSE execPrice[a]]

Book == INSTANCE MatchBook
          WITH Orders <- Addr, Limits <- {r.price : r \in Requests}, Exact <- FALSE,
               limit <- bookLimit, buys <- bookBuys, sells <- rawSellside,
               fills <- bookFills, price <- bookPrice

\* Every step of the process is a step of the book or leaves it alone: no
\* interleaving of orderDataInsert with a match splits the match, executes an
\* order that is not resting, or changes the price an order executed at.
MatchIsAtomic == Book!Spec

================================================================================
