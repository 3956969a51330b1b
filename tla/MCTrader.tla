------------------------------- MODULE MCTrader -------------------------------
(***************************************************************************)
(* Constants of the small instances TLC checks Trader on.  The base price  *)
(* is init.sql's 60, so the band is 54..66.                                *)
(***************************************************************************)
EXTENDS TraderBook

Request(nid, side, price, c) ==
  [nid |-> nid, price |-> price, side |-> side, symbol |-> "KKC", connId |-> c]

\* Both edges of the balance test on connection 1, both edges of the band.
RiskRequests ==
  {Request("n1", "BUY", 60, 1), Request("n2", "BUY", 64, 1),
   Request("n3", "BUY", 67, 2), Request("n4", "SELL", 66, 2),
   Request("n5", "SELL", 54, 2)}

\* A seller above the buyer: only the comparison with Trader::od matches them.
MatchingRequests == {Request("n1", "BUY", 60, 1), Request("n2", "SELL", 64, 2)}

\* One buyer and one seller at one price.
CrossingRequests == {Request("n1", "BUY", 60, 1), Request("n2", "SELL", 60, 2)}

\* A buy order below the sell order, and an order that fails risk control.
PricedRequests ==
  {Request("n1", "BUY", 60, 1), Request("n2", "SELL", 64, 2),
   Request("n3", "BUY", 67, 1)}

\* A row an earlier process left: generateNid starts at the same number.
EarlierRow ==
  {[nid |-> "n1", serial |-> 1, price |-> 60, side |-> "BUY",
    situation |-> NORMAL]}

\* 64000 does not cover an order at 64, and covers one at 60.
SmallBalance == [c \in Conn |-> IF c = 1 THEN 64000 ELSE 1000000]
AmpleBalance == [c \in Conn |-> 1000000]

OnlyKKC == {"KKC"}
===============================================================================
