------------------------------ MODULE MCOrderDesk ------------------------------
(***************************************************************************)
(* Constants of the small instances TLC checks OrderDesk on.               *)
(***************************************************************************)
EXTENDS OrderDesk

Order(nid, side, price) == [nid |-> nid, side |-> side, price |-> price]
Ask(code, nid, side, price) ==
  [code |-> code, nid |-> nid, side |-> side, price |-> price]

\* One identifier that several orders may share, on either side.
DeskOrders == {Order("n1", "BUY", 60), Order("n2", "SELL", 64)}

DeskRequests ==
  {Ask("cancel", "n1", "BUY", 60), Ask("cancel", "n2", "SELL", 64),
   Ask("modify", "n1", "BUY", 62), Ask("modify", "n2", "SELL", 62),
   Ask("cancel", "n1", "other", 60)}

OneCancel == {Ask("cancel", "n1", "BUY", 60)}
OneOrder  == {Order("n1", "BUY", 60)}
===============================================================================
