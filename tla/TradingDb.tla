------------------------------ MODULE TradingDb ------------------------------
(***************************************************************************)
(* The two tables of the `stock` schema that the trader writes, and the    *)
(* statements TradingDataHandler issues on them.  A table is a set of      *)
(* rows; a statement is an operator from the table before it to the table  *)
(* after it.  Every call is one autocommitted statement, so it is one      *)
(* atomic step of whoever calls it.                                        *)
(*                                                                         *)
(* `NID` is a FLOAT column: two identifiers are the same key when they     *)
(* round to the same float.  A model identifier stands for one rounding    *)
(* class.  Symbol and UserID are written and never read back.              *)
(***************************************************************************)
EXTENDS Naturals

\* The values of Order_situation: resting, executed, cancelled.
NORMAL  == 1
EXECUTE == 2
CANCEL  == 3

\* The primary key of `Order` is (NID, Client_SerialNum).
OrderKeyTaken(orders, nid, serial) ==
  \E r \in orders : r.nid = nid /\ r.serial = serial

\* The row an INSERT INTO `Order` writes for a request.
OrderRow(req, serial) ==
  [nid |-> req.nid, serial |-> serial, price |-> req.price, side |-> req.side,
   situation |-> NORMAL]

\* The primary key of `ExecReport` is (NID, Side).
ReportKeyTaken(reports, nid, side) ==
  \E r \in reports : r.nid = nid /\ r.side = side

\* The row an INSERT INTO `ExecReport` writes for an order executed at a price.
ReportRow(req, execPrice, serial) ==
  [nid |-> req.nid, side |-> req.side, price |-> req.price,
   execPrice |-> execPrice, serial |-> serial]

\* An INSERT that the server accepts adds the row; one whose key is taken
\* changes nothing.
insertOrder(orders, req, serial) ==
  IF OrderKeyTaken(orders, req.nid, serial)
  THEN orders
  ELSE orders \cup {OrderRow(req, serial)}

insertReport(reports, req, execPrice, serial) ==
  IF ReportKeyTaken(reports, req.nid, req.side)
  THEN reports
  ELSE reports \cup {ReportRow(req, execPrice, serial)}

\* UPDATE ... WHERE NID = nid: every row of that identifier is rewritten.
updateOrderSituation(orders, nid, situation) ==
  {IF r.nid = nid THEN [r EXCEPT !.situation = situation] ELSE r : r \in orders}

updateOrderPrice(orders, nid, price) ==
  {IF r.nid = nid THEN [r EXCEPT !.price = price] ELSE r : r \in orders}

\* The view Valid_Order, which getExistOrder reads.
ValidOrder(orders) == {r \in orders : r.situation = NORMAL}

==============================================================================
