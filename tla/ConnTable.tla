------------------------------- MODULE ConnTable -------------------------------
(***************************************************************************)
(* The server's connections.                                               *)
(*                                                                         *)
(*   acceptConn       numbers a connection with rand()%99, puts it in the  *)
(*                    map connStorage_ and starts its two threads          *)
(*   msgRecv          ends when recv fails, and walks over the map         *)
(*   heartbeat        sends, and walks when the connection is lost         *)
(*   freeEmptysocket  the walk: erases the lost connections it meets       *)
(*   getConnObject, sendToClient  find a connection by the number its      *)
(*                    orders carry                                         *)
(*                                                                         *)
(* The map is ordered by number.  An iterator is the connection whose node *)
(* it points at, or End; it dangles once another walk has erased that node *)
(* and then whatever it is used for may end the process or go on anywhere. *)
(* An operation on the map is one step.  A Connection is never deleted and *)
(* its socket never closed.                                                *)
(***************************************************************************)
EXTENDS Naturals, FiniteSets

CONSTANTS
  MaxConns,   \* bound on the connections accepted
  Numbers,    \* what rand()%99 may yield
  End         \* the past-the-end iterator; also: no connection

Conns == 1..MaxConns

ASSUME ConnsAssumption == MaxConns \in Nat

ASSUME NumbersAssumption == Numbers \subseteq Nat /\ Numbers # {}

ASSUME EndAssumption == End \notin Nat

\* A thread of a connection: its receiver or its heartbeat.
Threads == Conns \X {"recv", "beat"}

VARIABLES
  process,     \* "up" or "dead"
  accepted,    \* connections 1..accepted were accepted
  starting,    \* the connection acceptConn has inserted and not started, or End
  number,      \* connectionID_
  listed,      \* the connections whose nodes are in connStorage_
  recvStatus,  \* recvStatus_
  peer,        \* "open", or "lost" once the client is gone
  pc, it,      \* program counter and iterator of each thread
  ordered,     \* the clients orders of which the system holds
  \* history
  owner,       \* the connections whose insertion found their number free
  raced        \* whether a dangling iterator was ever used

connVars == <<accepted, starting, number, listed, owner>>
vars == <<process, connVars, recvStatus, peer, pc, it, ordered, raced>>

Crash == process' = "dead"
Walking(w) == pc[w] \in {"test", "erase", "step", "spin"}

Keyed(n) == {c \in listed : number[c] = n}
First == IF listed = {} THEN End
         ELSE CHOOSE c \in listed : \A d \in listed : number[c] <= number[d]
Following(c) ==
  LET later == {d \in listed : number[d] > number[c]}
  IN  IF later = {} THEN End
      ELSE CHOOSE d \in later : \A e \in later : number[d] <= number[e]
Dangling(w) == it[w] \notin listed \cup {End}

Init ==
  /\ process = "up"
  /\ accepted = 0 /\ starting = End
  /\ number = [c \in Conns |-> 0] /\ listed = {}
  /\ recvStatus = [c \in Conns |-> TRUE]
  /\ peer = [c \in Conns |-> "open"]
  /\ pc = [w \in Threads |-> "off"] /\ it = [w \in Threads |-> End]
  /\ ordered = {}
  /\ owner = {} /\ raced = FALSE

-------------------------------------------------------------------------------
(* acceptConn *)

\* Mutant: connStorage_[space] = cn instead of an insert.
Overwrite(c, n) ==
  /\ listed' = (listed \ {d \in listed : number[d] = n}) \cup {c}
  /\ owner' = IF Keyed(n) = {} THEN owner \cup {c} ELSE owner

\* Mutant: the connection is not put in the map.
InsertNothing(c, n) == UNCHANGED <<listed, owner>>

\* map::insert leaves a node with the same key alone.
InsertNode(c, n) ==
  IF Keyed(n) = {}
  THEN listed' = listed \cup {c} /\ owner' = owner \cup {c}
  ELSE UNCHANGED <<listed, owner>>

\* A new node may take the memory of a node that was erased: iterators that
\* dangle there point at the new node then.
ReuseMemory(c) ==
  \E f \in {it[w] : w \in {v \in Threads : Dangling(v)}} \cup {End} :
    IF f # End /\ c \in listed'
    THEN it' = [w \in Threads |-> IF it[w] = f THEN c ELSE it[w]] /\ raced' = TRUE
    ELSE UNCHANGED <<it, raced>>

AcceptConn(n) ==
  LET c == accepted + 1
  IN  /\ process = "up" /\ starting = End /\ accepted < MaxConns
      /\ accepted' = c /\ starting' = c
      /\ number' = [number EXCEPT ![c] = n]
      /\ InsertNode(c, n)
      /\ ReuseMemory(c)
      /\ UNCHANGED <<process, recvStatus, peer, pc, ordered>>

StartThreads ==
  /\ process = "up" /\ starting # End
  /\ pc' = [w \in Threads |-> IF w[1] = starting THEN "run" ELSE pc[w]]
  /\ starting' = End
  /\ UNCHANGED <<process, accepted, number, listed, owner, recvStatus, peer, it,
                 ordered, raced>>

-------------------------------------------------------------------------------
(* Sending *)

\* A client leaves or its network fails.
LosePeer(c) ==
  /\ process = "up" /\ peer[c] = "open" /\ c <= accepted
  /\ peer' = [peer EXCEPT ![c] = "lost"]
  /\ UNCHANGED <<process, connVars, recvStatus, pc, it, ordered, raced>>

\* Connection::sendto.  To a lost client the send still succeeds, fails, or
\* raises SIGPIPE, which nobody handles.
sendto(c) ==
  \/ UNCHANGED <<process, recvStatus>>
  \/ /\ peer[c] = "lost"
     /\ \/ /\ recvStatus' = [recvStatus EXCEPT ![c] = FALSE]
           /\ UNCHANGED process
        \/ Crash /\ UNCHANGED recvStatus

\* connStorage_[connNum] of a number that is not there is a null pointer, and
\* both callers go through it.
Unknown(c) == Keyed(number[c]) = {} /\ Crash /\ UNCHANGED recvStatus

\* sendToClient, for the number of connection c.
sendToClient(c) == Unknown(c) \/ \E d \in Keyed(number[c]) : sendto(d)

\* getConnObject, for the number of connection c.
getConnObject(c) ==
  Unknown(c) \/ (Keyed(number[c]) # {} /\ UNCHANGED <<process, recvStatus>>)

\* The order entry thread tests a balance, and any thread of the trader sends an
\* answer or a notice, as long as there are orders of client c.
UseNumber(c) ==
  /\ process = "up" /\ c \in ordered
  /\ getConnObject(c) \/ sendToClient(c)
  /\ UNCHANGED <<connVars, peer, pc, it, ordered, raced>>

-------------------------------------------------------------------------------
(* The threads of a connection *)

\* msgRecv receives an order, or a price request, which the receiver answers
\* itself.
ReceiveMessage(c) ==
  /\ process = "up" /\ pc[<<c, "recv">>] = "run"
  /\ peer[c] = "open" /\ recvStatus[c]
  /\ \/ ordered' = ordered \cup {c} /\ UNCHANGED <<process, recvStatus>>
     \/ sendToClient(c) /\ UNCHANGED ordered
  /\ UNCHANGED <<connVars, peer, pc, it, raced>>

\* Mutant: the walk begins behind the thread's own connection.
StartBehind(w) ==
  /\ pc' = [pc EXCEPT ![w] = "test"]
  /\ it' = [it EXCEPT ![w] = Following(w[1])]

\* Thread w calls freeEmptysocket.
StartWalk(w) ==
  /\ pc' = [pc EXCEPT ![w] = "test"]
  /\ it' = [it EXCEPT ![w] = First]

\* recv fails, or recvfrom finds that a send has failed.
EndReceive(c) ==
  /\ process = "up" /\ pc[<<c, "recv">>] = "run"
  /\ peer[c] = "lost"
  /\ recvStatus' = [recvStatus EXCEPT ![c] = FALSE]
  /\ StartWalk(<<c, "recv">>)
  /\ UNCHANGED <<process, connVars, peer, ordered, raced>>

\* heartbeat: a send, and the walk when the connection turns out to be lost.
Heartbeat(c) ==
  /\ process = "up" /\ pc[<<c, "beat">>] = "run"
  /\ sendto(c)
  /\ IF process' = "up" /\ ~recvStatus'[c] THEN StartWalk(<<c, "beat">>)
     ELSE UNCHANGED <<pc, it>>
  /\ UNCHANGED <<connVars, peer, ordered, raced>>

-------------------------------------------------------------------------------
(* freeEmptysocket *)

\* What an access through a dangling iterator may do: end the process, or take
\* what is found there for a node, and so get to any place in the map.
GoAnywhere(w) ==
  /\ raced' = TRUE
  /\ \/ Crash /\ UNCHANGED <<pc, it>>
     \/ /\ \E i \in listed \cup {End} : it' = [it EXCEPT ![w] = i]
        /\ pc' = [pc EXCEPT ![w] = "test"]
        /\ UNCHANGED process

Proceed(w, place, i) ==
  /\ pc' = [pc EXCEPT ![w] = place] /\ it' = [it EXCEPT ![w] = i]
  /\ UNCHANGED <<process, raced>>

walkFrame == <<recvStatus, peer, ordered, accepted, starting, number, owner>>

\* The end of the loop, or getRecvStatus of the connection.
WalkTest(w) ==
  /\ process = "up" /\ pc[w] = "test"
  /\ IF Dangling(w) THEN GoAnywhere(w)
     ELSE Proceed(w, IF it[w] = End THEN "done"
                     ELSE IF recvStatus[it[w]] THEN "step" ELSE "erase", it[w])
  /\ UNCHANGED <<walkFrame, listed>>

\* Mutant: the lost node is kept, and the walk begins again.
KeepLost(w) ==
  /\ process = "up" /\ pc[w] = "erase"
  /\ Proceed(w, "test", First)
  /\ UNCHANGED <<walkFrame, listed>>

\* Mutant: the connection after the lost one is erased.
EraseNext(w) ==
  /\ process = "up" /\ pc[w] = "erase"
  /\ IF it[w] \in listed
     THEN Proceed(w, "step", Following(it[w])) /\ listed' = listed \ {Following(it[w])}
     ELSE GoAnywhere(w) /\ UNCHANGED listed
  /\ UNCHANGED walkFrame

\* it = connStorage_.erase(it), under the lock.
WalkErase(w) ==
  /\ process = "up" /\ pc[w] = "erase"
  /\ IF it[w] \in listed
     THEN Proceed(w, "step", Following(it[w])) /\ listed' = listed \ {it[w]}
     ELSE GoAnywhere(w) /\ UNCHANGED listed
  /\ UNCHANGED walkFrame

\* ++end() goes down from the last node: to it, or to the node before it when
\* that is its left child.
PastEnd ==
  LET last == {c \in listed : Following(c) = End}
  IN  last \cup {c \in listed : Following(c) \in last}

\* ++it, also after an erasure, which has moved it already.  In an empty map
\* ++end() never returns.
WalkStep(w) ==
  /\ process = "up" /\ pc[w] = "step"
  /\ IF Dangling(w) THEN GoAnywhere(w)
     ELSE IF it[w] # End THEN Proceed(w, "test", Following(it[w]))
     ELSE IF listed = {} THEN Proceed(w, "spin", End)
     ELSE \E c \in PastEnd : Proceed(w, "test", c)
  /\ UNCHANGED <<walkFrame, listed>>

\* Unless a connection is accepted meanwhile.
WalkSpin(w) ==
  /\ process = "up" /\ pc[w] = "spin" /\ listed # {}
  /\ Proceed(w, "test", First)
  /\ UNCHANGED <<walkFrame, listed>>

freeEmptysocket(w) == WalkTest(w) \/ WalkErase(w) \/ WalkStep(w) \/ WalkSpin(w)

-------------------------------------------------------------------------------
Next ==
  \/ \E n \in Numbers : AcceptConn(n)
  \/ StartThreads
  \/ \E c \in Conns :
       \/ LosePeer(c) \/ UseNumber(c)
       \/ ReceiveMessage(c) \/ EndReceive(c) \/ Heartbeat(c)
  \/ \E w \in Threads : freeEmptysocket(w)

Spec == Init /\ [][Next]_vars

\* Every thread is scheduled, recv returns for a client that is gone, and the
\* heartbeats to it, one every ten seconds, fail once TCP gives up.  Nobody has to
\* connect, order or leave.
FairSpec ==
  /\ Spec
  /\ WF_vars(StartThreads)
  /\ \A c \in Conns : WF_vars(EndReceive(c)) /\ WF_vars(Heartbeat(c))
  /\ \A w \in Threads : WF_vars(freeEmptysocket(w))

-------------------------------------------------------------------------------
\* The shape of the state: no number is in the map twice, what is in the map
\* was accepted, and only threads that were started have left their place.
ConnTypeOK ==
  /\ process \in {"up", "dead"} /\ accepted \in 0..MaxConns
  /\ starting \in {End, accepted}
  /\ number \in [Conns -> Numbers \cup {0}]
  /\ listed \subseteq owner /\ owner \subseteq 1..accepted
  /\ \A c, d \in listed : number[c] = number[d] => c = d
  /\ recvStatus \in [Conns -> BOOLEAN] /\ peer \in [Conns -> {"open", "lost"}]
  /\ pc \in [Threads -> {"off", "run", "test", "erase", "step", "spin", "done"}]
  /\ it \in [Threads -> Conns \cup {End}]
  /\ ordered \subseteq 1..accepted
  /\ \A w \in Threads : pc[w] # "off" => w[1] \in 1..accepted /\ w[1] # starting

\* The server goes down only after some client was lost: an order cannot be
\* answered before its connection is in the map, and no walk frees a live one.
DiesOnlyForLost == process = "dead" => \E c \in Conns : peer[c] = "lost"

\* A client whose number was free when it connected, and which was not given up,
\* is the one found by that number: it gets its answers and nobody's else, whoever
\* connects or leaves and however the walks skip, until a dangling iterator is
\* used.
KnownByNumber ==
  \A c \in owner : recvStatus[c] => Keyed(number[c]) = {c} \/ raced

\* The connection of a client that is gone is taken off although every erasure
\* skips a neighbour: whoever is skipped still walks from the first node himself.
LostFreed ==
  \A c \in Conns : (c \in listed /\ peer[c] = "lost") ~>
                     (c \notin listed \/ process = "dead" \/ raced)

\* A walk ends although ++ on the past-the-end iterator leads back into the map,
\* unless the map is left empty.
WalkEnds ==
  \A w \in Threads : Walking(w) ~> (~Walking(w) \/ listed = {} \/ process = "dead" \/ raced)
===============================================================================
