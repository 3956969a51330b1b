---------------------------- MODULE ConnTableProofs ----------------------------
(***************************************************************************)
(* Theorems about ConnTable, for any number of connections and whatever    *)
(* numbers rand()%99 yields.                                               *)
(*                                                                         *)
(* A node is erased only while its connection counts as lost (EraseInv),   *)
(* so a connection that was put in the map stays there until it does       *)
(* (OwnerInv); and as long as no client was lost nobody walks and every    *)
(* number that was given is in the map (CalmInv).                          *)
(***************************************************************************)
EXTENDS ConnTable, WellFoundedInduction, TLAPS

\* The node a thread is about to erase is one of a lost connection.
EraseInv ==
  \A w \in Threads : pc[w] = "erase" => raced \/ (it[w] \in Conns /\ ~recvStatus[it[w]])

\* A connection that was put in the map is there until it counts as lost.
OwnerInv == \A c \in owner : recvStatus[c] => raced \/ c \in listed

\* While every client is there, nothing has gone.
CalmInv ==
  (\A c \in Conns : peer[c] = "open") =>
    /\ process = "up"
    /\ \A c \in Conns : recvStatus[c]
    /\ \A w \in Threads : pc[w] \in {"off", "run"}
    /\ \A c \in 1..accepted : Keyed(number[c]) # {}

ConnInv == ConnTypeOK /\ EraseInv /\ OwnerInv /\ CalmInv

-------------------------------------------------------------------------------
(* The order of the map *)

\* A set of natural numbers has a least element.
LEMMA LeastNumber ==
  ASSUME NEW T \in SUBSET Nat, T # {}
  PROVE  \E x \in T : \A y \in T : x <= y
<1>1. PICK x \in T : \A y \in T : ~(<<y, x>> \in OpToRel(<, Nat))
  BY NatLessThanWellFounded, WFMin
<1>2. \A y \in T : ~(y < x)
  BY <1>1 DEF OpToRel
<1> QED
  BY <1>2

\* What is in the map are connections, with numbers.
LEMMA Members ==
  ASSUME ConnTypeOK
  PROVE  /\ 1..accepted \subseteq Conns /\ owner \subseteq Conns /\ listed \subseteq Conns
         /\ \A c \in Conns : number[c] \in Nat
<1>1. 1..accepted \subseteq Conns
  BY ConnsAssumption DEF ConnTypeOK, Conns
<1>2. \A c \in Conns : number[c] \in Numbers \cup {0}
  BY DEF ConnTypeOK
<1>3. Numbers \cup {0} \subseteq Nat
  BY NumbersAssumption
<1> QED
  BY <1>1, <1>2, <1>3 DEF ConnTypeOK

\* Some connections of the map have a first one among them.
LEMMA LeastConn ==
  ASSUME ConnTypeOK, NEW S \in SUBSET listed, S # {}
  PROVE  \E c \in S : \A d \in S : number[c] <= number[d]
<1> DEFINE T == {number[c] : c \in S}
<1>1. T \in SUBSET Nat /\ T # {}
  BY Members
<1>2. PICK x \in T : \A y \in T : x <= y
  BY <1>1, LeastNumber
<1> QED
  BY <1>2

\* So an iterator is in the map or past its end.
LEMMA IteratorTypes ==
  ASSUME ConnTypeOK
  PROVE  /\ First \in listed \cup {End}
         /\ \A c : Following(c) \in listed \cup {End}
         /\ PastEnd \subseteq listed
<1>1. First \in listed \cup {End}
  <2>1. CASE listed = {}
    BY <2>1 DEF First
  <2>2. CASE listed # {}
    <3>1. \E c \in listed : \A d \in listed : number[c] <= number[d]
      BY <2>2, LeastConn
    <3> QED
      BY <2>2, <3>1 DEF First
  <2> QED
    BY <2>1, <2>2
<1>2. ASSUME NEW c PROVE Following(c) \in listed \cup {End}
  <2> DEFINE later == {d \in listed : number[d] > number[c]}
  <2>1. CASE later = {}
    BY <2>1 DEF Following
  <2>2. CASE later # {}
    <3>1. \E d \in later : \A e \in later : number[d] <= number[e]
      BY <2>2, LeastConn
    <3> QED
      BY <2>2, <3>1 DEF Following
  <2> QED
    BY <2>1, <2>2
<1> QED
  BY <1>1, <1>2 DEF PastEnd

-------------------------------------------------------------------------------
(* What the actions leave alone *)

\* recvStatus only ever goes from TRUE to FALSE.
Weaker == /\ recvStatus' \in [Conns -> BOOLEAN]
          /\ \A c \in Conns : recvStatus'[c] => recvStatus[c]

\* A send to a connection changes nothing while its client is there.
LEMMA SendEffect ==
  ASSUME ConnTypeOK, NEW c \in Conns, sendto(c)
  PROVE  /\ Weaker /\ process' \in {"up", "dead"}
         /\ peer[c] = "open" => process' = process /\ recvStatus' = recvStatus
<1>1. CASE UNCHANGED <<process, recvStatus>>
  BY <1>1 DEF ConnTypeOK, Weaker
<1>2. CASE /\ peer[c] = "lost" /\ UNCHANGED process
           /\ recvStatus' = [recvStatus EXCEPT ![c] = FALSE]
  BY <1>2 DEF ConnTypeOK, Weaker
<1>3. CASE peer[c] = "lost" /\ Crash /\ UNCHANGED recvStatus
  BY <1>3 DEF ConnTypeOK, Weaker, Crash
<1> QED
  BY <1>1, <1>2, <1>3 DEF sendto

\* Nor does a look-up while every client is there and the number is known.
LEMMA LookUpEffect ==
  ASSUME ConnTypeOK, NEW c \in Conns, getConnObject(c) \/ sendToClient(c)
  PROVE  /\ Weaker /\ process' \in {"up", "dead"}
         /\ (\A d \in Conns : peer[d] = "open") /\ Keyed(number[c]) # {}
              => process' = process /\ recvStatus' = recvStatus
<1>1. CASE Unknown(c)
  BY <1>1 DEF Unknown, Crash, ConnTypeOK, Weaker
<1>2. CASE UNCHANGED <<process, recvStatus>>
  BY <1>2 DEF ConnTypeOK, Weaker
<1>3. CASE \E d \in Keyed(number[c]) : sendto(d)
  <2>1. PICK d \in Keyed(number[c]) : sendto(d)
    BY <1>3
  <2>2. d \in Conns
    BY Members DEF Keyed
  <2> QED
    BY <2>1, <2>2, SendEffect
<1> QED
  BY <1>1, <1>2, <1>3 DEF getConnObject, sendToClient

\* What an action of a client, an order or a sender touches.
LEMMA SendFrame ==
  ASSUME ConnTypeOK, NEW c \in Conns, UseNumber(c) \/ ReceiveMessage(c)
  PROVE  /\ Weaker /\ process' \in {"up", "dead"}
         /\ ordered' \subseteq 1..accepted
         /\ UNCHANGED <<connVars, peer, pc, it, raced>>
         /\ (\A d \in Conns : peer[d] = "open") /\ (\A d \in 1..accepted : Keyed(number[d]) # {})
              => process' = process /\ recvStatus' = recvStatus
<1>1. CASE UseNumber(c)
  <2>1. c \in 1..accepted
    BY <1>1 DEF UseNumber, ConnTypeOK
  <2> QED
    BY <1>1, <2>1, LookUpEffect DEF UseNumber, ConnTypeOK
<1>2. CASE ReceiveMessage(c)
  <2>1. c \in 1..accepted
    <3>1. <<c, "recv">> \in Threads /\ pc[<<c, "recv">>] # "off"
      BY <1>2 DEF ReceiveMessage, Threads
    <3> QED
      BY <3>1 DEF ConnTypeOK
  <2>2. CASE ordered' = ordered \cup {c} /\ UNCHANGED <<process, recvStatus>>
    BY <1>2, <2>1, <2>2 DEF ReceiveMessage, ConnTypeOK, Weaker
  <2>3. CASE sendToClient(c) /\ UNCHANGED ordered
    BY <1>2, <2>1, <2>3, LookUpEffect DEF ReceiveMessage, ConnTypeOK
  <2> QED
    BY <1>2, <2>2, <2>3 DEF ReceiveMessage
<1> QED
  BY <1>1, <1>2

\* Where a step of a walk may take its thread.
Labels == {"test", "erase", "step", "spin", "done"}
Moves(w) ==
  \/ UNCHANGED <<pc, it>>
  \/ \E l \in Labels, i \in Conns \cup {End} :
       /\ pc' = [pc EXCEPT ![w] = l] /\ it' = [it EXCEPT ![w] = i]
       /\ l = "erase" => i \in Conns /\ ~recvStatus[i]

\* An access through a dangling iterator.
LEMMA AnywhereEffect ==
  ASSUME ConnTypeOK, NEW w \in Threads, process = "up", GoAnywhere(w)
  PROVE  Moves(w) /\ process' \in {"up", "dead"} /\ raced'
<1>1. CASE Crash /\ UNCHANGED <<pc, it>>
  BY <1>1 DEF GoAnywhere, Crash, Moves
<1>2. CASE /\ \E i \in listed \cup {End} : it' = [it EXCEPT ![w] = i]
           /\ pc' = [pc EXCEPT ![w] = "test"]
           /\ UNCHANGED process
  <2>1. PICK i \in listed \cup {End} : it' = [it EXCEPT ![w] = i]
    BY <1>2
  <2>2. i \in Conns \cup {End}
    BY Members
  <2> QED
    BY <1>2, <2>1, <2>2 DEF GoAnywhere, Moves, Labels
<1> QED
  BY <1>1, <1>2 DEF GoAnywhere

\* A walk moves its own thread, erases at most the node of a lost connection, and
\* is nothing but a walk.
LEMMA WalkFrame ==
  ASSUME ConnTypeOK, EraseInv, NEW w \in Threads, freeEmptysocket(w)
  PROVE  /\ UNCHANGED walkFrame /\ Moves(w)
         /\ process' \in {"up", "dead"} /\ (raced => raced') /\ Walking(w)
         /\ listed' \subseteq listed
         /\ \A c \in listed : c \in listed' \/ raced \/ ~recvStatus[c]
<1> USE DEF Walking
<1>1. CASE WalkTest(w)
  <2>1. CASE Dangling(w)
    BY <1>1, <2>1, AnywhereEffect DEF WalkTest, GoAnywhere
  <2>2. CASE ~Dangling(w)
    <3> DEFINE l == IF it[w] = End THEN "done"
                    ELSE IF recvStatus[it[w]] THEN "step" ELSE "erase"
    <3>1. it[w] \in Conns \cup {End}
      BY DEF ConnTypeOK
    <3>2. pc' = [pc EXCEPT ![w] = l] /\ it' = [it EXCEPT ![w] = it[w]]
      BY <1>1, <2>2 DEF WalkTest, Proceed
    <3>3. l \in Labels /\ (l = "erase" => it[w] \in Conns /\ ~recvStatus[it[w]])
      BY <3>1 DEF Labels
    <3>4. Moves(w)
      BY <3>1, <3>2, <3>3 DEF Moves
    <3> QED
      BY <1>1, <2>2, <3>4 DEF WalkTest, Proceed
  <2> QED
    BY <2>1, <2>2
<1>2. CASE WalkErase(w)
  <2>1. CASE it[w] \in listed
    <3>1. Following(it[w]) \in Conns \cup {End}
      BY IteratorTypes, Members
    <3>2. Moves(w)
      BY <1>2, <2>1, <3>1 DEF WalkErase, Proceed, Moves, Labels
    <3>3. raced \/ ~recvStatus[it[w]]
      BY <1>2 DEF WalkErase, EraseInv
    <3> QED
      BY <1>2, <2>1, <3>2, <3>3 DEF WalkErase, Proceed
  <2>2. CASE it[w] \notin listed
    BY <1>2, <2>2, AnywhereEffect DEF WalkErase, GoAnywhere
  <2> QED
    BY <2>1, <2>2
<1>3. CASE WalkStep(w)
  <2>1. CASE Dangling(w)
    BY <1>3, <2>1, AnywhereEffect DEF WalkStep, GoAnywhere
  <2>2. CASE ~Dangling(w)
    <3>1. \E l \in Labels \ {"erase"}, i \in Conns \cup {End} : Proceed(w, l, i)
      <4>1. CASE it[w] # End
        BY <1>3, <2>2, <4>1, IteratorTypes, Members DEF WalkStep, Labels
      <4>2. CASE it[w] = End /\ listed = {}
        BY <1>3, <2>2, <4>2 DEF WalkStep, Labels
      <4>3. CASE it[w] = End /\ listed # {}
        <5>1. PICK c \in PastEnd : Proceed(w, "test", c)
          BY <1>3, <2>2, <4>3 DEF WalkStep
        <5>2. c \in Conns
          BY IteratorTypes, Members
        <5> QED
          BY <5>1, <5>2 DEF Labels
      <4> QED
        BY <4>1, <4>2, <4>3
    <3>2. PICK l \in Labels \ {"erase"}, i \in Conns \cup {End} : Proceed(w, l, i)
      BY <3>1
    <3>3. Moves(w)
      BY <3>2 DEF Proceed, Moves
    <3> QED
      BY <1>3, <2>2, <3>2, <3>3 DEF WalkStep, Proceed
  <2> QED
    BY <2>1, <2>2
<1>4. CASE WalkSpin(w)
  <2>1. First \in Conns \cup {End}
    BY IteratorTypes, Members
  <2>2. Moves(w)
    BY <1>4, <2>1 DEF WalkSpin, Proceed, Moves, Labels
  <2> QED
    BY <1>4, <2>2 DEF WalkSpin, Proceed
<1> QED
  BY <1>1, <1>2, <1>3, <1>4 DEF freeEmptysocket

\* A new connection comes behind the others, and moves an iterator only where that
\* dangled.
LEMMA AcceptFrame ==
  ASSUME ConnTypeOK, NEW n \in Numbers, AcceptConn(n), NEW c, c = accepted + 1
  PROVE  /\ c \in Conns /\ c \notin owner /\ c \notin listed /\ starting = End
         /\ accepted' = c /\ starting' = c /\ number' = [number EXCEPT ![c] = n]
         /\ \/ Keyed(n) = {} /\ listed' = listed \cup {c} /\ owner' = owner \cup {c}
            \/ Keyed(n) # {} /\ UNCHANGED <<listed, owner>>
         /\ it' \in [Threads -> Conns \cup {End}]
         /\ UNCHANGED it \/ raced'
         /\ (raced => raced')
         /\ UNCHANGED <<process, recvStatus, peer, pc, ordered>>
<1>1. c \in Conns /\ c \notin owner /\ c \notin listed
  BY ConnsAssumption DEF AcceptConn, ConnTypeOK, Conns
<1>2. it' \in [Threads -> Conns \cup {End}] /\ (UNCHANGED it \/ raced') /\ (raced => raced')
  <2>1. ReuseMemory(c)
    BY DEF AcceptConn
  <2>2. CASE UNCHANGED <<it, raced>>
    BY <2>2 DEF ConnTypeOK
  <2>3. CASE \E f : it' = [w \in Threads |-> IF it[w] = f THEN c ELSE it[w]] /\ raced' = TRUE
    BY <1>1, <2>3 DEF ConnTypeOK
  <2> QED
    BY <2>1, <2>2, <2>3 DEF ReuseMemory
<1> QED
  BY <1>1, <1>2 DEF AcceptConn, InsertNode

-------------------------------------------------------------------------------
(* The invariant *)

\* The empty map satisfies the invariant.
LEMMA ConnInit == Init => ConnInv
<1> SUFFICES ASSUME Init PROVE ConnInv
  OBVIOUS
<1>1. ConnTypeOK
  BY ConnsAssumption, EndAssumption DEF Init, ConnTypeOK, Threads, Conns
<1>2. EraseInv /\ OwnerInv
  BY DEF Init, EraseInv, OwnerInv
<1>3. CalmInv
  BY DEF Init, CalmInv
<1> QED
  BY <1>1, <1>2, <1>3 DEF ConnInv

\* ConnTypeOK is inductive.
LEMMA TypeStep ==
  ASSUME ConnInv, [Next]_vars
  PROVE  ConnTypeOK'
<1> USE DEF ConnInv
<1>0. CASE UNCHANGED vars
  BY <1>0 DEF vars, connVars, ConnTypeOK
<1>1. ASSUME NEW n \in Numbers, AcceptConn(n) PROVE ConnTypeOK'
  <2> DEFINE c == accepted + 1
  <2>1. /\ c \in Conns /\ c \notin owner /\ c \notin listed /\ starting = End
        /\ accepted' = c /\ starting' = c /\ number' = [number EXCEPT ![c] = n]
        /\ \/ Keyed(n) = {} /\ listed' = listed \cup {c} /\ owner' = owner \cup {c}
           \/ Keyed(n) # {} /\ UNCHANGED <<listed, owner>>
        /\ it' \in [Threads -> Conns \cup {End}]
        /\ UNCHANGED <<process, recvStatus, peer, pc, ordered>>
    BY <1>1, AcceptFrame
  <2>2. accepted \in Nat /\ c \in 0..MaxConns /\ 1..accepted \subseteq 1..c /\ c \in 1..c
    BY <2>1, ConnsAssumption DEF ConnTypeOK, Conns
  <2>3. number' \in [Conns -> Numbers \cup {0}]
    BY <2>1 DEF ConnTypeOK
  <2>4. \A d, e \in listed' : number'[d] = number'[e] => d = e
    <3>1. \A d \in listed : number'[d] = number[d] /\ d # c
      BY <2>1, Members DEF ConnTypeOK
    <3>2. number'[c] = n
      BY <2>1 DEF ConnTypeOK
    <3>3. \A d, e \in listed : number[d] = number[e] => d = e
      BY DEF ConnTypeOK
    <3>4. c \in listed' => listed' = listed \cup {c} /\ \A d \in listed : number[d] # n
      BY <2>1 DEF Keyed
    <3>5. listed' \subseteq listed \cup {c}
      BY <2>1
    <3> HIDE DEF c
    <3> QED
      BY <3>1, <3>2, <3>3, <3>4, <3>5
  <2>5. \A w \in Threads : pc[w] # "off" => w[1] \in 1..c /\ w[1] # c
    BY <2>2 DEF ConnTypeOK
  <2>6. listed' \subseteq owner' /\ owner' \subseteq 1..c /\ ordered \subseteq 1..c
    BY <2>1, <2>2 DEF ConnTypeOK
  <2> HIDE DEF c
  <2> QED
    BY <2>1, <2>2, <2>3, <2>4, <2>5, <2>6 DEF ConnTypeOK
<1>2. CASE StartThreads
  <2>1. starting = accepted /\ starting # End
    BY <1>2 DEF StartThreads, ConnTypeOK
  <2>2. \A w \in Threads : pc'[w] # "off" => w[1] \in 1..accepted /\ w[1] # End
    <3> SUFFICES ASSUME NEW w \in Threads, pc'[w] # "off"
                 PROVE  w[1] \in 1..accepted /\ w[1] # End
      OBVIOUS
    <3>1. w[1] \in 1..MaxConns
      BY DEF Threads, Conns
    <3>2. w[1] \in 1..accepted
      <4>1. CASE w[1] = starting
        BY <2>1, <3>1, <4>1, ConnsAssumption DEF ConnTypeOK
      <4>2. CASE w[1] # starting
        BY <1>2, <4>2 DEF StartThreads, ConnTypeOK
      <4> QED
        BY <4>1, <4>2
    <3> QED
      BY <3>1, <3>2, EndAssumption, ConnsAssumption
  <2>3. pc' \in [Threads -> {"off", "run", "test", "erase", "step", "spin", "done"}]
    BY <1>2 DEF StartThreads, ConnTypeOK
  <2> QED
    BY <1>2, <2>2, <2>3 DEF StartThreads, ConnTypeOK
<1>3. ASSUME NEW c \in Conns, LosePeer(c) PROVE ConnTypeOK'
  BY <1>3 DEF LosePeer, connVars, ConnTypeOK
<1>4. ASSUME NEW c \in Conns, UseNumber(c) \/ ReceiveMessage(c) PROVE ConnTypeOK'
  BY <1>4, SendFrame DEF connVars, ConnTypeOK, Weaker
<1>5. ASSUME NEW c \in Conns, EndReceive(c) PROVE ConnTypeOK'
  <2>1. <<c, "recv">> \in Threads /\ First \in Conns \cup {End}
    BY IteratorTypes, Members DEF Threads
  <2> QED
    BY <1>5, <2>1 DEF EndReceive, StartWalk, connVars, ConnTypeOK
<1>6. ASSUME NEW c \in Conns, Heartbeat(c) PROVE ConnTypeOK'
  <2>1. <<c, "beat">> \in Threads /\ First \in Conns \cup {End}
    BY IteratorTypes, Members DEF Threads
  <2>2. Weaker /\ process' \in {"up", "dead"}
    BY <1>6, SendEffect DEF Heartbeat
  <2>3. CASE UNCHANGED <<pc, it>>
    BY <1>6, <2>2, <2>3 DEF Heartbeat, connVars, ConnTypeOK, Weaker
  <2>4. CASE StartWalk(<<c, "beat">>)
    BY <1>6, <2>1, <2>2, <2>4 DEF Heartbeat, StartWalk, connVars, ConnTypeOK, Weaker
  <2> QED
    BY <1>6, <2>3, <2>4 DEF Heartbeat
<1>7. ASSUME NEW w \in Threads, freeEmptysocket(w) PROVE ConnTypeOK'
  <2>1. UNCHANGED walkFrame /\ Moves(w) /\ process' \in {"up", "dead"} /\ Walking(w)
        /\ listed' \subseteq listed
    BY <1>7, WalkFrame
  <2>2. pc' \in [Threads -> {"off", "run", "test", "erase", "step", "spin", "done"}]
        /\ it' \in [Threads -> Conns \cup {End}]
    BY <2>1 DEF Moves, Labels, ConnTypeOK
  <2>3. \A v \in Threads : pc'[v] # "off" => pc[v] # "off"
    BY <2>1 DEF Moves, Walking, ConnTypeOK
  <2>4. listed' \subseteq owner
    BY <2>1 DEF ConnTypeOK
  <2>5. \A c, d \in listed' : number[c] = number[d] => c = d
    BY <2>1 DEF ConnTypeOK
  <2> QED
    BY <2>1, <2>2, <2>3, <2>4, <2>5 DEF walkFrame, ConnTypeOK
<1> QED
  BY <1>0, <1>1, <1>2, <1>3, <1>4, <1>5, <1>6, <1>7 DEF Next

\* A thread gets to an erasure only past the test, and nothing makes a lost
\* connection count as live.
LEMMA EraseStep ==
  ASSUME ConnInv, [Next]_vars
  PROVE  EraseInv'
<1> SUFFICES ASSUME NEW w \in Threads, pc'[w] = "erase"
             PROVE  raced' \/ (it'[w] \in Conns /\ ~recvStatus'[it'[w]])
  BY DEF EraseInv
<1> USE DEF ConnInv
<1>0. pc[w] = "erase" => raced \/ (it[w] \in Conns /\ ~recvStatus[it[w]])
  BY DEF EraseInv
<1>1. CASE UNCHANGED vars
  BY <1>0, <1>1 DEF vars
<1>2. ASSUME NEW n \in Numbers, AcceptConn(n) PROVE raced' \/ (it'[w] \in Conns /\ ~recvStatus'[it'[w]])
  BY <1>0, <1>2, AcceptFrame
<1>3. CASE StartThreads
  BY <1>0, <1>3 DEF StartThreads, ConnTypeOK
<1>4. ASSUME NEW c \in Conns, LosePeer(c) PROVE raced' \/ (it'[w] \in Conns /\ ~recvStatus'[it'[w]])
  BY <1>0, <1>4 DEF LosePeer
<1>5. ASSUME NEW c \in Conns, UseNumber(c) \/ ReceiveMessage(c)
      PROVE raced' \/ (it'[w] \in Conns /\ ~recvStatus'[it'[w]])
  BY <1>0, <1>5, SendFrame DEF Weaker
<1>6. ASSUME NEW c \in Conns, EndReceive(c) PROVE raced' \/ (it'[w] \in Conns /\ ~recvStatus'[it'[w]])
  BY <1>0, <1>6 DEF EndReceive, StartWalk, ConnTypeOK
<1>7. ASSUME NEW c \in Conns, Heartbeat(c) PROVE raced' \/ (it'[w] \in Conns /\ ~recvStatus'[it'[w]])
  <2>1. Weaker
    BY <1>7, SendEffect DEF Heartbeat
  <2>2. pc[w] = "erase" /\ it'[w] = it[w] /\ raced' = raced
    BY <1>7 DEF Heartbeat, StartWalk, ConnTypeOK
  <2> QED
    BY <1>0, <2>1, <2>2 DEF Weaker
<1>8. ASSUME NEW v \in Threads, freeEmptysocket(v) PROVE raced' \/ (it'[w] \in Conns /\ ~recvStatus'[it'[w]])
  <2>1. UNCHANGED recvStatus /\ Moves(v) /\ (raced => raced')
    BY <1>8, WalkFrame DEF walkFrame
  <2>2. CASE v = w
    BY <1>0, <2>1, <2>2 DEF Moves, ConnTypeOK
  <2>3. CASE v # w
    BY <1>0, <2>1, <2>3 DEF Moves, ConnTypeOK
  <2> QED
    BY <2>2, <2>3
<1> QED
  BY <1>1, <1>2, <1>3, <1>4, <1>5, <1>6, <1>7, <1>8 DEF Next

\* What is in the map leaves it only by an erasure.
LEMMA OwnerStep ==
  ASSUME ConnInv, [Next]_vars
  PROVE  OwnerInv'
<1> USE DEF ConnInv
<1>0. \A c \in owner : c \in Conns /\ (recvStatus[c] => raced \/ c \in listed)
  BY Members DEF OwnerInv
<1>1. CASE UNCHANGED vars
  BY <1>0, <1>1 DEF vars, connVars, OwnerInv
<1>2. ASSUME NEW n \in Numbers, AcceptConn(n) PROVE OwnerInv'
  BY <1>0, <1>2, AcceptFrame DEF OwnerInv
<1>3. CASE StartThreads
  BY <1>0, <1>3 DEF StartThreads, OwnerInv
<1>4. ASSUME NEW c \in Conns, LosePeer(c) PROVE OwnerInv'
  BY <1>0, <1>4 DEF LosePeer, connVars, OwnerInv
<1>5. ASSUME NEW c \in Conns, UseNumber(c) \/ ReceiveMessage(c) PROVE OwnerInv'
  BY <1>0, <1>5, SendFrame DEF connVars, Weaker, OwnerInv
<1>6. ASSUME NEW c \in Conns, EndReceive(c) PROVE OwnerInv'
  BY <1>0, <1>6 DEF EndReceive, connVars, OwnerInv, ConnTypeOK
<1>7. ASSUME NEW c \in Conns, Heartbeat(c) PROVE OwnerInv'
  BY <1>0, <1>7, SendEffect DEF Heartbeat, connVars, Weaker, OwnerInv
<1>8. ASSUME NEW v \in Threads, freeEmptysocket(v) PROVE OwnerInv'
  BY <1>0, <1>8, WalkFrame DEF walkFrame, OwnerInv
<1> QED
  BY <1>1, <1>2, <1>3, <1>4, <1>5, <1>6, <1>7, <1>8 DEF Next

\* As long as every client is there no step begins a walk, and the map only grows.
LEMMA CalmStep ==
  ASSUME ConnInv, [Next]_vars
  PROVE  CalmInv'
<1> SUFFICES ASSUME \A c \in Conns : peer'[c] = "open"
             PROVE  /\ process' = "up"
                    /\ \A c \in Conns : recvStatus'[c]
                    /\ \A w \in Threads : pc'[w] \in {"off", "run"}
                    /\ \A c \in 1..accepted' : \E e \in listed' : number'[e] = number'[c]
  BY DEF CalmInv, Keyed
<1> DEFINE Calm ==
      /\ process' = "up"
      /\ \A c \in Conns : recvStatus'[c]
      /\ \A w \in Threads : pc'[w] \in {"off", "run"}
      /\ \A c \in 1..accepted' : \E e \in listed' : number'[e] = number'[c]
<1> USE DEF ConnInv
<1>0. \A c \in Conns : peer[c] = "open"
  <2>1. \A c \in Conns : peer[c] # "lost"
    <3>1. ASSUME NEW c \in Conns, peer[c] = "lost" PROVE peer'[c] = "lost"
      <4>1. CASE UNCHANGED vars
        BY <3>1, <4>1 DEF vars
      <4>2. ASSUME NEW n \in Numbers, AcceptConn(n) PROVE peer' = peer
        BY <4>2, AcceptFrame
      <4>3. ASSUME NEW d \in Conns, LosePeer(d) PROVE peer'[c] = "lost"
        BY <3>1, <4>3 DEF LosePeer, ConnTypeOK
      <4>4. CASE StartThreads \/ \E d \in Conns : EndReceive(d) \/ Heartbeat(d)
        BY <3>1, <4>4 DEF StartThreads, EndReceive, Heartbeat
      <4>5. ASSUME NEW d \in Conns, UseNumber(d) \/ ReceiveMessage(d) PROVE peer' = peer
        BY <4>5, SendFrame
      <4>6. ASSUME NEW w \in Threads, freeEmptysocket(w) PROVE peer' = peer
        BY <4>6, WalkFrame DEF walkFrame
      <4> QED
        BY <3>1, <4>1, <4>2, <4>3, <4>4, <4>5, <4>6 DEF Next
    <3> QED
      BY <3>1
  <2> QED
    BY <2>1 DEF ConnTypeOK
<1>1. /\ process = "up"
      /\ \A c \in Conns : recvStatus[c]
      /\ \A w \in Threads : pc[w] \in {"off", "run"}
      /\ \A c \in 1..accepted : \E e \in listed : number[e] = number[c]
  BY <1>0 DEF CalmInv, Keyed
<1>2. CASE UNCHANGED vars
  BY <1>1, <1>2 DEF vars, connVars
<1>3. ASSUME NEW n \in Numbers, AcceptConn(n) PROVE Calm
  <2> DEFINE c == accepted + 1
  <2>1. /\ c \in Conns /\ c \notin listed /\ accepted' = c /\ number' = [number EXCEPT ![c] = n]
        /\ \/ Keyed(n) = {} /\ listed' = listed \cup {c}
           \/ Keyed(n) # {} /\ UNCHANGED listed
        /\ UNCHANGED <<process, recvStatus, pc>>
    BY <1>3, AcceptFrame
  <2>2. \A d \in 1..c : d \in 1..accepted \/ d = c
    BY <2>1, ConnsAssumption DEF ConnTypeOK
  <2>3. \A d \in listed : number'[d] = number[d] /\ d \in listed'
    BY <2>1, Members DEF ConnTypeOK
  <2>4. ASSUME NEW d \in 1..accepted PROVE \E e \in listed' : number'[e] = number'[d]
    <3>1. PICK e \in listed : number[e] = number[d]
      BY <1>1
    <3>2. number'[d] = number[d]
      BY <2>1, Members, ConnsAssumption DEF ConnTypeOK
    <3> QED
      BY <2>3, <3>1, <3>2
  <2>5. \E e \in listed' : number'[e] = number'[c]
    <3>1. number'[c] = n
      BY <2>1 DEF ConnTypeOK
    <3>2. \E e \in listed' : number'[e] = n
      BY <2>1, <2>3, <3>1 DEF Keyed
    <3> QED
      BY <3>1, <3>2
  <2> HIDE DEF c
  <2> QED
    BY <1>1, <2>1, <2>2, <2>4, <2>5
<1>4. CASE StartThreads
  BY <1>1, <1>4 DEF StartThreads
<1>5. ASSUME NEW c \in Conns, LosePeer(c) PROVE Calm
  BY <1>1, <1>5 DEF LosePeer, connVars
<1>6. ASSUME NEW c \in Conns, UseNumber(c) \/ ReceiveMessage(c) PROVE Calm
  <2>1. \A d \in 1..accepted : Keyed(number[d]) # {}
    BY <1>1 DEF Keyed
  <2>2. UNCHANGED <<connVars, pc, process, recvStatus>>
    BY <1>0, <1>6, <2>1, SendFrame
  <2> QED
    BY <1>1, <2>2 DEF connVars
<1>7. ASSUME NEW c \in Conns, EndReceive(c) PROVE FALSE
  BY <1>0, <1>7 DEF EndReceive
<1>8. ASSUME NEW c \in Conns, Heartbeat(c) PROVE Calm
  <2>1. UNCHANGED <<process, recvStatus>>
    BY <1>0, <1>8, SendEffect DEF Heartbeat
  <2>2. UNCHANGED pc
    BY <1>1, <1>8, <2>1 DEF Heartbeat
  <2> QED
    BY <1>1, <1>8, <2>1, <2>2 DEF Heartbeat, connVars
<1>9. ASSUME NEW w \in Threads, freeEmptysocket(w) PROVE FALSE
  BY <1>1, <1>9, WalkFrame DEF Walking
<1> QED
  BY <1>2, <1>3, <1>4, <1>5, <1>6, <1>7, <1>8, <1>9 DEF Next

\* The invariant holds in every reachable state.
LEMMA ConnInvariant == Spec => []ConnInv
<1>1. ConnInv /\ [Next]_vars => ConnInv'
  BY TypeStep, EraseStep, OwnerStep, CalmStep DEF ConnInv
<1> QED
  BY ConnInit, <1>1, PTL DEF Spec

-------------------------------------------------------------------------------
(* Theorems *)

\* acceptConn, the two threads of every connection and the walks keep the shape of
\* the map: no number twice, and only connections that were accepted.
THEOREM ConnTypeCorrect == Spec => []ConnTypeOK
<1>1. ConnInv => ConnTypeOK
  BY DEF ConnInv
<1> QED
  BY <1>1, ConnInvariant, PTL

\* getConnObject and sendToClient find a client that is there by its number, if
\* that was free when it connected and no walk went through an erased node.
THEOREM NumbersFind == Spec => []KnownByNumber
<1>1. ConnInv => KnownByNumber
  <2> SUFFICES ASSUME ConnInv, NEW c \in owner, recvStatus[c], ~raced
               PROVE  Keyed(number[c]) = {c}
    BY DEF KnownByNumber
  <2>1. c \in listed
    BY DEF ConnInv, OwnerInv
  <2> QED
    BY <2>1 DEF ConnInv, ConnTypeOK, Keyed
<1> QED
  BY <1>1, ConnInvariant, PTL

\* The server survives everything its clients do as long as they stay: no null
\* pointer, no SIGPIPE and no walk.
THEOREM StaysUpForAll == Spec => []DiesOnlyForLost
<1>1. ConnInv => DiesOnlyForLost
  BY DEF ConnInv, CalmInv, ConnTypeOK, DiesOnlyForLost
<1> QED
  BY <1>1, ConnInvariant, PTL
==============================================================================
