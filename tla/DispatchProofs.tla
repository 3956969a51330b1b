---------------------------- MODULE DispatchProofs ----------------------------
(***************************************************************************)
(* Theorems about Dispatch, for any receivers, any symbols and whatever    *)
(* the clients send.                                                       *)
(*                                                                         *)
(* Every buffer keeps its last Nul, and every position that a thread may   *)
(* scan from is inside a buffer (PlaceInv), although threads go on at each *)
(* other's positions.  That is what the order entry thread's test of the   *)
(* queue needs to be proved about real messages (QueueInv).                *)
(*                                                                         *)
(* A call that overlaps no other has the position for itself: what it has  *)
(* taken are the parts of what it has gone over, and the rest of its       *)
(* buffer is untouched (Exact, Progress).  As long as no two calls overlap *)
(* the orders of a client, from those handled to those not yet received,   *)
(* are a list that no step changes (Flow).                                 *)
(***************************************************************************)
EXTENDS Dispatch, SplitTheorems, SequenceTheorems, WellFoundedInduction, TLAPS

Cell == Symbols \cup {Nul}
Text == Seq(Symbols)

\* A place strtok may scan from.
At(p) == p[1] \in DOMAIN heap /\ p[2] \in DOMAIN heap[p[1]]

ThreadInv ==
  /\ process \in {"up", "dead"}
  /\ mixed \in BOOLEAN
  /\ pc \in [Threads -> {"idle", "scan", "copy", "read", "pop", "done"}]

\* What is sent, cut off, queued and split are texts: no part contains a Nul.
TextInv ==
  /\ chunks \in [Receivers -> Seq(Text)]
  /\ todo \in [Receivers -> Seq(Text)]
  /\ queue \in Seq(Text)
  /\ res \in [Threads -> Seq(Text)]

\* A buffer ends in Nul, whatever is cut in it.
HeapInv ==
  /\ heap \in Seq(Seq(Cell))
  /\ \A b \in DOMAIN heap : heap[b] # <<>> /\ heap[b][Len(heap[b])] = Nul

\* A thread in split is inside a buffer, and will find strtok's position in one
\* when it calls strtok again.
PlaceInv ==
  /\ olds \in Nat \X Nat /\ pos \in [Threads -> Nat \X Nat]
  /\ delim \in [Threads -> {"&", "|"}]
  /\ olds # <<0, 0>> => At(olds)
  /\ \A t \in Threads :
       /\ pos[t] # <<0, 0>> => At(pos[t])
       /\ Splitting(t) => At(pos[t])
       /\ pc[t] \in {"copy", "read"} => At(olds)

QueueInv == pc[OrderEntry] = "pop" => queue # <<>>

DispatchInv == ThreadInv /\ TextInv /\ HeapInv /\ PlaceInv /\ QueueInv

-------------------------------------------------------------------------------
(* Scans *)

\* A set of natural numbers has a least element.
LEMMA LeastPlace ==
  ASSUME NEW T \in SUBSET Nat, T # {}
  PROVE  \E x \in T : \A y \in T : x <= y
<1>1. PICK x \in T : \A y \in T : ~(<<y, x>> \in OpToRel(<, Nat))
  BY NatLessThanWellFounded, WFMin
<1>2. \A y \in T : ~(y < x)
  BY <1>1 DEF OpToRel
<1> QED
  BY <1>2

\* strspn stops in the buffer: Nul is no separator.
LEMMA SkipStops ==
  ASSUME NEW b \in Seq(Cell), b # <<>>, b[Len(b)] = Nul,
         NEW i \in 1..Len(b), NEW d \in Symbols
  PROVE  /\ SkipFrom(b, i, d) \in i..Len(b) /\ b[SkipFrom(b, i, d)] # d
         /\ \A k \in i..(SkipFrom(b, i, d) - 1) : b[k] = d
<1> DEFINE T == {j \in i..Len(b) : b[j] # d}
<1>1. Len(b) \in Nat
  OBVIOUS
<1>2. T \in SUBSET Nat /\ Len(b) \in T
  BY <1>1, SymbolsAssumption
<1>3. PICK j \in T : \A k \in T : j <= k
  BY <1>2, LeastPlace
<1>4. \A k \in i..(j - 1) : b[k] = d
  BY <1>1, <1>3
<1>5. \E k \in i..Len(b) : b[k] # d /\ \A m \in i..(k - 1) : b[m] = d
  BY <1>3, <1>4
<1> QED
  BY <1>5 DEF SkipFrom

\* strcspn stops at the separator or at Nul, and passes neither.
LEMMA StopStops ==
  ASSUME NEW b \in Seq(Cell), b # <<>>, b[Len(b)] = Nul,
         NEW i \in 1..Len(b), NEW d \in Cell
  PROVE  /\ StopFrom(b, i, d) \in i..Len(b) /\ b[StopFrom(b, i, d)] \in {d, Nul}
         /\ \A k \in i..(StopFrom(b, i, d) - 1) : b[k] \notin {d, Nul}
<1> DEFINE T == {j \in i..Len(b) : b[j] \in {d, Nul}}
<1>1. Len(b) \in Nat
  OBVIOUS
<1>2. T \in SUBSET Nat /\ Len(b) \in T
  BY <1>1
<1>3. PICK j \in T : \A k \in T : j <= k
  BY <1>2, LeastPlace
<1>4. \A k \in i..(j - 1) : b[k] \notin {d, Nul}
  BY <1>1, <1>3
<1>5. \E k \in i..Len(b) : b[k] \in {d, Nul} /\ \A m \in i..(k - 1) : b[m] \notin {d, Nul}
  BY <1>3, <1>4
<1> QED
  BY <1>5 DEF StopFrom

\* A part that is copied is a text.
LEMMA PartIsText ==
  ASSUME NEW b \in Seq(Cell), b # <<>>, b[Len(b)] = Nul, NEW i \in 1..Len(b)
  PROVE  SubSeq(b, i, StopFrom(b, i, Nul) - 1) \in Text
<1> DEFINE e == StopFrom(b, i, Nul)
<1>1. Len(b) \in Nat /\ e \in i..Len(b) /\ \A k \in i..(e - 1) : b[k] # Nul
  BY StopStops DEF Cell
<1>2. \A k \in i..(e - 1) : b[k] \in Symbols
  BY <1>1 DEF Cell
<1> HIDE DEF e
<1>3. i \in Int /\ e - 1 \in Int
  BY <1>1
<1>4. SubSeq(b, i, e - 1) \in Seq(Symbols)
  BY <1>2, <1>3, SubSeqProperties
<1> QED
  BY <1>4 DEF Text, e

-------------------------------------------------------------------------------
(* split *)

\* A call copies a text to a buffer of its own; the others stay as they are.
LEMMA BeginSplitKeeps ==
  ASSUME DispatchInv, NEW t \in Threads, NEW s \in Text, NEW d \in {"&", "|"},
         BeginSplit(t, s, d), process' \in {"up", "dead"},
         chunks' \in [Receivers -> Seq(Text)], todo' \in [Receivers -> Seq(Text)],
         queue' \in Seq(Text), queue' # <<>> \/ t = OrderEntry \/ queue' = queue
  PROVE  DispatchInv'
<1> DEFINE n == Len(heap) + 1
           buffer == Append(s, Nul)
<1>1. buffer \in Seq(Cell) /\ buffer # <<>> /\ buffer[Len(buffer)] = Nul /\ 1 \in DOMAIN buffer
  <2>1. s \in Seq(Cell) /\ Nul \in Cell /\ Len(s) \in Nat
    BY DEF Text, Cell
  <2>2. /\ buffer \in Seq(Cell) /\ buffer # <<>> /\ Len(buffer) = Len(s) + 1
        /\ buffer[Len(s) + 1] = Nul
    BY <2>1, AppendProperties
  <2> QED
    BY <2>1, <2>2
<1>2. heap' = Append(heap, buffer)
  BY DEF BeginSplit
<1> HIDE DEF buffer
<1>3. /\ heap' \in Seq(Seq(Cell)) /\ n \in DOMAIN heap' /\ heap'[n] = buffer
      /\ DOMAIN heap \subseteq DOMAIN heap' /\ DOMAIN heap' = DOMAIN heap \cup {n}
      /\ \A b \in DOMAIN heap : heap'[b] = heap[b]
  BY <1>1, <1>2 DEF DispatchInv, HeapInv
<1>4. HeapInv'
  BY <1>1, <1>3 DEF DispatchInv, HeapInv
<1>5. ThreadInv'
  BY DEF DispatchInv, ThreadInv, BeginSplit, Go
<1>6. TextInv'
  BY DEF DispatchInv, TextInv, BeginSplit, Text
<1>7. \A p \in Nat \X Nat : At(p) => At(p)'
  BY <1>3 DEF At
<1>8. /\ olds' = olds /\ pos' = [pos EXCEPT ![t] = <<n, 1>>]
      /\ pc' = [pc EXCEPT ![t] = "scan"] /\ delim' = [delim EXCEPT ![t] = d]
  BY DEF BeginSplit, Go
<1>9. n \in Nat /\ n \in DOMAIN heap' /\ 1 \in DOMAIN heap'[n]
  BY <1>1, <1>3 DEF DispatchInv, HeapInv
<1>10. PlaceInv'
  <2> HIDE DEF n
  <2>1. /\ olds' \in Nat \X Nat /\ pos' \in [Threads -> Nat \X Nat]
        /\ delim' \in [Threads -> {"&", "|"}] /\ (olds' # <<0, 0>> => At(olds)')
    BY <1>7, <1>8, <1>9 DEF DispatchInv, PlaceInv, At
  <2>2. ASSUME NEW u \in Threads, u # t
        PROVE  /\ pos'[u] # <<0, 0>> => At(pos[u])'
               /\ Splitting(u)' => At(pos[u])'
               /\ pc'[u] \in {"copy", "read"} => At(olds)'
    <3>1. pos'[u] = pos[u] /\ pc'[u] = pc[u] /\ pos[u] \in Nat \X Nat /\ olds \in Nat \X Nat
      BY <1>8, <2>2 DEF DispatchInv, PlaceInv, ThreadInv
    <3> QED
      BY <1>7, <1>8, <3>1 DEF DispatchInv, PlaceInv, At, Splitting
  <2>3. pos'[t] = <<n, 1>> /\ pc'[t] = "scan"
    BY <1>8 DEF DispatchInv, PlaceInv, ThreadInv
  <2>4. At(pos[t])'
    BY <1>9, <2>3 DEF At
  <2> QED
    BY <2>1, <2>2, <2>3, <2>4 DEF PlaceInv
<1>11. QueueInv'
  BY <1>8 DEF DispatchInv, QueueInv, ThreadInv
<1> QED
  BY <1>4, <1>5, <1>6, <1>10, <1>11 DEF DispatchInv

\* A step of strtok cuts in a buffer and moves the position inside it.
LEMMA ScanKeeps ==
  ASSUME DispatchInv, NEW t \in Threads, Scan(t)
  PROVE  DispatchInv'
<1> DEFINE b == pos[t][1]
           i == pos[t][2]
           start == SkipFrom(heap[b], i, delim[t])
           end == StopFrom(heap[b], start, delim[t])
<1>1. /\ pc[t] = "scan" /\ b \in DOMAIN heap /\ i \in DOMAIN heap[b]
      /\ delim[t] \in Symbols
  BY SymbolsAssumption DEF Scan, DispatchInv, PlaceInv, Splitting, At
<1>2. /\ heap \in Seq(Seq(Cell)) /\ heap[b] \in Seq(Cell) /\ heap[b] # <<>>
      /\ heap[b][Len(heap[b])] = Nul /\ i \in 1..Len(heap[b]) /\ Len(heap[b]) \in Nat
      /\ b \in Nat
  BY <1>1 DEF DispatchInv, HeapInv
<1>3. start \in i..Len(heap[b])
  BY <1>1, <1>2, SkipStops
<1>4. start \in 1..Len(heap[b])
  BY <1>2, <1>3
<1> HIDE DEF start
<1>5. end \in start..Len(heap[b])
  BY <1>1, <1>2, <1>4, StopStops DEF Cell
<1>6. end \in 1..Len(heap[b])
  BY <1>2, <1>4, <1>5
<1> HIDE DEF end
<1>7. /\ UNCHANGED <<process, chunks, todo, queue, delim, res, mixed>>
      /\ \/ olds' = <<b, start>> /\ Go(t, "done") /\ UNCHANGED <<heap, pos>>
         \/ /\ heap' = [heap EXCEPT ![b][end] = Nul]
            /\ olds' = <<b, IF heap[b][end] = Nul THEN end ELSE end + 1>>
            /\ pos' = [pos EXCEPT ![t] = <<b, start>>]
            /\ Go(t, "copy")
  BY DEF Scan, start, end
<1>8. \E q \in 1..Len(heap[b]) : olds' = <<b, q>>
  <2>1. heap[b][end] # Nul => end + 1 \in 1..Len(heap[b])
    BY <1>2, <1>6
  <2> QED
    BY <1>4, <1>6, <1>7, <2>1
<1>9. /\ heap' \in Seq(Seq(Cell)) /\ DOMAIN heap' = DOMAIN heap
      /\ \A c \in DOMAIN heap : DOMAIN heap'[c] = DOMAIN heap[c] /\ heap'[c] # <<>>
                                /\ heap'[c][Len(heap'[c])] = Nul
  <2>1. CASE UNCHANGED heap
    BY <2>1 DEF DispatchInv, HeapInv
  <2>2. CASE heap' = [heap EXCEPT ![b][end] = Nul]
    <3> DEFINE cut == [heap[b] EXCEPT ![end] = Nul]
    <3>1. cut \in Seq(Cell) /\ Len(cut) = Len(heap[b]) /\ cut[Len(cut)] = Nul
      BY <1>2, <1>6 DEF Cell
    <3>2. cut # <<>> /\ DOMAIN cut = DOMAIN heap[b]
      BY <1>2, <3>1
    <3>3. heap' = [heap EXCEPT ![b] = cut]
      BY <2>2
    <3> HIDE DEF cut
    <3>4. heap' \in Seq(Seq(Cell)) /\ DOMAIN heap' = DOMAIN heap
      BY <1>1, <1>2, <3>1, <3>3
    <3>5. \A c \in DOMAIN heap : heap'[c] = IF c = b THEN cut ELSE heap[c]
      BY <3>3
    <3> QED
      BY <3>1, <3>2, <3>4, <3>5 DEF DispatchInv, HeapInv
  <2> QED
    BY <1>7, <2>1, <2>2
<1>10. HeapInv'
  BY <1>9 DEF HeapInv
<1>11. \A p \in Nat \X Nat : At(p) => At(p)'
  BY <1>9 DEF At
<1>12. \A q \in 1..Len(heap[b]) :
         <<b, q>> \in Nat \X Nat /\ b \in DOMAIN heap' /\ q \in DOMAIN heap'[b]
  BY <1>1, <1>2, <1>9
<1>14. \/ pos' = pos
       \/ pos' = [pos EXCEPT ![t] = <<b, start>>]
  BY <1>7
<1>15. pc' \in {[pc EXCEPT ![t] = "copy"], [pc EXCEPT ![t] = "done"]}
  BY <1>7 DEF Go
<1>13. ThreadInv' /\ TextInv' /\ QueueInv'
  <2>1. ThreadInv'
    BY <1>7, <1>15 DEF DispatchInv, ThreadInv
  <2>2. TextInv'
    BY <1>7 DEF DispatchInv, TextInv
  <2>3. pc'[OrderEntry] = "pop" => pc[OrderEntry] = "pop"
    BY <1>15 DEF DispatchInv, ThreadInv, Threads
  <2> QED
    BY <1>7, <2>1, <2>2, <2>3 DEF DispatchInv, QueueInv
<1>16. olds' \in Nat \X Nat /\ At(olds)'
  BY <1>8, <1>12 DEF At
<1>17. pos' \in [Threads -> Nat \X Nat]
  BY <1>4, <1>12, <1>14 DEF DispatchInv, PlaceInv
<1>18. ASSUME NEW u \in Threads
       PROVE  /\ pos'[u] # <<0, 0>> => At(pos[u])'
              /\ Splitting(u)' => At(pos[u])'
  <2>1. pos'[u] = pos[u] \/ pos'[u] = <<b, start>>
    BY <1>14 DEF DispatchInv, PlaceInv
  <2>2. Splitting(u)' => Splitting(u)
    BY <1>1, <1>15 DEF Splitting, DispatchInv, ThreadInv
  <2>3. CASE pos'[u] = pos[u]
    <3>1. pos[u] \in Nat \X Nat
      BY DEF DispatchInv, PlaceInv
    <3>2. At(pos[u]) => At(pos[u])'
      BY <1>11, <2>3, <3>1 DEF At
    <3> QED
      BY <2>2, <2>3, <3>2 DEF DispatchInv, PlaceInv
  <2>4. CASE pos'[u] = <<b, start>>
    <3>1. b \in DOMAIN heap' /\ start \in DOMAIN heap'[b]
      BY <1>4, <1>12
    <3>2. pos'[u][1] = b /\ pos'[u][2] = start
      BY <2>4
    <3> QED
      BY <3>1, <3>2 DEF At
  <2> QED
    BY <2>1, <2>3, <2>4
<1>19. PlaceInv'
  BY <1>7, <1>16, <1>17, <1>18 DEF DispatchInv, PlaceInv
<1> QED
  BY <1>10, <1>13, <1>19 DEF DispatchInv

\* Taking over a part that was cut keeps positions inside buffers.
LEMMA CopyPartKeeps ==
  ASSUME DispatchInv, NEW t \in Threads, CopyPart(t)
  PROVE  DispatchInv'
<1> DEFINE b == heap[pos[t][1]]
           i == pos[t][2]
           part == SubSeq(b, i, StopFrom(b, i, Nul) - 1)
<1>1. pc[t] = "copy" /\ At(pos[t])
  BY DEF CopyPart, DispatchInv, PlaceInv, Splitting
<1>2. b \in Seq(Cell) /\ b # <<>> /\ b[Len(b)] = Nul /\ i \in 1..Len(b)
  BY <1>1 DEF DispatchInv, HeapInv, At
<1>3. part \in Text
  BY <1>2, PartIsText
<1>4. res' = [res EXCEPT ![t] = Append(@, part)]
  BY DEF CopyPart
<1> HIDE DEF part
<1>5. res' \in [Threads -> Seq(Text)]
  BY <1>3, <1>4 DEF DispatchInv, TextInv
<1>6. /\ UNCHANGED <<process, chunks, todo, queue, heap, olds, pos, delim, mixed>>
      /\ pc' = [pc EXCEPT ![t] = "read"]
  BY DEF CopyPart, Go
<1>7. ThreadInv' /\ TextInv' /\ HeapInv' /\ QueueInv'
  BY <1>5, <1>6 DEF DispatchInv, ThreadInv, TextInv, HeapInv, QueueInv
<1>8. PlaceInv'
  BY <1>1, <1>6 DEF DispatchInv, ThreadInv, PlaceInv, At, Splitting
<1> QED
  BY <1>7, <1>8 DEF DispatchInv

\* Taking the position of the C library keeps positions inside buffers.
LEMMA ReadPositionKeeps ==
  ASSUME DispatchInv, NEW t \in Threads, ReadPosition(t)
  PROVE  DispatchInv'
<1>1. pc[t] = "read" /\ At(olds)
  BY DEF ReadPosition, DispatchInv, PlaceInv
<1>2. /\ UNCHANGED <<process, chunks, todo, queue, heap, olds, delim, res, mixed>>
      /\ pos' = [pos EXCEPT ![t] = olds] /\ pc' = [pc EXCEPT ![t] = "scan"]
  BY DEF ReadPosition, Go
<1>3. ThreadInv' /\ TextInv' /\ HeapInv' /\ QueueInv'
  BY <1>2 DEF DispatchInv, ThreadInv, TextInv, HeapInv, QueueInv
<1>4. PlaceInv'
  BY <1>1, <1>2 DEF DispatchInv, ThreadInv, PlaceInv, At, Splitting
<1> QED
  BY <1>3, <1>4 DEF DispatchInv

\* A thread that leaves split, or was not in it, changes no place.
LEMMA OutsideKeeps ==
  ASSUME DispatchInv, UNCHANGED splitVars, NEW t \in Threads,
         pc' = pc \/ \E l \in {"idle", "pop", "done"} : pc' = [pc EXCEPT ![t] = l]
  PROVE  HeapInv' /\ PlaceInv'
<1>1. \A u \in Threads : pc'[u] = pc[u] \/ pc'[u] \in {"idle", "pop", "done"}
  BY DEF DispatchInv, ThreadInv
<1> QED
  BY <1>1 DEF DispatchInv, HeapInv, PlaceInv, At, Splitting, splitVars

-------------------------------------------------------------------------------
(* The receivers and order entry *)

\* A chunk received is a buffer that ends in Nul.
LEMMA ReceiveChunkKeeps ==
  ASSUME DispatchInv, NEW r \in Receivers, ReceiveChunk(r)
  PROVE  DispatchInv'
<1>1. chunks[r] \in Seq(Text) /\ chunks[r] # <<>> /\ r \in Threads
  BY DEF ReceiveChunk, DispatchInv, TextInv, Threads
<1>2. Head(chunks[r]) \in Text /\ Tail(chunks[r]) \in Seq(Text)
  BY <1>1
<1>3. chunks' \in [Receivers -> Seq(Text)]
  BY <1>2 DEF ReceiveChunk, DispatchInv, TextInv
<1>4. /\ BeginSplit(r, Head(chunks[r]), "&")
      /\ UNCHANGED <<process, todo, queue>>
  BY DEF ReceiveChunk
<1> QED
  BY <1>1, <1>2, <1>3, <1>4, BeginSplitKeeps DEF DispatchInv, ThreadInv, TextInv

\* Taking over the messages of a chunk moves no position.
LEMMA TakeMessagesKeeps ==
  ASSUME DispatchInv, NEW r \in Receivers, TakeMessages(r)
  PROVE  DispatchInv'
<1>1. r \in Threads /\ r # OrderEntry
  BY ThreadsAssumption DEF Threads
<1>2. /\ todo' = [todo EXCEPT ![r] = res[r]] /\ pc' = [pc EXCEPT ![r] = "idle"]
      /\ UNCHANGED <<process, chunks, queue, splitVars>>
  BY DEF TakeMessages, Go
<1>3. HeapInv' /\ PlaceInv'
  BY <1>1, <1>2, OutsideKeeps
<1>4. ThreadInv' /\ TextInv' /\ QueueInv'
  BY <1>1, <1>2 DEF DispatchInv, ThreadInv, TextInv, QueueInv, splitVars
<1> QED
  BY <1>3, <1>4 DEF DispatchInv

\* A message with the connection number behind it is a text as well.
LEMMA MsgHandlerKeeps ==
  ASSUME DispatchInv, NEW r \in Receivers, msgHandler(r)
  PROVE  DispatchInv'
<1> DEFINE message == Head(todo[r]) \o <<"|", r, "|">>
<1>1. r \in Threads /\ r # OrderEntry
  BY ThreadsAssumption DEF Threads
<1>2. todo[r] \in Seq(Text) /\ todo[r] # <<>>
  BY DEF msgHandler, DispatchInv, TextInv
<1>3. Head(todo[r]) \in Text /\ Tail(todo[r]) \in Seq(Text)
  BY <1>2
<1>4. <<"|", r, "|">> \in Seq(Symbols)
  BY SymbolsAssumption
<1>5. message \in Text
  BY <1>3, <1>4 DEF Text
<1>6. /\ todo' = [todo EXCEPT ![r] = Tail(@)] /\ UNCHANGED <<process, chunks>>
      /\ \/ pushDTA(message) /\ UNCHANGED <<pc, splitVars>>
         \/ BeginSplit(r, message, "|") /\ UNCHANGED queue
         \/ UNCHANGED <<queue, pc, splitVars>>
  BY DEF msgHandler, Numbered
<1> HIDE DEF message
<1>7. todo' \in [Receivers -> Seq(Text)]
  BY <1>3, <1>6 DEF DispatchInv, TextInv
<1>8. CASE pushDTA(message) /\ UNCHANGED <<pc, splitVars>>
  <2>1. queue' \in Seq(Text) /\ queue' # <<>>
    BY <1>5, <1>8, AppendProperties DEF pushDTA, DispatchInv, TextInv
  <2>2. HeapInv' /\ PlaceInv'
    BY <1>1, <1>8, OutsideKeeps
  <2> QED
    BY <1>6, <1>7, <1>8, <2>1, <2>2
       DEF DispatchInv, ThreadInv, TextInv, QueueInv, splitVars
<1>9. CASE BeginSplit(r, message, "|") /\ UNCHANGED queue
  BY <1>1, <1>5, <1>6, <1>7, <1>9, BeginSplitKeeps DEF DispatchInv, ThreadInv, TextInv
<1>10. CASE UNCHANGED <<queue, pc, splitVars>>
  <2>1. HeapInv' /\ PlaceInv'
    BY <1>1, <1>10, OutsideKeeps
  <2> QED
    BY <1>6, <1>7, <1>10, <2>1 DEF DispatchInv, ThreadInv, TextInv, QueueInv, splitVars
<1> QED
  BY <1>6, <1>8, <1>9, <1>10

\* Answering a price request touches neither buffers nor queue.
LEMMA AnswerPriceKeeps ==
  ASSUME DispatchInv, NEW r \in Receivers, AnswerPrice(r)
  PROVE  DispatchInv'
<1>1. r \in Threads /\ r # OrderEntry
  BY ThreadsAssumption DEF Threads
<1>2. /\ pc' = [pc EXCEPT ![r] = "idle"]
      /\ UNCHANGED <<chunks, todo, queue, splitVars>>
  BY DEF AnswerPrice, Go
<1>3. process' \in {"up", "dead"}
  BY DEF AnswerPrice, Crash, DispatchInv, ThreadInv
<1>4. HeapInv' /\ PlaceInv'
  BY <1>1, <1>2, OutsideKeeps
<1>5. ThreadInv' /\ TextInv' /\ QueueInv'
  BY <1>1, <1>2, <1>3 DEF DispatchInv, ThreadInv, TextInv, QueueInv, splitVars
<1> QED
  BY <1>4, <1>5 DEF DispatchInv

\* Only order entry takes from the queue, so what checkSpace has seen is there.
LEMMA OrderEntryKeeps ==
  ASSUME DispatchInv, PollQueue \/ PopOrder \/ HandleOrder
  PROVE  DispatchInv'
<1>1. OrderEntry \in Threads
  BY DEF Threads
<1>2. CASE PollQueue
  <2>1. /\ pc' = [pc EXCEPT ![OrderEntry] = "pop"] /\ queue # <<>>
        /\ UNCHANGED <<process, chunks, todo, queue, splitVars>>
    BY <1>2 DEF PollQueue, Go
  <2>2. HeapInv' /\ PlaceInv'
    BY <1>1, <2>1, OutsideKeeps
  <2> QED
    BY <1>1, <2>1, <2>2 DEF DispatchInv, ThreadInv, TextInv, QueueInv, splitVars
<1>3. CASE PopOrder
  <2>1. queue # <<>> /\ queue \in Seq(Text)
    BY <1>3 DEF PopOrder, DispatchInv, QueueInv, TextInv
  <2>2. Head(queue) \in Text /\ Tail(queue) \in Seq(Text)
    BY <2>1
  <2>3. /\ queue' = Tail(queue) /\ BeginSplit(OrderEntry, Head(queue), "|")
        /\ UNCHANGED <<process, chunks, todo>>
    BY <1>3, <2>1 DEF PopOrder
  <2> QED
    BY <1>1, <2>2, <2>3, BeginSplitKeeps DEF DispatchInv, ThreadInv, TextInv
<1>4. CASE HandleOrder
  <2>1. /\ pc' = [pc EXCEPT ![OrderEntry] = "idle"]
        /\ UNCHANGED <<chunks, todo, queue, splitVars>>
    BY <1>4 DEF HandleOrder, Go
  <2>2. process' \in {"up", "dead"}
    BY <1>4 DEF HandleOrder, Crash, DispatchInv, ThreadInv
  <2>3. HeapInv' /\ PlaceInv'
    BY <1>1, <2>1, OutsideKeeps
  <2> QED
    BY <1>1, <2>1, <2>2, <2>3 DEF DispatchInv, ThreadInv, TextInv, QueueInv, splitVars
<1> QED
  BY <1>2, <1>3, <1>4

-------------------------------------------------------------------------------
\* At first there is no buffer and nobody scans one.
LEMMA InitialDispatch == Init => DispatchInv
<1> SUFFICES ASSUME Init PROVE DispatchInv
  OBVIOUS
<1>1. chunks \in [Receivers -> Seq(Text)]
  BY StreamsAssumption DEF Init, Text
<1>2. ThreadInv /\ QueueInv
  BY DEF Init, ThreadInv, QueueInv, Threads
<1>3. TextInv
  BY <1>1 DEF Init, TextInv
<1>4. HeapInv
  BY DEF Init, HeapInv
<1>5. PlaceInv
  BY DEF Init, PlaceInv, Splitting
<1> QED
  BY <1>2, <1>3, <1>4, <1>5 DEF DispatchInv

\* Every step of a receiver or of order entry keeps the invariant.
LEMMA NextDispatch == DispatchInv /\ [Next]_vars => DispatchInv'
<1> SUFFICES ASSUME DispatchInv, [Next]_vars PROVE DispatchInv'
  OBVIOUS
<1>1. ASSUME NEW t \in Threads, Scan(t) \/ CopyPart(t) \/ ReadPosition(t)
      PROVE  DispatchInv'
  BY <1>1, ScanKeeps, CopyPartKeeps, ReadPositionKeeps
<1>2. ASSUME NEW r \in Receivers,
             ReceiveChunk(r) \/ TakeMessages(r) \/ msgHandler(r) \/ AnswerPrice(r)
      PROVE  DispatchInv'
  BY <1>2, ReceiveChunkKeeps, TakeMessagesKeeps, MsgHandlerKeeps, AnswerPriceKeeps
<1>3. CASE PollQueue \/ PopOrder \/ HandleOrder
  BY <1>3, OrderEntryKeeps
<1>4. CASE UNCHANGED vars
  BY <1>4 DEF vars, splitVars, DispatchInv, ThreadInv, TextInv, HeapInv, PlaceInv,
              QueueInv, At, Splitting
<1> QED
  BY <1>1, <1>2, <1>3, <1>4 DEF Next

\* Whatever interleaving of the receivers and getOrder, the parts of the invariant
\* hold together: the calls of split, the buffers, the positions and the queue.
THEOREM DispatchInvariant == Spec => []DispatchInv
BY InitialDispatch, NextDispatch, PTL DEF Spec

\* strtok never scans outside a buffer, however many threads share its position:
\* split(), called by the receivers and by getOrder.
THEOREM ScansInsideBuffers == Spec => []DispatchTypeOK
<1>1. DispatchInv => DispatchTypeOK
  BY DEF DispatchInv, ThreadInv, HeapInv, PlaceInv, At, DispatchTypeOK
<1> QED
  BY <1>1, DispatchInvariant, PTL

\* popDTA takes the front of a queue that has one, any number of receivers pushing
\* to it: getOrder, checkSpace and popDTA of DataQueue.
THEOREM PopSafe == Spec => []PopFindsOrder
<1>1. DispatchInv => PopFindsOrder
  BY DEF DispatchInv, QueueInv, PopFindsOrder
<1> QED
  BY <1>1, DispatchInvariant, PTL
-------------------------------------------------------------------------------
(* Calls of split that overlap no other *)

\* A call has gone over the first i - 1 symbols of s, whose copy is c: from there on
\* the copy is untouched, and the parts it has taken are those of what is behind it.
Progress(c, s, d, i, parts) ==
  /\ i \in 1..Len(s) + 1
  /\ Len(c) = Len(s) + 1 /\ c[Len(c)] = Nul
  /\ \A k \in i..Len(s) : c[k] = s[k]
  /\ i = 1 \/ i = Len(s) + 1 \/ s[i - 1] = d
  /\ parts = Parts(SubSeq(s, 1, i - 1), d)

\* The text up to the next Nul, which strtok has just put there.
CutOff(b, i) == SubSeq(b, i, StopFrom(b, i, Nul) - 1)

\* A call that has begun has its text before it.
LEMMA ProgressStarts ==
  ASSUME NEW s \in Text, NEW d
  PROVE  Progress(Append(s, Nul), s, d, 1, <<>>)
<1> DEFINE c == Append(s, Nul)
<1>1. s \in Seq(Cell) /\ Nul \in Cell /\ Len(s) \in Nat /\ s \in Seq(Symbols)
  BY DEF Text, Cell
<1>2. Len(c) = Len(s) + 1 /\ c[Len(s) + 1] = Nul /\ \A k \in 1..Len(s) : c[k] = s[k]
  BY <1>1, AppendProperties
<1> HIDE DEF c
<1>3. SubSeq(s, 1, 1 - 1) = <<>>
  BY <1>1
<1>4. <<>> = Parts(SubSeq(s, 1, 1 - 1), d)
  BY <1>3, PartsEmpty
<1>5. 1 \in 1..Len(s) + 1
  BY <1>1
<1>6. Progress(c, s, d, 1, <<>>)
  BY <1>2, <1>4, <1>5 DEF Progress
<1> QED
  BY <1>6 DEF c

\* Skipping separators: strspn takes no part.
LEMMA ProgressSkips ==
  ASSUME NEW s \in Text, NEW d \in {"&", "|"}, NEW c \in Seq(Cell), NEW i, NEW parts,
         Progress(c, s, d, i, parts), NEW j, j = SkipFrom(c, i, d)
  PROVE  Progress(c, s, d, j, parts) /\ c[j] # d /\ (c[j] = Nul <=> j = Len(s) + 1)
<1>1. /\ s \in Seq(Symbols) /\ Len(s) \in Nat /\ d \in Symbols /\ Nul \notin Symbols
      /\ i \in 1..Len(s) + 1 /\ Len(c) = Len(s) + 1 /\ c[Len(c)] = Nul /\ c # <<>>
      /\ i \in 1..Len(c)
  BY SymbolsAssumption DEF Text, Progress
<1>2. j \in i..Len(c) /\ c[j] # d /\ \A k \in i..(j - 1) : c[k] = d
  BY <1>1, SkipStops
<1>3. \A k \in i..(j - 1) : k \in 1..Len(s) /\ s[k] = d
  <2> SUFFICES ASSUME NEW k \in i..(j - 1) PROVE k \in 1..Len(s) /\ s[k] = d
    OBVIOUS
  <2>1. k \in i..Len(s)
    BY <1>1, <1>2
  <2> QED
    BY <1>1, <1>2, <2>1 DEF Progress
<1>4. Parts(SubSeq(s, 1, j - 1), d) = Parts(SubSeq(s, 1, i - 1), d)
  <2>1. i - 1 \in 0..Len(s) /\ j - 1 \in (i - 1)..Len(s) /\ (i - 1) + 1 = i
    BY <1>1, <1>2
  <2>2. \A k \in (i - 1) + 1..j - 1 : s[k] = d
    BY <1>3, <2>1
  <2> HIDE DEF Text
  <2> DEFINE m == i - 1
             n == j - 1
  <2>3. m \in 0..Len(s) /\ n \in m..Len(s) /\ \A k \in m + 1..n : s[k] = d
    BY <2>1, <2>2
  <2> HIDE DEF m, n
  <2>4. Parts(SubSeq(s, 1, n), d) = Parts(SubSeq(s, 1, m), d)
    BY <1>1, <2>3, PartsSkip
  <2> QED
    BY <2>4 DEF m, n
<1>5. j = 1 \/ j = Len(s) + 1 \/ s[j - 1] = d
  <2>1. CASE j = i
    BY <2>1 DEF Progress
  <2>2. CASE j # i
    <3>1. j - 1 \in i..(j - 1)
      BY <1>1, <1>2, <2>2
    <3> QED
      BY <1>3, <3>1
  <2> QED
    BY <2>1, <2>2
<1>6. j \in 1..Len(s) + 1 /\ \A k \in j..Len(s) : k \in i..Len(s)
  BY <1>1, <1>2
<1>7. Progress(c, s, d, j, parts)
  BY <1>1, <1>4, <1>5, <1>6 DEF Progress
<1>8. c[j] = Nul <=> j = Len(s) + 1
  <2>1. CASE j = Len(s) + 1
    BY <1>1, <2>1
  <2>2. CASE j # Len(s) + 1
    <3>1. j \in 1..Len(s) /\ j \in j..Len(s)
      BY <1>6, <2>2
    <3>2. c[j] = s[j] /\ s[j] \in Symbols
      BY <1>1, <1>7, <3>1 DEF Progress
    <3> QED
      BY <1>1, <2>2, <3>2
  <2> QED
    BY <2>1, <2>2
<1> QED
  BY <1>2, <1>7, <1>8

\* Cutting off a part: what strtok returns, and where it goes on.
LEMMA ProgressCuts ==
  ASSUME NEW s \in Text, NEW d \in {"&", "|"}, NEW c \in Seq(Cell), NEW i, NEW parts,
         Progress(c, s, d, i, parts), c[i] # d, i # Len(s) + 1,
         NEW e, e = StopFrom(c, i, d), NEW c2, c2 = [c EXCEPT ![e] = Nul],
         NEW q, q = IF c[e] = Nul THEN e ELSE e + 1
  PROVE  Progress(c2, s, d, q, Append(parts, CutOff(c2, i)))
<1>1. /\ s \in Seq(Symbols) /\ Len(s) \in Nat /\ d \in Symbols /\ Nul \notin Symbols
      /\ d \in Cell /\ i \in 1..Len(s) + 1 /\ Len(c) = Len(s) + 1 /\ c[Len(c)] = Nul
      /\ c # <<>> /\ i \in 1..Len(c) /\ i \in 1..Len(s)
  BY SymbolsAssumption DEF Text, Cell, Progress
<1>2. e \in i..Len(c) /\ c[e] \in {d, Nul} /\ \A k \in i..(e - 1) : c[k] \notin {d, Nul}
  BY <1>1, StopStops
<1>3. c[i] = s[i] /\ s[i] \in Symbols
  BY <1>1 DEF Progress
<1>4. e \in i + 1..Len(s) + 1
  BY <1>1, <1>2, <1>3
<1>5. \A k \in i..(e - 1) : k \in 1..Len(s) /\ c[k] = s[k] /\ s[k] # d
  <2> SUFFICES ASSUME NEW k \in i..(e - 1)
               PROVE  k \in 1..Len(s) /\ c[k] = s[k] /\ s[k] # d
    OBVIOUS
  <2>1. k \in i..Len(s) /\ k \in 1..Len(s)
    BY <1>1, <1>4
  <2>2. c[k] = s[k]
    BY <2>1 DEF Progress
  <2> QED
    BY <1>2, <2>1, <2>2
<1>6. c[e] = Nul <=> e = Len(s) + 1
  <2>1. CASE e = Len(s) + 1
    BY <1>1, <2>1
  <2>2. CASE e # Len(s) + 1
    <3>1. e \in i..Len(s) /\ e \in 1..Len(s)
      BY <1>1, <1>4, <2>2
    <3>2. c[e] = s[e] /\ s[e] \in Symbols
      BY <1>1, <3>1 DEF Progress
    <3> QED
      BY <1>1, <2>2, <3>2
  <2> QED
    BY <2>1, <2>2
<1>7. /\ c2 \in Seq(Cell) /\ Len(c2) = Len(c) /\ c2 # <<>> /\ c2[Len(c2)] = Nul /\ c2[e] = Nul
      /\ \A k \in 1..Len(c) : k # e => c2[k] = c[k]
  <2>1. Nul \in Cell /\ e \in 1..Len(c)
    BY <1>1, <1>2 DEF Cell
  <2>2. c2 \in Seq(Cell) /\ Len(c2) = Len(c)
    BY <2>1, ExceptSeq
  <2>3. c2[e] = Nul /\ \A k \in 1..Len(c) : k # e => c2[k] = c[k]
    BY <2>1
  <2>4. c2[Len(c2)] = Nul
    BY <1>1, <2>2, <2>3
  <2> QED
    BY <1>1, <2>2, <2>3, <2>4
<1>8. StopFrom(c2, i, Nul) = e
  <2> DEFINE f == StopFrom(c2, i, Nul)
  <2>1. f \in i..Len(c2) /\ c2[f] \in {Nul, Nul} /\ \A k \in i..(f - 1) : c2[k] \notin {Nul, Nul}
    <3>1. i \in 1..Len(c2) /\ Nul \in Cell
      BY <1>1, <1>7 DEF Cell
    <3> QED
      BY <1>7, <3>1, StopStops
  <2> HIDE DEF f
  <2>2. ~(f < e)
    <3> SUFFICES ASSUME f < e PROVE FALSE
      OBVIOUS
    <3>1. f \in i..(e - 1) /\ f \in 1..Len(c) /\ f # e
      BY <1>1, <1>2, <1>7, <2>1
    <3>2. c2[f] = c[f] /\ c[f] # Nul
      BY <1>2, <1>7, <3>1
    <3> QED
      BY <2>1, <3>2
  <2>3. ~(e < f)
    <3> SUFFICES ASSUME e < f PROVE FALSE
      OBVIOUS
    <3>1. e \in i..(f - 1)
      BY <1>1, <1>2, <1>7, <2>1
    <3> QED
      BY <1>7, <2>1, <3>1
  <2>4. f = e
    BY <1>1, <1>2, <1>7, <2>1, <2>2, <2>3
  <2> QED
    BY <2>4 DEF f
<1>9. CutOff(c2, i) = SubSeq(s, i, e - 1)
  <2> DEFINE w == SubSeq(c2, i, e - 1)
             v == SubSeq(s, i, e - 1)
  <2>1. i \in Int /\ e - 1 \in Int /\ i <= e - 1
    BY <1>1, <1>4
  <2>2. \A k \in i..(e - 1) : c2[k] = s[k] /\ s[k] \in Symbols
    <3> SUFFICES ASSUME NEW k \in i..(e - 1) PROVE c2[k] = s[k] /\ s[k] \in Symbols
      OBVIOUS
    <3>1. k \in 1..Len(c) /\ k # e
      BY <1>1, <1>5, <2>1
    <3> QED
      BY <1>1, <1>5, <1>7, <3>1
  <2> DEFINE n == e - 1
  <2>3. \A k \in i..n : s[k] \in Symbols /\ c2[k] \in Symbols
    BY <2>2
  <2>4. i \in Int /\ n \in Int /\ i <= n
    BY <2>1
  <2> HIDE DEF n
  <2>5. SubSeq(s, i, n) \in Seq(Symbols) /\ Len(SubSeq(s, i, n)) = n - i + 1
         /\ \A k \in 1..n - i + 1 : SubSeq(s, i, n)[k] = s[i + k - 1]
    BY <2>3, <2>4, SubSeqProperties
  <2>6. SubSeq(c2, i, n) \in Seq(Symbols) /\ Len(SubSeq(c2, i, n)) = n - i + 1
         /\ \A k \in 1..n - i + 1 : SubSeq(c2, i, n)[k] = c2[i + k - 1]
    BY <2>3, <2>4, SubSeqProperties
  <2>7. v \in Seq(Symbols) /\ Len(v) = e - 1 - i + 1 /\ \A k \in 1..(e - 1) - i + 1 : v[k] = s[i + k - 1]
    BY <2>5 DEF n
  <2>8. w \in Seq(Symbols) /\ Len(w) = e - 1 - i + 1 /\ \A k \in 1..(e - 1) - i + 1 : w[k] = c2[i + k - 1]
    BY <2>6 DEF n
  <2>9. \A k \in 1..(e - 1) - i + 1 : i + k - 1 \in i..(e - 1)
    BY <2>1
  <2> HIDE DEF w, v
  <2>10. ASSUME NEW k \in 1..Len(w) PROVE w[k] = v[k]
    <3>1. k \in 1..(e - 1) - i + 1
      BY <2>1, <2>8
    <3>2. i + k - 1 \in i..(e - 1)
      BY <2>9, <3>1
    <3>3. w[k] = c2[i + k - 1] /\ v[k] = s[i + k - 1]
      BY <2>7, <2>8, <3>1
    <3> QED
      BY <2>2, <3>2, <3>3
  <2>11. w = v
    BY <2>7, <2>8, <2>10, SeqEqual
  <2> QED
    BY <1>8, <2>11 DEF CutOff, w, v
<1>10. Parts(SubSeq(s, 1, e - 1), d) = Append(parts, SubSeq(s, i, e - 1))
  <2> DEFINE m == i - 1
             n == e - 1
  <2>1. m \in 0..Len(s) /\ n \in m + 1..Len(s) /\ m + 1 = i
    BY <1>1, <1>4
  <2>2. \A k \in m + 1..n : s[k] # d
    BY <1>5, <2>1
  <2>3. m = 0 \/ s[m] = d
    BY <1>1 DEF Progress
  <2>4. parts = Parts(SubSeq(s, 1, m), d)
    BY DEF Progress
  <2> HIDE DEF m, n
  <2>5. Parts(SubSeq(s, 1, n), d) = Append(Parts(SubSeq(s, 1, m), d), SubSeq(s, m + 1, n))
    BY <1>1, <2>1, <2>2, <2>3, PartsWord
  <2> QED
    BY <2>1, <2>4, <2>5 DEF n
<1>11. CASE c[e] = Nul
  <2>1. e = Len(s) + 1 /\ q = e
    BY <1>6, <1>11
  <2>2. q \in 1..Len(s) + 1 /\ \A k \in q..Len(s) : c2[k] = s[k]
    BY <1>1, <2>1
  <2>3. Append(parts, CutOff(c2, i)) = Parts(SubSeq(s, 1, q - 1), d)
    BY <1>9, <1>10, <2>1
  <2> QED
    BY <1>1, <1>7, <2>1, <2>2, <2>3 DEF Progress
<1>12. CASE c[e] # Nul
  <2>1. q = e + 1 /\ e \in 1..Len(s) /\ e \in i..Len(s)
    BY <1>1, <1>4, <1>6, <1>12
  <2>2. s[e] = d /\ q - 1 = e
    BY <1>1, <1>2, <1>12, <2>1 DEF Progress
  <2>3. \A k \in q..Len(s) : c2[k] = s[k]
    <3> SUFFICES ASSUME NEW k \in q..Len(s) PROVE c2[k] = s[k]
      OBVIOUS
    <3>1. k \in i..Len(s) /\ k \in 1..Len(c) /\ k # e
      BY <1>1, <2>1
    <3> QED
      BY <1>7, <3>1 DEF Progress
  <2>4. Parts(SubSeq(s, 1, e), d) = Parts(SubSeq(s, 1, e - 1), d)
    <3> DEFINE m == e - 1
    <3>1. m \in 0..Len(s) /\ e \in m..Len(s) /\ m + 1 = e
      BY <1>1, <2>1
    <3>2. \A k \in m + 1..e : s[k] = d
      BY <2>1, <2>2, <3>1
    <3> HIDE DEF m
    <3>3. Parts(SubSeq(s, 1, e), d) = Parts(SubSeq(s, 1, m), d)
      BY <1>1, <3>1, <3>2, PartsSkip
    <3> QED
      BY <3>3 DEF m
  <2>5. Append(parts, CutOff(c2, i)) = Parts(SubSeq(s, 1, q - 1), d)
    BY <1>9, <1>10, <2>2, <2>4
  <2>6. q \in 1..Len(s) + 1
    BY <1>1, <2>1
  <2> QED
    BY <1>1, <1>7, <2>2, <2>3, <2>5, <2>6 DEF Progress
<1> QED
  BY <1>11, <1>12

\* A call that overlaps no other has the position for itself, and has taken the parts
\* of what it has gone over.
Exact(t) ==
  alone[t] =>
    /\ Splitting(t) => \A u \in Threads \ {t} : ~Splitting(u)
    /\ pc[t] = "scan" => Progress(heap[pos[t][1]], text[t], delim[t], pos[t][2], res[t])
    /\ pc[t] = "copy" => Progress(heap[olds[1]], text[t], delim[t], olds[2],
                                  Append(res[t], CutOff(heap[pos[t][1]], pos[t][2])))
    /\ pc[t] = "read" => Progress(heap[olds[1]], text[t], delim[t], olds[2], res[t])
    /\ pc[t] = "done" => res[t] = Parts(text[t], delim[t])

CallInv ==
  /\ text \in [Threads -> Text] /\ alone \in [Threads -> BOOLEAN]
  /\ \A t \in Threads : Exact(t)

\* What another thread does leaves a call alone, or the call is no longer alone.
LEMMA ExactStays ==
  ASSUME NEW t \in Threads, Exact(t), alone'[t] => alone[t] /\ ~Splitting(t),
         pc'[t] = pc[t], res'[t] = res[t], text'[t] = text[t], delim'[t] = delim[t]
  PROVE  Exact(t)'
BY DEF Exact, Splitting

\* A new call is alone if nobody is in split, and then the others are not any more.
LEMMA ExactBegins ==
  ASSUME DispatchInv, CallInv, NEW t \in Threads, NEW s \in Text, NEW d \in {"&", "|"},
         BeginSplit(t, s, d)
  PROVE  CallInv'
<1> DEFINE others == {u \in Threads \ {t} : Splitting(u)}
           n == Len(heap) + 1
<1>1. /\ heap' = Append(heap, Append(s, Nul)) /\ pos'[t] = <<n, 1>> /\ delim'[t] = d
      /\ res'[t] = <<>> /\ text'[t] = s /\ pc'[t] = "scan"
      /\ alone'[t] = (others = {})
  BY DEF BeginSplit, Go, DispatchInv, ThreadInv, TextInv, PlaceInv, CallInv
<1>2. ASSUME NEW u \in Threads, u # t
      PROVE  /\ pc'[u] = pc[u] /\ res'[u] = res[u] /\ text'[u] = text[u]
             /\ delim'[u] = delim[u] /\ alone'[u] = (alone[u] /\ u \notin others)
  BY <1>2 DEF BeginSplit, Go, DispatchInv, ThreadInv, TextInv, PlaceInv, CallInv
<1>3. text' \in [Threads -> Text] /\ alone' \in [Threads -> BOOLEAN]
  <2>1. text' = [text EXCEPT ![t] = s]
    BY DEF BeginSplit
  <2>2. alone' = [u \in Threads |-> IF u = t THEN others = {} ELSE alone[u] /\ u \notin others]
    BY DEF BeginSplit
  <2>3. \A u \in Threads : (IF u = t THEN others = {} ELSE alone[u] /\ u \notin others) \in BOOLEAN
    BY DEF CallInv
  <2> HIDE DEF others
  <2> QED
    BY <2>1, <2>2, <2>3 DEF CallInv
<1>4. Exact(t)'
  <2>1. alone'[t] => \A u \in Threads \ {t} : ~Splitting(u)'
    BY <1>1, <1>2 DEF Splitting
  <2>2. heap'[n] = Append(s, Nul) /\ pos'[t][1] = n /\ pos'[t][2] = 1
    BY <1>1 DEF DispatchInv, HeapInv
  <2>3. Progress(heap'[n], s, d, 1, <<>>)
    BY <2>2, ProgressStarts
  <2>4. Progress(heap'[pos'[t][1]], text'[t], delim'[t], pos'[t][2], res'[t])
    BY <1>1, <2>2, <2>3
  <2> QED
    BY <1>1, <2>1, <2>4 DEF Exact
<1>5. ASSUME NEW u \in Threads, u # t PROVE Exact(u)'
  <2>1. alone'[u] => alone[u] /\ ~Splitting(u)
    BY <1>2, <1>5
  <2>2. Exact(u)
    BY DEF CallInv
  <2> QED
    BY <1>2, <1>5, <2>1, <2>2, ExactStays
<1>6. \A u \in Threads : Exact(u)'
  BY <1>4, <1>5
<1> QED
  BY <1>3, <1>6 DEF CallInv

\* A scan by the one thread in split cuts off the next part of its text, or has them all.
LEMMA ExactScans ==
  ASSUME DispatchInv, CallInv, NEW t \in Threads, Scan(t), alone[t]
  PROVE  /\ pc'[t] = "done" => res'[t] = Parts(text'[t], delim'[t])
         /\ pc'[t] = "copy" => Progress(heap'[olds'[1]], text'[t], delim'[t], olds'[2],
                                  Append(res'[t], CutOff(heap'[pos'[t][1]], pos'[t][2])))
<1> DEFINE b == pos[t][1]
           c == heap[b]
           i == pos[t][2]
           s == text[t]
           d == delim[t]
           start == SkipFrom(c, i, d)
           end == StopFrom(c, start, d)
           q == IF c[end] = Nul THEN end ELSE end + 1
           c2 == [c EXCEPT ![end] = Nul]
<1>1. /\ pc[t] = "scan" /\ b \in DOMAIN heap /\ i \in DOMAIN c
      /\ s \in Text /\ d \in {"&", "|"} /\ c \in Seq(Cell)
      /\ UNCHANGED <<delim, res, text>>
      /\ pos[t] \in Nat \X Nat /\ pc \in [Threads -> {"idle", "scan", "copy", "read", "pop", "done"}]
  BY DEF Scan, DispatchInv, ThreadInv, PlaceInv, HeapInv, Splitting, At, CallInv
<1>2. Progress(c, s, d, i, res[t])
  BY <1>1 DEF CallInv, Exact
<1>3. /\ Progress(c, s, d, start, res[t]) /\ c[start] # d
      /\ (c[start] = Nul <=> start = Len(s) + 1)
  <2>1. start = SkipFrom(c, i, d)
    OBVIOUS
  <2> DEFINE parts == res[t]
  <2>2. Progress(c, s, d, i, parts)
    BY <1>2
  <2> HIDE DEF start, c, s, d, i, b, parts
  <2>3. /\ Progress(c, s, d, start, parts) /\ c[start] # d
        /\ (c[start] = Nul <=> start = Len(s) + 1)
    BY <1>1, <2>1, <2>2, ProgressSkips
  <2> QED
    BY <2>3 DEF parts
<1>4. \/ c[start] = Nul /\ pc' = [pc EXCEPT ![t] = "done"]
      \/ /\ c[start] # Nul /\ pc' = [pc EXCEPT ![t] = "copy"]
         /\ heap' = [heap EXCEPT ![b][end] = Nul] /\ olds' = <<b, q>>
         /\ pos' = [pos EXCEPT ![t] = <<b, start>>]
  BY DEF Scan, Go
<1>5. ASSUME c[start] = Nul PROVE res'[t] = Parts(text'[t], delim'[t])
  <2>1. start - 1 = Len(s) /\ SubSeq(s, 1, Len(s)) = s
    BY <1>1, <1>3, <1>5 DEF Text
  <2>2. res[t] = Parts(SubSeq(s, 1, start - 1), d)
    BY <1>3 DEF Progress
  <2> QED
    BY <1>1, <2>1, <2>2
<1>6. ASSUME c[start] # Nul
      PROVE  Progress(heap'[olds'[1]], text'[t], delim'[t], olds'[2],
                      Append(res'[t], CutOff(heap'[pos'[t][1]], pos'[t][2])))
  <2>1. Progress(c2, s, d, q, Append(res[t], CutOff(c2, start)))
    <3> HIDE DEF start, c, s, d
    <3> QED
      BY <1>1, <1>3, <1>6, ProgressCuts
  <2>2. heap' = [heap EXCEPT ![b] = c2] /\ olds' = <<b, q>> /\ pos' = [pos EXCEPT ![t] = <<b, start>>]
    BY <1>4, <1>6
  <2> HIDE DEF c2, q, start
  <2>3. heap'[b] = c2 /\ olds'[1] = b /\ olds'[2] = q /\ pos'[t][1] = b /\ pos'[t][2] = start
    BY <1>1, <2>2 DEF DispatchInv, PlaceInv
  <2> QED
    BY <1>1, <2>1, <2>3
<1> HIDE DEF start, end, q, c, b, i
<1>7. pc'[t] = IF c[start] = Nul THEN "done" ELSE "copy"
  BY <1>1, <1>4
<1> QED
  BY <1>5, <1>6, <1>7

\* A step inside split, of the one thread that is in it or of one among several.
LEMMA ExactGoesOn ==
  ASSUME DispatchInv, CallInv, NEW t \in Threads, Scan(t) \/ CopyPart(t) \/ ReadPosition(t)
  PROVE  CallInv'
<1>1. /\ Splitting(t) /\ UNCHANGED <<text, alone, delim>>
      /\ \A u \in Threads \ {t} : pc'[u] = pc[u] /\ res'[u] = res[u]
  BY DEF Scan, CopyPart, ReadPosition, Splitting, Go, DispatchInv, ThreadInv, TextInv
<1>2. text' \in [Threads -> Text] /\ alone' \in [Threads -> BOOLEAN]
  BY <1>1 DEF CallInv
<1>3. ASSUME NEW u \in Threads, u # t PROVE Exact(u)'
  <2>1. Exact(u)
    BY DEF CallInv
  <2>2. alone[u] => ~Splitting(u)
    BY <1>1, <1>3, <2>1 DEF Exact
  <2> QED
    BY <1>1, <1>3, <2>1, <2>2, ExactStays
<1>4. Exact(t)'
  <2> SUFFICES ASSUME alone[t] PROVE Exact(t)'
    BY <1>1 DEF Exact
  <2>1. \A u \in Threads \ {t} : ~Splitting(u)'
    BY <1>1 DEF CallInv, Exact, Splitting
  <2>2. CASE Scan(t)
    <3>1. pc'[t] \in {"copy", "done"}
      BY <2>2 DEF Scan, Go, DispatchInv, ThreadInv
    <3> QED
      BY <2>1, <2>2, <3>1, ExactScans DEF Exact
  <2>3. CASE CopyPart(t)
    <3>1. /\ pc[t] = "copy" /\ pc'[t] = "read" /\ UNCHANGED <<heap, olds, pos>>
          /\ res'[t] = Append(res[t], CutOff(heap[pos[t][1]], pos[t][2]))
      BY <2>3 DEF CopyPart, Go, CutOff, DispatchInv, ThreadInv, TextInv
    <3>2. Progress(heap[olds[1]], text[t], delim[t], olds[2],
                   Append(res[t], CutOff(heap[pos[t][1]], pos[t][2])))
      BY <3>1 DEF CallInv, Exact
    <3>3. Progress(heap'[olds'[1]], text'[t], delim'[t], olds'[2], res'[t])
      BY <1>1, <3>1, <3>2
    <3> QED
      BY <2>1, <3>1, <3>3 DEF Exact
  <2>4. CASE ReadPosition(t)
    <3>1. /\ pc[t] = "read" /\ pc'[t] = "scan" /\ UNCHANGED <<heap, olds, res>>
          /\ pos'[t] = olds
      BY <2>4 DEF ReadPosition, Go, DispatchInv, ThreadInv, PlaceInv
    <3>2. Progress(heap[olds[1]], text[t], delim[t], olds[2], res[t])
      BY <3>1 DEF CallInv, Exact
    <3>3. Progress(heap'[pos'[t][1]], text'[t], delim'[t], pos'[t][2], res'[t])
      BY <1>1, <3>1, <3>2
    <3> QED
      BY <2>1, <3>1, <3>3 DEF Exact
  <2> QED
    BY <2>2, <2>3, <2>4
<1>5. \A u \in Threads : Exact(u)'
  BY <1>3, <1>4
<1> QED
  BY <1>2, <1>5 DEF CallInv

\* A step outside split changes no call.
LEMMA ExactOutside ==
  ASSUME DispatchInv, CallInv, UNCHANGED splitVars, NEW t \in Threads,
         pc' = pc \/ \E l \in {"idle", "pop"} : pc' = [pc EXCEPT ![t] = l]
  PROVE  CallInv'
<1>1. \A u \in Threads : pc'[u] = pc[u] \/ pc'[u] \in {"idle", "pop"}
  BY DEF DispatchInv, ThreadInv
<1>2. /\ heap' = heap /\ olds' = olds /\ pos' = pos /\ delim' = delim /\ res' = res
      /\ text' = text /\ alone' = alone
  BY DEF splitVars
<1>3. ASSUME NEW u \in Threads PROVE Exact(u)'
  <2>1. Exact(u)
    BY DEF CallInv
  <2>2. Splitting(u)' => Splitting(u)
    BY <1>1 DEF Splitting
  <2>3. \A v \in Threads : ~Splitting(v) => ~Splitting(v)'
    BY <1>1 DEF Splitting
  <2>4. CASE pc'[u] = pc[u]
    BY <1>2, <2>1, <2>2, <2>3, <2>4 DEF Exact
  <2>5. CASE pc'[u] \in {"idle", "pop"}
    BY <2>5 DEF Exact, Splitting
  <2> QED
    BY <1>1, <2>4, <2>5
<1> QED
  BY <1>2, <1>3 DEF CallInv

\* At first nobody is in split.
LEMMA InitialCall == Init => CallInv
<1> SUFFICES ASSUME Init PROVE CallInv
  OBVIOUS
<1>1. text = [t \in Threads |-> <<>>] /\ alone = [t \in Threads |-> TRUE]
      /\ pc = [t \in Threads |-> "idle"]
  BY DEF Init
<1>2. text \in [Threads -> Text] /\ alone \in [Threads -> BOOLEAN]
  <2>1. <<>> \in Text
    BY DEF Text
  <2> QED
    BY <1>1, <2>1
<1>3. \A t \in Threads : Exact(t)
  BY <1>1 DEF Exact, Splitting
<1> QED
  BY <1>2, <1>3 DEF CallInv

\* Every step of a receiver or of order entry keeps the calls exact.
LEMMA NextCall == DispatchInv /\ CallInv /\ [Next]_vars => CallInv'
<1> SUFFICES ASSUME DispatchInv, CallInv, [Next]_vars PROVE CallInv'
  OBVIOUS
<1>1. ASSUME NEW t \in Threads, Scan(t) \/ CopyPart(t) \/ ReadPosition(t)
      PROVE  CallInv'
  BY <1>1, ExactGoesOn
<1>2. ASSUME NEW r \in Receivers,
             ReceiveChunk(r) \/ TakeMessages(r) \/ msgHandler(r) \/ AnswerPrice(r)
      PROVE  CallInv'
  <2>1. r \in Threads
    BY DEF Threads
  <2>2. CASE ReceiveChunk(r)
    <3>1. BeginSplit(r, Head(chunks[r]), "&")
      BY <2>2 DEF ReceiveChunk
    <3>2. Head(chunks[r]) \in Text
      BY <2>2 DEF ReceiveChunk, DispatchInv, TextInv
    <3> QED
      BY <2>1, <3>1, <3>2, ExactBegins
  <2>3. CASE msgHandler(r)
    <3> DEFINE message == Head(todo[r]) \o <<"|", r, "|">>
    <3>1. \/ BeginSplit(r, message, "|")
          \/ UNCHANGED <<pc, splitVars>>
      BY <2>3 DEF msgHandler, Numbered
    <3>2. message \in Text
      <4>1. Head(todo[r]) \in Seq(Symbols)
        BY <2>3 DEF msgHandler, DispatchInv, TextInv, Text
      <4>2. <<"|", r, "|">> \in Seq(Symbols)
        BY SymbolsAssumption
      <4> QED
        BY <4>1, <4>2 DEF Text
    <3> HIDE DEF message
    <3>3. CASE BeginSplit(r, message, "|")
      BY <2>1, <3>2, <3>3, ExactBegins
    <3>4. CASE UNCHANGED <<pc, splitVars>>
      BY <2>1, <3>4, ExactOutside
    <3> QED
      BY <3>1, <3>3, <3>4
  <2>4. CASE TakeMessages(r) \/ AnswerPrice(r)
    <3>1. pc' = [pc EXCEPT ![r] = "idle"] /\ UNCHANGED splitVars
      BY <2>4 DEF TakeMessages, AnswerPrice, Go
    <3> QED
      BY <2>1, <3>1, ExactOutside
  <2> QED
    BY <1>2, <2>2, <2>3, <2>4
<1>3. CASE PollQueue \/ HandleOrder
  <2>1. /\ \E l \in {"idle", "pop"} : pc' = [pc EXCEPT ![OrderEntry] = l]
        /\ UNCHANGED splitVars /\ OrderEntry \in Threads
    BY <1>3 DEF PollQueue, HandleOrder, Go, Threads
  <2> QED
    BY <2>1, ExactOutside
<1>4. CASE PopOrder
  <2>1. queue # <<>> /\ queue \in Seq(Text) /\ OrderEntry \in Threads
    BY <1>4 DEF PopOrder, DispatchInv, QueueInv, TextInv, Threads
  <2>2. Head(queue) \in Text /\ BeginSplit(OrderEntry, Head(queue), "|")
    BY <1>4, <2>1 DEF PopOrder
  <2> QED
    BY <2>1, <2>2, ExactBegins
<1>5. CASE UNCHANGED vars
  <2>1. UNCHANGED splitVars /\ pc' = pc /\ OrderEntry \in Threads
    BY <1>5 DEF vars, Threads
  <2> QED
    BY <2>1, ExactOutside
<1> QED
  BY <1>1, <1>2, <1>3, <1>4, <1>5 DEF Next

\* A call of split that overlaps no other returns exactly the parts of its text, for
\* every text: strtok's shared position is its own, whatever calls that did overlap
\* have left in it.
THEOREM AloneIsExact == Spec => []SplitExact
<1>1. CallInv => SplitExact
  BY DEF CallInv, Exact, SplitExact
<1>2. DispatchInv /\ CallInv /\ [Next]_vars => CallInv'
  BY NextCall
<1> QED
  BY <1>1, <1>2, InitialCall, DispatchInvariant, PTL DEF Spec

-------------------------------------------------------------------------------
(* Lists put together *)

\* Putting the first two together first makes no difference.
Associates(a, b, c) == (a \o b) \o c = a \o (b \o c)

\* Lists are put together in any grouping.
LEMMA ListsAssociate ==
  ASSUME NEW F, NEW a \in Seq(F), NEW b \in Seq(F), NEW c \in Seq(F)
  PROVE  Associates(a, b, c)
BY DEF Associates

\* Putting lists together gives a list, and an empty one adds nothing.
LEMMA ListsJoin ==
  ASSUME NEW F, NEW a \in Seq(F), NEW b \in Seq(F)
  PROVE  a \o b \in Seq(F) /\ a \o <<>> = a /\ <<>> \o a = a
OBVIOUS

\* g makes a list of every member.
MakesLists(g, S, F) == g \in [S -> Seq(F)]

\* f[n] is what g makes of the first n members of seq.
IsGathering(f, seq, g, F) ==
  /\ f[0] = <<>> /\ Gathered(seq, g) = f[Len(seq)]
  /\ \A n \in 1..Len(seq) : f[n] = f[n - 1] \o g[seq[n]]
  /\ \A n \in 0..Len(seq) : f[n] \in Seq(F)

\* Gathered is the result of such a gathering.
LEMMA GatheredSteps ==
  ASSUME NEW S, NEW F, NEW seq \in Seq(S), NEW g, MakesLists(g, S, F)
  PROVE  \E f : IsGathering(f, seq, g, F)
<1> DEFINE L == Len(seq)
           B == Seq(F)
           Made(n) == IF n \in 1..L THEN g[seq[n]] ELSE <<>>
           h == [n \in Nat |-> [k \in B |-> k \o Made(n + 1)]]
           Body(f, n) == IF n = 0 THEN <<>> ELSE f[n - 1] \o g[seq[n]]
           Fits(f) == f = [n \in 0..L |-> Body(f, n)]
           empty == <<>>
<1>0. L \in Nat /\ empty \in B /\ \A n \in 1..L : g[seq[n]] \in B
  BY DEF MakesLists
<1>1. StepsOf(h, B)
  <2>1. \A n \in Nat : Made(n + 1) \in B
    BY <1>0
  <2> HIDE DEF Made
  <2>2. \A n \in Nat : \A k \in B : k \o Made(n + 1) \in B
    BY <2>1
  <2> QED
    BY <2>2 DEF StepsOf
<1>2. PICK f : IsRecursive(f, B, empty, h)
  <2> HIDE DEF h, empty, B
  <2> QED
    BY <1>0, <1>1, Recursion
<1> DEFINE part == [n \in 0..L |-> f[n]]
<1>3. Fits(part)
  <2>1. ASSUME NEW n \in 0..L PROVE part[n] = Body(part, n)
    <3>1. CASE n = 0
      BY <1>2, <3>1 DEF IsRecursive
    <3>2. CASE n # 0
      <4>1. n - 1 \in Nat /\ n - 1 \in 0..L /\ (n - 1) + 1 = n /\ n \in 1..L
        BY <1>0, <3>2
      <4>2. f[n] = h[n - 1][f[n - 1]] /\ f[n - 1] \in B
        <5> HIDE DEF h, B
        <5> QED
          BY <1>2, <4>1 DEF IsRecursive
      <4>3. h[n - 1][f[n - 1]] = f[n - 1] \o g[seq[n]]
        <5> HIDE DEF B
        <5> QED
          BY <4>1, <4>2
      <4> HIDE DEF h
      <4> QED
        BY <3>2, <4>1, <4>2, <4>3
    <3> QED
      BY <3>1, <3>2
  <2> HIDE DEF Body
  <2> QED
    BY <2>1
<1> DEFINE c == CHOOSE x : Fits(x)
<1>4. Fits(c)
  <2> HIDE DEF Fits, part
  <2> QED
    BY <1>3
<1>5. Gathered(seq, g) = c[L]
  BY DEF Gathered
<1>6. c[0] = <<>> /\ \A n \in 1..L : c[n] = c[n - 1] \o g[seq[n]]
  <2> HIDE DEF c, Body, L
  <2>1. c = [n \in 0..L |-> Body(c, n)]
    BY <1>4
  <2>2. \A n \in 0..L : c[n] = Body(c, n)
    BY <2>1
  <2>3. 0 \in 0..L /\ \A n \in 1..L : n \in 0..L /\ n # 0
    BY <1>0
  <2> QED
    BY <2>2, <2>3 DEF Body
<1>7. \A n \in 0..L : c[n] \in B
  <2> DEFINE T == {n \in Nat : n <= L => c[n] \in B}
  <2> HIDE DEF c
  <2>1. 0 \in T
    BY <1>0, <1>6
  <2>2. ASSUME NEW n \in Nat, n \in T PROVE n + 1 \in T
    <3> SUFFICES ASSUME n + 1 <= L PROVE c[n + 1] \in B
      OBVIOUS
    <3>1. n + 1 \in 1..L /\ (n + 1) - 1 = n /\ c[n] \in B
      BY <1>0, <2>2
    <3>2. c[n + 1] = c[n] \o g[seq[n + 1]] /\ g[seq[n + 1]] \in B
      <4> HIDE DEF L, B
      <4> QED
        BY <1>0, <1>6, <3>1
    <3> QED
      BY <3>1, <3>2
  <2>3. Nat \subseteq T
    <3> HIDE DEF T
    <3> QED
      BY <2>1, <2>2, NatSet
  <2> QED
    BY <1>0, <2>3
<1> QED
  <2> HIDE DEF c
  <2> QED
    BY <1>5, <1>6, <1>7 DEF IsGathering

\* The last member comes last.
GathersLast(seq, x, g) == Gathered(Append(seq, x), g) = Gathered(seq, g) \o g[x]

\* One member more adds what g makes of it.
LEMMA GatheredAppend ==
  ASSUME NEW S, NEW F, NEW seq \in Seq(S), NEW x \in S, NEW g, MakesLists(g, S, F)
  PROVE  GathersLast(seq, x, g) /\ Gathered(seq, g) \in Seq(F)
<1> DEFINE L == Len(seq)
           t == Append(seq, x)
<1>1. L \in Nat /\ t \in Seq(S) /\ Len(t) = L + 1 /\ t[L + 1] = x /\ \A i \in 1..L : t[i] = seq[i]
  OBVIOUS
<1> HIDE DEF t
<1>2. PICK p : IsGathering(p, seq, g, F)
  BY GatheredSteps
<1>3. PICK q : IsGathering(q, t, g, F)
  BY <1>1, GatheredSteps
<1> DEFINE T == {n \in Nat : n <= L => p[n] = q[n]}
<1>4. 0 \in T
  BY <1>2, <1>3 DEF IsGathering
<1>5. ASSUME NEW n \in Nat, n \in T PROVE n + 1 \in T
  <2> SUFFICES ASSUME n + 1 <= L PROVE p[n + 1] = q[n + 1]
    OBVIOUS
  <2>1. n + 1 \in 1..L /\ n + 1 \in 1..Len(t) /\ (n + 1) - 1 = n /\ p[n] = q[n]
    BY <1>1, <1>5
  <2>2. p[n + 1] = p[n] \o g[seq[n + 1]] /\ q[n + 1] = q[n] \o g[t[n + 1]]
    BY <1>2, <1>3, <2>1 DEF IsGathering
  <2> QED
    BY <1>1, <2>1, <2>2
<1>6. Nat \subseteq T
  <2> HIDE DEF T
  <2> QED
    BY <1>4, <1>5, NatSet
<1>7. p[L] = q[L]
  BY <1>1, <1>6
<1>8. q[L + 1] = q[L] \o g[x]
  <2>1. L + 1 \in 1..Len(t) /\ (L + 1) - 1 = L
    BY <1>1
  <2> QED
    BY <1>1, <1>3, <2>1 DEF IsGathering
<1>9. Gathered(seq, g) = p[L] /\ p[L] \in Seq(F) /\ Gathered(t, g) = q[L + 1]
  BY <1>1, <1>2, <1>3 DEF IsGathering
<1> QED
  BY <1>7, <1>8, <1>9 DEF t, GathersLast

\* What is gathered is a list.
LEMMA GatheredType ==
  ASSUME NEW S, NEW F, NEW seq \in Seq(S), NEW g, MakesLists(g, S, F)
  PROVE  Gathered(seq, g) \in Seq(F)
<1>1. PICK f : IsGathering(f, seq, g, F)
  BY GatheredSteps
<1>2. Len(seq) \in 0..Len(seq)
  OBVIOUS
<1> QED
  BY <1>1, <1>2 DEF IsGathering

\* Of no members nothing is gathered.
LEMMA GatheredEmpty ==
  ASSUME NEW S, NEW F, NEW g, MakesLists(g, S, F)
  PROVE  Gathered(<<>>, g) = <<>>
<1> DEFINE e == <<>>
<1>1. e \in Seq(S) /\ Len(e) = 0
  OBVIOUS
<1> HIDE DEF e
<1>2. PICK p : IsGathering(p, e, g, F)
  BY <1>1, GatheredSteps
<1>3. Gathered(e, g) = <<>>
  BY <1>1, <1>2 DEF IsGathering
<1> QED
  BY <1>3 DEF e

\* The first member comes first.
GathersFirst(x, seq, g) == Gathered(<<x>> \o seq, g) = g[x] \o Gathered(seq, g)

\* What is made of a first member is in front of what is made of the others.
LEMMA GatheredFirst ==
  ASSUME NEW S, NEW F, NEW x \in S, NEW g, MakesLists(g, S, F)
  PROVE  \A seq \in Seq(S) : GathersFirst(x, seq, g)
<1> DEFINE one == <<x>>
           T == {seq \in Seq(S) : GathersFirst(x, seq, g)}
<1>1. one \in Seq(S) /\ one \o <<>> = one /\ Append(<<>>, x) = one /\ g[x] \in Seq(F)
      /\ \A seq \in Seq(S), y \in S : one \o seq \in Seq(S) /\ one \o Append(seq, y) = Append(one \o seq, y)
  BY DEF MakesLists
<1>2. <<>> \in T
  <2> DEFINE e == <<>>
  <2>1. e \in Seq(S) /\ Gathered(e, g) = <<>>
    BY GatheredEmpty
  <2>2. Gathered(Append(e, x), g) = Gathered(e, g) \o g[x]
    <3> HIDE DEF e
    <3>1. GathersLast(e, x, g)
      BY <2>1, GatheredAppend
    <3> QED
      BY <3>1 DEF GathersLast
  <2>3. <<>> \o g[x] = g[x] /\ g[x] \o <<>> = g[x]
    BY <1>1
  <2> QED
    BY <1>1, <2>1, <2>2, <2>3 DEF GathersFirst
<1>3. ASSUME NEW seq \in Seq(S), NEW y \in S, seq \in T PROVE Append(seq, y) \in T
  <2> HIDE DEF one
  <2>1. GathersLast(one \o seq, y, g)
    <3> DEFINE more == one \o seq
    <3>1. more \in Seq(S)
      BY <1>1
    <3> HIDE DEF more
    <3>2. GathersLast(more, y, g)
      BY <3>1, GatheredAppend
    <3> QED
      BY <3>2 DEF more
  <2>2. Gathered(one \o seq, g) = g[x] \o Gathered(seq, g)
    BY <1>3 DEF GathersFirst, one
  <2>3. GathersLast(seq, y, g) /\ Gathered(seq, g) \in Seq(F)
    BY GatheredAppend
  <2>4. g[y] \in Seq(F)
    BY DEF MakesLists
  <2>5. Associates(g[x], Gathered(seq, g), g[y])
    BY <1>1, <2>3, <2>4, ListsAssociate
  <2>6. Append(seq, y) \in Seq(S) /\ one \o Append(seq, y) = Append(one \o seq, y)
    BY <1>1
  <2> QED
    BY <2>1, <2>2, <2>3, <2>5, <2>6 DEF GathersFirst, GathersLast, Associates, one
<1>4. Seq(S) \subseteq T
  <2> HIDE DEF T
  <2> QED
    BY <1>2, <1>3, AppendInduction
<1> QED
  BY <1>4

-------------------------------------------------------------------------------
(* Orders on their way *)

Fields == Seq(Text)

InCall(t) == pc[t] \in {"scan", "copy", "read", "done"}

QueueFields(r) == [message \in Text |-> FieldsOf(r)[Parts(message, "|")]]

\* The fields of the orders of client r that order entry has taken, those in the
\* queue, in the messages to be handled, and in the chunk being split.
InEntry(r) == IF InCall(OrderEntry) THEN QueueFields(r)[text[OrderEntry]] ELSE <<>>
InQueue(r) == Gathered(queue, QueueFields(r))
InTodo(r) == Gathered(todo[r], OrderFields(r))
InSplit(r) == IF InCall(r) /\ delim[r] = "&" THEN ChunkFields(r)[text[r]] ELSE <<>>

\* All of them, the first one sent first.
Flow(r) ==
  HandledFor(r) \o (InEntry(r) \o (InQueue(r) \o
    (InTodo(r) \o (InSplit(r) \o OrdersOf(r, chunks[r])))))

\* As long as no two calls overlapped, each is alone.
Separate == mixed \/ \A t \in Threads : alone[t]

\* A receiver splits a chunk when its messages are done, and order entry splits orders.
FlowInv ==
  /\ handled \in Seq(Fields)
  /\ InCall(OrderEntry) => delim[OrderEntry] = "|"
  /\ \A r \in Receivers : InCall(r) /\ delim[r] = "&" => todo[r] = <<>>
  /\ Separate

\* A message with a connection number behind it is a text.
LEMMA NumberedType ==
  ASSUME NEW m \in Text, NEW r \in Receivers
  PROVE  Numbered(m, r) \in Text
<1>1. m \in Seq(Symbols) /\ <<"|", r, "|">> \in Seq(Symbols)
  BY SymbolsAssumption DEF Text
<1> QED
  BY <1>1 DEF Numbered, Text

\* The number is the last field, whatever the message is.
LEMMA LastIsNumber ==
  ASSUME NEW m \in Text, NEW r \in Receivers
  PROVE  /\ Parts(Numbered(m, r), "|") \in Fields
         /\ Last(Parts(Numbered(m, r), "|")) = <<r>>
<1> DEFINE e == <<>>
           one == Append(e, r)
           two == Append(one, "|")
           P == Parts(m, "|")
<1>1. m \in Seq(Symbols) /\ r \in Symbols /\ "|" \in Symbols /\ r # "|"
  BY SymbolsAssumption DEF Text
<1>2. e \in Seq(Symbols) /\ one \in Seq(Symbols) /\ two \in Seq(Symbols)
  BY <1>1
<1>3. Numbered(m, r) = Append(m, "|") \o two
  BY <1>1 DEF Numbered
<1>4. Parts(one, "|") = <<<<r>>>>
  <2>1. Parts(one, "|") = Grown(e, r, "|", Parts(e, "|"))
    BY <1>1, <1>2, PartsAppend
  <2>2. Parts(e, "|") = <<>>
    BY PartsEmpty
  <2>3. Grown(e, r, "|", <<>>) = Append(<<>>, <<r>>)
    BY <1>1 DEF Grown
  <2>4. Append(<<>>, <<r>>) = <<<<r>>>>
    OBVIOUS
  <2> HIDE DEF one, e
  <2> QED
    BY <2>1, <2>2, <2>3, <2>4
<1>5. Parts(two, "|") = <<<<r>>>>
  <2>1. Parts(two, "|") = Grown(one, "|", "|", Parts(one, "|"))
    <3> HIDE DEF one
    <3> QED
      BY <1>1, <1>2, PartsAppend
  <2> HIDE DEF one, two
  <2> QED
    BY <1>4, <2>1 DEF Grown
<1> HIDE DEF one, two, e
<1>6. Parts(Append(m, "|") \o two, "|") = P \o Parts(two, "|")
  BY <1>1, <1>2, PartsJoin
<1>7. P \in Seq(Seq(Symbols))
  BY <1>1, PartsType
<1>8. Parts(Numbered(m, r), "|") = P \o <<<<r>>>>
  BY <1>3, <1>5, <1>6
<1> HIDE DEF P
<1>9. <<r>> \in Seq(Symbols)
  BY <1>1
<1> DEFINE x == <<r>>
           Q == P \o <<x>>
           B == Seq(Symbols)
<1>10. x \in B /\ P \in Seq(B)
  BY <1>7, <1>9
<1> HIDE DEF x, B
<1>11. Q \in Seq(B) /\ Len(Q) = Len(P) + 1 /\ Q[Len(P) + 1] = x /\ Len(P) \in Nat
  BY <1>10
<1> HIDE DEF Q
<1>12. Last(Q) = x
  BY <1>11 DEF Last
<1> QED
  BY <1>8, <1>11, <1>12 DEF Fields, Text, Q, x, B

\* What is gathered are lists of fields.
LEMMA ListsOfFields ==
  ASSUME NEW r \in Receivers
  PROVE  /\ MakesLists(FieldsOf(r), Fields, Fields)
         /\ MakesLists(QueueFields(r), Text, Fields)
         /\ MakesLists(OrderFields(r), Text, Fields)
         /\ MakesLists(ChunkFields(r), Text, Fields)
<1>1. MakesLists(FieldsOf(r), Fields, Fields)
  <2>1. \A f \in Fields : (IF Last(f) = <<r>> THEN <<f>> ELSE <<>>) \in Seq(Fields)
    <3> HIDE DEF Fields
    <3> QED
      OBVIOUS
  <2> QED
    BY <2>1 DEF MakesLists, FieldsOf, Fields, Text
<1>2. \A m \in Text : Parts(m, "|") \in Fields /\ Parts(m, "&") \in Fields
  BY PartsType DEF Fields, Text
<1>3. MakesLists(QueueFields(r), Text, Fields)
  BY <1>1, <1>2 DEF MakesLists, QueueFields
<1>4. MakesLists(OrderFields(r), Text, Fields)
  <2> DEFINE made(m) == IF Code(Numbered(m, r)) = "87" THEN <<Parts(Numbered(m, r), "|")>> ELSE <<>>
  <2>1. \A m \in Text : made(m) \in Seq(Fields)
    <3> SUFFICES ASSUME NEW m \in Text PROVE made(m) \in Seq(Fields)
      OBVIOUS
    <3>1. Parts(Numbered(m, r), "|") \in Fields
      BY LastIsNumber
    <3> HIDE DEF Fields
    <3> QED
      BY <3>1
  <2> HIDE DEF made
  <2>2. OrderFields(r) = [m \in Text |-> made(m)]
    BY DEF OrderFields, made, Text
  <2> QED
    BY <2>1, <2>2 DEF MakesLists
<1>5. MakesLists(ChunkFields(r), Text, Fields)
  <2>1. \A c \in Text : Gathered(Parts(c, "&"), OrderFields(r)) \in Seq(Fields)
    <3> SUFFICES ASSUME NEW c \in Text
                 PROVE  Gathered(Parts(c, "&"), OrderFields(r)) \in Seq(Fields)
      OBVIOUS
    <3>1. Parts(c, "&") \in Seq(Text)
      BY <1>2 DEF Fields
    <3> QED
      BY <1>4, <3>1, GatheredType
  <2> QED
    BY <2>1 DEF MakesLists, ChunkFields, Text
<1> QED
  BY <1>1, <1>3, <1>4, <1>5

\* The stages of the way are lists of fields.
LEMMA FlowTypes ==
  ASSUME DispatchInv, CallInv, FlowInv, NEW r \in Receivers
  PROVE  /\ HandledFor(r) \in Seq(Fields) /\ InEntry(r) \in Seq(Fields)
         /\ InQueue(r) \in Seq(Fields) /\ InTodo(r) \in Seq(Fields)
         /\ InSplit(r) \in Seq(Fields) /\ OrdersOf(r, chunks[r]) \in Seq(Fields)
<1>1. /\ handled \in Seq(Fields) /\ queue \in Seq(Text) /\ todo[r] \in Seq(Text)
      /\ chunks[r] \in Seq(Text) /\ text[OrderEntry] \in Text /\ text[r] \in Text
  BY DEF FlowInv, DispatchInv, TextInv, CallInv, Threads
<1>2. /\ HandledFor(r) \in Seq(Fields) /\ InQueue(r) \in Seq(Fields)
      /\ InTodo(r) \in Seq(Fields) /\ OrdersOf(r, chunks[r]) \in Seq(Fields)
  BY <1>1, ListsOfFields, GatheredType DEF HandledFor, InQueue, InTodo, OrdersOf
<1>3. QueueFields(r)[text[OrderEntry]] \in Seq(Fields) /\ ChunkFields(r)[text[r]] \in Seq(Fields)
      /\ <<>> \in Seq(Fields)
  BY <1>1, ListsOfFields DEF MakesLists
<1> QED
  BY <1>2, <1>3 DEF InEntry, InSplit

\* A stage changes only with what it is made of.
LEMMA SameStages ==
  ASSUME NEW r \in Receivers
  PROVE  /\ handled' = handled => HandledFor(r)' = HandledFor(r)
         /\ queue' = queue => InQueue(r)' = InQueue(r)
         /\ todo'[r] = todo[r] => InTodo(r)' = InTodo(r)
         /\ chunks'[r] = chunks[r] => OrdersOf(r, chunks[r])' = OrdersOf(r, chunks[r])
         /\ (InCall(r)' <=> InCall(r)) /\ delim'[r] = delim[r] /\ text'[r] = text[r] =>
              InSplit(r)' = InSplit(r)
         /\ (InCall(OrderEntry)' <=> InCall(OrderEntry)) /\ text'[OrderEntry] = text[OrderEntry] =>
              InEntry(r)' = InEntry(r)
BY DEF HandledFor, InQueue, InTodo, OrdersOf, InSplit, InEntry

\* What a new call of split changes.
LEMMA BeginFrame ==
  ASSUME DispatchInv, CallInv, FlowInv, NEW t \in Threads, NEW s, NEW d, BeginSplit(t, s, d)
  PROVE  /\ InCall(t)' /\ text'[t] = s /\ delim'[t] = d
         /\ \A u \in Threads \ {t} :
              (InCall(u)' <=> InCall(u)) /\ text'[u] = text[u] /\ delim'[u] = delim[u]
         /\ Separate'
<1> DEFINE others == {u \in Threads \ {t} : Splitting(u)}
<1>1. /\ text' = [text EXCEPT ![t] = s] /\ delim' = [delim EXCEPT ![t] = d]
      /\ pc' = [pc EXCEPT ![t] = "scan"] /\ mixed' = (mixed \/ others # {})
      /\ alone' = [u \in Threads |-> IF u = t THEN others = {} ELSE alone[u] /\ u \notin others]
  BY DEF BeginSplit, Go
<1> HIDE DEF others
<1>2. InCall(t)' /\ text'[t] = s /\ delim'[t] = d
  BY <1>1 DEF InCall, DispatchInv, ThreadInv, PlaceInv, CallInv
<1>3. ASSUME NEW u \in Threads \ {t}
      PROVE  (InCall(u)' <=> InCall(u)) /\ text'[u] = text[u] /\ delim'[u] = delim[u]
  BY <1>1 DEF InCall, DispatchInv, ThreadInv, PlaceInv, CallInv
<1>4. ASSUME ~mixed' PROVE ~mixed /\ \A u \in Threads : alone'[u]
  <2>1. ~mixed /\ others = {}
    BY <1>1, <1>4
  <2>2. \A u \in Threads : alone[u] /\ u \notin others
    BY <2>1 DEF FlowInv, Separate
  <2>3. \A u \in Threads : alone'[u] = IF u = t THEN others = {} ELSE alone[u] /\ u \notin others
    BY <1>1
  <2> QED
    BY <2>1, <2>2, <2>3
<1> QED
  BY <1>2, <1>3, <1>4 DEF Separate

\* Inside a call of split nothing moves on.
LEMMA FlowInCall ==
  ASSUME DispatchInv, CallInv, FlowInv, NEW t \in Threads,
         Scan(t) \/ CopyPart(t) \/ ReadPosition(t)
  PROVE  FlowInv' /\ \A r \in Receivers : Flow(r)' = Flow(r)
<1>1. /\ UNCHANGED <<handled, chunks, todo, queue, delim, text, alone, mixed>>
      /\ \A u \in Threads : InCall(u)' <=> InCall(u)
  BY DEF Scan, CopyPart, ReadPosition, Go, InCall, DispatchInv, ThreadInv
<1>2. OrderEntry \in Threads /\ Receivers \subseteq Threads
  BY DEF Threads
<1>3. FlowInv'
  BY <1>1, <1>2 DEF FlowInv, Separate
<1>4. ASSUME NEW r \in Receivers PROVE Flow(r)' = Flow(r)
  BY <1>1, <1>2, SameStages DEF Flow
<1> QED
  BY <1>3, <1>4

\* A chunk received is a chunk being split.
LEMMA FlowReceives ==
  ASSUME DispatchInv, CallInv, FlowInv, NEW r \in Receivers, ReceiveChunk(r)
  PROVE  FlowInv' /\ \A u \in Receivers : mixed' \/ Flow(u)' = Flow(u)
<1> DEFINE chunk == Head(chunks[r])
           rest == Tail(chunks[r])
<1>1. /\ pc[r] = "idle" /\ todo[r] = <<>> /\ BeginSplit(r, chunk, "&")
      /\ chunks' = [chunks EXCEPT ![r] = rest] /\ UNCHANGED <<process, todo, queue, handled>>
      /\ chunks[r] \in Seq(Text) /\ chunks[r] # <<>> /\ chunks \in [Receivers -> Seq(Text)]
  BY DEF ReceiveChunk, DispatchInv, TextInv
<1>2. OrderEntry \in Threads /\ Receivers \subseteq Threads /\ r # OrderEntry
  BY ThreadsAssumption DEF Threads
<1>3. chunk \in Text /\ rest \in Seq(Text) /\ chunks[r] = <<chunk>> \o rest
  BY <1>1
<1> HIDE DEF chunk, rest
<1>4. /\ InCall(r)' /\ text'[r] = chunk /\ delim'[r] = "&"
      /\ \A u \in Threads \ {r} :
           (InCall(u)' <=> InCall(u)) /\ text'[u] = text[u] /\ delim'[u] = delim[u]
      /\ Separate'
  BY <1>1, <1>2, BeginFrame
<1>5. FlowInv'
  <2>1. InCall(OrderEntry)' => delim'[OrderEntry] = "|"
    BY <1>2, <1>4 DEF FlowInv
  <2>2. ASSUME NEW u \in Receivers, InCall(u)', delim'[u] = "&" PROVE todo'[u] = <<>>
    BY <1>1, <1>2, <1>4, <2>2 DEF FlowInv
  <2> QED
    BY <1>1, <1>4, <2>1, <2>2 DEF FlowInv
<1>6. ASSUME NEW u \in Receivers, u # r PROVE Flow(u)' = Flow(u)
  BY <1>1, <1>2, <1>4, <1>6, SameStages DEF Flow
<1>7. Flow(r)' = Flow(r)
  <2>1. /\ HandledFor(r)' = HandledFor(r) /\ InEntry(r)' = InEntry(r)
        /\ InQueue(r)' = InQueue(r) /\ InTodo(r)' = InTodo(r)
    BY <1>1, <1>2, <1>4, SameStages
  <2>2. InSplit(r) = <<>>
    BY <1>1 DEF InSplit, InCall
  <2>3. InSplit(r)' = ChunkFields(r)[chunk]
    BY <1>4 DEF InSplit
  <2>4. OrdersOf(r, chunks[r]) = ChunkFields(r)[chunk] \o OrdersOf(r, rest)
    <3>1. GathersFirst(chunk, rest, ChunkFields(r))
      BY <1>3, ListsOfFields, GatheredFirst
    <3> QED
      BY <1>3, <3>1 DEF GathersFirst, OrdersOf
  <2>5. OrdersOf(r, chunks[r])' = OrdersOf(r, rest)
    BY <1>1
  <2>6. <<>> \o OrdersOf(r, chunks[r]) = OrdersOf(r, chunks[r])
    BY FlowTypes, ListsJoin
  <2> QED
    BY <2>1, <2>2, <2>3, <2>4, <2>5, <2>6 DEF Flow
<1> QED
  BY <1>5, <1>6, <1>7

\* The messages of a chunk are the parts of its text, when no calls overlapped.
LEMMA FlowTakes ==
  ASSUME DispatchInv, CallInv, FlowInv, NEW r \in Receivers, TakeMessages(r)
  PROVE  FlowInv' /\ \A u \in Receivers : mixed' \/ Flow(u)' = Flow(u)
<1>1. /\ pc[r] = "done" /\ delim[r] = "&" /\ todo' = [todo EXCEPT ![r] = res[r]]
      /\ pc' = [pc EXCEPT ![r] = "idle"]
      /\ UNCHANGED <<chunks, queue, delim, text, alone, mixed, res, handled>>
      /\ todo \in [Receivers -> Seq(Text)]
  BY DEF TakeMessages, Go, splitVars, DispatchInv, TextInv
<1>2. OrderEntry \in Threads /\ Receivers \subseteq Threads /\ r # OrderEntry
  BY ThreadsAssumption DEF Threads
<1>3. ~InCall(r)' /\ InCall(r) /\ \A u \in Threads \ {r} : InCall(u)' <=> InCall(u)
  BY <1>1, <1>2 DEF InCall, DispatchInv, ThreadInv
<1>4. FlowInv'
  <2>1. ASSUME NEW u \in Receivers, InCall(u)', delim'[u] = "&" PROVE todo'[u] = <<>>
    BY <1>1, <1>2, <1>3, <2>1 DEF FlowInv
  <2> QED
    BY <1>1, <1>2, <1>3, <2>1 DEF FlowInv, Separate
<1>5. ASSUME NEW u \in Receivers, u # r PROVE Flow(u)' = Flow(u)
  BY <1>1, <1>2, <1>3, <1>5, SameStages DEF Flow
<1>6. ASSUME ~mixed PROVE Flow(r)' = Flow(r)
  <2>1. /\ HandledFor(r)' = HandledFor(r) /\ InEntry(r)' = InEntry(r)
        /\ InQueue(r)' = InQueue(r) /\ OrdersOf(r, chunks[r])' = OrdersOf(r, chunks[r])
    BY <1>1, <1>2, <1>3, SameStages
  <2>2. alone[r] /\ text[r] \in Text
    BY <1>2, <1>6 DEF FlowInv, Separate, CallInv
  <2>3. res[r] = Parts(text[r], "&")
    BY <1>1, <1>2, <2>2 DEF CallInv, Exact
  <2>4. InSplit(r) = Gathered(res[r], OrderFields(r)) /\ InSplit(r)' = <<>>
    BY <1>1, <1>3, <2>2, <2>3 DEF InSplit, ChunkFields, Text
  <2>5. InTodo(r) = <<>>
    <3>1. todo[r] = <<>>
      BY <1>1, <1>3 DEF FlowInv
    <3> QED
      BY <3>1, ListsOfFields, GatheredEmpty DEF InTodo
  <2>6. InTodo(r)' = Gathered(res[r], OrderFields(r))
    BY <1>1 DEF InTodo
  <2> DEFINE X == OrdersOf(r, chunks[r])
             S == InSplit(r)
  <2>7. <<>> \o (S \o X) = S \o X /\ <<>> \o X = X
    <3>1. S \in Seq(Fields) /\ X \in Seq(Fields)
      BY FlowTypes
    <3> HIDE DEF S, X
    <3> QED
      BY <3>1, ListsJoin
  <2> QED
    BY <2>1, <2>4, <2>5, <2>6, <2>7 DEF Flow
<1> QED
  BY <1>1, <1>4, <1>5, <1>6

\* A message handled that is an order is in the queue, the others have none.
LEMMA FlowHandles ==
  ASSUME DispatchInv, CallInv, FlowInv, NEW r \in Receivers, msgHandler(r)
  PROVE  FlowInv' /\ \A u \in Receivers : mixed' \/ Flow(u)' = Flow(u)
<1> DEFINE m == Head(todo[r])
           rest == Tail(todo[r])
           n == Numbered(m, r)
           code == Code(n)
<1>1. /\ pc[r] = "idle" /\ todo[r] # <<>> /\ todo' = [todo EXCEPT ![r] = rest]
      /\ UNCHANGED <<chunks, handled>>
      /\ todo[r] \in Seq(Text) /\ todo \in [Receivers -> Seq(Text)] /\ queue \in Seq(Text)
  BY DEF msgHandler, DispatchInv, TextInv
<1>2. OrderEntry \in Threads /\ Receivers \subseteq Threads /\ r # OrderEntry
  BY ThreadsAssumption DEF Threads
<1>3. m \in Text /\ rest \in Seq(Text) /\ todo[r] = <<m>> \o rest
  BY <1>1
<1>4. \/ code = "87" /\ queue' = Append(queue, n) /\ UNCHANGED <<pc, splitVars>>
      \/ code = "1233" /\ BeginSplit(r, n, "|") /\ UNCHANGED queue
      \/ code # "87" /\ code # "1233" /\ UNCHANGED <<queue, pc, splitVars>>
  BY DEF msgHandler, pushDTA
<1> HIDE DEF m, rest
<1>5. n \in Text /\ Parts(n, "|") \in Fields /\ Last(Parts(n, "|")) = <<r>>
  BY <1>3, NumberedType, LastIsNumber
<1>6. OrderFields(r)[m] = IF code = "87" THEN <<Parts(n, "|")>> ELSE <<>>
  BY <1>3 DEF OrderFields, Text
<1> HIDE DEF n, code
<1>7. InTodo(r) = OrderFields(r)[m] \o InTodo(r)'
  <2>1. GathersFirst(m, rest, OrderFields(r))
    BY <1>3, ListsOfFields, GatheredFirst
  <2>2. InTodo(r)' = Gathered(rest, OrderFields(r))
    BY <1>1 DEF InTodo
  <2> QED
    BY <1>3, <2>1, <2>2 DEF GathersFirst, InTodo
<1>8. InTodo(r)' \in Seq(Fields)
  <2>1. Gathered(rest, OrderFields(r)) \in Seq(Fields)
    BY <1>3, ListsOfFields, GatheredType
  <2> QED
    BY <1>1, <2>1 DEF InTodo
<1>9. CASE code = "87"
  <2>1. queue' = Append(queue, n) /\ UNCHANGED <<pc, splitVars>>
    BY <1>4, <1>9
  <2>2. FlowInv'
    <3>1. ASSUME NEW u \in Receivers, InCall(u)', delim'[u] = "&" PROVE todo'[u] = <<>>
      BY <1>1, <1>2, <2>1, <3>1 DEF FlowInv, InCall, splitVars
    <3> QED
      BY <1>1, <2>1, <3>1 DEF FlowInv, InCall, splitVars, Separate
  <2>3. ASSUME NEW u \in Receivers PROVE InQueue(u)' = InQueue(u) \o QueueFields(u)[n]
    <3>1. GathersLast(queue, n, QueueFields(u))
      BY <1>1, <1>5, ListsOfFields, GatheredAppend
    <3> QED
      BY <2>1, <3>1 DEF GathersLast, InQueue
  <2>4. ASSUME NEW u \in Receivers
        PROVE  QueueFields(u)[n] = IF u = r THEN <<Parts(n, "|")>> ELSE <<>>
    <3>1. QueueFields(u)[n] = FieldsOf(u)[Parts(n, "|")]
      BY <1>5 DEF QueueFields
    <3>2. FieldsOf(u)[Parts(n, "|")] =
            IF Last(Parts(n, "|")) = <<u>> THEN <<Parts(n, "|")>> ELSE <<>>
      BY <1>5 DEF FieldsOf, Fields, Text
    <3>3. <<r>> = <<u>> <=> u = r
      OBVIOUS
    <3> QED
      BY <1>5, <3>1, <3>2, <3>3
  <2>5. ASSUME NEW u \in Receivers, u # r PROVE Flow(u)' = Flow(u)
    <3>1. InQueue(u)' = InQueue(u)
      <4>1. InQueue(u)' = InQueue(u) \o <<>>
        BY <2>3, <2>4, <2>5
      <4>2. InQueue(u) \o <<>> = InQueue(u)
        BY FlowTypes, ListsJoin
      <4> QED
        BY <4>1, <4>2
    <3>2. /\ todo'[u] = todo[u] /\ (InCall(u)' <=> InCall(u))
          /\ (InCall(OrderEntry)' <=> InCall(OrderEntry)) /\ text' = text /\ delim' = delim
      BY <1>1, <2>1, <2>5 DEF InCall, splitVars
    <3> QED
      BY <1>1, <3>1, <3>2, SameStages DEF Flow
  <2>6. Flow(r)' = Flow(r)
    <3> DEFINE O == OrderFields(r)[m]
               Q == InQueue(r)
               T == InTodo(r)'
               R == InSplit(r) \o OrdersOf(r, chunks[r])
    <3>1. /\ (InCall(r)' <=> InCall(r)) /\ text' = text /\ delim' = delim
          /\ (InCall(OrderEntry)' <=> InCall(OrderEntry))
      BY <2>1 DEF InCall, splitVars
    <3>2. /\ HandledFor(r)' = HandledFor(r) /\ InEntry(r)' = InEntry(r)
          /\ InSplit(r)' = InSplit(r) /\ OrdersOf(r, chunks[r])' = OrdersOf(r, chunks[r])
      BY <1>1, <3>1, SameStages
    <3>3. InQueue(r)' = Q \o O
      BY <1>6, <1>9, <2>3, <2>4
    <3>4. O \in Seq(Fields) /\ Q \in Seq(Fields) /\ T \in Seq(Fields) /\ R \in Seq(Fields)
      <4>1. O \in Seq(Fields)
        BY <1>3, ListsOfFields DEF MakesLists
      <4>2. R \in Seq(Fields)
        BY FlowTypes, ListsJoin
      <4> QED
        BY <1>8, <4>1, <4>2, FlowTypes
    <3> HIDE DEF O, Q, T, R
    <3>5. Associates(O, T, R) /\ Associates(Q, O, T \o R)
      BY <3>4, ListsAssociate, ListsJoin
    <3>6. (Q \o O) \o (T \o R) = Q \o ((O \o T) \o R)
      BY <3>5 DEF Associates
    <3>7. InTodo(r) = O \o T /\ InTodo(r)' = T /\ InQueue(r) = Q
      BY <1>7 DEF O, T, Q
    <3> QED
      BY <3>2, <3>3, <3>6, <3>7 DEF Flow, R
  <2> QED
    BY <2>2, <2>5, <2>6
<1>10. ASSUME code # "87" PROVE InTodo(r)' = InTodo(r)
  BY <1>6, <1>7, <1>8, <1>10, ListsJoin
<1>11. CASE code = "1233"
  <2>1. BeginSplit(r, n, "|") /\ UNCHANGED queue /\ code # "87"
    BY <1>4, <1>11
  <2>2. /\ InCall(r)' /\ text'[r] = n /\ delim'[r] = "|"
        /\ \A u \in Threads \ {r} :
             (InCall(u)' <=> InCall(u)) /\ text'[u] = text[u] /\ delim'[u] = delim[u]
        /\ Separate'
    BY <1>2, <2>1, BeginFrame
  <2>3. FlowInv'
    <3>1. InCall(OrderEntry)' => delim'[OrderEntry] = "|"
      BY <1>2, <2>2 DEF FlowInv
    <3>2. ASSUME NEW u \in Receivers, InCall(u)', delim'[u] = "&" PROVE todo'[u] = <<>>
      BY <1>1, <1>2, <2>2, <3>2 DEF FlowInv
    <3> QED
      BY <1>1, <2>2, <3>1, <3>2 DEF FlowInv
  <2>4. ASSUME NEW u \in Receivers, u # r PROVE Flow(u)' = Flow(u)
    BY <1>1, <1>2, <2>1, <2>2, <2>4, SameStages DEF Flow
  <2>5. Flow(r)' = Flow(r)
    <3>1. InSplit(r) = <<>> /\ InSplit(r)' = <<>>
      BY <1>1, <2>2 DEF InSplit, InCall
    <3>2. InTodo(r)' = InTodo(r)
      BY <1>10, <2>1
    <3> QED
      BY <1>1, <1>2, <2>1, <2>2, <3>1, <3>2, SameStages DEF Flow
  <2> QED
    BY <2>3, <2>4, <2>5
<1>12. CASE code # "87" /\ code # "1233"
  <2>1. UNCHANGED <<queue, pc, splitVars>>
    BY <1>4, <1>12
  <2>2. FlowInv'
    <3>1. ASSUME NEW u \in Receivers, InCall(u)', delim'[u] = "&" PROVE todo'[u] = <<>>
      BY <1>1, <1>2, <2>1, <3>1 DEF FlowInv, InCall, splitVars
    <3> QED
      BY <1>1, <2>1, <3>1 DEF FlowInv, InCall, splitVars, Separate
  <2>3. InTodo(r)' = InTodo(r)
    BY <1>10, <1>12
  <2>4. ASSUME NEW u \in Receivers PROVE Flow(u)' = Flow(u)
    <3>1. /\ (u # r => todo'[u] = todo[u]) /\ (InCall(u)' <=> InCall(u))
          /\ (InCall(OrderEntry)' <=> InCall(OrderEntry)) /\ text' = text /\ delim' = delim
      BY <1>1, <2>1 DEF InCall, splitVars
    <3> QED
      BY <1>1, <2>1, <2>3, <3>1, SameStages DEF Flow
  <2> QED
    BY <2>2, <2>4
<1> QED
  BY <1>9, <1>11, <1>12

\* A price answered is no order.
LEMMA FlowAnswers ==
  ASSUME DispatchInv, CallInv, FlowInv, NEW r \in Receivers, AnswerPrice(r)
  PROVE  FlowInv' /\ \A u \in Receivers : mixed' \/ Flow(u)' = Flow(u)
<1>1. /\ pc[r] = "done" /\ delim[r] = "|" /\ pc' = [pc EXCEPT ![r] = "idle"]
      /\ UNCHANGED <<chunks, todo, queue, delim, text, alone, mixed, handled>>
  BY DEF AnswerPrice, Go, splitVars
<1>2. OrderEntry \in Threads /\ Receivers \subseteq Threads /\ r # OrderEntry
  BY ThreadsAssumption DEF Threads
<1>3. ~InCall(r)' /\ \A u \in Threads \ {r} : InCall(u)' <=> InCall(u)
  BY <1>1, <1>2 DEF InCall, DispatchInv, ThreadInv
<1>4. FlowInv'
  <2>1. ASSUME NEW u \in Receivers, InCall(u)', delim'[u] = "&" PROVE todo'[u] = <<>>
    BY <1>1, <1>2, <1>3, <2>1 DEF FlowInv
  <2> QED
    BY <1>1, <1>2, <1>3, <2>1 DEF FlowInv, Separate
<1>5. ASSUME NEW u \in Receivers, u # r PROVE Flow(u)' = Flow(u)
  BY <1>1, <1>2, <1>3, <1>5, SameStages DEF Flow
<1>6. Flow(r)' = Flow(r)
  <2>1. InSplit(r) = <<>> /\ InSplit(r)' = <<>>
    BY <1>1, <1>3 DEF InSplit
  <2> QED
    BY <1>1, <1>2, <1>3, <2>1, SameStages DEF Flow
<1> QED
  BY <1>4, <1>5, <1>6

\* An order taken is in order entry, and one handled has left it.
LEMMA FlowEntry ==
  ASSUME DispatchInv, CallInv, FlowInv, PollQueue \/ PopOrder \/ HandleOrder
  PROVE  FlowInv' /\ \A u \in Receivers : mixed' \/ Flow(u)' = Flow(u)
<1>1. OrderEntry \in Threads /\ Receivers \subseteq Threads /\ OrderEntry \notin Receivers
  BY ThreadsAssumption DEF Threads
<1>2. CASE PollQueue
  <2>1. /\ UNCHANGED <<chunks, todo, queue, delim, text, alone, mixed, handled>>
        /\ \A u \in Threads : InCall(u)' <=> InCall(u)
    BY <1>1, <1>2 DEF PollQueue, Go, splitVars, InCall, DispatchInv, ThreadInv
  <2>2. FlowInv'
    BY <1>1, <2>1 DEF FlowInv, Separate
  <2>3. ASSUME NEW u \in Receivers PROVE Flow(u)' = Flow(u)
    BY <1>1, <2>1, SameStages DEF Flow
  <2> QED
    BY <2>2, <2>3
<1>3. CASE PopOrder
  <2> DEFINE m == Head(queue)
             rest == Tail(queue)
  <2>1. /\ queue # <<>> /\ queue' = rest /\ BeginSplit(OrderEntry, m, "|")
        /\ UNCHANGED <<chunks, todo, handled>> /\ pc[OrderEntry] = "pop"
        /\ queue \in Seq(Text)
    BY <1>3 DEF PopOrder, DispatchInv, QueueInv, TextInv
  <2>2. m \in Text /\ rest \in Seq(Text) /\ queue = <<m>> \o rest
    BY <2>1
  <2> HIDE DEF m, rest
  <2>3. /\ InCall(OrderEntry)' /\ text'[OrderEntry] = m /\ delim'[OrderEntry] = "|"
        /\ \A u \in Threads \ {OrderEntry} :
             (InCall(u)' <=> InCall(u)) /\ text'[u] = text[u] /\ delim'[u] = delim[u]
        /\ Separate'
    BY <1>1, <2>1, BeginFrame
  <2>4. FlowInv'
    <3>1. ASSUME NEW u \in Receivers, InCall(u)', delim'[u] = "&" PROVE todo'[u] = <<>>
      BY <1>1, <2>1, <2>3, <3>1 DEF FlowInv
    <3> QED
      BY <2>1, <2>3, <3>1 DEF FlowInv
  <2>5. ASSUME NEW u \in Receivers PROVE Flow(u)' = Flow(u)
    <3> DEFINE Q == QueueFields(u)[m]
               R == InTodo(u) \o (InSplit(u) \o OrdersOf(u, chunks[u]))
    <3>1. /\ HandledFor(u)' = HandledFor(u) /\ InTodo(u)' = InTodo(u)
          /\ InSplit(u)' = InSplit(u) /\ OrdersOf(u, chunks[u])' = OrdersOf(u, chunks[u])
      BY <1>1, <2>1, <2>3, SameStages
    <3>2. InEntry(u) = <<>> /\ InEntry(u)' = Q
      BY <2>1, <2>3 DEF InEntry, InCall
    <3>3. InQueue(u) = Q \o InQueue(u)'
      <4>1. GathersFirst(m, rest, QueueFields(u))
        BY <2>2, ListsOfFields, GatheredFirst
      <4>2. InQueue(u)' = Gathered(rest, QueueFields(u))
        BY <2>1 DEF InQueue
      <4> QED
        BY <2>2, <4>1, <4>2 DEF GathersFirst, InQueue
    <3>4. Q \in Seq(Fields) /\ InQueue(u)' \in Seq(Fields) /\ R \in Seq(Fields)
      <4>1. Q \in Seq(Fields)
        BY <2>2, ListsOfFields DEF MakesLists
      <4>2. Gathered(rest, QueueFields(u)) \in Seq(Fields)
        BY <2>2, ListsOfFields, GatheredType
      <4>3. InSplit(u) \o OrdersOf(u, chunks[u]) \in Seq(Fields)
        BY FlowTypes, ListsJoin
      <4>4. R \in Seq(Fields)
        BY <4>3, FlowTypes, ListsJoin
      <4> QED
        BY <2>1, <4>1, <4>2, <4>4 DEF InQueue
    <3> DEFINE W == InQueue(u)'
    <3> HIDE DEF Q, R, W
    <3>5. Associates(Q, W, R) /\ <<>> \o ((Q \o W) \o R) = (Q \o W) \o R
      BY <3>4, ListsAssociate, ListsJoin DEF W
    <3> QED
      BY <3>1, <3>2, <3>3, <3>5 DEF Associates, Flow, R, W
  <2> QED
    BY <2>4, <2>5
<1>4. CASE HandleOrder
  <2> DEFINE fields == res[OrderEntry]
  <2>1. /\ pc[OrderEntry] = "done" /\ pc' = [pc EXCEPT ![OrderEntry] = "idle"]
        /\ UNCHANGED <<chunks, todo, queue, delim, text, alone, mixed>>
        /\ \/ handled' = Append(handled, fields)
           \/ fields # Parts(text[OrderEntry], "|") /\ handled' = handled
        /\ fields \in Fields
    BY <1>1, <1>4 DEF HandleOrder, Go, splitVars, DispatchInv, TextInv, Fields
  <2>2. ~InCall(OrderEntry)' /\ InCall(OrderEntry) /\ delim[OrderEntry] = "|"
        /\ \A u \in Threads \ {OrderEntry} : InCall(u)' <=> InCall(u)
    BY <1>1, <2>1 DEF InCall, DispatchInv, ThreadInv, FlowInv
  <2>3. ASSUME ~mixed PROVE fields = Parts(text[OrderEntry], "|")
    <3>1. alone[OrderEntry]
      BY <1>1, <2>3 DEF FlowInv, Separate
    <3> QED
      BY <1>1, <2>1, <2>2, <3>1 DEF CallInv, Exact
  <2> HIDE DEF fields
  <2>4. handled \in Seq(Fields) /\ handled' \in Seq(Fields)
    <3>1. handled \in Seq(Fields)
      BY DEF FlowInv
    <3> HIDE DEF Fields
    <3> QED
      BY <2>1, <3>1
  <2>5. FlowInv'
    <3>1. ASSUME NEW u \in Receivers, InCall(u)', delim'[u] = "&" PROVE todo'[u] = <<>>
      BY <1>1, <2>1, <2>2, <3>1 DEF FlowInv
    <3> QED
      BY <2>1, <2>2, <2>4, <3>1 DEF FlowInv, Separate
  <2>6. ASSUME NEW u \in Receivers, ~mixed PROVE Flow(u)' = Flow(u)
    <3> DEFINE E == FieldsOf(u)[fields]
               H == HandledFor(u)
               R == InQueue(u) \o (InTodo(u) \o (InSplit(u) \o OrdersOf(u, chunks[u])))
    <3>1. /\ InQueue(u)' = InQueue(u) /\ InTodo(u)' = InTodo(u)
          /\ InSplit(u)' = InSplit(u) /\ OrdersOf(u, chunks[u])' = OrdersOf(u, chunks[u])
      BY <1>1, <2>1, <2>2, SameStages
    <3>2. InEntry(u) = E /\ InEntry(u)' = <<>>
      <4>1. text[OrderEntry] \in Text
        BY <1>1 DEF CallInv
      <4> QED
        BY <2>2, <2>3, <2>6, <4>1 DEF InEntry, QueueFields
    <3>3. HandledFor(u)' = H \o E
      <4>1. handled' = Append(handled, fields)
        BY <2>1, <2>3, <2>6
      <4>2. GathersLast(handled, fields, FieldsOf(u))
        BY <2>1, <2>4, ListsOfFields, GatheredAppend
      <4> QED
        BY <4>1, <4>2 DEF GathersLast, HandledFor
    <3>4. E \in Seq(Fields) /\ H \in Seq(Fields) /\ R \in Seq(Fields)
      <4>1. E \in Seq(Fields)
        BY <2>1, ListsOfFields DEF MakesLists
      <4>2. InSplit(u) \o OrdersOf(u, chunks[u]) \in Seq(Fields)
        BY FlowTypes, ListsJoin
      <4>3. InTodo(u) \o (InSplit(u) \o OrdersOf(u, chunks[u])) \in Seq(Fields)
        BY <4>2, FlowTypes, ListsJoin
      <4>4. R \in Seq(Fields)
        BY <4>3, FlowTypes, ListsJoin
      <4> QED
        BY <4>1, <4>4, FlowTypes
    <3> HIDE DEF E, H, R
    <3>5. Associates(H, E, R) /\ <<>> \o R = R
      BY <3>4, ListsAssociate, ListsJoin
    <3>6. Flow(u) = H \o (E \o R)
      BY <3>2 DEF Flow, H, R
    <3>7. Flow(u)' = (H \o E) \o (<<>> \o R)
      BY <3>1, <3>2, <3>3 DEF Flow, R
    <3> QED
      BY <3>5, <3>6, <3>7 DEF Associates
  <2>7. ASSUME NEW u \in Receivers PROVE mixed' \/ Flow(u)' = Flow(u)
    BY <2>1, <2>6
  <2> QED
    BY <2>5, <2>7
<1> QED
  BY <1>2, <1>3, <1>4

\* As long as no two calls overlap, what is on its way is what was sent, with what
\* was handled in front.
SentInv ==
  /\ FlowInv
  /\ mixed \/ \E sent \in Streams : \A r \in Receivers : Flow(r) = OrdersOf(r, sent[r])

\* At the start everything is still to be received.
LEMMA InitialFlow == Init => SentInv
<1> SUFFICES ASSUME Init PROVE SentInv
  OBVIOUS
<1>1. OrderEntry \in Threads /\ Receivers \subseteq Threads
  BY DEF Threads
<1>2. FlowInv
  <2>1. \A t \in Threads : ~InCall(t) /\ alone[t]
    BY DEF Init, InCall
  <2> QED
    BY <1>1, <2>1 DEF Init, FlowInv, Separate
<1>3. ASSUME NEW r \in Receivers PROVE Flow(r) = OrdersOf(r, chunks[r])
  <2> DEFINE X == OrdersOf(r, chunks[r])
  <2>1. HandledFor(r) = <<>> /\ InQueue(r) = <<>> /\ InTodo(r) = <<>>
    <3>1. handled = <<>> /\ queue = <<>> /\ todo[r] = <<>>
      BY DEF Init
    <3> QED
      BY <3>1, ListsOfFields, GatheredEmpty DEF HandledFor, InQueue, InTodo
  <2>2. InEntry(r) = <<>> /\ InSplit(r) = <<>>
    BY <1>1 DEF Init, InEntry, InSplit, InCall
  <2>3. X \in Seq(Fields)
    BY <1>2, InitialDispatch, InitialCall, FlowTypes
  <2> HIDE DEF X
  <2>4. <<>> \o X = X
    BY <2>3, ListsJoin
  <2> QED
    BY <2>1, <2>2, <2>4 DEF Flow, X
<1> QED
  BY <1>2, <1>3 DEF Init, SentInv

\* Whatever thread moves, what is on its way stays what was sent.
LEMMA NextFlow == DispatchInv /\ CallInv /\ SentInv /\ [Next]_vars => SentInv'
<1> SUFFICES ASSUME DispatchInv, CallInv, SentInv, [Next]_vars PROVE SentInv'
  OBVIOUS
<1>1. FlowInv
  BY DEF SentInv
<1>2. FlowInv' /\ \A r \in Receivers : mixed' \/ Flow(r)' = Flow(r)
  <2>1. CASE \E t \in Threads : Scan(t) \/ CopyPart(t) \/ ReadPosition(t)
    BY <1>1, <2>1, FlowInCall
  <2>2. ASSUME NEW r \in Receivers,
               ReceiveChunk(r) \/ TakeMessages(r) \/ msgHandler(r) \/ AnswerPrice(r)
        PROVE  FlowInv' /\ \A u \in Receivers : mixed' \/ Flow(u)' = Flow(u)
    BY <1>1, <2>2, FlowReceives, FlowTakes, FlowHandles, FlowAnswers
  <2>3. CASE PollQueue \/ PopOrder \/ HandleOrder
    BY <1>1, <2>3, FlowEntry
  <2>4. CASE UNCHANGED vars
    <3>1. /\ UNCHANGED <<chunks, todo, queue, delim, text, alone, mixed, handled>>
          /\ \A u \in Threads : InCall(u)' <=> InCall(u)
      BY <2>4 DEF vars, splitVars, InCall
    <3>2. OrderEntry \in Threads /\ Receivers \subseteq Threads
      BY DEF Threads
    <3>3. FlowInv'
      BY <1>1, <3>1, <3>2 DEF FlowInv, Separate
    <3>4. ASSUME NEW u \in Receivers PROVE Flow(u)' = Flow(u)
      BY <3>1, <3>2, SameStages DEF Flow
    <3> QED
      BY <3>3, <3>4
  <2> QED
    BY <2>1, <2>2, <2>3, <2>4 DEF Next
<1>3. mixed => mixed'
  BY DEF Next, vars, splitVars, Scan, CopyPart, ReadPosition, ReceiveChunk, TakeMessages,
         msgHandler, AnswerPrice, PollQueue, PopOrder, HandleOrder, BeginSplit
<1>4. ASSUME ~mixed'
      PROVE  \E sent \in Streams : \A r \in Receivers : Flow(r)' = OrdersOf(r, sent[r])
  <2>1. PICK sent \in Streams : \A r \in Receivers : Flow(r) = OrdersOf(r, sent[r])
    BY <1>3, <1>4 DEF SentInv
  <2> QED
    BY <1>2, <1>4, <2>1
<1>5. (\E sent \in Streams : \A r \in Receivers : Flow(r) = OrdersOf(r, sent[r]))'
        <=> \E sent \in Streams : \A r \in Receivers : Flow(r)' = OrdersOf(r, sent[r])
  BY DEF OrdersOf, Gathered, ChunkFields, OrderFields
<1> QED
  BY <1>2, <1>4, <1>5 DEF SentInv

\* What a list begins with is a prefix of it.
LEMMA PrefixOfJoin ==
  ASSUME NEW F, NEW a \in Seq(F), NEW b \in Seq(F)
  PROVE  IsPrefix(a, a \o b)
<1> DEFINE c == a \o b
<1>1. /\ Len(a) \in Nat /\ Len(c) = Len(a) + Len(b) /\ Len(b) \in Nat
      /\ c \in Seq(F) /\ \A i \in 1..Len(a) : c[i] = a[i]
  OBVIOUS
<1> HIDE DEF c
<1>2. Len(a) <= Len(c)
  BY <1>1
<1>3. /\ SubSeq(c, 1, Len(a)) \in Seq(F) /\ Len(SubSeq(c, 1, Len(a))) = Len(a)
      /\ \A i \in 1..Len(a) : SubSeq(c, 1, Len(a))[i] = c[i]
  BY <1>1, <1>2
<1>4. SubSeq(a, 1, Len(a)) = a
  OBVIOUS
<1>5. SubSeq(c, 1, Len(a)) = a
  BY <1>1, <1>3, SeqEqual
<1> QED
  BY <1>2, <1>4, <1>5 DEF IsPrefix, c

\* Every stage is empty once nothing is on its way.
LEMMA DrainedStages ==
  ASSUME NEW r \in Receivers, Drained(r)
  PROVE  InEntry(r) \o (InQueue(r) \o (InTodo(r) \o (InSplit(r) \o OrdersOf(r, chunks[r])))) = <<>>
<1>1. InEntry(r) = <<>> /\ InSplit(r) = <<>>
  BY DEF Drained, InEntry, InSplit, InCall
<1>2. InQueue(r) = <<>> /\ InTodo(r) = <<>> /\ OrdersOf(r, chunks[r]) = <<>>
  BY ListsOfFields, GatheredEmpty DEF Drained, InQueue, InTodo, OrdersOf
<1>3. <<>> \o <<>> = <<>>
  OBVIOUS
<1> QED
  BY <1>1, <1>2, <1>3

\* Whatever the clients send, each client's orders are handled in the order it sent
\* them, one time each and with their own fields, as long as no two calls of split
\* overlapped: nothing is lost between msgRecv, the queue and getOrder, and what is
\* not handled yet is still on its way.
THEOREM OrdersKept == Spec => []OrdersAsSent
<1>1. DispatchInv /\ CallInv /\ SentInv => OrdersAsSent
  <2> SUFFICES ASSUME DispatchInv, CallInv, SentInv, ~mixed PROVE OrdersAsSent
    BY DEF OrdersAsSent
  <2>1. FlowInv
    BY DEF SentInv
  <2>2. PICK sent \in Streams : \A r \in Receivers : Flow(r) = OrdersOf(r, sent[r])
    BY DEF SentInv
  <2>3. ASSUME NEW r \in Receivers
        PROVE  /\ IsPrefix(HandledFor(r), OrdersOf(r, sent[r]))
               /\ Drained(r) => HandledFor(r) = OrdersOf(r, sent[r])
    <3> DEFINE H == HandledFor(r)
               A == InSplit(r) \o OrdersOf(r, chunks[r])
               B == InTodo(r) \o A
               C == InQueue(r) \o B
               D == InEntry(r) \o C
    <3>1. A \in Seq(Fields)
      BY <2>1, FlowTypes, ListsJoin
    <3> HIDE DEF A
    <3>2. B \in Seq(Fields)
      BY <2>1, <3>1, FlowTypes, ListsJoin
    <3> HIDE DEF B
    <3>3. C \in Seq(Fields)
      BY <2>1, <3>2, FlowTypes, ListsJoin
    <3> HIDE DEF C
    <3>4. D \in Seq(Fields) /\ H \in Seq(Fields)
      BY <2>1, <3>3, FlowTypes, ListsJoin
    <3>5. Flow(r) = H \o D
      BY DEF Flow, A, B, C
    <3>6. Drained(r) => D = <<>>
      BY <2>1, DrainedStages DEF A, B, C, D
    <3> HIDE DEF D, H
    <3>7. IsPrefix(H, H \o D)
      BY <3>4, PrefixOfJoin
    <3>8. Drained(r) => Flow(r) = H
      BY <3>4, <3>5, <3>6
    <3> QED
      BY <2>2, <3>5, <3>7, <3>8 DEF H
  <2> QED
    BY <2>3 DEF OrdersAsSent
<1>2. DispatchInv /\ CallInv /\ [Next]_vars => CallInv'
  BY NextCall
<1>3. DispatchInv /\ CallInv /\ SentInv /\ [Next]_vars => SentInv'
  BY NextFlow
<1> QED
  BY <1>1, <1>2, <1>3, InitialCall, InitialFlow, DispatchInvariant, PTL DEF Spec

===============================================================================
