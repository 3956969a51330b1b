------------------------------- MODULE Dispatch -------------------------------
(***************************************************************************)
(* From the receivers to the order entry thread.                           *)
(*                                                                         *)
(*   msgRecv, msgHandler   split a chunk at "&", queue its orders and      *)
(*                         answer its price requests                       *)
(*   DataQueue             the queue, any number of producers              *)
(*   getOrder              takes an order and splits it at "|"             *)
(*   split                 calls strtok, whose position all threads share  *)
(*                                                                         *)
(* A buffer is a sequence of symbols, fields and separators, that ends in  *)
(* Nul; split never frees one, so a thread that goes on in the buffer of   *)
(* another reads what is there.  strtok reads the shared position in one   *)
(* step, and scans, cuts and stores the new position in another.           *)
(***************************************************************************)
EXTENDS Naturals, Sequences, SequencesExt, SplitText

CONSTANTS
  Receivers,    \* the receiving threads, each named by its connection number
  OrderEntry,   \* the thread getOrder
  Symbols,      \* fields and separators
  Streams,      \* what the clients may send: the chunks each receiver cuts off
  Nul

ASSUME ThreadsAssumption == OrderEntry \notin Receivers

ASSUME SymbolsAssumption ==
  /\ Receivers \cup {"&", "|", "87", "1233"} \subseteq Symbols
  /\ {"&", "|"} \cap Receivers = {}
  /\ Nul \notin Symbols

ASSUME StreamsAssumption == Streams \subseteq [Receivers -> Seq(Seq(Symbols))]

Threads == Receivers \cup {OrderEntry}

VARIABLES
  process,        \* "up" or "dead"
  chunks,         \* chunks[r]: to be received
  todo,           \* todo[r]: messages of the last chunk not handled yet
  queue,          \* dataQueue_ of Server::dq
  pc,             \* program counter of each thread
  \* split
  heap,           \* the buffers strs of all calls
  olds,           \* strtok's position, <<buffer, index>>
  pos,            \* pos[t]: where strtok scans from, then the part it returned
  delim, res,     \* separator and parts of each thread's call
  \* history
  text,           \* the argument of each thread's call
  alone,          \* alone[t]: no other call was under way during this one
  mixed,          \* whether two calls ever were under way at once
  handled         \* the fields of the orders getOrder has worked on

splitVars == <<heap, olds, pos, delim, res, text, alone, mixed>>
vars == <<process, chunks, todo, queue, pc, splitVars, handled>>

Up == process = "up"
Crash == process' = "dead"
Splitting(t) == pc[t] \in {"scan", "copy", "read"}
Go(t, l) == pc' = [pc EXCEPT ![t] = l]

Code(message) == message[1]

Init ==
  /\ process = "up"
  /\ chunks \in Streams
  /\ todo = [r \in Receivers |-> <<>>]
  /\ queue = <<>>
  /\ pc = [t \in Threads |-> "idle"]
  /\ heap = <<>> /\ olds = <<0, 0>>
  /\ pos = [t \in Threads |-> <<0, 0>>]
  /\ delim = [t \in Threads |-> "&"] /\ res = [t \in Threads |-> <<>>]
  /\ text = [t \in Threads |-> <<>>] /\ alone = [t \in Threads |-> TRUE]
  /\ mixed = FALSE /\ handled = <<>>

-------------------------------------------------------------------------------
(* split *)

\* The copy of the text, and strtok(strs, d) up to its scan.
BeginSplit(t, s, d) ==
  /\ heap' = Append(heap, Append(s, Nul))
  /\ pos' = [pos EXCEPT ![t] = <<Len(heap) + 1, 1>>]
  /\ delim' = [delim EXCEPT ![t] = d]
  /\ res' = [res EXCEPT ![t] = <<>>]
  /\ text' = [text EXCEPT ![t] = s]
  /\ LET others == {u \in Threads \ {t} : Splitting(u)}
     IN  /\ alone' = [u \in Threads |-> IF u = t THEN others = {}
                                        ELSE alone[u] /\ u \notin others]
         /\ mixed' = (mixed \/ others # {})
  /\ Go(t, "scan")
  /\ UNCHANGED olds

\* strspn and strcspn: the first place from i on that the scan stops at.
SkipFrom(b, i, d) ==
  CHOOSE j \in i..Len(b) : b[j] # d /\ \A k \in i..(j - 1) : b[k] = d
StopFrom(b, i, d) ==
  CHOOSE j \in i..Len(b) : b[j] \in {d, Nul} /\ \A k \in i..(j - 1) : b[k] \notin {d, Nul}

\* Mutant: the position stays on the separator's cell, which is Nul now.
ScanStaying(t) ==
  /\ Up /\ pc[t] = "scan"
  /\ LET b == pos[t][1]
         start == SkipFrom(heap[b], pos[t][2], delim[t])
         end == StopFrom(heap[b], start, delim[t])
     IN  IF heap[b][start] = Nul
         THEN olds' = <<b, start>> /\ Go(t, "done") /\ UNCHANGED <<heap, pos>>
         ELSE /\ heap' = [heap EXCEPT ![b][end] = Nul]
              /\ olds' = <<b, end>>
              /\ pos' = [pos EXCEPT ![t] = <<b, start>>]
              /\ Go(t, "copy")
  /\ UNCHANGED <<process, chunks, todo, queue, delim, res, text, alone, mixed, handled>>

\* Mutant: the position is one past the end of the part, whatever ended it.
ScanPast(t) ==
  /\ Up /\ pc[t] = "scan"
  /\ LET b == pos[t][1]
         start == SkipFrom(heap[b], pos[t][2], delim[t])
         end == StopFrom(heap[b], start, delim[t])
     IN  IF heap[b][start] = Nul
         THEN olds' = <<b, start>> /\ Go(t, "done") /\ UNCHANGED <<heap, pos>>
         ELSE /\ heap' = [heap EXCEPT ![b][end] = Nul]
              /\ olds' = <<b, end + 1>>
              /\ pos' = [pos EXCEPT ![t] = <<b, start>>]
              /\ Go(t, "copy")
  /\ UNCHANGED <<process, chunks, todo, queue, delim, res, text, alone, mixed, handled>>

\* strtok: no part is left, or the part is cut off.
Scan(t) ==
  /\ Up /\ pc[t] = "scan"
  /\ LET b == pos[t][1]
         start == SkipFrom(heap[b], pos[t][2], delim[t])
         end == StopFrom(heap[b], start, delim[t])
     IN  IF heap[b][start] = Nul
         THEN olds' = <<b, start>> /\ Go(t, "done") /\ UNCHANGED <<heap, pos>>
         ELSE /\ heap' = [heap EXCEPT ![b][end] = Nul]
              /\ olds' = <<b, IF heap[b][end] = Nul THEN end ELSE end + 1>>
              /\ pos' = [pos EXCEPT ![t] = <<b, start>>]
              /\ Go(t, "copy")
  /\ UNCHANGED <<process, chunks, todo, queue, delim, res, text, alone, mixed, handled>>

\* std::string s = p.
CopyPart(t) ==
  /\ Up /\ pc[t] = "copy"
  /\ LET b == heap[pos[t][1]]
         i == pos[t][2]
     IN  res' = [res EXCEPT ![t] = Append(@, SubSeq(b, i, StopFrom(b, i, Nul) - 1))]
  /\ Go(t, "read")
  /\ UNCHANGED <<process, chunks, todo, queue, heap, olds, pos, delim, text, alone,
                 mixed, handled>>

\* Mutant: a thread goes on only when no other call is under way.
ReadAlone(t) ==
  /\ Up /\ pc[t] = "read" /\ \A u \in Threads \ {t} : ~Splitting(u)
  /\ pos' = [pos EXCEPT ![t] = olds]
  /\ Go(t, "scan")
  /\ UNCHANGED <<process, chunks, todo, queue, heap, olds, delim, res, text, alone,
                 mixed, handled>>

\* strtok(NULL, d) goes on where whichever thread scanned last has stopped.
ReadPosition(t) ==
  /\ Up /\ pc[t] = "read"
  /\ pos' = [pos EXCEPT ![t] = olds]
  /\ Go(t, "scan")
  /\ UNCHANGED <<process, chunks, todo, queue, heap, olds, delim, res, text, alone,
                 mixed, handled>>

-------------------------------------------------------------------------------
(* The receivers *)

\* Mutant: a message queued goes to the front.
PushFront(message) == queue' = <<message>> \o queue

pushDTA(message) == queue' = Append(queue, message)

\* msgRecv has a chunk of a client that is logged in.
ReceiveChunk(r) ==
  /\ Up /\ pc[r] = "idle" /\ todo[r] = <<>> /\ chunks[r] # <<>>
  /\ BeginSplit(r, Head(chunks[r]), "&")
  /\ chunks' = [chunks EXCEPT ![r] = Tail(@)]
  /\ UNCHANGED <<process, todo, queue, handled>>

TakeMessages(r) ==
  /\ Up /\ pc[r] = "done" /\ delim[r] = "&"
  /\ todo' = [todo EXCEPT ![r] = res[r]]
  /\ Go(r, "idle")
  /\ UNCHANGED <<process, chunks, queue, splitVars, handled>>

\* A message with the connection number behind it.
Numbered(message, r) == message \o <<"|", r, "|">>

\* Cancels and modifies, which end the process, are OrderDesk's.
msgHandler(r) ==
  LET message == Numbered(Head(todo[r]), r)
  IN  /\ Up /\ pc[r] = "idle" /\ todo[r] # <<>>
      /\ todo' = [todo EXCEPT ![r] = Tail(@)]
      /\ CASE Code(message) = "87" -> pushDTA(message) /\ UNCHANGED <<pc, splitVars>>
           [] Code(message) = "1233" -> BeginSplit(r, message, "|") /\ UNCHANGED queue
           [] OTHER -> UNCHANGED <<queue, pc, splitVars>>
      /\ UNCHANGED <<process, chunks, handled>>

\* The third field is the connection to answer.  Past the end of the fields, or
\* with a symbol or a number nobody has, the process may end; stoi of anything
\* else is caught.
AnswerPrice(r) ==
  /\ Up /\ pc[r] = "done" /\ delim[r] = "|"
  /\ \/ UNCHANGED process
     \/ res[r] # Parts(text[r], "|") /\ Crash
  /\ Go(r, "idle")
  /\ UNCHANGED <<chunks, todo, queue, splitVars, handled>>

-------------------------------------------------------------------------------
(* Order entry *)

\* Mutant: the size is not tested.
PollBlindly ==
  /\ Up /\ pc[OrderEntry] = "idle"
  /\ Go(OrderEntry, "pop")
  /\ UNCHANGED <<process, chunks, todo, queue, splitVars, handled>>

\* Mutant: an order is taken only when another one waits behind it.
PollLate ==
  /\ Up /\ pc[OrderEntry] = "idle" /\ Len(queue) > 1
  /\ Go(OrderEntry, "pop")
  /\ UNCHANGED <<process, chunks, todo, queue, splitVars, handled>>

\* checkSpace.
PollQueue ==
  /\ Up /\ pc[OrderEntry] = "idle" /\ queue # <<>>
  /\ Go(OrderEntry, "pop")
  /\ UNCHANGED <<process, chunks, todo, queue, splitVars, handled>>

\* popDTA, which waits a second at most, and the call of split.
PopOrder ==
  /\ Up /\ pc[OrderEntry] = "pop"
  /\ IF queue # <<>>
     THEN /\ queue' = Tail(queue)
          /\ BeginSplit(OrderEntry, Head(queue), "|")
          /\ UNCHANGED process
     ELSE Crash /\ UNCHANGED <<queue, pc, splitVars>>
  /\ UNCHANGED <<chunks, todo, handled>>

\* The fields are read by their places; one that is missing, or is no number,
\* ends the process, unless what lies behind the vector passes for a field.
HandleOrder ==
  /\ Up /\ pc[OrderEntry] = "done"
  /\ \/ handled' = Append(handled, res[OrderEntry]) /\ UNCHANGED process
     \/ res[OrderEntry] # Parts(text[OrderEntry], "|") /\ Crash /\ UNCHANGED handled
  /\ Go(OrderEntry, "idle")
  /\ UNCHANGED <<chunks, todo, queue, splitVars>>

-------------------------------------------------------------------------------
Next ==
  \/ \E t \in Threads : Scan(t) \/ CopyPart(t) \/ ReadPosition(t)
  \/ \E r \in Receivers :
       ReceiveChunk(r) \/ TakeMessages(r) \/ msgHandler(r) \/ AnswerPrice(r)
  \/ PollQueue \/ PopOrder \/ HandleOrder

Spec == Init /\ [][Next]_vars

\* Every thread is scheduled: no step of one waits for another, and order entry
\* looks at the queue every five seconds.
FairSpec ==
  /\ Spec
  /\ \A t \in Threads : WF_vars(Scan(t) \/ CopyPart(t) \/ ReadPosition(t))
  /\ \A r \in Receivers : WF_vars(TakeMessages(r) \/ msgHandler(r) \/ AnswerPrice(r))
  /\ WF_vars(PollQueue \/ PopOrder \/ HandleOrder)

-------------------------------------------------------------------------------
\* The shape of the state: every position strtok may go on from is inside a
\* buffer, so that a scan ends at a Nul however the threads mix.
DispatchTypeOK ==
  /\ process \in {"up", "dead"} /\ mixed \in BOOLEAN
  /\ pc \in [Threads -> {"idle", "scan", "copy", "read", "pop", "done"}]
  /\ \A b \in DOMAIN heap : heap[b][Len(heap[b])] = Nul
  /\ \A p \in {olds} \cup {pos[t] : t \in Threads} :
       p # <<0, 0>> => p[1] \in DOMAIN heap /\ p[2] \in DOMAIN heap[p[1]]

\* popDTA never takes the front of an empty queue, although it goes on after a
\* second in any case: the size was tested, and nobody else takes from the queue.
PopFindsOrder == pc[OrderEntry] = "pop" => queue # <<>>

\* A call of split that overlaps no other returns the parts of its text, whatever
\* earlier calls that did overlap have left behind.
SplitExact ==
  \A t \in Threads : pc[t] = "done" /\ alone[t] => res[t] = Parts(text[t], delim[t])

\* What g makes of the members of seq, put together in their order.
Gathered(seq, g) ==
  LET gathered[n \in 0..Len(seq)] ==
        IF n = 0 THEN <<>> ELSE gathered[n - 1] \o g[seq[n]]
  IN  gathered[Len(seq)]

\* The fields of a message receiver r takes for an order, and those of all orders
\* among the messages it is sent.
OrderFields(r) ==
  [message \in Seq(Symbols) |->
     IF Code(Numbered(message, r)) = "87" THEN <<Parts(Numbered(message, r), "|")>> ELSE <<>>]

ChunkFields(r) == [chunk \in Seq(Symbols) |-> Gathered(Parts(chunk, "&"), OrderFields(r))]

OrdersOf(r, sent) == Gathered(sent, ChunkFields(r))

FieldsOf(r) ==
  [fields \in Seq(Seq(Symbols)) |-> IF Last(fields) = <<r>> THEN <<fields>> ELSE <<>>]

HandledFor(r) == Gathered(handled, FieldsOf(r))

\* Nothing client r has sent is still on its way: all is received, taken from the
\* queue and worked on.
Drained(r) ==
  /\ chunks[r] = <<>> /\ todo[r] = <<>> /\ pc[r] = "idle"
  /\ queue = <<>> /\ pc[OrderEntry] = "idle"

\* The orders of a client are handled as it sent them and in its order, one time
\* each, and none is missing once nothing is on its way: msgRecv, the queue and
\* getOrder lose, repeat and swap nothing as long as no two calls of split overlapped.
OrdersAsSent ==
  ~mixed => \E sent \in Streams : \A r \in Receivers :
              /\ IsPrefix(HandledFor(r), OrdersOf(r, sent[r]))
              /\ Drained(r) => HandledFor(r) = OrdersOf(r, sent[r])

\* Every order queued is handled, whoever else sends, unless a mixed-up text ends
\* the process.
QueueServed == queue # <<>> ~> (queue = <<>> \/ process = "dead")

\* A call of split returns, whatever the others do with its position.
SplitReturns == \A t \in Threads : Splitting(t) ~> (~Splitting(t) \/ process = "dead")
===============================================================================
