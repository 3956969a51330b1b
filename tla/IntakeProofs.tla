------------------------------ MODULE IntakeProofs ------------------------------
(***************************************************************************)
(* Theorems about Intake: a login needs a stored account, and names stay   *)
(* unique, for any clients and texts, any cuts of the stream and any       *)
(* failing inserts.                                                        *)
(*                                                                         *)
(* The table is written before userList and loses no row, so what is known *)
(* in memory is stored; between the two steps the account is the           *)
(* receiver's, and its row is there already.                               *)
(*                                                                         *)
(* And framing: however recv cuts the stream, the messages handled are     *)
(* those sent, each one time and in order.  What is handled, what is left  *)
(* over and what is under way are the messages of the stream (FrameInv).   *)
(***************************************************************************)
EXTENDS Intake, SplitTheorems, SequenceTheorems, WellFoundedInduction, TLAPS

Text == Seq(Symbols)

\* An account has a row, in its own spelling or in the table's.
HasRow(a) == a \in dbUser \/ UserRow(a) \in dbUser

\* What is under way and left over are texts; places and flags.
TextInv == rest \in [Conns -> Text] /\ tempStr \in [Conns -> Text]

PlaceInv ==
  /\ process \in {"up", "dead"}
  /\ login \in [Conns -> {"in", "out"}]
  /\ receiver \in [Conns -> {"recv", "insert", "publish", "closed"}]
  /\ torn \in [Conns -> {"whole", "torn"}]
  /\ DOMAIN newUser = Conns /\ DOMAIN account = Conns

\* A registration under way has an account.
AccountInv == \A c \in Conns : receiver[c] \in {"insert", "publish"} => newUser[c] # Null

NameInv == OnePerName(userList) /\ OnePerName(dbUser)

\* What is known in memory, or about to be, is stored.
StoredInv ==
  /\ \A a \in userList : HasRow(a)
  /\ \A c \in Conns : receiver[c] = "publish" => HasRow(newUser[c])
  /\ LoginsStored

IntakeInv == TextInv /\ PlaceInv /\ AccountInv /\ NameInv /\ StoredInv

-------------------------------------------------------------------------------
(* Texts *)

\* A set of numbers with a bound has a greatest element.
LEMMA GreatestPlace ==
  ASSUME NEW n \in Nat, NEW S \in SUBSET (1..n), S # {}
  PROVE  \E x \in S : \A y \in S : x >= y
<1> DEFINE T == {n - x : x \in S}
<1>1. T \in SUBSET Nat /\ T # {}
  <2>1. PICK z \in S : TRUE
    OBVIOUS
  <2>2. n - z \in T
    OBVIOUS
  <2>3. \A x \in S : n - x \in Nat
    OBVIOUS
  <2> QED
    BY <2>2, <2>3
<1>2. PICK t \in T : \A u \in T : ~(<<u, t>> \in OpToRel(<, Nat))
  BY <1>1, NatLessThanWellFounded, WFMin
<1>3. \A u \in T : ~(u < t)
  BY <1>1, <1>2 DEF OpToRel
<1>4. PICK x \in S : t = n - x
  OBVIOUS
<1>5. \A y \in S : x >= y
  <2> TAKE y \in S
  <2>1. ~(n - y < n - x)
    BY <1>3, <1>4
  <2> QED
    BY <2>1
<1> QED
  BY <1>5

\* find_last_of finds the last separator of a text, or none.
LEMMA SeparatorPlace ==
  ASSUME NEW text \in Text
  PROVE  /\ LastSeparator(text) \in 0..Len(text)
         /\ LastSeparator(text) # 0 => text[LastSeparator(text)] = "&"
         /\ \A j \in 1..Len(text) : j > LastSeparator(text) => text[j] # "&"
<1> DEFINE I == {i \in 1..Len(text) : text[i] = "&"}
<1>1. LastSeparator(text) = IF I # {} THEN Max(I) ELSE 0
  BY DEF LastSeparator, SelectLastInSeq
<1>2. Len(text) \in Nat
  BY DEF Text
<1>3. ASSUME I # {} PROVE Max(I) \in I /\ \A y \in I : Max(I) >= y
  <2>1. \E x \in I : \A y \in I : x >= y
    BY <1>2, <1>3, GreatestPlace
  <2> HIDE DEF I
  <2> QED
    BY <2>1 DEF Max
<1>4. CASE I = {}
  BY <1>1, <1>2, <1>4
<1>5. CASE I # {}
  <2>1. LastSeparator(text) \in I /\ \A y \in I : LastSeparator(text) >= y
    BY <1>1, <1>3, <1>5
  <2> QED
    BY <1>2, <2>1
<1> QED
  BY <1>4, <1>5

\* What is put together and cut off is a text.
LEMMA PrependText ==
  ASSUME NEW left \in Text, NEW chunk \in Text
  PROVE  Prepend(left, chunk).text \in Text /\ Prepend(left, chunk).left \in Text
BY DEF Prepend, Text

\* Cutting a text at its separators yields texts.
LEMMA CutText ==
  ASSUME NEW text \in Text, text # <<>>, NEW left \in Text
  PROVE  Cut(text, left).sub \in Text /\ Cut(text, left).left \in Text
<1>1. LastSeparator(text) \in 0..Len(text) /\ Len(text) \in Nat \ {0}
  BY SeparatorPlace DEF Text
<1>2. \A i, j \in 0..Len(text) + 1 : i >= 1 /\ j <= Len(text) => SubSeq(text, i, j) \in Text
  BY <1>1 DEF Text
<1>3. Front(text) \in Text
  BY <1>1, <1>2 DEF Front
<1>4. CASE LastSeparator(text) = 0
  <2>1. SubSeq(text, 1, Len(text)) \in Text
    BY <1>1, <1>2
  <2> QED
    BY <1>3, <1>4, <2>1 DEF Cut
<1>5. CASE LastSeparator(text) # 0
  <2>1. SubSeq(text, 1, LastSeparator(text) - 1) \in Text
    BY <1>1, <1>2, <1>5
  <2>2. SubSeq(text, LastSeparator(text) + 1, Len(text)) \in Text
    BY <1>1, <1>2, <1>5
  <2> QED
    BY <1>3, <1>5, <2>1, <2>2 DEF Cut
<1> QED
  BY <1>4, <1>5

\* Text that may be left over: no message in it is complete.
NoSeparator(text) == \A i \in 1..Len(text) : text[i] # "&"

\* A text that is not empty is cut behind its last separator, or not at all.
IsCut(text, sub, left) ==
  /\ sub \in Text /\ left \in Text /\ NoSeparator(left)
  /\ IF LastSeparator(text) = 0 THEN left = text ELSE text = Append(sub, "&") \o left

\* Cut is such a cut.
LEMMA CutParts ==
  ASSUME NEW text \in Text, text # <<>>
  PROVE  IsCut(text, Cut(text, <<>>).sub, Cut(text, <<>>).left)
<1> DEFINE found == LastSeparator(text)
           cut == Cut(text, <<>>)
<1>1. /\ found \in 0..Len(text) /\ (found # 0 => text[found] = "&")
      /\ \A j \in 1..Len(text) : j > found => text[j] # "&"
  BY SeparatorPlace
<1>2. Len(text) \in Nat \ {0} /\ <<>> \in Text
  BY DEF Text
<1>3. cut.sub \in Text /\ cut.left \in Text
  BY <1>2, CutText
<1> HIDE DEF found
<1>4. CASE Last(text) = "&"
  <2>1. found = Len(text)
    BY <1>1, <1>2, <1>4 DEF Last
  <2>2. cut.left = <<>> /\ cut.sub = Front(text)
    BY <1>4 DEF Cut
  <2>3. text = Append(Front(text), "&") \o <<>>
    BY <1>2, <1>4 DEF Text, Front, Last
  <2>4. NoSeparator(<<>>)
    BY DEF NoSeparator
  <2>5. LastSeparator(text) # 0
    BY <1>2, <2>1 DEF found
  <2> QED
    BY <1>3, <2>2, <2>3, <2>4, <2>5 DEF IsCut
<1>5. CASE Last(text) # "&" /\ found = 0
  <2>1. SubSeq(text, 1, Len(text)) = text
    BY DEF Text
  <2>2. cut.left = text
    BY <1>5, <2>1 DEF Cut, found
  <2>3. NoSeparator(text)
    BY <1>1, <1>5 DEF NoSeparator
  <2> QED
    BY <1>3, <1>5, <2>2, <2>3 DEF IsCut, found
<1>6. CASE Last(text) # "&" /\ found # 0
  <2>1. cut.sub = SubSeq(text, 1, found - 1) /\ cut.left = SubSeq(text, found + 1, Len(text))
    BY <1>6 DEF Cut, found
  <2>2. text = Append(SubSeq(text, 1, found - 1), "&") \o SubSeq(text, found + 1, Len(text))
    <3>1. found \in 1..Len(text) /\ text[found] = "&" /\ text \in Seq(Symbols)
      BY <1>1, <1>2, <1>6 DEF Text
    <3> QED
      BY <3>1, CutAt
  <2>3. NoSeparator(SubSeq(text, found + 1, Len(text)))
    BY <1>1, <1>2, <1>6 DEF NoSeparator, Text
  <2> QED
    BY <1>3, <1>6, <2>1, <2>2, <2>3 DEF IsCut, found
<1> QED
  BY <1>4, <1>5, <1>6

\* Putting the first two together first makes no difference.
Associates(a, b, d) == (a \o b) \o d = a \o (b \o d)

\* Texts are put together in any grouping.
LEMMA TextAssociative ==
  ASSUME NEW a \in Text, NEW b \in Text, NEW d \in Text
  PROVE  Associates(a, b, d)
BY DEF Text, Associates

\* What is handled and what is left over have the parts of the text cut.
LEMMA TokensOfCut ==
  ASSUME NEW text \in Text, NEW sub, NEW left, IsCut(text, sub, left), NEW more \in Text
  PROVE  IF LastSeparator(text) = 0 THEN Tokens(left \o more) = Tokens(text \o more)
         ELSE Tokens(sub) \o Tokens(left \o more) = Tokens(text \o more)
<1>1. sub \in Text /\ left \in Text /\ left \o more \in Text
  BY DEF IsCut, Text
<1>2. CASE LastSeparator(text) = 0
  BY <1>2 DEF IsCut
<1>3. CASE LastSeparator(text) # 0
  <2>1. text = Append(sub, "&") \o left
    BY <1>3 DEF IsCut
  <2>2. text \o more = Append(sub, "&") \o (left \o more)
    <3> DEFINE closed == Append(sub, "&")
    <3>1. closed \in Text
      BY <1>1, HeartbeatAssumption DEF Text
    <3> HIDE DEF closed
    <3>2. Associates(closed, left, more)
      BY <1>1, <3>1, TextAssociative
    <3>3. text = closed \o left
      BY <2>1 DEF closed
    <3>4. text \o more = closed \o (left \o more)
      BY <3>2, <3>3 DEF Associates
    <3> QED
      BY <3>4 DEF closed
  <2>3. Parts(Append(sub, "&") \o (left \o more), "&") = Parts(sub, "&") \o Parts(left \o more, "&")
    BY <1>1, HeartbeatAssumption, PartsJoin DEF Text
  <2> QED
    BY <1>3, <2>2, <2>3 DEF Tokens
<1> QED
  BY <1>2, <1>3

\* A text with the fields of an account has one.
LEMMA AccountFound ==
  ASSUME NEW text \in Text, Code(text) \in {"1234", "1238"}, HasAccount(text)
  PROVE  Account(text) \in Symbols \X Symbols
BY DEF Text, HasAccount, Account

-------------------------------------------------------------------------------
(* Found, member by member *)

\* One more member of the sequence is looked at.
Finding(wanted, m, k) == IF k < Len(wanted) /\ wanted[k + 1] = m THEN k + 1 ELSE k

\* f[n] of the wanted are found among n members.
IsSearch(f, wanted, seq) ==
  /\ f[0] = 0 /\ Found(wanted, seq) = f[Len(seq)]
  /\ \A n \in 1..Len(seq) : f[n] = Finding(wanted, seq[n], f[n - 1])
  /\ \A n \in 0..Len(seq) : f[n] \in Nat

\* Found is the result of such a search.
LEMMA FoundSteps ==
  ASSUME NEW S, NEW seq \in Seq(S), NEW wanted
  PROVE  \E f : IsSearch(f, wanted, seq)
<1> DEFINE L == Len(seq)
           h == [n \in Nat |-> [k \in Nat |-> Finding(wanted, seq[n + 1], k)]]
           Body(g, n) == IF n = 0 THEN 0 ELSE Finding(wanted, seq[n], g[n - 1])
           Fits(g) == g = [n \in 0..L |-> Body(g, n)]
           zero == 0
<1>0. L \in Nat /\ zero \in Nat
  OBVIOUS
<1>1. StepsOf(h, Nat)
  BY DEF StepsOf, Finding
<1>2. PICK f : IsRecursive(f, Nat, zero, h)
  <2> HIDE DEF h, zero
  <2> QED
    BY <1>0, <1>1, Recursion
<1> DEFINE g == [n \in 0..L |-> f[n]]
<1>3. Fits(g)
  <2>1. ASSUME NEW n \in 0..L PROVE g[n] = Body(g, n)
    <3>1. CASE n = 0
      BY <1>2, <3>1 DEF IsRecursive
    <3>2. CASE n # 0
      <4>1. n - 1 \in Nat /\ n - 1 \in 0..L /\ (n - 1) + 1 = n
        BY <3>2
      <4>2. f[n] = h[n - 1][f[n - 1]] /\ f[n - 1] \in Nat
        BY <1>2, <4>1 DEF IsRecursive
      <4>3. h[n - 1][f[n - 1]] = Finding(wanted, seq[n], f[n - 1])
        BY <4>1, <4>2
      <4> QED
        BY <3>2, <4>1, <4>2, <4>3
    <3> QED
      BY <3>1, <3>2
  <2> HIDE DEF Body
  <2> QED
    BY <2>1
<1> DEFINE c == CHOOSE x : Fits(x)
<1>4. Fits(c)
  <2> HIDE DEF Fits, g
  <2> QED
    BY <1>3
<1>5. Found(wanted, seq) = c[L]
  BY DEF Found, Finding
<1>6. c[0] = 0 /\ \A n \in 1..L : c[n] = Finding(wanted, seq[n], c[n - 1])
  <2> HIDE DEF c, Body, L
  <2>1. c = [n \in 0..L |-> Body(c, n)]
    BY <1>4
  <2>2. \A n \in 0..L : c[n] = Body(c, n)
    BY <2>1
  <2>3. 0 \in 0..L /\ \A n \in 1..L : n \in 0..L /\ n # 0
    BY <1>0
  <2> QED
    BY <2>2, <2>3 DEF Body
<1>7. \A n \in 0..L : c[n] \in Nat
  <2> DEFINE T == {n \in Nat : n <= L => c[n] \in Nat}
  <2> HIDE DEF c
  <2>1. 0 \in T
    BY <1>6
  <2>2. ASSUME NEW n \in Nat, n \in T PROVE n + 1 \in T
    <3> SUFFICES ASSUME n + 1 <= L PROVE c[n + 1] \in Nat
      OBVIOUS
    <3>1. n + 1 \in 1..L /\ (n + 1) - 1 = n /\ c[n] \in Nat
      BY <2>2
    <3> QED
      BY <1>6, <3>1 DEF Finding
  <2>3. Nat \subseteq T
    <3> HIDE DEF T
    <3> QED
      BY <2>1, <2>2, NatSet
  <2> QED
    BY <2>3
<1> QED
  <2> HIDE DEF c
  <2> QED
    BY <1>5, <1>6, <1>7 DEF IsSearch

\* Found is a number.
LEMMA FoundType ==
  ASSUME NEW S, NEW seq \in Seq(S), NEW wanted
  PROVE  Found(wanted, seq) \in Nat
<1>1. PICK f : IsSearch(f, wanted, seq)
  BY FoundSteps
<1> QED
  BY <1>1 DEF IsSearch

\* The search goes on where it was.
LEMMA FoundAppend ==
  ASSUME NEW S, NEW seq \in Seq(S), NEW x \in S, NEW wanted
  PROVE  Found(wanted, Append(seq, x)) = Finding(wanted, x, Found(wanted, seq))
<1> DEFINE t == Append(seq, x)
           L == Len(seq)
<1>1. L \in Nat /\ t \in Seq(S) /\ Len(t) = L + 1 /\ t[L + 1] = x /\ \A i \in 1..L : t[i] = seq[i]
  OBVIOUS
<1> HIDE DEF t
<1>2. PICK f : IsSearch(f, wanted, seq)
  BY FoundSteps
<1>3. PICK g : IsSearch(g, wanted, t)
  BY <1>1, FoundSteps
<1> DEFINE T == {n \in Nat : n <= L => f[n] = g[n]}
<1>4. 0 \in T
  BY <1>2, <1>3 DEF IsSearch
<1>5. ASSUME NEW n \in Nat, n \in T PROVE n + 1 \in T
  <2> SUFFICES ASSUME n + 1 <= L PROVE f[n + 1] = g[n + 1]
    OBVIOUS
  <2>1. /\ n + 1 \in 1..L /\ n + 1 \in 1..Len(t) /\ (n + 1) - 1 = n /\ f[n] = g[n]
    BY <1>1, <1>5
  <2>2. f[n + 1] = Finding(wanted, seq[n + 1], f[n]) /\ g[n + 1] = Finding(wanted, t[n + 1], g[n])
    BY <1>2, <1>3, <2>1 DEF IsSearch
  <2> QED
    BY <1>1, <2>1, <2>2
<1>6. Nat \subseteq T
  <2> HIDE DEF T
  <2> QED
    BY <1>4, <1>5, NatSet
<1>7. f[L] = g[L] /\ L + 1 \in 1..Len(t) /\ (L + 1) - 1 = L /\ L \in 0..L
  BY <1>1, <1>6
<1>8. Found(wanted, t) = Finding(wanted, t[L + 1], g[L]) /\ Found(wanted, seq) = f[L]
  BY <1>1, <1>2, <1>3, <1>7 DEF IsSearch
<1> QED
  BY <1>1, <1>7, <1>8 DEF t

\* It finds nothing among no members.
LEMMA FoundNone ==
  ASSUME NEW wanted
  PROVE  Found(wanted, <<>>) = 0
<1> DEFINE e == <<>>
<1>1. e \in Seq({}) /\ Len(e) = 0
  OBVIOUS
<1> HIDE DEF e
<1>2. PICK f : IsSearch(f, wanted, e)
  BY <1>1, FoundSteps
<1>3. Found(wanted, e) = 0
  BY <1>1, <1>2 DEF IsSearch
<1> QED
  BY <1>3 DEF e

\* No more are found than are wanted.
LEMMA FoundBound ==
  ASSUME NEW S, NEW wanted, Len(wanted) \in Nat
  PROVE  \A seq \in Seq(S) : Found(wanted, seq) \in 0..Len(wanted)
<1> DEFINE T == {seq \in Seq(S) : Found(wanted, seq) \in 0..Len(wanted)}
<1>1. <<>> \in T
  BY FoundNone
<1>2. ASSUME NEW seq \in Seq(S), NEW x \in S, seq \in T PROVE Append(seq, x) \in T
  <2>1. Found(wanted, Append(seq, x)) = Finding(wanted, x, Found(wanted, seq))
    BY FoundAppend
  <2>2. Append(seq, x) \in Seq(S) /\ Found(wanted, seq) \in 0..Len(wanted)
    BY <1>2
  <2> QED
    BY <2>1, <2>2 DEF Finding
<1>3. Seq(S) \subseteq T
  <2> HIDE DEF T
  <2> QED
    BY <1>1, <1>2, AppendInduction
<1> QED
  BY <1>3

\* Whatever is put in between, no fewer are found.
LEMMA FoundMore ==
  ASSUME NEW S, NEW wanted, NEW a \in Seq(S), NEW more \in Seq(S)
  PROVE  \A b \in Seq(S) : Found(wanted, (a \o more) \o b) >= Found(wanted, a \o b)
<1> DEFINE M == {m \in Seq(S) : Found(wanted, a \o m) >= Found(wanted, a)}
           T == {b \in Seq(S) : Found(wanted, (a \o more) \o b) >= Found(wanted, a \o b)}
<1>0. \A s \in Seq(S) :
        /\ \A x \in S : Found(wanted, Append(s, x)) = Finding(wanted, x, Found(wanted, s))
        /\ Found(wanted, s) \in Nat
  BY FoundAppend, FoundType
<1>1. <<>> \in M
  <2>1. a \o <<>> = a
    OBVIOUS
  <2>2. Found(wanted, a) \in Nat
    BY FoundType
  <2> QED
    BY <2>1, <2>2
<1>2. ASSUME NEW m \in Seq(S), NEW x \in S, m \in M PROVE Append(m, x) \in M
  <2>1. a \o Append(m, x) = Append(a \o m, x) /\ a \o m \in Seq(S) /\ Append(m, x) \in Seq(S)
    OBVIOUS
  <2>2. Found(wanted, Append(a \o m, x)) = Finding(wanted, x, Found(wanted, a \o m))
    BY <1>0, <2>1
  <2>3. Found(wanted, a \o m) >= Found(wanted, a) /\ Found(wanted, a \o m) \in Nat /\ Found(wanted, a) \in Nat
    BY <1>0, <1>2, <2>1
  <2>4. Finding(wanted, x, Found(wanted, a \o m)) >= Found(wanted, a)
    BY <2>3 DEF Finding
  <2> QED
    BY <2>1, <2>2, <2>4
<1>3. Seq(S) \subseteq M
  <2> HIDE DEF M
  <2> QED
    BY <1>1, <1>2, AppendInduction
<1>4. <<>> \in T
  <2>1. (a \o more) \o <<>> = a \o more /\ a \o <<>> = a
    OBVIOUS
  <2> QED
    BY <1>3, <2>1
<1>5. ASSUME NEW b \in Seq(S), NEW x \in S, b \in T PROVE Append(b, x) \in T
  <2> DEFINE ab == a \o b
             amb == (a \o more) \o b
  <2>1. /\ a \o Append(b, x) = Append(ab, x) /\ (a \o more) \o Append(b, x) = Append(amb, x)
        /\ ab \in Seq(S) /\ amb \in Seq(S) /\ Append(b, x) \in Seq(S)
    OBVIOUS
  <2>2. Found(wanted, amb) >= Found(wanted, ab)
    BY <1>5
  <2> HIDE DEF ab, amb
  <2>3. /\ Found(wanted, Append(ab, x)) = Finding(wanted, x, Found(wanted, ab))
        /\ Found(wanted, Append(amb, x)) = Finding(wanted, x, Found(wanted, amb))
        /\ Found(wanted, ab) \in Nat /\ Found(wanted, amb) \in Nat
    BY <1>0, <2>1
  <2>4. Finding(wanted, x, Found(wanted, amb)) >= Finding(wanted, x, Found(wanted, ab))
    BY <2>2, <2>3 DEF Finding
  <2> QED
    BY <2>1, <2>3, <2>4
<1>6. Seq(S) \subseteq T
  <2> HIDE DEF T
  <2> QED
    BY <1>4, <1>5, AppendInduction
<1> QED
  BY <1>6

\* In itself all of a sequence is found.
LEMMA FoundAll ==
  ASSUME NEW S, NEW w \in Seq(S)
  PROVE  Found(w, w) = Len(w)
<1> DEFINE prefix(n) == SubSeq(w, 1, n)
           T == {n \in Nat : n <= Len(w) => Found(w, prefix(n)) = n}
<1>1. 0 \in T
  <2>1. prefix(0) = <<>>
    OBVIOUS
  <2> QED
    BY <2>1, FoundNone
<1>2. ASSUME NEW n \in Nat, n \in T PROVE n + 1 \in T
  <2> SUFFICES ASSUME n + 1 <= Len(w) PROVE Found(w, prefix(n + 1)) = n + 1
    OBVIOUS
  <2>1. prefix(n) \in Seq(S) /\ w[n + 1] \in S /\ prefix(n + 1) = Append(prefix(n), w[n + 1])
    OBVIOUS
  <2>2. Found(w, prefix(n)) = n /\ n < Len(w)
    BY <1>2
  <2> HIDE DEF prefix
  <2>3. Found(w, prefix(n + 1)) = Finding(w, w[n + 1], Found(w, prefix(n)))
    BY <2>1, FoundAppend
  <2> QED
    BY <2>2, <2>3 DEF Finding
<1>3. Nat \subseteq T
  <2> HIDE DEF T
  <2> QED
    BY <1>1, <1>2, NatSet
<1>4. Len(w) \in Nat /\ prefix(Len(w)) = w
  OBVIOUS
<1>5. Len(w) \in T /\ Len(w) <= Len(w)
  <2> HIDE DEF T
  <2> QED
    BY <1>3, <1>4
<1> HIDE DEF prefix
<1>6. Found(w, prefix(Len(w))) = Len(w)
  BY <1>5
<1> QED
  BY <1>4, <1>6

-------------------------------------------------------------------------------
(* Initial states and steps *)

\* The initial texts, places and accounts satisfy the invariant.
LEMMA InitialIntake == Init => IntakeInv
<1> SUFFICES ASSUME Init PROVE IntakeInv
  OBVIOUS
<1>1. TextInv
  <2>1. PICK s : /\ \A c \in Conns : s[c] \in Streams[c]
                 /\ rest = [c \in Conns |-> Wire(s[c])]
    BY DEF Init
  <2>2. \A c \in Conns : Wire(s[c]) \in Text
    BY <2>1, StreamsAssumption DEF Text
  <2>3. rest \in [Conns -> Text]
    BY <2>1, <2>2
  <2>4. tempStr \in [Conns -> Text]
    BY DEF Init, Text
  <2> QED
    BY <2>3, <2>4 DEF TextInv
<1>2. PlaceInv /\ AccountInv
  BY DEF Init, PlaceInv, AccountInv
<1>3. NameInv
  BY UsersAssumption DEF Init, NameInv, OnePerName
<1>4. StoredInv
  BY DEF Init, StoredInv, HasRow, LoginsStored
<1> QED
  BY <1>1, <1>2, <1>3, <1>4 DEF IntakeInv

\* What the handling before the login does with one text.
LEMMA LoginStep ==
  ASSUME IntakeInv, NEW c \in Conns, receiver[c] = "recv", NEW text \in Text,
         loginMsgHandle(c, text), UNCHANGED <<userList, dbUser>>,
         torn' \in [Conns -> {"whole", "torn"}]
  PROVE  PlaceInv' /\ AccountInv' /\ StoredInv'
<1> USE DEF IntakeInv, PlaceInv
<1>1. CASE LogIn(c, text)
  BY <1>1 DEF LogIn, AccountInv, StoredInv, HasRow, UserRow, LoginsStored
<1>2. CASE Ignore(c, text)
  BY <1>2 DEF Ignore, AccountInv, StoredInv, HasRow, UserRow, LoginsStored
<1>3. CASE ReadPastEnd(c, text)
  <2>1. AccountInv' /\ StoredInv'
    BY <1>3 DEF ReadPastEnd, AccountInv, StoredInv, HasRow, UserRow, LoginsStored
  <2>2. process' \in {"up", "dead"} /\ login' \in [Conns -> {"in", "out"}]
    BY <1>3 DEF ReadPastEnd
  <2> QED
    BY <1>3, <2>1, <2>2 DEF ReadPastEnd
<1>4. CASE Register(c, text)
  <2>1. Account(text) # Null
    BY <1>4, AccountFound, NullAssumption DEF Register
  <2>2. PlaceInv' /\ AccountInv'
    BY <1>4, <2>1 DEF Register, AccountInv
  <2>3. StoredInv'
    BY <1>4 DEF Register, StoredInv, HasRow, UserRow, LoginsStored
  <2> QED
    BY <2>2, <2>3
<1> QED
  BY <1>1, <1>2, <1>3, <1>4 DEF loginMsgHandle

\* A chunk is taken of what is under way.
LEMMA ReceiveTakes ==
  ASSUME IntakeInv, NEW c \in Conns, NEW n \in 1..MaxChunk, Receive(c, n)
  PROVE  rest[c] \in Text /\ tempStr[c] \in Text /\ n \in Nat \ {0} /\ n <= Len(rest[c])
<1>1. rest \in [Conns -> Text] /\ tempStr \in [Conns -> Text]
  BY DEF IntakeInv, TextInv
<1>2. n \in Nat \ {0}
  BY MaxChunkAssumption
<1>3. n <= Len(rest[c])
  BY DEF Receive
<1> QED
  BY <1>1, <1>2, <1>3

\* Receiving a chunk keeps the invariant.
LEMMA ReceiveStep ==
  ASSUME IntakeInv, NEW c \in Conns, NEW n \in 1..MaxChunk, Receive(c, n)
  PROVE  IntakeInv'
<1> DEFINE chunk == SubSeq(rest[c], 1, n)
           got == Prepend(tempStr[c], chunk)
           cut == Cut(got.text, got.left)
<1>1. rest[c] \in Text /\ tempStr[c] \in Text /\ n \in Nat \ {0} /\ n <= Len(rest[c])
  BY ReceiveTakes
<1>2. chunk \in Text /\ chunk # <<>> /\ SubSeq(rest[c], n + 1, Len(rest[c])) \in Text
  BY <1>1 DEF Text
<1>3. got.text \in Text /\ got.left \in Text
  BY <1>1, <1>2, PrependText
<1>4. got.text # <<>>
  <2> HIDE DEF chunk
  <2> QED
    BY <1>1, <1>2 DEF Prepend, Text
<1>5. cut.sub \in Text /\ cut.left \in Text
  BY <1>3, <1>4, CutText
<1>6. /\ receiver[c] = "recv"
      /\ rest' = [rest EXCEPT ![c] = SubSeq(rest[c], n + 1, Len(rest[c]))]
      /\ tempStr' = [tempStr EXCEPT ![c] = cut.left]
      /\ torn' \in {torn, [torn EXCEPT ![c] = "torn"]}
      /\ UNCHANGED <<userList, dbUser>>
      /\ \/ UNCHANGED <<login, account, receiver, newUser, process>>
         \/ loginMsgHandle(c, cut.sub)
  BY DEF Receive
<1> HIDE DEF cut, got, chunk
<1>7. TextInv'
  BY <1>2, <1>5, <1>6 DEF IntakeInv, TextInv
<1>8. NameInv'
  BY <1>6 DEF IntakeInv, NameInv, OnePerName
<1>9. torn' \in [Conns -> {"whole", "torn"}]
  BY <1>6 DEF IntakeInv, PlaceInv
<1>10. CASE UNCHANGED <<login, account, receiver, newUser, process>>
  BY <1>6, <1>7, <1>8, <1>9, <1>10
     DEF IntakeInv, PlaceInv, AccountInv, StoredInv, HasRow, UserRow, LoginsStored
<1>11. CASE loginMsgHandle(c, cut.sub)
  <2>1. PlaceInv' /\ AccountInv' /\ StoredInv'
    BY <1>5, <1>6, <1>9, <1>11, LoginStep
  <2> QED
    BY <1>7, <1>8, <2>1 DEF IntakeInv
<1> QED
  BY <1>6, <1>10, <1>11

\* addTrader keeps the rows there are and names apart.
LEMMA AddTraderStep ==
  ASSUME IntakeInv, NEW c \in Conns, AddTrader(c)
  PROVE  IntakeInv'
<1>1. /\ receiver[c] = "insert"
      /\ UNCHANGED <<rest, tempStr, login, newUser, process, userList, torn, account>>
      /\ \/ /\ ~addTraderFails(newUser[c])
            /\ dbUser' = dbUser \cup {UserRow(newUser[c])}
            /\ receiver' = [receiver EXCEPT ![c] = "publish"]
         \/ /\ receiver' = [receiver EXCEPT ![c] = "recv"]
            /\ dbUser' = dbUser
  BY DEF AddTrader
<1>2. TextInv' /\ PlaceInv' /\ AccountInv'
  BY <1>1 DEF IntakeInv, TextInv, PlaceInv, AccountInv
<1>3. NameInv'
  BY <1>1 DEF IntakeInv, NameInv, OnePerName, addTraderFails
<1>4. \A a : HasRow(a) => HasRow(a)'
  BY <1>1 DEF HasRow, UserRow
<1>5. receiver'[c] = "publish" => HasRow(newUser[c])'
  BY <1>1 DEF HasRow, UserRow, IntakeInv, PlaceInv
<1>6. StoredInv'
  <2>1. \A a \in userList' : HasRow(a)'
    BY <1>1, <1>4 DEF IntakeInv, StoredInv
  <2>2. \A d \in Conns : receiver'[d] = "publish" => HasRow(newUser[d])'
    BY <1>1, <1>4, <1>5 DEF IntakeInv, StoredInv, PlaceInv
  <2>3. LoginsStored'
    BY <1>1, <1>4 DEF IntakeInv, StoredInv, LoginsStored, HasRow, UserRow
  <2> QED
    BY <2>1, <2>2, <2>3 DEF StoredInv
<1> QED
  BY <1>2, <1>3, <1>6 DEF IntakeInv

\* Writing the account into userList, after the table, keeps the invariant.
LEMMA PublishStep ==
  ASSUME IntakeInv, NEW c \in Conns, PublishUser(c)
  PROVE  IntakeInv'
<1>1. /\ receiver[c] = "publish"
      /\ receiver' = [receiver EXCEPT ![c] = "recv"]
      /\ UNCHANGED <<rest, tempStr, login, newUser, process, dbUser, torn, account>>
      /\ \/ userList' = userList
         \/ ~KnownUser(newUser[c][1]) /\ userList' = userList \cup {newUser[c]}
  BY DEF PublishUser
<1>2. TextInv' /\ PlaceInv' /\ AccountInv'
  BY <1>1 DEF IntakeInv, TextInv, PlaceInv, AccountInv
<1>3. NameInv'
  BY <1>1 DEF IntakeInv, NameInv, OnePerName, KnownUser
<1>4. StoredInv'
  BY <1>1 DEF IntakeInv, StoredInv, LoginsStored, HasRow, UserRow, PlaceInv
<1> QED
  BY <1>2, <1>3, <1>4 DEF IntakeInv

\* Every step of a receiving thread keeps the invariant.
LEMMA NextIntake == IntakeInv /\ [Next]_vars => IntakeInv'
<1> SUFFICES ASSUME IntakeInv, [Next]_vars PROVE IntakeInv'
  OBVIOUS
<1>1. ASSUME NEW c \in Conns, NEW n \in 1..MaxChunk, Receive(c, n) PROVE IntakeInv'
  BY <1>1, ReceiveStep
<1>2. ASSUME NEW c \in Conns, AddTrader(c) PROVE IntakeInv'
  BY <1>2, AddTraderStep
<1>3. ASSUME NEW c \in Conns, PublishUser(c) PROVE IntakeInv'
  BY <1>3, PublishStep
<1>4. ASSUME NEW c \in Conns, Close(c) PROVE IntakeInv'
  BY <1>4 DEF Close, IntakeInv, TextInv, PlaceInv, AccountInv, NameInv, OnePerName,
              StoredInv, LoginsStored, HasRow, UserRow
<1>5. CASE UNCHANGED vars
  BY <1>5 DEF vars, connVars, IntakeInv, TextInv, PlaceInv, AccountInv, NameInv,
              OnePerName, StoredInv, LoginsStored, HasRow, UserRow
<1> QED
  BY <1>1, <1>2, <1>3, <1>4, <1>5 DEF Next

\* The table, userList and the receivers agree, however the streams are cut and
\* whoever registers meanwhile: loginMsgHandle and addTrader.
THEOREM IntakeInvariant == Spec => []IntakeInv
BY InitialIntake, NextIntake, PTL DEF Spec

\* A name has one account in memory and one in the table, and a registration has
\* an account: the two steps of a registration in loginMsgHandle, from any number of
\* receivers at once.
THEOREM NamesUnique == Spec => []IntakeTypeOK
<1>1. IntakeInv => IntakeTypeOK
  BY DEF IntakeInv, PlaceInv, AccountInv, NameInv, IntakeTypeOK
<1> QED
  BY <1>1, IntakeInvariant, PTL

\* Nobody logs in with an account the table User does not hold: loginMsgHandle,
\* which reads userList, and addTrader, which may fail.
THEOREM LoginsAreStored == Spec => []LoginsStored
<1>1. IntakeInv => LoginsStored
  BY DEF IntakeInv, StoredInv
<1> QED
  BY <1>1, IntakeInvariant, PTL

-------------------------------------------------------------------------------
(* Framing *)

\* What is handled and owed are messages; nothing is handled before the login.
HandledInv ==
  /\ handled \in [Conns -> Seq(Text)] /\ owed \in [Conns -> Seq(Text)]
  /\ \A c \in Conns : login[c] = "out" => handled[c] = <<>>

\* What is left over is the beginning of a message, and no heartbeat continues it.
LeftOverInv ==
  \A c \in Conns : NoSeparator(tempStr[c]) /\ BeatsAlone(tempStr[c] \o rest[c])

FrameInv == IntakeInv /\ HandledInv /\ LeftOverInv /\ FramesExact /\ NoMessageLost

\* The parts of a text are texts.
LEMMA TokensType ==
  ASSUME NEW text \in Text
  PROVE  Tokens(text) \in Seq(Text)
BY PartsType DEF Tokens, Text

\* Heartbeats stay alone in what comes later.
LEMMA BeatsLater ==
  ASSUME NEW a \in Text, NEW b \in Text, BeatsAlone(a \o b)
  PROVE  BeatsAlone(b)
<1> DEFINE beat == Append(Heartbeat, "&")
           ab == a \o b
<1>1. /\ Len(beat) \in Nat /\ Len(a) \in Nat /\ Len(b) \in Nat /\ Len(ab) = Len(a) + Len(b)
      /\ \A i \in 1..Len(b) : ab[Len(a) + i] = b[i]
  BY HeartbeatAssumption DEF Text
<1> HIDE DEF ab, beat
<1>2. \A i \in 0..Len(ab) :
         i + Len(beat) <= Len(ab) /\ (\A k \in 1..Len(beat) : ab[i + k] = beat[k])
           => i = 0 \/ ab[i] = "&"
  BY DEF BeatsAlone, ab, beat
<1>3. ASSUME NEW i \in 0..Len(b), i + Len(beat) <= Len(b), i # 0,
             \A k \in 1..Len(beat) : b[i + k] = beat[k]
      PROVE  b[i] = "&"
  <2> DEFINE j == Len(a) + i
  <2>1. j \in 0..Len(ab) /\ j + Len(beat) <= Len(ab) /\ j # 0 /\ i \in 1..Len(b)
    BY <1>1, <1>3
  <2>2. ASSUME NEW k \in 1..Len(beat) PROVE ab[j + k] = beat[k]
    <3>1. i + k \in 1..Len(b) /\ j + k = Len(a) + (i + k)
      BY <1>1, <1>3
    <3> QED
      BY <1>1, <1>3, <3>1
  <2>3. ab[j] = "&"
    <3> HIDE DEF j
    <3> QED
      BY <1>2, <2>1, <2>2
  <2> QED
    BY <1>1, <2>1, <2>3
<1> QED
  BY <1>3 DEF BeatsAlone, beat

\* A heartbeat does not follow the beginning of a message.
LEMMA NoBeatBehind ==
  ASSUME NEW a \in Text, a # <<>>, NoSeparator(a), NEW b \in Text, BeatsAlone(a \o b),
         NEW n \in Nat, n <= Len(b)
  PROVE  SubSeq(b, 1, n) # Append(Heartbeat, "&")
<1> DEFINE beat == Append(Heartbeat, "&")
           ab == a \o b
           i == Len(a)
<1> SUFFICES ASSUME SubSeq(b, 1, n) = beat PROVE FALSE
  OBVIOUS
<1>1. /\ Len(beat) \in Nat /\ i \in Nat \ {0} /\ Len(b) \in Nat /\ Len(ab) = i + Len(b)
      /\ (\A k \in 1..Len(b) : ab[i + k] = b[k]) /\ \A k \in 1..i : ab[k] = a[k]
  BY HeartbeatAssumption DEF Text
<1>2. Len(beat) = n /\ \A k \in 1..n : beat[k] = b[k]
  <2>1. Len(SubSeq(b, 1, n)) = n /\ \A k \in 1..n : SubSeq(b, 1, n)[k] = b[k]
    BY DEF Text
  <2> HIDE DEF beat
  <2> QED
    BY <2>1
<1> HIDE DEF ab, beat
<1>3. i \in 0..Len(ab) /\ i + Len(beat) <= Len(ab) /\ i # 0 /\ i \in 1..i
  BY <1>1, <1>2
<1>4. \A k \in 1..Len(beat) : ab[i + k] = beat[k]
  <2>1. \A k \in 1..n : k \in 1..Len(b)
    BY <1>1
  <2> HIDE DEF i
  <2> QED
    BY <1>1, <1>2, <2>1
<1>5. ab[i] = "&"
  <2> HIDE DEF i
  <2> QED
    BY <1>3, <1>4 DEF BeatsAlone, ab, beat
<1> QED
  BY <1>1, <1>3, <1>5 DEF NoSeparator

\* What one recv does to the text still to be handled.
Received(c, text, sub, left, more) ==
  /\ text \in Text /\ IsCut(text, sub, left) /\ more \in Text
  /\ text \o more = tempStr[c] \o rest[c]
  /\ rest' = [rest EXCEPT ![c] = more]
  /\ tempStr' = [tempStr EXCEPT ![c] = left]
  /\ torn' = IF LastSeparator(text) = 0 THEN [torn EXCEPT ![c] = "torn"] ELSE torn
  /\ \/ /\ login[c] = "in"
        /\ handled' = [handled EXCEPT ![c] = @ \o Tokens(sub)]
        /\ UNCHANGED <<login, owed>>
     \/ /\ login[c] = "out"
        /\ login' \in {login, [login EXCEPT ![c] = "in"]}
        /\ owed' = IF login'[c] = "in" THEN [owed EXCEPT ![c] = Tokens(left \o more)]
                   ELSE owed
        /\ UNCHANGED handled

\* Receive takes such a part, cut such a way.
LEMMA ReceiveCuts ==
  ASSUME IntakeInv, LeftOverInv, NEW c \in Conns, NEW n \in 1..MaxChunk, Receive(c, n)
  PROVE  \E text, sub, left, more : Received(c, text, sub, left, more)
<1> DEFINE chunk == SubSeq(rest[c], 1, n)
           more == SubSeq(rest[c], n + 1, Len(rest[c]))
           text == tempStr[c] \o chunk
           cut == Cut(text, <<>>)
<1>1. rest[c] \in Text /\ tempStr[c] \in Text /\ n \in Nat \ {0} /\ n <= Len(rest[c])
  BY ReceiveTakes
<1>2. chunk \in Text /\ chunk # <<>> /\ more \in Text /\ chunk \o more = rest[c]
  BY <1>1 DEF Text
<1> HIDE DEF chunk, more
<1>3. text \in Text /\ text # <<>> /\ text \o more = tempStr[c] \o rest[c]
  <2>1. text \in Text /\ text # <<>>
    BY <1>1, <1>2 DEF Text
  <2>2. (tempStr[c] \o chunk) \o more = tempStr[c] \o (chunk \o more)
    BY <1>1, <1>2, TextAssociative DEF Associates
  <2> QED
    BY <1>2, <2>1, <2>2
<1>4. Prepend(tempStr[c], chunk) = [text |-> text, left |-> <<>>]
  <2>1. CASE tempStr[c] = <<>>
    <3>1. text = chunk
      BY <1>2, <2>1 DEF Text
    <3> QED
      BY <2>1, <3>1 DEF Prepend
  <2>2. CASE tempStr[c] # <<>>
    <3>1. chunk # Append(Heartbeat, "&")
      BY <1>1, <2>2, NoBeatBehind DEF LeftOverInv, chunk
    <3> QED
      BY <2>2, <3>1 DEF Prepend
  <2> QED
    BY <2>1, <2>2
<1> HIDE DEF text
<1>5. IsCut(text, cut.sub, cut.left)
  BY <1>3, CutParts
<1>6. /\ rest' = [rest EXCEPT ![c] = more]
      /\ tempStr' = [tempStr EXCEPT ![c] = cut.left]
      /\ torn' = IF LastSeparator(text) = 0 THEN [torn EXCEPT ![c] = "torn"] ELSE torn
      /\ \/ /\ login[c] = "in"
            /\ handled' = [handled EXCEPT ![c] = @ \o Tokens(cut.sub)]
            /\ UNCHANGED <<login, owed>>
         \/ /\ login[c] = "out" /\ loginMsgHandle(c, cut.sub)
            /\ owed' = IF login'[c] = "in"
                       THEN [owed EXCEPT ![c] = Tokens(cut.left \o rest'[c])] ELSE owed
            /\ UNCHANGED handled
  <2> DEFINE got == Prepend(tempStr[c], chunk)
             cut0 == Cut(got.text, got.left)
  <2>1. /\ rest' = [rest EXCEPT ![c] = more]
        /\ tempStr' = [tempStr EXCEPT ![c] = cut0.left]
        /\ torn' = IF LastSeparator(got.text) = 0 THEN [torn EXCEPT ![c] = "torn"] ELSE torn
        /\ \/ /\ login[c] = "in"
              /\ handled' = [handled EXCEPT ![c] = @ \o Tokens(cut0.sub)]
              /\ UNCHANGED <<login, owed>>
           \/ /\ login[c] = "out" /\ loginMsgHandle(c, cut0.sub)
              /\ owed' = IF login'[c] = "in"
                         THEN [owed EXCEPT ![c] = Tokens(cut0.left \o rest'[c])] ELSE owed
              /\ UNCHANGED handled
    BY DEF Receive, chunk, more
  <2>2. got.text = text /\ got.left = <<>>
    BY <1>4
  <2>3. cut0 = cut
    BY <2>2
  <2> HIDE DEF got, cut0, cut
  <2> QED
    BY <2>1, <2>2, <2>3
<1> HIDE DEF cut
<1>7. rest'[c] = more
  BY <1>6 DEF IntakeInv, TextInv
<1>8. loginMsgHandle(c, cut.sub) => login' \in {login, [login EXCEPT ![c] = "in"]}
  BY DEF loginMsgHandle, LogIn, Ignore, ReadPastEnd, Register
<1>9. Received(c, text, cut.sub, cut.left, more)
  BY <1>2, <1>3, <1>5, <1>6, <1>7, <1>8 DEF Received
<1> QED
  BY <1>9

\* What was to be handled is handled or still to be, unless the connection is torn.
KeptTogether(c, text, sub, left, more) ==
  /\ rest'[c] = more /\ tempStr'[c] = left
  /\ IF LastSeparator(text) = 0
     THEN torn'[c] = "torn" /\ left \o more = tempStr[c] \o rest[c]
     ELSE /\ torn'[c] = torn[c]
          /\ Tokens(sub) \o Tokens(left \o more) = Tokens(tempStr[c] \o rest[c])
  /\ Tokens(sub) \in Seq(Text) /\ Tokens(left \o more) \in Seq(Text)

\* The messages still to be handled, after one recv.
LEMMA PendingAfter ==
  ASSUME IntakeInv, NEW c \in Conns, NEW text, NEW sub, NEW left, NEW more,
         Received(c, text, sub, left, more)
  PROVE  KeptTogether(c, text, sub, left, more)
<1> USE DEF KeptTogether
<1>1. rest'[c] = more /\ tempStr'[c] = left
  BY DEF Received, IntakeInv, TextInv
<1>2. sub \in Text /\ left \o more \in Text
  BY DEF Received, IsCut, Text
<1>3. Tokens(sub) \in Seq(Text) /\ Tokens(left \o more) \in Seq(Text)
  BY <1>2, TokensType
<1>4. CASE LastSeparator(text) = 0
  BY <1>1, <1>3, <1>4 DEF Received, IntakeInv, PlaceInv, IsCut
<1>5. CASE LastSeparator(text) # 0
  <2>1. Tokens(sub) \o Tokens(left \o more) = Tokens(text \o more)
    <3>1. text \in Text /\ IsCut(text, sub, left) /\ more \in Text
      BY DEF Received
    <3> QED
      BY <1>5, <3>1, TokensOfCut
  <2>2. torn' = torn
    BY <1>5 DEF Received
  <2>3. text \o more = tempStr[c] \o rest[c]
    BY DEF Received
  <2> QED
    BY <1>1, <1>3, <1>5, <2>1, <2>2, <2>3
<1> QED
  BY <1>4, <1>5

\* What is left over is still the beginning of a message.
LEMMA ReceiveLeftOver ==
  ASSUME IntakeInv, LeftOverInv, NEW c \in Conns, NEW text, NEW sub, NEW left, NEW more,
         Received(c, text, sub, left, more)
  PROVE  LeftOverInv'
<1>1. rest'[c] = more /\ tempStr'[c] = left
  BY PendingAfter DEF KeptTogether
<1>2. NoSeparator(left)
  BY DEF Received, IsCut
<1>3. BeatsAlone(left \o more)
  <2>1. BeatsAlone(text \o more) /\ text \in Text /\ left \in Text /\ sub \in Text /\ more \in Text
    BY DEF Received, LeftOverInv, IsCut
  <2>2. CASE LastSeparator(text) = 0
    BY <2>1, <2>2 DEF Received, IsCut
  <2>3. CASE LastSeparator(text) # 0
    <3>1. text = Append(sub, "&") \o left
      BY <2>3 DEF Received, IsCut
    <3>2. Append(sub, "&") \in Text /\ left \o more \in Text
      BY <2>1, HeartbeatAssumption DEF Text
    <3>3. Associates(Append(sub, "&"), left, more)
      BY <2>1, <3>2, TextAssociative
    <3>4. text \o more = Append(sub, "&") \o (left \o more)
      BY <3>1, <3>3 DEF Associates
    <3> QED
      BY <2>1, <3>2, <3>4, BeatsLater
  <2> QED
    BY <2>2, <2>3
<1>4. ASSUME NEW d \in Conns, d # c PROVE rest'[d] = rest[d] /\ tempStr'[d] = tempStr[d]
  BY <1>4 DEF Received, IntakeInv, TextInv
<1>5. ASSUME NEW d \in Conns PROVE NoSeparator(tempStr'[d]) /\ BeatsAlone(tempStr'[d] \o rest'[d])
  <2>1. CASE d = c
    BY <1>1, <1>2, <1>3, <2>1
  <2>2. CASE d # c
    BY <1>4, <2>2 DEF LeftOverInv
  <2> QED
    BY <2>1, <2>2
<1> QED
  BY <1>5 DEF LeftOverInv, NoSeparator, BeatsAlone

\* Messages put together.
LEMMA MessagesConcat ==
  ASSUME NEW a \in Seq(Text), NEW b \in Seq(Text)
  PROVE  a \o b \in Seq(Text) /\ <<>> \o b = b
OBVIOUS

\* Lists of messages are put together in any grouping.
LEMMA MessagesAssociative ==
  ASSUME NEW a \in Seq(Text), NEW b \in Seq(Text), NEW d \in Seq(Text)
  PROVE  Associates(a, b, d)
BY DEF Associates

\* One recv keeps what is handled and to be handled.
LEMMA ReceiveFrames ==
  ASSUME FrameInv, NEW c \in Conns, NEW text, NEW sub, NEW left, NEW more,
         Received(c, text, sub, left, more)
  PROVE  HandledInv' /\ FramesExact' /\ NoMessageLost'
<1> DEFINE before == Tokens(tempStr[c] \o rest[c])
           now == Tokens(sub)
           later == Tokens(left \o more)
<1>1. /\ rest'[c] = more /\ tempStr'[c] = left
      /\ IF LastSeparator(text) = 0
         THEN torn'[c] = "torn" /\ later = before
         ELSE torn'[c] = torn[c] /\ now \o later = before
      /\ now \in Seq(Text) /\ later \in Seq(Text)
  <2>1. KeptTogether(c, text, sub, left, more)
    BY PendingAfter DEF FrameInv
  <2> QED
    BY <2>1 DEF KeptTogether
<1>2. /\ handled \in [Conns -> Seq(Text)] /\ owed \in [Conns -> Seq(Text)]
      /\ login \in [Conns -> {"in", "out"}] /\ torn \in [Conns -> {"whole", "torn"}]
      /\ rest \in [Conns -> Text] /\ tempStr \in [Conns -> Text]
      /\ \A d \in Conns : login[d] = "out" => handled[d] = <<>>
  BY DEF FrameInv, HandledInv, IntakeInv, PlaceInv, TextInv
<1>3. ASSUME NEW d \in Conns, d # c
      PROVE  /\ rest'[d] = rest[d] /\ tempStr'[d] = tempStr[d] /\ torn'[d] = torn[d]
             /\ login'[d] = login[d] /\ handled'[d] = handled[d] /\ owed'[d] = owed[d]
  BY <1>2, <1>3 DEF Received
<1>4. CASE login[c] = "in"
  <2>1. login' = login /\ owed' = owed /\ handled' = [handled EXCEPT ![c] = handled[c] \o now]
    BY <1>4 DEF Received
  <2> DEFINE h == handled[c]
  <2>2. h \in Seq(Text) /\ owed[c] \in Seq(Text)
    BY <1>2
  <2>3. before \in Seq(Text)
    <3>1. tempStr[c] \o rest[c] \in Text
      BY <1>2 DEF Text
    <3> QED
      BY <3>1, TokensType
  <2> HIDE DEF h, now, later, before
  <2>0. Associates(h, now, later)
    BY <1>1, <2>2, MessagesAssociative
  <2>4. handled'[c] = h \o now /\ h \o now \in Seq(Text)
    BY <1>1, <1>2, <2>1, <2>2, MessagesConcat DEF h
  <2>5. HandledInv'
    BY <1>2, <1>4, <2>1, <2>4 DEF HandledInv, h
  <2>6. torn'[c] = "whole" => (h \o now) \o later = owed[c]
    <3>1. torn'[c] = "whole" => now \o later = before /\ h \o before = owed[c]
      BY <1>1, <1>4 DEF FrameInv, FramesExact, before, h
    <3> QED
      BY <2>0, <3>1 DEF Associates
  <2>7. Found(owed[c], (h \o now) \o later) = Len(owed[c])
    <3>1. Found(owed[c], h \o before) = Len(owed[c])
      BY <1>4 DEF FrameInv, NoMessageLost, before, h
    <3>2. CASE LastSeparator(text) # 0
      <4>1. (h \o now) \o later = h \o before
        BY <1>1, <2>0, <3>2 DEF Associates
      <4> QED
        BY <3>1, <4>1
    <3>3. CASE LastSeparator(text) = 0
      <4>1. later = before
        BY <1>1, <3>3
      <4>2. Found(owed[c], (h \o now) \o later) >= Found(owed[c], h \o later)
        BY <1>1, <2>2, FoundMore
      <4>3. (h \o now) \o later \in Seq(Text)
        BY <1>1, <2>4, MessagesConcat
      <4>4. Len(owed[c]) \in Nat
        BY <2>2
      <4>5. Found(owed[c], (h \o now) \o later) \in 0..Len(owed[c])
        BY <4>3, <4>4, FoundBound
      <4> QED
        BY <3>1, <4>1, <4>2, <4>4, <4>5
    <3> QED
      BY <3>2, <3>3
  <2>8. FramesExact'
    <3> SUFFICES ASSUME NEW d \in Conns, login'[d] = "in", torn'[d] = "whole"
                 PROVE  handled'[d] \o Tokens(tempStr'[d] \o rest'[d]) = owed'[d]
      BY DEF FramesExact, Tokens
    <3>1. CASE d = c
      BY <1>1, <2>1, <2>4, <2>6, <3>1 DEF later
    <3>2. CASE d # c
      BY <1>3, <3>2 DEF FrameInv, FramesExact
    <3> QED
      BY <3>1, <3>2
  <2>9. NoMessageLost'
    <3> SUFFICES ASSUME NEW d \in Conns, login'[d] = "in"
                 PROVE  Found(owed'[d], handled'[d] \o Tokens(tempStr'[d] \o rest'[d]))
                          = Len(owed'[d])
      BY DEF NoMessageLost, Tokens, Found
    <3>1. CASE d = c
      BY <1>1, <2>1, <2>4, <2>7, <3>1 DEF later
    <3>2. CASE d # c
      BY <1>3, <3>2 DEF FrameInv, NoMessageLost
    <3> QED
      BY <3>1, <3>2
  <2> QED
    BY <2>5, <2>8, <2>9
<1>5. CASE login[c] = "out"
  <2>1. /\ handled' = handled /\ handled[c] = <<>>
        /\ login'[c] = "in" => owed' = [owed EXCEPT ![c] = later]
        /\ login'[c] # "in" => owed' = owed
        /\ login' \in {login, [login EXCEPT ![c] = "in"]}
    BY <1>2, <1>5 DEF Received
  <2> HIDE DEF later, now, before
  <2>2. HandledInv'
    <3>1. owed' \in [Conns -> Seq(Text)]
      BY <1>1, <1>2, <2>1
    <3>2. \A d \in Conns : login'[d] = "out" => login[d] = "out"
      BY <1>2, <2>1
    <3> QED
      BY <1>2, <2>1, <3>1, <3>2 DEF HandledInv
  <2>3. login'[c] = "in" => owed'[c] = later /\ handled'[c] \o later = later
    BY <1>1, <1>2, <2>1, MessagesConcat
  <2>4. FramesExact'
    <3> SUFFICES ASSUME NEW d \in Conns, login'[d] = "in", torn'[d] = "whole"
                 PROVE  handled'[d] \o Tokens(tempStr'[d] \o rest'[d]) = owed'[d]
      BY DEF FramesExact, Tokens
    <3>1. CASE d = c
      BY <1>1, <2>3, <3>1 DEF later
    <3>2. CASE d # c
      BY <1>3, <3>2 DEF FrameInv, FramesExact
    <3> QED
      BY <3>1, <3>2
  <2>5. NoMessageLost'
    <3> SUFFICES ASSUME NEW d \in Conns, login'[d] = "in"
                 PROVE  Found(owed'[d], handled'[d] \o Tokens(tempStr'[d] \o rest'[d]))
                          = Len(owed'[d])
      BY DEF NoMessageLost, Tokens, Found
    <3>1. CASE d = c
      <4>1. Found(later, later) = Len(later)
        BY <1>1, FoundAll
      <4> QED
        BY <1>1, <2>3, <3>1, <4>1 DEF later
    <3>2. CASE d # c
      BY <1>3, <3>2 DEF FrameInv, NoMessageLost
    <3> QED
      BY <3>1, <3>2
  <2> QED
    BY <2>2, <2>4, <2>5
<1> QED
  BY <1>4, <1>5 DEF Received

\* Nothing is left over, handled or lost at first.
LEMMA InitialFrames == Init => FrameInv
<1> SUFFICES ASSUME Init PROVE FrameInv
  OBVIOUS
<1>1. IntakeInv
  BY InitialIntake
<1>2. PICK s : (\A c \in Conns : s[c] \in Streams[c]) /\ rest = [c \in Conns |-> Wire(s[c])]
  BY DEF Init
<1>3. ASSUME NEW c \in Conns
      PROVE  /\ rest[c] \in Text /\ BeatsAlone(rest[c]) /\ tempStr[c] = <<>>
             /\ tempStr[c] \o rest[c] = rest[c] /\ handled[c] = <<>>
             /\ owed[c] = IF login[c] = "in" THEN Tokens(rest[c]) ELSE <<>>
             /\ Tokens(rest[c]) \in Seq(Text) /\ <<>> \o Tokens(rest[c]) = Tokens(rest[c])
  <2>1. rest[c] \in Text /\ BeatsAlone(rest[c])
    BY <1>2, StreamsAssumption, HeartbeatAssumption DEF Text
  <2>2. /\ tempStr[c] = <<>> /\ handled[c] = <<>>
        /\ owed[c] = IF login[c] = "in" THEN Tokens(rest[c]) ELSE <<>>
    BY DEF Init
  <2>3. <<>> \o rest[c] = rest[c]
    BY <2>1 DEF Text
  <2>4. Tokens(rest[c]) \in Seq(Text)
    BY <2>1, TokensType
  <2> QED
    BY <2>1, <2>2, <2>3, <2>4, MessagesConcat
<1>4. HandledInv
  <2>1. handled \in [Conns -> Seq(Text)]
    BY DEF Init
  <2>2. \A c \in Conns : owed[c] \in Seq(Text)
    <3> SUFFICES ASSUME NEW c \in Conns PROVE owed[c] \in Seq(Text)
      OBVIOUS
    <3>1. Tokens(rest[c]) \in Seq(Text)
      BY <1>3
    <3>2. <<>> \in Seq(Text)
      OBVIOUS
    <3>3. owed[c] \in {Tokens(rest[c]), <<>>}
      BY <1>3
    <3> QED
      BY <3>1, <3>2, <3>3
  <2>3. owed \in [Conns -> Seq(Text)]
    BY <2>2 DEF Init
  <2> QED
    BY <1>3, <2>1, <2>3 DEF HandledInv
<1>5. LeftOverInv
  <2>1. NoSeparator(<<>>)
    BY DEF NoSeparator
  <2>2. \A c \in Conns : NoSeparator(tempStr[c]) /\ BeatsAlone(tempStr[c] \o rest[c])
    <3> TAKE c \in Conns
    <3>1. tempStr[c] = <<>> /\ tempStr[c] \o rest[c] = rest[c] /\ BeatsAlone(rest[c])
      BY <1>3
    <3> QED
      BY <2>1, <3>1
  <2> QED
    BY <2>2 DEF LeftOverInv
<1>6. FramesExact
  BY <1>3 DEF FramesExact
<1>7. NoMessageLost
  BY <1>3, FoundAll DEF NoMessageLost
<1> QED
  BY <1>1, <1>4, <1>5, <1>6, <1>7 DEF FrameInv

\* Every step of a receiving thread keeps the texts whole.
LEMMA NextFrames == FrameInv /\ [Next]_vars => FrameInv'
<1> SUFFICES ASSUME FrameInv, [Next]_vars PROVE FrameInv'
  OBVIOUS
<1>1. IntakeInv'
  BY NextIntake DEF FrameInv
<1>2. ASSUME NEW c \in Conns, NEW n \in 1..MaxChunk, Receive(c, n) PROVE FrameInv'
  <2>1. PICK text, sub, left, more : Received(c, text, sub, left, more)
    BY <1>2, ReceiveCuts DEF FrameInv
  <2>2. LeftOverInv'
    BY <2>1, ReceiveLeftOver DEF FrameInv
  <2>3. HandledInv' /\ FramesExact' /\ NoMessageLost'
    BY <2>1, ReceiveFrames
  <2> QED
    BY <1>1, <2>2, <2>3 DEF FrameInv
<1>3. ASSUME UNCHANGED <<rest, tempStr, login, handled, owed, torn>> PROVE FrameInv'
  <2>1. HandledInv' /\ LeftOverInv'
    BY <1>3 DEF FrameInv, HandledInv, LeftOverInv
  <2>2. FramesExact'
    BY <1>3 DEF FrameInv, FramesExact
  <2>3. NoMessageLost'
    BY <1>3 DEF FrameInv, NoMessageLost
  <2> QED
    BY <1>1, <2>1, <2>2, <2>3 DEF FrameInv
<1>4. ASSUME NEW c \in Conns, AddTrader(c) \/ PublishUser(c) \/ Close(c) PROVE FrameInv'
  BY <1>3, <1>4 DEF AddTrader, PublishUser, Close
<1>5. CASE UNCHANGED vars
  BY <1>3, <1>5 DEF vars, connVars
<1> QED
  BY <1>2, <1>4, <1>5 DEF Next

\* Framing holds in every run: msgRecv, any number of connections, however recv cuts
\* their streams.
THEOREM FrameInvariant == Spec => []FrameInv
BY InitialFrames, NextFrames, PTL DEF Spec

\* What a client sends after its login is handled message by message, each one once
\* and in its order: msgRecv, which puts what was left over in front of the next chunk
\* and cuts behind the last separator, as long as every chunk brought one.
THEOREM FramesAreExact == Spec => []FramesExact
<1>1. FrameInv => FramesExact
  BY DEF FrameInv
<1> QED
  BY <1>1, FrameInvariant, PTL

\* And where a chunk brought none, msgRecv handles a fragment, keeps it and handles it
\* again with what follows: no message is lost or overtaken.
THEOREM MessagesAreKept == Spec => []NoMessageLost
<1>1. FrameInv => NoMessageLost
  BY DEF FrameInv
<1> QED
  BY <1>1, FrameInvariant, PTL
===============================================================================
