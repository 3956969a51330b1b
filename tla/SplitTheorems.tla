----------------------------- MODULE SplitTheorems -----------------------------
(***************************************************************************)
(* What split is meant to return (Parts), for texts of any length: the     *)
(* parts of a prefix from those of a shorter one, and of two texts put     *)
(* together from those of each.                                            *)
(*                                                                         *)
(* Induction is a statement about a set of numbers (NatSet) or of texts    *)
(* (AppendInduction); recursion, one about the functions that follow a     *)
(* step (Recursion).                                                       *)
(***************************************************************************)
EXTENDS SplitText, SequenceTheorems, WellFoundedInduction, TLAPS

\* Induction: a set of numbers that holds 0 and the successor of each is Nat.
LEMMA NatSet ==
  ASSUME NEW T, 0 \in T, \A n \in Nat : n \in T => n + 1 \in T
  PROVE  Nat \subseteq T
<1> DEFINE W == Nat \ T
<1>1. SUFFICES ASSUME W # {} PROVE FALSE
  OBVIOUS
<1>2. PICK m \in W : \A k \in W : ~(<<k, m>> \in OpToRel(<, Nat))
  BY <1>1, NatLessThanWellFounded, WFMin
<1>3. m \in Nat /\ m # 0
  OBVIOUS
<1>4. m - 1 \in Nat /\ m - 1 < m
  BY <1>3
<1>5. m - 1 \in T
  BY <1>2, <1>4 DEF OpToRel
<1> QED
  BY <1>3, <1>4, <1>5

\* h has a step for every number, and f follows them from b.
StepsOf(h, B) == h \in [Nat -> [B -> B]]
IsRecursive(f, B, b, h) ==
  f \in [Nat -> B] /\ f[0] = b /\ \A n \in Nat : f[n + 1] = h[n][f[n]]

\* Primitive recursion: a value for 0 and a function for the successor define a
\* function on the numbers.
LEMMA Recursion ==
  ASSUME NEW B, NEW b, NEW h, b \in B, StepsOf(h, B)
  PROVE  \E f : IsRecursive(f, B, b, h)
<1> USE DEF StepsOf
<1> DEFINE A(n) == {g \in [0..n -> B] : g[0] = b /\ \A i \in 0..n - 1 : g[i + 1] = h[i][g[i]]}
           T == {n \in Nat : A(n) # {}}
<1>1. 0 \in T
  <2>1. [i \in 0..0 |-> b] \in A(0)
    OBVIOUS
  <2> QED
    BY <2>1
<1>2. ASSUME NEW n \in Nat, n \in T PROVE n + 1 \in T
  <2>1. PICK g \in A(n) : TRUE
    BY <1>2
  <2> DEFINE g2 == [i \in 0..n + 1 |-> IF i = n + 1 THEN h[n][g[n]] ELSE g[i]]
  <2>2. g2 \in [0..n + 1 -> B]
    OBVIOUS
  <2>3. g2[0] = b
    OBVIOUS
  <2>4. ASSUME NEW i \in 0..n
        PROVE  g2[i + 1] = h[i][g2[i]]
    <3>1. i # n + 1 /\ i \in 0..n + 1 /\ i + 1 \in 0..n + 1 /\ g2[i] = g[i]
      OBVIOUS
    <3>2. CASE i = n
      BY <3>1, <3>2
    <3>3. CASE i # n
      <4>1. i \in 0..n - 1 /\ i + 1 # n + 1
        BY <3>3
      <4>2. g[i + 1] = h[i][g[i]] /\ g2[i + 1] = g[i + 1]
        BY <4>1, <3>1
      <4> QED
        BY <3>1, <4>2
    <3> QED
      BY <3>2, <3>3
  <2>5. g2 \in A(n + 1)
    <3>1. (n + 1) - 1 = n
      OBVIOUS
    <3> HIDE DEF g2
    <3>2. \A i \in 0..(n + 1) - 1 : g2[i + 1] = h[i][g2[i]]
      BY <2>4, <3>1
    <3> QED
      BY <2>2, <2>3, <3>2
  <2>6. n + 1 \in Nat
    OBVIOUS
  <2> HIDE DEF A
  <2> QED
    BY <2>5, <2>6
<1>3. \A n \in Nat : A(n) # {}
  <2>1. Nat \subseteq T
    <3> HIDE DEF T
    <3> QED
      BY <1>1, <1>2, NatSet
  <2> HIDE DEF A
  <2> QED
    BY <2>1
\* Two attempts agree where both are defined.
<1>4. \A n \in Nat : \A m \in Nat : \A g \in A(n), k \in A(m) :
        \A i \in Nat : i <= n /\ i <= m => g[i] = k[i]
  <2> SUFFICES ASSUME NEW n \in Nat, NEW m \in Nat, NEW g \in A(n), NEW k \in A(m)
               PROVE  \A i \in Nat : i <= n /\ i <= m => g[i] = k[i]
    OBVIOUS
  <2> DEFINE U == {i \in Nat : i <= n /\ i <= m => g[i] = k[i]}
  <2>1. 0 \in U
    OBVIOUS
  <2>2. ASSUME NEW i \in Nat, i \in U
        PROVE  i + 1 \in U
    <3> SUFFICES ASSUME i + 1 <= n, i + 1 <= m PROVE g[i + 1] = k[i + 1]
      OBVIOUS
    <3>1. g[i] = k[i] /\ i \in 0..n - 1 /\ i \in 0..m - 1
      BY <2>2
    <3>2. g[i + 1] = h[i][g[i]] /\ k[i + 1] = h[i][k[i]]
      BY <3>1
    <3> QED
      BY <3>1, <3>2
  <2>3. Nat \subseteq U
    <3> HIDE DEF U
    <3> QED
      BY <2>1, <2>2, NatSet
  <2> QED
    BY <2>3
<1> HIDE DEF StepsOf
<1> DEFINE a(n) == CHOOSE g \in A(n) : TRUE
           f == [n \in Nat |-> a(n)[n]]
<1>5. \A n \in Nat : a(n) \in A(n)
  <2> HIDE DEF A
  <2> QED
    BY <1>3
<1>6. f \in [Nat -> B]
  <2> SUFFICES ASSUME NEW n \in Nat PROVE a(n)[n] \in B
    BY DEF f
  <2> HIDE DEF a
  <2>1. a(n) \in A(n) /\ n \in 0..n
    BY <1>5
  <2> QED
    BY <2>1
<1>7. f[0] = b
  BY <1>5
<1>8. \A n \in Nat : f[n + 1] = h[n][f[n]]
  <2> TAKE n \in Nat
  <2>1. a(n + 1) \in A(n + 1) /\ a(n) \in A(n)
    <3>1. n + 1 \in Nat
      OBVIOUS
    <3> HIDE DEF A, a
    <3> QED
      BY <1>5, <3>1
  <2>2. a(n + 1)[n] = a(n)[n]
    <3> HIDE DEF A, a
    <3>1. n + 1 \in Nat /\ n <= n + 1 /\ n <= n
      OBVIOUS
    <3> QED
      BY <1>4, <2>1, <3>1
  <2> HIDE DEF a
  <2>3. a(n + 1)[n + 1] = h[n][a(n + 1)[n]]
    BY <2>1
  <2>4. f[n + 1] = a(n + 1)[n + 1] /\ f[n] = a(n)[n]
    OBVIOUS
  <2> QED
    BY <2>2, <2>3, <2>4
<1> QED
  BY <1>6, <1>7, <1>8 DEF IsRecursive

\* A sequence taken apart around its symbol i.
LEMMA CutAt ==
  ASSUME NEW S, NEW s \in Seq(S), NEW i \in 1..Len(s)
  PROVE  s = Append(SubSeq(s, 1, i - 1), s[i]) \o SubSeq(s, i + 1, Len(s))
<1> DEFINE L == Len(s)
           a == SubSeq(s, 1, i - 1)
           b == SubSeq(s, i + 1, L)
           t == Append(a, s[i]) \o b
<1>1. L \in Nat /\ i \in Nat /\ s[i] \in S
  OBVIOUS
<1>2. a \in Seq(S) /\ Len(a) = i - 1 /\ \A k \in 1..i - 1 : a[k] = s[k]
  BY <1>1
<1>3. b \in Seq(S) /\ Len(b) = L - i /\ \A k \in 1..L - i : b[k] = s[i + k]
  BY <1>1
<1> HIDE DEF a, b
<1>4. t \in Seq(S) /\ Len(t) = L
  BY <1>1, <1>2, <1>3
<1>5. ASSUME NEW k \in 1..L PROVE t[k] = s[k]
  <2>1. CASE k < i
    BY <1>1, <1>2, <1>3, <2>1
  <2>2. CASE k = i
    BY <1>1, <1>2, <1>3, <2>2
  <2>3. CASE k > i
    <3>1. k - i \in 1..L - i /\ i + (k - i) = k
      BY <1>1, <2>3
    <3>2. t[k] = b[k - i]
      BY <1>1, <1>2, <1>3, <2>3
    <3> QED
      BY <1>3, <3>1, <3>2
  <2>4. k < i \/ k = i \/ k > i
    BY <1>1
  <2> HIDE DEF t
  <2> QED
    BY <2>1, <2>2, <2>3, <2>4
<1> HIDE DEF t
<1>6. t = s
  BY <1>4, <1>5, SeqEqual
<1> QED
  BY <1>6 DEF t, a, b

-------------------------------------------------------------------------------
(* Parts, symbol by symbol *)

\* The parts after symbol n of s, from those before it.
After(s, d, n, before) ==
  IF s[n] = d THEN before
  ELSE IF n = 1 \/ s[n - 1] = d THEN Append(before, <<s[n]>>)
  ELSE [before EXCEPT ![Len(before)] = Append(@, s[n])]

\* They are texts if those before it were.
LEMMA AfterType ==
  ASSUME NEW S, NEW s \in Seq(S), NEW d, NEW n \in 1..Len(s), NEW q \in Seq(Seq(S))
  PROVE  After(s, d, n, q) \in Seq(Seq(S))
<1>1. s[n] \in S /\ <<s[n]>> \in Seq(S)
  OBVIOUS
<1>2. Append(q, <<s[n]>>) \in Seq(Seq(S))
  BY <1>1
<1>3. [q EXCEPT ![Len(q)] = Append(@, s[n])] \in Seq(Seq(S))
  <2>1. CASE Len(q) = 0
    <3>1. [q EXCEPT ![Len(q)] = Append(@, s[n])] = q
      BY <2>1
    <3> QED
      BY <3>1
  <2>2. CASE Len(q) # 0
    <3>1. Len(q) \in 1..Len(q) /\ q[Len(q)] \in Seq(S)
      BY <2>2
    <3>2. Append(q[Len(q)], s[n]) \in Seq(S)
      BY <1>1, <3>1
    <3> QED
      BY <3>1, <3>2, ExceptSeq
  <2> QED
    BY <2>1, <2>2
<1> QED
  BY <1>2, <1>3 DEF After

\* p[n] are the parts after n symbols.
IsTrace(p, s, d) ==
  /\ p[0] = <<>> /\ Parts(s, d) = p[Len(s)]
  /\ \A n \in 1..Len(s) : p[n] = After(s, d, n, p[n - 1])

\* What Parts computes.
LEMMA PartsSteps ==
  ASSUME NEW S, NEW s \in Seq(S), NEW d
  PROVE  \E p : IsTrace(p, s, d) /\ \A n \in 0..Len(s) : p[n] \in Seq(Seq(S))
<1> DEFINE B == Seq(Seq(S))
           L == Len(s)
           h == [n \in Nat |-> [q \in B |-> IF n + 1 \in 1..L THEN After(s, d, n + 1, q) ELSE q]]
           Body(g, n) == IF n = 0 THEN <<>> ELSE After(s, d, n, g[n - 1])
           Fits(g) == g = [n \in 0..L |-> Body(g, n)]
<1>0. L \in Nat
  OBVIOUS
<1>1. h \in [Nat -> [B -> B]]
  BY AfterType
<1>2. <<>> \in B
  OBVIOUS
<1>3. PICK f \in [Nat -> B] : f[0] = <<>> /\ \A n \in Nat : f[n + 1] = h[n][f[n]]
  <2>1. StepsOf(h, B)
    BY <1>1 DEF StepsOf
  <2> HIDE DEF h, B
  <2>2. \E f : IsRecursive(f, B, <<>>, h)
    BY <1>2, <2>1, Recursion
  <2> QED
    BY <2>2 DEF IsRecursive
<1> DEFINE g == [n \in 0..L |-> f[n]]
<1>4. Fits(g)
  <2>1. ASSUME NEW n \in 0..L PROVE g[n] = Body(g, n)
    <3>1. CASE n = 0
      BY <1>3, <3>1
    <3>2. CASE n # 0
      <4>1. n - 1 \in Nat /\ n - 1 \in 0..L /\ (n - 1) + 1 = n /\ n \in 1..L
        BY <3>2
      <4>2. f[n] = h[n - 1][f[n - 1]]
        BY <1>3, <4>1
      <4>3. f[n - 1] \in B
        BY <1>3, <4>1
      <4>4. h[n - 1][f[n - 1]] = After(s, d, n, f[n - 1])
        BY <4>1, <4>3
      <4> QED
        BY <3>2, <4>1, <4>2, <4>4
    <3> QED
      BY <3>1, <3>2
  <2> HIDE DEF Body
  <2> QED
    BY <2>1
<1> DEFINE c == CHOOSE x : Fits(x)
<1>5. Fits(c)
  <2> HIDE DEF Fits, g
  <2> QED
    BY <1>4
<1>6. Parts(s, d) = c[L]
  BY DEF Parts, After
<1>7. c[0] = <<>> /\ \A n \in 1..L : c[n] = After(s, d, n, c[n - 1])
  <2> HIDE DEF c, Body, L
  <2>1. c = [n \in 0..L |-> Body(c, n)]
    BY <1>5
  <2>2. \A n \in 0..L : c[n] = Body(c, n)
    BY <2>1
  <2>3. 0 \in 0..L /\ \A n \in 1..L : n \in 0..L /\ n # 0
    BY <1>0
  <2> QED
    BY <2>2, <2>3 DEF Body
<1>8. \A n \in 0..L : c[n] \in B
  <2> DEFINE T == {n \in Nat : n <= L => c[n] \in B}
  <2> HIDE DEF c
  <2>1. 0 \in T
    BY <1>2, <1>7
  <2>2. ASSUME NEW n \in Nat, n \in T PROVE n + 1 \in T
    <3> SUFFICES ASSUME n + 1 <= L PROVE c[n + 1] \in B
      OBVIOUS
    <3> DEFINE k == n + 1
               q == c[n]
    <3>1. k \in 1..L /\ k - 1 = n /\ q \in B
      BY <2>2
    <3> HIDE DEF L, B, k, q
    <3>2. c[k] = After(s, d, k, c[k - 1])
      BY <1>7, <3>1
    <3>3. c[k] = After(s, d, k, q)
      BY <3>1, <3>2 DEF q
    <3>4. k \in 1..Len(s) /\ q \in Seq(Seq(S))
      BY <3>1 DEF L, B
    <3>5. After(s, d, k, q) \in Seq(Seq(S))
      BY <3>4, AfterType
    <3> QED
      BY <3>3, <3>5 DEF k, B
  <2>3. Nat \subseteq T
    <3> HIDE DEF T
    <3> QED
      BY <2>1, <2>2, NatSet
  <2> QED
    BY <2>3
<1> QED
  <2> HIDE DEF c
  <2> QED
    BY <1>6, <1>7, <1>8 DEF IsTrace

\* PartsSteps, and that a part is there to grow.
IsTraceIn(p, s, d, S) ==
  /\ IsTrace(p, s, d)
  /\ \A n \in 0..Len(s) : p[n] \in Seq(Seq(S))
  /\ \A n \in 1..Len(s) : s[n] # d => Len(p[n]) \in Nat \ {0}

\* The parts of the prefixes of a text are such a trace.
LEMMA PartsTrace ==
  ASSUME NEW S, NEW s \in Seq(S), NEW d
  PROVE  \E p : IsTraceIn(p, s, d, S)
<1> DEFINE B == Seq(Seq(S))
           L == Len(s)
<1>1. PICK p : IsTrace(p, s, d) /\ \A n \in 0..L : p[n] \in B
  BY PartsSteps
<1> DEFINE T == {n \in Nat : n \in 1..L /\ s[n] # d => Len(p[n]) \in Nat \ {0}}
<1>2. 0 \in T
  OBVIOUS
<1>3. ASSUME NEW n \in Nat, n \in T PROVE n + 1 \in T
  <2> SUFFICES ASSUME n + 1 \in 1..L, s[n + 1] # d PROVE Len(p[n + 1]) \in Nat \ {0}
    OBVIOUS
  <2> DEFINE q == p[n]
             x == s[n + 1]
  <2>0. L \in Nat /\ n \in 0..L /\ (n + 1) - 1 = n
    OBVIOUS
  <2>1. q \in B /\ p[n + 1] = After(s, d, n + 1, q)
    BY <1>1, <2>0 DEF IsTrace
  <2>2. CASE n + 1 = 1 \/ s[n] = d
    <3>1. p[n + 1] = Append(q, <<x>>)
      BY <2>0, <2>1, <2>2 DEF After
    <3> HIDE DEF q, B
    <3>2. Len(q) \in Nat /\ Len(Append(q, <<x>>)) = Len(q) + 1
      BY <2>1 DEF B
    <3> QED
      BY <3>1, <3>2
  <2>3. CASE n + 1 # 1 /\ s[n] # d
    <3>1. p[n + 1] = [q EXCEPT ![Len(q)] = Append(@, x)]
      BY <2>0, <2>1, <2>3 DEF After
    <3>2. Len(q) \in Nat \ {0}
      BY <1>3, <2>0, <2>3
    <3> HIDE DEF q, B
    <3>3. Len(q) = Len([q EXCEPT ![Len(q)] = Append(@, x)])
      BY <2>1 DEF B
    <3> QED
      BY <3>1, <3>2, <3>3
  <2> QED
    BY <2>2, <2>3
<1>4. Nat \subseteq T
  <2> HIDE DEF T
  <2> QED
    BY <1>2, <1>3, NatSet
<1> QED
  BY <1>1, <1>4 DEF IsTraceIn

\* The texts over an alphabet, as elements of a list.
TextsOver(S) == Seq(S)

\* Appending to the end of a list appends to a longer one.
AppendsToBoth(a, b, x) == Append(a \o b, x) = a \o Append(b, x)

\* Lists of texts are appended to in either way.
LEMMA AppendTexts ==
  ASSUME NEW S, NEW a \in Seq(TextsOver(S)), NEW b \in Seq(TextsOver(S)), NEW x \in TextsOver(S)
  PROVE  AppendsToBoth(a, b, x)
BY DEF AppendsToBoth

\* Growing the last part of a list grows that of a longer one.
GrowsInBoth(a, b, x) ==
  a \o [b EXCEPT ![Len(b)] = Append(@, x)] = [a \o b EXCEPT ![Len(a \o b)] = Append(@, x)]

\* Adding to the last part of a list adds to the last part of a longer one.
LEMMA GrowLast ==
  ASSUME NEW S, NEW a \in Seq(TextsOver(S)), NEW b \in Seq(TextsOver(S)), b # <<>>, NEW x \in S
  PROVE  GrowsInBoth(a, b, x)
<1> USE DEF TextsOver
<1> DEFINE B == Seq(S)
           b2 == [b EXCEPT ![Len(b)] = Append(@, x)]
<1>1. Len(b) \in Nat \ {0} /\ Len(a) \in Nat /\ Len(a \o b) = Len(a) + Len(b)
  OBVIOUS
<1>2. b[Len(b)] \in B /\ Append(b[Len(b)], x) \in B
  BY <1>1
<1>3. b2 \in Seq(B) /\ Len(b2) = Len(b)
  BY <1>1, <1>2, ExceptSeq
<1>4. a \o b \in Seq(B) /\ (a \o b)[Len(a \o b)] = b[Len(b)]
  BY <1>1
<1> DEFINE ab2 == [a \o b EXCEPT ![Len(a \o b)] = Append(@, x)]
<1>5. ab2 \in Seq(B) /\ Len(ab2) = Len(a) + Len(b)
  BY <1>1, <1>2, <1>4, ExceptSeq
<1>6. a \o b2 \in Seq(B) /\ Len(a \o b2) = Len(a) + Len(b)
  <2> HIDE DEF b2, B
  <2>1. a \in Seq(B) /\ Len(b2) \in Nat
    BY <1>1, <1>3 DEF B
  <2>2. b2 \in Seq(B)
    BY <1>3
  <2>3. a \o b2 \in Seq(B) /\ Len(a \o b2) = Len(a) + Len(b2)
    BY <2>1, <2>2, ConcatProperties
  <2> QED
    BY <1>3, <2>3
<1>7. ASSUME NEW i \in 1..Len(a) + Len(b) PROVE (a \o b2)[i] = ab2[i]
  <2>1. (a \o b)[i] = IF i <= Len(a) THEN a[i] ELSE b[i - Len(a)]
    BY <1>1
  <2>2. (a \o b2)[i] = IF i <= Len(a) THEN a[i] ELSE b2[i - Len(a)]
    <3> HIDE DEF b2
    <3> QED
      BY <1>1, <1>3
  <2>3. ab2[i] = IF i = Len(a) + Len(b) THEN Append(b[Len(b)], x) ELSE (a \o b)[i]
    <3> DEFINE ab == a \o b
    <3>1. ab \in Seq(B) /\ i \in 1..Len(ab) /\ ab[Len(ab)] = b[Len(b)]
      BY <1>1, <1>4
    <3>2. DOMAIN ab = 1..Len(ab)
      BY <3>1
    <3> HIDE DEF ab
    <3>3. [ab EXCEPT ![Len(ab)] = Append(@, x)][i] = IF i = Len(ab) THEN Append(b[Len(b)], x) ELSE ab[i]
      BY <3>1, <3>2
    <3> QED
      BY <1>1, <3>3 DEF ab
  <2>4. i > Len(a) => b2[i - Len(a)] = IF i - Len(a) = Len(b) THEN Append(b[Len(b)], x)
                                       ELSE b[i - Len(a)]
    BY <1>1
  <2> HIDE DEF b2, ab2
  <2> QED
    BY <1>1, <2>1, <2>2, <2>3, <2>4
<1> HIDE DEF b2, ab2
<1>8. a \o b2 = ab2
  BY <1>1, <1>5, <1>6, <1>7, SeqEqual
<1> QED
  BY <1>8 DEF b2, ab2, GrowsInBoth

\* Induction over texts: a set that holds the empty sequence and, with each
\* sequence, those that are one symbol longer holds them all.
LEMMA AppendInduction ==
  ASSUME NEW S, NEW T, <<>> \in T,
         \A s \in Seq(S), x \in S : s \in T => Append(s, x) \in T
  PROVE  Seq(S) \subseteq T
<1> DEFINE U == {n \in Nat : \A s \in Seq(S) : Len(s) = n => s \in T}
<1>1. 0 \in U
  OBVIOUS
<1>2. ASSUME NEW n \in Nat, n \in U PROVE n + 1 \in U
  <2> SUFFICES ASSUME NEW s \in Seq(S), Len(s) = n + 1 PROVE s \in T
    OBVIOUS
  <2> DEFINE t == SubSeq(s, 1, n)
  <2>1. t \in Seq(S) /\ Len(t) = n /\ s[n + 1] \in S
    OBVIOUS
  <2>2. t \in T
    BY <1>2, <2>1
  <2>3. s = Append(t, s[n + 1])
    OBVIOUS
  <2> HIDE DEF t
  <2> QED
    BY <2>1, <2>2, <2>3
<1>3. Nat \subseteq U
  <2> HIDE DEF U
  <2> QED
    BY <1>1, <1>2, NatSet
<1> QED
  <2> SUFFICES ASSUME NEW s \in Seq(S) PROVE s \in T
    OBVIOUS
  <2>1. Len(s) \in U
    BY <1>3
  <2> QED
    BY <2>1

\* Two texts agree on their first L symbols.
SameUpTo(s, t, L) ==
  /\ Len(s) \in Nat /\ Len(t) \in Nat /\ L <= Len(s) /\ L <= Len(t)
  /\ \A i \in 1..L : s[i] = t[i]

\* The parts of a prefix do not depend on what follows.
LEMMA SameTrace ==
  ASSUME NEW s, NEW t, NEW d, NEW L \in Nat, SameUpTo(s, t, L),
         NEW p, IsTrace(p, s, d), NEW q, IsTrace(q, t, d)
  PROVE  p[L] = q[L]
<1> USE DEF SameUpTo
<1> DEFINE T == {n \in Nat : n <= L => p[n] = q[n]}
<1>1. 0 \in T
  BY DEF IsTrace
<1>2. ASSUME NEW n \in Nat, n \in T PROVE n + 1 \in T
  <2> SUFFICES ASSUME n + 1 <= L PROVE p[n + 1] = q[n + 1]
    OBVIOUS
  <2>1. /\ n + 1 \in 1..Len(s) /\ n + 1 \in 1..Len(t) /\ n + 1 \in 1..L
        /\ (n + 1) - 1 = n /\ p[n] = q[n] /\ (n + 1 # 1 => n \in 1..L)
    BY <1>2
  <2>2. p[n + 1] = After(s, d, n + 1, p[n]) /\ q[n + 1] = After(t, d, n + 1, q[n])
    BY <2>1 DEF IsTrace
  <2>3. After(s, d, n + 1, p[n]) = After(t, d, n + 1, p[n])
    BY <2>1 DEF After
  <2> QED
    BY <2>1, <2>2, <2>3
<1>3. Nat \subseteq T
  <2> HIDE DEF T
  <2> QED
    BY <1>1, <1>2, NatSet
<1> QED
  BY <1>3

\* The parts of s and x behind it, from those of s.
Grown(s, x, d, parts) ==
  IF x = d THEN parts
  ELSE IF s = <<>> \/ s[Len(s)] = d THEN Append(parts, <<x>>)
  ELSE [parts EXCEPT ![Len(parts)] = Append(@, x)]

\* Parts looks at one symbol after the other.
LEMMA PartsAppend ==
  ASSUME NEW S, NEW s \in Seq(S), NEW x \in S, NEW d
  PROVE  Parts(Append(s, x), d) = Grown(s, x, d, Parts(s, d))
<1> DEFINE t == Append(s, x)
           L == Len(s)
<1>1. L \in Nat /\ t \in Seq(S) /\ Len(t) = L + 1 /\ t[L + 1] = x /\ \A i \in 1..L : t[i] = s[i]
  OBVIOUS
<1>2. PICK p : IsTraceIn(p, s, d, S)
  BY PartsTrace
<1> HIDE DEF t
<1>3. PICK q : IsTraceIn(q, t, d, S)
  BY <1>1, PartsTrace
<1>4. Parts(s, d) = p[L] /\ Parts(t, d) = q[L + 1]
  BY <1>1, <1>2, <1>3 DEF IsTrace, IsTraceIn
<1>5. p[L] = q[L]
  <2> HIDE DEF L
  <2>1. Len(s) = L
    BY DEF L
  <2>2. SameUpTo(s, t, L)
    BY <1>1, <2>1 DEF SameUpTo
  <2>3. IsTrace(p, s, d) /\ IsTrace(q, t, d)
    BY <1>2, <1>3 DEF IsTraceIn
  <2> QED
    BY <1>1, <2>2, <2>3, SameTrace
<1>6. q[L + 1] = After(t, d, L + 1, q[L])
  <2>1. L + 1 \in 1..Len(t) /\ (L + 1) - 1 = L
    BY <1>1
  <2> QED
    BY <1>3, <2>1 DEF IsTrace, IsTraceIn
<1>7. s = <<>> <=> L + 1 = 1
  OBVIOUS
<1>8. L # 0 => t[(L + 1) - 1] = s[L]
  BY <1>1
<1>13. Len(s) = L
  OBVIOUS
<1>12. Parts(t, d) = Grown(s, x, d, Parts(s, d))
  <2> HIDE DEF L
  <2>1. Parts(t, d) = After(t, d, L + 1, Parts(s, d)) /\ t[L + 1] = x
    BY <1>1, <1>4, <1>5, <1>6
  <2>2. CASE x = d
    BY <2>1, <2>2 DEF After, Grown
  <2>3. CASE x # d /\ (s = <<>> \/ s[L] = d)
    <3>1. L + 1 = 1 \/ t[(L + 1) - 1] = d
      BY <1>7, <1>8, <2>3
    <3> QED
      BY <2>1, <2>3, <3>1, <1>13 DEF After, Grown
  <2>4. CASE x # d /\ ~(s = <<>> \/ s[L] = d)
    <3>1. ~(L + 1 = 1 \/ t[(L + 1) - 1] = d)
      <4>1. L # 0
        BY <1>1, <1>7, <2>4
      <4> QED
        BY <1>7, <1>8, <2>4, <4>1
    <3> QED
      BY <2>1, <2>4, <3>1, <1>13 DEF After, Grown
  <2> QED
    BY <2>2, <2>3, <2>4
<1> QED
  BY <1>12 DEF t

\* No text has no parts.
LEMMA PartsEmpty ==
  ASSUME NEW d
  PROVE  Parts(<<>>, d) = <<>>
<1> DEFINE e == <<>>
<1>1. e \in Seq({}) /\ Len(e) = 0
  OBVIOUS
<1> HIDE DEF e
<1>2. PICK p : IsTraceIn(p, e, d, {})
  BY <1>1, PartsTrace
<1>3. Parts(e, d) = <<>>
  BY <1>1, <1>2 DEF IsTrace, IsTraceIn
<1> QED
  BY <1>3 DEF e

\* The parts of a text are texts, and one that does not end in a separator has some.
LEMMA PartsType ==
  ASSUME NEW S, NEW s \in Seq(S), NEW d
  PROVE  /\ Parts(s, d) \in Seq(Seq(S))
         /\ s # <<>> /\ s[Len(s)] # d => Parts(s, d) # <<>>
<1> DEFINE L == Len(s)
<1>1. L \in Nat /\ L \in 0..L /\ (s # <<>> => L \in 1..L)
  OBVIOUS
<1>2. PICK p : IsTraceIn(p, s, d, S)
  BY PartsTrace
<1>3. Parts(s, d) = p[L] /\ p[L] \in Seq(Seq(S))
  BY <1>1, <1>2 DEF IsTrace, IsTraceIn
<1>4. ASSUME s # <<>>, s[L] # d PROVE Len(p[L]) # 0
  BY <1>1, <1>2, <1>4 DEF IsTraceIn
<1> QED
  BY <1>3, <1>4

\* A separator cuts a text in two: its parts are those before and those after.
THEOREM PartsJoin ==
  ASSUME NEW S, NEW a \in Seq(S), NEW d \in S
  PROVE  \A b \in Seq(S) : Parts(Append(a, d) \o b, d) = Parts(a, d) \o Parts(b, d)
<1> DEFINE ad == Append(a, d)
           T == {b \in Seq(S) : Parts(ad \o b, d) = Parts(a, d) \o Parts(b, d)}
           A == Parts(a, d)
<1>1. ad \in Seq(S) /\ ad # <<>> /\ Len(ad) \in Nat /\ ad[Len(ad)] = d
  OBVIOUS
<1>2. A \in Seq(Seq(S)) /\ Parts(ad, d) = A /\ Parts(<<>>, d) = <<>>
  <2>1. Parts(ad, d) = Grown(a, d, d, A)
    BY PartsAppend
  <2> QED
    BY <2>1, PartsType, PartsEmpty DEF Grown
<1> HIDE DEF ad, A
<1>3. <<>> \in T
  <2>1. ad \o <<>> = ad /\ A \o <<>> = A
    BY <1>1, <1>2
  <2> QED
    BY <1>2, <2>1 DEF A
<1>4. ASSUME NEW b \in Seq(S), NEW x \in S, b \in T PROVE Append(b, x) \in T
  <2> DEFINE c == ad \o b
             P == Parts(b, d)
  <2>1. c \in Seq(S) /\ ad \o Append(b, x) = Append(c, x) /\ Append(b, x) \in Seq(S)
    BY <1>1
  <2>2. Parts(c, d) = A \o P
    BY <1>4 DEF A
  <2>3. P \in Seq(Seq(S))
    BY PartsType
  <2>4. c # <<>> /\ c[Len(c)] = IF b = <<>> THEN d ELSE b[Len(b)]
    BY <1>1
  <2> HIDE DEF c
  <2>5. Parts(Append(c, x), d) = IF x = d THEN A \o P
                ELSE IF c[Len(c)] = d THEN Append(A \o P, <<x>>)
                ELSE [A \o P EXCEPT ![Len(A \o P)] = Append(@, x)]
    <3>1. Parts(Append(c, x), d) = Grown(c, x, d, Parts(c, d))
      BY <2>1, PartsAppend
    <3> QED
      BY <2>2, <2>4, <3>1 DEF Grown
  <2>6. Parts(Append(b, x), d) = IF x = d THEN P
                ELSE IF b = <<>> \/ b[Len(b)] = d THEN Append(P, <<x>>)
                ELSE [P EXCEPT ![Len(P)] = Append(@, x)]
    BY PartsAppend DEF Grown
  <2>7. b # <<>> /\ b[Len(b)] # d => P # <<>>
    BY PartsType
  <2> HIDE DEF P
  <2>8. CASE x = d
    BY <2>1, <2>5, <2>6, <2>8 DEF A
  <2>9. CASE x # d /\ (b = <<>> \/ b[Len(b)] = d)
    <3>1. Append(A \o P, <<x>>) = A \o Append(P, <<x>>)
      <4>1. <<x>> \in TextsOver(S)
        BY DEF TextsOver
      <4>2. A \in Seq(TextsOver(S)) /\ P \in Seq(TextsOver(S))
        BY <1>2, <2>3 DEF TextsOver
      <4>3. AppendsToBoth(A, P, <<x>>)
        BY <4>1, <4>2, AppendTexts
      <4> QED
        BY <4>3 DEF AppendsToBoth
    <3> QED
      BY <2>1, <2>4, <2>5, <2>6, <2>9, <3>1 DEF A
  <2>10. CASE x # d /\ ~(b = <<>> \/ b[Len(b)] = d)
    <3>1. [A \o P EXCEPT ![Len(A \o P)] = Append(@, x)] = A \o [P EXCEPT ![Len(P)] = Append(@, x)]
      <4>1. A \in Seq(TextsOver(S)) /\ P \in Seq(TextsOver(S)) /\ P # <<>>
        BY <1>2, <2>3, <2>7, <2>10 DEF TextsOver
      <4>2. GrowsInBoth(A, P, x)
        BY <4>1, GrowLast
      <4> QED
        BY <4>2 DEF GrowsInBoth
    <3>2. c[Len(c)] # d
      BY <2>4, <2>10
    <3> DEFINE whole == [A \o P EXCEPT ![Len(A \o P)] = Append(@, x)]
               last == [P EXCEPT ![Len(P)] = Append(@, x)]
    <3>3. Parts(Append(c, x), d) = whole
      BY <2>5, <2>10, <3>2
    <3>4. Parts(Append(b, x), d) = last
      BY <2>6, <2>10
    <3>5. whole = A \o last
      BY <3>1
    <3> HIDE DEF whole, last
    <3>6. Parts(ad \o Append(b, x), d) = A \o Parts(Append(b, x), d)
      BY <2>1, <3>3, <3>4, <3>5
    <3> QED
      BY <2>1, <3>6 DEF A
  <2> QED
    BY <2>8, <2>9, <2>10
<1>5. Seq(S) \subseteq T
  <2> HIDE DEF T
  <2> QED
    BY <1>3, <1>4, AppendInduction
<1> QED
  BY <1>5 DEF ad
-------------------------------------------------------------------------------
(* Parts of prefixes *)

\* The last element of a sequence, just appended to it, grows.
LastGrows(Q, w, x) ==
  [Append(Q, w) EXCEPT ![Len(Append(Q, w))] = Append(@, x)] = Append(Q, Append(w, x))

\* The element appended last can be replaced by a longer one before it is appended.
LEMMA LastReplaced ==
  ASSUME NEW S, NEW Q \in Seq(Seq(S)), NEW w \in Seq(S), NEW x \in S
  PROVE  LastGrows(Q, w, x)
<1> DEFINE B == Seq(S)
           y == Append(w, x)
           A == Append(Q, w)
           n == Len(Q) + 1
<1>1. y \in B /\ w \in B /\ Q \in Seq(B)
  OBVIOUS
<1> HIDE DEF B, y
<1>2. A \in Seq(B) /\ Len(A) = n /\ n \in 1..Len(A) /\ A[n] = w /\ \A i \in 1..Len(Q) : A[i] = Q[i]
  BY <1>1
<1>3. /\ Append(Q, y) \in Seq(B) /\ Len(Append(Q, y)) = n /\ Append(Q, y)[n] = y
      /\ \A i \in 1..Len(Q) : Append(Q, y)[i] = Q[i]
  BY <1>1
<1> HIDE DEF A
<1> DEFINE A2 == [A EXCEPT ![n] = y]
<1>4. A2 \in Seq(B) /\ Len(A2) = n
  BY <1>1, <1>2, ExceptSeq
<1>5. \A i \in 1..Len(A) : A2[i] = IF i = n THEN y ELSE A[i]
  BY <1>2
<1>6. \A i \in 1..n : i # n => i \in 1..Len(Q)
  BY <1>1
<1> HIDE DEF A2, n
<1>7. \A i \in 1..n : A2[i] = Append(Q, y)[i]
  BY <1>2, <1>3, <1>5, <1>6
<1>8. A2 = Append(Q, y)
  BY <1>3, <1>4, <1>7, SeqEqual
<1>9. [A EXCEPT ![Len(A)] = Append(@, x)] = A2
  BY <1>2 DEF A2, y
<1> QED
  BY <1>8, <1>9 DEF LastGrows, A, y

\* The parts of a prefix follow from those of the one before it.
PrefixGrows(s, n, d) ==
  LET parts == Parts(SubSeq(s, 1, n), d)
      more == Parts(SubSeq(s, 1, n + 1), d)
  IN  /\ s[n + 1] = d => more = parts
      /\ s[n + 1] # d /\ (n = 0 \/ s[n] = d) => more = Append(parts, <<s[n + 1]>>)
      /\ s[n + 1] # d /\ n # 0 /\ s[n] # d =>
           more = [parts EXCEPT ![Len(parts)] = Append(@, s[n + 1])]

\* The parts of the prefixes of a text, one symbol after the other.
LEMMA PartsPrefix ==
  ASSUME NEW S, NEW s \in Seq(S), NEW n \in 0..Len(s) - 1, NEW d
  PROVE  PrefixGrows(s, n, d)
<1> DEFINE a == SubSeq(s, 1, n)
           x == s[n + 1]
<1>1. /\ a \in Seq(S) /\ x \in S /\ Len(a) = n /\ SubSeq(s, 1, n + 1) = Append(a, x)
      /\ n # 0 => a[Len(a)] = s[n]
  OBVIOUS
<1>2. a = <<>> <=> n = 0
  BY <1>1
<1> HIDE DEF a, x
<1>3. Parts(Append(a, x), d) = Grown(a, x, d, Parts(a, d))
  BY <1>1, PartsAppend
<1>4. SubSeq(s, 1, n + 1) = Append(a, x)
  BY <1>1
<1>5. x = d => Parts(SubSeq(s, 1, n + 1), d) = Parts(a, d)
  BY <1>3, <1>4 DEF Grown
<1>6. x # d /\ (n = 0 \/ s[n] = d) => Parts(SubSeq(s, 1, n + 1), d) = Append(Parts(a, d), <<x>>)
  BY <1>1, <1>2, <1>3, <1>4 DEF Grown
<1>7. x # d /\ n # 0 /\ s[n] # d =>
        Parts(SubSeq(s, 1, n + 1), d) = [Parts(a, d) EXCEPT ![Len(Parts(a, d))] = Append(@, x)]
  BY <1>1, <1>2, <1>3, <1>4 DEF Grown
<1> QED
  BY <1>5, <1>6, <1>7 DEF a, x, PrefixGrows

\* The text from one place to the same is one symbol.
LEMMA OneSymbol ==
  ASSUME NEW S, NEW s \in Seq(S), NEW n \in 1..Len(s)
  PROVE  SubSeq(s, n, n) = <<s[n]>>
<1> DEFINE w == SubSeq(s, n, n)
           v == <<s[n]>>
<1>1. s[n] \in S /\ n \in Int /\ v \in Seq(S) /\ Len(v) = 1 /\ v[1] = s[n]
  OBVIOUS
<1>2. \A i \in n..n : s[i] \in S
  BY <1>1
<1>3. w \in Seq(S) /\ Len(w) = (IF n <= n THEN n - n + 1 ELSE 0)
      /\ \A i \in 1..n - n + 1 : w[i] = s[n + i - 1]
  BY <1>1, <1>2, SubSeqProperties
<1>4. Len(w) = 1 /\ w[1] = s[n]
  <2>1. n - n + 1 = 1 /\ n <= n /\ n + 1 - 1 = n /\ 1 \in 1..1
    BY <1>1
  <2> QED
    BY <1>3, <2>1
<1> HIDE DEF w, v
<1>5. \A i \in 1..Len(w) : w[i] = v[i]
  BY <1>1, <1>4
<1>6. w = v
  BY <1>1, <1>3, <1>4, <1>5, SeqEqual
<1> QED
  BY <1>6 DEF w, v

\* Separators add no part.
LEMMA PartsSkip ==
  ASSUME NEW S, NEW s \in Seq(S), NEW d, NEW i \in 0..Len(s), NEW j \in i..Len(s),
         \A k \in i + 1..j : s[k] = d
  PROVE  Parts(SubSeq(s, 1, j), d) = Parts(SubSeq(s, 1, i), d)
<1> DEFINE P(n) == Parts(SubSeq(s, 1, n), d)
           T == {n \in Nat : i <= n /\ n <= j => P(n) = P(i)}
<1>1. 0 \in T
  OBVIOUS
<1>2. ASSUME NEW n \in Nat, n \in T PROVE n + 1 \in T
  <2> SUFFICES ASSUME i <= n + 1, n + 1 <= j PROVE P(n + 1) = P(i)
    OBVIOUS
  <2>1. CASE n + 1 = i
    BY <2>1
  <2>2. CASE n + 1 # i
    <3>1. n \in 0..Len(s) - 1 /\ i <= n /\ n <= j /\ n + 1 \in i + 1..j
      BY <2>2
    <3>2. s[n + 1] = d
      BY <3>1
    <3>3. P(n + 1) = P(n)
      <4>1. PrefixGrows(s, n, d)
        BY <3>1, PartsPrefix
      <4> QED
        BY <3>2, <4>1 DEF PrefixGrows
    <3>4. P(n) = P(i)
      BY <1>2, <3>1
    <3> QED
      BY <3>3, <3>4
  <2> QED
    BY <2>1, <2>2
<1>3. Nat \subseteq T
  <2> HIDE DEF T
  <2> QED
    BY <1>1, <1>2, NatSet
<1> QED
  BY <1>3

\* What lies between two separators is one part.
LEMMA PartsWord ==
  ASSUME NEW S, NEW s \in Seq(S), NEW d, NEW i \in 0..Len(s), NEW j \in i + 1..Len(s),
         \A k \in i + 1..j : s[k] # d, i = 0 \/ s[i] = d
  PROVE  Parts(SubSeq(s, 1, j), d) = Append(Parts(SubSeq(s, 1, i), d), SubSeq(s, i + 1, j))
<1> DEFINE P(n) == Parts(SubSeq(s, 1, n), d)
           w(n) == SubSeq(s, i + 1, n)
           T == {n \in Nat : i + 1 <= n /\ n <= j => P(n) = Append(P(i), w(n))}
<1>1. 0 \in T
  OBVIOUS
<1>2. P(i) \in Seq(Seq(S))
  <2>1. SubSeq(s, 1, i) \in Seq(S)
    OBVIOUS
  <2> QED
    BY <2>1, PartsType
<1>3. ASSUME NEW n \in Nat, n \in T PROVE n + 1 \in T
  <2> SUFFICES ASSUME i + 1 <= n + 1, n + 1 <= j PROVE P(n + 1) = Append(P(i), w(n + 1))
    OBVIOUS
  <2>1. n \in 0..Len(s) - 1 /\ s[n + 1] # d
    OBVIOUS
  <2>2. CASE n = i
    <3>1. w(n + 1) = <<s[n + 1]>>
      <4>1. SubSeq(s, n + 1, n + 1) = <<s[n + 1]>>
        BY <2>1, OneSymbol
      <4> QED
        BY <2>2, <4>1
    <3>2. P(n + 1) = Append(P(n), <<s[n + 1]>>)
      <4>1. n = 0 \/ s[n] = d
        BY <2>2
      <4>2. PrefixGrows(s, n, d)
        BY <2>1, PartsPrefix
      <4> QED
        BY <2>1, <4>1, <4>2 DEF PrefixGrows
    <3> QED
      BY <2>2, <3>1, <3>2
  <2>3. CASE n # i
    <3>1. n \in i + 1..j /\ n # 0
      BY <2>3
    <3>2. P(n) = Append(P(i), w(n)) /\ s[n] # d
      BY <1>3, <3>1
    <3>3. P(n + 1) = [P(n) EXCEPT ![Len(P(n))] = Append(@, s[n + 1])]
      <4>1. PrefixGrows(s, n, d)
        BY <2>1, PartsPrefix
      <4> QED
        BY <2>1, <3>1, <3>2, <4>1 DEF PrefixGrows
    <3>4. w(n) \in Seq(S) /\ s[n + 1] \in S /\ w(n + 1) = Append(w(n), s[n + 1])
      BY <2>1, <3>1
    <3> HIDE DEF P, w
    <3>5. LastGrows(P(i), w(n), s[n + 1])
      BY <1>2, <3>4, LastReplaced
    <3> QED
      BY <3>2, <3>3, <3>4, <3>5 DEF LastGrows
  <2> QED
    BY <2>2, <2>3
<1>4. Nat \subseteq T
  <2> HIDE DEF T
  <2> QED
    BY <1>1, <1>3, NatSet
<1> QED
  BY <1>4

===============================================================================
