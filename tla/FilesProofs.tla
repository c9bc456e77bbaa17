---------------------------- MODULE FilesProofs ----------------------------
(* Theorems about two files of a dataset: about the text of products.csv    *)
(* (Rows), for every list of products and every text, and about the ledger  *)
(* (Ledger), for every hash function and set of processes.                  *)
EXTENDS Rows, Ledger, FiniteSetTheorems, WellFoundedInduction, TLAPS

LEMMA SeqFacts ==
    ASSUME NEW s, IsSeq(s)
    PROVE  /\ Len(s) \in Nat /\ DOMAIN s = 1 .. Len(s)
           /\ s = [i \in 1 .. Len(s) |-> s[i]]
           /\ ToSet(s) = {s[i] : i \in 1 .. Len(s)}
           /\ (s = <<>>) = (Len(s) = 0)
<1>1. /\ Len(s) \in Nat /\ DOMAIN s = 1 .. Len(s)
      /\ s = [i \in 1 .. Len(s) |-> s[i]]
  BY DEF IsSeq
<1>2. (s = <<>>) = (Len(s) = 0)
  BY DEF IsSeq
<1> QED BY <1>1, <1>2 DEF ToSet

\* What is not in a sequence is at none of its places.
LEMMA NotIn ==
    ASSUME NEW s, IsSeq(s), NEW e, e \notin ToSet(s)
    PROVE  \A i \in 1 .. Len(s) : s[i] # e
BY SeqFacts

LEMMA MakeSeq ==
    ASSUME NEW m \in Nat, NEW s, s = [i \in 1 .. m |-> s[i]]
    PROVE  IsSeq(s) /\ Len(s) = m
<1>1. DOMAIN s = 1 .. m
  OBVIOUS
<1>2. \A i \in 1 .. m : s[i] \in ToSet(s)
  BY <1>1 DEF ToSet
<1> DEFINE S == ToSet(s)
<1> HIDE DEF S
<1>3. [i \in 1 .. m |-> s[i]] \in Seq(S) /\ Len([i \in 1 .. m |-> s[i]]) = m
  BY <1>2 DEF S
<1> QED BY <1>3 DEF IsSeq, S

LEMMA SeqOver == ASSUME NEW S, NEW s \in Seq(S) PROVE IsSeq(s)
<1>1. Len(s) \in Nat /\ s = [i \in 1 .. Len(s) |-> s[i]]
  OBVIOUS
<1> QED BY <1>1, MakeSeq

\* Two sequences of one length with the same elements.
LEMMA SeqSame ==
    ASSUME NEW s, IsSeq(s), NEW t, IsSeq(t), Len(s) = Len(t), \A i \in 1 .. Len(s) : s[i] = t[i]
    PROVE  s = t
BY SeqFacts

LEMMA AppendFacts ==
    ASSUME NEW s, IsSeq(s), NEW e
    PROVE  /\ IsSeq(Append(s, e)) /\ Len(Append(s, e)) = Len(s) + 1
           /\ \A i \in 1 .. Len(s) : Append(s, e)[i] = s[i]
           /\ Append(s, e)[Len(s) + 1] = e
<1>1. s \in Seq(ToSet(s) \cup {e})
  BY DEF IsSeq
<1>2. /\ Append(s, e) \in Seq(ToSet(s) \cup {e}) /\ Len(Append(s, e)) = Len(s) + 1
      /\ Len(s) \in Nat
      /\ \A i \in 1 .. Len(s) : Append(s, e)[i] = s[i]
      /\ Append(s, e)[Len(s) + 1] = e
  BY <1>1
<1>3. IsSeq(Append(s, e))
  BY <1>2, SeqOver
<1> QED BY <1>2, <1>3

LEMMA ConcatFacts ==
    ASSUME NEW a, IsSeq(a), NEW b, IsSeq(b)
    PROVE  /\ IsSeq(a \o b) /\ Len(a \o b) = Len(a) + Len(b)
           /\ \A i \in 1 .. Len(a) : (a \o b)[i] = a[i]
           /\ \A i \in 1 .. Len(b) : (a \o b)[Len(a) + i] = b[i]
<1> DEFINE S == ToSet(a) \cup ToSet(b)
<1>1. a \in Seq(S) /\ b \in Seq(S)
  BY DEF IsSeq
<1> DEFINE t == a \o b
<1> HIDE DEF S
<1>2. /\ Len(a) \in Nat /\ Len(b) \in Nat
      /\ t \in Seq(S) /\ Len(t) = Len(a) + Len(b)
      /\ \A i \in 1 .. Len(a) : t[i] = a[i]
  BY <1>1
<1>3. ASSUME NEW i \in 1 .. Len(b) PROVE t[Len(a) + i] = b[i]
  <2>1. Len(a) + i \in 1 .. Len(a) + Len(b) /\ ~(Len(a) + i <= Len(a)) /\ (Len(a) + i) - Len(a) = i
    BY <1>2
  <2> QED BY <1>1, <2>1
<1>4. IsSeq(t)
  BY <1>2, SeqOver
<1> QED BY <1>2, <1>3, <1>4

LEMMA ConcatIs ==
    ASSUME NEW a, IsSeq(a), NEW b, IsSeq(b), NEW c, c = a \o b
    PROVE  /\ Len(a) \in Nat /\ Len(b) \in Nat
           /\ IsSeq(c) /\ Len(c) = Len(a) + Len(b)
           /\ \A i \in 1 .. Len(a) : c[i] = a[i]
           /\ \A i \in 1 .. Len(b) : c[Len(a) + i] = b[i]
<1>1. Len(a) \in Nat /\ Len(b) \in Nat
  BY SeqFacts
<1>2. /\ IsSeq(a \o b) /\ Len(a \o b) = Len(a) + Len(b)
      /\ \A i \in 1 .. Len(a) : (a \o b)[i] = a[i]
      /\ \A i \in 1 .. Len(b) : (a \o b)[Len(a) + i] = b[i]
  BY ConcatFacts
<1> QED BY <1>1, <1>2, Zenon

\* The same, in a word.
Joint(a, b, c) ==
    /\ Len(a) \in Nat /\ Len(b) \in Nat
    /\ IsSeq(c) /\ Len(c) = Len(a) + Len(b)
    /\ \A i \in 1 .. Len(a) : c[i] = a[i]
    /\ \A i \in 1 .. Len(b) : c[Len(a) + i] = b[i]

LEMMA Joins == ASSUME NEW a, IsSeq(a), NEW b, IsSeq(b) PROVE Joint(a, b, a \o b)
<1>1. Len(a) \in Nat /\ Len(b) \in Nat
  BY SeqFacts
<1> DEFINE c == a \o b
<1>2. /\ IsSeq(c) /\ Len(c) = Len(a) + Len(b)
      /\ \A i \in 1 .. Len(a) : c[i] = a[i]
      /\ \A i \in 1 .. Len(b) : c[Len(a) + i] = b[i]
  BY ConcatFacts
<1> HIDE DEF c
<1>3. Joint(a, b, c)
  BY <1>1, <1>2 DEF Joint
<1> QED BY <1>3 DEF c

LEMMA SeqOfNone == IsSeq(<<>>)
  BY DEF IsSeq, ToSet

LEMMA OneSeq == ASSUME NEW e PROVE IsSeq(<<e>>) /\ Len(<<e>>) = 1 /\ <<e>>[1] = e
<1>1. <<e>> = [i \in 1 .. 1 |-> <<e>>[i]] /\ <<e>>[1] = e
  OBVIOUS
<1> QED BY <1>1, MakeSeq

LEMMA TwoSeq == ASSUME NEW c, NEW e PROVE /\ IsSeq(<<c, e>>) /\ Len(<<c, e>>) = 2
                                          /\ <<c, e>>[1] = c /\ <<c, e>>[2] = e
<1>1. <<c, e>> = [i \in 1 .. 2 |-> <<c, e>>[i]] /\ <<c, e>>[1] = c /\ <<c, e>>[2] = e
  OBVIOUS
<1> QED BY <1>1, MakeSeq

LEMMA Signs == /\ Comma # Quote /\ Comma # Newline /\ Comma # Return
               /\ Quote # Newline /\ Quote # Return /\ Newline # Return
  BY DEF Comma, Quote, Newline, Return

\* Induction over the naturals, for a set in place of a predicate.
LEMMA SetInduction ==
    ASSUME NEW T \in SUBSET Nat, 0 \in T, \A k \in T : k + 1 \in T
    PROVE  T = Nat
<1> SUFFICES ASSUME Nat \ T # {} PROVE FALSE
  OBVIOUS
<1> DEFINE R == {ss \in Nat \X Nat : ss[1] < ss[2]}
<1>1. IsWellFoundedOn(R, Nat)
  BY NatLessThanWellFounded DEF OpToRel
<1> HIDE DEF R
<1>2. \E x \in Nat \ T : \A y \in Nat \ T : ~(<<y, x>> \in R)
  BY <1>1, WFMin
<1>3. PICK x \in Nat \ T : \A y \in Nat \ T : ~(<<y, x>> \in R)
  BY <1>2
<1>4. x # 0 /\ x - 1 \in Nat \ T
  OBVIOUS
<1>5. <<x - 1, x>> \in R
  BY <1>4 DEF R
<1> QED BY <1>3, <1>4, <1>5

-----------------------------------------------------------------------------
(* Sequences put together                                                   *)
\* g[i] is the first i sequences of ss put together.
Builds(g, ss) == g = [i \in 0 .. Len(ss) |-> IF i = 0 THEN <<>> ELSE g[i - 1] \o ss[i]]
Seqs(ss) == IsSeq(ss) /\ \A i \in 1 .. Len(ss) : IsSeq(ss[i])

LEMMA FlattenBuilds ==
    ASSUME NEW ss, Seqs(ss)
    PROVE  \E g : Builds(g, ss) /\ FlattenSeq(ss) = g[Len(ss)]
<1> DEFINE n == Len(ss)
           Up(h, k) == h = [i \in 1 .. k |-> IF i = 1 THEN ss[i] ELSE h[i - 1] \o ss[i]]
           T == {k \in Nat : \E h : Up(h, k)}
<1>1. n \in Nat
  BY SeqFacts DEF Seqs
<1> HIDE DEF n
<1>2. 0 \in T
  <2> DEFINE h == [i \in 1 .. 0 |-> <<>>]
  <2>1. h = [i \in 1 .. 0 |-> IF i = 1 THEN ss[i] ELSE h[i - 1] \o ss[i]]
    OBVIOUS
  <2> HIDE DEF h
  <2> QED BY <2>1
<1>3. ASSUME NEW k \in T PROVE k + 1 \in T
  <2>1. PICK h : Up(h, k)
    OBVIOUS
  <2> DEFINE t == [i \in 1 .. k + 1 |-> IF i <= k THEN h[i] ELSE IF i = 1 THEN ss[i] ELSE h[k] \o ss[k + 1]]
  <2>2. ASSUME NEW i \in 1 .. k + 1 PROVE t[i] = IF i = 1 THEN ss[i] ELSE t[i - 1] \o ss[i]
    <3>1. CASE i = k + 1
      <4>1. t[i] = (IF i = 1 THEN ss[i] ELSE h[k] \o ss[k + 1]) /\ (i # 1 => t[i - 1] = h[k])
        BY <3>1
      <4> HIDE DEF t
      <4> QED BY <3>1, <4>1
    <3>2. CASE i \in 1 .. k
      <4>1. h[i] = IF i = 1 THEN ss[i] ELSE h[i - 1] \o ss[i]
        BY <2>1, <3>2
      <4>2. t[i] = h[i] /\ (i # 1 => t[i - 1] = h[i - 1])
        BY <3>2
      <4> HIDE DEF t
      <4> QED BY <4>1, <4>2
    <3> QED BY <3>1, <3>2
  <2>3. t = [i \in 1 .. k + 1 |-> t[i]]
    OBVIOUS
  <2> HIDE DEF t
  <2>4. Up(t, k + 1)
    BY <2>2, <2>3
  <2> HIDE DEF Up
  <2>5. k + 1 \in Nat
    OBVIOUS
  <2> QED BY <2>4, <2>5
<1> HIDE DEF T
<1>4. T = Nat
  BY <1>2, <1>3, SetInduction DEF T
<1>5. \E h : Up(h, n)
  BY <1>1, <1>4 DEF T
<1> DEFINE h == CHOOSE h : Up(h, n)
<1>6. Up(h, n)
  BY <1>5
<1>7. n # 0 => FlattenSeq(ss) = h[n]
  BY DEF FlattenSeq, n
<1>8. n = 0 => FlattenSeq(ss) = <<>>
  BY SeqFacts DEF FlattenSeq, n, Seqs
<1> HIDE DEF h
<1> DEFINE g == [i \in 0 .. n |-> IF i = 0 THEN <<>> ELSE h[i]]
<1>9. ASSUME NEW i \in 0 .. n PROVE g[i] = IF i = 0 THEN <<>> ELSE g[i - 1] \o ss[i]
  <2>1. CASE i = 0
    BY <2>1
  <2>2. CASE i = 1
    <3>1. g[1] = ss[1] /\ g[0] = <<>>
      BY <1>1, <1>6, <2>2
    <3>2. IsSeq(ss[1])
      BY <1>1, <2>2 DEF Seqs, n
    <3> HIDE DEF g
    <3>3. <<>> \o ss[1] = ss[1]
      <4>1. /\ IsSeq(<<>> \o ss[1]) /\ Len(<<>> \o ss[1]) = Len(<<>>) + Len(ss[1])
            /\ \A j \in 1 .. Len(ss[1]) : (<<>> \o ss[1])[Len(<<>>) + j] = ss[1][j]
        BY <3>2, SeqOfNone, ConcatFacts
      <4>2. Len(ss[1]) \in Nat /\ Len(<<>>) = 0
        BY <3>2, SeqFacts
      <4> QED BY <3>2, <4>1, <4>2, SeqSame
    <3>4. i # 0 /\ i - 1 = 0
      BY <2>2
    <3> QED BY <2>2, <3>1, <3>3, <3>4, Zenon
  <2>3. CASE i \in 2 .. n
    <3>1. i \in 1 .. n /\ i # 1 /\ i # 0 /\ i - 1 \in 0 .. n /\ i - 1 # 0
      BY <1>1, <2>3
    <3>2. h[i] = h[i - 1] \o ss[i]
      BY <1>6, <3>1, Zenon
    <3>3. g[i] = h[i] /\ g[i - 1] = h[i - 1]
      BY <3>1
    <3> HIDE DEF g
    <3> QED BY <3>1, <3>2, <3>3, Zenon
  <2> QED BY <1>1, <2>1, <2>2, <2>3
<1>10. g = [i \in 0 .. n |-> g[i]] /\ FlattenSeq(ss) = g[n]
  BY <1>1, <1>7, <1>8
<1> HIDE DEF g
<1>11. Builds(g, ss)
  BY <1>9, <1>10 DEF Builds, n
<1> QED BY <1>10, <1>11 DEF n

LEMMA BuildsSteps ==
    ASSUME NEW ss, Seqs(ss), NEW g, Builds(g, ss)
    PROVE  /\ Len(ss) \in Nat /\ g[0] = <<>>
           /\ \A i \in 0 .. Len(ss) : IsSeq(g[i]) /\ Len(g[i]) \in Nat
           /\ \A i \in 1 .. Len(ss) : /\ IsSeq(ss[i]) /\ Len(ss[i]) \in Nat
                                      /\ g[i] = g[i - 1] \o ss[i]
                                      /\ Len(g[i]) = Len(g[i - 1]) + Len(ss[i])
<1> DEFINE n == Len(ss)
<1>1. n \in Nat /\ \A i \in 1 .. n : IsSeq(ss[i])
  BY SeqFacts DEF Seqs
<1> HIDE DEF n
<1>2. g[0] = <<>>
  BY <1>1 DEF Builds, n
<1>3. ASSUME NEW i \in 1 .. n PROVE g[i] = g[i - 1] \o ss[i]
  <2>1. i \in 0 .. n /\ i # 0
    BY <1>1
  <2> QED BY <2>1, Zenon DEF Builds, n
<1> DEFINE T == {k \in Nat : k <= n => IsSeq(g[k])}
<1>4. 0 \in T
  BY <1>2, SeqOfNone
<1>5. ASSUME NEW k \in T PROVE k + 1 \in T
  <2>1. k + 1 \in Nat /\ k \in Nat
    OBVIOUS
  <2>2. ASSUME k + 1 <= n PROVE IsSeq(g[k + 1])
    <3>1. k + 1 \in 1 .. n /\ (k + 1) - 1 = k /\ IsSeq(g[k])
      BY <1>1, <2>1, <2>2
    <3>2. g[k + 1] = g[k] \o ss[k + 1]
      BY <1>3, <3>1
    <3> QED BY <1>1, <3>1, <3>2, ConcatFacts
  <2> QED BY <2>1, <2>2
<1> HIDE DEF T
<1>6. T = Nat
  BY <1>4, <1>5, SetInduction DEF T
<1>7. ASSUME NEW i \in 0 .. n PROVE IsSeq(g[i]) /\ Len(g[i]) \in Nat
  BY <1>1, <1>6, SeqFacts DEF T
<1>8. ASSUME NEW i \in 1 .. n
      PROVE  IsSeq(ss[i]) /\ Len(ss[i]) \in Nat /\ Len(g[i]) = Len(g[i - 1]) + Len(ss[i])
  <2>1. i - 1 \in 0 .. n
    BY <1>1
  <2>2. IsSeq(ss[i]) /\ IsSeq(g[i - 1]) /\ g[i] = g[i - 1] \o ss[i]
    BY <1>1, <1>3, <1>7, <2>1
  <2> QED BY <2>2, ConcatIs
<1> QED BY <1>1, <1>2, <1>3, <1>7, <1>8 DEF n

LEMMA BuildsPrefix ==
    ASSUME NEW ss, Seqs(ss), NEW g, Builds(g, ss), NEW i \in 0 .. Len(ss), NEW m \in i .. Len(ss)
    PROVE  Len(g[i]) <= Len(g[m]) /\ \A j \in 1 .. Len(g[i]) : g[m][j] = g[i][j]
<1> DEFINE n == Len(ss)
           Pre(k) == Len(g[i]) <= Len(g[k]) /\ \A j \in 1 .. Len(g[i]) : g[k][j] = g[i][j]
           T == {k \in Nat : i + k <= n => Pre(i + k)}
<1>1. n \in Nat /\ i \in 0 .. n /\ m \in i .. n
  BY BuildsSteps
<1> HIDE DEF n
<1>2. 0 \in T
  <2>1. i + 0 = i /\ Len(g[i]) \in Nat
    BY <1>1, BuildsSteps DEF n
  <2> QED BY <2>1
<1>3. ASSUME NEW k \in T PROVE k + 1 \in T
  <2> DEFINE j == i + k
  <2>1. k \in Nat /\ k + 1 \in Nat /\ i + (k + 1) = j + 1 /\ j \in Nat
    BY <1>1
  <2>2. ASSUME j + 1 <= n PROVE Pre(j + 1)
    <3>1. Pre(j)
      BY <2>1, <2>2, <1>1
    <3> HIDE DEF j
    <3>2. j + 1 \in 1 .. n /\ j \in 0 .. n /\ (j + 1) - 1 = j
      BY <1>1, <2>1, <2>2
    <3>3. IsSeq(g[j]) /\ IsSeq(ss[j + 1])
      BY <3>2, BuildsSteps DEF n
    <3>4. g[j + 1] = g[j] \o ss[j + 1]
      <4>1. g[j + 1] = g[(j + 1) - 1] \o ss[j + 1]
        BY <3>2, BuildsSteps DEF n
      <4> QED BY <3>2, <4>1, Zenon
    <3> DEFINE a == g[j]
               b == ss[j + 1]
               c == g[j + 1]
    <3> HIDE DEF a, b, c
    <3>5. /\ Len(a) \in Nat /\ Len(b) \in Nat /\ Len(c) = Len(a) + Len(b)
          /\ \A x \in 1 .. Len(a) : c[x] = a[x]
      <4>1. IsSeq(a) /\ IsSeq(b) /\ c = a \o b
        BY <3>3, <3>4 DEF a, b, c
      <4> QED BY <4>1, ConcatIs
    <3>6. Len(g[i]) \in Nat
      BY <1>1, BuildsSteps DEF n
    <3>7. Len(g[i]) <= Len(a)
      BY <3>1 DEF a
    <3>8. Len(g[i]) <= Len(c) /\ \A x \in 1 .. Len(g[i]) : x \in 1 .. Len(a)
      BY <3>5, <3>6, <3>7
    <3>9. \A x \in 1 .. Len(g[i]) : a[x] = g[i][x]
      BY <3>1 DEF a
    <3>10. \A x \in 1 .. Len(g[i]) : c[x] = g[i][x]
      BY <3>5, <3>8, <3>9, Zenon
    <3> QED BY <3>8, <3>10 DEF c
  <2> HIDE DEF Pre, j
  <2> QED BY <2>1, <2>2
<1> HIDE DEF T, Pre
<1>4. T = Nat
  BY <1>2, <1>3, SetInduction DEF T
<1>5. m - i \in Nat /\ i + (m - i) = m /\ m <= n
  BY <1>1
<1>6. Pre(m)
  BY <1>4, <1>5 DEF T
<1> QED BY <1>6 DEF Pre

\* Where the i-th of the sequences stands in the whole.
Placed(g, ss, i) ==
    /\ Len(g[i - 1]) + Len(ss[i]) <= Len(g[Len(ss)])
    /\ \A j \in 1 .. Len(ss[i]) : g[Len(ss)][Len(g[i - 1]) + j] = ss[i][j]

LEMMA BuildsPlaces ==
    ASSUME NEW ss, Seqs(ss), NEW g, Builds(g, ss), NEW i \in 1 .. Len(ss)
    PROVE  Placed(g, ss, i)
<1> DEFINE n == Len(ss)
<1>1. n \in Nat /\ i \in 0 .. n /\ n \in i .. n /\ i - 1 \in 0 .. n
  BY BuildsSteps
<1>2. /\ IsSeq(g[i - 1]) /\ IsSeq(ss[i]) /\ Len(ss[i]) \in Nat /\ Len(g[i - 1]) \in Nat
      /\ g[i] = g[i - 1] \o ss[i] /\ Len(g[i]) = Len(g[i - 1]) + Len(ss[i])
  BY <1>1, BuildsSteps
<1>3. Len(g[i]) <= Len(g[n]) /\ \A j \in 1 .. Len(g[i]) : g[n][j] = g[i][j]
  BY <1>1, BuildsPrefix
<1>4. ASSUME NEW j \in 1 .. Len(ss[i]) PROVE g[n][Len(g[i - 1]) + j] = ss[i][j]
  <2> DEFINE a == Len(g[i - 1])
             b == Len(ss[i])
             c == Len(g[i])
  <2>1. a \in Nat /\ b \in Nat /\ c = a + b /\ j \in 1 .. b
    BY <1>2
  <2> HIDE DEF a, b, c
  <2>2. a + j \in 1 .. c
    BY <2>1
  <2>3. g[i][a + j] = ss[i][j]
    <3> DEFINE u == g[i - 1]
               v == ss[i]
               w == g[i]
    <3>1. IsSeq(u) /\ IsSeq(v) /\ w = u \o v
      BY <1>2
    <3> HIDE DEF u, v, w
    <3>2. \A x \in 1 .. Len(v) : w[Len(u) + x] = v[x]
      BY <3>1, ConcatIs
    <3> QED BY <3>2, Zenon DEF a, u, v, w
  <2> USE DEF a, b, c
  <2> QED BY <1>3, <2>2, <2>3, Zenon
<1> QED BY <1>2, <1>3, <1>4 DEF Placed

-----------------------------------------------------------------------------
(* Parsing                                                                  *)
\* s[i] is where csv_parse_line is after i characters of the line.
Steps(s, line) ==
    s = [i \in 0 .. Len(line) |-> IF i = 0 THEN Opened ELSE Taken(line, s[i - 1], i)]

LEMMA FieldsSteps ==
    ASSUME NEW line, Len(line) \in Nat
    PROVE  \E s : Steps(s, line) /\ Fields(line) = Append(s[Len(line)].fields, s[Len(line)].cur)
<1> DEFINE n == Len(line)
           Up(h, k) == h = [i \in 0 .. k |-> IF i = 0 THEN Opened ELSE Taken(line, h[i - 1], i)]
           T == {k \in Nat : \E h : Up(h, k)}
<1>1. n \in Nat
  OBVIOUS
<1> HIDE DEF n
<1>2. 0 \in T
  <2> DEFINE h == [i \in 0 .. 0 |-> Opened]
  <2>1. h = [i \in 0 .. 0 |-> IF i = 0 THEN Opened ELSE Taken(line, h[i - 1], i)]
    OBVIOUS
  <2> HIDE DEF h
  <2> QED BY <2>1
<1>3. ASSUME NEW k \in T PROVE k + 1 \in T
  <2>1. PICK h : Up(h, k)
    OBVIOUS
  <2> DEFINE t == [i \in 0 .. k + 1 |-> IF i <= k THEN h[i] ELSE Taken(line, h[k], k + 1)]
  <2>2. ASSUME NEW i \in 0 .. k + 1 PROVE t[i] = IF i = 0 THEN Opened ELSE Taken(line, t[i - 1], i)
    <3>1. CASE i = k + 1
      <4>1. t[i] = Taken(line, h[k], i) /\ t[i - 1] = h[k] /\ i # 0
        BY <3>1
      <4> HIDE DEF t
      <4> QED BY <4>1, Zenon
    <3>2. CASE i \in 0 .. k
      <4>1. h[i] = IF i = 0 THEN Opened ELSE Taken(line, h[i - 1], i)
        BY <2>1, <3>2
      <4>2. t[i] = h[i] /\ (i # 0 => t[i - 1] = h[i - 1])
        BY <3>2
      <4> HIDE DEF t
      <4> QED BY <4>1, <4>2
    <3> QED BY <3>1, <3>2
  <2>3. t = [i \in 0 .. k + 1 |-> t[i]]
    OBVIOUS
  <2> HIDE DEF t
  <2>4. Up(t, k + 1)
    BY <2>2, <2>3
  <2> HIDE DEF Up
  <2>5. k + 1 \in Nat
    OBVIOUS
  <2> QED BY <2>4, <2>5
<1> HIDE DEF T
<1>4. T = Nat
  BY <1>2, <1>3, SetInduction DEF T
<1>5. \E h : Up(h, n)
  BY <1>1, <1>4 DEF T
<1> DEFINE h == CHOOSE h : Up(h, n)
<1>6. Up(h, n)
  BY <1>5
<1>7. Fields(line) = Append(h[n].fields, h[n].cur)
  BY DEF Fields, n
<1> HIDE DEF h
<1> QED BY <1>6, <1>7 DEF Steps, n

LEMMA TakenOutside ==
    ASSUME NEW line, NEW i, NEW F, NEW c
    PROVE  /\ line[i] = Quote => Taken(line, At(F, c, "outside"), i) = At(F, c, "inside")
           /\ line[i] = Comma => Taken(line, At(F, c, "outside"), i) = At(Append(F, c), <<>>, "outside")
           /\ line[i] \notin {Comma, Quote} =>
                Taken(line, At(F, c, "outside"), i) = At(F, Append(c, line[i]), "outside")
<1> DEFINE s == At(F, c, "outside")
<1>1. s.fields = F /\ s.cur = c /\ s.where = "outside"
  BY DEF At
<1> HIDE DEF s
<1> QED BY <1>1, Signs DEF Taken, s

LEMMA TakenInside ==
    ASSUME NEW line, NEW i, NEW F, NEW c
    PROVE  /\ line[i] # Quote => Taken(line, At(F, c, "inside"), i) = At(F, Append(c, line[i]), "inside")
           /\ line[i] = Quote /\ i < Len(line) /\ line[i + 1] = Quote =>
                Taken(line, At(F, c, "inside"), i) = At(F, Append(c, Quote), "second")
           /\ line[i] = Quote /\ ~(i < Len(line) /\ line[i + 1] = Quote) =>
                Taken(line, At(F, c, "inside"), i) = At(F, c, "outside")
           /\ Taken(line, At(F, c, "second"), i) = At(F, c, "inside")
<1> DEFINE s == At(F, c, "inside")
           z == At(F, c, "second")
<1>1. s.fields = F /\ s.cur = c /\ s.where = "inside"
  BY DEF At
<1>2. z.fields = F /\ z.cur = c /\ z.where = "second"
  BY DEF At
<1> HIDE DEF s, z
<1> QED BY <1>1, <1>2 DEF Taken, s, z

LEMMA StepIs ==
    ASSUME NEW line, Len(line) \in Nat, NEW s, Steps(s, line)
    PROVE  s[0] = Opened /\ \A k \in 0 .. Len(line) - 1 : s[k + 1] = Taken(line, s[k], k + 1)
<1>1. s[0] = Opened
  BY DEF Steps
<1>2. ASSUME NEW k \in 0 .. Len(line) - 1 PROVE s[k + 1] = Taken(line, s[k], k + 1)
  <2>1. k + 1 \in 0 .. Len(line) /\ k + 1 # 0 /\ (k + 1) - 1 = k
    OBVIOUS
  <2>2. s[k + 1] = Taken(line, s[(k + 1) - 1], k + 1)
    BY <2>1, Zenon DEF Steps
  <2> QED BY <2>1, <2>2, Zenon
<1> QED BY <1>1, <1>2

\* The first k characters.
Pre(f, k) == [i \in 1 .. k |-> f[i]]

LEMMA PreFacts ==
    ASSUME NEW f, IsSeq(f)
    PROVE  /\ Pre(f, 0) = <<>> /\ Pre(f, Len(f)) = f
           /\ \A k \in 0 .. Len(f) - 1 : Append(Pre(f, k), f[k + 1]) = Pre(f, k + 1)
<1>1. Len(f) \in Nat /\ f = [i \in 1 .. Len(f) |-> f[i]]
  BY SeqFacts
<1>2. Pre(f, Len(f)) = f
  BY <1>1 DEF Pre
<1>3. Pre(f, 0) = <<>>
  BY DEF Pre
<1>4. ASSUME NEW k \in 0 .. Len(f) - 1 PROVE Append(Pre(f, k), f[k + 1]) = Pre(f, k + 1)
  <2> DEFINE a == Pre(f, k)
             b == Pre(f, k + 1)
             c == Append(a, f[k + 1])
  <2>1. k \in Nat /\ k + 1 \in Nat
    BY <1>1
  <2>2. IsSeq(a) /\ Len(a) = k /\ \A i \in 1 .. k : a[i] = f[i]
    <3>1. a = [i \in 1 .. k |-> a[i]] /\ \A i \in 1 .. k : a[i] = f[i]
      BY DEF Pre
    <3> HIDE DEF a
    <3> QED BY <2>1, <3>1, MakeSeq
  <2>3. IsSeq(b) /\ Len(b) = k + 1 /\ \A i \in 1 .. k + 1 : b[i] = f[i]
    <3>1. b = [i \in 1 .. k + 1 |-> b[i]] /\ \A i \in 1 .. k + 1 : b[i] = f[i]
      BY DEF Pre
    <3> HIDE DEF b
    <3> QED BY <2>1, <3>1, MakeSeq
  <2> HIDE DEF a, b
  <2>4. /\ IsSeq(c) /\ Len(c) = k + 1 /\ c[k + 1] = f[k + 1]
        /\ \A i \in 1 .. k : c[i] = a[i]
    BY <2>2, AppendFacts
  <2> HIDE DEF c
  <2>5. \A i \in 1 .. k + 1 : c[i] = b[i]
    BY <2>1, <2>2, <2>3, <2>4
  <2>6. c = b
    BY <2>3, <2>4, <2>5, SeqSame
  <2> QED BY <2>6 DEF a, b, c
<1> QED BY <1>2, <1>3, <1>4

\* The characters of f stand in the line behind the first `at`.
Stands(line, at, f) ==
    /\ at \in Nat /\ at + Len(f) <= Len(line)
    /\ \A j \in 1 .. Len(f) : line[at + j] = f[j]

\* Characters that are no commas and no quotes are added to a field.
LEMMA PlainRun ==
    ASSUME NEW line, IsSeq(line), NEW s, Steps(s, line), NEW f, IsSeq(f), NEW at, Stands(line, at, f),
           \A j \in 1 .. Len(f) : f[j] \notin {Comma, Quote},
           NEW F, s[at] = At(F, <<>>, "outside")
    PROVE  s[at + Len(f)] = At(F, f, "outside")
<1> DEFINE m == Len(f)
           T == {k \in Nat : k <= m => s[at + k] = At(F, Pre(f, k), "outside")}
<1>1. m \in Nat /\ at \in Nat /\ Len(line) \in Nat /\ at + m <= Len(line)
  BY SeqFacts DEF Stands
<1> HIDE DEF m
<1>2. 0 \in T
  <2>1. at + 0 = at
    BY <1>1
  <2> QED BY <2>1, PreFacts
<1>3. ASSUME NEW k \in T, k + 1 <= m PROVE s[at + (k + 1)] = At(F, Pre(f, k + 1), "outside")
  <2> DEFINE p == at + k
             c == Pre(f, k)
  <2>1. /\ k \in Nat /\ k + 1 \in 1 .. m /\ k \in 0 .. m - 1 /\ k <= m
        /\ p \in 0 .. Len(line) - 1 /\ at + (k + 1) = p + 1
    BY <1>1, <1>3
  <2>2. s[p] = At(F, c, "outside")
    BY <1>3, <2>1
  <2>3. line[p + 1] = f[k + 1] /\ f[k + 1] \notin {Comma, Quote}
    <3>1. line[at + (k + 1)] = f[k + 1]
      BY <2>1, Zenon DEF Stands, m
    <3>2. f[k + 1] \notin {Comma, Quote}
      BY <2>1 DEF m
    <3> QED BY <2>1, <3>1, <3>2, Zenon
  <2> HIDE DEF p, c
  <2>4. s[p + 1] = Taken(line, s[p], p + 1)
    BY <1>1, <2>1, StepIs
  <2>5. Taken(line, At(F, c, "outside"), p + 1) = At(F, Append(c, line[p + 1]), "outside")
    BY <2>3, TakenOutside
  <2>6. Append(c, f[k + 1]) = Pre(f, k + 1)
    BY <2>1, PreFacts DEF c, m
  <2> QED BY <2>1, <2>2, <2>3, <2>4, <2>5, <2>6, Zenon
<1>4. ASSUME NEW k \in T PROVE k + 1 \in T
  <2>1. k + 1 \in Nat
    OBVIOUS
  <2> QED BY <1>3, <2>1
<1> HIDE DEF T
<1>5. T = Nat
  BY <1>2, <1>4, SetInduction DEF T
<1>6. s[at + m] = At(F, Pre(f, m), "outside")
  BY <1>1, <1>5 DEF T
<1> QED BY <1>6, PreFacts DEF m

\* q[k]: how long the first k characters of f are within the quotes.
LEMMA EscapedShape ==
    ASSUME NEW f, IsSeq(f), ~Plain(f)
    PROVE  \E q : /\ q[0] = 0 /\ q[Len(f)] \in Nat
                  /\ IsSeq(Escaped(f)) /\ Len(Escaped(f)) = q[Len(f)] + 2
                  /\ Escaped(f)[1] = Quote /\ Escaped(f)[q[Len(f)] + 2] = Quote
                  /\ \A k \in 0 .. Len(f) - 1 :
                        /\ q[k] \in Nat /\ q[k + 1] \in Nat /\ q[k + 1] <= q[Len(f)]
                        /\ Escaped(f)[q[k] + 2] = f[k + 1]
                        /\ f[k + 1] # Quote => q[k + 1] = q[k] + 1
                        /\ f[k + 1] = Quote => q[k + 1] = q[k] + 2 /\ Escaped(f)[q[k] + 3] = Quote
<1> DEFINE m == Len(f)
           d == [i \in DOMAIN f |-> IF f[i] = Quote THEN <<Quote, Quote>> ELSE <<f[i]>>]
           z == FlattenSeq(d)
           e == <<Quote>> \o z \o <<Quote>>
<1>1. m \in Nat /\ DOMAIN f = 1 .. m
  BY SeqFacts
<1>2. Escaped(f) = e
  BY DEF Escaped
<1>3. \A i \in 1 .. m : d[i] = IF f[i] = Quote THEN <<Quote, Quote>> ELSE <<f[i]>>
  BY <1>1
<1>4. IsSeq(d) /\ Len(d) = m
  <2>1. d = [i \in 1 .. m |-> d[i]]
    BY <1>1
  <2> HIDE DEF d, m
  <2> QED BY <1>1, <2>1, MakeSeq
<1> HIDE DEF m, d
<1>5. ASSUME NEW i \in 1 .. m
      PROVE  /\ IsSeq(d[i]) /\ d[i][1] = f[i]
             /\ f[i] # Quote => Len(d[i]) = 1
             /\ f[i] = Quote => Len(d[i]) = 2 /\ d[i][2] = Quote
  <2>1. CASE f[i] = Quote
    <3>1. d[i] = <<Quote, Quote>>
      BY <1>3, <2>1
    <3> QED BY <2>1, <3>1, TwoSeq
  <2>2. CASE f[i] # Quote
    <3>1. d[i] = <<f[i]>>
      BY <1>3, <2>2
    <3> QED BY <2>2, <3>1, OneSeq
  <2> QED BY <2>1, <2>2
<1>6. Seqs(d)
  BY <1>4, <1>5 DEF Seqs
<1>7. PICK g : Builds(g, d) /\ z = g[m]
  BY <1>4, <1>6, FlattenBuilds
<1>8. /\ g[0] = <<>> /\ \A i \in 0 .. m : IsSeq(g[i]) /\ Len(g[i]) \in Nat
      /\ \A i \in 1 .. m : Len(g[i]) = Len(g[i - 1]) + Len(d[i])
  BY <1>4, <1>6, <1>7, BuildsSteps
<1> DEFINE q == [i \in 0 .. m |-> Len(g[i])]
<1>9. \A i \in 0 .. m : q[i] = Len(g[i]) /\ q[i] \in Nat
  BY <1>8
<1>10. q[0] = 0
  BY <1>1, <1>8
<1> HIDE DEF q, z
<1>11. IsSeq(z) /\ Len(z) = q[m] /\ q[m] \in Nat
  BY <1>1, <1>7, <1>8, <1>9
<1>12. IsSeq(e) /\ Len(e) = q[m] + 2 /\ e[1] = Quote /\ e[q[m] + 2] = Quote
       /\ \A j \in 1 .. q[m] : e[j + 1] = z[j]
  <2> DEFINE a == <<Quote>>
             b == a \o z
  <2>1. IsSeq(a) /\ Len(a) = 1 /\ a[1] = Quote
    BY OneSeq
  <2> HIDE DEF a
  <2>2. IsSeq(b) /\ Len(b) = 1 + q[m] /\ b[1] = Quote /\ \A j \in 1 .. q[m] : b[1 + j] = z[j]
    <3>1. Joint(a, z, b)
      BY <1>11, <2>1, Joins
    <3> HIDE DEF b
    <3> QED BY <1>11, <2>1, <3>1 DEF Joint
  <2> HIDE DEF b
  <2>3. Joint(b, a, e)
    BY <2>1, <2>2, Joins DEF a, b
  <2> HIDE DEF e
  <2>4. /\ IsSeq(e) /\ Len(e) = Len(b) + Len(a)
        /\ \A i \in 1 .. Len(b) : e[i] = b[i]
        /\ \A i \in 1 .. Len(a) : e[Len(b) + i] = a[i]
    BY <2>3 DEF Joint
  <2>5. Len(e) = q[m] + 2 /\ e[1] = Quote
    BY <1>11, <2>1, <2>2, <2>4
  <2>6. e[q[m] + 2] = Quote
    <3>1. e[(1 + q[m]) + 1] = Quote
      BY <2>1, <2>2, <2>4
    <3>2. (1 + q[m]) + 1 = q[m] + 2
      BY <1>11
    <3> QED BY <3>1, <3>2, Zenon
  <2>7. ASSUME NEW j \in 1 .. q[m] PROVE e[j + 1] = z[j]
    <3>1. 1 + j \in 1 .. Len(b) /\ 1 + j = j + 1
      BY <1>11, <2>2
    <3>2. e[1 + j] = z[j]
      BY <2>2, <2>4, <3>1
    <3> QED BY <3>1, <3>2
  <2> QED BY <2>4, <2>5, <2>6, <2>7
<1> HIDE DEF e
<1>13. ASSUME NEW k \in 0 .. m - 1
       PROVE  /\ q[k] \in Nat /\ q[k + 1] \in Nat /\ q[k + 1] <= q[m]
              /\ e[q[k] + 2] = f[k + 1]
              /\ f[k + 1] # Quote => q[k + 1] = q[k] + 1
              /\ f[k + 1] = Quote => q[k + 1] = q[k] + 2 /\ e[q[k] + 3] = Quote
  <2> DEFINE i == k + 1
             x == d[i]
  <2>1. i \in 1 .. m /\ i - 1 = k /\ k \in 0 .. m /\ i \in 0 .. m
    BY <1>1
  <2> HIDE DEF i
  <2>2. q[k] = Len(g[k]) /\ q[i] = Len(g[i]) /\ q[k] \in Nat /\ q[i] \in Nat /\ q[i] = q[k] + Len(x)
    <3>1. Len(g[i]) = Len(g[i - 1]) + Len(d[i])
      BY <1>8, <2>1
    <3> QED BY <1>9, <2>1, <3>1
  <2>3. /\ Len(g[i - 1]) + Len(x) <= Len(g[m])
        /\ \A j \in 1 .. Len(x) : g[m][Len(g[i - 1]) + j] = x[j]
    <3>1. i \in 1 .. Len(d)
      BY <1>4, <2>1
    <3>2. Placed(g, d, i)
      BY <1>6, <1>7, <3>1, BuildsPlaces
    <3> QED BY <1>4, <3>2 DEF Placed
  <2>4. /\ q[k] + Len(x) <= q[m]
        /\ \A j \in 1 .. Len(x) : z[q[k] + j] = x[j]
    <3>1. Len(g[i - 1]) = q[k] /\ Len(g[m]) = q[m] /\ g[m] = z
      BY <1>1, <1>7, <1>9, <2>1, <2>2
    <3> QED BY <2>3, <3>1
  <2>5. /\ x[1] = f[i]
        /\ f[i] # Quote => Len(x) = 1
        /\ f[i] = Quote => Len(x) = 2 /\ x[2] = Quote
    BY <1>5, <2>1
  <2> HIDE DEF x
  <2>6. Len(x) \in {1, 2} /\ q[i] <= q[m]
    BY <2>2, <2>4, <2>5
  <2>7. e[q[k] + 2] = f[i]
    <3> DEFINE u == q[k]
               v == q[m]
               w == Len(x)
    <3>0. u \in Nat /\ v \in Nat /\ w \in {1, 2} /\ u + w <= v
      BY <1>11, <2>2, <2>4, <2>6
    <3> HIDE DEF u, v, w
    <3>a. u + 1 \in 1 .. v /\ (u + 1) + 1 = u + 2 /\ 1 \in 1 .. w
      BY <3>0
    <3>1. q[k] + 1 \in 1 .. q[m] /\ (q[k] + 1) + 1 = q[k] + 2 /\ z[q[k] + 1] = x[1]
      BY <2>4, <3>a DEF u, v, w
    <3>2. e[(q[k] + 1) + 1] = z[q[k] + 1]
      BY <1>12, <3>1
    <3> QED BY <2>5, <3>1, <3>2
  <2>8. f[i] = Quote => e[q[k] + 3] = Quote
    <3> SUFFICES ASSUME f[i] = Quote PROVE e[q[k] + 3] = Quote
      OBVIOUS
    <3> DEFINE u == q[k]
               v == q[m]
               w == Len(x)
    <3>0. u \in Nat /\ v \in Nat /\ w = 2 /\ u + w <= v
      BY <1>11, <2>2, <2>4, <2>5
    <3> HIDE DEF u, v, w
    <3>a. u + 2 \in 1 .. v /\ (u + 2) + 1 = u + 3 /\ 2 \in 1 .. w
      BY <3>0
    <3>1. q[k] + 2 \in 1 .. q[m] /\ (q[k] + 2) + 1 = q[k] + 3 /\ z[q[k] + 2] = x[2]
      BY <2>4, <3>a DEF u, v, w
    <3>2. e[(q[k] + 2) + 1] = z[q[k] + 2]
      BY <1>12, <3>1
    <3> QED BY <2>5, <3>1, <3>2
  <2>9. (f[i] # Quote => q[i] = q[k] + 1) /\ (f[i] = Quote => q[i] = q[k] + 2)
    BY <2>2, <2>5
  <2> QED BY <2>2, <2>6, <2>7, <2>8, <2>9 DEF i
<1> QED BY <1>2, <1>10, <1>11, <1>12, <1>13 DEF m

\* An escaped field is read as what it was, if it is followed by a comma.
LEMMA QuotedRun ==
    ASSUME NEW line, IsSeq(line), NEW s, Steps(s, line), NEW f, IsSeq(f), ~Plain(f),
           NEW at, Stands(line, at, Escaped(f)), line[at + Len(Escaped(f)) + 1] # Quote,
           NEW F, s[at] = At(F, <<>>, "outside")
    PROVE  s[at + Len(Escaped(f))] = At(F, f, "outside")
<1> DEFINE m == Len(f)
           e == Escaped(f)
           n == Len(line)
<1>1. PICK q : /\ q[0] = 0 /\ q[m] \in Nat
               /\ IsSeq(e) /\ Len(e) = q[m] + 2
               /\ e[1] = Quote /\ e[q[m] + 2] = Quote
               /\ \A k \in 0 .. m - 1 :
                     /\ q[k] \in Nat /\ q[k + 1] \in Nat /\ q[k + 1] <= q[m]
                     /\ e[q[k] + 2] = f[k + 1]
                     /\ f[k + 1] # Quote => q[k + 1] = q[k] + 1
                     /\ f[k + 1] = Quote => q[k + 1] = q[k] + 2 /\ e[q[k] + 3] = Quote
  BY EscapedShape
<1>2. m \in Nat /\ at \in Nat /\ n \in Nat /\ at + (q[m] + 2) <= n
  BY <1>1, SeqFacts DEF Stands
<1>3. \A j \in 1 .. q[m] + 2 : line[at + j] = e[j]
  BY <1>1 DEF Stands
<1> HIDE DEF m, e, n
<1>4. \A p \in 0 .. n - 1 : s[p + 1] = Taken(line, s[p], p + 1)
  BY <1>2, StepIs DEF n
<1> DEFINE T == {k \in Nat : k <= m => s[at + 1 + q[k]] = At(F, Pre(f, k), "inside")}
<1>5. 0 \in T
  <2>1. at \in 0 .. n - 1 /\ 1 \in 1 .. q[m] + 2 /\ at + 1 + q[0] = at + 1
    BY <1>1, <1>2
  <2>2. line[at + 1] = Quote
    BY <1>1, <1>3, <2>1
  <2>3. s[at + 1] = At(F, <<>>, "inside")
    BY <1>4, <2>1, <2>2, TakenOutside
  <2> QED BY <2>1, <2>3, PreFacts
<1>6. ASSUME NEW k \in T, k + 1 <= m PROVE s[at + 1 + q[k + 1]] = At(F, Pre(f, k + 1), "inside")
  <2> DEFINE a == q[k]
             b == q[k + 1]
             p == at + 1 + a
             c == Pre(f, k)
             x == f[k + 1]
  <2>1. k \in Nat /\ k \in 0 .. m - 1 /\ k <= m
    BY <1>2, <1>6
  <2>2. /\ a \in Nat /\ b \in Nat /\ b <= q[m]
        /\ e[a + 2] = x /\ (x # Quote => b = a + 1)
        /\ (x = Quote => b = a + 2 /\ e[a + 3] = Quote)
    BY <1>1, <2>1
  <2>3. s[p] = At(F, c, "inside")
    BY <1>6, <2>1
  <2>4. Append(c, x) = Pre(f, k + 1)
    BY <2>1, PreFacts DEF m
  <2>5. p = at + 1 + a
    OBVIOUS
  <2> HIDE DEF a, b, p, c, x
  <2>6. a + 1 <= b
    BY <2>2
  <2>7. /\ p \in 0 .. n - 1 /\ a + 2 \in 1 .. q[m] + 2 /\ p + 1 = at + (a + 2)
    BY <1>1, <1>2, <2>2, <2>5, <2>6
  <2>8. line[p + 1] = x
    BY <1>3, <2>2, <2>7
  <2>9. s[p + 1] = Taken(line, At(F, c, "inside"), p + 1)
    BY <1>4, <2>3, <2>7
  <2>10. CASE x # Quote
    <3>1. s[p + 1] = At(F, Append(c, x), "inside")
      BY <2>8, <2>9, <2>10, TakenInside
    <3>2. at + 1 + b = p + 1
      BY <1>2, <2>2, <2>5, <2>10
    <3> QED BY <2>4, <3>1, <3>2 DEF b
  <2>11. CASE x = Quote
    <3>1. b = a + 2 /\ e[a + 3] = Quote
      BY <2>2, <2>11
    <3>2. /\ p + 1 \in 0 .. n - 1 /\ a + 3 \in 1 .. q[m] + 2 /\ (p + 1) + 1 = at + (a + 3)
          /\ p + 1 < n /\ at + 1 + b = (p + 1) + 1
      BY <1>1, <1>2, <2>2, <2>5, <3>1
    <3>3. line[(p + 1) + 1] = Quote
      BY <1>3, <3>1, <3>2
    <3>4. s[p + 1] = At(F, Append(c, Quote), "second")
      BY <2>8, <2>9, <2>11, <3>2, <3>3, TakenInside DEF n
    <3>5. s[(p + 1) + 1] = At(F, Append(c, Quote), "inside")
      <4>1. s[(p + 1) + 1] = Taken(line, At(F, Append(c, Quote), "second"), (p + 1) + 1)
        BY <1>4, <3>2, <3>4
      <4> QED BY <4>1, TakenInside
    <3> QED BY <2>4, <2>11, <3>2, <3>5 DEF b
  <2> QED BY <2>10, <2>11
<1>7. ASSUME NEW k \in T PROVE k + 1 \in T
  <2>1. k + 1 \in Nat
    OBVIOUS
  <2> QED BY <1>6, <2>1
<1> HIDE DEF T
<1>8. T = Nat
  BY <1>5, <1>7, SetInduction DEF T
<1> DEFINE p == at + 1 + q[m]
<1>9. s[p] = At(F, f, "inside")
  <2>1. s[p] = At(F, Pre(f, m), "inside")
    BY <1>2, <1>8 DEF T
  <2> QED BY <2>1, PreFacts DEF m
<1>10. /\ p \in 0 .. n - 1 /\ q[m] + 2 \in 1 .. q[m] + 2 /\ p + 1 = at + (q[m] + 2)
       /\ p + 1 = at + Len(Escaped(f)) /\ (p + 1) + 1 = at + Len(Escaped(f)) + 1
  <2> DEFINE u == q[m]
             v == Len(Escaped(f))
  <2>1. u \in Nat /\ v = u + 2 /\ p = at + 1 + u
    BY <1>1 DEF e
  <2>2. at \in Nat /\ n \in Nat /\ at + (u + 2) <= n
    BY <1>2
  <2> HIDE DEF u, v, p
  <2>3. /\ p \in 0 .. n - 1 /\ u + 2 \in 1 .. u + 2 /\ p + 1 = at + (u + 2)
        /\ p + 1 = at + v /\ (p + 1) + 1 = at + v + 1
    BY <2>1, <2>2
  <2> QED BY <2>3 DEF u, v
<1> HIDE DEF p
<1>11. line[p + 1] = Quote /\ line[(p + 1) + 1] # Quote
  <2>1. line[at + (q[m] + 2)] = Quote
    BY <1>1, <1>3, <1>10
  <2> QED BY <1>10, <2>1
<1>12. s[p + 1] = At(F, f, "outside")
  <2>1. s[p + 1] = Taken(line, At(F, f, "inside"), p + 1)
    BY <1>4, <1>9, <1>10
  <2> QED BY <1>11, <2>1, TakenInside
<1> QED BY <1>10, <1>12

\* The text e is read as the field f.
Reads(e, f) ==
    \/ e = f /\ \A j \in 1 .. Len(f) : f[j] \notin {Comma, Quote}
    \/ e = Escaped(f) /\ ~Plain(f)

LEMMA EscapedReads == ASSUME NEW f, IsSeq(f) PROVE Reads(Escaped(f), f) /\ IsSeq(Escaped(f))
<1>1. CASE Plain(f)
  <2>1. Escaped(f) = f
    BY <1>1 DEF Escaped
  <2>2. Comma \notin ToSet(f) /\ Quote \notin ToSet(f)
    BY <1>1 DEF Plain
  <2>3. \A j \in 1 .. Len(f) : f[j] # Comma /\ f[j] # Quote
    BY <2>2, NotIn
  <2> QED BY <2>1, <2>3 DEF Reads
<1>2. CASE ~Plain(f)
  BY <1>2, EscapedShape DEF Reads
<1> QED BY <1>1, <1>2

LEMMA FieldRun ==
    ASSUME NEW line, IsSeq(line), NEW s, Steps(s, line), NEW f, IsSeq(f), NEW e, Reads(e, f),
           NEW at, Stands(line, at, e), line[at + Len(e) + 1] # Quote,
           NEW F, s[at] = At(F, <<>>, "outside")
    PROVE  s[at + Len(e)] = At(F, f, "outside")
<1>1. CASE e = f /\ \A j \in 1 .. Len(f) : f[j] \notin {Comma, Quote}
  <2>1. Stands(line, at, f) /\ \A j \in 1 .. Len(f) : f[j] \notin {Comma, Quote}
    BY <1>1
  <2>2. s[at + Len(f)] = At(F, f, "outside")
    BY <2>1, PlainRun
  <2> QED BY <1>1, <2>2
<1>2. CASE e = Escaped(f) /\ ~Plain(f)
  <2>1. Stands(line, at, Escaped(f)) /\ line[at + Len(Escaped(f)) + 1] # Quote /\ ~Plain(f)
    BY <1>2
  <2>2. s[at + Len(Escaped(f))] = At(F, f, "outside")
    BY <2>1, QuotedRun
  <2> QED BY <1>2, <2>2
<1> QED BY <1>1, <1>2 DEF Reads

LEMMA CommaStep ==
    ASSUME NEW line, Len(line) \in Nat, NEW s, Steps(s, line),
           NEW at \in 0 .. Len(line) - 1, line[at + 1] = Comma,
           NEW F, NEW c, s[at] = At(F, c, "outside")
    PROVE  s[at + 1] = At(Append(F, c), <<>>, "outside")
<1>1. s[at + 1] = Taken(line, s[at], at + 1)
  BY StepIs
<1> QED BY <1>1, TakenOutside

\* A row without its newline.
RowShape(line, x, y, pr, st) ==
    /\ IsSeq(line) /\ Len(line) = Len(x) + Len(y) + 5
    /\ Stands(line, 0, x) /\ line[Len(x) + 1] = Comma
    /\ Stands(line, Len(x) + 1, y) /\ line[Len(x) + Len(y) + 2] = Comma
    /\ line[Len(x) + Len(y) + 3] = pr /\ line[Len(x) + Len(y) + 4] = Comma
    /\ line[Len(x) + Len(y) + 5] = st

Sign == {Comma, Quote, Newline, Return}

\* What is behind the id of a row makes three fields.
LEMMA RestOfRow ==
    ASSUME NEW line, NEW x, IsSeq(x), NEW y, IsSeq(y), NEW pr, pr \notin Sign, NEW st, st \notin Sign,
           RowShape(line, x, y, pr, st), NEW s, Steps(s, line), NEW name, IsSeq(name), Reads(y, name),
           NEW F, NEW c, s[Len(x)] = At(F, c, "outside")
    PROVE  s[Len(line)] = At(Append(Append(Append(F, c), name), <<pr>>), <<st>>, "outside")
<1> DEFINE a == Len(x)
           b == Len(y)
           n == Len(line)
           F1 == Append(F, c)
           F2 == Append(F1, name)
           F3 == Append(F2, <<pr>>)
           u == a + 1
           v == u + b
           w == v + 1
           z == w + 1
           t == z + 1
<1>1. a \in Nat /\ b \in Nat /\ IsSeq(line) /\ n = a + b + 5
  BY SeqFacts DEF RowShape
<1>2. /\ line[a + 1] = Comma /\ Stands(line, u, y) /\ line[a + b + 2] = Comma
      /\ line[a + b + 3] = pr /\ line[a + b + 4] = Comma /\ line[a + b + 5] = st
  BY DEF RowShape
<1> HIDE DEF a, b, n, F1, F2, F3
<1>3. /\ a \in 0 .. n - 1 /\ n \in Nat
      /\ u \in Nat /\ v \in 0 .. n - 1 /\ v + 1 = a + b + 2
      /\ w \in Nat /\ w + 1 = a + b + 3 /\ z \in 0 .. n - 1 /\ z + 1 = a + b + 4
      /\ t \in Nat /\ t + 1 = a + b + 5 /\ t + 1 = n /\ w + 1 <= n
  BY <1>1
<1>4. s[u] = At(F1, <<>>, "outside")
  BY <1>1, <1>2, <1>3, CommaStep DEF a, n, F1
<1>5. s[v] = At(F1, name, "outside")
  <2> HIDE DEF u
  <2>1. line[u + Len(y) + 1] # Quote
    BY <1>2, <1>3, Signs DEF b
  <2> QED BY <1>1, <1>2, <1>4, <2>1, FieldRun DEF b
<1> HIDE DEF v
<1>6. s[w] = At(F2, <<>>, "outside")
  <2>1. line[v + 1] = Comma /\ v \in 0 .. Len(line) - 1 /\ Len(line) \in Nat
    BY <1>2, <1>3 DEF n
  <2>2. s[v + 1] = At(Append(F1, name), <<>>, "outside")
    BY <1>5, <2>1, CommaStep
  <2> QED BY <2>2 DEF F2
<1> HIDE DEF w
<1>7. \A e : IsSeq(<<e>>) /\ Len(<<e>>) = 1 /\ <<e>>[1] = e
  BY OneSeq
<1>8. s[z] = At(F2, <<pr>>, "outside")
  <2> DEFINE d == <<pr>>
  <2>1. IsSeq(d) /\ Len(d) = 1 /\ d[1] = pr
    BY <1>7
  <2> HIDE DEF d
  <2>a. \A j \in 1 .. Len(d) : j = 1 /\ w + j = w + 1
    BY <1>3, <2>1
  <2>b. w \in Nat /\ w + Len(d) <= Len(line) /\ line[w + 1] = pr
    BY <1>2, <1>3, <2>1 DEF n
  <2>c. pr \notin {Comma, Quote}
    BY DEF Sign
  <2>2. Stands(line, w, d) /\ \A j \in 1 .. Len(d) : d[j] \notin {Comma, Quote}
    BY <2>1, <2>a, <2>b, <2>c DEF Stands
  <2>3. IsSeq(line) /\ IsSeq(d) /\ s[w] = At(F2, <<>>, "outside")
    BY <1>1, <1>6, <2>1
  <2>4. s[w + Len(d)] = At(F2, d, "outside")
    BY <2>2, <2>3, PlainRun
  <2> QED BY <2>1, <2>4 DEF d
<1> HIDE DEF z
<1>9. s[t] = At(F3, <<>>, "outside")
  <2>1. line[z + 1] = Comma /\ z \in 0 .. Len(line) - 1 /\ Len(line) \in Nat
    BY <1>2, <1>3 DEF n
  <2>2. s[z + 1] = At(Append(F2, <<pr>>), <<>>, "outside")
    BY <1>8, <2>1, CommaStep
  <2> QED BY <2>2 DEF F3
<1> HIDE DEF t
<1>10. s[t + 1] = At(F3, <<st>>, "outside")
  <2> DEFINE d == <<st>>
  <2>1. IsSeq(d) /\ Len(d) = 1 /\ d[1] = st
    BY <1>7
  <2> HIDE DEF d
  <2>a. \A j \in 1 .. Len(d) : j = 1 /\ t + j = t + 1
    BY <1>3, <2>1
  <2>b. t \in Nat /\ t + Len(d) <= Len(line) /\ line[t + 1] = st
    BY <1>2, <1>3, <2>1 DEF n
  <2>c. st \notin {Comma, Quote}
    BY DEF Sign
  <2>2. Stands(line, t, d) /\ \A j \in 1 .. Len(d) : d[j] \notin {Comma, Quote}
    BY <2>1, <2>a, <2>b, <2>c DEF Stands
  <2>3. IsSeq(line) /\ IsSeq(d) /\ s[t] = At(F3, <<>>, "outside")
    BY <1>1, <1>9, <2>1
  <2>4. s[t + Len(d)] = At(F3, d, "outside")
    BY <2>2, <2>3, PlainRun
  <2> QED BY <2>1, <2>4 DEF d
<1> QED BY <1>3, <1>10 DEF n, F1, F2, F3

LEMMA FourFields ==
    ASSUME NEW F, IsSeq(F), NEW c, NEW name, NEW y, NEW z
    PROVE  LET f == Append(Append(Append(Append(F, c), name), y), z)
           IN /\ IsSeq(f) /\ Len(f) = Len(F) + 4
              /\ f[Len(F) + 1] = c /\ f[Len(F) + 2] = name
              /\ f[Len(F) + 3] = y /\ f[Len(F) + 4] = z
<1> DEFINE m == Len(F)
           F1 == Append(F, c)
           F2 == Append(F1, name)
           F3 == Append(F2, y)
           f == Append(F3, z)
<1>0. m \in Nat /\ IsSeq(F)
  BY SeqFacts
<1> HIDE DEF m
<1>1. IsSeq(F1) /\ Len(F1) = m + 1 /\ F1[m + 1] = c
  BY <1>0, AppendFacts DEF m
<1> HIDE DEF F1
<1>2. IsSeq(F2) /\ Len(F2) = m + 2 /\ F2[m + 1] = c /\ F2[m + 2] = name
  <2>1. /\ IsSeq(F2) /\ Len(F2) = Len(F1) + 1 /\ F2[Len(F1) + 1] = name
        /\ \A i \in 1 .. Len(F1) : F2[i] = F1[i]
    BY <1>1, AppendFacts
  <2>2. m + 1 \in 1 .. Len(F1) /\ Len(F1) + 1 = m + 2
    BY <1>0, <1>1
  <2> HIDE DEF F2
  <2> QED BY <1>1, <2>1, <2>2
<1> HIDE DEF F2
<1>3. IsSeq(F3) /\ Len(F3) = m + 3 /\ F3[m + 1] = c /\ F3[m + 2] = name /\ F3[m + 3] = y
  <2>1. /\ IsSeq(F3) /\ Len(F3) = Len(F2) + 1 /\ F3[Len(F2) + 1] = y
        /\ \A i \in 1 .. Len(F2) : F3[i] = F2[i]
    BY <1>2, AppendFacts
  <2>2. {m + 1, m + 2} \subseteq 1 .. Len(F2) /\ Len(F2) + 1 = m + 3
    BY <1>0, <1>2
  <2> HIDE DEF F3
  <2> QED BY <1>2, <2>1, <2>2
<1> HIDE DEF F3
<1>4. /\ IsSeq(f) /\ Len(f) = m + 4 /\ f[m + 1] = c /\ f[m + 2] = name
      /\ f[m + 3] = y /\ f[m + 4] = z
  <2>1. /\ IsSeq(f) /\ Len(f) = Len(F3) + 1 /\ f[Len(F3) + 1] = z
        /\ \A i \in 1 .. Len(F3) : f[i] = F3[i]
    BY <1>3, AppendFacts
  <2>2. {m + 1, m + 2, m + 3} \subseteq 1 .. Len(F3) /\ Len(F3) + 1 = m + 4
    BY <1>0, <1>3
  <2> HIDE DEF f
  <2> QED BY <1>3, <2>1, <2>2
<1> QED BY <1>4 DEF m, F1, F2, F3

\* A row is read as its product.
LEMMA RowRead ==
    ASSUME NEW line, NEW x, IsSeq(x), NEW y, IsSeq(y), NEW pr \in Number, NEW st \in Number,
           RowShape(line, x, y, pr, st), NEW id, IsSeq(id), Reads(x, id), NEW name, IsSeq(name), Reads(y, name)
    PROVE  /\ Loads(Fields(line))
           /\ Product(Fields(line)) = [id |-> id, name |-> name, price |-> pr, stock |-> st]
<1> DEFINE f == Append(Append(Append(Append(<<>>, id), name), <<pr>>), <<st>>)
<1>1. IsSeq(line) /\ Len(line) \in Nat /\ pr \notin Sign /\ st \notin Sign
  BY RowsAssumption, SeqFacts DEF RowShape, Sign
<1>2. PICK s : Steps(s, line) /\ Fields(line) = Append(s[Len(line)].fields, s[Len(line)].cur)
  BY <1>1, FieldsSteps
<1>3. s[Len(x)] = At(<<>>, id, "outside")
  <2>1. s[0] = At(<<>>, <<>>, "outside")
    BY <1>1, <1>2, StepIs DEF Opened
  <2>2. Stands(line, 0, x) /\ line[0 + Len(x) + 1] # Quote
    BY SeqFacts, Signs DEF RowShape
  <2>3. s[0 + Len(x)] = At(<<>>, id, "outside")
    BY <1>1, <1>2, <2>1, <2>2, FieldRun
  <2>4. 0 + Len(x) = Len(x)
    BY SeqFacts
  <2> QED BY <2>3, <2>4
<1>4. Fields(line) = f
  <2> DEFINE F == <<>>
  <2>1. s[Len(x)] = At(F, id, "outside")
    BY <1>3
  <2> HIDE DEF F
  <2>2. s[Len(line)] = At(Append(Append(Append(F, id), name), <<pr>>), <<st>>, "outside")
    BY <1>1, <1>2, <2>1, RestOfRow
  <2> QED BY <1>2, <2>2 DEF At, F
<1>5. Len(f) = 4 /\ f[1] = id /\ f[2] = name /\ f[3] = <<pr>> /\ f[4] = <<st>>
  BY SeqOfNone, FourFields
<1> HIDE DEF f
<1>6. IsNumber(<<pr>>) /\ IsNumber(<<st>>) /\ Head(<<pr>>) = pr /\ Head(<<st>>) = st
  BY DEF IsNumber
<1> QED BY <1>4, <1>5, <1>6 DEF Loads, Product

\* A row whose id has a comma and no quotes around it has too many fields.
LEMMA RowLong ==
    ASSUME NEW line, NEW x, IsSeq(x), NEW y, IsSeq(y), NEW pr \in Number, NEW st \in Number,
           RowShape(line, x, y, pr, st), NEW name, IsSeq(name), Reads(y, name),
           Quote \notin ToSet(x), Comma \in ToSet(x)
    PROVE  ~Loads(Fields(line))
<1> DEFINE m == Len(x)
<1>1. IsSeq(line) /\ Len(line) \in Nat /\ pr \notin Sign /\ st \notin Sign
  BY RowsAssumption, SeqFacts DEF RowShape, Sign
<1>2. PICK s : Steps(s, line) /\ Fields(line) = Append(s[Len(line)].fields, s[Len(line)].cur)
  BY <1>1, FieldsSteps
<1>3. m \in Nat /\ m <= Len(line) /\ \A j \in 1 .. m : line[j] = x[j] /\ x[j] # Quote
  <2>1. m \in Nat /\ \A j \in 1 .. m : x[j] # Quote
    BY SeqFacts, NotIn
  <2>2. 0 + m <= Len(line) /\ \A j \in 1 .. m : line[0 + j] = x[j]
    BY DEF RowShape, Stands
  <2> HIDE DEF m
  <2>3. 0 + m = m /\ \A j \in 1 .. m : 0 + j = j
    BY <2>1
  <2> QED BY <2>1, <2>2, <2>3
<1>4. PICK at \in 1 .. m : x[at] = Comma
  BY SeqFacts
<1> HIDE DEF m
<1>5. /\ s[0] = At(<<>>, <<>>, "outside")
      /\ \A k \in 0 .. m - 1 : s[k + 1] = Taken(line, s[k], k + 1)
  BY <1>1, <1>2, <1>3, StepIs DEF Opened
<1> DEFINE T == {k \in Nat : k <= m => \E F, c : /\ s[k] = At(F, c, "outside")
                                                 /\ IsSeq(F) /\ (k >= at => Len(F) >= 1)}
<1>6. 0 \in T
  BY <1>4, <1>5, SeqOfNone
<1>7. ASSUME NEW k \in T PROVE k + 1 \in T
  <2>1. k + 1 \in Nat /\ k \in Nat
    OBVIOUS
  <2>2. ASSUME k + 1 <= m
        PROVE  \E F, c : /\ s[k + 1] = At(F, c, "outside")
                         /\ IsSeq(F) /\ (k + 1 >= at => Len(F) >= 1)
    <3>1. PICK F, c : s[k] = At(F, c, "outside") /\ IsSeq(F) /\ (k >= at => Len(F) >= 1)
      BY <2>1, <2>2, <1>3
    <3>2. s[k + 1] = Taken(line, At(F, c, "outside"), k + 1)
      BY <1>3, <1>5, <2>1, <2>2, <3>1
    <3>3. line[k + 1] = x[k + 1] /\ line[k + 1] # Quote
      BY <1>3, <2>1, <2>2
    <3>4. CASE line[k + 1] = Comma
      <4>1. s[k + 1] = At(Append(F, c), <<>>, "outside")
        BY <3>2, <3>4, TakenOutside
      <4>2. IsSeq(Append(F, c)) /\ Len(Append(F, c)) >= 1
        BY <3>1, AppendFacts, SeqFacts
      <4> QED BY <4>1, <4>2
    <3>5. CASE line[k + 1] # Comma
      <4>1. s[k + 1] = At(F, Append(c, line[k + 1]), "outside")
        BY <3>2, <3>3, <3>5, TakenOutside
      <4>2. k + 1 >= at => k >= at
        BY <1>4, <2>1, <3>3, <3>5
      <4> QED BY <3>1, <4>1, <4>2
    <3> QED BY <3>4, <3>5
  <2> QED BY <2>1, <2>2
<1> HIDE DEF T
<1>8. T = Nat
  BY <1>6, <1>7, SetInduction DEF T
<1>9. PICK F, c : s[m] = At(F, c, "outside") /\ IsSeq(F) /\ Len(F) >= 1
  BY <1>3, <1>4, <1>8 DEF T
<1>10. Fields(line) = Append(Append(Append(Append(F, c), name), <<pr>>), <<st>>)
  <2>1. s[Len(line)] = At(Append(Append(Append(F, c), name), <<pr>>), <<st>>, "outside")
    BY <1>1, <1>2, <1>9, RestOfRow DEF m
  <2> QED BY <1>2, <2>1 DEF At
<1>11. Len(Fields(line)) = Len(F) + 4 /\ Len(F) \in Nat
  BY <1>9, <1>10, FourFields, SeqFacts
<1> QED BY <1>9, <1>11 DEF Loads

-----------------------------------------------------------------------------
(* Lines                                                                    *)
\* A row: its newline is its last character and no other.
Ended(r) ==
    /\ IsSeq(r) /\ Len(r) >= 1 /\ r[Len(r)] = Newline
    /\ \A j \in 1 .. Len(r) - 1 : r[j] # Newline

\* The i-th row ends at o[i] in the text.
LaidOut(text, rows, o) ==
    /\ IsSeq(text) /\ o[0] = 8 /\ o[Len(rows)] = Len(text)
    /\ \A j \in 1 .. 7 : text[j] # Newline
    /\ \A i \in 0 .. Len(rows) : o[i] \in 8 .. Len(text) /\ text[o[i]] = Newline
    /\ \A i \in 0 .. Len(rows) - 1 :
          /\ Ended(rows[i + 1]) /\ o[i + 1] = o[i] + Len(rows[i + 1])
          /\ Stands(text, o[i], rows[i + 1])

LEMMA HeaderFacts ==
    /\ IsSeq(Header) /\ Len(Header) = 8 /\ Header[8] = Newline
    /\ \A j \in 1 .. 7 : Header[j] # Newline
<1>1. Header = [i \in 1 .. 8 |-> Header[i]] /\ Header[8] = Newline
  BY DEF Header
<1>2. IsSeq(Header) /\ Len(Header) = 8
  BY <1>1, MakeSeq
<1>3. /\ Header[1] # Newline /\ Header[2] # Newline /\ Header[3] # Newline /\ Header[4] # Newline
      /\ Header[5] # Newline /\ Header[6] # Newline /\ Header[7] # Newline
  BY DEF Header, Comma, Newline
<1>4. \A j \in 1 .. 7 : j \in {1, 2, 3, 4, 5, 6, 7}
  OBVIOUS
<1> QED BY <1>1, <1>2, <1>3, <1>4

LEMMA Layout ==
    ASSUME NEW rows, Seqs(rows), \A i \in 1 .. Len(rows) : Ended(rows[i])
    PROVE  \E o : LaidOut(Header \o FlattenSeq(rows), rows, o)
<1> DEFINE n == Len(rows)
           z == FlattenSeq(rows)
           text == Header \o z
<1>1. PICK g : Builds(g, rows) /\ z = g[n]
  BY FlattenBuilds
<1>2. /\ n \in Nat /\ g[0] = <<>>
      /\ \A i \in 0 .. n : IsSeq(g[i]) /\ Len(g[i]) \in Nat
      /\ \A i \in 1 .. n : /\ IsSeq(rows[i]) /\ Len(rows[i]) \in Nat
                           /\ Len(g[i]) = Len(g[i - 1]) + Len(rows[i])
  BY <1>1, BuildsSteps
<1>3. \A i \in 0 .. n : Len(g[i]) <= Len(z)
  BY <1>1, <1>2, BuildsPrefix
<1>4. \A i \in 1 .. n : Placed(g, rows, i)
  BY <1>1, BuildsPlaces
<1>5. IsSeq(z) /\ Len(z) \in Nat
  BY <1>1, <1>2
<1>6. Joint(Header, z, text)
  BY <1>5, HeaderFacts, Joins
<1> DEFINE o == [i \in 0 .. n |-> 8 + Len(g[i])]
<1>7. \A i \in 0 .. n : o[i] = 8 + Len(g[i])
  OBVIOUS
<1> HIDE DEF n, z, text, o
<1>8. /\ IsSeq(text) /\ Len(text) = 8 + Len(z)
      /\ \A i \in 1 .. 8 : text[i] = Header[i]
      /\ \A i \in 1 .. Len(z) : text[8 + i] = z[i]
  BY <1>6, HeaderFacts DEF Joint
<1>9. o[0] = 8 /\ o[n] = Len(text)
  <2>1. 0 \in 0 .. n /\ n \in 0 .. n
    BY <1>2
  <2>2. o[0] = 8 + Len(g[0]) /\ o[n] = 8 + Len(g[n])
    BY <1>7, <2>1
  <2>3. Len(<<>>) = 0
    OBVIOUS
  <2> QED BY <1>1, <1>2, <1>8, <2>2, <2>3 DEF n
<1>10. \A j \in 1 .. 7 : text[j] # Newline
  BY <1>8, HeaderFacts
<1>11. ASSUME NEW i \in 0 .. n - 1
       PROVE  /\ Ended(rows[i + 1]) /\ o[i + 1] = o[i] + Len(rows[i + 1])
              /\ Stands(text, o[i], rows[i + 1])
  <2> DEFINE r == rows[i + 1]
             a == Len(g[i])
  <2>1. i + 1 \in 1 .. n /\ i + 1 \in 0 .. n /\ i \in 0 .. n /\ (i + 1) - 1 = i
    BY <1>2
  <2>2. a \in Nat /\ Len(r) \in Nat /\ Len(g[i + 1]) = a + Len(r)
    <3>1. Len(g[i + 1]) = Len(g[(i + 1) - 1]) + Len(rows[i + 1])
      BY <1>2, <2>1
    <3> QED BY <1>2, <2>1, <3>1
  <2>3. a + Len(r) <= Len(z) /\ \A j \in 1 .. Len(r) : z[a + j] = r[j]
    <3>1. Placed(g, rows, i + 1)
      BY <1>4, <2>1
    <3> QED BY <1>1, <2>1, <3>1 DEF Placed, n
  <2>4. o[i] = 8 + a /\ o[i + 1] = 8 + (a + Len(r))
    BY <1>7, <2>1, <2>2
  <2>5. Ended(r)
    BY <2>1 DEF n
  <2> HIDE DEF r, a
  <2>6. ASSUME NEW j \in 1 .. Len(r) PROVE text[o[i] + j] = r[j]
    <3>1. a + j \in 1 .. Len(z) /\ o[i] + j = 8 + (a + j)
      BY <1>5, <2>2, <2>3, <2>4
    <3> QED BY <1>8, <2>3, <3>1
  <2>7. Stands(text, o[i], r) /\ o[i + 1] = o[i] + Len(r)
    BY <1>5, <1>8, <2>2, <2>3, <2>4, <2>6 DEF Stands
  <2> QED BY <2>5, <2>7 DEF r
<1>12. ASSUME NEW i \in 0 .. n PROVE o[i] \in 8 .. Len(text) /\ text[o[i]] = Newline
  <2>1. o[i] \in 8 .. Len(text)
    <3>1. Len(g[i]) \in Nat /\ Len(g[i]) <= Len(z) /\ o[i] = 8 + Len(g[i])
      BY <1>2, <1>3, <1>7
    <3> QED BY <1>5, <1>8, <3>1
  <2>2. CASE i = 0
    BY <1>8, <1>9, <2>2, HeaderFacts
  <2>3. CASE i # 0
    <3> DEFINE k == i - 1
               r == rows[k + 1]
    <3>1. k \in 0 .. n - 1 /\ k + 1 = i
      BY <1>2, <2>3
    <3>2. Ended(r) /\ o[k + 1] = o[k] + Len(r) /\ Stands(text, o[k], r)
      BY <1>11, <3>1
    <3> HIDE DEF r, k
    <3>3. Len(r) \in 1 .. Len(r) /\ r[Len(r)] = Newline
      BY <3>2, SeqFacts DEF Ended
    <3>4. text[o[k] + Len(r)] = Newline
      BY <3>2, <3>3 DEF Stands
    <3>5. o[i] = o[k] + Len(r)
      BY <3>1, <3>2, Zenon
    <3> QED BY <2>1, <3>4, <3>5, Zenon
  <2> QED BY <2>1, <2>2, <2>3
<1>13. LaidOut(text, rows, o)
  BY <1>8, <1>9, <1>10, <1>11, <1>12 DEF LaidOut, n
<1> QED BY <1>13 DEF text, z

LEMMA ConcatNone == ASSUME NEW a, IsSeq(a) PROVE a \o <<>> = a
<1> DEFINE c == a \o <<>>
<1>1. Joint(a, <<>>, c) /\ Len(<<>>) = 0
  BY SeqOfNone, Joins
<1> HIDE DEF c
<1>2. IsSeq(c) /\ Len(c) = Len(a) /\ \A i \in 1 .. Len(a) : c[i] = a[i]
  BY <1>1 DEF Joint
<1> QED BY <1>2, SeqSame DEF c

LEMMA ConcatOne == ASSUME NEW a, IsSeq(a), NEW e PROVE a \o <<e>> = Append(a, e)
<1> DEFINE x == <<e>>
           c == a \o x
           b == Append(a, e)
<1>0. IsSeq(x) /\ Len(x) = 1 /\ x[1] = e
  BY OneSeq
<1> HIDE DEF x
<1>1. Joint(a, x, c)
  BY <1>0, Joins
<1>2. /\ IsSeq(b) /\ Len(b) = Len(a) + 1 /\ b[Len(a) + 1] = e
      /\ \A i \in 1 .. Len(a) : b[i] = a[i]
  BY AppendFacts
<1> HIDE DEF c, b
<1>3. /\ Len(a) \in Nat /\ IsSeq(c) /\ Len(c) = Len(a) + 1 /\ c[Len(a) + 1] = e
      /\ \A i \in 1 .. Len(a) : c[i] = a[i]
  BY <1>0, <1>1 DEF Joint
<1>4. \A i \in 1 .. Len(c) : c[i] = b[i]
  BY <1>2, <1>3
<1>5. c = b
  BY <1>2, <1>3, <1>4, SeqSame
<1> QED BY <1>5 DEF c, b, x

\* Offsets, one byte after another.
Counts(h, text) ==
    /\ h[0] = <<>> /\ Offsets(text) = h[Len(text) - 1]
    /\ \A k \in 0 .. Len(text) - 2 :
          /\ IsSeq(h[k])
          /\ text[k + 1] # Newline => h[k + 1] = h[k]
          /\ text[k + 1] = Newline => h[k + 1] = Append(h[k], k + 1)

LEMMA OffsetsCount ==
    ASSUME NEW text, IsSeq(text), Len(text) >= 1
    PROVE  \E h : Counts(h, text)
<1> DEFINE m == Len(text) - 1
           d == [at \in 1 .. Len(text) - 1 |-> IF text[at] = Newline THEN <<at>> ELSE <<>>]
<1>1. m \in Nat /\ Len(text) - 2 = m - 1
  BY SeqFacts
<1>2. Offsets(text) = FlattenSeq(d)
  BY DEF Offsets
<1>3. \A i \in 1 .. m : d[i] = IF text[i] = Newline THEN <<i>> ELSE <<>>
  OBVIOUS
<1>4. IsSeq(d) /\ Len(d) = m
  <2>1. d = [i \in 1 .. m |-> d[i]]
    OBVIOUS
  <2> HIDE DEF d, m
  <2> QED BY <1>1, <2>1, MakeSeq
<1> HIDE DEF m, d
<1>5. Seqs(d)
  <2>1. ASSUME NEW i \in 1 .. m PROVE IsSeq(d[i])
    <3>1. IsSeq(<<i>>) /\ IsSeq(<<>>)
      BY OneSeq, SeqOfNone
    <3> QED BY <1>3, <3>1
  <2> QED BY <1>4, <2>1 DEF Seqs
<1>6. PICK h : Builds(h, d) /\ Offsets(text) = h[m]
  BY <1>2, <1>4, <1>5, FlattenBuilds
<1>7. /\ h[0] = <<>> /\ \A i \in 0 .. m : IsSeq(h[i])
      /\ \A i \in 1 .. m : h[i] = h[i - 1] \o d[i]
  BY <1>4, <1>5, <1>6, BuildsSteps
<1>8. ASSUME NEW k \in 0 .. m - 1
      PROVE  /\ IsSeq(h[k])
             /\ text[k + 1] # Newline => h[k + 1] = h[k]
             /\ text[k + 1] = Newline => h[k + 1] = Append(h[k], k + 1)
  <2> DEFINE i == k + 1
  <2>1. i \in 1 .. m /\ i - 1 = k /\ k \in 0 .. m
    BY <1>1
  <2> HIDE DEF i
  <2>2. h[i] = h[k] \o d[i] /\ IsSeq(h[k])
    <3>1. h[i] = h[i - 1] \o d[i]
      BY <1>7, <2>1
    <3> QED BY <1>7, <2>1, <3>1
  <2>3. ASSUME text[i] # Newline PROVE h[i] = h[k]
    <3>1. d[i] = <<>>
      BY <1>3, <2>1, <2>3
    <3>2. h[k] \o <<>> = h[k]
      BY <2>2, ConcatNone
    <3> QED BY <2>2, <3>1, <3>2, Zenon
  <2>4. ASSUME text[i] = Newline PROVE h[i] = Append(h[k], i)
    <3>1. d[i] = <<i>>
      BY <1>3, <2>1, <2>4
    <3>2. h[k] \o <<i>> = Append(h[k], i)
      BY <2>2, ConcatOne
    <3> QED BY <2>2, <3>1, <3>2, Zenon
  <2> QED BY <2>2, <2>3, <2>4 DEF i
<1> QED BY <1>1, <1>6, <1>7, <1>8 DEF Counts, m

\* Without a newline nothing is counted.
LEMMA NoneCounted ==
    ASSUME NEW text, NEW h, Counts(h, text), Len(text) \in Nat, NEW a \in Nat, NEW b \in Nat, a <= b,
           b <= Len(text) - 1, \A j \in a + 1 .. b : text[j] # Newline
    PROVE  h[b] = h[a]
<1> DEFINE T == {k \in Nat : a + k <= b => h[a + k] = h[a]}
<1>1. 0 \in T
  <2>1. a + 0 = a
    OBVIOUS
  <2> QED BY <2>1
<1>2. ASSUME NEW k \in T PROVE k + 1 \in T
  <2>1. k \in Nat /\ k + 1 \in Nat
    OBVIOUS
  <2>2. ASSUME a + (k + 1) <= b PROVE h[a + (k + 1)] = h[a]
    <3> DEFINE p == a + k
    <3>1. p \in 0 .. Len(text) - 2 /\ p + 1 \in a + 1 .. b /\ a + (k + 1) = p + 1 /\ a + k <= b
      BY <2>1, <2>2
    <3>2. h[p] = h[a]
      BY <2>1, <3>1
    <3> HIDE DEF p
    <3>3. h[p + 1] = h[p]
      BY <3>1 DEF Counts
    <3> QED BY <3>1, <3>2, <3>3
  <2> QED BY <2>1, <2>2
<1> HIDE DEF T
<1>3. T = Nat
  BY <1>1, <1>2, SetInduction DEF T
<1> DEFINE c == b - a
<1>4. c \in Nat /\ a + c = b /\ a + c <= b
  OBVIOUS
<1> HIDE DEF c
<1>5. h[a + c] = h[a]
  BY <1>3, <1>4 DEF T
<1> QED BY <1>4, <1>5


\* A line begins where the row before it, or the header, has ended.
LEMMA OffsetsAre ==
    ASSUME NEW text, NEW rows, Len(rows) \in Nat, NEW o, LaidOut(text, rows, o)
    PROVE  Offsets(text) = [i \in 1 .. Len(rows) |-> o[i - 1]]
<1> DEFINE n == Len(rows)
           m == Len(text)
           O == [i \in 1 .. n |-> o[i - 1]]
<1>1. /\ IsSeq(text) /\ n \in Nat /\ m \in Nat /\ o[0] = 8 /\ o[n] = m
      /\ \A i \in 0 .. n : o[i] \in 8 .. m /\ text[o[i]] = Newline
  BY SeqFacts DEF LaidOut
<1>2. m >= 8
  <2>1. o[0] \in 8 .. m
    BY <1>1
  <2> QED BY <1>1, <2>1
<1>3. PICK h : Counts(h, text)
  BY <1>1, <1>2, OffsetsCount
<1>4. IsSeq(O) /\ Len(O) = n
  <2>1. O = [i \in 1 .. n |-> O[i]]
    OBVIOUS
  <2> HIDE DEF O, n
  <2> QED BY <1>1, <2>1, MakeSeq
<1>5. \A i \in 0 .. n - 1 : O[i + 1] = o[i]
  <2>1. \A i \in 0 .. n - 1 : i + 1 \in 1 .. n /\ (i + 1) - 1 = i
    BY <1>1
  <2> QED BY <2>1
<1> HIDE DEF O, m, n
<1> DEFINE T == {i \in Nat : i <= n => h[o[i] - 1] = Pre(O, i)}
<1>6. 0 \in T
  <2>1. \A j \in 1 .. 7 : text[j] # Newline
    BY DEF LaidOut
  <2>2. h[7] = h[0]
    <3>1. /\ Len(text) \in Nat /\ 7 \in Nat /\ 0 \in Nat /\ 0 <= 7 /\ 7 <= Len(text) - 1
          /\ \A j \in 0 + 1 .. 7 : text[j] # Newline
      BY <1>1, <1>2, <2>1 DEF m
    <3> QED BY <1>3, <3>1, NoneCounted
  <2>3. h[0] = <<>> /\ o[0] - 1 = 7
    BY <1>1, <1>3 DEF Counts
  <2> QED BY <1>4, <2>2, <2>3, PreFacts
<1>7. ASSUME NEW i \in T PROVE i + 1 \in T
  <2>1. i \in Nat /\ i + 1 \in Nat
    OBVIOUS
  <2>2. ASSUME i + 1 <= n PROVE h[o[i + 1] - 1] = Pre(O, i + 1)
    <3> DEFINE r == rows[i + 1]
               a == o[i]
               b == o[i + 1]
    <3>1. i \in 0 .. n - 1 /\ i \in 0 .. n /\ i + 1 \in 0 .. n /\ i <= n
      BY <1>1, <2>1, <2>2
    <3>2. Ended(r) /\ b = a + Len(r) /\ Stands(text, a, r)
      BY <3>1 DEF LaidOut, n
    <3>3. a \in 8 .. m /\ b \in 8 .. m /\ text[a] = Newline
      BY <1>1, <3>1
    <3>4. h[a - 1] = Pre(O, i)
      BY <2>1, <3>1
    <3>5. O[i + 1] = a
      BY <1>5, <3>1
    <3> HIDE DEF r, a, b
    <3>6. Len(r) \in Nat /\ Len(r) >= 1
      BY <3>2, SeqFacts DEF Ended
    <3>7. a \in Nat /\ b - 1 \in Nat /\ a <= b - 1 /\ b - 1 <= m - 1 /\ a - 1 \in 0 .. m - 2
      BY <1>1, <3>2, <3>3, <3>6
    <3>8. h[a] = Pre(O, i + 1)
      <4> DEFINE p == a - 1
      <4>1. p \in 0 .. m - 2 /\ p + 1 = a
        BY <3>7
      <4> HIDE DEF p
      <4>2. h[p + 1] = Append(h[p], p + 1)
        BY <1>3, <3>3, <4>1 DEF Counts, m
      <4>3. h[a] = Append(Pre(O, i), O[i + 1])
        BY <3>4, <3>5, <4>1, <4>2 DEF p
      <4>4. Append(Pre(O, i), O[i + 1]) = Pre(O, i + 1)
        BY <1>4, <3>1, PreFacts
      <4> QED BY <4>3, <4>4
    <3>9. ASSUME NEW j \in a + 1 .. b - 1 PROVE text[j] # Newline
      <4> DEFINE k == j - a
      <4>1. k \in 1 .. Len(r) - 1 /\ k \in 1 .. Len(r) /\ a + k = j
        BY <3>2, <3>3, <3>6
      <4> HIDE DEF k
      <4>2. text[a + k] = r[k] /\ r[k] # Newline
        BY <3>2, <4>1 DEF Stands, Ended
      <4> QED BY <4>1, <4>2
    <3>10. h[b - 1] = h[a]
      <4> DEFINE c == b - 1
      <4>1. /\ c \in Nat /\ a <= c /\ c <= Len(text) - 1 /\ a \in Nat /\ Len(text) \in Nat
            /\ \A j \in a + 1 .. c : text[j] # Newline
        BY <1>1, <3>7, <3>9 DEF m
      <4> HIDE DEF c
      <4>2. h[c] = h[a]
        BY <1>3, <4>1, NoneCounted
      <4> QED BY <4>2 DEF c
    <3> QED BY <3>8, <3>10 DEF b
  <2> QED BY <2>1, <2>2
<1> HIDE DEF T
<1>8. T = Nat
  BY <1>6, <1>7, SetInduction DEF T
<1>9. h[o[n] - 1] = Pre(O, n)
  <2>1. n \in Nat /\ n <= n
    BY <1>1
  <2> QED BY <1>8, <2>1 DEF T
<1>10. Offsets(text) = h[m - 1] /\ Pre(O, n) = O
  BY <1>3, <1>4, PreFacts DEF Counts, m
<1> QED BY <1>1, <1>9, <1>10 DEF O, n

LEMMA MinIn == ASSUME NEW S \in SUBSET Nat, S # {} PROVE Min(S) \in S /\ \A x \in S : Min(S) <= x
<1> DEFINE R == {ss \in Nat \X Nat : ss[1] < ss[2]}
<1>1. IsWellFoundedOn(R, Nat)
  BY NatLessThanWellFounded DEF OpToRel
<1> HIDE DEF R
<1>2. PICK x \in S : \A y \in S : ~(<<y, x>> \in R)
  BY <1>1, WFMin
<1>3. ASSUME NEW y \in S PROVE x <= y
  <2>1. SUFFICES ASSUME y < x PROVE FALSE
    OBVIOUS
  <2>2. <<y, x>> \in R
    BY <2>1 DEF R
  <2> QED BY <1>2, <2>2
<1> QED BY <1>3 DEF Min

LEMMA SubSeqFacts ==
    ASSUME NEW s, IsSeq(s), NEW a \in Nat, NEW b \in Nat, a <= b, b <= Len(s)
    PROVE  /\ IsSeq(SubSeq(s, a + 1, b)) /\ Len(SubSeq(s, a + 1, b)) = b - a
           /\ \A i \in 1 .. b - a : SubSeq(s, a + 1, b)[i] = s[a + i]
<1> DEFINE z == SubSeq(s, a + 1, b)
<1>1. s \in Seq(ToSet(s)) /\ Len(s) \in Nat
  BY SeqFacts DEF IsSeq
<1> DEFINE S == ToSet(s)
<1> HIDE DEF S
<1>2. /\ z \in Seq(S) /\ Len(z) = b - a
      /\ \A i \in 1 .. b - a : z[i] = s[a + i]
  BY <1>1 DEF S
<1>3. IsSeq(z)
  BY <1>2, SeqOver
<1> QED BY <1>2, <1>3

\* A line is a row without its newline.
LEMMA LineAtIs ==
    ASSUME NEW text, NEW at, NEW r, IsSeq(text), Ended(r), Stands(text, at, r)
    PROVE  LineAt(text, at) = Pre(r, Len(r) - 1)
<1> DEFINE n == Len(text)
           m == Len(r)
           ends == {i \in at + 1 .. n : text[i] = Newline} \cup {n + 1}
           z == LineAt(text, at)
<1>1. /\ n \in Nat /\ m \in Nat /\ m >= 1 /\ at \in Nat /\ at + m <= n
      /\ \A j \in 1 .. m : text[at + j] = r[j]
      /\ r[m] = Newline /\ \A j \in 1 .. m - 1 : r[j] # Newline
  BY SeqFacts DEF Ended, Stands
<1>2. z = SubSeq(text, at + 1, Min(ends) - 1)
  BY DEF LineAt
<1> HIDE DEF n, m, z
<1>3. ends \in SUBSET Nat /\ ends # {} /\ at + m \in ends
  <2>1. text[at + m] = Newline
    BY <1>1
  <2> QED BY <1>1, <2>1
<1>4. ASSUME NEW i \in ends PROVE at + m <= i
  <2>1. SUFFICES ASSUME i < at + m PROVE FALSE
    BY <1>1
  <2> DEFINE j == i - at
  <2>2. j \in 1 .. m - 1 /\ j \in 1 .. m /\ at + j = i /\ text[i] = Newline
    BY <1>1, <2>1
  <2> HIDE DEF j
  <2>3. text[at + j] = r[j] /\ r[j] # Newline
    BY <1>1, <2>2
  <2> QED BY <2>2, <2>3
<1> HIDE DEF ends
<1>5. Min(ends) = at + m
  <2>1. Min(ends) \in ends /\ \A x \in ends : Min(ends) <= x
    BY <1>3, MinIn
  <2>2. Min(ends) \in Nat
    BY <1>3, <2>1
  <2> QED BY <1>1, <1>3, <1>4, <2>1, <2>2
<1> DEFINE b == at + m - 1
<1>6. b \in Nat /\ at <= b /\ b <= n /\ b - at = m - 1 /\ Min(ends) - 1 = b
  BY <1>1, <1>5
<1> HIDE DEF b
<1>7. /\ IsSeq(z) /\ Len(z) = m - 1
      /\ \A i \in 1 .. m - 1 : z[i] = text[at + i]
  <2>1. at \in Nat /\ b \in Nat /\ at <= b /\ b <= Len(text)
    BY <1>1, <1>6 DEF n
  <2> DEFINE y == SubSeq(text, at + 1, b)
  <2>2. IsSeq(y) /\ Len(y) = b - at /\ \A i \in 1 .. b - at : y[i] = text[at + i]
    BY <2>1, SubSeqFacts
  <2>3. z = y
    BY <1>2, <1>6
  <2> HIDE DEF y
  <2> QED BY <1>6, <2>2, <2>3
<1>8. \A i \in 1 .. m - 1 : z[i] = r[i]
  BY <1>1, <1>7
<1> DEFINE y == Pre(r, m - 1)
<1>9. IsSeq(y) /\ Len(y) = m - 1 /\ \A i \in 1 .. m - 1 : y[i] = r[i]
  <2>1. y = [i \in 1 .. m - 1 |-> y[i]] /\ \A i \in 1 .. m - 1 : y[i] = r[i]
    BY DEF Pre
  <2>2. m - 1 \in Nat
    BY <1>1
  <2> HIDE DEF y
  <2> QED BY <2>1, <2>2, MakeSeq
<1> HIDE DEF y
<1>10. z = y
  BY <1>7, <1>8, <1>9, SeqSame
<1> QED BY <1>10 DEF z, y, m

LEMMA OffsetsFacts ==
    ASSUME NEW text, IsSeq(text)
    PROVE  Offsets(text) \in Seq(1 .. Len(text) - 1)
<1> DEFINE m == Len(text) - 1
           S == 1 .. m
<1>1. Len(text) \in Nat
  BY SeqFacts
<1>2. CASE Len(text) = 0
  <2> DEFINE d == [at \in 1 .. Len(text) - 1 |-> IF text[at] = Newline THEN <<at>> ELSE <<>>]
  <2>1. d = [at \in 1 .. 0 |-> d[at]]
    BY <1>2
  <2>2. Offsets(text) = FlattenSeq(d)
    BY DEF Offsets
  <2> HIDE DEF d
  <2>3. IsSeq(d) /\ Len(d) = 0
    BY <2>1, MakeSeq
  <2>4. d = <<>>
    BY <2>3, SeqFacts
  <2>5. FlattenSeq(d) = <<>>
    BY <2>3, <2>4 DEF FlattenSeq
  <2> QED BY <2>2, <2>5
<1>3. CASE Len(text) # 0
  <2>1. PICK h : Counts(h, text)
    BY <1>1, <1>3, OffsetsCount
  <2>2. m \in Nat /\ Len(text) - 2 = m - 1 /\ Len(text) - 1 = m
    BY <1>1, <1>3
  <2> HIDE DEF m
  <2> DEFINE T == {k \in Nat : k <= m => h[k] \in Seq(S)}
  <2>3. 0 \in T
    <3>1. h[0] = <<>>
      BY <2>1 DEF Counts
    <3> HIDE DEF S
    <3>2. <<>> \in Seq(S)
      OBVIOUS
    <3> QED BY <3>1, <3>2
  <2>4. ASSUME NEW k \in T PROVE k + 1 \in T
    <3>1. k \in Nat /\ k + 1 \in Nat
      OBVIOUS
    <3>2. ASSUME k + 1 <= m PROVE h[k + 1] \in Seq(S)
      <4>1. k \in 0 .. Len(text) - 2 /\ k <= m /\ k + 1 \in S
        BY <2>2, <3>1, <3>2
      <4>2. h[k] \in Seq(S)
        BY <3>1, <4>1
      <4> HIDE DEF S
      <4>3. h[k + 1] = h[k] \/ h[k + 1] = Append(h[k], k + 1)
        BY <2>1, <4>1 DEF Counts
      <4>4. Append(h[k], k + 1) \in Seq(S)
        BY <4>1, <4>2
      <4> QED BY <4>2, <4>3, <4>4
    <3> QED BY <3>1, <3>2
  <2> HIDE DEF T, S
  <2>5. T = Nat
    BY <2>3, <2>4, SetInduction DEF T
  <2>6. h[m] \in Seq(S)
    <3>1. m \in Nat /\ m <= m
      BY <2>2
    <3> QED BY <2>5, <3>1 DEF T
  <2> QED BY <2>1, <2>2, <2>6 DEF Counts, S
<1> QED BY <1>2, <1>3

LEMMA LinesFacts ==
    ASSUME NEW text, IsSeq(text)
    PROVE  /\ IsSeq(Offsets(text)) /\ IsSeq(Lines(text)) /\ Len(Lines(text)) = Len(Offsets(text))
           /\ \A i \in 1 .. Len(Lines(text)) :
                 Lines(text)[i] = LineAt(text, Offsets(text)[i]) /\ IsSeq(Lines(text)[i])
<1> DEFINE w == Offsets(text)
           z == Lines(text)
           n == Len(w)
           m == Len(text)
<1>1. IsSeq(w) /\ n \in Nat /\ DOMAIN w = 1 .. n /\ m \in Nat
  BY OffsetsFacts, SeqOver, SeqFacts
<1>2. ASSUME NEW i \in 1 .. n PROVE w[i] \in 1 .. m - 1
  <2> DEFINE S == 1 .. m - 1
  <2>1. w \in Seq(S)
    BY OffsetsFacts
  <2> HIDE DEF w, S
  <2>2. w[i] \in S
    BY <2>1
  <2> QED BY <2>2 DEF S
<1>3. z = [i \in 1 .. n |-> z[i]] /\ \A i \in 1 .. n : z[i] = LineAt(text, w[i])
  BY <1>1 DEF Lines
<1> HIDE DEF z, w, n
<1>4. IsSeq(z) /\ Len(z) = n
  BY <1>1, <1>3, MakeSeq
<1>5. ASSUME NEW i \in 1 .. n PROVE IsSeq(z[i])
  <2> DEFINE at == w[i]
             ends == {j \in at + 1 .. m : text[j] = Newline} \cup {m + 1}
  <2>1. at \in Nat /\ at <= m - 1
    BY <1>1, <1>2
  <2>2. z[i] = SubSeq(text, at + 1, Min(ends) - 1)
    BY <1>3 DEF LineAt
  <2> HIDE DEF at, m
  <2>3. ends \in SUBSET Nat /\ ends # {} /\ \A x \in ends : at + 1 <= x /\ x <= m + 1
    BY <1>1, <2>1
  <2> HIDE DEF ends
  <2>4. Min(ends) \in ends
    BY <2>3, MinIn
  <2> DEFINE b == Min(ends) - 1
  <2>5. b \in Nat /\ at <= b /\ b <= m
    <3>1. Min(ends) \in Nat /\ at + 1 <= Min(ends) /\ Min(ends) <= m + 1
      BY <2>3, <2>4
    <3> QED BY <1>1, <2>1, <3>1 DEF m
  <2> HIDE DEF b
  <2>6. IsSeq(SubSeq(text, at + 1, b))
    BY <2>1, <2>5, SubSeqFacts DEF m
  <2> QED BY <2>2, <2>6 DEF b
<1> QED BY <1>1, <1>3, <1>4, <1>5 DEF z, w, n

LEMMA LinesAre ==
    ASSUME NEW text, NEW rows, Len(rows) \in Nat, NEW o, LaidOut(text, rows, o)
    PROVE  /\ Len(Lines(text)) = Len(rows)
           /\ \A i \in 1 .. Len(rows) : Lines(text)[i] = Pre(rows[i], Len(rows[i]) - 1)
<1> DEFINE n == Len(rows)
           w == Offsets(text)
<1>1. w = [i \in 1 .. n |-> o[i - 1]] /\ IsSeq(text) /\ n \in Nat
  <2>1. w = [i \in 1 .. n |-> o[i - 1]]
    BY OffsetsAre
  <2> QED BY <2>1 DEF LaidOut
<1> HIDE DEF n, w
<1>2. Len(w) = n
  BY <1>1, MakeSeq
<1>3. ASSUME NEW i \in 1 .. n PROVE LineAt(text, w[i]) = Pre(rows[i], Len(rows[i]) - 1)
  <2> DEFINE k == i - 1
             r == rows[k + 1]
  <2>1. k \in 0 .. n - 1 /\ k + 1 = i /\ w[i] = o[k]
    BY <1>1
  <2>2. Ended(r) /\ Stands(text, o[k], r)
    BY <2>1 DEF LaidOut, n
  <2> HIDE DEF r, k
  <2>3. LineAt(text, o[k]) = Pre(r, Len(r) - 1)
    BY <1>1, <2>2, LineAtIs
  <2> QED BY <2>1, <2>3 DEF r
<1> QED BY <1>1, <1>2, <1>3, LinesFacts DEF n, w

-----------------------------------------------------------------------------
(* Loading                                                                  *)
\* s[i] is what is loaded of the first i lines.
Reading(s, lines) ==
    s = [i \in 0 .. Len(lines) |-> IF i = 0 THEN Got(<<>>, "done") ELSE Add(s[i - 1], lines[i])]

LEMMA LoadedSteps ==
    ASSUME NEW lines, Len(lines) \in Nat
    PROVE  \E s : Reading(s, lines) /\ Loaded(lines) = s[Len(lines)]
<1> DEFINE n == Len(lines)
           Up(h, k) == h = [i \in 0 .. k |-> IF i = 0 THEN Got(<<>>, "done") ELSE Add(h[i - 1], lines[i])]
           T == {k \in Nat : \E h : Up(h, k)}
<1>1. n \in Nat
  OBVIOUS
<1> HIDE DEF n
<1>2. 0 \in T
  <2> DEFINE h == [i \in 0 .. 0 |-> Got(<<>>, "done")]
  <2>1. h = [i \in 0 .. 0 |-> IF i = 0 THEN Got(<<>>, "done") ELSE Add(h[i - 1], lines[i])]
    OBVIOUS
  <2> HIDE DEF h
  <2> QED BY <2>1
<1>3. ASSUME NEW k \in T PROVE k + 1 \in T
  <2>1. PICK h : Up(h, k)
    OBVIOUS
  <2> DEFINE t == [i \in 0 .. k + 1 |-> IF i <= k THEN h[i] ELSE Add(h[k], lines[k + 1])]
  <2>2. ASSUME NEW i \in 0 .. k + 1
        PROVE  t[i] = IF i = 0 THEN Got(<<>>, "done") ELSE Add(t[i - 1], lines[i])
    <3>1. CASE i = k + 1
      <4>1. t[i] = Add(h[k], lines[i]) /\ t[i - 1] = h[k] /\ i # 0
        BY <3>1
      <4> HIDE DEF t
      <4> QED BY <4>1, Zenon
    <3>2. CASE i \in 0 .. k
      <4>1. h[i] = IF i = 0 THEN Got(<<>>, "done") ELSE Add(h[i - 1], lines[i])
        BY <2>1, <3>2
      <4>2. t[i] = h[i] /\ (i # 0 => t[i - 1] = h[i - 1])
        BY <3>2
      <4> HIDE DEF t
      <4> QED BY <4>1, <4>2
    <3> QED BY <3>1, <3>2
  <2>3. t = [i \in 0 .. k + 1 |-> t[i]]
    OBVIOUS
  <2> HIDE DEF t
  <2>4. Up(t, k + 1)
    BY <2>2, <2>3
  <2> HIDE DEF Up
  <2>5. k + 1 \in Nat
    OBVIOUS
  <2> QED BY <2>4, <2>5
<1> HIDE DEF T
<1>4. T = Nat
  BY <1>2, <1>3, SetInduction DEF T
<1>5. \E h : Up(h, n)
  BY <1>1, <1>4 DEF T
<1> DEFINE h == CHOOSE h : Up(h, n)
<1>6. Up(h, n)
  BY <1>5
<1>7. Loaded(lines) = h[n]
  BY DEF Loaded, n
<1> HIDE DEF h
<1> QED BY <1>6, <1>7 DEF Reading, n

LEMMA ReadingStep ==
    ASSUME NEW lines, Len(lines) \in Nat, NEW s, Reading(s, lines)
    PROVE  s[0] = Got(<<>>, "done") /\ \A k \in 0 .. Len(lines) - 1 : s[k + 1] = Add(s[k], lines[k + 1])
<1>1. s[0] = Got(<<>>, "done")
  BY DEF Reading
<1>2. ASSUME NEW k \in 0 .. Len(lines) - 1 PROVE s[k + 1] = Add(s[k], lines[k + 1])
  <2>1. k + 1 \in 0 .. Len(lines) /\ k + 1 # 0 /\ (k + 1) - 1 = k
    OBVIOUS
  <2>2. s[k + 1] = Add(s[(k + 1) - 1], lines[k + 1])
    BY <2>1, Zenon DEF Reading
  <2> QED BY <2>1, <2>2, Zenon
<1> QED BY <1>1, <1>2

LEMMA AddIs ==
    ASSUME NEW l, NEW end, NEW line
    PROVE  LET f == Fields(line)
           IN Add(Got(l, end), line) =
                IF end = "threw" \/ line = <<>> \/ ~Loads(f) THEN Got(l, end)
                ELSE IF Refused(l, Product(f)) THEN Got(l, "threw")
                ELSE Got(Append(l, Product(f)), end)
<1> DEFINE s == Got(l, end)
<1>1. s.list = l /\ s.end = end
  BY DEF Got
<1> HIDE DEF s
<1> QED BY <1>1 DEF Add, s

\* A line that makes of the list a the list b.
Adds(line, a, b) ==
    /\ line # <<>>
    /\ \/ ~Loads(Fields(line)) /\ b = a
       \/ /\ Loads(Fields(line)) /\ ~Refused(a, Product(Fields(line)))
          /\ b = Append(a, Product(Fields(line)))

LEMMA LoadedIs ==
    ASSUME NEW lines, Len(lines) \in Nat, NEW g, g[0] = <<>>,
           \A k \in 0 .. Len(lines) - 1 : Adds(lines[k + 1], g[k], g[k + 1])
    PROVE  Loaded(lines) = Got(g[Len(lines)], "done")
<1> DEFINE n == Len(lines)
<1>1. PICK s : Reading(s, lines) /\ Loaded(lines) = s[n]
  BY LoadedSteps
<1>2. /\ s[0] = Got(<<>>, "done")
      /\ \A k \in 0 .. n - 1 : s[k + 1] = Add(s[k], lines[k + 1])
  BY <1>1, ReadingStep
<1>3. n \in Nat /\ \A k \in 0 .. n - 1 : Adds(lines[k + 1], g[k], g[k + 1])
  OBVIOUS
<1> HIDE DEF n
<1> DEFINE T == {k \in Nat : k <= n => s[k] = Got(g[k], "done")}
<1>4. 0 \in T
  BY <1>2
<1>5. ASSUME NEW k \in T PROVE k + 1 \in T
  <2>1. k \in Nat /\ k + 1 \in Nat
    OBVIOUS
  <2>2. ASSUME k + 1 <= n PROVE s[k + 1] = Got(g[k + 1], "done")
    <3> DEFINE line == lines[k + 1]
    <3>1. k \in 0 .. n - 1 /\ k <= n
      BY <1>3, <2>1, <2>2
    <3>2. s[k + 1] = Add(Got(g[k], "done"), line) /\ Adds(line, g[k], g[k + 1])
      BY <1>2, <1>3, <2>1, <3>1
    <3> HIDE DEF line
    <3>3. CASE ~Loads(Fields(line)) /\ g[k + 1] = g[k]
      <4>1. Add(Got(g[k], "done"), line) = Got(g[k], "done")
        BY <3>3, AddIs
      <4> QED BY <3>2, <3>3, <4>1
    <3>4. CASE /\ Loads(Fields(line)) /\ ~Refused(g[k], Product(Fields(line)))
               /\ g[k + 1] = Append(g[k], Product(Fields(line)))
      <4>1. line # <<>> /\ "done" # "threw"
        BY <3>2 DEF Adds
      <4>2. Add(Got(g[k], "done"), line) = Got(Append(g[k], Product(Fields(line))), "done")
        BY <3>4, <4>1, AddIs
      <4> QED BY <3>2, <3>4, <4>2
    <3> QED BY <3>2, <3>3, <3>4 DEF Adds
  <2> QED BY <2>1, <2>2
<1> HIDE DEF T
<1>6. T = Nat
  BY <1>4, <1>5, SetInduction DEF T
<1>7. n <= n
  BY <1>3
<1> QED BY <1>1, <1>3, <1>6, <1>7 DEF T, n

\* Whatever the line is, its fields are sequences.
LEMMA FieldsAreSeqs ==
    ASSUME NEW line, IsSeq(line)
    PROVE  IsSeq(Fields(line)) /\ \A i \in 1 .. Len(Fields(line)) : IsSeq(Fields(line)[i])
<1> DEFINE n == Len(line)
           Is(x) == \E F, c, w : x = At(F, c, w) /\ Seqs(F) /\ IsSeq(c)
<1>1. n \in Nat
  BY SeqFacts
<1>2. PICK s : Steps(s, line) /\ Fields(line) = Append(s[n].fields, s[n].cur)
  BY <1>1, FieldsSteps
<1>3. s[0] = Opened /\ \A k \in 0 .. n - 1 : s[k + 1] = Taken(line, s[k], k + 1)
  BY <1>1, <1>2, StepIs
<1> HIDE DEF n
<1>4. ASSUME NEW F, Seqs(F), NEW c, IsSeq(c) PROVE Seqs(Append(F, c))
  <2> DEFINE z == Append(F, c)
             m == Len(F)
  <2>1. m \in Nat /\ IsSeq(F) /\ \A i \in 1 .. m : IsSeq(F[i])
    BY <1>4, SeqFacts DEF Seqs
  <2>2. IsSeq(z) /\ Len(z) = m + 1 /\ z[m + 1] = c /\ \A i \in 1 .. m : z[i] = F[i]
    BY <2>1, AppendFacts
  <2> HIDE DEF z, m
  <2>3. ASSUME NEW i \in 1 .. m + 1 PROVE IsSeq(z[i])
    <3>1. i \in 1 .. m \/ i = m + 1
      BY <2>1
    <3> QED BY <1>4, <2>1, <2>2, <3>1
  <2>4. Seqs(z)
    BY <2>2, <2>3 DEF Seqs
  <2> QED BY <2>4 DEF z
<1> DEFINE T == {k \in Nat : k <= n => Is(s[k])}
<1>5. 0 \in T
  <2>1. Seqs(<<>>)
    BY SeqOfNone DEF Seqs
  <2> QED BY <1>3, <2>1, SeqOfNone DEF Opened
<1>6. ASSUME NEW k \in T PROVE k + 1 \in T
  <2>1. k \in Nat /\ k + 1 \in Nat
    OBVIOUS
  <2>2. ASSUME k + 1 <= n PROVE Is(s[k + 1])
    <3>1. k \in 0 .. n - 1 /\ k <= n
      BY <1>1, <2>1, <2>2
    <3>2. PICK F, c, w : s[k] = At(F, c, w) /\ Seqs(F) /\ IsSeq(c)
      BY <2>1, <3>1
    <3> DEFINE x == s[k]
               y == s[k + 1]
    <3>3. x.fields = F /\ x.cur = c /\ x.where = w
      BY <3>2 DEF At
    <3>4. y = Taken(line, x, k + 1)
      BY <1>3, <3>1
    <3> HIDE DEF x, y
    <3>5. \/ \E v : y = At(F, c, v)
          \/ \E v, e : y = At(F, Append(c, e), v)
          \/ \E v : y = At(Append(F, c), <<>>, v)
      <4>1. \/ y = At(F, c, "inside") \/ y = At(F, c, "outside")
            \/ y = At(F, Append(c, Quote), "second") \/ y = At(F, Append(c, line[k + 1]), w)
            \/ y = At(Append(F, c), <<>>, "outside")
        BY <3>3, <3>4 DEF Taken
      <4> QED BY <4>1, Zenon
    <3>6. Seqs(Append(F, c)) /\ IsSeq(<<>>) /\ \A e : IsSeq(Append(c, e))
      BY <1>4, <3>2, AppendFacts, SeqOfNone
    <3>7. Is(y)
      BY <3>2, <3>5, <3>6
    <3> QED BY <3>7 DEF y
  <2> HIDE DEF Is
  <2> QED BY <2>1, <2>2
<1> HIDE DEF T
<1>7. T = Nat
  BY <1>5, <1>6, SetInduction DEF T
<1>8. PICK F, c, w : s[n] = At(F, c, w) /\ Seqs(F) /\ IsSeq(c)
  <2>1. n <= n
    BY <1>1
  <2> QED BY <1>1, <1>7, <2>1 DEF T
<1>9. Fields(line) = Append(F, c)
  BY <1>2, <1>8 DEF At
<1> QED BY <1>4, <1>8, <1>9 DEF Seqs

LEMMA EmptyLine == ~Loads(Fields(<<>>))
<1> DEFINE line == <<>>
<1>1. Len(line) = 0 /\ Len(line) \in Nat
  OBVIOUS
<1> HIDE DEF line
<1>2. PICK s : Steps(s, line) /\ Fields(line) = Append(s[Len(line)].fields, s[Len(line)].cur)
  BY <1>1, FieldsSteps
<1>3. s[0] = At(<<>>, <<>>, "outside")
  BY <1>1, <1>2, StepIs DEF Opened
<1>4. Fields(line) = Append(<<>>, <<>>)
  BY <1>1, <1>2, <1>3 DEF At
<1>5. Len(Fields(line)) = 1
  BY <1>4, SeqOfNone, AppendFacts
<1> QED BY <1>5 DEF Loads, line

LEMMA LoadsProduct ==
    ASSUME NEW line, IsSeq(line), Loads(Fields(line)), NEW l, ~Refused(l, Product(Fields(line)))
    PROVE  IsProduct(Product(Fields(line)))
<1> DEFINE f == Fields(line)
           p == Product(f)
<1>1. Len(f) = 4 /\ IsNumber(f[3]) /\ IsNumber(f[4]) /\ \A i \in 1 .. Len(f) : IsSeq(f[i])
  BY FieldsAreSeqs DEF Loads
<1>2. /\ p = [id |-> p.id, name |-> p.name, price |-> p.price, stock |-> p.stock]
      /\ p.id = f[1] /\ p.name = f[2] /\ p.price = Head(f[3]) /\ p.stock = Head(f[4])
  BY DEF Product
<1>3. p.id # <<>> /\ p.price \notin Negative /\ p.stock \notin Negative
  BY DEF Refused
<1> HIDE DEF f, p
<1>4. IsSeq(f[1]) /\ IsSeq(f[2]) /\ Head(f[3]) \in Number /\ Head(f[4]) \in Number
  BY <1>1 DEF IsNumber
<1>5. IsProduct(p)
  BY <1>2, <1>3, <1>4 DEF IsProduct
<1> QED BY <1>5 DEF p, f

LEMMA ListLonger ==
    ASSUME NEW l, IsList(l), NEW p, IsProduct(p), \A i \in 1 .. Len(l) : l[i].id # p.id
    PROVE  IsList(Append(l, p))
<1> DEFINE z == Append(l, p)
           m == Len(l)
<1>1. /\ IsSeq(l) /\ DOMAIN l = 1 .. m /\ m \in Nat /\ \A i \in 1 .. m : IsProduct(l[i])
      /\ \A i, j \in 1 .. m : l[i].id = l[j].id => i = j
  BY SeqFacts DEF IsList
<1>2. IsSeq(z) /\ Len(z) = m + 1 /\ z[m + 1] = p /\ \A i \in 1 .. m : z[i] = l[i]
  BY <1>1, AppendFacts
<1>3. \A i \in 1 .. m : l[i].id # p.id
  OBVIOUS
<1> HIDE DEF z, m
<1>4. DOMAIN z = 1 .. m + 1
  BY <1>2, SeqFacts
<1>5. \A i \in 1 .. m + 1 : IsProduct(z[i])
  BY <1>1, <1>2
<1>6. ASSUME NEW i \in 1 .. m + 1, NEW j \in 1 .. m + 1, z[i].id = z[j].id PROVE i = j
  BY <1>1, <1>2, <1>3, <1>6
<1>7. IsList(z)
  BY <1>2, <1>4, <1>5, <1>6 DEF IsList
<1> QED BY <1>7 DEF z

\* What is loaded is a list as an inventory holds it, with a product of every
\* line if and only if every line passes csv validate.
LoadedWell(lines, k, l, end) ==
    /\ IsList(l) /\ Len(l) <= k
    /\ end # "threw" => (Len(l) = k <=> \A i \in 1 .. k : Loads(Fields(lines[i])))

LEMMA LoadedFacts ==
    ASSUME NEW lines, Seqs(lines)
    PROVE  \E l, end : Loaded(lines) = Got(l, end) /\ LoadedWell(lines, Len(lines), l, end)
<1> DEFINE n == Len(lines)
<1>1. n \in Nat /\ \A i \in 1 .. n : IsSeq(lines[i])
  BY SeqFacts DEF Seqs
<1>2. PICK s : Reading(s, lines) /\ Loaded(lines) = s[n]
  BY <1>1, LoadedSteps
<1>3. s[0] = Got(<<>>, "done") /\ \A k \in 0 .. n - 1 : s[k + 1] = Add(s[k], lines[k + 1])
  BY <1>1, <1>2, ReadingStep
<1> HIDE DEF n
<1> DEFINE T == {k \in Nat : k <= n => \E l, end : s[k] = Got(l, end) /\ LoadedWell(lines, k, l, end)}
<1>4. 0 \in T
  <2>1. IsList(<<>>)
    BY SeqOfNone DEF IsList
  <2>2. LoadedWell(lines, 0, <<>>, "done")
    BY <2>1 DEF LoadedWell
  <2> QED BY <1>3, <2>2
<1>5. ASSUME NEW k \in T PROVE k + 1 \in T
  <2>1. k \in Nat /\ k + 1 \in Nat
    OBVIOUS
  <2>2. ASSUME k + 1 <= n PROVE \E l, end : s[k + 1] = Got(l, end) /\ LoadedWell(lines, k + 1, l, end)
    <3> DEFINE line == lines[k + 1]
               f == Fields(line)
               p == Product(f)
    <3>1. k \in 0 .. n - 1 /\ k <= n /\ IsSeq(line)
      BY <1>1, <2>1, <2>2
    <3>2. PICK l, end : s[k] = Got(l, end) /\ LoadedWell(lines, k, l, end)
      BY <2>1, <3>1
    <3>3. s[k + 1] = Add(Got(l, end), line)
      BY <1>3, <3>1, <3>2
    <3>4. IsList(l) /\ IsSeq(l) /\ Len(l) \in Nat /\ DOMAIN l = 1 .. Len(l) /\ Len(l) <= k
      BY <3>2, SeqFacts DEF LoadedWell, IsList
    <3>5. \A i \in 1 .. k + 1 : i \in 1 .. k \/ i = k + 1
      BY <2>1
    <3>6. line = <<>> => ~Loads(f)
      BY EmptyLine
    <3>7. CASE end = "threw" \/ ~Loads(f)
      <4>1. s[k + 1] = Got(l, end)
        BY <3>3, <3>7, AddIs
      <4>2. k + 1 \in 1 .. k + 1 /\ Len(l) # k + 1 /\ Len(l) <= k + 1
        <5> DEFINE m == Len(l)
        <5>1. m \in Nat /\ m <= k
          BY <3>4
        <5> HIDE DEF m
        <5>2. k + 1 \in 1 .. k + 1 /\ m # k + 1 /\ m <= k + 1
          BY <2>1, <5>1
        <5> QED BY <5>2 DEF m
      <4>3. LoadedWell(lines, k + 1, l, end)
        BY <3>4, <3>7, <4>2 DEF LoadedWell
      <4> QED BY <4>1, <4>3
    <3>8. CASE end # "threw" /\ Loads(f) /\ Refused(l, p)
      <4>1. s[k + 1] = Got(l, "threw")
        BY <3>3, <3>6, <3>8, AddIs
      <4>2. LoadedWell(lines, k + 1, l, "threw")
        BY <2>1, <3>4 DEF LoadedWell
      <4> QED BY <4>1, <4>2
    <3>9. CASE end # "threw" /\ Loads(f) /\ ~Refused(l, p)
      <4> DEFINE z == Append(l, p)
      <4>1. s[k + 1] = Got(z, end)
        BY <3>3, <3>6, <3>9, AddIs
      <4>2. IsList(z)
        <5>1. \A i \in 1 .. Len(l) : l[i].id # p.id
          BY <3>4, <3>9 DEF Refused
        <5>2. IsProduct(p)
          BY <3>1, <3>9, LoadsProduct
        <5> HIDE DEF p
        <5> QED BY <3>4, <5>1, <5>2, ListLonger
      <4>3. Len(z) = Len(l) + 1
        BY <3>4, AppendFacts
      <4> HIDE DEF z
      <4>4. (Len(l) = k) = (Len(z) = k + 1) /\ Len(z) <= k + 1
        <5> DEFINE m == Len(l)
                   t == Len(z)
        <5>1. m \in Nat /\ m <= k /\ t = m + 1
          BY <3>4, <4>3
        <5> HIDE DEF m, t
        <5>2. (m = k) = (t = k + 1) /\ t <= k + 1
          BY <2>1, <5>1
        <5> QED BY <5>2 DEF m, t
      <4>5. (\A i \in 1 .. k + 1 : Loads(Fields(lines[i]))) <=> (\A i \in 1 .. k : Loads(Fields(lines[i])))
        <5>1. \A i \in 1 .. k : i \in 1 .. k + 1
          BY <2>1
        <5> QED BY <3>5, <3>9, <5>1
      <4>6. Len(l) = k <=> \A i \in 1 .. k : Loads(Fields(lines[i]))
        BY <3>2, <3>9 DEF LoadedWell
      <4>7. LoadedWell(lines, k + 1, z, end)
        BY <4>2, <4>4, <4>5, <4>6 DEF LoadedWell
      <4> QED BY <4>1, <4>7
    <3> QED BY <3>7, <3>8, <3>9
  <2> QED BY <2>1, <2>2
<1> HIDE DEF T
<1>6. T = Nat
  BY <1>4, <1>5, SetInduction DEF T
<1>7. n <= n
  BY <1>1
<1> QED BY <1>1, <1>2, <1>6, <1>7 DEF T, n

-----------------------------------------------------------------------------
(* Rows                                                                     *)
\* What is in sequences put together is in one of them.
LEMMA ElementsOf ==
    ASSUME NEW ss, Seqs(ss), NEW S, \A i \in 1 .. Len(ss) : \A j \in 1 .. Len(ss[i]) : ss[i][j] \in S
    PROVE  IsSeq(FlattenSeq(ss)) /\ \A j \in 1 .. Len(FlattenSeq(ss)) : FlattenSeq(ss)[j] \in S
<1> DEFINE n == Len(ss)
           Over(x) == \A j \in 1 .. Len(x) : x[j] \in S
<1>1. PICK g : Builds(g, ss) /\ FlattenSeq(ss) = g[n]
  BY FlattenBuilds
<1>2. /\ n \in Nat /\ g[0] = <<>>
      /\ \A i \in 0 .. n : IsSeq(g[i]) /\ Len(g[i]) \in Nat
      /\ \A i \in 1 .. n : IsSeq(ss[i]) /\ g[i] = g[i - 1] \o ss[i]
  BY <1>1, BuildsSteps
<1>3. \A i \in 1 .. n : Over(ss[i])
  OBVIOUS
<1> HIDE DEF n
<1>4. ASSUME NEW a, IsSeq(a), Over(a), NEW b, IsSeq(b), Over(b) PROVE Over(a \o b)
  <2> DEFINE c == a \o b
  <2>1. Joint(a, b, c)
    BY <1>4, Joins
  <2> HIDE DEF c
  <2>2. ASSUME NEW j \in 1 .. Len(c) PROVE c[j] \in S
    <3>1. Len(a) \in Nat /\ Len(b) \in Nat /\ Len(c) = Len(a) + Len(b)
      BY <2>1 DEF Joint
    <3>2. CASE j <= Len(a)
      <4>1. j \in 1 .. Len(a)
        BY <3>1, <3>2
      <4> QED BY <1>4, <2>1, <4>1 DEF Joint
    <3>3. CASE ~(j <= Len(a))
      <4> DEFINE k == j - Len(a)
      <4>1. k \in 1 .. Len(b) /\ Len(a) + k = j
        BY <3>1, <3>3
      <4> HIDE DEF k
      <4>2. c[Len(a) + k] = b[k]
        BY <2>1, <4>1 DEF Joint
      <4> QED BY <1>4, <4>1, <4>2
    <3> QED BY <3>2, <3>3
  <2> QED BY <2>2 DEF c
<1> HIDE DEF Over
<1> DEFINE T == {k \in Nat : k <= n => Over(g[k])}
<1>5. 0 \in T
  BY <1>2 DEF Over
<1>6. ASSUME NEW k \in T PROVE k + 1 \in T
  <2>1. k \in Nat /\ k + 1 \in Nat
    OBVIOUS
  <2>2. ASSUME k + 1 <= n PROVE Over(g[k + 1])
    <3> DEFINE i == k + 1
    <3>1. k <= n /\ k \in 0 .. n /\ i \in 1 .. n /\ i - 1 = k
      BY <1>2, <2>1, <2>2
    <3> HIDE DEF i
    <3>2. g[i] = g[i - 1] \o ss[i]
      BY <1>2, <3>1
    <3>3. g[i] = g[k] \o ss[i] /\ IsSeq(g[k]) /\ IsSeq(ss[i]) /\ Over(ss[i]) /\ Over(g[k])
      BY <1>2, <1>3, <2>1, <3>1, <3>2
    <3>4. Over(g[i])
      BY <1>4, <3>3
    <3> QED BY <3>4 DEF i
  <2> QED BY <2>1, <2>2
<1> HIDE DEF T
<1>7. T = Nat
  BY <1>5, <1>6, SetInduction DEF T
<1>8. n <= n /\ n \in 0 .. n
  BY <1>2
<1>9. Over(g[n]) /\ IsSeq(g[n])
  BY <1>2, <1>7, <1>8 DEF T
<1> QED BY <1>1, <1>9 DEF Over

LEMMA EscapedKeepsLines ==
    ASSUME NEW f, IsSeq(f), Newline \notin ToSet(f)
    PROVE  Newline \notin ToSet(Escaped(f))
<1> DEFINE m == Len(f)
           S == {Quote} \cup ToSet(f)
           d == [i \in DOMAIN f |-> IF f[i] = Quote THEN <<Quote, Quote>> ELSE <<f[i]>>]
           z == FlattenSeq(d)
           q == <<Quote>>
           b == q \o z
           e == b \o q
<1>1. CASE Plain(f)
  BY <1>1 DEF Escaped
<1>2. CASE ~Plain(f)
  <2>1. Escaped(f) = e
    BY <1>2 DEF Escaped
  <2>2. m \in Nat /\ DOMAIN f = 1 .. m /\ \A i \in 1 .. m : f[i] \in ToSet(f)
    BY SeqFacts
  <2>3. \A i \in 1 .. m : d[i] = IF f[i] = Quote THEN <<Quote, Quote>> ELSE <<f[i]>>
    BY <2>2
  <2>4. IsSeq(d) /\ Len(d) = m
    <3>1. d = [i \in 1 .. m |-> d[i]]
      BY <2>2
    <3> HIDE DEF d, m
    <3> QED BY <2>2, <3>1, MakeSeq
  <2>5. Quote \in S /\ \A i \in 1 .. m : f[i] \in S
    BY <2>2
  <2> HIDE DEF m, d, z, S
  <2>6. ASSUME NEW i \in 1 .. m PROVE IsSeq(d[i]) /\ \A j \in 1 .. Len(d[i]) : d[i][j] \in S
    <3>1. CASE f[i] = Quote
      <4>1. d[i] = <<Quote, Quote>>
        BY <2>3, <3>1
      <4>2. \A j \in 1 .. 2 : j = 1 \/ j = 2
        OBVIOUS
      <4> QED BY <2>5, <4>1, <4>2, TwoSeq
    <3>2. CASE f[i] # Quote
      <4>1. d[i] = <<f[i]>>
        BY <2>3, <3>2
      <4>2. \A j \in 1 .. 1 : j = 1
        OBVIOUS
      <4> QED BY <2>5, <4>1, <4>2, OneSeq
    <3> QED BY <3>1, <3>2
  <2>7. Seqs(d)
    BY <2>4, <2>6 DEF Seqs
  <2>8. IsSeq(z) /\ \A j \in 1 .. Len(z) : z[j] \in S
    BY <2>4, <2>6, <2>7, ElementsOf DEF z
  <2>9. IsSeq(q) /\ Len(q) = 1 /\ q[1] = Quote
    BY OneSeq
  <2> HIDE DEF q
  <2>10. \A j \in 1 .. Len(q) : q[j] \in S
    <3>1. \A j \in 1 .. 1 : j = 1
      OBVIOUS
    <3> QED BY <2>5, <2>9, <3>1
  <2>11. ASSUME NEW x, IsSeq(x), NEW y, IsSeq(y), \A j \in 1 .. Len(x) : x[j] \in S,
                \A j \in 1 .. Len(y) : y[j] \in S
         PROVE  IsSeq(x \o y) /\ \A j \in 1 .. Len(x \o y) : (x \o y)[j] \in S
    <3> DEFINE c == x \o y
    <3>1. x \in Seq(ToSet(x)) /\ y \in Seq(ToSet(y))
      BY <2>11 DEF IsSeq
    <3>2. ToSet(x) \subseteq S /\ ToSet(y) \subseteq S
      BY <2>11, SeqFacts
    <3>3. c \in Seq(S)
      BY <3>1, <3>2
    <3> HIDE DEF c
    <3>4. \A j \in 1 .. Len(c) : c[j] \in S
      BY <3>3
    <3> QED BY <3>3, <3>4, SeqOver DEF c
  <2>12. IsSeq(b) /\ \A j \in 1 .. Len(b) : b[j] \in S
    BY <2>8, <2>9, <2>10, <2>11
  <2> HIDE DEF b
  <2>13. IsSeq(e) /\ \A j \in 1 .. Len(e) : e[j] \in S
    BY <2>9, <2>10, <2>11, <2>12
  <2> HIDE DEF e
  <2>14. Newline \notin S
    BY Signs DEF S
  <2> QED BY <2>1, <2>13, <2>14, SeqFacts
<1> QED BY <1>1, <1>2

\* Product p in a row, behind the texts x and y.
RowOk(r, x, y, p) ==
    /\ Ended(r) /\ Len(r) = Len(x) + Len(y) + 6
    /\ RowShape(Pre(r, Len(r) - 1), x, y, Printed(p.price), p.stock)

LEMMA RowParts ==
    ASSUME NEW x, IsSeq(x), Newline \notin ToSet(x), NEW y, IsSeq(y), Newline \notin ToSet(y),
           NEW p, Printed(p.price) \in Number, p.stock \in Number
    PROVE  RowOk(Row(x, y, p), x, y, p)
<1> DEFINE a == Len(x)
           b == Len(y)
           pr == Printed(p.price)
           st == p.stock
           q == <<Comma>>
           t == <<Comma, pr, Comma, st, Newline>>
           u == x \o q
           v == u \o y
           r == v \o t
           n == Len(r) - 1
           z == Pre(r, n)
<1>1. Row(x, y, p) = r
  BY DEF Row
<1>2. /\ a \in Nat /\ b \in Nat
      /\ \A i \in 1 .. a : x[i] # Newline
      /\ \A i \in 1 .. b : y[i] # Newline
  BY SeqFacts
<1>3. pr # Newline /\ st # Newline /\ Comma # Newline
  BY RowsAssumption, Signs
<1>4. IsSeq(q) /\ Len(q) = 1 /\ q[1] = Comma
  BY OneSeq
<1>5. IsSeq(t) /\ Len(t) = 5 /\ t[1] = Comma /\ t[2] = pr /\ t[3] = Comma /\ t[4] = st /\ t[5] = Newline
  <2>1. t = [i \in 1 .. 5 |-> t[i]] /\ t[1] = Comma /\ t[2] = pr /\ t[3] = Comma /\ t[4] = st /\ t[5] = Newline
    OBVIOUS
  <2> HIDE DEF t
  <2> QED BY <2>1, MakeSeq
<1> HIDE DEF a, b, pr, st, q, t
<1>6. /\ IsSeq(u) /\ Len(u) = a + 1 /\ u[a + 1] = Comma
      /\ \A i \in 1 .. a : u[i] = x[i]
  <2>1. Joint(x, q, u)
    BY <1>4, Joins
  <2> HIDE DEF u
  <2> QED BY <1>4, <2>1 DEF Joint, a
<1> HIDE DEF u
<1>7. /\ IsSeq(v) /\ Len(v) = a + 1 + b
      /\ \A i \in 1 .. a + 1 : v[i] = u[i]
      /\ \A i \in 1 .. b : v[a + 1 + i] = y[i]
  <2>1. Joint(u, y, v)
    BY <1>6, Joins
  <2> HIDE DEF v
  <2> QED BY <1>6, <2>1 DEF Joint, b
<1> HIDE DEF v
<1>8. /\ IsSeq(r) /\ Len(r) = a + 1 + b + 5
      /\ \A i \in 1 .. a + 1 + b : r[i] = v[i]
      /\ \A i \in 1 .. 5 : r[a + 1 + b + i] = t[i]
  <2>1. Joint(v, t, r)
    BY <1>5, <1>7, Joins
  <2> HIDE DEF r
  <2> QED BY <1>5, <1>7, <2>1 DEF Joint
<1> HIDE DEF r
<1>9. n = a + b + 5 /\ n \in Nat /\ Len(r) = n + 1
  BY <1>2, <1>8
<1> HIDE DEF n
<1>10. \A i \in 1 .. a : r[i] = x[i]
  <2>1. \A i \in 1 .. a : i \in 1 .. a + 1 /\ i \in 1 .. a + 1 + b
    BY <1>2
  <2> QED BY <1>6, <1>7, <1>8, <2>1
<1>11. r[a + 1] = Comma
  <2>1. a + 1 \in 1 .. a + 1 /\ a + 1 \in 1 .. a + 1 + b
    BY <1>2
  <2> QED BY <1>6, <1>7, <1>8, <2>1
<1>12. \A i \in 1 .. b : r[a + 1 + i] = y[i]
  <2>1. \A i \in 1 .. b : a + 1 + i \in 1 .. a + 1 + b
    BY <1>2
  <2> QED BY <1>7, <1>8, <2>1
<1>13. /\ r[a + b + 2] = Comma /\ r[a + b + 3] = pr /\ r[a + b + 4] = Comma
       /\ r[a + b + 5] = st /\ r[a + b + 6] = Newline
  <2>1. /\ a + 1 + b + 1 = a + b + 2 /\ a + 1 + b + 2 = a + b + 3 /\ a + 1 + b + 3 = a + b + 4
        /\ a + 1 + b + 4 = a + b + 5 /\ a + 1 + b + 5 = a + b + 6
    BY <1>2
  <2>2. /\ r[a + 1 + b + 1] = Comma /\ r[a + 1 + b + 2] = pr /\ r[a + 1 + b + 3] = Comma
        /\ r[a + 1 + b + 4] = st /\ r[a + 1 + b + 5] = Newline
    BY <1>5, <1>8
  <2> QED BY <2>1, <2>2
<1>14. Ended(r)
  <2>1. ASSUME NEW j \in 1 .. n PROVE r[j] # Newline
    <3>1. CASE j \in 1 .. a
      BY <1>2, <1>10, <3>1
    <3>2. CASE j \in a + 2 .. a + 1 + b
      <4> DEFINE k == j - (a + 1)
      <4>1. k \in 1 .. b /\ a + 1 + k = j
        BY <1>2, <3>2
      <4> HIDE DEF k
      <4> QED BY <1>2, <1>12, <4>1
    <3>3. CASE j \in {a + 1, a + b + 2, a + b + 3, a + b + 4, a + b + 5}
      BY <1>3, <1>11, <1>13, <3>3
    <3>4. \/ j \in 1 .. a \/ j \in a + 2 .. a + 1 + b
          \/ j \in {a + 1, a + b + 2, a + b + 3, a + b + 4, a + b + 5}
      BY <1>2, <1>9
    <3> QED BY <3>1, <3>2, <3>3, <3>4
  <2>2. Len(r) >= 1 /\ Len(r) - 1 = n /\ Len(r) = a + b + 6
    BY <1>2, <1>9
  <2> QED BY <1>8, <1>13, <2>1, <2>2 DEF Ended
<1>15. IsSeq(z) /\ Len(z) = n /\ \A i \in 1 .. n : z[i] = r[i]
  <2>1. z = [i \in 1 .. n |-> z[i]] /\ \A i \in 1 .. n : z[i] = r[i]
    BY DEF Pre
  <2> HIDE DEF z
  <2> QED BY <1>9, <2>1, MakeSeq
<1> HIDE DEF z
<1>16. RowShape(z, x, y, pr, st)
  <2>1. Stands(z, 0, x)
    <3>1. \A j \in 1 .. a : 0 + j = j /\ j \in 1 .. n
      BY <1>2, <1>9
    <3>2. 0 + a <= n
      BY <1>2, <1>9
    <3> QED BY <1>10, <1>15, <3>1, <3>2 DEF Stands, a
  <2>2. Stands(z, a + 1, y)
    <3>1. \A j \in 1 .. b : a + 1 + j \in 1 .. n
      BY <1>2, <1>9
    <3>2. a + 1 \in Nat /\ a + 1 + b <= n
      BY <1>2, <1>9
    <3> QED BY <1>12, <1>15, <3>1, <3>2 DEF Stands, b
  <2>3. {a + 1, a + b + 2, a + b + 3, a + b + 4, a + b + 5} \subseteq 1 .. n
    BY <1>2, <1>9
  <2> QED BY <1>9, <1>11, <1>13, <1>15, <2>1, <2>2, <2>3 DEF RowShape, a, b
<1>17. Len(r) = a + b + 6 /\ Len(r) - 1 = n
  BY <1>2, <1>9
<1> QED BY <1>1, <1>14, <1>16, <1>17 DEF RowOk, z, a, b, pr, st

\* The texts X[i] and Y[i] stand for the id and the name of the i-th product.
Written(text, l, X, Y) ==
    \E rows : /\ IsSeq(rows) /\ Len(rows) = Len(l) /\ text = Header \o FlattenSeq(rows)
              /\ \A i \in 1 .. Len(l) : rows[i] = Row(X[i], Y[i], l[i])
OfLines(l, X, Y) ==
    \A i \in 1 .. Len(l) : /\ IsSeq(X[i]) /\ Newline \notin ToSet(X[i])
                           /\ IsSeq(Y[i]) /\ Newline \notin ToSet(Y[i])

\* Every row is a line.
LEMMA WrittenLines ==
    ASSUME NEW l, IsList(l), NEW X, NEW Y, OfLines(l, X, Y), NEW text, Written(text, l, X, Y)
    PROVE  /\ IsSeq(text) /\ Len(Lines(text)) = Len(l)
           /\ \A i \in 1 .. Len(l) : RowShape(Lines(text)[i], X[i], Y[i], Printed(l[i].price), l[i].stock)
<1> DEFINE n == Len(l)
<1>1. /\ n \in Nat /\ DOMAIN l = 1 .. n
      /\ \A i \in 1 .. n : Printed(l[i].price) \in Number /\ l[i].stock \in Number
  BY RowsAssumption, SeqFacts DEF IsList, IsProduct
<1>2. PICK rows : /\ IsSeq(rows) /\ Len(rows) = n /\ text = Header \o FlattenSeq(rows)
                  /\ \A i \in 1 .. n : rows[i] = Row(X[i], Y[i], l[i])
  BY DEF Written
<1> HIDE DEF n
<1>3. ASSUME NEW i \in 1 .. n PROVE RowOk(rows[i], X[i], Y[i], l[i])
  BY <1>1, <1>2, RowParts DEF OfLines, n
<1>4. Seqs(rows) /\ \A i \in 1 .. n : Ended(rows[i])
  BY <1>2, <1>3 DEF RowOk, Ended, Seqs
<1>5. PICK o : LaidOut(text, rows, o)
  BY <1>2, <1>4, Layout
<1>6. Len(Lines(text)) = n /\ \A i \in 1 .. n : Lines(text)[i] = Pre(rows[i], Len(rows[i]) - 1)
  BY <1>1, <1>2, <1>5, LinesAre
<1> QED BY <1>3, <1>5, <1>6 DEF LaidOut, RowOk, n

\* What a load makes of such a text, product by product: K[i] is what it takes
\* of the i-th row, nothing or the product under the name N[i].
Copied(l, X, Y, N, K) ==
    /\ Seqs(K) /\ Len(K) = Len(l)
    /\ \A i \in 1 .. Len(l) :
          /\ IsSeq(N[i]) /\ Reads(Y[i], N[i])
          /\ \/ /\ K[i] = <<[id |-> l[i].id, name |-> N[i], price |-> Printed(l[i].price), stock |-> l[i].stock]>>
                /\ Reads(X[i], l[i].id)
             \/ K[i] = <<>> /\ Quote \notin ToSet(X[i]) /\ Comma \in ToSet(X[i])

\* The products loaded of the first rows are among these rows.
LEMMA CopiedIds ==
    ASSUME NEW l, Len(l) \in Nat, NEW X, NEW Y, NEW N, NEW K, Copied(l, X, Y, N, K), NEW g, Builds(g, K),
           NEW k \in 0 .. Len(l)
    PROVE  \A j \in 1 .. Len(g[k]) : \E i \in 1 .. k : g[k][j].id = l[i].id
<1> DEFINE n == Len(l)
           From(x) == \A j \in 1 .. Len(g[x]) : \E i \in 1 .. x : g[x][j].id = l[i].id
           T == {x \in Nat : x <= n => From(x)}
<1>1. /\ n \in Nat /\ g[0] = <<>>
      /\ \A i \in 0 .. n : IsSeq(g[i]) /\ Len(g[i]) \in Nat
      /\ \A i \in 1 .. n : g[i] = g[i - 1] \o K[i]
  BY BuildsSteps DEF Copied
<1> HIDE DEF n
<1>2. 0 \in T
  BY <1>1
<1>3. ASSUME NEW x \in T PROVE x + 1 \in T
  <2>1. x \in Nat /\ x + 1 \in Nat
    OBVIOUS
  <2>2. ASSUME x + 1 <= n PROVE From(x + 1)
    <3> DEFINE y == x + 1
               a == g[x]
               b == g[y]
    <3>1. x <= n /\ x \in 0 .. n /\ y \in 1 .. n /\ y - 1 = x
      BY <1>1, <2>1, <2>2
    <3>2. \A i \in 1 .. x : i \in 1 .. y
      BY <2>1
    <3>3. From(x)
      BY <2>1, <3>1
    <3>4. y \in 1 .. y
      BY <2>1
    <3> HIDE DEF y
    <3>5. g[y] = g[x] \o K[y] /\ IsSeq(g[x])
      <4>1. g[y] = g[y - 1] \o K[y]
        BY <1>1, <3>1
      <4> QED BY <1>1, <3>1, <4>1
    <3>6. K[y] = <<>> \/ \E p : K[y] = <<p>> /\ p.id = l[y].id
      <4> DEFINE p == [id |-> l[y].id, name |-> N[y], price |-> Printed(l[y].price), stock |-> l[y].stock]
      <4>1. p.id = l[y].id
        OBVIOUS
      <4>2. K[y] = <<>> \/ K[y] = <<p>>
        BY <3>1 DEF Copied, n
      <4> HIDE DEF p
      <4> QED BY <4>1, <4>2
    <3>7. \A j \in 1 .. Len(a) : \E i \in 1 .. y : a[j].id = l[i].id
      BY <3>2, <3>3
    <3> HIDE DEF a, b
    <3>8. CASE K[y] = <<>>
      <4>1. b = a
        BY <3>5, <3>8, ConcatNone DEF a, b
      <4> QED BY <3>7, <4>1 DEF b, y
    <3>9. CASE \E p : K[y] = <<p>> /\ p.id = l[y].id
      <4>1. PICK p : K[y] = <<p>> /\ p.id = l[y].id
        BY <3>9
      <4>2. b = Append(a, p)
        <5>1. a \o <<p>> = Append(a, p)
          BY <3>5, ConcatOne DEF a
        <5> QED BY <3>5, <4>1, <5>1, Zenon DEF a, b
      <4>3. IsSeq(a) /\ Len(a) \in Nat
        BY <1>1, <3>1 DEF a
      <4>4. Len(b) = Len(a) + 1 /\ b[Len(a) + 1] = p /\ \A j \in 1 .. Len(a) : b[j] = a[j]
        BY <4>2, <4>3, AppendFacts
      <4>5. \A j \in 1 .. Len(b) : j \in 1 .. Len(a) \/ j = Len(a) + 1
        BY <4>3, <4>4
      <4>6. \A j \in 1 .. Len(b) : \E i \in 1 .. y : b[j].id = l[i].id
        BY <3>4, <3>7, <4>1, <4>4, <4>5
      <4> QED BY <4>6 DEF b, y
    <3> QED BY <3>6, <3>8, <3>9
  <2> QED BY <2>1, <2>2
<1> HIDE DEF T, From
<1>4. T = Nat
  BY <1>2, <1>3, SetInduction DEF T
<1>5. k \in Nat /\ k <= n
  BY <1>1 DEF n
<1>6. From(k)
  BY <1>4, <1>5 DEF T
<1> QED BY <1>6 DEF From

\* The load takes of each row what it should, and nothing else.
LEMMA CopyLoads ==
    ASSUME NEW l, IsList(l), NEW X, NEW Y, OfLines(l, X, Y), NEW text, Written(text, l, X, Y),
           NEW N, NEW K, Copied(l, X, Y, N, K)
    PROVE  Load(text) = Got(FlattenSeq(K), "done")
<1> DEFINE n == Len(l)
           lines == Lines(text)
           rec(i) == [id |-> l[i].id, name |-> N[i], price |-> Printed(l[i].price), stock |-> l[i].stock]
<1>1. /\ n \in Nat /\ DOMAIN l = 1 .. n
      /\ \A i \in 1 .. n : IsProduct(l[i])
      /\ \A i, j \in 1 .. n : l[i].id = l[j].id => i = j
  BY SeqFacts DEF IsList
<1>2. /\ IsSeq(text) /\ Len(lines) = n
      /\ \A i \in 1 .. n : RowShape(lines[i], X[i], Y[i], Printed(l[i].price), l[i].stock)
  BY WrittenLines
<1>3. Seqs(K) /\ Len(K) = n
  BY DEF Copied
<1>4. PICK g : Builds(g, K) /\ FlattenSeq(K) = g[n]
  BY <1>3, FlattenBuilds
<1>5. /\ g[0] = <<>>
      /\ \A i \in 0 .. n : IsSeq(g[i]) /\ Len(g[i]) \in Nat
      /\ \A i \in 1 .. n : g[i] = g[i - 1] \o K[i]
  <2> DEFINE m == Len(K)
  <2>1. /\ g[0] = <<>>
        /\ \A i \in 0 .. m : IsSeq(g[i]) /\ Len(g[i]) \in Nat
        /\ \A i \in 1 .. m : g[i] = g[i - 1] \o K[i]
    BY <1>3, <1>4, BuildsSteps
  <2>2. m = n
    BY <1>3
  <2> HIDE DEF m, n
  <2> QED BY <2>1, <2>2
<1> HIDE DEF n, lines
<1>6. ASSUME NEW k \in 0 .. n - 1 PROVE Adds(lines[k + 1], g[k], g[k + 1])
  <2> DEFINE i == k + 1
             line == lines[i]
             f == Fields(line)
             p == rec(i)
             a == g[k]
             b == g[i]
             pr == Printed(l[i].price)
             st == l[i].stock
             id == l[i].id
  <2>1. i \in 1 .. n /\ k \in 0 .. n /\ i - 1 = k
    BY <1>1
  <2>2. \A j \in 1 .. k : j \in 1 .. n /\ j # i
    BY <1>1
  <2>3. /\ IsSeq(X[i]) /\ IsSeq(Y[i]) /\ IsSeq(N[i]) /\ Reads(Y[i], N[i]) /\ IsSeq(id) /\ id # <<>>
        /\ pr \in Number /\ st \in Number /\ pr \notin Negative /\ st \notin Negative
        /\ RowShape(line, X[i], Y[i], pr, st)
    <3>1. /\ IsSeq(X[i]) /\ IsSeq(Y[i]) /\ IsSeq(N[i]) /\ Reads(Y[i], N[i])
          /\ RowShape(line, X[i], Y[i], pr, st)
      BY <1>2, <2>1 DEF OfLines, Copied, n
    <3>2. IsProduct(l[i])
      BY <1>1, <2>1
    <3> QED BY <3>1, <3>2, RowsAssumption DEF IsProduct
  <2>4. \/ K[i] = <<p>> /\ Reads(X[i], id)
        \/ K[i] = <<>> /\ Quote \notin ToSet(X[i]) /\ Comma \in ToSet(X[i])
    BY <2>1 DEF Copied, n
  <2>5. line # <<>>
    <3>1. Len(line) >= 5
      <4>1. Len(X[i]) \in Nat /\ Len(Y[i]) \in Nat
        BY <2>3, SeqFacts
      <4>2. Len(line) = Len(X[i]) + Len(Y[i]) + 5
        BY <2>3 DEF RowShape
      <4> DEFINE x == Len(X[i])
                 y == Len(Y[i])
      <4> HIDE DEF line, i
      <4>3. x \in Nat /\ y \in Nat /\ Len(line) = x + y + 5
        BY <4>1, <4>2
      <4> HIDE DEF x, y
      <4> QED BY <4>3
    <3> QED BY <3>1
  <2>6. \A j \in 1 .. Len(a) : a[j].id # id
    <3>1. \A j \in 1 .. Len(a) : \E e \in 1 .. k : a[j].id = l[e].id
      BY <1>1, <1>4, <2>1, CopiedIds DEF n
    <3> QED BY <1>1, <2>1, <2>2, <3>1
  <2>7. b = a \o K[i] /\ IsSeq(a) /\ DOMAIN a = 1 .. Len(a)
    <3>1. g[i] = g[i - 1] \o K[i] /\ IsSeq(g[k])
      BY <1>5, <2>1
    <3> QED BY <2>1, <3>1, SeqFacts
  <2>8. p.id = id /\ p.price = pr /\ p.stock = st
    OBVIOUS
  <2>9. p = [id |-> id, name |-> N[i], price |-> pr, stock |-> st]
    OBVIOUS
  <2> HIDE DEF i, line, p, a, b, pr, st, id
  <2>10. CASE K[i] = <<p>> /\ Reads(X[i], id)
    <3>1. Loads(f) /\ Product(f) = p
      BY <2>3, <2>9, <2>10, RowRead
    <3>2. b = Append(a, p)
      <4>1. a \o <<p>> = Append(a, p)
        BY <2>7, ConcatOne
      <4> QED BY <2>7, <2>10, <4>1, Zenon
    <3>3. ~Refused(a, p)
      BY <2>3, <2>6, <2>7, <2>8 DEF Refused
    <3> QED BY <2>5, <3>1, <3>2, <3>3 DEF Adds, line, i, a, b
  <2>11. CASE K[i] = <<>> /\ Quote \notin ToSet(X[i]) /\ Comma \in ToSet(X[i])
    <3>1. ~Loads(f)
      BY <2>3, <2>11, RowLong
    <3>2. b = a
      BY <2>7, <2>11, ConcatNone
    <3> QED BY <2>5, <3>1, <3>2 DEF Adds, line, i, a, b
  <2> QED BY <2>4, <2>10, <2>11
<1>7. Loaded(lines) = Got(g[n], "done")
  BY <1>1, <1>2, <1>5, <1>6, LoadedIs
<1> QED BY <1>4, <1>7 DEF Load, lines

LEMMA FlattenOnes ==
    ASSUME NEW p, IsSeq(p), NEW K, IsSeq(K), Len(K) = Len(p), \A i \in 1 .. Len(p) : K[i] = <<p[i]>>
    PROVE  Seqs(K) /\ FlattenSeq(K) = p
<1> DEFINE n == Len(p)
<1>1. n \in Nat /\ Len(K) = n /\ \A i \in 1 .. n : K[i] = <<p[i]>>
  BY SeqFacts
<1> HIDE DEF n
<1>2. Seqs(K)
  <2>1. ASSUME NEW i \in 1 .. n PROVE IsSeq(K[i])
    BY <1>1, OneSeq
  <2> QED BY <1>1, <2>1 DEF Seqs
<1>3. PICK g : Builds(g, K) /\ FlattenSeq(K) = g[n]
  BY <1>1, <1>2, FlattenBuilds
<1>4. /\ g[0] = <<>> /\ \A i \in 0 .. n : IsSeq(g[i])
      /\ \A i \in 1 .. n : g[i] = g[i - 1] \o K[i]
  BY <1>1, <1>2, <1>3, BuildsSteps
<1> DEFINE T == {k \in Nat : k <= n => g[k] = Pre(p, k)}
<1>5. 0 \in T
  BY <1>4, PreFacts
<1>6. ASSUME NEW k \in T PROVE k + 1 \in T
  <2>1. k \in Nat /\ k + 1 \in Nat
    OBVIOUS
  <2>2. ASSUME k + 1 <= n PROVE g[k + 1] = Pre(p, k + 1)
    <3> DEFINE i == k + 1
    <3>1. k \in 0 .. n /\ k \in 0 .. n - 1 /\ i \in 1 .. n /\ i - 1 = k /\ k <= n
      BY <1>1, <2>1, <2>2
    <3>2. Append(Pre(p, k), p[i]) = Pre(p, i)
      BY <3>1, PreFacts DEF n
    <3> HIDE DEF i
    <3>3. g[i] = g[k] \o <<p[i]>> /\ IsSeq(g[k])
      <4>1. g[i] = g[i - 1] \o K[i] /\ K[i] = <<p[i]>>
        BY <1>1, <1>4, <3>1
      <4> QED BY <1>4, <3>1, <4>1
    <3>4. g[k] \o <<p[i]>> = Append(g[k], p[i])
      BY <3>3, ConcatOne
    <3>5. g[k] = Pre(p, k)
      BY <2>1, <3>1
    <3> QED BY <3>2, <3>3, <3>4, <3>5 DEF i
  <2> QED BY <2>1, <2>2
<1> HIDE DEF T
<1>7. T = Nat
  BY <1>5, <1>6, SetInduction DEF T
<1>8. n <= n
  BY <1>1
<1>9. g[n] = Pre(p, n)
  BY <1>1, <1>7, <1>8 DEF T
<1> QED BY <1>2, <1>3, <1>9, PreFacts DEF n

\* What is left out of both is the same, and the rest of K is mapped from W.
Mapped(W, K, m) ==
    \A i \in 1 .. Len(W) : \/ W[i] = <<>> /\ K[i] = <<>>
                           \/ \E q : W[i] = <<q>> /\ K[i] = <<m[q]>>

LEMMA FlattenMapped ==
    ASSUME NEW W, IsSeq(W), NEW K, IsSeq(K), Len(K) = Len(W), NEW m, Mapped(W, K, m)
    PROVE  /\ Seqs(W) /\ Seqs(K)
           /\ FlattenSeq(K) = [j \in DOMAIN FlattenSeq(W) |-> m[FlattenSeq(W)[j]]]
<1> DEFINE n == Len(W)
<1>1. /\ n \in Nat /\ Len(K) = n
      /\ \A i \in 1 .. n : \/ W[i] = <<>> /\ K[i] = <<>>
                           \/ \E q : W[i] = <<q>> /\ K[i] = <<m[q]>>
  BY SeqFacts DEF Mapped
<1> HIDE DEF n
<1>2. Seqs(W) /\ Seqs(K)
  <2>1. ASSUME NEW i \in 1 .. n PROVE IsSeq(W[i]) /\ IsSeq(K[i])
    BY <1>1, OneSeq, SeqOfNone
  <2> QED BY <1>1, <2>1 DEF Seqs, n
<1>3. PICK g : Builds(g, W) /\ FlattenSeq(W) = g[n]
  BY <1>2, FlattenBuilds DEF n
<1>4. PICK h : Builds(h, K) /\ FlattenSeq(K) = h[n]
  BY <1>1, <1>2, FlattenBuilds
<1>5. /\ g[0] = <<>> /\ \A i \in 0 .. n : IsSeq(g[i])
      /\ \A i \in 1 .. n : g[i] = g[i - 1] \o W[i]
  BY <1>2, <1>3, BuildsSteps DEF n
<1>6. /\ h[0] = <<>> /\ \A i \in 0 .. n : IsSeq(h[i])
      /\ \A i \in 1 .. n : h[i] = h[i - 1] \o K[i]
  BY <1>1, <1>2, <1>4, BuildsSteps
<1> DEFINE Same(a, b) == Len(a) = Len(b) /\ \A j \in 1 .. Len(a) : b[j] = m[a[j]]
           T == {k \in Nat : k <= n => Same(g[k], h[k])}
<1>7. 0 \in T
  BY <1>5, <1>6
<1>8. ASSUME NEW k \in T PROVE k + 1 \in T
  <2>1. k \in Nat /\ k + 1 \in Nat
    OBVIOUS
  <2>2. ASSUME k + 1 <= n PROVE Same(g[k + 1], h[k + 1])
    <3> DEFINE i == k + 1
               a == g[k]
               b == h[k]
    <3>1. k \in 0 .. n /\ i \in 1 .. n /\ i - 1 = k /\ k <= n
      BY <1>1, <2>1, <2>2
    <3>2. Same(a, b)
      BY <2>1, <3>1
    <3> HIDE DEF i, Same
    <3>3. g[i] = a \o W[i] /\ h[i] = b \o K[i] /\ IsSeq(a) /\ IsSeq(b)
      <4>1. g[i] = g[i - 1] \o W[i] /\ h[i] = h[i - 1] \o K[i]
        BY <1>5, <1>6, <3>1
      <4> QED BY <1>5, <1>6, <3>1, <4>1
    <3> HIDE DEF a, b
    <3>4. CASE W[i] = <<>> /\ K[i] = <<>>
      <4>1. g[i] = a /\ h[i] = b
        BY <3>3, <3>4, ConcatNone
      <4> QED BY <3>2, <4>1 DEF i
    <3>5. CASE \E q : W[i] = <<q>> /\ K[i] = <<m[q]>>
      <4>1. PICK q : W[i] = <<q>> /\ K[i] = <<m[q]>>
        BY <3>5
      <4> DEFINE u == Append(a, q)
                 v == Append(b, m[q])
      <4>2. g[i] = u /\ h[i] = v
        <5>1. a \o <<q>> = u /\ b \o <<m[q]>> = v
          BY <3>3, ConcatOne
        <5> QED BY <3>3, <4>1, <5>1, Zenon
      <4>3. /\ Len(u) = Len(a) + 1 /\ u[Len(a) + 1] = q /\ \A j \in 1 .. Len(a) : u[j] = a[j]
            /\ Len(v) = Len(b) + 1 /\ v[Len(b) + 1] = m[q] /\ \A j \in 1 .. Len(b) : v[j] = b[j]
        BY <3>3, AppendFacts
      <4>4. Len(a) \in Nat /\ Len(a) = Len(b) /\ \A j \in 1 .. Len(a) : b[j] = m[a[j]]
        BY <3>2, <3>3, SeqFacts DEF Same
      <4> HIDE DEF u, v
      <4>5. \A j \in 1 .. Len(u) : j \in 1 .. Len(a) \/ j = Len(a) + 1
        BY <4>3, <4>4
      <4>6. Same(u, v)
        BY <4>3, <4>4, <4>5 DEF Same
      <4> QED BY <4>2, <4>6 DEF i
    <3> QED BY <1>1, <3>1, <3>4, <3>5
  <2> QED BY <2>1, <2>2
<1> HIDE DEF T
<1>9. T = Nat
  BY <1>7, <1>8, SetInduction DEF T
<1>10. n <= n /\ n \in 0 .. n
  BY <1>1
<1>11. Same(g[n], h[n]) /\ IsSeq(g[n]) /\ IsSeq(h[n])
  BY <1>1, <1>5, <1>6, <1>9, <1>10 DEF T
<1>12. h[n] = [j \in DOMAIN g[n] |-> m[g[n][j]]]
  <2> DEFINE a == g[n]
             b == h[n]
             c == [j \in DOMAIN a |-> m[a[j]]]
  <2>1. /\ IsSeq(a) /\ IsSeq(b) /\ Len(a) = Len(b) /\ DOMAIN a = 1 .. Len(a) /\ Len(a) \in Nat
        /\ \A j \in 1 .. Len(a) : b[j] = m[a[j]]
    BY <1>11, SeqFacts
  <2> HIDE DEF a, b
  <2>2. c = [j \in 1 .. Len(a) |-> c[j]] /\ \A j \in 1 .. Len(a) : c[j] = m[a[j]]
    BY <2>1
  <2> HIDE DEF c
  <2>3. IsSeq(c) /\ Len(c) = Len(a)
    BY <2>1, <2>2, MakeSeq
  <2>4. Len(b) = Len(c) /\ \A j \in 1 .. Len(b) : b[j] = c[j]
    BY <2>1, <2>2, <2>3
  <2>5. b = c
    BY <2>1, <2>3, <2>4, SeqSame
  <2> QED BY <2>5 DEF a, b, c
<1> QED BY <1>2, <1>3, <1>4, <1>12

-----------------------------------------------------------------------------
(* What is saved and what is copied                                         *)
Ids(l) == [i \in 1 .. Len(l) |-> Escaped(l[i].id)]
RawIds(l) == [i \in 1 .. Len(l) |-> l[i].id]
Names(l) == [i \in 1 .. Len(l) |-> l[i].name]
EscapedNames(l) == [i \in 1 .. Len(l) |-> Escaped(l[i].name)]
SameNames(l) == [i \in 1 .. Len(l) |-> Redacted]

LEMMA ListFacts ==
    ASSUME NEW l, IsList(l)
    PROVE  /\ IsSeq(l) /\ Len(l) \in Nat /\ DOMAIN l = 1 .. Len(l)
           /\ \A i \in 1 .. Len(l) : IsProduct(l[i]) /\ IsSeq(l[i].id) /\ IsSeq(l[i].name)
BY SeqFacts DEF IsList, IsProduct

LEMMA RowsOver ==
    ASSUME NEW l, IsSeq(l), NEW X, NEW Y, NEW text,
           text = Header \o FlattenSeq([i \in DOMAIN l |-> Row(X[i], Y[i], l[i])])
    PROVE  Written(text, l, X, Y)
<1> DEFINE n == Len(l)
           rows == [i \in DOMAIN l |-> Row(X[i], Y[i], l[i])]
<1>1. n \in Nat /\ DOMAIN l = 1 .. n
  BY SeqFacts
<1>2. rows = [i \in 1 .. n |-> rows[i]] /\ \A i \in 1 .. n : rows[i] = Row(X[i], Y[i], l[i])
  BY <1>1
<1>3. text = Header \o FlattenSeq(rows)
  OBVIOUS
<1> HIDE DEF rows, n
<1>4. IsSeq(rows) /\ Len(rows) = n
  BY <1>1, <1>2, MakeSeq
<1> QED BY <1>2, <1>3, <1>4 DEF Written, n

LEMMA TextsWritten ==
    ASSUME NEW l, IsList(l)
    PROVE  /\ Written(TextOf(l), l, Ids(l), EscapedNames(l))
           /\ Written(ExportText(l), l, RawIds(l), EscapedNames(l))
           /\ Written(MaskText(l), l, RawIds(l), SameNames(l))
<1>1. IsSeq(l) /\ DOMAIN l = 1 .. Len(l)
  BY ListFacts
<1>2. TextOf(l) = Header \o FlattenSeq([i \in DOMAIN l |-> Row(Ids(l)[i], EscapedNames(l)[i], l[i])])
  BY <1>1 DEF TextOf, Ids, EscapedNames
<1>3. ExportText(l) = Header \o FlattenSeq([i \in DOMAIN l |-> Row(RawIds(l)[i], EscapedNames(l)[i], l[i])])
  BY <1>1 DEF ExportText, RawIds, EscapedNames
<1>4. MaskText(l) = Header \o FlattenSeq([i \in DOMAIN l |-> Row(RawIds(l)[i], SameNames(l)[i], l[i])])
  BY <1>1 DEF MaskText, RawIds, SameNames
<1> QED BY <1>1, <1>2, <1>3, <1>4, RowsOver

\* Without newlines in its fields, every product is on a line of its own.
LEMMA OneLineRows ==
    ASSUME NEW l, IsList(l), OneLine(l)
    PROVE  /\ OfLines(l, Ids(l), EscapedNames(l))
           /\ OfLines(l, RawIds(l), EscapedNames(l))
           /\ OfLines(l, RawIds(l), SameNames(l))
<1>1. ASSUME NEW i \in 1 .. Len(l)
      PROVE  /\ IsSeq(l[i].id) /\ IsSeq(l[i].name) /\ Newline \notin ToSet(l[i].id) /\ Newline \notin ToSet(l[i].name)
             /\ IsSeq(Escaped(l[i].id)) /\ IsSeq(Escaped(l[i].name))
             /\ Newline \notin ToSet(Escaped(l[i].id)) /\ Newline \notin ToSet(Escaped(l[i].name))
  <2>1. IsSeq(l[i].id) /\ IsSeq(l[i].name) /\ Newline \notin ToSet(l[i].id) /\ Newline \notin ToSet(l[i].name)
    BY ListFacts DEF OneLine
  <2> QED BY <2>1, EscapedReads, EscapedKeepsLines
<1>2. IsSeq(Redacted) /\ Newline \notin ToSet(Redacted)
  BY RowsAssumption DEF Plain
<1> QED BY <1>1, <1>2 DEF OfLines, Ids, RawIds, EscapedNames, SameNames

LEMMA PrintedFacts ==
    ASSUME NEW p, IsProduct(p)
    PROVE  /\ [p EXCEPT !.price = Printed(@)] =
                    [id |-> p.id, name |-> p.name, price |-> Printed(p.price), stock |-> p.stock]
           /\ [[p EXCEPT !.price = Printed(@)] EXCEPT !.name = Redacted] =
                    [id |-> p.id, name |-> Redacted, price |-> Printed(p.price), stock |-> p.stock]
<1> DEFINE a == p.id
           b == p.name
           c == p.price
           d == p.stock
           e == Printed(c)
           q == [p EXCEPT !.price = Printed(@)]
<1>1. p = [id |-> a, name |-> b, price |-> c, stock |-> d]
  BY DEF IsProduct
<1>2. q = [p EXCEPT !.price = e]
  OBVIOUS
<1> HIDE DEF a, b, c, d, e, q
<1>3. q = [id |-> a, name |-> b, price |-> e, stock |-> d]
  BY <1>1, <1>2
<1>4. [q EXCEPT !.name = Redacted] = [id |-> a, name |-> Redacted, price |-> e, stock |-> d]
  BY <1>3
<1> QED BY <1>3, <1>4 DEF a, b, c, d, e, q

\* What a save has written a load finds.
LEMMA LoadsSaved ==
    ASSUME NEW l, IsList(l), OneLine(l)
    PROVE  Load(TextOf(l)) = Got(AsPrinted(l), "done")
<1> DEFINE n == Len(l)
           P == AsPrinted(l)
           K == [i \in 1 .. n |-> <<P[i]>>]
<1>1. /\ n \in Nat /\ DOMAIN l = 1 .. n
      /\ \A i \in 1 .. n : IsProduct(l[i]) /\ IsSeq(l[i].id) /\ IsSeq(l[i].name)
  BY ListFacts
<1>2. P = [i \in 1 .. n |-> P[i]] /\ \A i \in 1 .. n : P[i] = [l[i] EXCEPT !.price = Printed(@)]
  BY <1>1 DEF AsPrinted
<1>3. K = [i \in 1 .. n |-> K[i]] /\ \A i \in 1 .. n : K[i] = <<P[i]>>
  OBVIOUS
<1> HIDE DEF n, P, K
<1>4. IsSeq(P) /\ Len(P) = n /\ IsSeq(K) /\ Len(K) = n
  BY <1>1, <1>2, <1>3, MakeSeq
<1>5. Seqs(K) /\ FlattenSeq(K) = P
  BY <1>3, <1>4, FlattenOnes
<1>6. Copied(l, Ids(l), EscapedNames(l), Names(l), K)
  <2>1. ASSUME NEW i \in 1 .. n
        PROVE  /\ IsSeq(Names(l)[i]) /\ Reads(EscapedNames(l)[i], Names(l)[i]) /\ Reads(Ids(l)[i], l[i].id)
               /\ K[i] = <<[id |-> l[i].id, name |-> Names(l)[i], price |-> Printed(l[i].price), stock |-> l[i].stock]>>
    <3>1. IsProduct(l[i]) /\ IsSeq(l[i].id) /\ IsSeq(l[i].name)
      BY <1>1
    <3>2. Names(l)[i] = l[i].name /\ EscapedNames(l)[i] = Escaped(l[i].name) /\ Ids(l)[i] = Escaped(l[i].id)
      BY DEF Names, EscapedNames, Ids, n
    <3>3. P[i] = [id |-> l[i].id, name |-> l[i].name, price |-> Printed(l[i].price), stock |-> l[i].stock]
      BY <1>2, <3>1, PrintedFacts
    <3> QED BY <1>3, <3>1, <3>2, <3>3, EscapedReads
  <2> QED BY <1>4, <1>5, <2>1 DEF Copied, n
<1> QED BY <1>5, <1>6, CopyLoads, OneLineRows, TextsWritten DEF P

\* What mask and export have written a load finds, but for ids with a comma.
LEMMA LoadsCopies ==
    ASSUME NEW l, IsList(l), OneLine(l), \A i \in 1 .. Len(l) : Quote \notin ToSet(l[i].id)
    PROVE  LET kept == AsPrinted(WithoutComma(l))
               masked == [i \in DOMAIN kept |-> [kept[i] EXCEPT !.name = Redacted]]
           IN /\ Load(ExportText(l)) = Got(kept, "done")
              /\ Load(MaskText(l)) = Got(masked, "done")
<1> DEFINE n == Len(l)
           S == {l[i] : i \in 1 .. n}
           W == [i \in DOMAIN l |-> IF Comma \in ToSet(l[i].id) THEN <<>> ELSE <<l[i]>>]
           z == WithoutComma(l)
           kept == AsPrinted(z)
           masked == [i \in DOMAIN kept |-> [kept[i] EXCEPT !.name = Redacted]]
           m == [q \in S |-> [id |-> q.id, name |-> q.name, price |-> Printed(q.price), stock |-> q.stock]]
           r == [q \in S |-> [id |-> q.id, name |-> Redacted, price |-> Printed(q.price), stock |-> q.stock]]
           K == [i \in 1 .. n |-> IF Comma \in ToSet(l[i].id) THEN <<>> ELSE <<m[l[i]]>>]
           R == [i \in 1 .. n |-> IF Comma \in ToSet(l[i].id) THEN <<>> ELSE <<r[l[i]]>>]
<1>1. /\ n \in Nat /\ DOMAIN l = 1 .. n
      /\ \A i \in 1 .. n : IsProduct(l[i]) /\ IsSeq(l[i].id) /\ IsSeq(l[i].name) /\ Quote \notin ToSet(l[i].id)
  BY ListFacts
<1>2. z = FlattenSeq(W)
  BY DEF WithoutComma
<1>3. /\ W = [i \in 1 .. n |-> W[i]] /\ K = [i \in 1 .. n |-> K[i]] /\ R = [i \in 1 .. n |-> R[i]]
      /\ \A i \in 1 .. n : /\ W[i] = IF Comma \in ToSet(l[i].id) THEN <<>> ELSE <<l[i]>>
                           /\ K[i] = IF Comma \in ToSet(l[i].id) THEN <<>> ELSE <<m[l[i]]>>
                           /\ R[i] = IF Comma \in ToSet(l[i].id) THEN <<>> ELSE <<r[l[i]]>>
  BY <1>1
<1>4. /\ \A q \in S : m[q] = [id |-> q.id, name |-> q.name, price |-> Printed(q.price), stock |-> q.stock]
      /\ \A q \in S : r[q] = [id |-> q.id, name |-> Redacted, price |-> Printed(q.price), stock |-> q.stock]
  OBVIOUS
<1>5. (\A q \in S : IsProduct(q)) /\ \A i \in 1 .. n : l[i] \in S
  BY <1>1
<1> HIDE DEF n, W, K, R, m, r, z, S
<1>6. IsSeq(W) /\ Len(W) = n /\ IsSeq(K) /\ Len(K) = n /\ IsSeq(R) /\ Len(R) = n
  BY <1>1, <1>3, MakeSeq
<1>7. Seqs(K) /\ FlattenSeq(K) = [j \in DOMAIN z |-> m[z[j]]]
  <2>1. ASSUME NEW i \in 1 .. n
        PROVE  \/ W[i] = <<>> /\ K[i] = <<>>
               \/ \E q : W[i] = <<q>> /\ K[i] = <<m[q]>>
    BY <1>3
  <2>2. Len(K) = Len(W) /\ IsSeq(W) /\ IsSeq(K)
    BY <1>6
  <2>3. Mapped(W, K, m)
    BY <1>6, <2>1 DEF Mapped
  <2>4. Seqs(K) /\ FlattenSeq(K) = [j \in DOMAIN FlattenSeq(W) |-> m[FlattenSeq(W)[j]]]
    BY <2>2, <2>3, FlattenMapped
  <2> QED BY <1>2, <2>4
<1>8. Seqs(W) /\ Seqs(R) /\ FlattenSeq(R) = [j \in DOMAIN z |-> r[z[j]]]
  <2>1. ASSUME NEW i \in 1 .. n
        PROVE  \/ W[i] = <<>> /\ R[i] = <<>>
               \/ \E q : W[i] = <<q>> /\ R[i] = <<r[q]>>
    BY <1>3
  <2>2. Len(R) = Len(W) /\ IsSeq(W) /\ IsSeq(R)
    BY <1>6
  <2>3. Mapped(W, R, r)
    BY <1>6, <2>1 DEF Mapped
  <2>4. Seqs(W) /\ Seqs(R) /\ FlattenSeq(R) = [j \in DOMAIN FlattenSeq(W) |-> r[FlattenSeq(W)[j]]]
    BY <2>2, <2>3, FlattenMapped
  <2> QED BY <1>2, <2>4
<1>9. IsSeq(z) /\ \A j \in DOMAIN z : z[j] \in S
  <2>1. ASSUME NEW i \in 1 .. n PROVE \A j \in 1 .. Len(W[i]) : W[i][j] \in S
    <3>1. CASE Comma \in ToSet(l[i].id)
      <4>1. W[i] = <<>>
        BY <1>3, <3>1
      <4> QED BY <4>1
    <3>2. CASE Comma \notin ToSet(l[i].id)
      <4>1. W[i] = <<l[i]>> /\ \A j \in 1 .. 1 : j = 1
        BY <1>3, <3>2
      <4> QED BY <1>5, <4>1, OneSeq
    <3> QED BY <3>1, <3>2
  <2>2. IsSeq(z) /\ \A j \in 1 .. Len(z) : z[j] \in S
    BY <1>2, <1>6, <1>8, <2>1, ElementsOf
  <2> QED BY <2>2, SeqFacts
<1>10. \A j \in DOMAIN z :
         /\ [z[j] EXCEPT !.price = Printed(@)] = m[z[j]]
         /\ [[z[j] EXCEPT !.price = Printed(@)] EXCEPT !.name = Redacted] = r[z[j]]
  <2> TAKE j \in DOMAIN z
  <2> DEFINE q == z[j]
  <2>1. q \in S /\ IsProduct(q)
    BY <1>5, <1>9
  <2> HIDE DEF q
  <2>2. /\ [q EXCEPT !.price = Printed(@)] = m[q]
        /\ [[q EXCEPT !.price = Printed(@)] EXCEPT !.name = Redacted] = r[q]
    <3> DEFINE a == [id |-> q.id, name |-> q.name, price |-> Printed(q.price), stock |-> q.stock]
               b == [id |-> q.id, name |-> Redacted, price |-> Printed(q.price), stock |-> q.stock]
    <3>1. m[q] = a /\ r[q] = b
      BY <1>4, <2>1
    <3>2. [q EXCEPT !.price = Printed(@)] = a /\ [[q EXCEPT !.price = Printed(@)] EXCEPT !.name = Redacted] = b
      BY <2>1, PrintedFacts
    <3> HIDE DEF a, b
    <3> QED BY <3>1, <3>2, Zenon
  <2> QED BY <2>2 DEF q
<1>11. kept = FlattenSeq(K)
  BY <1>7, <1>10 DEF AsPrinted
<1>12. masked = FlattenSeq(R)
  <2>1. DOMAIN kept = DOMAIN z /\ \A j \in DOMAIN z : kept[j] = [z[j] EXCEPT !.price = Printed(@)]
    BY DEF AsPrinted
  <2> HIDE DEF kept
  <2> QED BY <1>8, <1>10, <2>1
<1>13. ASSUME NEW i \in 1 .. n
       PROVE  /\ Names(l)[i] = l[i].name /\ SameNames(l)[i] = Redacted /\ RawIds(l)[i] = l[i].id
              /\ EscapedNames(l)[i] = Escaped(l[i].name)
              /\ Comma \notin ToSet(l[i].id) => Reads(l[i].id, l[i].id)
              /\ IsSeq(Redacted) /\ Reads(Redacted, Redacted)
  <2>1. /\ Names(l)[i] = l[i].name /\ SameNames(l)[i] = Redacted /\ RawIds(l)[i] = l[i].id
        /\ EscapedNames(l)[i] = Escaped(l[i].name)
    BY DEF Names, SameNames, RawIds, EscapedNames, n
  <2>2. Comma \notin ToSet(l[i].id) => Reads(l[i].id, l[i].id)
    BY <1>1, NotIn DEF Reads
  <2>3. IsSeq(Redacted) /\ Reads(Redacted, Redacted)
    <3>1. IsSeq(Redacted) /\ Comma \notin ToSet(Redacted) /\ Quote \notin ToSet(Redacted)
      BY RowsAssumption DEF Plain
    <3>2. \A j \in 1 .. Len(Redacted) : Redacted[j] # Comma /\ Redacted[j] # Quote
      BY <3>1, NotIn
    <3> QED BY <3>1, <3>2 DEF Reads
  <2> QED BY <2>1, <2>2, <2>3
<1>14. Copied(l, RawIds(l), EscapedNames(l), Names(l), K)
  <2>1. ASSUME NEW i \in 1 .. n
        PROVE  /\ IsSeq(Names(l)[i]) /\ Reads(EscapedNames(l)[i], Names(l)[i])
               /\ \/ /\ K[i] = <<[id |-> l[i].id, name |-> Names(l)[i], price |-> Printed(l[i].price), stock |-> l[i].stock]>>
                     /\ Reads(RawIds(l)[i], l[i].id)
                  \/ K[i] = <<>> /\ Quote \notin ToSet(RawIds(l)[i]) /\ Comma \in ToSet(RawIds(l)[i])
    <3>1. IsSeq(Names(l)[i]) /\ Reads(EscapedNames(l)[i], Names(l)[i])
      BY <1>1, <1>13, EscapedReads
    <3>2. CASE Comma \in ToSet(l[i].id)
      <4>1. K[i] = <<>>
        BY <1>3, <3>2
      <4> QED BY <1>1, <1>13, <3>1, <3>2, <4>1
    <3>3. CASE Comma \notin ToSet(l[i].id)
      <4>1. K[i] = <<m[l[i]]>>
        BY <1>3, <3>3
      <4>2. m[l[i]] = [id |-> l[i].id, name |-> Names(l)[i], price |-> Printed(l[i].price), stock |-> l[i].stock]
        BY <1>4, <1>5, <1>13
      <4> QED BY <1>13, <3>1, <3>3, <4>1, <4>2
    <3> QED BY <3>2, <3>3
  <2> QED BY <1>6, <1>7, <2>1 DEF Copied, n
<1>15. Copied(l, RawIds(l), SameNames(l), SameNames(l), R)
  <2>1. ASSUME NEW i \in 1 .. n
        PROVE  /\ IsSeq(SameNames(l)[i]) /\ Reads(SameNames(l)[i], SameNames(l)[i])
               /\ \/ /\ R[i] = <<[id |-> l[i].id, name |-> SameNames(l)[i], price |-> Printed(l[i].price), stock |-> l[i].stock]>>
                     /\ Reads(RawIds(l)[i], l[i].id)
                  \/ R[i] = <<>> /\ Quote \notin ToSet(RawIds(l)[i]) /\ Comma \in ToSet(RawIds(l)[i])
    <3>1. IsSeq(SameNames(l)[i]) /\ Reads(SameNames(l)[i], SameNames(l)[i])
      BY <1>13
    <3>2. CASE Comma \in ToSet(l[i].id)
      <4>1. R[i] = <<>>
        BY <1>3, <3>2
      <4> QED BY <1>1, <1>13, <3>1, <3>2, <4>1
    <3>3. CASE Comma \notin ToSet(l[i].id)
      <4>1. R[i] = <<r[l[i]]>>
        BY <1>3, <3>3
      <4>2. r[l[i]] = [id |-> l[i].id, name |-> SameNames(l)[i], price |-> Printed(l[i].price), stock |-> l[i].stock]
        BY <1>4, <1>5, <1>13
      <4> QED BY <1>13, <3>1, <3>3, <4>1, <4>2
    <3> QED BY <3>2, <3>3
  <2> QED BY <1>6, <1>8, <2>1 DEF Copied, n
<1>16. Load(ExportText(l)) = Got(FlattenSeq(K), "done")
  BY <1>14, CopyLoads, OneLineRows, TextsWritten
<1>17. Load(MaskText(l)) = Got(FlattenSeq(R), "done")
  BY <1>15, CopyLoads, OneLineRows, TextsWritten
<1> QED BY <1>11, <1>12, <1>16, <1>17 DEF z

-----------------------------------------------------------------------------
(* The index                                                                *)
\* Up to its first comma, a row whose id needs no quotes is its id, and one
\* whose id needs them is no plain id.
LEMMA UpToCommaIs ==
    ASSUME NEW id, IsSeq(id), id # <<>>, NEW y, NEW pr, NEW st, NEW line, RowShape(line, Escaped(id), y, pr, st),
           IsSeq(y)
    PROVE  /\ Plain(id) => UpToComma(line) = id
           /\ ~Plain(id) => ~Plain(UpToComma(line))
<1> DEFINE x == Escaped(id)
           m == Len(x)
           commas == {i \in DOMAIN line : line[i] = Comma}
           u == UpToComma(line)
<1>1. IsSeq(x) /\ m \in Nat /\ Len(y) \in Nat /\ IsSeq(line) /\ Len(line) \in Nat
  BY EscapedReads, SeqFacts DEF RowShape
<1>2. /\ Len(line) = m + Len(y) + 5 /\ line[m + 1] = Comma
      /\ \A j \in 1 .. m : line[0 + j] = x[j]
  BY DEF RowShape, Stands
<1>3. \A j \in 1 .. m : line[j] = x[j]
  <2>1. \A j \in 1 .. m : 0 + j = j
    OBVIOUS
  <2> QED BY <1>2, <2>1
<1>4. DOMAIN line = 1 .. Len(line)
  BY <1>1, SeqFacts
<1>5. commas \in SUBSET Nat /\ m + 1 \in commas /\ commas # {}
  BY <1>1, <1>2, <1>4
<1> DEFINE b == Min(commas) - 1
<1>6. u = SubSeq(line, 1, b)
  BY <1>5 DEF UpToComma
<1>7. Min(commas) \in commas /\ \A i \in commas : Min(commas) <= i
  BY <1>5, MinIn
<1>8. Min(commas) \in 1 .. Len(line) /\ Min(commas) <= m + 1 /\ line[Min(commas)] = Comma
  BY <1>4, <1>5, <1>7
<1>9. b \in Nat /\ b <= m /\ b <= Len(line) /\ b + 1 = Min(commas)
  BY <1>1, <1>2, <1>8
<1>10. line[b + 1] = Comma
  BY <1>8, <1>9
<1> HIDE DEF x, m, u, b, commas
<1>11. IsSeq(u) /\ Len(u) = b /\ \A i \in 1 .. b : u[i] = line[i]
  <2>1. /\ IsSeq(SubSeq(line, 0 + 1, b)) /\ Len(SubSeq(line, 0 + 1, b)) = b - 0
        /\ \A i \in 1 .. b - 0 : SubSeq(line, 0 + 1, b)[i] = line[0 + i]
    BY <1>1, <1>9, SubSeqFacts
  <2>2. 0 + 1 = 1 /\ b - 0 = b /\ \A i \in 1 .. b : 0 + i = i
    BY <1>9
  <2> QED BY <1>6, <2>1, <2>2
<1>12. ASSUME Plain(id) PROVE u = id
  <2>1. x = id
    BY <1>12 DEF x, Escaped
  <2>2. \A j \in 1 .. m : x[j] # Comma
    <3>1. Comma \notin ToSet(id)
      BY <1>12 DEF Plain
    <3>2. \A j \in 1 .. Len(id) : id[j] # Comma
      BY <3>1, NotIn
    <3> QED BY <2>1, <3>2 DEF m
  <2>3. b = m
    <3>1. ASSUME b # m PROVE FALSE
      <4>1. b + 1 \in 1 .. m
        BY <1>1, <1>9, <3>1
      <4> QED BY <1>3, <1>10, <2>2, <4>1
    <3> QED BY <3>1
  <2>4. \A i \in 1 .. m : u[i] = x[i]
    BY <1>3, <1>11, <2>3
  <2> QED BY <1>1, <1>11, <2>1, <2>3, <2>4, SeqSame DEF m
<1>13. ASSUME ~Plain(id) PROVE ~Plain(u)
  <2>1. m >= 1 /\ x[1] = Quote
    <3>1. PICK q : q[Len(id)] \in Nat /\ Len(x) = q[Len(id)] + 2 /\ x[1] = Quote
      BY <1>13, EscapedShape DEF x
    <3> QED BY <3>1 DEF m
  <2>2. line[1] = Quote
    BY <1>1, <1>3, <2>1
  <2>3. b >= 1
    <3>1. ASSUME b = 0 PROVE FALSE
      BY <1>10, <2>2, <3>1, Signs
    <3> QED BY <1>9, <3>1
  <2>4. 1 \in 1 .. b /\ u[1] = Quote
    BY <1>9, <1>11, <2>2, <2>3
  <2>5. Quote \in ToSet(u)
    BY <1>11, <2>4, SeqFacts
  <2> QED BY <2>5 DEF Plain
<1> QED BY <1>12, <1>13 DEF u

\* A plain id is looked up to its row.
LEMMA IndexFindsRow ==
    ASSUME NEW l, IsList(l), OneLine(l), NEW i \in DOMAIN l, Plain(l[i].id)
    PROVE  \E at \in Lookup(IndexOf(TextOf(l)), l[i].id) :
              Product(Fields(LineAt(TextOf(l), at))) = AsPrinted(l)[i]
<1> DEFINE n == Len(l)
           text == TextOf(l)
           lines == Lines(text)
           w == Offsets(text)
           idx == IndexOf(text)
           id == l[i].id
<1>1. /\ n \in Nat /\ DOMAIN l = 1 .. n /\ i \in 1 .. n
      /\ \A k \in 1 .. n : IsProduct(l[k]) /\ IsSeq(l[k].id) /\ l[k].id # <<>> /\ IsSeq(l[k].name)
      /\ \A k, j \in 1 .. n : l[k].id = l[j].id => k = j
  BY ListFacts DEF IsList, IsProduct
<1>2. /\ IsSeq(text) /\ Len(lines) = n
      /\ \A k \in 1 .. n : RowShape(lines[k], Ids(l)[k], EscapedNames(l)[k], Printed(l[k].price), l[k].stock)
  BY OneLineRows, TextsWritten, WrittenLines
<1>3. \A k \in 1 .. n : /\ Ids(l)[k] = Escaped(l[k].id) /\ EscapedNames(l)[k] = Escaped(l[k].name)
                        /\ IsSeq(EscapedNames(l)[k])
  BY <1>1, EscapedReads DEF Ids, EscapedNames
<1>4. IsSeq(w) /\ Len(w) = n /\ \A k \in 1 .. n : lines[k] = LineAt(text, w[k])
  BY <1>2, LinesFacts
<1>5. DOMAIN w = 1 .. n
  BY <1>4, SeqFacts
<1>6. DOMAIN idx = 1 .. n /\ \A k \in 1 .. n : idx[k].id = UpToComma(lines[k]) /\ idx[k].at = w[k]
  BY <1>5 DEF IndexOf
<1> HIDE DEF n, text, lines, w, idx
<1>7. ASSUME NEW k \in 1 .. n
      PROVE  /\ Plain(l[k].id) => idx[k].id = l[k].id
             /\ ~Plain(l[k].id) => ~Plain(idx[k].id)
  BY <1>1, <1>2, <1>3, <1>6, UpToCommaIs
<1>8. idx[i].id = id /\ \A k \in 1 .. i - 1 : idx[k].id # id
  <2>1. \A k \in 1 .. i - 1 : k \in 1 .. n /\ k # i
    BY <1>1
  <2> QED BY <1>1, <1>7, <2>1
<1>9. w[i] \in Lookup(idx, id)
  BY <1>1, <1>6, <1>8 DEF Lookup
<1>10. Product(Fields(lines[i])) = AsPrinted(l)[i]
  <2> DEFINE pr == Printed(l[i].price)
             st == l[i].stock
             x == Ids(l)[i]
             y == EscapedNames(l)[i]
             name == l[i].name
  <2>1. /\ IsSeq(x) /\ IsSeq(y) /\ Reads(x, id) /\ Reads(y, name) /\ IsSeq(id) /\ IsSeq(name)
    BY <1>1, <1>3, EscapedReads
  <2>2. RowShape(lines[i], x, y, pr, st) /\ IsProduct(l[i])
    BY <1>1, <1>2
  <2>3. pr \in Number /\ st \in Number
    BY <2>2, RowsAssumption DEF IsProduct
  <2>4. AsPrinted(l)[i] = [id |-> id, name |-> name, price |-> pr, stock |-> st]
    BY <2>2, PrintedFacts DEF AsPrinted
  <2> HIDE DEF x, y, pr, st, name, id
  <2>5. Product(Fields(lines[i])) = [id |-> id, name |-> name, price |-> pr, stock |-> st]
    BY <2>1, <2>2, <2>3, RowRead
  <2> QED BY <2>4, <2>5
<1> QED BY <1>1, <1>4, <1>9, <1>10 DEF text, lines, w, idx

LEMMA IndexChecks == ASSUME NEW text, IsSeq(text) PROVE IndexCheck(text, IndexOf(text))
<1>1. /\ DOMAIN Offsets(text) = 1 .. Len(Lines(text))
      /\ \A i \in 1 .. Len(Lines(text)) : Lines(text)[i] = LineAt(text, Offsets(text)[i])
  BY LinesFacts, SeqFacts
<1> QED BY <1>1 DEF IndexCheck, IndexOf

-----------------------------------------------------------------------------
\* products.csv is some text, and what was last saved or found there is a list
\* as an inventory holds it; the text is the list's if a command wrote it.
RowsInv ==
    /\ IsSeq(csv) /\ IsList(inv)
    /\ Saved => csv = TextOf(inv)

LEMMA TextIsSeq == ASSUME NEW l, IsList(l) PROVE IsSeq(TextOf(l))
<1> DEFINE n == Len(l)
           rows == [i \in DOMAIN l |-> Row(Escaped(l[i].id), Escaped(l[i].name), l[i])]
<1>1. n \in Nat /\ DOMAIN l = 1 .. n /\ \A i \in 1 .. n : IsSeq(l[i].id) /\ IsSeq(l[i].name)
  BY ListFacts
<1>2. rows = [i \in 1 .. n |-> rows[i]]
      /\ \A i \in 1 .. n : rows[i] = Row(Escaped(l[i].id), Escaped(l[i].name), l[i])
  BY <1>1
<1>3. TextOf(l) = Header \o FlattenSeq(rows)
  BY DEF TextOf
<1> HIDE DEF rows, n
<1>4. ASSUME NEW i \in 1 .. n PROVE IsSeq(rows[i])
  <2> DEFINE x == Escaped(l[i].id)
             y == Escaped(l[i].name)
             c == <<Comma>>
             e == <<Comma, Printed(l[i].price), Comma, l[i].stock, Newline>>
             u == x \o c
             v == u \o y
  <2>1. IsSeq(x) /\ IsSeq(y) /\ IsSeq(c)
    BY <1>1, EscapedReads, OneSeq
  <2>2. IsSeq(e)
    <3>1. e = [j \in 1 .. 5 |-> e[j]]
      OBVIOUS
    <3> HIDE DEF e
    <3> QED BY <3>1, MakeSeq
  <2>3. rows[i] = v \o e
    BY <1>2 DEF Row
  <2> HIDE DEF x, y, c, e
  <2>4. IsSeq(u)
    BY <2>1, ConcatFacts
  <2> HIDE DEF u
  <2>5. IsSeq(v)
    BY <2>1, <2>4, ConcatFacts
  <2> HIDE DEF v
  <2>6. IsSeq(v \o e)
    BY <2>2, <2>5, ConcatFacts
  <2> QED BY <2>3, <2>6
<1>5. Seqs(rows)
  <2>1. IsSeq(rows) /\ Len(rows) = n
    BY <1>1, <1>2, MakeSeq
  <2> QED BY <1>4, <2>1 DEF Seqs
<1>6. PICK g : Builds(g, rows) /\ FlattenSeq(rows) = g[Len(rows)]
  BY <1>5, FlattenBuilds
<1>7. IsSeq(FlattenSeq(rows))
  <2>1. Len(rows) \in Nat /\ \A i \in 0 .. Len(rows) : IsSeq(g[i])
    BY <1>5, <1>6, BuildsSteps
  <2> QED BY <1>6, <2>1
<1> QED BY <1>3, <1>7, HeaderFacts, ConcatFacts

\* A list in another order is a list.
LEMMA AnyOrder ==
    ASSUME NEW l, IsList(l), NEW z \in SetToSeqs(ToSet(l))
    PROVE  IsList(z)
<1> DEFINE S == ToSet(l)
           n == Len(l)
           m == Cardinality(S)
<1>1. /\ n \in Nat /\ DOMAIN l = 1 .. n /\ S = {l[i] : i \in 1 .. n}
      /\ \A i \in 1 .. n : IsProduct(l[i])
      /\ \A i, j \in 1 .. n : l[i].id = l[j].id => i = j
  BY SeqFacts DEF IsList
<1>2. IsFiniteSet(S)
  <2>1. IsFiniteSet(1 .. n)
    BY <1>1, FS_Interval
  <2>2. l = [i \in 1 .. n |-> l[i]]
    BY SeqFacts DEF IsList
  <2> HIDE DEF n, S
  <2>3. l \in Surjection(1 .. n, S)
    BY <1>1, <2>2 DEF Surjection
  <2> QED BY <2>1, <2>3, FS_Surjection
<1>3. m \in Nat
  BY <1>2, FS_CardinalityType
<1>4. z \in [1 .. m -> S] /\ \A i, j \in 1 .. m : z[i] = z[j] => i = j
  BY DEF SetToSeqs, IsInjective
<1> HIDE DEF S, n, m
<1>5. IsSeq(z) /\ Len(z) = m
  BY <1>3, <1>4, MakeSeq
<1>6. DOMAIN z = 1 .. m
  BY <1>4
<1>7. ASSUME NEW i \in 1 .. m PROVE z[i] \in S /\ IsProduct(z[i])
  BY <1>1, <1>4
<1>8. ASSUME NEW i \in 1 .. m, NEW j \in 1 .. m, z[i].id = z[j].id PROVE i = j
  <2>1. PICK a \in 1 .. n, b \in 1 .. n : z[i] = l[a] /\ z[j] = l[b]
    BY <1>1, <1>7
  <2>2. z[i] = z[j]
    BY <1>1, <1>8, <2>1
  <2> QED BY <1>4, <2>2
<1> QED BY <1>5, <1>6, <1>7, <1>8 DEF IsList

LEMMA LoadIsList ==
    ASSUME NEW text, IsSeq(text)
    PROVE  \E l, end : Load(text) = Got(l, end) /\ LoadedWell(Lines(text), Len(Lines(text)), l, end)
<1>1. Seqs(Lines(text))
  BY LinesFacts DEF Seqs
<1> QED BY <1>1, LoadedFacts DEF Load

LEMMA RowsInitInv == RowsInit => RowsInv
<1> SUFFICES ASSUME RowsInit PROVE RowsInv
  OBVIOUS
<1>1. csv = Header /\ inv = <<>> /\ by = "save"
  BY DEF RowsInit
<1>2. IsList(<<>>)
  BY SeqOfNone DEF IsList
<1>3. TextOf(<<>>) = Header
  <2> DEFINE d == [i \in DOMAIN <<>> |-> Row(Escaped(<<>>[i].id), Escaped(<<>>[i].name), <<>>[i])]
  <2>1. d = <<>>
    OBVIOUS
  <2>2. TextOf(<<>>) = Header \o FlattenSeq(d)
    BY DEF TextOf
  <2> HIDE DEF d
  <2>3. FlattenSeq(d) = <<>>
    BY <2>1 DEF FlattenSeq
  <2> QED BY <2>2, <2>3, HeaderFacts, ConcatNone
<1> QED BY <1>1, <1>2, <1>3, HeaderFacts DEF RowsInv

LEMMA RowsNextInv == RowsInv /\ [RowsNext]_RowsVars => RowsInv'
<1> SUFFICES ASSUME RowsInv, [RowsNext]_RowsVars PROVE RowsInv'
  OBVIOUS
<1>1. ASSUME NEW l, IsList(l), csv' = TextOf(l), inv' = l PROVE RowsInv'
  BY <1>1, TextIsSeq DEF RowsInv
<1>2. CASE \E l \in Listing : Save(l)
  BY <1>1, <1>2, RowsAssumption DEF Save
<1>3. CASE \E text \in Foreign : Overwrite(text)
  <2>1. PICK text \in Foreign : Overwrite(text)
    BY <1>3
  <2>2. IsSeq(text)
    BY RowsAssumption
  <2>3. PICK l, end : Load(text) = Got(l, end) /\ IsList(l)
    BY <2>2, LoadIsList DEF LoadedWell
  <2>4. Load(text).list = l
    BY <2>3 DEF Got
  <2> QED BY <2>1, <2>2, <2>3, <2>4 DEF Overwrite, RowsInv, Saved
<1>4. CASE Resave
  <2>1. PICK l, end : Load(csv) = Got(l, end) /\ IsList(l)
    BY LoadIsList DEF LoadedWell, RowsInv
  <2>2. Load(csv).list = l
    BY <2>1 DEF Got
  <2>3. PICK z \in SetToSeqs(ToSet(l)) : csv' = TextOf(z) /\ inv' = z
    BY <1>4, <2>2 DEF Resave
  <2>4. IsList(z)
    BY <2>1, AnyOrder
  <2> QED BY <1>1, <2>3, <2>4
<1>5. CASE UNCHANGED RowsVars
  BY <1>5 DEF RowsVars, RowsInv, Saved
<1> QED BY <1>2, <1>3, <1>4, <1>5 DEF RowsNext

\* Whatever products are saved, in whatever order, and whatever was in the file
\* before: the load that follows finds them, commas, quotes and all, with their
\* prices as printed, if no field has a newline.
THEOREM RoundTripHolds == RowsSpec => []RoundTrip
<1>1. RowsInv => RoundTrip
  BY LoadsSaved DEF RowsInv, RoundTrip
<1> QED BY <1>1, RowsInitInv, RowsNextInv, PTL DEF RowsSpec

\* Of whatever text another program has left there: csv validate passes it if
\* and only if a load that does not throw takes a product from every line.
THEOREM ValidateFindsSkippedHolds == RowsSpec => []ValidateFindsSkipped
<1>1. RowsInv => ValidateFindsSkipped
  <2> SUFFICES ASSUME RowsInv, Load(csv).end = "done"
               PROVE  Validate(csv) <=> Len(Load(csv).list) = Len(Lines(csv))
    BY DEF ValidateFindsSkipped
  <2>1. PICK l, end : Load(csv) = Got(l, end) /\ LoadedWell(Lines(csv), Len(Lines(csv)), l, end)
    BY LoadIsList DEF RowsInv
  <2>2. Load(csv).list = l /\ end # "threw"
    BY <2>1 DEF Got
  <2>3. DOMAIN Lines(csv) = 1 .. Len(Lines(csv))
    BY LinesFacts, SeqFacts DEF RowsInv
  <2> QED BY <2>1, <2>2, <2>3 DEF Validate, ValidRow, Loads, LoadedWell
<1> QED BY <1>1, RowsInitInv, RowsNextInv, PTL DEF RowsSpec

\* The check approves the index of any file, and of what a command has saved a
\* plain id is looked up to the row a load takes it from.
THEOREM IndexFindsHolds == RowsSpec => []IndexFinds
<1>1. RowsInv => IndexFinds
  BY IndexChecks, IndexFindsRow DEF RowsInv, IndexFinds
<1> QED BY <1>1, RowsInitInv, RowsNextInv, PTL DEF RowsSpec

\* Whatever list there is, if no id of it has a quote and no field a newline:
\* what mask and export write loads as the products whose id has no comma.
THEOREM CopiesKeepPlainIdsHolds == RowsSpec => []CopiesKeepPlainIds
<1>1. RowsInv => CopiesKeepPlainIds
  <2> SUFFICES ASSUME RowsInv, OneLine(inv),
                      \A i \in DOMAIN inv : {Quote, Newline} \cap ToSet(inv[i].id) = {}
               PROVE  CopiesKeepPlainIds
    BY DEF CopiesKeepPlainIds
  <2>1. IsList(inv) /\ \A i \in 1 .. Len(inv) : Quote \notin ToSet(inv[i].id)
    BY ListFacts DEF RowsInv
  <2> QED BY <2>1, LoadsCopies DEF CopiesKeepPlainIds
<1> QED BY <1>1, RowsInitInv, RowsNextInv, PTL DEF RowsSpec

-----------------------------------------------------------------------------
(* The ledger                                                               *)
LEMMA EmptyLog == IsSeq(<<>>) /\ Verify(<<>>) /\ IsLog(<<>>)
BY SeqOfNone DEF Verify, IsLog

\* A sequence one longer: what Append leaves and what it adds.
LEMMA AppendShape ==
    ASSUME NEW s, IsSeq(s), NEW e
    PROVE  /\ IsSeq(Append(s, e))
           /\ Len(s) \in Nat /\ DOMAIN s = 1 .. Len(s)
           /\ Len(Append(s, e)) = Len(s) + 1
           /\ DOMAIN Append(s, e) = 1 .. Len(s) + 1
           /\ \A i \in 1 .. Len(s) : Append(s, e)[i] = s[i]
           /\ Append(s, e)[Len(s) + 1] = e
BY SeqFacts, AppendFacts

\* An entry chained to the last hash keeps a log that verifies so.
LEMMA AppendVerifies ==
    ASSUME NEW s, IsSeq(s), Verify(s), NEW body
    PROVE  Verify(Append(s, Entry(LastHash(s), body)))
<1> DEFINE e == Entry(LastHash(s), body)
           a == Append(s, e)
<1>1. /\ Len(s) \in Nat /\ Len(a) = Len(s) + 1
      /\ \A i \in 1 .. Len(s) : a[i] = s[i]
      /\ a[Len(s) + 1] = e
  BY AppendShape
<1> SUFFICES ASSUME NEW i \in 1 .. Len(a)
             PROVE  /\ a[i].prev = PrevOf(a, i)
                    /\ a[i].hash = Hash(a[i].prev, a[i].body)
  BY DEF Verify
<1> HIDE DEF a, e
<1>2. CASE i \in 1 .. Len(s)
  <2>1. PrevOf(a, i) = PrevOf(s, i)
    BY <1>1, <1>2 DEF PrevOf
  <2> QED BY <1>1, <1>2, <2>1 DEF Verify
<1>3. CASE i = Len(s) + 1
  <2>1. PrevOf(a, i) = LastHash(s)
    <3>1. CASE s = <<>>
      BY <1>1, <1>3, <3>1 DEF PrevOf, LastHash
    <3>2. CASE s # <<>>
      <4>1. Len(s) # 0
        BY <3>2, SeqFacts
      <4> QED BY <1>1, <1>3, <3>2, <4>1 DEF PrevOf, LastHash
    <3> QED BY <3>1, <3>2
  <2>2. /\ e.prev = LastHash(s)
        /\ e.hash = Hash(e.prev, e.body)
    BY DEF e, Entry
  <2> QED BY <1>1, <1>3, <2>1, <2>2
<1> QED BY <1>1, <1>2, <1>3

TInv == TypeOK /\ IsSeq(log)

LEMMA InitType == Init => TInv
  BY EmptyLog, LedgerAssumption DEF Init, TInv, TypeOK, Time, Version

LEMMA EntryType ==
    ASSUME NEW s, IsSeq(s), IsLog(s), NEW h, NEW b \in Body
    PROVE  IsLog(Append(s, Entry(h, b)))
<1>1. Entry(h, b).body = b
  BY DEF Entry
<1> QED BY <1>1, AppendShape DEF IsLog

LEMMA StepType ==
    ASSUME TInv, NEW p \in Proc, Step(p)
    PROVE  TInv'
<1> USE LedgerAssumption DEF TInv, TypeOK, Goto, Forget, Continue
<1>1. CASE Begin(p)
  BY <1>1 DEF Begin, files
<1>2. CASE ReadTail(p)
  BY <1>2 DEF ReadTail, files
<1>3. CASE AppendEntry(p)
  <2>1. [ds |-> ds[p], ts |-> ts[p]] \in Body
    BY DEF Body
  <2>2. IsSeq(log') /\ IsLog(log')
    BY <1>3, <2>1, EntryType, AppendShape DEF AppendEntry
  <2> QED BY <1>3, <2>2 DEF AppendEntry, Version, Time
<1>4. CASE WriteDataset(p)
  BY <1>4 DEF WriteDataset, files, Version
<1>5. CASE Kill(p)
  BY <1>5 DEF Kill, files, Version, Time
<1> QED BY <1>1, <1>2, <1>3, <1>4, <1>5 DEF Step

LEMMA CommandType ==
    ASSUME TInv,
           AtomicWrite \/ Switch \/ Rotate \/ Tick \/ (\E k \in Keep : Prune(k))
    PROVE  TInv'
<1> USE LedgerAssumption DEF TInv, TypeOK, proc
<1>1. CASE AtomicWrite
  BY <1>1 DEF AtomicWrite, files, Version
<1>2. CASE Switch
  BY <1>2 DEF Switch
<1>3. CASE Rotate
  BY <1>3, EmptyLog DEF Rotate
<1>4. CASE Tick
  BY <1>4 DEF Tick, files, Time
<1>5. CASE \E k \in Keep : Prune(k)
  BY <1>5, EmptyLog DEF Prune
<1> QED BY <1>1, <1>2, <1>3, <1>4, <1>5

LEMMA NextType == TInv /\ [Next]_vars => TInv'
<1> SUFFICES ASSUME TInv, [Next]_vars PROVE TInv'
  OBVIOUS
<1>1. CASE Next
  BY <1>1, StepType, CommandType DEF Next
<1>2. CASE UNCHANGED vars
  BY <1>2 DEF vars, TInv, TypeOK
<1> QED BY <1>1, <1>2

\* The variables keep their types, however many commands run at once.
THEOREM TypeCorrect == Spec => []TypeOK
<1>1. TInv => TypeOK
  BY DEF TInv
<1> QED BY <1>1, InitType, NextType, PTL DEF Spec

-----------------------------------------------------------------------------
\* The live log and the switch sort after the rotated files: at most one name
\* is greater than theirs, so they are not among the first to go.
LEMMA LiveSortsLast ==
    ASSUME NEW k \in Nat, k >= 2
    PROVE  LogRank \notin Doomed(k) /\ OnRank \notin Doomed(k)
<1> DEFINE above(f) == {g \in Pruneable : g > f}
<1>1. Pruneable \subseteq Time \cup {LogRank, OnRank}
  BY DEF Pruneable
<1>2. /\ MaxTime \in Nat /\ LogRank = MaxTime + 1 /\ OnRank = MaxTime + 2
      /\ \A t \in Time : t \in Nat /\ t <= MaxTime
  BY LedgerAssumption DEF LogRank, OnRank, Time
<1>3. above(LogRank) \subseteq {OnRank} /\ above(OnRank) \subseteq {OnRank}
  BY <1>1, <1>2
<1>4. ASSUME NEW S \in SUBSET {OnRank} PROVE ~(Cardinality(S) >= k)
  <2>1. IsFiniteSet({OnRank}) /\ Cardinality({OnRank}) = 1
    BY FS_Singleton
  <2>2. Cardinality(S) \in Nat /\ Cardinality(S) <= 1
    BY <2>1, FS_Subset, FS_CardinalityType
  <2> QED BY <2>2
<1> QED BY <1>3, <1>4 DEF Doomed

\* Whoever else appends, rotates or is killed: to prune to two files or more
\* leaves the live log and the switch as they were.
THEOREM PruneSparesLiveHolds == Spec => PruneSparesLive
<1>1. ASSUME TInv, NEW k \in Keep, k >= 2, Prune(k)
      PROVE  log' = log /\ on' = on
  <2>1. k \in Nat
    BY LedgerAssumption
  <2>2. LogRank \notin Doomed(k) /\ OnRank \notin Doomed(k)
    BY <1>1, <2>1, LiveSortsLast
  <2> QED BY <1>1, <2>2 DEF Prune, TInv, TypeOK
<1>2. TInv /\ [Next]_vars
        => [\A k \in Keep : k >= 2 /\ Prune(k) => log' = log /\ on' = on]_vars
  BY <1>1
<1> QED BY <1>2, InitType, NextType, PTL DEF Spec, PruneSparesLive
-----------------------------------------------------------------------------
IInv == TInv /\ LedgerIntact /\ Alone /\ Chained /\ Covered

LEMMA StepInv ==
    ASSUME OneAtATime, IInv, TInv', NEW p \in Proc, Step(p)
    PROVE  IInv'
<1> USE DEF IInv, TInv, TypeOK, Goto, Forget, Continue
<1>1. CASE Begin(p)
  <2>1. LedgerIntact'
    BY <1>1 DEF Begin, files, LedgerIntact
  <2>2. Alone' /\ Chained'
    BY <1>1 DEF Begin, files, MayMove, Alone, Chained
  <2>3. Covered'
    BY <1>1 DEF Begin, files, MayMove, Covered, Recorded
  <2> QED BY <2>1, <2>2, <2>3
<1>2. CASE ReadTail(p)
  <2>1. LedgerIntact'
    BY <1>2 DEF ReadTail, files, LedgerIntact
  <2>2. Alone' /\ Chained'
    BY <1>2 DEF ReadTail, files, Alone, Chained
  <2>3. Covered'
    BY <1>2 DEF ReadTail, files, Covered, Recorded
  <2> QED BY <2>1, <2>2, <2>3
<1>3. CASE AppendEntry(p)
  <2> DEFINE e == Entry(prev[p], [ds |-> ds[p], ts |-> ts[p]])
  <2>1. LedgerIntact'
    <3>1. prev[p] = LastHash(log) /\ log' = Append(log, e)
      BY <1>3 DEF AppendEntry, Chained
    <3>2. Verify(log')
      BY <3>1, AppendVerifies DEF LedgerIntact
    <3> QED BY <1>3, <3>2 DEF AppendEntry, LedgerIntact
  <2>2. \A q \in Proc \ {p} : pc[q] = "idle" /\ pc'[q] = "idle"
    BY <1>3 DEF AppendEntry, Alone
  <2>3. Alone' /\ Chained'
    BY <1>3, <2>2 DEF AppendEntry, Alone, Chained
  <2>4. Recorded(version)'
    <3>1. e.body.ds = version
      BY <1>3 DEF AppendEntry, Entry, Covered
    <3>2. Len(log) + 1 \in DOMAIN log' /\ log'[Len(log) + 1] = e
      BY <1>3, AppendShape DEF AppendEntry
    <3> QED BY <1>3, <3>1, <3>2 DEF AppendEntry, Recorded
  <2>5. Covered'
    BY <1>3, <2>2, <2>4 DEF AppendEntry, Covered
  <2> QED BY <2>1, <2>3, <2>5
<1>4. CASE WriteDataset(p)
  <2>1. \A q \in Proc : pc'[q] = "idle"
    BY <1>4 DEF WriteDataset, Alone
  <2>2. LedgerIntact'
    BY <1>4 DEF WriteDataset, files, LedgerIntact
  <2> QED BY <2>1, <2>2 DEF Alone, Chained, Covered
<1>5. CASE Kill(p)
  <2>1. \A q \in Proc : pc'[q] = "idle"
    BY <1>5 DEF Kill, Alone
  <2>2. LedgerIntact'
    BY <1>5 DEF Kill, files, LedgerIntact
  <2> QED BY <2>1, <2>2 DEF Alone, Chained, Covered
<1> QED BY <1>1, <1>2, <1>3, <1>4, <1>5 DEF Step

LEMMA CommandInv ==
    ASSUME OneAtATime, IInv, TInv',
           AtomicWrite \/ Switch \/ Rotate \/ Tick \/ (\E k \in Keep : Prune(k))
    PROVE  IInv'
<1> USE DEF IInv, TInv, TypeOK, proc
<1>1. CASE Tick
  <2>1. LedgerIntact'
    BY <1>1 DEF Tick, files, LedgerIntact
  <2> QED BY <1>1, <2>1 DEF Tick, files, Alone, Chained, Covered, Recorded
<1>2. CASE AtomicWrite \/ Switch \/ Rotate \/ \E k \in Keep : Prune(k)
  <2>1. \A q \in Proc : pc'[q] = "idle"
    BY <1>2 DEF AtomicWrite, Switch, Rotate, Prune, MayMove
  <2>2. Alone' /\ Chained' /\ Covered'
    BY <2>1 DEF Alone, Chained, Covered
  <2>3. CASE AtomicWrite \/ Switch
    BY <2>2, <2>3 DEF AtomicWrite, Switch, files, LedgerIntact
  <2>4. CASE Rotate
    <3>1. LedgerIntact'
      BY <2>4, EmptyLog DEF Rotate, LedgerIntact
    <3> QED BY <2>2, <3>1
  <2>5. CASE \E k \in Keep : Prune(k)
    <3>1. LedgerIntact'
      BY <2>5, EmptyLog DEF Prune, LedgerIntact
    <3> QED BY <2>2, <3>1
  <2> QED BY <1>2, <2>3, <2>4, <2>5
<1> QED BY <1>1, <1>2

LEMMA InitInv == Init => IInv
<1> SUFFICES ASSUME Init PROVE IInv
  OBVIOUS
<1>1. LedgerIntact
  BY EmptyLog DEF Init, LedgerIntact
<1> QED BY <1>1, InitType DEF Init, IInv, Alone, Chained, Covered

LEMMA NextInv == ASSUME OneAtATime PROVE IInv /\ [Next]_vars => IInv'
<1> SUFFICES ASSUME IInv, [Next]_vars PROVE IInv'
  OBVIOUS
<1>1. CASE Next
  BY <1>1, StepType, CommandType, StepInv, CommandInv DEF Next, IInv
<1>2. CASE UNCHANGED vars
  BY <1>2 DEF vars, IInv, TInv, TypeOK, LedgerIntact, Alone, Chained, Covered, Recorded
<1> QED BY <1>1, <1>2

\* As long as commands run one at a time, whatever the hash function, the live
\* log and every rotated one verify, also after kills, rotations and prunes.
THEOREM LedgerVerifies == ASSUME OneAtATime PROVE Spec => []LedgerIntact
<1>1. IInv => LedgerIntact
  BY DEF IInv
<1> QED BY <1>1, InitInv, NextInv, PTL DEF Spec

\* As long as commands run one at a time, a save with the ledger on overwrites
\* only a version the live log has an entry of.
THEOREM OverwrittenIsRecorded == ASSUME OneAtATime PROVE Spec => ReplacedIsRecorded
<1>1. IInv => \A p \in Proc : on /\ WriteDataset(p) => Recorded(version)
  BY DEF IInv, Covered, WriteDataset
<1>2. IInv /\ [Next]_vars
        => [\A p \in Proc : on /\ WriteDataset(p) => Recorded(version)]_vars
  BY <1>1
<1> QED BY <1>2, InitInv, NextInv, PTL DEF Spec, ReplacedIsRecorded
=============================================================================
