---------------------------- MODULE SequenceFacts ----------------------------
(***************************************************************************)
(* Facts about channels and queues, for the proofs about the components:   *)
(* which elements a sequence has after something is appended, or its head  *)
(* taken, and that the order of what was queued is kept.                   *)
(***************************************************************************)
EXTENDS Integers, Sequences, Lists, SequenceTheorems, WellFoundedInduction, TLAPS

\* The head and the tail of a sequence by their positions.
LEMMA TailShape ==
    ASSUME NEW S, NEW s \in Seq(S), s # <<>>
    PROVE  /\ Len(s) \in Nat \ {0} /\ DOMAIN s = 1 .. Len(s)
           /\ Head(s) = s[1] /\ Head(s) \in S
           /\ Tail(s) \in Seq(S) /\ Len(Tail(s)) = Len(s) - 1
           /\ DOMAIN Tail(s) = 1 .. Len(s) - 1
           /\ \A i \in 1 .. Len(s) - 1 : Tail(s)[i] = s[i + 1]
OBVIOUS

\* What is appended is the last one, the others keep their positions.
LEMMA AppendShape ==
    ASSUME NEW S, NEW s \in Seq(S), NEW e \in S
    PROVE  /\ Len(s) \in Nat /\ DOMAIN s = 1 .. Len(s)
           /\ Append(s, e) \in Seq(S) /\ Len(Append(s, e)) = Len(s) + 1
           /\ DOMAIN Append(s, e) = 1 .. Len(s) + 1
           /\ Append(s, e)[Len(s) + 1] = e
           /\ \A i \in 1 .. Len(s) : Append(s, e)[i] = s[i]
OBVIOUS

\* An empty queue has no elements.
LEMMA RangeEmpty == Range(<<>>) = {}
BY DEF Range

\* The elements of a sequence are of its type; those at its positions.
LEMMA RangeType ==
    ASSUME NEW S, NEW s \in Seq(S)
    PROVE  /\ Range(s) \subseteq S
           /\ \A i \in DOMAIN s : s[i] \in Range(s)
           /\ \A x \in Range(s) : \E i \in DOMAIN s : s[i] = x
           /\ Len(s) \in Nat /\ (Len(s) = 0 <=> s = <<>>)
BY DEF Range

\* Appending adds one element ...
LEMMA RangeAppend ==
    ASSUME NEW S, NEW s \in Seq(S), NEW e \in S
    PROVE  Append(s, e) \in Seq(S) /\ Range(Append(s, e)) = Range(s) \cup {e}
<1>1. ASSUME NEW x \in Range(Append(s, e)) PROVE x \in Range(s) \cup {e}
  BY AppendShape DEF Range
<1>2. ASSUME NEW x \in Range(s) PROVE x \in Range(Append(s, e))
  <2>1. PICK i \in 1 .. Len(s) : s[i] = x
    BY AppendShape DEF Range
  <2> QED
    BY <2>1, AppendShape DEF Range
<1>3. e \in Range(Append(s, e))
  BY AppendShape DEF Range
<1> QED
  BY <1>1, <1>2, <1>3, AppendShape

\* ... and taking the head leaves the others.
LEMMA RangeTail ==
    ASSUME NEW S, NEW s \in Seq(S), s # <<>>
    PROVE  /\ Head(s) \in S /\ Tail(s) \in Seq(S)
           /\ Len(s) \in Nat \ {0} /\ Len(Tail(s)) = Len(s) - 1
           /\ Range(s) = {Head(s)} \cup Range(Tail(s))
<1>1. ASSUME NEW x \in Range(s) PROVE x \in {Head(s)} \cup Range(Tail(s))
  <2>1. PICK i \in 1 .. Len(s) : s[i] = x
    BY TailShape DEF Range
  <2>2. CASE i = 1
    BY <2>1, <2>2, TailShape
  <2>3. CASE i # 1
    <3>1. i - 1 \in 1 .. Len(s) - 1 /\ (i - 1) + 1 = i
      BY <2>1, <2>3, TailShape
    <3>2. Tail(s)[i - 1] = x
      BY <2>1, <3>1, TailShape
    <3> QED
      BY <3>1, <3>2, TailShape DEF Range
  <2> QED
    BY <2>2, <2>3
<1>2. ASSUME NEW x \in Range(Tail(s)) PROVE x \in Range(s)
  <2>1. PICK i \in 1 .. Len(s) - 1 : s[i + 1] = x
    BY TailShape DEF Range
  <2>2. i + 1 \in 1 .. Len(s)
    BY <2>1, TailShape
  <2> QED
    BY <2>1, <2>2, TailShape DEF Range
<1>3. Head(s) \in Range(s)
  BY TailShape DEF Range
<1> QED
  BY <1>1, <1>2, <1>3, TailShape

(***************************************************************************)
(* Sequences of which any two elements are related: no two of them are     *)
(* answers, no two of them have the same key, ...                          *)
(***************************************************************************)
Pairwise(s, R) == \A i, j \in DOMAIN s : i # j => <<s[i], s[j]>> \in R

\* An empty sequence has no two elements.
LEMMA PairwiseEmpty == ASSUME NEW R PROVE Pairwise(<<>>, R)
BY DEF Pairwise

\* Without its head it stays one, and what was the head is related to the others.
LEMMA PairwiseTail ==
    ASSUME NEW S, NEW s \in Seq(S), s # <<>>, NEW R, Pairwise(s, R)
    PROVE  /\ Pairwise(Tail(s), R)
           /\ \A m \in Range(Tail(s)) : <<Head(s), m>> \in R /\ <<m, Head(s)>> \in R
<1>1. ASSUME NEW i \in DOMAIN Tail(s), NEW j \in DOMAIN Tail(s), i # j
      PROVE  <<Tail(s)[i], Tail(s)[j]>> \in R
  <2>1. i + 1 \in DOMAIN s /\ j + 1 \in DOMAIN s /\ i + 1 # j + 1
    BY <1>1, TailShape
  <2>2. Tail(s)[i] = s[i + 1] /\ Tail(s)[j] = s[j + 1]
    BY <1>1, TailShape
  <2> QED
    BY <2>1, <2>2 DEF Pairwise
<1>2. ASSUME NEW m \in Range(Tail(s))
      PROVE  <<Head(s), m>> \in R /\ <<m, Head(s)>> \in R
  <2>1. PICK i \in 1 .. Len(s) - 1 : s[i + 1] = m
    BY TailShape DEF Range
  <2>2. i + 1 \in DOMAIN s /\ 1 \in DOMAIN s /\ i + 1 # 1 /\ Head(s) = s[1]
    BY <2>1, TailShape
  <2> QED
    BY <2>1, <2>2 DEF Pairwise
<1> QED
  BY <1>1, <1>2 DEF Pairwise

\* What is appended must be related to all the others.
LEMMA PairwiseAppend ==
    ASSUME NEW S, NEW s \in Seq(S), NEW e \in S, NEW R, Pairwise(s, R),
           \A m \in Range(s) : <<m, e>> \in R /\ <<e, m>> \in R
    PROVE  Pairwise(Append(s, e), R)
<1> SUFFICES ASSUME NEW i \in DOMAIN Append(s, e), NEW j \in DOMAIN Append(s, e), i # j
             PROVE  <<Append(s, e)[i], Append(s, e)[j]>> \in R
  BY DEF Pairwise
<1>1. CASE i \in 1 .. Len(s) /\ j \in 1 .. Len(s)
  BY <1>1, AppendShape DEF Pairwise
<1>2. CASE i \in 1 .. Len(s) /\ j = Len(s) + 1
  <2>1. s[i] \in Range(s) /\ Append(s, e)[i] = s[i] /\ Append(s, e)[j] = e
    BY <1>2, AppendShape, RangeType
  <2> QED
    BY <2>1
<1>3. CASE i = Len(s) + 1 /\ j \in 1 .. Len(s)
  <2>1. s[j] \in Range(s) /\ Append(s, e)[j] = s[j] /\ Append(s, e)[i] = e
    BY <1>3, AppendShape, RangeType
  <2> QED
    BY <2>1
<1>4. \A k \in DOMAIN Append(s, e) : k \in 1 .. Len(s) \/ k = Len(s) + 1
  BY AppendShape
<1> QED
  BY <1>1, <1>2, <1>3, <1>4

\* Two sequences, one after the other.
LEMMA PairwiseConcat ==
    ASSUME NEW S, NEW s \in Seq(S), NEW t \in Seq(S), NEW R,
           Pairwise(s, R), Pairwise(t, R),
           \A m \in Range(s), n \in Range(t) : <<m, n>> \in R /\ <<n, m>> \in R
    PROVE  Pairwise(s \o t, R)
<1> DEFINE u == s \o t
<1>1. /\ Len(s) \in Nat /\ Len(t) \in Nat /\ Len(u) = Len(s) + Len(t)
      /\ DOMAIN s = 1 .. Len(s) /\ DOMAIN t = 1 .. Len(t) /\ DOMAIN u = 1 .. Len(u)
      /\ \A i \in 1 .. Len(s) : u[i] = s[i]
      /\ \A i \in 1 .. Len(t) : u[Len(s) + i] = t[i]
  OBVIOUS
<1>2. \A i \in DOMAIN u : i \in DOMAIN s \/ \E k \in DOMAIN t : i = Len(s) + k
  <2> SUFFICES ASSUME NEW i \in DOMAIN u, i \notin DOMAIN s
               PROVE  \E k \in DOMAIN t : i = Len(s) + k
    OBVIOUS
  <2>1. i - Len(s) \in DOMAIN t /\ i = Len(s) + (i - Len(s))
    BY <1>1
  <2> QED
    BY <2>1
<1> HIDE DEF u
<1> SUFFICES ASSUME NEW i \in DOMAIN u, NEW j \in DOMAIN u, i # j
             PROVE  <<u[i], u[j]>> \in R
  BY DEF Pairwise, u
<1>3. CASE i \in DOMAIN s /\ j \in DOMAIN s
  BY <1>1, <1>3 DEF Pairwise
<1>4. CASE i \in DOMAIN s /\ \E k \in DOMAIN t : j = Len(s) + k
  <2>1. u[i] \in Range(s) /\ u[j] \in Range(t)
    BY <1>1, <1>4 DEF Range
  <2> QED
    BY <2>1
<1>5. CASE j \in DOMAIN s /\ \E k \in DOMAIN t : i = Len(s) + k
  <2>1. u[j] \in Range(s) /\ u[i] \in Range(t)
    BY <1>1, <1>5 DEF Range
  <2> QED
    BY <2>1
<1>6. CASE /\ \E k \in DOMAIN t : i = Len(s) + k
           /\ \E k \in DOMAIN t : j = Len(s) + k
  <2>1. PICK k \in DOMAIN t : i = Len(s) + k
    BY <1>6
  <2>2. PICK l \in DOMAIN t : j = Len(s) + l
    BY <1>6
  <2>3. k # l /\ u[i] = t[k] /\ u[j] = t[l]
    BY <1>1, <2>1, <2>2
  <2> QED
    BY <2>3 DEF Pairwise
<1> QED
  BY <1>2, <1>3, <1>4, <1>5, <1>6

(***************************************************************************)
(* Induction over the numbers.                                             *)
(***************************************************************************)

\* A set of numbers has a least one, ...
LEMMA LeastNumber ==
    ASSUME NEW S \in SUBSET Nat, S # {}
    PROVE  \E n \in S : \A m \in S : n <= m
<1>1. PICK n \in S : \A m \in S : ~ (<<m, n>> \in OpToRel(<, Nat))
  BY NatLessThanWellFounded, WFMin
<1>2. \A m \in S : ~(m < n)
  BY <1>1 DEF OpToRel
<1>3. n \in S
  BY <1>1
<1> QED
  BY <1>2, <1>3

\* ... so that one with 0 and all successors has them all.
LEMMA Induction ==
    ASSUME NEW S, 0 \in S, \A n \in Nat : n \in S => n + 1 \in S
    PROVE  \A n \in Nat : n \in S
<1> SUFFICES ASSUME Nat \ S # {} PROVE FALSE
  OBVIOUS
<1>1. PICK n \in Nat \ S : \A m \in Nat \ S : n <= m
  BY LeastNumber
<1>2. n # 0 /\ n - 1 \in Nat /\ n - 1 \in S
  BY <1>1
<1>3. n - 1 + 1 \in S /\ n - 1 + 1 = n
  BY <1>2
<1> QED
  BY <1>1, <1>3

(***************************************************************************)
(* A list without some elements.                                           *)
(***************************************************************************)

\* It is built along the list.
LEMMA MinusSteps ==
    ASSUME NEW S, NEW s \in Seq(S), NEW K
    PROVE  \E f : /\ f[0] = <<>> /\ SeqMinus(s, K) = f[Len(s)]
                  /\ \A n \in 1 .. Len(s) :
                       f[n] = IF s[n] \in K THEN f[n - 1] ELSE Append(f[n - 1], s[n])
<1> DEFINE step(f, n) == IF n = 0 THEN <<>>
                         ELSE IF s[n] \in K THEN f[n - 1] ELSE Append(f[n - 1], s[n])
           Built(f, m) == f = [n \in 0 .. m |-> step(f, n)]
           M == {m \in Nat : \E f : Built(f, m)}
<1>1. 0 \in M
  <2> DEFINE f == [n \in 0 .. 0 |-> <<>>]
  <2>1. Built(f, 0)
    OBVIOUS
  <2> QED
    BY <2>1
<1>2. ASSUME NEW m \in Nat, NEW f, Built(f, m) PROVE \E g : Built(g, m + 1)
  <2> DEFINE g == [n \in 0 .. m + 1 |-> IF n = m + 1 THEN step(f, n) ELSE f[n]]
  <2>1. \A n \in 0 .. m : f[n] = step(f, n)
    BY <1>2
  <2>2. \A n \in 0 .. m : g[n] = f[n]
    OBVIOUS
  <2>3. ASSUME NEW n \in 0 .. m + 1 PROVE g[n] = step(g, n)
    <3>1. n # 0 => n - 1 \in 0 .. m /\ g[n - 1] = f[n - 1]
      BY <2>2
    <3>2. step(g, n) = step(f, n)
      <4> HIDE DEF g
      <4> QED
        BY <3>1
    <3> QED
      BY <2>1, <3>2
  <2>4. g = [n \in 0 .. m + 1 |-> g[n]]
    OBVIOUS
  <2> HIDE DEF g
  <2>5. Built(g, m + 1)
    BY <2>3, <2>4
  <2> QED
    BY <2>5
<1>3. Len(s) \in M
  <2> HIDE DEF Built
  <2>1. \A n \in Nat : n \in M => n + 1 \in M
    BY <1>2
  <2> HIDE DEF M
  <2> QED
    BY <1>1, <2>1, Induction
<1> DEFINE h == CHOOSE f : Built(f, Len(s))
<1>4. Built(h, Len(s))
  BY <1>3
<1>5. SeqMinus(s, K) = h[Len(s)]
  BY DEF SeqMinus
<1> HIDE DEF h
<1>6. \A n \in 0 .. Len(s) : h[n] = step(h, n)
  BY <1>4
<1>7. h[0] = <<>> /\ \A n \in 1 .. Len(s) : h[n] = step(h, n) /\ n # 0
  BY <1>6
<1> QED
  BY <1>5, <1>7
\* No element comes twice.
Distinct(s) == \A i, j \in DOMAIN s : s[i] = s[j] => i = j

\* It has the other elements, no element twice if the list has none, and is
\* not longer.
LEMMA MinusFacts ==
    ASSUME NEW S, NEW s \in Seq(S), NEW K
    PROVE  /\ SeqMinus(s, K) \in Seq(S)
           /\ Range(SeqMinus(s, K)) = Range(s) \ K
           /\ Len(SeqMinus(s, K)) \in Nat /\ Len(SeqMinus(s, K)) <= Len(s)
           /\ Distinct(s) => Distinct(SeqMinus(s, K))
<1> DEFINE taken(n) == {s[i] : i \in 1 .. n}
<1>1. PICK f : /\ f[0] = <<>> /\ SeqMinus(s, K) = f[Len(s)]
               /\ \A n \in 1 .. Len(s) :
                    f[n] = IF s[n] \in K THEN f[n - 1] ELSE Append(f[n - 1], s[n])
  BY MinusSteps
<1> DEFINE Good(n) == /\ f[n] \in Seq(S)
                      /\ Range(f[n]) = taken(n) \ K
                      /\ Len(f[n]) \in Nat /\ Len(f[n]) <= n
                      /\ Distinct(s) => Distinct(f[n])
           N == {n \in Nat : n <= Len(s) => Good(n)}
<1>2. 0 \in N
  <2>1. Range(<<>>) = {} /\ taken(0) = {} /\ Distinct(<<>>) /\ <<>> \in Seq(S) /\ Len(<<>>) = 0
    BY RangeEmpty DEF Distinct
  <2>2. Good(0)
    <3> HIDE DEF taken
    <3> QED
      BY <1>1, <2>1
  <2> QED
    BY <2>2
<1>3. ASSUME NEW n \in Nat, n \in N, n + 1 <= Len(s) PROVE Good(n + 1)
  <2>1. Good(n) /\ Len(s) \in Nat /\ n + 1 \in 1 .. Len(s) /\ n + 1 - 1 = n /\ s[n + 1] \in S
    BY <1>3
  <2>2. f[n + 1] = IF s[n + 1] \in K THEN f[n] ELSE Append(f[n], s[n + 1])
    BY <1>1, <2>1
  <2>3. taken(n + 1) = taken(n) \cup {s[n + 1]}
    <3>1. 1 .. n + 1 = (1 .. n) \cup {n + 1}
      OBVIOUS
    <3> QED
      BY <3>1
  <2> HIDE DEF taken
  <2>4. CASE s[n + 1] \in K
    BY <2>1, <2>2, <2>3, <2>4
  <2>5. CASE s[n + 1] \notin K
    <3>1. f[n + 1] = Append(f[n], s[n + 1])
      BY <2>2, <2>5
    <3>2. f[n + 1] \in Seq(S) /\ Range(f[n + 1]) = Range(f[n]) \cup {s[n + 1]}
      BY <3>1, <2>1, RangeAppend
    <3>3. Range(f[n + 1]) = taken(n + 1) \ K
      BY <3>2, <2>1, <2>3, <2>5
    <3>4. Len(f[n + 1]) = Len(f[n]) + 1
      BY <3>1, <2>1, AppendShape
    <3>5. ASSUME Distinct(s) PROVE Distinct(f[n + 1])
      <4>1. s[n + 1] \notin taken(n)
        <5>1. \A i \in 1 .. n : i \in DOMAIN s /\ n + 1 \in DOMAIN s /\ i # n + 1
          BY <2>1
        <5> QED
          BY <5>1, <3>5 DEF Distinct, taken
      <4>2. s[n + 1] \notin Range(f[n])
        BY <4>1, <2>1
      <4>3. /\ DOMAIN f[n + 1] = 1 .. Len(f[n]) + 1 /\ DOMAIN f[n] = 1 .. Len(f[n])
            /\ f[n + 1][Len(f[n]) + 1] = s[n + 1]
            /\ \A i \in 1 .. Len(f[n]) : f[n + 1][i] = f[n][i] /\ f[n][i] \in Range(f[n])
        BY <3>1, <2>1, AppendShape, RangeType
      <4>4. Distinct(f[n])
        BY <2>1, <3>5
      <4> DEFINE l == Len(f[n])
      <4>5. l \in Nat
        BY <2>1
      <4> HIDE DEF l, Good
      <4> SUFFICES ASSUME NEW i \in 1 .. l + 1, NEW j \in 1 .. l + 1, f[n + 1][i] = f[n + 1][j]
                   PROVE  i = j
        BY <4>3 DEF Distinct, l
      <4>6. CASE i \in 1 .. l /\ j \in 1 .. l
        BY <4>3, <4>4, <4>6 DEF Distinct, l
      <4>7. ~(i \in 1 .. l /\ j = l + 1) /\ ~(j \in 1 .. l /\ i = l + 1)
        BY <4>2, <4>3 DEF l
      <4> QED
        BY <4>5, <4>6, <4>7
    <3> QED
      BY <3>2, <3>3, <3>4, <3>5, <2>1
  <2> QED
    BY <2>4, <2>5
<1>4. \A n \in Nat : n \in N
  <2> HIDE DEF Good
  <2>1. \A n \in Nat : n \in N => n + 1 \in N
    BY <1>3
  <2> HIDE DEF N
  <2> QED
    BY <1>2, <2>1, Induction
<1>5. Good(Len(s)) /\ taken(Len(s)) = Range(s)
  <2>1. Len(s) \in Nat /\ DOMAIN s = 1 .. Len(s)
    OBVIOUS
  <2>2. taken(Len(s)) = Range(s)
    BY <2>1 DEF Range
  <2> HIDE DEF Good, taken
  <2>3. Len(s) \in N
    BY <2>1, <1>4
  <2> QED
    BY <2>1, <2>2, <2>3
<1> QED
  BY <1>1, <1>5

\* Without its first m elements it is what comes after them.
LEMMA MinusFirst ==
    ASSUME NEW S, NEW s \in Seq(S), Distinct(s), NEW m \in Nat, m <= Len(s)
    PROVE  LET u == SeqMinus(s, {s[i] : i \in 1 .. m})
           IN  /\ u \in Seq(S) /\ Len(u) = Len(s) - m
               /\ \A i \in 1 .. Len(s) - m : u[i] = s[m + i]
<1> DEFINE K == {s[i] : i \in 1 .. m}
<1>1. PICK f : /\ f[0] = <<>> /\ SeqMinus(s, K) = f[Len(s)]
               /\ \A n \in 1 .. Len(s) :
                    f[n] = IF s[n] \in K THEN f[n - 1] ELSE Append(f[n - 1], s[n])
  <2> HIDE DEF K
  <2> QED
    BY MinusSteps
<1>2. \A n \in 1 .. Len(s) : s[n] \in K <=> n <= m
  <2>1. ASSUME NEW n \in 1 .. Len(s), s[n] \in K PROVE n <= m
    <3>1. PICK i \in 1 .. m : s[n] = s[i]
      BY <2>1
    <3>2. i \in DOMAIN s /\ n \in DOMAIN s
      OBVIOUS
    <3>3. n = i
      BY <3>1, <3>2 DEF Distinct
    <3> QED
      BY <3>3
  <2>2. ASSUME NEW n \in 1 .. Len(s), n <= m PROVE s[n] \in K
    <3>1. n \in 1 .. m
      BY <2>2
    <3> QED
      BY <3>1
  <2> QED
    BY <2>1, <2>2
<1> HIDE DEF K
<1> DEFINE Rest(n) == IF n <= m THEN f[n] = <<>>
                      ELSE /\ f[n] \in Seq(S) /\ Len(f[n]) = n - m
                           /\ \A i \in 1 .. n - m : f[n][i] = s[m + i]
           N == {n \in Nat : n <= Len(s) => Rest(n)}
<1>3. 0 \in N
  BY <1>1
<1>4. ASSUME NEW n \in Nat, n \in N, n + 1 <= Len(s) PROVE Rest(n + 1)
  <2>1. Rest(n) /\ Len(s) \in Nat /\ n + 1 \in 1 .. Len(s) /\ n + 1 - 1 = n /\ s[n + 1] \in S
    BY <1>4
  <2>2. f[n + 1] = IF n + 1 <= m THEN f[n] ELSE Append(f[n], s[n + 1])
    BY <1>1, <1>2, <2>1
  <2>3. CASE n + 1 <= m
    BY <2>1, <2>2, <2>3
  <2>4. CASE ~(n + 1 <= m)
    <3>1. f[n] \in Seq(S) /\ Len(f[n]) = n - m /\ \A i \in 1 .. n - m : f[n][i] = s[m + i]
      <4>1. CASE n = m
        <5>1. f[n] = <<>> /\ n - m = 0 /\ <<>> \in Seq(S) /\ Len(<<>>) = 0 /\ 1 .. 0 = {}
          BY <4>1, <2>1
        <5> QED
          BY <5>1
      <4>2. CASE n # m
        BY <4>2, <2>1, <2>4
      <4> QED
        BY <4>1, <4>2
    <3>2. f[n + 1] = Append(f[n], s[n + 1])
      BY <2>2, <2>4
    <3>3. /\ f[n + 1] \in Seq(S) /\ Len(f[n + 1]) = n + 1 - m
          /\ f[n + 1][n - m + 1] = s[n + 1]
          /\ \A i \in 1 .. n - m : f[n + 1][i] = f[n][i]
      <4>1. n - m + 1 = Len(f[n]) + 1 /\ n + 1 - m = Len(f[n]) + 1 /\ f[n] \in Seq(S)
        BY <3>1
      <4> HIDE DEF Rest
      <4>2. /\ f[n + 1] \in Seq(S) /\ Len(f[n + 1]) = Len(f[n]) + 1
            /\ f[n + 1][Len(f[n]) + 1] = s[n + 1]
            /\ \A i \in 1 .. Len(f[n]) : f[n + 1][i] = f[n][i]
        BY <4>1, <3>2, <2>1, AppendShape
      <4> QED
        BY <4>1, <4>2, <3>1
    <3>4. ASSUME NEW i \in 1 .. n + 1 - m PROVE f[n + 1][i] = s[m + i]
      <4>1. CASE i = n + 1 - m
        <5>1. m + i = n + 1 /\ i = n - m + 1
          BY <4>1, <2>4
        <5> QED
          BY <5>1, <3>3
      <4>2. CASE i # n + 1 - m
        <5>1. i \in 1 .. n - m
          BY <4>2, <2>4
        <5> QED
          BY <5>1, <3>1, <3>3
      <4> QED
        BY <4>1, <4>2
    <3> QED
      BY <3>3, <3>4, <2>4
  <2> QED
    BY <2>3, <2>4
<1>5. \A n \in Nat : n \in N
  <2> HIDE DEF Rest
  <2>1. \A n \in Nat : n \in N => n + 1 \in N
    BY <1>4
  <2> HIDE DEF N
  <2> QED
    BY <1>3, <2>1, Induction
<1>6. Rest(Len(s)) /\ Len(s) \in Nat
  <2>1. Len(s) \in Nat
    OBVIOUS
  <2> HIDE DEF Rest
  <2>2. Len(s) \in N
    BY <2>1, <1>5
  <2> QED
    BY <2>1, <2>2
<1>7. LET u == f[Len(s)]
      IN  /\ u \in Seq(S) /\ Len(u) = Len(s) - m
          /\ \A i \in 1 .. Len(s) - m : u[i] = s[m + i]
  <2>1. CASE Len(s) = m
    <3>1. f[Len(s)] = <<>> /\ Len(s) - m = 0 /\ <<>> \in Seq(S) /\ Len(<<>>) = 0 /\ 1 .. 0 = {}
      BY <2>1, <1>6
    <3> QED
      BY <3>1
  <2>2. CASE Len(s) # m
    BY <2>2, <1>6
  <2> QED
    BY <2>1, <2>2
<1> QED
  BY <1>1, <1>7 DEF K
=============================================================================
