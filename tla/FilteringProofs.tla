--------------------------- MODULE FilteringProofs ---------------------------
(***************************************************************************)
(* What Filter makes of a sequence that is built step by step.             *)
(*                                                                         *)
(* These facts need induction over the sequence.  The library's induction  *)
(* theorems take the property as an operator, which the provers cannot     *)
(* instantiate.  Here the property is a set, of the numbers or sequences   *)
(* that have it, and induction follows from the least element of the rest. *)
(***************************************************************************)
EXTENDS Filtering, Integers, SequenceTheorems, WellFoundedInduction, TLAPS

(* Every set of natural numbers that is not empty has a least element.     *)
LEMMA LeastElement ==
  ASSUME NEW S \in SUBSET Nat, S # {}
  PROVE  \E m \in S : \A n \in S : m <= n
<1> DEFINE R == OpToRel(<, Nat)
<1>1. \A x, y \in Nat : x < y => <<x, y>> \in R  BY DEF OpToRel
<1>2. IsWellFoundedOn(R, Nat)  BY NatLessThanWellFounded
<1> HIDE DEF R
<1>3. PICK m \in S : \A n \in S : <<n, m>> \notin R  BY <1>2, WFMin
<1>4. ASSUME NEW n \in S PROVE m <= n
  <2>1. m \in Nat /\ n \in Nat  OBVIOUS
  <2>2. ~(n < m)  BY <1>1, <1>3, <2>1
  <2> QED  BY <2>1, <2>2
<1> QED  BY <1>4

(* And every set of numbers below a bound a greatest one.                  *)
LEMMA GreatestElement ==
  ASSUME NEW n \in Nat, NEW S \in SUBSET (1..n), S # {}
  PROVE  \E m \in S : \A k \in S : m >= k
<1> DEFINE D == {d \in Nat : n - d \in S}
<1>1. D \in SUBSET Nat /\ D # {}
  <2>1. PICK k \in S : TRUE  OBVIOUS
  <2>2. n - k \in Nat /\ n - (n - k) = k  BY <2>1
  <2> QED  BY <2>1, <2>2
<1>2. PICK d \in D : \A e \in D : d <= e
  <2> HIDE DEF D
  <2> QED  BY <1>1, LeastElement
<1>3. n - d \in S  OBVIOUS
<1>4. ASSUME NEW k \in S PROVE n - d >= k
  <2>1. n - k \in D
    <3>1. n - k \in Nat /\ n - (n - k) = k  OBVIOUS
    <3> QED  BY <3>1
  <2>2. d <= n - k /\ d \in Nat /\ k \in Nat  BY <1>2, <2>1
  <2> QED  BY <2>2
<1> QED  BY <1>3, <1>4

(* Induction, for a property that is given as the set of its numbers.      *)
LEMMA Induction ==
  ASSUME NEW T, 0 \in T, \A n \in Nat : n \in T => n + 1 \in T
  PROVE  Nat \subseteq T
<1> SUFFICES ASSUME Nat \ T # {} PROVE FALSE  OBVIOUS
<1>1. PICK m \in Nat \ T : \A n \in Nat \ T : m <= n  BY LeastElement
<1>2. m # 0 /\ m - 1 \in Nat  BY <1>1
<1>3. m - 1 \in T  BY <1>1, <1>2
<1>4. (m - 1) + 1 = m BY <1>1
<1> QED  BY <1>1, <1>2, <1>3, <1>4

LEMMA SequenceInduction ==
  ASSUME NEW X, NEW T, <<>> \in T,
         \A p \in Seq(X), e \in X : p \in T => Append(p, e) \in T
  PROVE  Seq(X) \subseteq T
<1> DEFINE N == {n \in Nat : \A q \in Seq(X) : Len(q) = n => q \in T}
<1>1. 0 \in N
  <2>1. \A q \in Seq(X) : Len(q) = 0 => q = <<>>  OBVIOUS
  <2> QED  BY <2>1
<1>2. ASSUME NEW n \in Nat, n \in N PROVE n + 1 \in N
  <2>1. ASSUME NEW q \in Seq(X), Len(q) = n + 1 PROVE q \in T
    <3> DEFINE p == SubSeq(q, 1, n)
    <3>1. p \in Seq(X) /\ Len(p) = n /\ q[n + 1] \in X  BY <2>1
    <3>2. q = Append(p, q[n + 1])  BY <2>1
    <3> HIDE DEF p
    <3>3. p \in T  BY <1>2, <3>1
    <3> QED  BY <3>1, <3>2, <3>3
  <2> QED  BY <2>1
<1>3. Nat \subseteq N
  <2> HIDE DEF N
  <2> QED  BY <1>1, <1>2, Induction
<1>4. ASSUME NEW q \in Seq(X) PROVE q \in T
  <2>1. Len(q) \in Nat  OBVIOUS
  <2> QED  BY <1>3, <2>1
<1> QED  BY <1>4

----------------------------------------------------------------------------
(* The recursion that defines Filter.                                      *)

Picks(f, seq, S, k) ==
  /\ DOMAIN f = 0..k
  /\ f[0] = <<>>
  /\ \A n \in 1..k : f[n] = IF seq[n] \in S THEN Append(f[n - 1], seq[n]) ELSE f[n - 1]

Unfolds(f, seq, S, k) ==
  f = [n \in 0..k |-> IF n = 0 THEN <<>>
                      ELSE IF seq[n] \in S THEN Append(f[n - 1], seq[n])
                      ELSE f[n - 1]]

LEMMA UnfoldsPicks ==
  ASSUME NEW f, NEW seq, NEW S, NEW k \in Nat, Unfolds(f, seq, S, k)
  PROVE  Picks(f, seq, S, k)
<1>1. DOMAIN f = 0..k  BY DEF Unfolds
<1>2. f[0] = <<>>  BY DEF Unfolds
<1>3. ASSUME NEW n \in 1..k
      PROVE  f[n] = IF seq[n] \in S THEN Append(f[n - 1], seq[n]) ELSE f[n - 1]
  <2> DEFINE g == [m \in 0..k |-> IF m = 0 THEN <<>>
                                 ELSE IF seq[m] \in S THEN Append(f[m - 1], seq[m])
                                 ELSE f[m - 1]]
  <2>1. f = g  BY DEF Unfolds
  <2>2. n \in 0..k /\ n # 0  BY <1>3
  <2>3. g[n] = IF seq[n] \in S THEN Append(f[n - 1], seq[n]) ELSE f[n - 1]  BY <2>2
  <2> HIDE DEF g
  <2> QED  BY <2>1, <2>3
<1> QED  BY <1>1, <1>2, <1>3 DEF Picks

LEMMA UnfoldsExists ==
  ASSUME NEW seq, NEW S
  PROVE  \A k \in Nat : \E f : Unfolds(f, seq, S, k)
<1> DEFINE T == {k \in Nat : \E f : Unfolds(f, seq, S, k)}
<1>1. 0 \in T
  <2> DEFINE f == [n \in 0..0 |-> <<>>]
  <2>1. Unfolds(f, seq, S, 0)
    <3>1. \A n \in 0..0 : n = 0  OBVIOUS
    <3> QED  BY <3>1 DEF Unfolds
  <2> QED  BY <2>1
<1>2. ASSUME NEW k \in Nat, k \in T PROVE k + 1 \in T
  <2>1. PICK f : Unfolds(f, seq, S, k)  BY <1>2
  <2>2. Picks(f, seq, S, k)  BY <2>1, UnfoldsPicks
  <2> DEFINE last == IF seq[k + 1] \in S THEN Append(f[k], seq[k + 1]) ELSE f[k]
             g == [n \in 0..(k + 1) |-> IF n = k + 1 THEN last ELSE f[n]]
  <2>3. ASSUME NEW n \in 0..(k + 1)
        PROVE  g[n] = IF n = 0 THEN <<>>
                      ELSE IF seq[n] \in S THEN Append(g[n - 1], seq[n])
                      ELSE g[n - 1]
    <3>1. CASE n = k + 1
      <4>1. n # 0 /\ n - 1 = k /\ k \in 0..(k + 1) /\ k # k + 1  BY <3>1
      <4>2. g[n] = last /\ g[n - 1] = f[k]  BY <3>1, <4>1
      <4> HIDE DEF g
      <4> QED  BY <3>1, <4>1, <4>2
    <3>2. CASE n # k + 1
      <4>1. n \in 0..k  BY <3>2
      <4>2. g[n] = f[n]  BY <3>2
      <4>3. n # 0 => g[n - 1] = f[n - 1] /\ n \in 1..k
        <5>1. n # 0 => n - 1 \in 0..(k + 1) /\ n - 1 # k + 1  BY <4>1
        <5> QED  BY <4>1, <5>1
      <4> HIDE DEF g
      <4> QED  BY <2>2, <4>1, <4>2, <4>3 DEF Picks
    <3> QED  BY <3>1, <3>2
  <2>4. g = [n \in 0..(k + 1) |-> g[n]]  OBVIOUS
  <2> HIDE DEF g
  <2>5. Unfolds(g, seq, S, k + 1)  BY <2>3, <2>4 DEF Unfolds
  <2> QED  BY <2>5
<1>3. Nat \subseteq T
  <2> HIDE DEF T
  <2> QED  BY <1>1, <1>2, Induction
<1> QED  BY <1>3

LEMMA FilterValue ==
  ASSUME NEW seq, NEW S, Len(seq) \in Nat
  PROVE  \E f : Picks(f, seq, S, Len(seq)) /\ Filter(seq, S) = f[Len(seq)]
<1> DEFINE f == CHOOSE g : Unfolds(g, seq, S, Len(seq))
<1>1. Unfolds(f, seq, S, Len(seq))  BY UnfoldsExists
<1>2. Filter(seq, S) = f[Len(seq)]  BY DEF Filter, Unfolds
<1> HIDE DEF f
<1> QED  BY <1>1, <1>2, UnfoldsPicks

(* The recursion looks at no more than the elements that it has passed.    *)
LEMMA PicksAgree ==
  ASSUME NEW f, NEW g, NEW seq, NEW other, NEW S, NEW j \in Nat, NEW k \in Nat,
         Picks(f, seq, S, j), Picks(g, other, S, k), j <= k,
         \A n \in 1..j : seq[n] = other[n]
  PROVE  f[j] = g[j]
<1> DEFINE T == {n \in Nat : n <= j => f[n] = g[n]}
<1>1. 0 \in T  BY DEF Picks
<1>2. ASSUME NEW n \in Nat, n \in T PROVE n + 1 \in T
  <2> SUFFICES ASSUME n + 1 <= j PROVE f[n + 1] = g[n + 1]
    OBVIOUS
  <2>1. n + 1 \in 1..j /\ n + 1 \in 1..k /\ (n + 1) - 1 = n /\ n <= j  OBVIOUS
  <2>2. f[n] = g[n]  BY <1>2, <2>1
  <2>3. f[n + 1] = IF seq[n + 1] \in S THEN Append(f[n], seq[n + 1]) ELSE f[n]
    BY <2>1 DEF Picks
  <2>4. g[n + 1] = IF other[n + 1] \in S THEN Append(g[n], other[n + 1]) ELSE g[n]
    BY <2>1 DEF Picks
  <2> QED  BY <2>1, <2>2, <2>3, <2>4
<1>3. Nat \subseteq T
  <2> HIDE DEF T
  <2> QED  BY <1>1, <1>2, Induction
<1> QED  BY <1>3

----------------------------------------------------------------------------
(* What Filter makes of the sequences that the models build.               *)

LEMMA FilterEmpty == \A S : Filter(<<>>, S) = <<>>
<1> TAKE S
<1>1. Len(<<>>) = 0  OBVIOUS
<1>2. PICK f : Picks(f, <<>>, S, 0) /\ Filter(<<>>, S) = f[0]
  <2> DEFINE e == <<>>
  <2>1. Len(e) \in Nat  BY <1>1
  <2> HIDE DEF e
  <2>2. \E f : Picks(f, e, S, Len(e)) /\ Filter(e, S) = f[Len(e)]  BY <2>1, FilterValue
  <2> QED  BY <1>1, <2>2 DEF e
<1> QED  BY <1>2 DEF Picks

LEMMA FilterAppend ==
  ASSUME NEW X, NEW seq \in Seq(X), NEW e \in X, NEW S
  PROVE  Filter(Append(seq, e), S)
           = IF e \in S THEN Append(Filter(seq, S), e) ELSE Filter(seq, S)
<1> DEFINE longer == Append(seq, e)
           n == Len(seq)
<1>1. /\ n \in Nat /\ Len(longer) = n + 1 /\ longer[n + 1] = e
      /\ \A i \in 1..n : longer[i] = seq[i]
  OBVIOUS
<1> HIDE DEF longer, n
<1>2. PICK f : Picks(f, seq, S, n) /\ Filter(seq, S) = f[n]
  BY <1>1, FilterValue DEF n
<1>3. PICK g : Picks(g, longer, S, n + 1) /\ Filter(longer, S) = g[n + 1]
  <2>1. Len(longer) \in Nat  BY <1>1
  <2>2. \E g : Picks(g, longer, S, Len(longer)) /\ Filter(longer, S) = g[Len(longer)]
    BY <2>1, FilterValue
  <2> QED  BY <1>1, <2>2
<1>4. f[n] = g[n]
  <2>1. n <= n + 1 /\ n + 1 \in Nat /\ \A i \in 1..n : seq[i] = longer[i]  BY <1>1
  <2> QED  BY <1>1, <1>2, <1>3, <2>1, PicksAgree
<1>5. g[n + 1] = IF longer[n + 1] \in S THEN Append(g[n], longer[n + 1]) ELSE g[n]
  <2>1. n + 1 \in 1..(n + 1) /\ (n + 1) - 1 = n  BY <1>1
  <2> QED  BY <1>3, <2>1 DEF Picks
<1> QED  BY <1>1, <1>2, <1>3, <1>4, <1>5 DEF longer

LEMMA FilterType ==
  ASSUME NEW X, NEW seq \in Seq(X), NEW S
  PROVE  Filter(seq, S) \in Seq(X \cap S) /\ Filter(seq, S) \in Seq(X)
<1> DEFINE T == {q \in Seq(X) : Filter(q, S) \in Seq(X \cap S)}
<1>1. <<>> \in T
  <2>1. Filter(<<>>, S) = <<>>  BY FilterEmpty
  <2>2. <<>> \in Seq(X) /\ <<>> \in Seq(X \cap S)  OBVIOUS
  <2> QED  BY <2>1, <2>2
<1>2. ASSUME NEW p \in Seq(X), NEW e \in X, p \in T PROVE Append(p, e) \in T
  <2>1. Filter(Append(p, e), S) = IF e \in S THEN Append(Filter(p, S), e) ELSE Filter(p, S)
    BY FilterAppend
  <2> DEFINE fp == Filter(p, S)
  <2>2. Append(p, e) \in Seq(X) /\ fp \in Seq(X \cap S)  BY <1>2
  <2> HIDE DEF fp
  <2>3. e \in S => Append(fp, e) \in Seq(X \cap S)  BY <2>2
  <2> QED  BY <2>1, <2>2, <2>3 DEF fp
<1>3. Seq(X) \subseteq T
  <2> HIDE DEF T
  <2> QED  BY <1>1, <1>2, SequenceInduction
<1>4. Filter(seq, S) \in Seq(X \cap S)  BY <1>3
<1> QED  BY <1>4

LEMMA FilterConcat ==
  \A X, S : \A p, q \in Seq(X) : Filter(p \o q, S) = Filter(p, S) \o Filter(q, S)
<1> SUFFICES ASSUME NEW X, NEW p \in Seq(X), NEW q \in Seq(X), NEW S
             PROVE  Filter(p \o q, S) = Filter(p, S) \o Filter(q, S)
  OBVIOUS
<1> DEFINE T == {r \in Seq(X) : Filter(p \o r, S) = Filter(p, S) \o Filter(r, S)}
<1>0. Filter(p, S) \in Seq(X)  BY FilterType
<1>1. <<>> \in T
  <2>1. Filter(<<>>, S) = <<>> /\ p \o <<>> = p /\ <<>> \in Seq(X)
    BY FilterEmpty, ConcatEmptySeq
  <2>2. Filter(p, S) \o <<>> = Filter(p, S)  BY <1>0, ConcatEmptySeq
  <2> QED  BY <2>1, <2>2
<1>2. ASSUME NEW r \in Seq(X), NEW e \in X, r \in T PROVE Append(r, e) \in T
  <2> DEFINE pr == p \o r
             fp == Filter(p, S)
             fr == Filter(r, S)
  <2>1. fr \in Seq(X) /\ fp \in Seq(X) /\ Filter(pr, S) = fp \o fr
    BY <1>2, FilterType
  <2>2. p \o Append(r, e) = Append(pr, e) /\ pr \in Seq(X)  OBVIOUS
  <2>3. /\ Filter(Append(pr, e), S) = IF e \in S THEN Append(Filter(pr, S), e) ELSE Filter(pr, S)
        /\ Filter(Append(r, e), S) = IF e \in S THEN Append(fr, e) ELSE fr
    <3> HIDE DEF pr
    <3> QED  BY <2>2, FilterAppend
  <2> HIDE DEF pr, fp, fr
  <2>4. Append(fp \o fr, e) = fp \o Append(fr, e)
    <3> DEFINE one == <<e>>
    <3>1. fp \o fr \in Seq(X) /\ one \in Seq(X)  BY <2>1
    <3>2. Append(fp \o fr, e) = (fp \o fr) \o one  BY <3>1, AppendIsConcat
    <3>3. Append(fr, e) = fr \o one  BY <2>1, AppendIsConcat
    <3>4. (fp \o fr) \o one = fp \o (fr \o one)
      <4> HIDE DEF one
      <4> QED  BY <2>1, <3>1, ConcatAssociative
    <3> QED  BY <3>2, <3>3, <3>4
  <2>5. Filter(p \o Append(r, e), S) = fp \o Filter(Append(r, e), S)
    BY <2>1, <2>2, <2>3, <2>4
  <2>6. Append(r, e) \in Seq(X)  OBVIOUS
  <2> QED  BY <2>5, <2>6 DEF fp
<1>3. Seq(X) \subseteq T
  <2> HIDE DEF T
  <2> QED  BY <1>1, <1>2, SequenceInduction
<1> QED  BY <1>3

(* The same, for a sequence that has been named.                           *)
Joins(seq, p, q) == seq = p \o q

LEMMA FilterJoins ==
  ASSUME NEW X, NEW S, NEW p \in Seq(X), NEW q \in Seq(X), NEW seq, Joins(seq, p, q)
  PROVE  Joins(Filter(seq, S), Filter(p, S), Filter(q, S))
<1>1. Filter(p \o q, S) = Filter(p, S) \o Filter(q, S)  BY FilterConcat
<1>2. seq = p \o q  BY DEF Joins
<1> QED  BY <1>1, <1>2 DEF Joins

LEMMA JoinsFurther ==
  ASSUME NEW X, NEW p \in Seq(X), NEW a \in Seq(X), NEW b \in Seq(X), NEW q, Joins(q, a, b)
  PROVE  Joins(p \o q, p \o a, b)
<1>1. (p \o a) \o b = p \o (a \o b)  BY ConcatAssociative
<1> QED  BY <1>1 DEF Joins

(* The sequence p and then the first i elements of q.                      *)
FirstOf(first, p, q, i) ==
  first = p \o SubSeq(q, 1, i) /\ Len(first) = Len(p) + i

LEMMA FirstJoins ==
  ASSUME NEW X, NEW p \in Seq(X), NEW q \in Seq(X), NEW i \in 1..Len(q)
  PROVE  \E first, rest \in Seq(X) : FirstOf(first, p, q, i) /\ Joins(p \o q, first, rest)
<1> DEFINE a == SubSeq(q, 1, i)
           b == SubSeq(q, i + 1, Len(q))
           pa == p \o a
<1>1. a \in Seq(X) /\ b \in Seq(X) /\ Len(a) = i  OBVIOUS
<1>2. Joins(q, a, b)
  <2>1. /\ 1 \in 1..(Len(q) + 1) /\ i \in (1 - 1)..Len(q) /\ Len(q) \in i..Len(q)
        /\ SubSeq(q, 1, Len(q)) = q
    OBVIOUS
  <2> QED  BY <2>1, ConcatAdjacentSubSeq DEF Joins
<1>3. pa \in Seq(X) /\ Len(pa) = Len(p) + i
  <2> HIDE DEF a
  <2> QED  BY <1>1
<1>4. FirstOf(pa, p, q, i)  BY <1>3 DEF FirstOf
<1> HIDE DEF a, b
<1>5. Joins(p \o q, pa, b)  BY <1>1, <1>2, JoinsFurther
<1> QED  BY <1>1, <1>3, <1>4, <1>5

LEMMA FilterAll ==
  ASSUME NEW X, NEW seq \in Seq(X), NEW S, X \subseteq S
  PROVE  Filter(seq, S) = seq
<1> DEFINE T == {q \in Seq(X) : Filter(q, S) = q}
<1>1. <<>> \in T  BY FilterEmpty
<1>2. ASSUME NEW p \in Seq(X), NEW e \in X, p \in T PROVE Append(p, e) \in T
  <2>1. Filter(Append(p, e), S) = Append(Filter(p, S), e)  BY FilterAppend
  <2> QED  BY <1>2, <2>1
<1>3. Seq(X) \subseteq T
  <2> HIDE DEF T
  <2> QED  BY <1>1, <1>2, SequenceInduction
<1> QED  BY <1>3

LEMMA FilterNone ==
  ASSUME NEW X, NEW seq \in Seq(X), NEW S, X \cap S = {}
  PROVE  Filter(seq, S) = <<>>
<1> DEFINE T == {q \in Seq(X) : Filter(q, S) = <<>>}
<1>1. <<>> \in T  BY FilterEmpty
<1>2. ASSUME NEW p \in Seq(X), NEW e \in X, p \in T PROVE Append(p, e) \in T
  <2>1. Filter(Append(p, e), S) = Filter(p, S)  BY FilterAppend
  <2> QED  BY <1>2, <2>1
<1>3. Seq(X) \subseteq T
  <2> HIDE DEF T
  <2> QED  BY <1>1, <1>2, SequenceInduction
<1> QED  BY <1>3

LEMMA FilterNothing ==
  ASSUME NEW X, NEW seq \in Seq(X), NEW S, Filter(seq, S) = <<>>, NEW i \in 1..Len(seq)
  PROVE  seq[i] \notin S
<1> DEFINE p == SubSeq(seq, 1, i - 1)
           e == seq[i]
           r == SubSeq(seq, i + 1, Len(seq))
           a == SubSeq(seq, 1, i)
           fp == Filter(p, S)
           fr == Filter(r, S)
<1>1. p \in Seq(X) /\ e \in X /\ r \in Seq(X) /\ a \in Seq(X)  OBVIOUS
<1>2. fp \in Seq(X) /\ fr \in Seq(X)  BY <1>1, FilterType
<1>3. seq = a \o r
  <2>1. /\ 1 \in 1..(Len(seq) + 1) /\ i \in (1 - 1)..Len(seq) /\ Len(seq) \in i..Len(seq)
        /\ SubSeq(seq, 1, Len(seq)) = seq
    OBVIOUS
  <2> QED  BY <2>1, ConcatAdjacentSubSeq
<1>4. a = Append(p, e)
  <2>1. Len(a) = i /\ Len(p) = i - 1  OBVIOUS
  <2>2. \A j \in 1..(i - 1) : a[j] = seq[j] /\ p[j] = seq[j]  OBVIOUS
  <2>3. a[i] = e  OBVIOUS
  <2> HIDE DEF a, p, e
  <2> QED  BY <1>1, <2>1, <2>2, <2>3
<1> HIDE DEF p, e, r, a
<1>5. Filter(a, S) = IF e \in S THEN Append(fp, e) ELSE fp  BY <1>1, <1>4, FilterAppend
<1>6. Filter(a \o r, S) = Filter(a, S) \o fr  BY <1>1, FilterConcat
<1> HIDE DEF fp, fr
<1>7. SUFFICES ASSUME e \in S PROVE FALSE  BY DEF e
<1>8. Append(fp, e) \o fr = <<>>  BY <1>3, <1>5, <1>6, <1>7
<1>9. Len(Append(fp, e) \o fr) = Len(fp) + 1 + Len(fr)  BY <1>1, <1>2
<1> QED  BY <1>2, <1>8, <1>9
=============================================================================
