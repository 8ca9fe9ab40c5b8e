------------------------------ MODULE ListLemmas ------------------------------
(***************************************************************************)
(* Induction over natural numbers and over lists, stated with sets where   *)
(* the library's theorems take a predicate, and what a fold computes.      *)
(***************************************************************************)
EXTENDS Integers, Sequences, SequencesExt, WellFoundedInduction, SequenceTheorems, TLAPS

\* Every set of natural numbers has a least one.
LEMMA LeastNatural ==
  ASSUME NEW S \in SUBSET Nat, S # {}
  PROVE  \E x \in S : \A y \in S : x <= y
<1> DEFINE Less == {ss \in Nat \X Nat : ss[1] < ss[2]}
<1>1. IsWellFoundedOn(Less, Nat)
  BY NatLessThanWellFounded DEF OpToRel
<1>2. \A x, y \in Nat : y < x => <<y, x>> \in Less
  OBVIOUS
<1> HIDE DEF Less
<1>3. PICK x \in S : \A y \in S : ~(<<y, x>> \in Less)
  BY <1>1, WFMin
<1>4. \A y \in S : ~(y < x)
  BY <1>2, <1>3
<1> QED
  BY <1>4

\* A set of natural numbers with 0 that holds the successor of what it holds is Nat.
LEMMA NaturalSteps ==
  ASSUME NEW S, 0 \in S, \A n \in Nat : n \in S => n + 1 \in S
  PROVE  Nat \subseteq S
<1> SUFFICES ASSUME Nat \ S # {} PROVE FALSE
  OBVIOUS
<1>1. PICK n \in Nat \ S : \A m \in Nat \ S : n <= m
  <2>1. Nat \ S \in SUBSET Nat
    OBVIOUS
  <2> QED
    BY <2>1, LeastNatural
<1>2. n # 0 /\ n - 1 \in Nat
  BY <1>1
<1>3. n - 1 \in S
  BY <1>1, <1>2
<1> QED
  BY <1>1, <1>2, <1>3

\* A set of lists with the empty one that holds a list with any element behind it
\* when it holds the list, holds all lists.
LEMMA ListSteps ==
  ASSUME NEW B, NEW P, <<>> \in P,
         \A s \in Seq(B), e \in B : s \in P => Append(s, e) \in P
  PROVE  Seq(B) \subseteq P
<1> DEFINE S == {n \in Nat : \A s \in Seq(B) : Len(s) = n => s \in P}
<1>1. 0 \in S
  <2>1. \A s \in Seq(B) : Len(s) = 0 => s = <<>>
    BY EmptySeq
  <2> QED
    BY <2>1
<1>2. ASSUME NEW n \in Nat, n \in S PROVE n + 1 \in S
  <2>1. SUFFICES ASSUME NEW s \in Seq(B), Len(s) = n + 1 PROVE s \in P
    OBVIOUS
  <2>2. s # <<>>
    BY <2>1, EmptySeq
  <2>3. PICK t \in Seq(B), e \in B : s = Append(t, e)
    BY <2>2, SequenceEmptyOrAppend
  <2>4. Len(t) = n
    BY <2>1, <2>3, AppendProperties, LenProperties
  <2> QED
    BY <1>2, <2>3, <2>4
<1> HIDE DEF S
<1>3. Nat \subseteq S
  BY <1>1, <1>2, NaturalSteps
<1>4. SUFFICES ASSUME NEW s \in Seq(B) PROVE s \in P
  OBVIOUS
<1>5. Len(s) \in S
  BY <1>3, LenProperties
<1> QED
  BY <1>5 DEF S

\* Max finds the greatest element.
LEMMA Greatest ==
  ASSUME NEW k \in Nat, NEW s \in SUBSET (1 .. k), s # {}
  PROVE  Max(s) \in s /\ (\A y \in s : Max(s) >= y)
<1> SUFFICES \E x \in s : \A y \in s : x >= y
  BY DEF Max
<1> DEFINE T == {k - x : x \in s}
<1>1. T \in SUBSET Nat /\ T # {}
  <2>1. \A x \in s : x \in Int /\ k - x \in Nat
    OBVIOUS
  <2>2. \A y \in T : \E x \in s : y = k - x
    OBVIOUS
  <2>3. T # {}
    OBVIOUS
  <2> HIDE DEF T
  <2> QED
    BY <2>1, <2>2, <2>3
<1>2. PICK m \in T : \A y \in T : m <= y
  BY <1>1, LeastNatural
<1>3. PICK x \in s : m = k - x
  BY <1>2
<1>4. \A y \in s : k - y \in T /\ y \in Int
  OBVIOUS
<1>5. x \in Int
  OBVIOUS
<1> HIDE DEF T
<1> QED
  BY <1>2, <1>3, <1>4, <1>5

\* The function a fold of the community modules computes over subsets of 1 .. n,
\* largest element last: F takes an index and the value so far.
IsFold(it, n, base, F) ==
  it = [s \in SUBSET (1 .. n) |-> IF s = {} THEN base ELSE F[<<Max(s), it[s \ {Max(s)}]>>]]

\* There is such a function.
LEMMA FoldExists ==
  ASSUME NEW n \in Nat, NEW D, NEW base \in D, NEW F \in [(1 .. n) \X D -> D]
  PROVE  \E it \in [SUBSET (1 .. n) -> D] : IsFold(it, n, base, F)
<1> DEFINE I == 1 .. n
           Below(k) == SUBSET (1 .. k)
           Right(it, k) ==
             \A s \in Below(k) :
               it[s] = IF s = {} THEN base ELSE F[<<Max(s), it[s \ {Max(s)}]>>]
           Has(k) == \E it \in [Below(k) -> D] : Right(it, k)
           S == {k \in Nat : k <= n => Has(k)}
<1> HIDE DEF Has
<1>1. \A k \in Nat : \A s \in Below(k) : s # {} => Max(s) \in s /\ (\A y \in s : Max(s) >= y)
  BY Greatest
<1>2. 0 \in S
  <2> DEFINE it == [s \in Below(0) |-> base]
  <2>1. \A s \in Below(0) : s = {}
    OBVIOUS
  <2>2. it \in [Below(0) -> D] /\ Right(it, 0)
    BY <2>1
  <2> HIDE DEF it
  <2>3. Has(0)
    BY <2>2 DEF Has
  <2> QED
    BY <2>3
<1>3. ASSUME NEW k \in Nat, k \in S PROVE k + 1 \in S
  <2> SUFFICES ASSUME k + 1 <= n PROVE Has(k + 1)
    OBVIOUS
  <2>1. PICK g \in [Below(k) -> D] : Right(g, k)
    <3>1. Has(k)
      BY <1>3
    <3> QED
      BY <3>1 DEF Has
  <2> DEFINE it == [s \in Below(k + 1) |->
                     IF s \in Below(k) THEN g[s] ELSE F[<<k + 1, g[s \ {k + 1}]>>]]
  <2>2. \A s \in Below(k + 1) : s \ {k + 1} \in Below(k)
    OBVIOUS
  <2>3. it \in [Below(k + 1) -> D]
    <3>1. SUFFICES ASSUME NEW s \in Below(k + 1) PROVE it[s] \in D
      OBVIOUS
    <3>2. g[s \ {k + 1}] \in D
      BY <2>1, <2>2
    <3> QED
      BY <2>1, <3>2
  <2>4. ASSUME NEW s \in Below(k + 1)
        PROVE it[s] = IF s = {} THEN base ELSE F[<<Max(s), it[s \ {Max(s)}]>>]
    <3>1. CASE s \in Below(k)
      <4>1. it[s] = g[s]
        BY <3>1
      <4>2. s \ {Max(s)} \in Below(k) /\ s \ {Max(s)} \in Below(k + 1)
        BY <3>1
      <4>3. it[s \ {Max(s)}] = g[s \ {Max(s)}]
        BY <4>2
      <4>4. g[s] = IF s = {} THEN base ELSE F[<<Max(s), g[s \ {Max(s)}]>>]
        BY <2>1, <3>1
      <4> QED
        BY <4>1, <4>3, <4>4
    <3>2. CASE s \notin Below(k)
      <4>1. k + 1 \in s /\ s # {}
        BY <3>2
      <4>2. Max(s) = k + 1
        <5>1. Max(s) \in s /\ Max(s) >= k + 1
          BY <1>1, <4>1, k + 1 \in Nat
        <5>2. \A x \in s : x \in Int /\ x <= k + 1
          OBVIOUS
        <5> HIDE DEF Below
        <5> QED
          BY <5>1, <5>2
      <4>3. it[s] = F[<<k + 1, g[s \ {k + 1}]>>]
        BY <3>2
      <4>4. it[s \ {k + 1}] = g[s \ {k + 1}]
        BY <2>2
      <4> QED
        BY <4>1, <4>2, <4>3, <4>4
    <3> QED
      BY <3>1, <3>2
  <2> HIDE DEF it
  <2> QED
    BY <2>3, <2>4 DEF Has
<1> HIDE DEF S
<1>4. n \in S
  BY <1>2, <1>3, NaturalSteps
<1>5. PICK it \in [Below(n) -> D] : Right(it, n)
  <2>1. Has(n)
    BY <1>4 DEF S
  <2> QED
    BY <2>1 DEF Has
<1>6. it = [s \in SUBSET (1 .. n) |-> IF s = {} THEN base ELSE F[<<Max(s), it[s \ {Max(s)}]>>]]
  BY <1>5
<1>7. IsFold(it, n, base, F)
  BY <1>6 DEF IsFold
<1> QED
  BY <1>5, <1>7

\* What is needed to follow such a function through the first indices.
Upto(k) == 1 .. k

\* Those index sets lie one inside the other, each with its greatest element on top.
LEMMA IndexPrefix ==
  ASSUME NEW n \in Nat
  PROVE  /\ Upto(0) = {}
         /\ \A k \in 0 .. n : Upto(k) \in SUBSET (1 .. n)
         /\ \A k \in 1 .. n : Upto(k) # {}
         /\ \A k \in 1 .. n : Max(Upto(k)) = k
         /\ \A k \in 1 .. n : Upto(k) \ {k} = Upto(k - 1)
<1>1. Upto(0) = {}
  BY DEF Upto
<1>2. \A k \in 0 .. n : Upto(k) \in SUBSET (1 .. n)
  BY DEF Upto
<1>3. \A k \in 1 .. n : Upto(k) # {}
  BY DEF Upto
<1>4. \A k \in 1 .. n : Max(Upto(k)) = k
  BY DEF Max, Upto
<1>5. \A k \in 1 .. n : Upto(k) \ {k} = Upto(k - 1)
  BY DEF Upto
<1> QED
  BY <1>1, <1>2, <1>3, <1>4, <1>5

\* v is what G makes of list s from base, one element after another.
IsWalk(h, s, base, G) == h[0] = base /\ \A k \in 1 .. Len(s) : h[k] = G[<<h[k - 1], s[k]>>]
FoldsTo(v, s, base, G) == \E h : IsWalk(h, s, base, G) /\ v = h[Len(s)]

\* A fold over the subsets of the indices, as the community modules write it, whose
\* step G computes while the values stay in D, walks through the list.
FoldEquation(f, s, D, base, G) ==
  /\ f[{}] = base
  /\ \A x \in SUBSET (1 .. Len(s)) :
       x # {} /\ f[x \ {Max(x)}] \in D => f[x] = G[<<f[x \ {Max(x)}], s[Max(x)]>>]

\* What the fold over the indices returns is where the walk through the list ends.
LEMMA WalkOfFold ==
  ASSUME NEW B, NEW s \in Seq(B), NEW D, NEW base \in D, NEW G \in [D \X B -> D],
         NEW f, FoldEquation(f, s, D, base, G)
  PROVE  FoldsTo(f[1 .. Len(s)], s, base, G)
<1> DEFINE n == Len(s)
           h == [k \in 0 .. n |-> f[Upto(k)]]
           S == {k \in Nat : k <= n => h[k] \in D}
<1>1. n \in Nat /\ \A k \in 1 .. n : s[k] \in B
  BY LenProperties, ElementOfSeq
<1>2. \A k \in 0 .. n : h[k] = f[Upto(k)]
  OBVIOUS
<1>3. Upto(n) = 1 .. Len(s) /\ n = Len(s)
  BY DEF Upto
<1>4. ASSUME NEW k \in 1 .. n, h[k - 1] \in D PROVE h[k] = G[<<h[k - 1], s[k]>>]
  <2> HIDE DEF h, S
  <2>1. k - 1 \in 0 .. n /\ k \in 0 .. n
    BY <1>1
  <2>2. /\ Upto(k) \in SUBSET (1 .. n) /\ Upto(k) # {}
        /\ Max(Upto(k)) = k /\ Upto(k) \ {k} = Upto(k - 1)
    BY <1>1, <2>1, IndexPrefix
  <2>3. f[Upto(k) \ {Max(Upto(k))}] \in D
    BY <1>2, <1>4, <2>1, <2>2
  <2>4. f[Upto(k)] = G[<<f[Upto(k) \ {Max(Upto(k))}], s[Max(Upto(k))]>>]
    BY <2>2, <2>3 DEF FoldEquation
  <2> QED
    BY <1>2, <2>1, <2>2, <2>4
<1>5. h[0] = base
  <2> HIDE DEF h, S
  <2>1. f[Upto(0)] = base
    BY <1>1, IndexPrefix DEF FoldEquation
  <2> QED
    BY <1>1, <1>2, <2>1
<1> HIDE DEF h, n
<1>6. 0 \in S
  BY <1>5
<1>7. ASSUME NEW k \in Nat, k \in S PROVE k + 1 \in S
  <2> SUFFICES ASSUME k + 1 <= n PROVE h[k + 1] \in D
    OBVIOUS
  <2>1. k + 1 \in 1 .. n /\ (k + 1) - 1 = k /\ h[k] \in D
    BY <1>1, <1>7
  <2>2. h[k + 1] = G[<<h[k], s[k + 1]>>] /\ s[k + 1] \in B
    BY <1>1, <1>4, <2>1
  <2> QED
    BY <2>1, <2>2
<1> HIDE DEF S
<1>8. Nat \subseteq S
  BY <1>6, <1>7, NaturalSteps
<1>9. \A k \in 0 .. n : h[k] \in D
  BY <1>1, <1>8 DEF S
<1>10. IsWalk(h, s, base, G)
  <2>1. \A k \in 1 .. n : k - 1 \in 0 .. n
    BY <1>1
  <2> QED
    BY <1>3, <1>4, <1>5, <1>9, <2>1 DEF IsWalk
<1>11. f[1 .. Len(s)] = h[Len(s)]
  BY <1>1, <1>2, <1>3
<1> QED
  BY <1>10, <1>11 DEF FoldsTo

\* Such a fold exists.
IsListFold(it, s, base, G) ==
  it = [x \in SUBSET (1 .. Len(s)) |->
         IF x = {} THEN base ELSE G[<<it[x \ {Max(x)}], s[Max(x)]>>]]

\* Such a fold exists, and its values stay in D.
LEMMA ListFoldExists ==
  ASSUME NEW B, NEW s \in Seq(B), NEW D, NEW base \in D, NEW G \in [D \X B -> D]
  PROVE  \E it \in [SUBSET (1 .. Len(s)) -> D] : IsListFold(it, s, base, G)
<1> DEFINE n == Len(s)
           F == [p \in (1 .. n) \X D |-> G[<<p[2], s[p[1]]>>]]
<1>1. n \in Nat /\ \A k \in 1 .. n : s[k] \in B
  BY LenProperties, ElementOfSeq
<1>2. F \in [(1 .. n) \X D -> D]
  BY <1>1
<1>3. PICK it \in [SUBSET (1 .. n) -> D] : IsFold(it, n, base, F)
  <2> HIDE DEF F, n
  <2> QED
    BY <1>1, <1>2, FoldExists
<1>4. ASSUME NEW x \in SUBSET (1 .. n), x # {}
      PROVE  F[<<Max(x), it[x \ {Max(x)}]>>] = G[<<it[x \ {Max(x)}], s[Max(x)]>>]
  <2>1. Max(x) \in 1 .. n
    BY <1>1, <1>4, Greatest
  <2> QED
    BY <1>3, <2>1
<1> HIDE DEF F
<1>5. IsListFold(it, s, base, G)
  BY <1>3, <1>4 DEF IsFold, IsListFold
<1> QED
  BY <1>3, <1>5

\* What a fold makes of the empty list and of a list with one element more.
LEMMA FoldSteps ==
  ASSUME NEW B, NEW D, NEW base \in D, NEW G \in [D \X B -> D]
  PROVE  /\ \A v : FoldsTo(v, <<>>, base, G) => v = base
         /\ \A s \in Seq(B) : \A v : FoldsTo(v, s, base, G) => v \in D
         /\ \A s \in Seq(B), e \in B : \A v, w :
              FoldsTo(v, s, base, G) /\ FoldsTo(w, Append(s, e), base, G) => w = G[<<v, e>>]
<1>1. \A v : FoldsTo(v, <<>>, base, G) => v = base
  BY DEF FoldsTo, IsWalk
<1>2. ASSUME NEW s \in Seq(B), NEW h, IsWalk(h, s, base, G), NEW n \in Nat, n <= Len(s),
             NEW g, g[0] = base, \A k \in 1 .. n : g[k] = G[<<g[k - 1], s[k]>>]
      PROVE  \A k \in 0 .. n : g[k] = h[k] /\ g[k] \in D
  <2>1. Len(s) \in Nat /\ \A k \in 1 .. n : s[k] \in B
    BY <1>2, LenProperties, ElementOfSeq
  <2> DEFINE S == {k \in Nat : k <= n => g[k] = h[k] /\ g[k] \in D}
  <2>2. 0 \in S
    BY <1>2 DEF IsWalk
  <2>3. ASSUME NEW k \in Nat, k \in S PROVE k + 1 \in S
    <3> SUFFICES ASSUME k + 1 <= n PROVE g[k + 1] = h[k + 1] /\ g[k + 1] \in D
      OBVIOUS
    <3>1. /\ k + 1 \in 1 .. n /\ k + 1 \in 1 .. Len(s) /\ (k + 1) - 1 = k
          /\ g[k] = h[k] /\ g[k] \in D
      BY <1>2, <2>1, <2>3
    <3>2. g[k + 1] = G[<<g[k], s[k + 1]>>] /\ h[k + 1] = G[<<h[k], s[k + 1]>>]
      BY <1>2, <3>1 DEF IsWalk
    <3> QED
      BY <2>1, <3>1, <3>2
  <2> HIDE DEF S
  <2>4. Nat \subseteq S
    BY <2>2, <2>3, NaturalSteps
  <2> QED
    BY <2>4 DEF S
<1>3. ASSUME NEW s \in Seq(B), NEW v, FoldsTo(v, s, base, G) PROVE v \in D
  <2>1. PICK h : IsWalk(h, s, base, G) /\ v = h[Len(s)]
    BY <1>3 DEF FoldsTo
  <2>2. Len(s) \in Nat
    BY LenProperties
  <2>3. \A k \in 0 .. Len(s) : h[k] \in D
    BY <1>2, <2>1, <2>2 DEF IsWalk
  <2> QED
    BY <2>1, <2>2, <2>3
<1>4. ASSUME NEW s \in Seq(B), NEW e \in B, NEW v, NEW w,
             FoldsTo(v, s, base, G), FoldsTo(w, Append(s, e), base, G)
      PROVE  w = G[<<v, e>>]
  <2>1. PICK h : IsWalk(h, s, base, G) /\ v = h[Len(s)]
    BY <1>4 DEF FoldsTo
  <2> DEFINE t == Append(s, e)
  <2>2. PICK g : IsWalk(g, t, base, G) /\ w = g[Len(t)]
    BY <1>4 DEF FoldsTo
  <2>3. /\ Len(s) \in Nat /\ Len(t) = Len(s) + 1 /\ t[Len(s) + 1] = e
        /\ \A k \in 1 .. Len(s) : t[k] = s[k]
    BY AppendProperties, LenProperties
  <2> HIDE DEF t
  <2>4. g[0] = base /\ \A k \in 1 .. Len(s) : g[k] = G[<<g[k - 1], s[k]>>]
    BY <2>2, <2>3 DEF IsWalk
  <2>5. g[Len(s)] = h[Len(s)]
    BY <1>2, <2>1, <2>3, <2>4
  <2>6. g[Len(s) + 1] = G[<<g[Len(s)], e>>]
    BY <2>2, <2>3 DEF IsWalk
  <2> QED
    BY <2>1, <2>2, <2>3, <2>5, <2>6
<1> QED
  BY <1>1, <1>3, <1>4
-----------------------------------------------------------------------------
(* Insertion, removal and replacement in a list.                           *)

\* What InsertAt returns, element by element.
LEMMA Inserted ==
  ASSUME NEW B, NEW s \in Seq(B), NEW e \in B, NEW i \in 1 .. Len(s) + 1
  PROVE  /\ InsertAt(s, i, e) \in Seq(B)
         /\ Len(InsertAt(s, i, e)) = Len(s) + 1
         /\ \A k \in 1 .. Len(s) + 1 :
              InsertAt(s, i, e)[k] = IF k < i THEN s[k] ELSE IF k = i THEN e ELSE s[k - 1]
<1> DEFINE n == Len(s)
           low == SubSeq(s, 1, i - 1)
           high == SubSeq(s, i, n)
           mid == low \o <<e>>
<1>1. n \in Nat /\ i \in 1 .. n + 1 /\ \A k \in 1 .. n : s[k] \in B
  BY LenProperties, ElementOfSeq
<1>2. /\ low \in Seq(B) /\ Len(low) = i - 1
      /\ \A k \in 1 .. i - 1 : low[k] = s[k]
  <2>1. \A k \in 1 .. i - 1 : s[k] \in B
    BY <1>1
  <2>2. 1 \in Int /\ i - 1 \in Int
    BY <1>1
  <2>3. /\ low \in Seq(B) /\ Len(low) = IF 1 <= i - 1 THEN (i - 1) - 1 + 1 ELSE 0
        /\ \A k \in 1 .. (i - 1) - 1 + 1 : low[k] = s[1 + k - 1]
    BY <2>1, <2>2, SubSeqProperties
  <2> HIDE DEF low
  <2>4. \A k \in 1 .. i - 1 : 1 + k - 1 = k /\ k \in 1 .. (i - 1) - 1 + 1
    BY <2>2
  <2> QED
    BY <1>1, <2>3, <2>4
<1>3. /\ high \in Seq(B) /\ Len(high) = n - i + 1
      /\ \A k \in 1 .. n - i + 1 : high[k] = s[i + k - 1]
  <2>1. \A k \in i .. n : s[k] \in B
    BY <1>1
  <2>2. n \in Int /\ i \in Int
    BY <1>1
  <2>3. /\ high \in Seq(B) /\ Len(high) = IF i <= n THEN n - i + 1 ELSE 0
        /\ \A k \in 1 .. n - i + 1 : high[k] = s[i + k - 1]
    BY <2>1, <2>2, SubSeqProperties
  <2> HIDE DEF high
  <2> QED
    BY <1>1, <2>3
<1> HIDE DEF low, high
<1>4. /\ mid \in Seq(B) /\ Len(mid) = i
      /\ \A k \in 1 .. i : mid[k] = IF k < i THEN s[k] ELSE e
  <2>1. <<e>> \in Seq(B) /\ Len(<<e>>) = 1 /\ <<e>>[1] = e
    OBVIOUS
  <2>2. /\ mid \in Seq(B) /\ Len(mid) = Len(low) + Len(<<e>>)
        /\ \A k \in 1 .. Len(low) + Len(<<e>>) :
             mid[k] = IF k <= Len(low) THEN low[k] ELSE <<e>>[k - Len(low)]
    BY <1>2, <2>1, ConcatProperties
  <2> HIDE DEF mid
  <2> QED
    BY <1>1, <1>2, <2>1, <2>2
<1> HIDE DEF mid
<1>5. /\ mid \o high \in Seq(B) /\ Len(mid \o high) = n + 1
      /\ \A k \in 1 .. n + 1 : (mid \o high)[k] = IF k <= i THEN mid[k] ELSE high[k - i]
  <2>1. /\ mid \o high \in Seq(B) /\ Len(mid \o high) = Len(mid) + Len(high)
        /\ \A k \in 1 .. Len(mid) + Len(high) :
             (mid \o high)[k] = IF k <= Len(mid) THEN mid[k] ELSE high[k - Len(mid)]
    BY <1>3, <1>4, ConcatProperties
  <2> QED
    BY <1>1, <1>3, <1>4, <2>1
<1>6. InsertAt(s, i, e) = mid \o high
  BY DEF InsertAt, mid, low, high
<1> HIDE DEF n
<1>7. ASSUME NEW k \in 1 .. n + 1
      PROVE  (mid \o high)[k] = IF k < i THEN s[k] ELSE IF k = i THEN e ELSE s[k - 1]
  <2>1. CASE k <= i
    BY <1>1, <1>4, <1>5, <2>1
  <2>2. CASE ~(k <= i)
    <3>1. k - i \in 1 .. n - i + 1 /\ i + (k - i) - 1 = k - 1
      BY <1>1, <2>2
    <3> QED
      BY <1>1, <1>3, <1>5, <2>2, <3>1
  <2> QED
    BY <2>1, <2>2
<1> QED
  BY <1>5, <1>6, <1>7 DEF n

\* What RemoveAt returns, element by element.
LEMMA Removed ==
  ASSUME NEW B, NEW s \in Seq(B), NEW i \in 1 .. Len(s)
  PROVE  /\ RemoveAt(s, i) \in Seq(B)
         /\ Len(RemoveAt(s, i)) = Len(s) - 1
         /\ \A k \in 1 .. Len(s) - 1 : RemoveAt(s, i)[k] = IF k < i THEN s[k] ELSE s[k + 1]
<1> DEFINE n == Len(s)
           low == SubSeq(s, 1, i - 1)
           high == SubSeq(s, i + 1, n)
<1>1. n \in Nat /\ i \in 1 .. n /\ \A k \in 1 .. n : s[k] \in B
  BY LenProperties, ElementOfSeq
<1>2. /\ low \in Seq(B) /\ Len(low) = i - 1
      /\ \A k \in 1 .. i - 1 : low[k] = s[k]
  <2>1. \A k \in 1 .. i - 1 : s[k] \in B
    BY <1>1
  <2>2. 1 \in Int /\ i - 1 \in Int
    BY <1>1
  <2>3. /\ low \in Seq(B) /\ Len(low) = IF 1 <= i - 1 THEN (i - 1) - 1 + 1 ELSE 0
        /\ \A k \in 1 .. (i - 1) - 1 + 1 : low[k] = s[1 + k - 1]
    BY <2>1, <2>2, SubSeqProperties
  <2> HIDE DEF low
  <2>4. \A k \in 1 .. i - 1 : 1 + k - 1 = k /\ k \in 1 .. (i - 1) - 1 + 1
    BY <2>2
  <2> QED
    BY <1>1, <2>3, <2>4
<1>3. /\ high \in Seq(B) /\ Len(high) = n - i
      /\ \A k \in 1 .. n - i : high[k] = s[i + k]
  <2>1. \A k \in i + 1 .. n : s[k] \in B
    BY <1>1
  <2>2. n \in Int /\ i + 1 \in Int
    BY <1>1
  <2>3. /\ high \in Seq(B) /\ Len(high) = IF i + 1 <= n THEN n - (i + 1) + 1 ELSE 0
        /\ \A k \in 1 .. n - (i + 1) + 1 : high[k] = s[(i + 1) + k - 1]
    BY <2>1, <2>2, SubSeqProperties
  <2> HIDE DEF high
  <2>4. \A k \in 1 .. n - i : (i + 1) + k - 1 = i + k /\ k \in 1 .. n - (i + 1) + 1
    BY <2>2
  <2> QED
    BY <1>1, <2>3, <2>4
<1> HIDE DEF low, high
<1>4. /\ low \o high \in Seq(B) /\ Len(low \o high) = n - 1
      /\ \A k \in 1 .. n - 1 : (low \o high)[k] = IF k < i THEN low[k] ELSE high[k - (i - 1)]
  <2>1. /\ low \o high \in Seq(B) /\ Len(low \o high) = Len(low) + Len(high)
        /\ \A k \in 1 .. Len(low) + Len(high) :
             (low \o high)[k] = IF k <= Len(low) THEN low[k] ELSE high[k - Len(low)]
    BY <1>2, <1>3, ConcatProperties
  <2> QED
    BY <1>1, <1>2, <1>3, <2>1
<1>5. RemoveAt(s, i) = low \o high
  BY DEF RemoveAt, low, high
<1> HIDE DEF n
<1>6. ASSUME NEW k \in 1 .. n - 1
      PROVE  (low \o high)[k] = IF k < i THEN s[k] ELSE s[k + 1]
  <2>1. CASE k < i
    BY <1>1, <1>2, <1>4, <2>1
  <2>2. CASE ~(k < i)
    <3>1. k - (i - 1) \in 1 .. n - i /\ i + (k - (i - 1)) = k + 1
      BY <1>1, <2>2
    <3> QED
      BY <1>1, <1>3, <1>4, <2>2, <3>1
  <2> QED
    BY <2>1, <2>2
<1> QED
  BY <1>4, <1>5, <1>6 DEF n

-----------------------------------------------------------------------------
(* Sums over a list: T is the sum of the weights W of its elements.        *)

\* T[s] is the sum of W over the elements of s.
IsSum(T, W, B) ==
  /\ W \in [B -> Nat] /\ T \in [Seq(B) -> Nat]
  /\ T[<<>>] = 0
  /\ \A s \in Seq(B), e \in B : T[Append(s, e)] = T[s] + W[e]

\* The sum of two lists one behind the other.
LEMMA SumConcat ==
  ASSUME NEW B, NEW T, NEW W, IsSum(T, W, B), NEW s \in Seq(B), NEW t \in Seq(B)
  PROVE  T[s \o t] = T[s] + T[t]
<1> DEFINE P == {u \in Seq(B) : T[s \o u] = T[s] + T[u]}
<1>1. <<>> \in P
  <2>1. <<>> \in Seq(B) /\ s \o <<>> = s
    BY ConcatEmptySeq
  <2> QED
    BY <2>1 DEF IsSum
<1>2. ASSUME NEW u \in Seq(B), NEW e \in B, u \in P PROVE Append(u, e) \in P
  <2>1. Append(u, e) = u \o <<e>> /\ <<e>> \in Seq(B) /\ s \o u \in Seq(B)
        /\ Append(u, e) \in Seq(B)
    BY AppendIsConcat, ConcatProperties, AppendProperties
  <2>2. s \o Append(u, e) = Append(s \o u, e)
    BY <2>1, AppendIsConcat, ConcatAssociative
  <2>3. T[Append(s \o u, e)] = T[s \o u] + W[e] /\ T[Append(u, e)] = T[u] + W[e]
    BY <2>1 DEF IsSum
  <2>4. T[s] \in Nat /\ T[u] \in Nat /\ W[e] \in Nat
    BY DEF IsSum
  <2>5. T[s \o u] = T[s] + T[u]
    BY <1>2
  <2>6. T[Append(s \o u, e)] = T[s] + T[Append(u, e)]
    BY <2>3, <2>4, <2>5
  <2> QED
    BY <2>1, <2>2, <2>6
<1> HIDE DEF P
<1>3. Seq(B) \subseteq P
  BY <1>1, <1>2, ListSteps
<1> QED
  BY <1>3 DEF P

\* The sum of a list of one element.
LEMMA SumOne ==
  ASSUME NEW B, NEW T, NEW W, IsSum(T, W, B), NEW e \in B
  PROVE  T[<<e>>] = W[e]
<1>1. <<e>> = Append(<<>>, e) /\ <<>> \in Seq(B)
  OBVIOUS
<1>2. T[Append(<<>>, e)] = T[<<>>] + W[e] /\ T[<<>>] = 0 /\ W[e] \in Nat
  BY <1>1 DEF IsSum
<1> QED
  BY <1>1, <1>2

\* An inserted element adds its weight, wherever it goes.
LEMMA SumInserted ==
  ASSUME NEW B, NEW T, NEW W, IsSum(T, W, B),
         NEW s \in Seq(B), NEW e \in B, NEW i \in 1 .. Len(s) + 1
  PROVE  T[InsertAt(s, i, e)] = T[s] + W[e]
<1> DEFINE low == SubSeq(s, 1, i - 1)
           high == SubSeq(s, i, Len(s))
<1>1. Len(s) \in Nat /\ i \in Int /\ \A k \in 1 .. Len(s) : s[k] \in B
  BY LenProperties, ElementOfSeq
<1>2. low \in Seq(B) /\ high \in Seq(B) /\ <<e>> \in Seq(B) /\ low \o <<e>> \in Seq(B)
  <2>1. \A k \in 1 .. i - 1 : s[k] \in B
    BY <1>1
  <2>2. \A k \in i .. Len(s) : s[k] \in B
    BY <1>1
  <2>3. low \in Seq(B) /\ high \in Seq(B)
    BY <1>1, <2>1, <2>2, SubSeqProperties, 1 \in Int, i - 1 \in Int
  <2>4. <<e>> \in Seq(B)
    OBVIOUS
  <2> QED
    BY <2>3, <2>4, ConcatProperties
<1>3. low \o high = s
  <2>1. 1 \in 1 .. Len(s) + 1 /\ i - 1 \in 1 - 1 .. Len(s) /\ Len(s) \in i - 1 .. Len(s)
        /\ (i - 1) + 1 = i
    BY <1>1
  <2>2. low \o SubSeq(s, (i - 1) + 1, Len(s)) = SubSeq(s, 1, Len(s))
    BY <2>1, ConcatAdjacentSubSeq
  <2> QED
    BY <2>1, <2>2, SubSeqFull
<1>4. InsertAt(s, i, e) = (low \o <<e>>) \o high
  BY DEF InsertAt
<1> HIDE DEF low, high
<1>5. T[low] \in Nat /\ T[high] \in Nat /\ W[e] \in Nat
  BY <1>2 DEF IsSum
<1>6. T[(low \o <<e>>) \o high] = (T[low] + W[e]) + T[high]
  <2>1. T[low \o <<e>>] = T[low] + T[<<e>>]
    BY <1>2, SumConcat
  <2>2. T[<<e>>] = W[e]
    BY SumOne
  <2>3. T[(low \o <<e>>) \o high] = T[low \o <<e>>] + T[high]
    BY <1>2, SumConcat
  <2> QED
    BY <2>1, <2>2, <2>3
<1>7. T[s] = T[low] + T[high]
  BY <1>2, <1>3, SumConcat
<1> QED
  BY <1>4, <1>5, <1>6, <1>7

\* Replacing an element is removing it and inserting the other in its place.
LEMMA Replaced ==
  ASSUME NEW B, NEW s \in Seq(B), NEW i \in 1 .. Len(s), NEW e \in B
  PROVE  [s EXCEPT ![i] = e] = InsertAt(RemoveAt(s, i), i, e)
<1> DEFINE n == Len(s)
           r == RemoveAt(s, i)
           u == [s EXCEPT ![i] = e]
           t == InsertAt(r, i, e)
<1>1. n \in Nat /\ i \in 1 .. n /\ n = Len(s)
  BY LenProperties
<1>2. /\ u \in Seq(B) /\ Len(u) = n
      /\ \A k \in 1 .. n : u[k] = IF k = i THEN e ELSE s[k]
  BY ExceptSeq
<1>3. /\ r \in Seq(B) /\ Len(r) = n - 1
      /\ \A k \in 1 .. n - 1 : r[k] = IF k < i THEN s[k] ELSE s[k + 1]
  BY Removed
<1> HIDE DEF r, u
<1>4. i \in 1 .. Len(r) + 1
  BY <1>1, <1>3
<1>5. /\ t \in Seq(B) /\ Len(t) = Len(r) + 1
      /\ \A k \in 1 .. Len(r) + 1 : t[k] = IF k < i THEN r[k] ELSE IF k = i THEN e ELSE r[k - 1]
  <2> HIDE DEF n, t
  <2>1. r \in Seq(B)
    BY <1>3
  <2>2. t \in Seq(B)
    BY <2>1, <1>4, Inserted DEF t
  <2>3. Len(t) = Len(r) + 1
    BY <2>1, <1>4, Inserted DEF t
  <2>4. \A k \in 1 .. Len(r) + 1 :
          t[k] = IF k < i THEN r[k] ELSE IF k = i THEN e ELSE r[k - 1]
    BY <2>1, <1>4, Inserted DEF t
  <2> QED
    BY <2>2, <2>3, <2>4
<1> HIDE DEF n, t
<1>6. Len(r) + 1 = n /\ Len(t) = n
  BY <1>1, <1>3, <1>5
<1>7. ASSUME NEW k \in 1 .. n PROVE t[k] = u[k]
  <2>1. t[k] = IF k < i THEN r[k] ELSE IF k = i THEN e ELSE r[k - 1]
    BY <1>5, <1>6
  <2>2. CASE k < i
    <3>1. k \in 1 .. n - 1
      BY <1>1, <2>2
    <3> QED
      BY <1>2, <1>3, <2>1, <2>2, <3>1
  <2>3. CASE k = i
    BY <1>2, <2>1, <2>3
  <2>4. CASE ~(k < i) /\ k # i
    <3>1. k - 1 \in 1 .. n - 1 /\ ~(k - 1 < i) /\ (k - 1) + 1 = k
      BY <1>1, <2>4
    <3>2. r[k - 1] = s[k]
      BY <1>3, <3>1
    <3> QED
      BY <1>2, <2>1, <2>4, <3>2
  <2> QED
    BY <2>2, <2>3, <2>4
<1>8. \A k \in 1 .. Len(t) : t[k] = u[k]
  BY <1>6, <1>7
<1>9. t = u
  BY <1>2, <1>5, <1>6, <1>8, SeqEqual
<1> QED
  BY <1>9 DEF t, u, r

\* Replacing an element takes its weight out and puts the other one in.
LEMMA SumReplaced ==
  ASSUME NEW B, NEW T, NEW W, IsSum(T, W, B),
         NEW s \in Seq(B), NEW i \in 1 .. Len(s), NEW e \in B
  PROVE  T[[s EXCEPT ![i] = e]] = T[RemoveAt(s, i)] + W[e]
<1> DEFINE r == RemoveAt(s, i)
<1>1. r \in Seq(B) /\ i \in 1 .. Len(r) + 1
  BY LenProperties, Removed
<1>2. [s EXCEPT ![i] = e] = InsertAt(r, i, e)
  BY Replaced
<1> HIDE DEF r
<1>3. T[InsertAt(r, i, e)] = T[r] + W[e]
  BY <1>1, SumInserted
<1> QED
  BY <1>2, <1>3 DEF r

\* A list weighs what it weighs without one element, and that element.
LEMMA SumRemoved ==
  ASSUME NEW B, NEW T, NEW W, IsSum(T, W, B), NEW s \in Seq(B), NEW i \in 1 .. Len(s)
  PROVE  T[s] = T[RemoveAt(s, i)] + W[s[i]]
<1>1. PICK e \in B : e = s[i]
  BY ElementOfSeq
<1>2. [s EXCEPT ![i] = e] = s
  <2>1. DOMAIN s = 1 .. Len(s) /\ s \in [1 .. Len(s) -> B]
    BY LenProperties
  <2> QED
    BY <1>1, <2>1
<1>3. T[[s EXCEPT ![i] = e]] = T[RemoveAt(s, i)] + W[e]
  BY SumReplaced
<1> QED
  BY <1>1, <1>2, <1>3

\* Lists with the same weights in the same places have the same sum.
LEMMA SumSame ==
  ASSUME NEW B, NEW T, NEW W, IsSum(T, W, B), NEW s \in Seq(B), NEW t \in Seq(B),
         Len(s) = Len(t), \A k \in 1 .. Len(s) : W[s[k]] = W[t[k]]
  PROVE  T[s] = T[t]
<1> DEFINE P == {u \in Seq(B) : \A v \in Seq(B) :
                   Len(u) = Len(v) /\ (\A k \in 1 .. Len(u) : W[u[k]] = W[v[k]])
                   => T[u] = T[v]}
<1>1. <<>> \in P
  <2>1. \A v \in Seq(B) : Len(v) = 0 => v = <<>>
    BY EmptySeq
  <2>2. <<>> \in Seq(B) /\ Len(<<>>) = 0
    BY EmptySeq
  <2> QED
    BY <2>1, <2>2
<1>2. ASSUME NEW u \in Seq(B), NEW e \in B, u \in P PROVE Append(u, e) \in P
  <2> DEFINE a == Append(u, e)
  <2>1. /\ a \in Seq(B) /\ Len(a) = Len(u) + 1 /\ a[Len(u) + 1] = e
        /\ \A k \in 1 .. Len(u) : a[k] = u[k]
        /\ Len(u) \in Nat
    BY AppendProperties, LenProperties
  <2>2. T[a] = T[u] + W[e]
    BY DEF IsSum
  <2> HIDE DEF a
  <2>3. ASSUME NEW v \in Seq(B), Len(a) = Len(v), \A k \in 1 .. Len(a) : W[a[k]] = W[v[k]]
        PROVE  T[a] = T[v]
    <3>1. v # <<>>
      BY <2>1, <2>3, EmptySeq
    <3>2. PICK w \in Seq(B), f \in B : v = Append(w, f)
      BY <3>1, SequenceEmptyOrAppend
    <3>3. /\ Len(v) = Len(w) + 1 /\ v[Len(w) + 1] = f /\ Len(w) \in Nat
          /\ \A k \in 1 .. Len(w) : v[k] = w[k]
      BY <3>2, AppendProperties, LenProperties
    <3>4. Len(u) = Len(w) /\ W[e] = W[f]
      BY <2>1, <2>3, <3>3
    <3>5. \A k \in 1 .. Len(u) : W[u[k]] = W[w[k]]
      BY <2>1, <2>3, <3>3, <3>4
    <3>6. T[u] = T[w]
      BY <1>2, <3>4, <3>5
    <3>7. T[v] = T[w] + W[f]
      BY <3>2 DEF IsSum
    <3> QED
      BY <2>2, <3>4, <3>6, <3>7
  <2> QED
    BY <2>1, <2>3 DEF a
<1> HIDE DEF P
<1>3. Seq(B) \subseteq P
  BY <1>1, <1>2, ListSteps
<1> QED
  BY <1>3 DEF P
-----------------------------------------------------------------------------
(* Lists without repetitions, and the sets of their elements.              *)

\* No element twice.
Distinct(s) == \A i, j \in 1 .. Len(s) : i # j => s[i] # s[j]

\* The set of the elements of a list, by their indices.
LEMMA Elements ==
  ASSUME NEW B, NEW s \in Seq(B)
  PROVE  /\ ToSet(s) = {s[k] : k \in 1 .. Len(s)} /\ ToSet(s) \subseteq B
         /\ \A k \in 1 .. Len(s) : s[k] \in ToSet(s)
         /\ \A e \in ToSet(s) : \E k \in 1 .. Len(s) : s[k] = e
<1>1. DOMAIN s = 1 .. Len(s) /\ \A k \in 1 .. Len(s) : s[k] \in B
  BY LenProperties, ElementOfSeq
<1>2. ToSet(s) = {s[k] : k \in 1 .. Len(s)}
  BY <1>1 DEF ToSet
<1> QED
  BY <1>1, <1>2

\* Insertion adds one element to the set, and keeps a list distinct.
LEMMA InsertedSet ==
  ASSUME NEW B, NEW s \in Seq(B), NEW e \in B, NEW i \in 1 .. Len(s) + 1
  PROVE  /\ ToSet(InsertAt(s, i, e)) = ToSet(s) \cup {e}
         /\ Distinct(s) /\ e \notin ToSet(s) => Distinct(InsertAt(s, i, e))
<1> DEFINE n == Len(s)
           t == InsertAt(s, i, e)
<1>1. /\ t \in Seq(B) /\ Len(t) = n + 1
      /\ \A k \in 1 .. n + 1 : t[k] = IF k < i THEN s[k] ELSE IF k = i THEN e ELSE s[k - 1]
  BY Inserted
<1>2. n \in Nat /\ i \in 1 .. n + 1
  BY LenProperties
<1>3. /\ \A k \in 1 .. n : s[k] \in ToSet(s)
      /\ \A x \in ToSet(s) : \E k \in 1 .. n : s[k] = x
  BY Elements
<1>4. /\ \A k \in 1 .. n + 1 : t[k] \in ToSet(t)
      /\ \A x \in ToSet(t) : \E k \in 1 .. n + 1 : t[k] = x
  <2> HIDE DEF t
  <2> QED
    BY <1>1, Elements
<1>5. Distinct(s) <=> \A j, k \in 1 .. n : j # k => s[j] # s[k]
  BY DEF Distinct
<1>6. Distinct(t) <=> \A j, k \in 1 .. n + 1 : j # k => t[j] # t[k]
  BY <1>1 DEF Distinct
<1> HIDE DEF n, t
\* Where the elements of t come from.
<1>7. ASSUME NEW k \in 1 .. n + 1
      PROVE  \/ k < i /\ k \in 1 .. n /\ t[k] = s[k]
             \/ k = i /\ t[k] = e
             \/ k > i /\ k - 1 \in 1 .. n /\ t[k] = s[k - 1]
  BY <1>1, <1>2
<1>8. ASSUME NEW x \in ToSet(t) PROVE x \in ToSet(s) \cup {e}
  BY <1>3, <1>4, <1>7
<1>9. e \in ToSet(t)
  <2>1. t[i] = e
    BY <1>1, <1>2
  <2> QED
    BY <1>2, <1>4, <2>1
<1>10. ASSUME NEW x \in ToSet(s) PROVE x \in ToSet(t)
  <2>1. PICK k \in 1 .. n : s[k] = x
    BY <1>3
  <2>2. CASE k < i
    <3>1. k \in 1 .. n + 1 /\ t[k] = x
      BY <1>1, <1>2, <2>1, <2>2
    <3> QED
      BY <1>4, <3>1
  <2>3. CASE ~(k < i)
    <3>1. k + 1 \in 1 .. n + 1 /\ ~(k + 1 < i) /\ k + 1 # i /\ (k + 1) - 1 = k
      BY <1>2, <2>3
    <3>2. t[k + 1] = x
      BY <1>1, <2>1, <3>1
    <3> QED
      BY <1>4, <3>1, <3>2
  <2> QED
    BY <2>2, <2>3
<1>11. ASSUME Distinct(s), e \notin ToSet(s) PROVE Distinct(t)
  <2>1. SUFFICES ASSUME NEW j \in 1 .. n + 1, NEW k \in 1 .. n + 1, j # k PROVE t[j] # t[k]
    BY <1>6
  <2>2. /\ \/ j < i /\ j \in 1 .. n /\ t[j] = s[j]
           \/ j = i /\ t[j] = e
           \/ j > i /\ j - 1 \in 1 .. n /\ t[j] = s[j - 1]
        /\ \/ k < i /\ k \in 1 .. n /\ t[k] = s[k]
           \/ k = i /\ t[k] = e
           \/ k > i /\ k - 1 \in 1 .. n /\ t[k] = s[k - 1]
    BY <1>7
  <2>3. \A u, v \in 1 .. n : u # v => s[u] # s[v]
    BY <1>5, <1>11
  <2>4. \A u \in 1 .. n : s[u] # e
    BY <1>3, <1>11
  <2>5. j \in Int /\ k \in Int /\ i \in Int
    BY <1>2
  <2> QED
    BY <2>1, <2>2, <2>3, <2>4, <2>5
<1>12. ToSet(t) = ToSet(s) \cup {e}
  BY <1>8, <1>9, <1>10
<1> QED
  BY <1>11, <1>12 DEF t

\* Removal takes one element out of the set of a distinct list.
LEMMA RemovedSet ==
  ASSUME NEW B, NEW s \in Seq(B), NEW i \in 1 .. Len(s), Distinct(s)
  PROVE  /\ ToSet(RemoveAt(s, i)) = ToSet(s) \ {s[i]}
         /\ Distinct(RemoveAt(s, i))
<1> DEFINE n == Len(s)
           t == RemoveAt(s, i)
<1>1. /\ t \in Seq(B) /\ Len(t) = n - 1
      /\ \A k \in 1 .. n - 1 : t[k] = IF k < i THEN s[k] ELSE s[k + 1]
  BY Removed
<1>2. n \in Nat /\ i \in 1 .. n
  BY LenProperties
<1>3. /\ \A k \in 1 .. n : s[k] \in ToSet(s)
      /\ \A x \in ToSet(s) : \E k \in 1 .. n : s[k] = x
  BY Elements
<1>4. /\ \A k \in 1 .. n - 1 : t[k] \in ToSet(t)
      /\ \A x \in ToSet(t) : \E k \in 1 .. n - 1 : t[k] = x
  <2> HIDE DEF t
  <2> QED
    BY <1>1, Elements
<1>5. \A j, k \in 1 .. n : j # k => s[j] # s[k]
  BY DEF Distinct
<1>6. Distinct(t) <=> \A j, k \in 1 .. n - 1 : j # k => t[j] # t[k]
  BY <1>1 DEF Distinct
<1> HIDE DEF n, t
<1>7. ASSUME NEW k \in 1 .. n - 1
      PROVE  \/ k < i /\ k \in 1 .. n /\ t[k] = s[k]
             \/ k >= i /\ k + 1 \in 1 .. n /\ t[k] = s[k + 1]
  BY <1>1, <1>2
<1>8. ASSUME NEW x \in ToSet(t) PROVE x \in ToSet(s) /\ x # s[i]
  <2>1. PICK k \in 1 .. n - 1 : t[k] = x
    BY <1>4
  <2>2. \/ k < i /\ k \in 1 .. n /\ t[k] = s[k]
        \/ k >= i /\ k + 1 \in 1 .. n /\ t[k] = s[k + 1]
    BY <1>7
  <2>3. k # i => s[k] # s[i] \/ ~(k \in 1 .. n)
    BY <1>2, <1>5
  <2>4. k + 1 # i => s[k + 1] # s[i] \/ ~(k + 1 \in 1 .. n)
    BY <1>2, <1>5
  <2>5. k \in Int /\ i \in Int
    BY <1>2
  <2> QED
    BY <1>3, <2>1, <2>2, <2>3, <2>4, <2>5
<1>9. ASSUME NEW x \in ToSet(s), x # s[i] PROVE x \in ToSet(t)
  <2>1. PICK k \in 1 .. n : s[k] = x
    BY <1>3
  <2>2. CASE k < i
    <3>1. k \in 1 .. n - 1 /\ t[k] = x
      BY <1>1, <1>2, <2>1, <2>2
    <3> QED
      BY <1>4, <3>1
  <2>3. CASE ~(k < i)
    <3>1. k - 1 \in 1 .. n - 1 /\ ~(k - 1 < i) /\ (k - 1) + 1 = k
      BY <1>2, <1>9, <2>1, <2>3
    <3>2. t[k - 1] = x
      BY <1>1, <2>1, <3>1
    <3> QED
      BY <1>4, <3>1, <3>2
  <2> QED
    BY <2>2, <2>3
<1>10. Distinct(t)
  <2>1. SUFFICES ASSUME NEW j \in 1 .. n - 1, NEW k \in 1 .. n - 1, j # k PROVE t[j] # t[k]
    BY <1>6
  <2>2. /\ \/ j < i /\ j \in 1 .. n /\ t[j] = s[j]
           \/ j >= i /\ j + 1 \in 1 .. n /\ t[j] = s[j + 1]
        /\ \/ k < i /\ k \in 1 .. n /\ t[k] = s[k]
           \/ k >= i /\ k + 1 \in 1 .. n /\ t[k] = s[k + 1]
    BY <1>7
  <2>3. j \in Int /\ k \in Int /\ i \in Int
    BY <1>2
  <2> QED
    BY <1>5, <2>1, <2>2, <2>3
<1>11. ToSet(t) = ToSet(s) \ {s[i]}
  BY <1>8, <1>9
<1> QED
  BY <1>10, <1>11 DEF t

\* Replacement exchanges one element of the set of a distinct list.
LEMMA ReplacedSet ==
  ASSUME NEW B, NEW s \in Seq(B), NEW i \in 1 .. Len(s), NEW e \in B, Distinct(s),
         e \notin ToSet(s) \ {s[i]}
  PROVE  /\ [s EXCEPT ![i] = e] \in Seq(B)
         /\ ToSet([s EXCEPT ![i] = e]) = (ToSet(s) \ {s[i]}) \cup {e}
         /\ Distinct([s EXCEPT ![i] = e])
<1> DEFINE r == RemoveAt(s, i)
<1>1. r \in Seq(B) /\ i \in 1 .. Len(r) + 1
  BY LenProperties, Removed
<1>2. [s EXCEPT ![i] = e] = InsertAt(r, i, e) /\ [s EXCEPT ![i] = e] \in Seq(B)
  BY Replaced, ExceptSeq
<1>3. ToSet(r) = ToSet(s) \ {s[i]} /\ Distinct(r)
  BY RemovedSet
<1> HIDE DEF r
<1>4. ToSet(InsertAt(r, i, e)) = ToSet(r) \cup {e} /\ Distinct(InsertAt(r, i, e))
  BY <1>1, <1>3, InsertedSet
<1> QED
  BY <1>2, <1>3, <1>4

\* An element put at the end.
LEMMA AppendedSet ==
  ASSUME NEW B, NEW s \in Seq(B), NEW e \in B
  PROVE  /\ ToSet(Append(s, e)) = ToSet(s) \cup {e}
         /\ Distinct(Append(s, e)) <=> Distinct(s) /\ e \notin ToSet(s)
<1> DEFINE n == Len(s)
           t == Append(s, e)
<1>1. /\ t \in Seq(B) /\ Len(t) = n + 1 /\ t[n + 1] = e
      /\ \A k \in 1 .. n : t[k] = s[k]
  BY AppendProperties
<1>2. n \in Nat
  BY LenProperties
<1>3. /\ \A k \in 1 .. n : s[k] \in ToSet(s)
      /\ \A x \in ToSet(s) : \E k \in 1 .. n : s[k] = x
  BY Elements
<1>4. /\ \A k \in 1 .. n + 1 : t[k] \in ToSet(t)
      /\ \A x \in ToSet(t) : \E k \in 1 .. n + 1 : t[k] = x
  <2> HIDE DEF t
  <2> QED
    BY <1>1, Elements
<1>5. Distinct(s) <=> \A j, k \in 1 .. n : j # k => s[j] # s[k]
  BY DEF Distinct
<1>6. Distinct(t) <=> \A j, k \in 1 .. n + 1 : j # k => t[j] # t[k]
  BY <1>1 DEF Distinct
<1> HIDE DEF n, t
<1>7. \A k \in 1 .. n + 1 : k = n + 1 \/ (k \in 1 .. n /\ t[k] = s[k])
  BY <1>1, <1>2
<1>8. n + 1 \in 1 .. n + 1 /\ \A k \in 1 .. n : k \in 1 .. n + 1 /\ k # n + 1
  BY <1>2
<1>9. ToSet(t) = ToSet(s) \cup {e}
  <2>1. \A x \in ToSet(t) : x \in ToSet(s) \cup {e}
    BY <1>1, <1>3, <1>4, <1>7
  <2>2. e \in ToSet(t)
    BY <1>1, <1>4, <1>8
  <2>3. \A x \in ToSet(s) : x \in ToSet(t)
    BY <1>1, <1>3, <1>4, <1>8
  <2> QED
    BY <2>1, <2>2, <2>3
<1>10. ASSUME Distinct(t) PROVE Distinct(s) /\ e \notin ToSet(s)
  <2>1. Distinct(s)
    BY <1>1, <1>5, <1>6, <1>8, <1>10
  <2>2. \A k \in 1 .. n : s[k] # e
    BY <1>1, <1>6, <1>8, <1>10
  <2> QED
    BY <1>3, <2>1, <2>2
<1>11. ASSUME Distinct(s), e \notin ToSet(s) PROVE Distinct(t)
  <2>1. \A k \in 1 .. n : s[k] # e
    BY <1>3, <1>11
  <2> QED
    BY <1>1, <1>5, <1>6, <1>7, <1>11, <2>1
<1> QED
  BY <1>9, <1>10, <1>11 DEF t
=============================================================================
