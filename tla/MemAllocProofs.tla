---------------------------- MODULE MemAllocProofs ----------------------------
(***************************************************************************)
(* Theorems about the allocator, for every memory size, every set of       *)
(* requests and any number of processes.                                   *)
(***************************************************************************)
EXTENDS MemAlloc, ListLemmas, FiniteSetTheorems

-----------------------------------------------------------------------------
(* The sums over a list.                                                   *)

\* The steps of the two sums, as functions, and the second sum.
AddSize(B) == [p \in Nat \X B |-> p[1] + p[2].size]
AddRequest(B) == [p \in Nat \X B |-> p[1] + p[2].r_size]
TotalRequest(list) == FoldLeft(LAMBDA n, ab : n + ab.r_size, 0, list)

\* Total is that fold.
LEMMA TotalFolds ==
  ASSUME NEW B, \A b \in B : b.size \in Nat, NEW s \in Seq(B)
  PROVE  FoldsTo(Total(s), s, 0, AddSize(B))
<1> DEFINE G == AddSize(B)
           Rec(it) == [x \in SUBSET DOMAIN s |->
                        IF x = {} THEN 0 ELSE it[x \ {Max(x)}] + s[Max(x)].size]
<1>1. Len(s) \in Nat /\ DOMAIN s = 1 .. Len(s) /\ \A k \in 1 .. Len(s) : s[k] \in B
  BY LenProperties, ElementOfSeq
<1>2. G \in [Nat \X B -> Nat] /\ \A a \in Nat, b \in B : G[<<a, b>>] = a + b.size
  BY DEF AddSize
<1>3. \A x \in SUBSET DOMAIN s : x # {} => s[Max(x)] \in B
  BY <1>1, Greatest
<1> HIDE DEF G
<1>4. PICK it \in [SUBSET (1 .. Len(s)) -> Nat] : IsListFold(it, s, 0, G)
  BY <1>2, ListFoldExists
<1>5. it = Rec(it)
  BY <1>1, <1>2, <1>3, <1>4 DEF IsListFold
<1>6. Total(s) = (CHOOSE f : f = Rec(f))[DOMAIN s]
  BY DEF Total, FoldLeft, MapThenFoldSet
<1>7. PICK f : f = Rec(f) /\ Total(s) = f[DOMAIN s]
  <2> HIDE DEF Rec
  <2> QED
    BY <1>5, <1>6
<1>8. f[{}] = 0
  BY <1>7
<1>9. ASSUME NEW x \in SUBSET (1 .. Len(s)), x # {} /\ f[x \ {Max(x)}] \in Nat
      PROVE  f[x] = G[<<f[x \ {Max(x)}], s[Max(x)]>>]
  <2>1. f[x] = f[x \ {Max(x)}] + s[Max(x)].size
    BY <1>1, <1>7, <1>9
  <2> QED
    BY <1>1, <1>2, <1>3, <1>9, <2>1
<1> HIDE DEF Rec
<1>10. FoldEquation(f, s, Nat, 0, G)
  BY <1>8, <1>9 DEF FoldEquation
<1>11. FoldsTo(f[1 .. Len(s)], s, 0, G)
  BY <1>2, <1>10, WalkOfFold
<1> QED
  BY <1>1, <1>7, <1>11 DEF G

\* The sum of the requests is that fold.
LEMMA RequestFolds ==
  ASSUME NEW B, \A b \in B : b.r_size \in Nat, NEW s \in Seq(B)
  PROVE  FoldsTo(TotalRequest(s), s, 0, AddRequest(B))
<1> DEFINE G == AddRequest(B)
           Rec(it) == [x \in SUBSET DOMAIN s |->
                        IF x = {} THEN 0 ELSE it[x \ {Max(x)}] + s[Max(x)].r_size]
<1>1. Len(s) \in Nat /\ DOMAIN s = 1 .. Len(s) /\ \A k \in 1 .. Len(s) : s[k] \in B
  BY LenProperties, ElementOfSeq
<1>2. G \in [Nat \X B -> Nat] /\ \A a \in Nat, b \in B : G[<<a, b>>] = a + b.r_size
  BY DEF AddRequest
<1>3. \A x \in SUBSET DOMAIN s : x # {} => s[Max(x)] \in B
  BY <1>1, Greatest
<1> HIDE DEF G
<1>4. PICK it \in [SUBSET (1 .. Len(s)) -> Nat] : IsListFold(it, s, 0, G)
  BY <1>2, ListFoldExists
<1>5. it = Rec(it)
  BY <1>1, <1>2, <1>3, <1>4 DEF IsListFold
<1>6. TotalRequest(s) = (CHOOSE f : f = Rec(f))[DOMAIN s]
  BY DEF TotalRequest, FoldLeft, MapThenFoldSet
<1>7. PICK f : f = Rec(f) /\ TotalRequest(s) = f[DOMAIN s]
  <2> HIDE DEF Rec
  <2> QED
    BY <1>5, <1>6
<1>8. f[{}] = 0
  BY <1>7
<1>9. ASSUME NEW x \in SUBSET (1 .. Len(s)), x # {} /\ f[x \ {Max(x)}] \in Nat
      PROVE  f[x] = G[<<f[x \ {Max(x)}], s[Max(x)]>>]
  <2>1. f[x] = f[x \ {Max(x)}] + s[Max(x)].r_size
    BY <1>1, <1>7, <1>9
  <2> QED
    BY <1>1, <1>2, <1>3, <1>9, <2>1
<1> HIDE DEF Rec
<1>10. FoldEquation(f, s, Nat, 0, G)
  BY <1>8, <1>9 DEF FoldEquation
<1>11. FoldsTo(f[1 .. Len(s)], s, 0, G)
  BY <1>2, <1>10, WalkOfFold
<1> QED
  BY <1>1, <1>7, <1>11 DEF G

\* Both are sums in the sense of ListLemmas.
LEMMA TotalIsSum ==
  ASSUME NEW B, \A b \in B : b.size \in Nat
  PROVE  IsSum([s \in Seq(B) |-> Total(s)], [b \in B |-> b.size], B)
<1> DEFINE G == AddSize(B)
<1>1. G \in [Nat \X B -> Nat] /\ \A a \in Nat, b \in B : G[<<a, b>>] = a + b.size
  BY DEF AddSize
<1>2. \A s \in Seq(B) : FoldsTo(Total(s), s, 0, G)
  BY TotalFolds
<1>3. <<>> \in Seq(B) /\ \A s \in Seq(B), e \in B : Append(s, e) \in Seq(B)
  BY AppendProperties, EmptySeq
<1> HIDE DEF G
<1>4. Total(<<>>) = 0 /\ \A s \in Seq(B) : Total(s) \in Nat
  BY <1>1, <1>2, <1>3, FoldSteps
<1>5. ASSUME NEW s \in Seq(B), NEW e \in B PROVE Total(Append(s, e)) = Total(s) + e.size
  <2>1. FoldsTo(Total(s), s, 0, G) /\ FoldsTo(Total(Append(s, e)), Append(s, e), 0, G)
    BY <1>2, <1>3
  <2>2. Total(Append(s, e)) = G[<<Total(s), e>>]
    BY <1>1, <2>1, FoldSteps
  <2> QED
    BY <1>1, <1>4, <2>2
<1> QED
  BY <1>3, <1>4, <1>5 DEF IsSum

\* The requests of a list sum up, one element after another.
LEMMA RequestIsSum ==
  ASSUME NEW B, \A b \in B : b.r_size \in Nat
  PROVE  IsSum([s \in Seq(B) |-> TotalRequest(s)], [b \in B |-> b.r_size], B)
<1> DEFINE G == AddRequest(B)
<1>1. G \in [Nat \X B -> Nat] /\ \A a \in Nat, b \in B : G[<<a, b>>] = a + b.r_size
  BY DEF AddRequest
<1>2. \A s \in Seq(B) : FoldsTo(TotalRequest(s), s, 0, G)
  BY RequestFolds
<1>3. <<>> \in Seq(B) /\ \A s \in Seq(B), e \in B : Append(s, e) \in Seq(B)
  BY AppendProperties, EmptySeq
<1> HIDE DEF G
<1>4. TotalRequest(<<>>) = 0 /\ \A s \in Seq(B) : TotalRequest(s) \in Nat
  BY <1>1, <1>2, <1>3, FoldSteps
<1>5. ASSUME NEW s \in Seq(B), NEW e \in B
      PROVE  TotalRequest(Append(s, e)) = TotalRequest(s) + e.r_size
  <2>1. /\ FoldsTo(TotalRequest(s), s, 0, G)
        /\ FoldsTo(TotalRequest(Append(s, e)), Append(s, e), 0, G)
    BY <1>2, <1>3
  <2>2. TotalRequest(Append(s, e)) = G[<<TotalRequest(s), e>>]
    BY <1>1, <2>1, FoldSteps
  <2> QED
    BY <1>1, <1>4, <2>2
<1> QED
  BY <1>3, <1>4, <1>5 DEF IsSum

-----------------------------------------------------------------------------
(* The three insertion sorts.                                              *)

\* The place SortedInsert finds.
Place(m, sorted, b) ==
  LET next == SelectInSeq(sorted, LAMBDA c : ~Precedes(m, c, b))
  IN  IF next = 0 THEN Len(sorted) + 1 ELSE next

\* The place: everything before it precedes the new block, and what stands there does not.
LEMMA PlaceFound ==
  ASSUME NEW m, NEW B, NEW s \in Seq(B), NEW b
  PROVE  /\ SortedInsert(m, s, b) = InsertAt(s, Place(m, s, b), b)
         /\ Place(m, s, b) \in 1 .. Len(s) + 1
         /\ \A k \in 1 .. Len(s) : k < Place(m, s, b) => Precedes(m, s[k], b)
         /\ Place(m, s, b) \in 1 .. Len(s) => ~Precedes(m, s[Place(m, s, b)], b)
<1> DEFINE I == {k \in 1 .. Len(s) : ~Precedes(m, s[k], b)}
           next == IF I # {} THEN Min(I) ELSE 0
           i == Place(m, s, b)
<1>1. Len(s) \in Nat
  BY LenProperties
<1>2. SelectInSeq(s, LAMBDA c : ~Precedes(m, c, b)) = next
  BY DEF SelectInSeq
<1>3. i = IF next = 0 THEN Len(s) + 1 ELSE next
  BY <1>2 DEF Place
<1>4. SortedInsert(m, s, b) = InsertAt(s, i, b)
  BY DEF SortedInsert, Place
<1> HIDE DEF i
<1>5. CASE I = {}
  <2>1. i = Len(s) + 1
    BY <1>3, <1>5
  <2>2. \A k \in 1 .. Len(s) : Precedes(m, s[k], b)
    BY <1>5
  <2> QED
    BY <1>1, <1>4, <2>1, <2>2 DEF i
<1>6. CASE I # {}
  <2>1. \E x \in I : \A y \in I : x <= y
    <3>1. I \in SUBSET Nat
      OBVIOUS
    <3> QED
      BY <1>6, <3>1, LeastNatural
  <2>2. Min(I) \in I /\ \A y \in I : Min(I) <= y
    BY <2>1 DEF Min
  <2>3. i \in I /\ \A y \in I : i <= y
    <3>1. next = Min(I) /\ next # 0
      BY <1>6, <2>2
    <3>2. i = next
      BY <1>3, <3>1
    <3> HIDE DEF I, next
    <3> QED
      BY <2>2, <3>1, <3>2
  <2>4. i \in 1 .. Len(s) /\ ~Precedes(m, s[i], b)
    BY <2>3
  <2>5. \A k \in 1 .. Len(s) : k < i => Precedes(m, s[k], b)
    BY <2>3, <2>4
  <2> QED
    BY <1>1, <1>4, <2>4, <2>5 DEF i
<1> QED
  BY <1>5, <1>6

\* The step of Rearrange, as a function.
Insertion(m, B) == [p \in Seq(B) \X B |-> SortedInsert(m, p[1], p[2])]

\* It stays among the lists of B.
LEMMA InsertionType ==
  ASSUME NEW m, NEW B
  PROVE  \A a \in Seq(B), b \in B : SortedInsert(m, a, b) \in Seq(B)
<1> SUFFICES ASSUME NEW a \in Seq(B), NEW b \in B PROVE SortedInsert(m, a, b) \in Seq(B)
  OBVIOUS
<1>1. SortedInsert(m, a, b) = InsertAt(a, Place(m, a, b), b) /\ Place(m, a, b) \in 1 .. Len(a) + 1
  BY PlaceFound
<1> QED
  BY <1>1, Inserted

\* Rearrange is the fold of SortedInsert.
LEMMA RearrangeFolds ==
  ASSUME NEW B, NEW s \in Seq(B), NEW m
  PROVE  FoldsTo(Rearrange(m, s), s, <<>>, Insertion(m, B))
<1> DEFINE G == Insertion(m, B)
           Rec(it) == [x \in SUBSET DOMAIN s |->
                        IF x = {} THEN <<>> ELSE SortedInsert(m, it[x \ {Max(x)}], s[Max(x)])]
<1>1. Len(s) \in Nat /\ DOMAIN s = 1 .. Len(s) /\ \A k \in 1 .. Len(s) : s[k] \in B
  BY LenProperties, ElementOfSeq
<1>2. G \in [Seq(B) \X B -> Seq(B)] /\ \A a \in Seq(B), b \in B : G[<<a, b>>] = SortedInsert(m, a, b)
  BY InsertionType DEF Insertion
<1>3. \A x \in SUBSET DOMAIN s : x # {} => s[Max(x)] \in B
  BY <1>1, Greatest
<1> HIDE DEF G
<1>4. PICK it \in [SUBSET (1 .. Len(s)) -> Seq(B)] : IsListFold(it, s, <<>>, G)
  BY <1>2, ListFoldExists, <<>> \in Seq(B)
<1>5. it = Rec(it)
  BY <1>1, <1>2, <1>3, <1>4 DEF IsListFold
<1>6. Rearrange(m, s) = (CHOOSE f : f = Rec(f))[DOMAIN s]
  BY DEF Rearrange, FoldLeft, MapThenFoldSet
<1>7. PICK f : f = Rec(f) /\ Rearrange(m, s) = f[DOMAIN s]
  <2> HIDE DEF Rec
  <2> QED
    BY <1>5, <1>6
<1>8. f[{}] = <<>>
  BY <1>7
<1>9. ASSUME NEW x \in SUBSET (1 .. Len(s)), x # {} /\ f[x \ {Max(x)}] \in Seq(B)
      PROVE  f[x] = G[<<f[x \ {Max(x)}], s[Max(x)]>>]
  <2>1. f[x] = SortedInsert(m, f[x \ {Max(x)}], s[Max(x)])
    BY <1>1, <1>7, <1>9
  <2> QED
    BY <1>1, <1>2, <1>3, <1>9, <2>1
<1> HIDE DEF Rec
<1>10. FoldEquation(f, s, Seq(B), <<>>, G)
  BY <1>8, <1>9 DEF FoldEquation
<1>11. FoldsTo(f[1 .. Len(s)], s, <<>>, G)
  BY <1>2, <1>10, WalkOfFold, <<>> \in Seq(B)
<1> QED
  BY <1>1, <1>7, <1>11 DEF G

\* Elements with an address and a size.
IsBlocks(B) == \A b \in B : b.start \in Nat /\ b.size \in Nat

\* The three placement algorithms, and the order one of them keeps a list in.
Algorithms == {MA_FF, MA_BF, MA_WF}
Sorted(m, s) == \A i, j \in 1 .. Len(s) : i < j => ~Precedes(m, s[j], s[i])

\* Precedes is asymmetric, and its negation transitive: enough to insert into order.
LEMMA PrecedesOrder ==
  ASSUME NEW m \in Algorithms, NEW B, IsBlocks(B), NEW x \in B, NEW y \in B, NEW z \in B
  PROVE  /\ Precedes(m, x, y) => ~Precedes(m, y, x)
         /\ ~Precedes(m, x, y) /\ ~Precedes(m, y, z) => ~Precedes(m, x, z)
BY DEF Precedes, IsBlocks, Algorithms, MA_FF, MA_BF, MA_WF

\* Insertion keeps a list in the order of its algorithm.
LEMMA InsertSorted ==
  ASSUME NEW m \in Algorithms, NEW B, IsBlocks(B), NEW s \in Seq(B), NEW e \in B, Sorted(m, s)
  PROVE  Sorted(m, SortedInsert(m, s, e))
<1> DEFINE n == Len(s)
           p == Place(m, s, e)
           t == InsertAt(s, p, e)
<1>1. /\ SortedInsert(m, s, e) = t /\ p \in 1 .. n + 1
      /\ \A k \in 1 .. n : k < p => Precedes(m, s[k], e)
      /\ p \in 1 .. n => ~Precedes(m, s[p], e)
  BY PlaceFound
<1>2. n \in Nat /\ \A k \in 1 .. n : s[k] \in B
  BY LenProperties, ElementOfSeq
<1> HIDE DEF p
<1>3. /\ t \in Seq(B) /\ Len(t) = n + 1
      /\ \A k \in 1 .. n + 1 : t[k] = IF k < p THEN s[k] ELSE IF k = p THEN e ELSE s[k - 1]
  <2> HIDE DEF n, t
  <2>1. PICK i \in 1 .. Len(s) + 1 : i = p /\ n = Len(s) /\ t = InsertAt(s, i, e)
    BY <1>1 DEF n, t
  <2>2. InsertAt(s, i, e) \in Seq(B)
    BY Inserted
  <2>3. Len(InsertAt(s, i, e)) = Len(s) + 1
    BY Inserted
  <2>4. ASSUME NEW k \in 1 .. Len(s) + 1
        PROVE  InsertAt(s, i, e)[k] = IF k < i THEN s[k] ELSE IF k = i THEN e ELSE s[k - 1]
    BY Inserted, SMTT(40)
  <2> QED
    BY <2>1, <2>2, <2>3, <2>4
<1>4. \A i, j \in 1 .. n : i < j => ~Precedes(m, s[j], s[i])
  BY DEF Sorted
<1> HIDE DEF n, t
<1>5. \A k \in 1 .. n : k < p => ~Precedes(m, e, s[k])
  BY <1>1, <1>2, PrecedesOrder
<1>6. ASSUME NEW k \in 1 .. n, k >= p PROVE ~Precedes(m, s[k], e)
  <2>1. p \in 1 .. n /\ ~Precedes(m, s[p], e)
    BY <1>1, <1>2, <1>6
  <2>2. k = p \/ ~Precedes(m, s[k], s[p])
    BY <1>4, <1>6, <2>1
  <2> QED
    BY <1>2, <2>1, <2>2, PrecedesOrder
<1>7. SUFFICES ASSUME NEW i \in 1 .. n + 1, NEW j \in 1 .. n + 1, i < j
               PROVE  ~Precedes(m, t[j], t[i])
  BY <1>1, <1>3 DEF Sorted
<1>8. ASSUME NEW k \in 1 .. n + 1
      PROVE  \/ k < p /\ k \in 1 .. n /\ t[k] = s[k]
             \/ k = p /\ t[k] = e
             \/ k > p /\ k - 1 \in 1 .. n /\ k - 1 >= p /\ t[k] = s[k - 1]
  BY <1>1, <1>2, <1>3
<1>9. /\ \/ i < p /\ i \in 1 .. n /\ t[i] = s[i]
         \/ i = p /\ t[i] = e
         \/ i > p /\ i - 1 \in 1 .. n /\ i - 1 >= p /\ t[i] = s[i - 1]
      /\ \/ j < p /\ j \in 1 .. n /\ t[j] = s[j]
         \/ j = p /\ t[j] = e
         \/ j > p /\ j - 1 \in 1 .. n /\ j - 1 >= p /\ t[j] = s[j - 1]
  BY <1>8
<1>10. i \in Int /\ j \in Int /\ p \in Int /\ n \in Int
  BY <1>1, <1>2
<1> QED
  BY <1>4, <1>5, <1>6, <1>7, <1>9, <1>10

\* Sorting keeps the blocks and their sizes, and puts them in order.
LEMMA Rearranged ==
  ASSUME NEW m \in Algorithms, NEW B, IsBlocks(B), NEW s \in Seq(B)
  PROVE  /\ Rearrange(m, s) \in Seq(B)
         /\ ToSet(Rearrange(m, s)) = ToSet(s)
         /\ Distinct(s) => Distinct(Rearrange(m, s))
         /\ Total(Rearrange(m, s)) = Total(s)
         /\ Sorted(m, Rearrange(m, s))
<1> DEFINE R(u) == Rearrange(m, u)
           T == [u \in Seq(B) |-> Total(u)]
           W == [b \in B |-> b.size]
           G == Insertion(m, B)
           Good(u) == /\ R(u) \in Seq(B) /\ ToSet(R(u)) = ToSet(u)
                      /\ (Distinct(u) => Distinct(R(u)))
                      /\ Total(R(u)) = Total(u) /\ Sorted(m, R(u))
           P == {u \in Seq(B) : Good(u)}
<1>1. IsSum(T, W, B)
  BY TotalIsSum DEF IsBlocks
<1>2. G \in [Seq(B) \X B -> Seq(B)] /\ <<>> \in Seq(B)
  BY InsertionType, EmptySeq DEF Insertion
<1>3. \A u \in Seq(B), e \in B : G[<<u, e>>] = SortedInsert(m, u, e)
  BY DEF Insertion
<1>4. \A u \in Seq(B) : FoldsTo(R(u), u, <<>>, G)
  BY RearrangeFolds
<1> HIDE DEF G
<1>5. R(<<>>) = <<>>
  <2> HIDE DEF R
  <2> QED
    BY <1>2, <1>4, FoldSteps
<1>6. <<>> \in P
  <2>1. Sorted(m, <<>>)
    BY DEF Sorted
  <2> HIDE DEF R
  <2> QED
    BY <1>2, <1>5, <2>1
<1>7. ASSUME NEW u \in Seq(B), NEW e \in B, u \in P PROVE Append(u, e) \in P
  <2> DEFINE a == Append(u, e)
             q == Place(m, R(u), e)
  <2>1. Good(u)
    BY <1>7
  <2>2. /\ a \in Seq(B) /\ ToSet(a) = ToSet(u) \cup {e}
        /\ (Distinct(a) => Distinct(u) /\ e \notin ToSet(u))
    BY AppendProperties, AppendedSet
  <2>3. R(a) = SortedInsert(m, R(u), e)
    <3> HIDE DEF R, a
    <3>1. FoldsTo(R(u), u, <<>>, G) /\ FoldsTo(R(a), a, <<>>, G)
      BY <1>4, <2>2
    <3>2. R(a) = G[<<R(u), e>>]
      BY <1>2, <3>1, FoldSteps DEF a
    <3> QED
      BY <1>3, <2>1, <3>2
  <2> HIDE DEF R
  <2>4. R(a) = InsertAt(R(u), q, e) /\ q \in 1 .. Len(R(u)) + 1
    BY <2>1, <2>3, PlaceFound
  <2>5. Sorted(m, R(a))
    BY <2>1, <2>3, InsertSorted
  <2> HIDE DEF q
  <2>6. R(a) \in Seq(B) /\ ToSet(R(a)) = ToSet(R(u)) \cup {e}
        /\ (Distinct(R(u)) /\ e \notin ToSet(R(u)) => Distinct(R(a)))
    BY <2>1, <2>4, Inserted, InsertedSet
  <2>7. Total(R(a)) = Total(a)
    <3>1. T[R(a)] = T[R(u)] + W[e]
      BY <1>1, <2>1, <2>4, SumInserted
    <3>2. T[a] = T[u] + W[e]
      BY <1>1 DEF IsSum
    <3> HIDE DEF a
    <3>3. T[R(a)] = Total(R(a)) /\ T[R(u)] = Total(R(u)) /\ T[a] = Total(a) /\ T[u] = Total(u)
      BY <2>1, <2>2, <2>6
    <3> QED
      BY <2>1, <3>1, <3>2, <3>3
  <2> HIDE DEF a
  <2>8. Good(a)
    BY <2>1, <2>2, <2>5, <2>6, <2>7
  <2> QED
    BY <2>2, <2>8 DEF a
<1> HIDE DEF P
<1>8. Seq(B) \subseteq P
  BY <1>6, <1>7, ListSteps
<1> QED
  BY <1>8 DEF P
-----------------------------------------------------------------------------
(* Merging the neighbours of a list in address order.                      *)

\* Free blocks are never empty; End is the address behind a block.
FreeBlocks == [start : Nat, size : Nat \ {0}]
End(b) == b.start + b.size

\* They have an address and a size.
LEMMA FreeBlocksAreBlocks == IsBlocks(FreeBlocks) /\ \A b \in FreeBlocks : b.size \in Nat
BY DEF IsBlocks, FreeBlocks

\* Either the last block grows or the new one goes behind it.
LEMMA MergeNextOutcome ==
  ASSUME NEW u \in Seq(FreeBlocks), NEW b \in FreeBlocks
  PROVE  \/ /\ u # <<>> /\ End(u[Len(u)]) = b.start
            /\ Len(u) \in 1 .. Len(u)
            /\ Block(u[Len(u)].start, u[Len(u)].size + b.size) \in FreeBlocks
            /\ MergeNext(u, b) =
                 [u EXCEPT ![Len(u)] = Block(u[Len(u)].start, u[Len(u)].size + b.size)]
         \/ /\ u = <<>> \/ End(u[Len(u)]) # b.start
            /\ MergeNext(u, b) = Append(u, b)
<1> DEFINE n == Len(u)
<1>1. n \in Nat /\ u \in [1 .. n -> FreeBlocks] /\ (u # <<>> => n # 0)
  BY LenProperties, EmptySeq
<1>2. CASE u # <<>> /\ End(u[n]) = b.start
  <2>1. n \in 1 .. n /\ u[n] \in FreeBlocks
    BY <1>1, <1>2
  <2>2. MergeNext(u, b) = [u EXCEPT ![n].size = @ + b.size]
    BY <1>2 DEF MergeNext, Last, End
  <2>3. Block(u[n].start, u[n].size + b.size) \in FreeBlocks
    BY <2>1 DEF FreeBlocks, Block
  <2>4. [u[n] EXCEPT !.size = @ + b.size] = Block(u[n].start, u[n].size + b.size)
    <3>1. \A c \in FreeBlocks : [c EXCEPT !.size = @ + b.size] = Block(c.start, c.size + b.size)
      BY DEF FreeBlocks, Block
    <3> QED
      BY <2>1, <3>1
  <2>5. [u EXCEPT ![n].size = @ + b.size] = [u EXCEPT ![n] = [u[n] EXCEPT !.size = @ + b.size]]
    BY <1>1, <2>1
  <2> QED
    BY <1>2, <2>1, <2>2, <2>3, <2>4, <2>5
<1>3. CASE ~(u # <<>> /\ End(u[n]) = b.start)
  BY <1>3 DEF MergeNext, Last, End
<1> QED
  BY <1>2, <1>3

\* The step of the merge, as a function.
Merging == [p \in Seq(FreeBlocks) \X FreeBlocks |-> MergeNext(p[1], p[2])]

\* It stays among the lists of free blocks.
LEMMA MergeType == \A u \in Seq(FreeBlocks), b \in FreeBlocks : MergeNext(u, b) \in Seq(FreeBlocks)
<1> SUFFICES ASSUME NEW u \in Seq(FreeBlocks), NEW b \in FreeBlocks
             PROVE  MergeNext(u, b) \in Seq(FreeBlocks)
  OBVIOUS
<1> QED
  BY MergeNextOutcome, ExceptSeq, AppendProperties

\* Merge is the fold of MergeNext.
LEMMA MergeFolds ==
  ASSUME NEW s \in Seq(FreeBlocks)
  PROVE  FoldsTo(Merge(s), s, <<>>, Merging)
<1> DEFINE G == Merging
           Rec(it) == [x \in SUBSET DOMAIN s |->
                        IF x = {} THEN <<>> ELSE MergeNext(it[x \ {Max(x)}], s[Max(x)])]
<1>1. Len(s) \in Nat /\ DOMAIN s = 1 .. Len(s) /\ \A k \in 1 .. Len(s) : s[k] \in FreeBlocks
  BY LenProperties, ElementOfSeq
<1>2. G \in [Seq(FreeBlocks) \X FreeBlocks -> Seq(FreeBlocks)] /\ \A a \in Seq(FreeBlocks), b \in FreeBlocks : G[<<a, b>>] = MergeNext(a, b)
  BY MergeType DEF Merging
<1>3. \A x \in SUBSET DOMAIN s : x # {} => s[Max(x)] \in FreeBlocks
  BY <1>1, Greatest
<1> HIDE DEF G
<1>4. PICK it \in [SUBSET (1 .. Len(s)) -> Seq(FreeBlocks)] : IsListFold(it, s, <<>>, G)
  BY <1>2, ListFoldExists, <<>> \in Seq(FreeBlocks)
<1>5. it = Rec(it)
  BY <1>1, <1>2, <1>3, <1>4 DEF IsListFold
<1>6. Merge(s) = (CHOOSE f : f = Rec(f))[DOMAIN s]
  BY DEF Merge, FoldLeft, MapThenFoldSet
<1>7. PICK f : f = Rec(f) /\ Merge(s) = f[DOMAIN s]
  <2> HIDE DEF Rec
  <2> QED
    BY <1>5, <1>6
<1>8. f[{}] = <<>>
  BY <1>7
<1>9. ASSUME NEW x \in SUBSET (1 .. Len(s)), x # {} /\ f[x \ {Max(x)}] \in Seq(FreeBlocks)
      PROVE  f[x] = G[<<f[x \ {Max(x)}], s[Max(x)]>>]
  <2>1. f[x] = MergeNext(f[x \ {Max(x)}], s[Max(x)])
    BY <1>1, <1>7, <1>9
  <2> QED
    BY <1>1, <1>2, <1>3, <1>9, <2>1
<1> HIDE DEF Rec
<1>10. FoldEquation(f, s, Seq(FreeBlocks), <<>>, G)
  BY <1>8, <1>9 DEF FoldEquation
<1>11. FoldsTo(f[1 .. Len(s)], s, <<>>, G)
  BY <1>2, <1>10, WalkOfFold, <<>> \in Seq(FreeBlocks)
<1> QED
  BY <1>1, <1>7, <1>11 DEF G

\* Lists in address order: without overlaps, and without neighbours; and the addresses
\* that a set of blocks holds.
Ascending(s) == \A i, j \in 1 .. Len(s) : i < j => End(s[i]) <= s[j].start
Gapped(s) == \A i, j \in 1 .. Len(s) : i < j => End(s[i]) < s[j].start
Covers(S, a) == \E b \in S : Holds(b, a)

\* A list with gaps between its blocks holds none of them twice.
LEMMA GappedDistinct ==
  ASSUME NEW s \in Seq(FreeBlocks), Gapped(s)
  PROVE  Distinct(s)
<1>1. \A k \in 1 .. Len(s) : s[k].start \in Nat /\ s[k].size \in Nat \ {0}
  <2>1. \A k \in 1 .. Len(s) : s[k] \in FreeBlocks
    BY ElementOfSeq
  <2> QED
    BY <2>1 DEF FreeBlocks
<1>2. ASSUME NEW i \in 1 .. Len(s), NEW j \in 1 .. Len(s), i < j PROVE s[i] # s[j]
  <2>1. End(s[i]) < s[j].start
    BY <1>2 DEF Gapped
  <2>2. s[i].start < End(s[i]) /\ End(s[i]) \in Nat /\ s[i].start \in Nat /\ s[j].start \in Nat
    BY <1>1 DEF End
  <2>3. s[i].start < s[j].start
    BY <2>1, <2>2
  <2> QED
    BY <2>2, <2>3
<1>3. Len(s) \in Nat
  BY LenProperties
<1>4. ASSUME NEW i \in 1 .. Len(s), NEW j \in 1 .. Len(s), i # j PROVE s[i] # s[j]
  <2>1. i < j \/ j < i
    BY <1>3, <1>4
  <2> QED
    BY <1>2, <2>1
<1> QED
  BY <1>4 DEF Distinct

\* A block that begins where the last one ends, or behind, is merged or appended.
LEMMA MergeStep ==
  ASSUME NEW u \in Seq(FreeBlocks), NEW b \in FreeBlocks, Gapped(u),
         u # <<>> => End(u[Len(u)]) <= b.start
  PROVE  /\ MergeNext(u, b) \in Seq(FreeBlocks) /\ MergeNext(u, b) # <<>>
         /\ Gapped(MergeNext(u, b))
         /\ End(MergeNext(u, b)[Len(MergeNext(u, b))]) = End(b)
         /\ Total(MergeNext(u, b)) = Total(u) + b.size
         /\ \A a \in Int : Covers(ToSet(MergeNext(u, b)), a)
                           <=> Covers(ToSet(u), a) \/ Holds(b, a)
<1> DEFINE n == Len(u)
           t == MergeNext(u, b)
           c == Block(u[n].start, u[n].size + b.size)
           T == [s \in Seq(FreeBlocks) |-> Total(s)]
           W == [x \in FreeBlocks |-> x.size]
<1>1. n \in Nat /\ (u # <<>> => n \in 1 .. n) /\ \A k \in 1 .. n : u[k] \in FreeBlocks
  BY LenProperties, EmptySeq, ElementOfSeq
<1>2. \A x \in FreeBlocks : x.start \in Nat /\ x.size \in Nat \ {0} /\ W[x] = x.size
  BY DEF FreeBlocks
<1>3. IsSum(T, W, FreeBlocks)
  BY TotalIsSum, FreeBlocksAreBlocks
<1>4. \A s \in Seq(FreeBlocks) : T[s] = Total(s) /\ Total(s) \in Nat
  BY <1>3 DEF IsSum
<1>5. t \in Seq(FreeBlocks)
  BY MergeType
<1>6. \A i, j \in 1 .. n : i < j => End(u[i]) < u[j].start
  BY DEF Gapped
<1>7. \A x \in ToSet(u) : \E k \in 1 .. n : u[k] = x
  BY Elements
<1>8. \A k \in 1 .. n : u[k] \in ToSet(u)
  BY Elements
<1> HIDE DEF t, T, W
<1>9. ASSUME u # <<>>, End(u[n]) = b.start, c \in FreeBlocks, t = [u EXCEPT ![n] = c]
      PROVE  /\ t # <<>> /\ Gapped(t) /\ End(t[Len(t)]) = End(b) /\ Total(t) = Total(u) + b.size
             /\ \A a \in Int : Covers(ToSet(t), a) <=> Covers(ToSet(u), a) \/ Holds(b, a)
  <2>1. c.start = u[n].start /\ c.size = u[n].size + b.size /\ n \in 1 .. n
    BY <1>1, <1>9 DEF Block
  <2>2. Len(t) = n /\ \A k \in 1 .. n : t[k] = IF k = n THEN c ELSE u[k]
    BY <1>9, <2>1, ExceptSeq
  <2> HIDE DEF n, c
  <2>3. t # <<>>
    BY <1>5, <2>1, <2>2, EmptySeq
  <2>4. Gapped(t)
    <3> SUFFICES ASSUME NEW i \in 1 .. n, NEW j \in 1 .. n, i < j PROVE End(t[i]) < t[j].start
      BY <2>2 DEF Gapped
    <3>1. i # n /\ t[i] = u[i]
      BY <1>1, <2>2
    <3>2. t[j].start = u[j].start
      BY <2>1, <2>2
    <3> QED
      BY <1>6, <3>1, <3>2
  <2>5. End(t[Len(t)]) = End(b)
    BY <1>1, <1>2, <1>9, <2>1, <2>2 DEF End
  <2>6. Total(t) = Total(u) + b.size
    <3>1. T[t] = T[RemoveAt(u, n)] + W[c] /\ T[u] = T[RemoveAt(u, n)] + W[u[n]]
      <4>1. n \in 1 .. Len(u)
        BY <2>1 DEF n
      <4>2. T[[u EXCEPT ![n] = c]] = T[RemoveAt(u, n)] + W[c]
        <5>1. c \in FreeBlocks
          BY <1>9
        <5> HIDE DEF c
        <5> QED
          BY <1>3, <4>1, <5>1, SumReplaced
      <4>3. T[u] = T[RemoveAt(u, n)] + W[u[n]]
        BY <1>3, <4>1, SumRemoved
      <4> QED
        BY <1>9, <4>2, <4>3
    <3>2. RemoveAt(u, n) \in Seq(FreeBlocks)
      BY <2>1, Removed DEF n
    <3>3. u[n] \in FreeBlocks
      BY <1>1, <2>1
    <3>4. W[c] = u[n].size + b.size /\ W[u[n]] = u[n].size /\ u[n].size \in Nat /\ b.size \in Nat
      BY <1>2, <1>9, <2>1, <3>3
    <3>5. T[t] = Total(t) /\ T[u] = Total(u) /\ T[RemoveAt(u, n)] \in Nat
      BY <1>4, <1>5, <3>2
    <3> QED
      BY <3>1, <3>4, <3>5
  <2>7. ASSUME NEW a \in Int
        PROVE  Covers(ToSet(t), a) <=> Covers(ToSet(u), a) \/ Holds(b, a)
    <3>1. /\ \A k \in 1 .. n : t[k] \in ToSet(t)
          /\ \A x \in ToSet(t) : \E k \in 1 .. n : t[k] = x
      BY <1>5, <2>2, Elements
    <3>2. Holds(c, a) <=> Holds(u[n], a) \/ Holds(b, a)
      <4>1. u[n] \in FreeBlocks
        BY <1>1, <2>1
      <4>2. u[n].start \in Nat /\ u[n].size \in Nat \ {0} /\ b.start \in Nat /\ b.size \in Nat \ {0}
        BY <1>2, <4>1 DEF FreeBlocks
      <4>3. u[n].start + u[n].size = b.start
        BY <1>9 DEF End
      <4>4. Holds(c, a) <=> u[n].start <= a /\ a < u[n].start + (u[n].size + b.size)
        BY <2>1 DEF Holds
      <4>5. /\ Holds(u[n], a) <=> u[n].start <= a /\ a < b.start
            /\ Holds(b, a) <=> b.start <= a /\ a < b.start + b.size
        BY <4>3 DEF Holds
      <4> QED
        BY <4>2, <4>3, <4>4, <4>5, SMTT(30)
    <3>3. Covers(ToSet(t), a) <=> \E k \in 1 .. n : Holds(t[k], a)
      BY <3>1 DEF Covers
    <3>4. Covers(ToSet(u), a) <=> \E k \in 1 .. n : Holds(u[k], a)
      BY <1>7, <1>8 DEF Covers
    <3> QED
      BY <2>1, <2>2, <3>2, <3>3, <3>4
  <2> QED
    BY <2>3, <2>4, <2>5, <2>6, <2>7
<1>10. ASSUME u = <<>> \/ End(u[n]) # b.start, t = Append(u, b)
       PROVE  /\ t # <<>> /\ Gapped(t) /\ End(t[Len(t)]) = End(b) /\ Total(t) = Total(u) + b.size
              /\ \A a \in Int : Covers(ToSet(t), a) <=> Covers(ToSet(u), a) \/ Holds(b, a)
  <2>1. /\ Len(t) = n + 1 /\ t[n + 1] = b /\ t # <<>>
        /\ \A k \in 1 .. n : t[k] = u[k]
    BY <1>10, AppendProperties
  <2>2. ToSet(t) = ToSet(u) \cup {b}
    BY <1>10, AppendedSet
  <2>3. Gapped(t)
    <3> SUFFICES ASSUME NEW i \in 1 .. n + 1, NEW j \in 1 .. n + 1, i < j
                 PROVE  End(t[i]) < t[j].start
      BY <2>1 DEF Gapped
    <3>1. i \in 1 .. n /\ t[i] = u[i] /\ n \in 1 .. n /\ u # <<>>
      <4>1. i \in 1 .. n /\ n \in 1 .. n
        BY <1>1
      <4>2. u # <<>>
        BY <4>1, EmptySeq
      <4> QED
        BY <2>1, <4>1, <4>2
    <3>2. End(u[n]) < b.start
      <4>1. u[n] \in FreeBlocks
        BY <1>1, <3>1
      <4>2. End(u[n]) \in Int /\ b.start \in Int
        BY <1>2, <4>1 DEF End
      <4> QED
        BY <1>10, <3>1, <4>2
    <3>3. ASSUME j = n + 1 PROVE End(t[i]) < t[j].start
      <4>1. i = n \/ (i < n /\ End(u[i]) < u[n].start)
        BY <1>1, <1>6, <3>1
      <4>2. u[n] \in FreeBlocks /\ u[i] \in FreeBlocks
        BY <1>1, <3>1
      <4>3. u[n].start <= End(u[n]) /\ End(u[i]) \in Int /\ u[n].start \in Int /\ b.start \in Int
            /\ End(u[n]) \in Int
        <5>1. /\ u[n].start \in Nat /\ u[n].size \in Nat /\ b.start \in Nat
              /\ u[i].start \in Nat /\ u[i].size \in Nat
          BY <1>2, <4>2
        <5>2. End(u[n]) = u[n].start + u[n].size /\ End(u[i]) = u[i].start + u[i].size
          BY DEF End
        <5> QED
          BY <5>1, <5>2, SMTT(30)
      <4> QED
        BY <2>1, <3>1, <3>2, <3>3, <4>1, <4>3
    <3>4. ASSUME j # n + 1 PROVE End(t[i]) < t[j].start
      <4>1. j \in 1 .. n /\ t[j] = u[j]
        BY <1>1, <2>1, <3>4
      <4> QED
        BY <1>6, <3>1, <4>1
    <3> QED
      BY <3>3, <3>4
  <2>4. Total(t) = Total(u) + b.size
    <3>1. T[Append(u, b)] = T[u] + W[b]
      BY <1>3 DEF IsSum
    <3> QED
      BY <1>2, <1>4, <1>5, <1>10, <3>1
  <2>5. \A a \in Int : Covers(ToSet(t), a) <=> Covers(ToSet(u), a) \/ Holds(b, a)
    BY <2>2 DEF Covers
  <2> QED
    BY <2>1, <2>3, <2>4, <2>5
<1>11. \/ u # <<>> /\ End(u[n]) = b.start /\ c \in FreeBlocks /\ t = [u EXCEPT ![n] = c]
       \/ (u = <<>> \/ End(u[n]) # b.start) /\ t = Append(u, b)
  BY MergeNextOutcome DEF t
<1> QED
  BY <1>5, <1>9, <1>10, <1>11 DEF t

\* Merging a list in address order keeps what it covers and leaves gaps.
LEMMA Merged ==
  ASSUME NEW s \in Seq(FreeBlocks), Ascending(s)
  PROVE  /\ Merge(s) \in Seq(FreeBlocks) /\ Gapped(Merge(s)) /\ Total(Merge(s)) = Total(s)
         /\ \A a \in Int : Covers(ToSet(Merge(s)), a) <=> Covers(ToSet(s), a)
<1> DEFINE M(u) == Merge(u)
           B == FreeBlocks
           T == [u \in Seq(FreeBlocks) |-> Total(u)]
           W == [x \in FreeBlocks |-> x.size]
           Good(u) == /\ Gapped(M(u)) /\ Total(M(u)) = Total(u)
                      /\ \A a \in Int : Covers(ToSet(M(u)), a) <=> Covers(ToSet(u), a)
                      /\ M(u) # <<>> => u # <<>> /\ End(M(u)[Len(M(u))]) = End(u[Len(u)])
           P == {u \in Seq(FreeBlocks) : Ascending(u) => Good(u)}
<1>1. IsSum(T, W, FreeBlocks)
  BY TotalIsSum, FreeBlocksAreBlocks
<1>2. Merging \in [Seq(B) \X B -> Seq(B)] /\ <<>> \in Seq(B)
  BY MergeType, EmptySeq DEF Merging
<1>3. \A u \in Seq(B), e \in B : Merging[<<u, e>>] = MergeNext(u, e)
  BY DEF Merging
<1>4. \A u \in Seq(B) : FoldsTo(M(u), u, <<>>, Merging)
  BY MergeFolds
<1> HIDE DEF M, B
<1>5. M(<<>>) = <<>> /\ \A u \in Seq(B) : M(u) \in Seq(B)
  BY <1>2, <1>4, FoldSteps
<1>6. <<>> \in P
  <2>1. Gapped(<<>>)
    BY DEF Gapped
  <2> QED
    BY <1>2, <1>5, <2>1 DEF B
<1>7. ASSUME NEW u \in Seq(FreeBlocks), NEW e \in FreeBlocks, u \in P PROVE Append(u, e) \in P
  <2> DEFINE v == Append(u, e)
  <2>1. /\ v \in Seq(B) /\ Len(v) = Len(u) + 1 /\ v[Len(u) + 1] = e /\ v # <<>>
        /\ \A k \in 1 .. Len(u) : v[k] = u[k]
        /\ Len(u) \in Nat /\ (u # <<>> => Len(u) # 0)
    BY AppendProperties, LenProperties, EmptySeq DEF B
  <2>2. M(v) = MergeNext(M(u), e)
    <3>1. FoldsTo(M(u), u, <<>>, Merging) /\ FoldsTo(M(v), v, <<>>, Merging)
      BY <1>4, <2>1 DEF B
    <3>2. M(v) = Merging[<<M(u), e>>]
      BY <1>2, <3>1, FoldSteps DEF B
    <3> QED
      BY <1>3, <1>5, <3>2 DEF B
  <2>3. ToSet(v) = ToSet(u) \cup {e} /\ T[v] = T[u] + W[e]
    BY <1>1, AppendedSet DEF IsSum
  <2>4. T[v] = Total(v) /\ T[u] = Total(u) /\ W[e] = e.size
    BY <2>1 DEF B
  <2> HIDE DEF v, P
  <2>5. ASSUME Ascending(v) PROVE Good(v)
    <3>1. Ascending(u)
      <4>1. \A k \in 1 .. Len(u) : k \in 1 .. Len(v)
        BY <2>1
      <4> QED
        BY <2>1, <2>5, <4>1 DEF Ascending
    <3>2. Good(u)
      BY <1>7, <3>1 DEF P
    <3>3. u # <<>> => End(u[Len(u)]) <= e.start
      <4> SUFFICES ASSUME u # <<>> PROVE End(u[Len(u)]) <= e.start
        OBVIOUS
      <4>1. Len(u) \in 1 .. Len(v) /\ Len(u) + 1 \in 1 .. Len(v) /\ Len(u) < Len(u) + 1
            /\ Len(u) \in 1 .. Len(u)
        BY <2>1
      <4>2. End(v[Len(u)]) <= v[Len(u) + 1].start
        BY <2>5, <4>1 DEF Ascending
      <4> QED
        BY <2>1, <4>1, <4>2
    <3>4. M(u) \in Seq(FreeBlocks) /\ Gapped(M(u))
          /\ (M(u) # <<>> => End(M(u)[Len(M(u))]) <= e.start)
      BY <1>5, <3>2, <3>3 DEF B
    <3> HIDE DEF T, W
    <3>5. /\ M(v) # <<>> /\ Gapped(M(v)) /\ End(M(v)[Len(M(v))]) = End(e)
          /\ Total(M(v)) = Total(M(u)) + e.size
          /\ \A a \in Int : Covers(ToSet(M(v)), a) <=> Covers(ToSet(M(u)), a) \/ Holds(e, a)
      BY <2>2, <3>4, MergeStep
    <3>6. \A a \in Int : Covers(ToSet(v), a) <=> Covers(ToSet(u), a) \/ Holds(e, a)
      BY <2>3 DEF Covers
    <3>7. v[Len(v)] = e
      BY <2>1
    <3> QED
      BY <2>1, <2>3, <2>4, <3>2, <3>5, <3>6, <3>7
  <2> QED
    BY <2>1, <2>5 DEF v, P, B
<1> HIDE DEF P
<1>8. Seq(FreeBlocks) \subseteq P
  BY <1>2, <1>6, <1>7, ListSteps
<1> QED
  BY <1>5, <1>8 DEF P, B, M
-----------------------------------------------------------------------------
(* The invariant.                                                          *)

\* The entries of the allocated list.
Processes == [pid : 1 .. MaxPid, start : Nat, size : Nat \ {0}, r_size : Requests]

\* Blocks, and sets of blocks, that do not overlap.
Disjoint(b, c) == End(b) <= c.start \/ End(c) <= b.start
Apart(S) == \A b, c \in S : b # c => Disjoint(b, c)

\* Everything that is not about the two lists keeps its type.
Scalars ==
  /\ mem_size \in Nat \ {0} /\ mem_size \in Sizes \cup {DEFAULT_MEM_SIZE}
  /\ ma_algorithm \in Algorithms
  /\ pid \in 0 .. MaxPid /\ flag \in {0, 1} /\ state \in {"running", "exited", "crashed"}

\* No two blocks side by side.
Separated(S) == \A c, d \in S : End(c) # d.start

\* A free list holds no block twice and no two neighbours.
FreeList(f) == f \in Seq(FreeBlocks) /\ Distinct(f) /\ Separated(ToSet(f))

\* A process list holds no process twice, only pids up to p, and less than a slice
\* beyond each request.
UsedList(u, p) ==
  /\ u \in Seq(Processes)
  /\ \A k \in 1 .. Len(u) : u[k].pid <= p /\ u[k].size - u[k].r_size \in 0 .. MIN_SLICE - 1
  /\ \A j, k \in 1 .. Len(u) : j # k => u[j].pid # u[k].pid

\* Blocks F and processes U fill the addresses below m, and no two overlap.
Fills(F, U, m) ==
  /\ Apart(F) /\ Apart(U) /\ \A b \in F, c \in U : Disjoint(b, c)
  /\ \A b \in F : End(b) <= m
  /\ \A c \in U : End(c) <= m
  /\ \A a \in 0 .. m - 1 : Covers(F, a) \/ Covers(U, a)

\* The two lists fill a memory of m units, and their sizes add up to it.
Memory(f, u, m) == Fills(ToSet(f), ToSet(u), m) /\ Total(f) + Total(u) = m

\* The totals shown to the user are those of the list.
Books ==
  /\ Allocated_Memory_Size = Total(allocated_block)
  /\ Request_Memory_Size = TotalRequest(allocated_block)

\* The size of memory can still be set only while all of it is free.
Untouched == flag = 0 => free_block = <<Block(0, mem_size)>> /\ allocated_block = <<>>

\* The inductive invariant, between two commands.
AllocInv ==
  /\ Scalars /\ Untouched /\ Books
  /\ FreeList(free_block) /\ Sorted(ma_algorithm, free_block)
  /\ UsedList(allocated_block, pid)
  /\ Memory(free_block, allocated_block, mem_size)

-----------------------------------------------------------------------------
(* Sets of blocks.                                                         *)

\* Sets of blocks with an address and a positive size.
Solid(S) == \A b \in S : b.start \in Nat /\ b.size \in Nat \ {0}

\* Free blocks and processes are such.
LEMMA BlocksSolid ==
  /\ \A S \in SUBSET FreeBlocks : Solid(S)
  /\ \A S \in SUBSET Processes : Solid(S)
BY DEF Solid, FreeBlocks, Processes

\* In address order blocks that do not overlap follow each other.
LEMMA SortedAscending ==
  ASSUME NEW s \in Seq(FreeBlocks), Sorted(MA_FF, s), Distinct(s), Apart(ToSet(s))
  PROVE  Ascending(s)
<1> SUFFICES ASSUME NEW i \in 1 .. Len(s), NEW j \in 1 .. Len(s), i < j
             PROVE  End(s[i]) <= s[j].start
  BY DEF Ascending
<1>1. s[i] \in ToSet(s) /\ s[j] \in ToSet(s) /\ s[i] \in FreeBlocks /\ s[j] \in FreeBlocks
  BY Elements, ElementOfSeq
<1>2. s[i].start \in Nat /\ s[j].start \in Nat /\ s[i].size \in Nat \ {0} /\ s[j].size \in Nat \ {0}
  BY <1>1 DEF FreeBlocks
<1>3. ~(s[j].start < s[i].start)
  BY DEF Sorted, Precedes, MA_FF
<1>4. i # j
  <2>1. Len(s) \in Nat
    BY LenProperties
  <2> QED
    BY <2>1
<1>5. s[i] # s[j]
  BY <1>4 DEF Distinct
<1>6. Disjoint(s[i], s[j])
  BY <1>1, <1>5 DEF Apart
<1> QED
  BY <1>2, <1>3, <1>6 DEF Disjoint, End

\* A process x takes the lower part of block b, or all of it; R is what is left.
LEMMA FillsTake ==
  ASSUME NEW F, NEW U, NEW m \in Nat, Fills(F, U, m), Solid(F), Solid(U),
         NEW b \in F, NEW x, x.start = b.start, x.size \in Nat \ {0}, NEW R,
         \/ x.size = b.size /\ R = {}
         \/ x.size < b.size /\ R = {Block(b.start + x.size, b.size - x.size)}
  PROVE  Fills((F \ {b}) \cup R, U \cup {x}, m)
<1>1. b.start \in Nat /\ b.size \in Nat \ {0} /\ x.start \in Nat
  BY DEF Solid
<1>2. \A r \in R : /\ r.start \in Nat /\ r.size \in Nat \ {0} /\ End(r) = End(b)
                   /\ r.start = End(x) /\ b.start < r.start
  BY <1>1 DEF Block, End
<1>3. \A r1, r2 \in R : r1 = r2
  OBVIOUS
<1>4. \A c \in F \cup U : c.start \in Nat /\ c.size \in Nat \ {0}
  BY DEF Solid
<1>5. \A c \in F \ {b} : Disjoint(b, c)
  BY DEF Fills, Apart
<1>6. \A c \in U : Disjoint(b, c)
  BY DEF Fills
<1>7. End(x) <= End(b)
  BY <1>1 DEF End
<1>8. \A c \in (F \ {b}) \cup U : Disjoint(x, c) /\ Disjoint(c, x)
  BY <1>1, <1>4, <1>5, <1>6, <1>7 DEF Disjoint, End
<1>9. \A c \in (F \ {b}) \cup U, r \in R : Disjoint(r, c) /\ Disjoint(c, r)
  BY <1>1, <1>2, <1>4, <1>5, <1>6 DEF Disjoint, End
<1>10. \A r \in R : Disjoint(r, x)
  BY <1>2 DEF Disjoint
<1>11. Apart((F \ {b}) \cup R) /\ Apart(U \cup {x})
  <2>1. Apart(F) /\ Apart(U)
    BY DEF Fills
  <2> QED
    BY <1>3, <1>8, <1>9, <2>1 DEF Apart
<1>12. \A c \in (F \ {b}) \cup R, d \in U \cup {x} : Disjoint(c, d)
  <2>1. \A c \in F, d \in U : Disjoint(c, d)
    BY DEF Fills
  <2> QED
    BY <1>8, <1>9, <1>10, <2>1
<1>13. /\ \A c \in (F \ {b}) \cup R : End(c) <= m
       /\ \A d \in U \cup {x} : End(d) <= m
  <2>1. (\A c \in F : End(c) <= m) /\ \A d \in U : End(d) <= m
    BY DEF Fills
  <2>2. End(x) <= m
    BY <1>1, <1>7, <2>1 DEF End
  <2> QED
    BY <1>2, <2>1, <2>2
<1>14. ASSUME NEW a \in 0 .. m - 1
       PROVE  Covers((F \ {b}) \cup R, a) \/ Covers(U \cup {x}, a)
  <2>1. Covers(F, a) \/ Covers(U, a)
    BY DEF Fills
  <2>2. CASE Covers(U, a)
    BY <2>2 DEF Covers
  <2>3. CASE Covers(F, a)
    <3>1. PICK c \in F : Holds(c, a)
      BY <2>3 DEF Covers
    <3>2. CASE c # b
      BY <3>1, <3>2 DEF Covers
    <3>3. CASE c = b
      <4>1. b.start <= a /\ a < b.start + b.size /\ a \in Int
        BY <3>1, <3>3 DEF Holds
      <4>2. Holds(x, a) \/ \E r \in R : Holds(r, a)
        <5>1. CASE a < b.start + x.size
          BY <4>1, <5>1 DEF Holds
        <5>2. CASE ~(a < b.start + x.size)
          <6> DEFINE r == Block(b.start + x.size, b.size - x.size)
          <6>1. x.size < b.size /\ R = {r}
            BY <1>1, <4>1, <5>2
          <6>2. Holds(r, a)
            BY <1>1, <4>1, <5>2, <6>1 DEF Holds, Block
          <6> QED
            BY <6>1, <6>2
        <5> QED
          BY <5>1, <5>2
      <4> QED
        BY <4>2 DEF Covers
    <3> QED
      BY <3>2, <3>3
  <2> QED
    BY <2>1, <2>2, <2>3
<1> QED
  BY <1>11, <1>12, <1>13, <1>14 DEF Fills

\* Process x goes, and blocks G cover what the free blocks and x did.
LEMMA FillsGive ==
  ASSUME NEW F, NEW U, NEW m \in Nat, Fills(F, U, m), Solid(F), Solid(U),
         NEW x \in U, NEW G, Solid(G), Apart(G),
         \A a \in Int : Covers(G, a) <=> Covers(F, a) \/ Holds(x, a)
  PROVE  Fills(G, U \ {x}, m)
<1>1. \A c \in F \cup U \cup G : c.start \in Nat /\ c.size \in Nat \ {0}
  BY DEF Solid
<1>2. ASSUME NEW c \in F \cup {x}, NEW d \in U \ {x} PROVE Disjoint(c, d)
  BY DEF Fills, Apart
<1>3. ASSUME NEW g \in G, NEW a \in Int, Holds(g, a)
      PROVE  \E c \in F \cup {x} : Holds(c, a)
  BY <1>3 DEF Covers
<1>4. ASSUME NEW g \in G, NEW d \in U \ {x} PROVE Disjoint(g, d)
  <2> SUFFICES ASSUME ~Disjoint(g, d) PROVE FALSE
    OBVIOUS
  <2> DEFINE a == IF g.start < d.start THEN d.start ELSE g.start
  <2>1. a \in Int /\ Holds(g, a) /\ Holds(d, a)
    BY <1>1 DEF Disjoint, End, Holds
  <2>2. PICK c \in F \cup {x} : Holds(c, a)
    BY <1>3, <2>1
  <2>3. Disjoint(c, d) /\ c.start \in Nat /\ c.size \in Nat /\ d.start \in Nat /\ d.size \in Nat
    BY <1>1, <1>2
  <2> HIDE DEF a
  <2> QED
    BY <2>1, <2>2, <2>3 DEF Disjoint, End, Holds
<1>5. ASSUME NEW g \in G PROVE End(g) <= m
  <2>1. Holds(g, End(g) - 1) /\ End(g) - 1 \in Int
    BY <1>1 DEF Holds, End
  <2>2. PICK c \in F \cup {x} : Holds(c, End(g) - 1)
    BY <1>3, <2>1
  <2>3. End(c) <= m /\ End(c) \in Int
    BY <1>1 DEF Fills, End
  <2>4. End(g) - 1 < End(c) /\ End(g) \in Int
    BY <1>1, <2>2 DEF Holds, End
  <2> QED
    BY <2>3, <2>4
<1>6. ASSUME NEW a \in 0 .. m - 1 PROVE Covers(G, a) \/ Covers(U \ {x}, a)
  <2>1. Covers(F, a) \/ Covers(U, a)
    BY DEF Fills
  <2>2. a \in Int
    OBVIOUS
  <2> QED
    BY <2>1, <2>2 DEF Covers
<1>7. Apart(U \ {x}) /\ \A d \in U \ {x} : End(d) <= m
  BY DEF Fills, Apart
<1> QED
  BY <1>4, <1>5, <1>6, <1>7 DEF Fills

\* Taking from a block leaves no two neighbours.
LEMMA TakeCoalesced ==
  ASSUME NEW F, Solid(F), Apart(F), \A c, d \in F : End(c) # d.start,
         NEW b \in F, NEW n \in Nat \ {0}, NEW R,
         R = {} \/ (n < b.size /\ R = {Block(b.start + n, b.size - n)})
  PROVE  /\ \A c, d \in (F \ {b}) \cup R : End(c) # d.start
         /\ \A r \in R : r \notin F
<1>1. \A c \in F : c.start \in Nat /\ c.size \in Nat \ {0}
  BY DEF Solid
<1>2. \A r \in R : /\ r.start \in Nat /\ r.size \in Nat \ {0} /\ End(r) = End(b)
                   /\ b.start < r.start /\ r.start < End(b)
  BY <1>1 DEF Block, End
<1>3. \A c \in F \ {b} : Disjoint(b, c)
  BY DEF Apart
<1>4. \A c \in F, r \in R : c # r
  <2> SUFFICES ASSUME NEW c \in F, NEW r \in R, c = r PROVE FALSE
    OBVIOUS
  <2>1. c # b
    BY <1>1, <1>2
  <2> QED
    BY <1>1, <1>2, <1>3, <2>1 DEF Disjoint, End
<1>5. \A c \in F \ {b}, r \in R : End(c) # r.start /\ End(r) # c.start
  BY <1>1, <1>2, <1>3 DEF Disjoint, End
<1>6. \A r1, r2 \in R : End(r1) # r2.start
  BY <1>2 DEF End
<1> QED
  BY <1>4, <1>5, <1>6

\* The first block of a list that is large enough, if one is.
LEMMA FirstFitFound ==
  ASSUME NEW B, NEW s \in Seq(B), NEW n
  PROVE  /\ FirstFit(s, n) = 0 => \A k \in 1 .. Len(s) : ~(s[k].size >= n)
         /\ FirstFit(s, n) # 0 =>
              /\ FirstFit(s, n) \in 1 .. Len(s)
              /\ s[FirstFit(s, n)].size >= n
              /\ \A k \in 1 .. Len(s) : k < FirstFit(s, n) => ~(s[k].size >= n)
<1> DEFINE I == {k \in 1 .. Len(s) : s[k].size >= n}
           i == FirstFit(s, n)
<1>1. i = IF I # {} THEN Min(I) ELSE 0
  BY DEF FirstFit, SelectInSeq
<1>2. Len(s) \in Nat
  BY LenProperties
<1> HIDE DEF i
<1>3. CASE I = {}
  BY <1>1, <1>3 DEF i
<1>4. CASE I # {}
  <2>1. \E x \in I : \A y \in I : x <= y
    <3>1. I \in SUBSET Nat
      OBVIOUS
    <3> QED
      BY <1>4, <3>1, LeastNatural
  <2>2. Min(I) \in I /\ \A y \in I : Min(I) <= y
    BY <2>1 DEF Min
  <2>3. i \in I /\ \A y \in I : i <= y
    BY <1>1, <1>4, <2>2
  <2>4. i \in 1 .. Len(s) /\ s[i].size >= n
    BY <2>3
  <2>5. \A k \in 1 .. Len(s) : k < i => ~(s[k].size >= n)
    BY <2>3, <2>4
  <2> QED
    BY <1>2, <2>4, <2>5 DEF i
<1> QED
  BY <1>3, <1>4

\* The block Carve gives and the list it leaves.
LEMMA Carved ==
  ASSUME NEW s \in Seq(FreeBlocks), Distinct(s), Apart(ToSet(s)),
         \A c, d \in ToSet(s) : End(c) # d.start,
         NEW i \in 1 .. Len(s), NEW n \in Nat \ {0}, s[i].size >= n
  PROVE  LET b == s[i]
             x == Carve(s, i, n).block
             t == Carve(s, i, n).rest
             R == Partition!Left(b, n)
         IN  /\ x \in FreeBlocks /\ x.start = b.start /\ x.size = Partition!Given(b, n)
             /\ x.size - n \in 0 .. MIN_SLICE - 1
             /\ \/ x.size = b.size /\ R = {}
                \/ x.size < b.size /\ R = {Block(b.start + x.size, b.size - x.size)}
             /\ t \in Seq(FreeBlocks) /\ Distinct(t) /\ ToSet(t) = (ToSet(s) \ {b}) \cup R
             /\ \A c, d \in ToSet(t) : End(c) # d.start
             /\ Total(t) + x.size = Total(s)
<1> DEFINE b == s[i]
           x == Carve(s, i, n).block
           t == Carve(s, i, n).rest
           R == Partition!Left(b, n)
           T == [u \in Seq(FreeBlocks) |-> Total(u)]
           W == [c \in FreeBlocks |-> c.size]
           r == Block(b.start + n, b.size - n)
<1>1. b \in FreeBlocks /\ b \in ToSet(s) /\ ToSet(s) \subseteq FreeBlocks
  BY Elements, ElementOfSeq
<1>2. b.start \in Nat /\ b.size \in Nat \ {0} /\ b.size >= n /\ b = Block(b.start, b.size)
  BY <1>1 DEF FreeBlocks, Block
<1>3. MIN_SLICE \in Nat \ {0}
  BY MemAllocAssumption
<1>4. IsSum(T, W, FreeBlocks)
  BY TotalIsSum, FreeBlocksAreBlocks
<1>5. Solid(ToSet(s))
  BY <1>1, BlocksSolid
<1>6. /\ RemoveAt(s, i) \in Seq(FreeBlocks) /\ Distinct(RemoveAt(s, i))
      /\ ToSet(RemoveAt(s, i)) = ToSet(s) \ {b}
  BY Removed, RemovedSet
<1>7. CASE b.size - n >= MIN_SLICE
  <2>1. x = Block(b.start, n) /\ t = [s EXCEPT ![i] = r]
    BY <1>7 DEF Carve
  <2>2. R = {r} /\ Partition!Given(b, n) = n
    BY <1>7 DEF Partition!Left, Partition!Given, Block
  <2>3. n < b.size /\ r \in FreeBlocks
    <3>1. n \in Nat
      OBVIOUS
    <3>2. n < b.size /\ b.start + n \in Nat /\ b.size - n \in Nat \ {0}
      BY <1>2, <1>3, <1>7, <3>1
    <3> QED
      BY <3>2 DEF FreeBlocks, Block
  <2>4. x \in FreeBlocks /\ x.start = b.start /\ x.size = n
    BY <1>2, <2>1 DEF FreeBlocks, Block
  <2> HIDE DEF b, r, x, t, R
  <2>5. /\ \A c, d \in (ToSet(s) \ {b}) \cup {r} : End(c) # d.start
        /\ r \notin ToSet(s)
    <3>1. {r} = {} \/ (n < b.size /\ {r} = {Block(b.start + n, b.size - n)})
      BY <2>3 DEF r
    <3> DEFINE F == ToSet(s)
               L == {r}
    <3>2. Solid(F) /\ Apart(F) /\ (\A c, d \in F : End(c) # d.start) /\ b \in F
      BY <1>1, <1>5
    <3>3. L = {} \/ (n < b.size /\ L = {Block(b.start + n, b.size - n)})
      BY <3>1
    <3> HIDE DEF F, L
    <3>4. /\ \A c, d \in (F \ {b}) \cup L : End(c) # d.start
          /\ \A q \in L : q \notin F
      BY <3>2, <3>3, TakeCoalesced
    <3> QED
      BY <3>4 DEF F, L
  <2>6. t \in Seq(FreeBlocks) /\ Distinct(t) /\ ToSet(t) = (ToSet(s) \ {b}) \cup R
    <3>1. r \in FreeBlocks /\ r \notin ToSet(s) \ {s[i]}
      BY <2>3, <2>5
    <3> DEFINE u == [s EXCEPT ![i] = r]
    <3>2. u \in Seq(FreeBlocks) /\ ToSet(u) = (ToSet(s) \ {s[i]}) \cup {r} /\ Distinct(u)
      BY <3>1, ReplacedSet
    <3> HIDE DEF u
    <3>3. t = u
      BY <2>1 DEF u
    <3> QED
      BY <2>2, <3>2, <3>3 DEF b
  <2>7. Total(t) + x.size = Total(s)
    <3>1. T[[s EXCEPT ![i] = r]] = T[RemoveAt(s, i)] + W[r]
      <4>1. r \in FreeBlocks
        BY <2>3
      <4> HIDE DEF T, W
      <4> QED
        BY <1>4, <4>1, SumReplaced
    <3>2. T[s] = T[RemoveAt(s, i)] + W[s[i]]
      BY <1>4, SumRemoved
    <3>3. /\ T[[s EXCEPT ![i] = r]] = Total(t) /\ T[s] = Total(s)
          /\ W[r] = b.size - n /\ W[s[i]] = b.size /\ T[RemoveAt(s, i)] \in Nat
      BY <1>1, <1>4, <1>6, <2>1, <2>3, <2>6 DEF b, r, Block, IsSum
    <3> HIDE DEF T, W
    <3> QED
      BY <1>2, <2>4, <3>1, <3>2, <3>3
  <2>8. x.size - n \in 0 .. MIN_SLICE - 1
    BY <1>3, <2>4
  <2>9. x.size < b.size /\ R = {Block(b.start + x.size, b.size - x.size)}
    BY <2>2, <2>3, <2>4 DEF r
  <2> QED
    BY <2>2, <2>4, <2>5, <2>6, <2>7, <2>8, <2>9 DEF b, x, t, R
<1>8. CASE ~(b.size - n >= MIN_SLICE)
  <2>1. x = b /\ t = RemoveAt(s, i)
    BY <1>8 DEF Carve
  <2>2. R = {} /\ Partition!Given(b, n) = b.size
    BY <1>8 DEF Partition!Left, Partition!Given
  <2>3. b.size - n \in 0 .. MIN_SLICE - 1
    BY <1>2, <1>3, <1>8
  <2>4. Total(t) + x.size = Total(s)
    <3>1. T[s] = T[RemoveAt(s, i)] + W[s[i]]
      BY <1>4, SumRemoved
    <3> QED
      BY <1>1, <1>6, <2>1, <3>1
  <2> HIDE DEF b, x, t, R
  <2>5. \A c, d \in ToSet(t) : End(c) # d.start
    BY <1>6, <2>1
  <2> QED
    BY <1>1, <1>6, <2>1, <2>2, <2>3, <2>4, <2>5 DEF b, x, t, R
<1> QED
  BY <1>7, <1>8

-----------------------------------------------------------------------------
(* Compaction.                                                             *)

\* A block that ends before another starts ends before the other ends.
LEMMA Farther ==
  ASSUME NEW x \in Nat, NEW v \in Nat, NEW y \in Nat, NEW w \in Nat, x + v <= y
  PROVE  x + v <= y + w
OBVIOUS

\* The address at which compaction puts process k of list s.
Before(s, k) == Total(SubSeq(s, 1, k - 1))

\* Each process goes where the one before it ends, and the last one ends at the total.
LEMMA BeforeSteps ==
  ASSUME NEW B, \A b \in B : b.size \in Nat, NEW s \in Seq(B)
  PROVE  /\ Before(s, 1) = 0 /\ Before(s, Len(s) + 1) = Total(s)
         /\ \A k \in 1 .. Len(s) + 1 : Before(s, k) \in Nat
         /\ \A k \in 1 .. Len(s) : Before(s, k + 1) = Before(s, k) + s[k].size
<1> DEFINE n == Len(s)
           T == [u \in Seq(B) |-> Total(u)]
           W == [b \in B |-> b.size]
<1>1. IsSum(T, W, B)
  BY TotalIsSum
<1>2. n \in Nat /\ \A k \in 1 .. n : s[k] \in B
  BY LenProperties, ElementOfSeq
<1>3. ASSUME NEW k \in 0 .. n
      PROVE  /\ SubSeq(s, 1, k) \in Seq(B) /\ Len(SubSeq(s, 1, k)) = k
             /\ \A j \in 1 .. k : SubSeq(s, 1, k)[j] = s[j]
  <2>1. \A j \in 1 .. k : s[j] \in B
    BY <1>2
  <2>2. 1 \in Int /\ k \in Int /\ k \in Nat
    OBVIOUS
  <2>3. /\ SubSeq(s, 1, k) \in Seq(B)
        /\ Len(SubSeq(s, 1, k)) = IF 1 <= k THEN k - 1 + 1 ELSE 0
        /\ \A j \in 1 .. k - 1 + 1 : SubSeq(s, 1, k)[j] = s[1 + j - 1]
    BY <2>1, <2>2, SubSeqProperties
  <2> HIDE DEF n
  <2> QED
    BY <2>2, <2>3
<1>4. Total(<<>>) = 0 /\ \A u \in Seq(B) : Total(u) \in Nat
  BY <1>1, EmptySeq DEF IsSum
<1>5. Before(s, 1) = 0
  <2>1. SubSeq(s, 1, 0) = <<>> /\ 1 - 1 = 0
    BY <1>2, <1>3, EmptySeq
  <2> QED
    BY <1>4, <2>1 DEF Before
<1>6. Before(s, n + 1) = Total(s)
  <2>1. (n + 1) - 1 = n /\ SubSeq(s, 1, n) = s
    BY <1>2, SubSeqFull
  <2> QED
    BY <2>1 DEF Before
<1>7. ASSUME NEW k \in 1 .. n + 1 PROVE Before(s, k) \in Nat
  <2>1. k - 1 \in 0 .. n
    BY <1>2
  <2> QED
    BY <1>3, <1>4, <2>1 DEF Before
<1>8. ASSUME NEW k \in 1 .. n PROVE Before(s, k + 1) = Before(s, k) + s[k].size
  <2> DEFINE low == SubSeq(s, 1, k - 1)
             u == SubSeq(s, 1, k)
             v == Append(low, s[k])
  <2>1. k - 1 \in 0 .. n /\ k \in 0 .. n /\ (k + 1) - 1 = k /\ s[k] \in B
    BY <1>2
  <2>2. low \in Seq(B) /\ Len(low) = k - 1 /\ \A j \in 1 .. k - 1 : low[j] = s[j]
    BY <1>3, <2>1
  <2>3. u \in Seq(B) /\ Len(u) = k /\ \A j \in 1 .. k : u[j] = s[j]
    BY <1>3, <2>1
  <2> HIDE DEF low, u
  <2>4. v \in Seq(B) /\ Len(v) = k /\ \A j \in 1 .. k : v[j] = s[j]
    <3>1. /\ v \in Seq(B) /\ Len(v) = (k - 1) + 1 /\ v[(k - 1) + 1] = s[k]
          /\ \A j \in 1 .. k - 1 : v[j] = low[j]
      BY <2>1, <2>2, AppendProperties
    <3>2. (k - 1) + 1 = k /\ \A j \in 1 .. k : j = k \/ j \in 1 .. k - 1
      BY <1>2
    <3> HIDE DEF v
    <3> QED
      BY <2>2, <3>1, <3>2
  <2> HIDE DEF v
  <2>5. u = v
    BY <2>3, <2>4, SeqEqual
  <2>6. T[v] = T[low] + W[s[k]]
    <3> HIDE DEF T, W
    <3> QED
      BY <1>1, <2>1, <2>2 DEF IsSum, v
  <2> QED
    BY <2>1, <2>2, <2>3, <2>5, <2>6 DEF Before, low, u
<1> QED
  BY <1>5, <1>6, <1>7, <1>8

\* The processes of the list end where the next begins.
LEMMA BeforeOrder ==
  ASSUME NEW B, \A b \in B : b.size \in Nat, NEW s \in Seq(B)
  PROVE  /\ \A i, j \in 1 .. Len(s) + 1 : i < j => Before(s, i) + s[i].size <= Before(s, j)
         /\ \A a \in 0 .. Total(s) - 1 : \E k \in 1 .. Len(s) :
              Before(s, k) <= a /\ a < Before(s, k) + s[k].size
<1> DEFINE n == Len(s)
           h(k) == Before(s, k)
           S == {d \in Nat : \A i, j \in 1 .. n + 1 :
                              i < j /\ j <= d => h(i) + s[i].size <= h(j)}
           C == {d \in Nat : d <= n => \A a \in Int : 0 <= a /\ a < h(d + 1) =>
                              \E k \in 1 .. n : h(k) <= a /\ a < h(k) + s[k].size}
<1>1. n \in Nat /\ \A k \in 1 .. n : s[k].size \in Nat
  BY LenProperties, ElementOfSeq
<1>2. /\ h(1) = 0 /\ h(n + 1) = Total(s)
      /\ \A k \in 1 .. n + 1 : h(k) \in Nat
      /\ \A k \in 1 .. n : h(k + 1) = h(k) + s[k].size
  BY BeforeSteps
<1> HIDE DEF n, h
<1>3. 0 \in S
  <2>1. \A j \in 1 .. n + 1 : ~(j <= 0)
    BY <1>1
  <2> QED
    BY <2>1
<1>4. ASSUME NEW d \in Nat, d \in S PROVE d + 1 \in S
  <2> SUFFICES ASSUME NEW i \in 1 .. n + 1, NEW j \in 1 .. n + 1, i < j, j <= d + 1
               PROVE  h(i) + s[i].size <= h(j)
    OBVIOUS
  <2>1. CASE j <= d
    BY <1>4, <2>1
  <2>2. CASE ~(j <= d)
    <3>1. d \in 1 .. n /\ j = d + 1 /\ i <= d /\ i \in 1 .. n
      BY <1>1, <2>2
    <3>2. h(j) = h(d) + s[d].size
      BY <1>2, <3>1
    <3>3. CASE i = d
      BY <1>1, <1>2, <3>1, <3>2, <3>3
    <3>4. CASE i # d
      <4>1. d \in 1 .. n + 1 /\ i < d /\ d <= d
        BY <1>1, <3>1, <3>4
      <4>2. h(i) + s[i].size <= h(d)
        BY <1>4, <4>1
      <4>3. h(i) \in Nat /\ h(d) \in Nat /\ s[i].size \in Nat /\ s[d].size \in Nat
        BY <1>1, <1>2, <3>1, <4>1
      <4> HIDE DEF S
      <4> QED
        BY <3>2, <4>2, <4>3, Farther
    <3> QED
      BY <3>3, <3>4
  <2> QED
    BY <2>1, <2>2
<1>5. n + 1 \in S
  <2> HIDE DEF S
  <2>1. Nat \subseteq S
    BY <1>3, <1>4, NaturalSteps
  <2> QED
    BY <1>1, <2>1
<1>6. \A i, j \in 1 .. n + 1 : i < j => h(i) + s[i].size <= h(j)
  BY <1>1, <1>5
<1>7. 0 \in C
  BY <1>2
<1>8. ASSUME NEW d \in Nat, d \in C PROVE d + 1 \in C
  <2> SUFFICES ASSUME d + 1 <= n, NEW a \in Int, 0 <= a, a < h((d + 1) + 1)
               PROVE  \E k \in 1 .. n : h(k) <= a /\ a < h(k) + s[k].size
    OBVIOUS
  <2>1. d <= n /\ d + 1 \in 1 .. n
    BY <1>1
  <2>2. CASE a < h(d + 1)
    BY <1>8, <2>1, <2>2
  <2>3. CASE ~(a < h(d + 1))
    <3>1. h((d + 1) + 1) = h(d + 1) + s[d + 1].size
      BY <1>2, <2>1
    <3>2. h(d + 1) \in Nat
      BY <1>1, <1>2, <2>1
    <3> QED
      BY <2>1, <2>3, <3>1, <3>2
  <2> QED
    BY <2>2, <2>3
<1>9. n \in C
  <2> HIDE DEF C
  <2>1. Nat \subseteq C
    BY <1>7, <1>8, NaturalSteps
  <2> QED
    BY <1>1, <2>1
<1>10. ASSUME NEW a \in 0 .. Total(s) - 1
       PROVE  \E k \in 1 .. n : h(k) <= a /\ a < h(k) + s[k].size
  <2>1. h(n + 1) \in Nat
    BY <1>1, <1>2
  <2>2. a \in Int /\ 0 <= a /\ a < h(n + 1)
    BY <1>2, <2>1
  <2> QED
    BY <1>1, <1>9, <2>2
<1> QED
  BY <1>6, <1>10 DEF n, h

\* Compaction keeps every process and its size, and leaves no hole below the last.
LEMMA Packed ==
  ASSUME NEW s \in Seq(Processes)
  PROVE  LET u == MovedDown(s) IN
         /\ u \in Seq(Processes) /\ Len(u) = Len(s)
         /\ \A k \in 1 .. Len(s) : /\ u[k].pid = s[k].pid /\ u[k].size = s[k].size
                                   /\ u[k].r_size = s[k].r_size
         /\ Total(u) = Total(s) /\ TotalRequest(u) = TotalRequest(s)
         /\ Apart(ToSet(u))
         /\ \A c \in ToSet(u) : End(c) <= Total(s)
         /\ \A a \in 0 .. Total(s) - 1 : Covers(ToSet(u), a)
<1> DEFINE n == Len(s)
           u == MovedDown(s)
           T == [v \in Seq(Processes) |-> Total(v)]
           W == [c \in Processes |-> c.size]
           Q == [v \in Seq(Processes) |-> TotalRequest(v)]
           V == [c \in Processes |-> c.r_size]
<1>1. Requests \subseteq Nat \ {0}
  BY MemAllocAssumption
<1>2. \A c \in Processes : /\ c.start \in Nat /\ c.size \in Nat /\ c.r_size \in Nat
                           /\ c.size # 0
  BY <1>1 DEF Processes
<1>3. n \in Nat /\ DOMAIN s = 1 .. n /\ \A k \in 1 .. n : s[k] \in Processes
  BY LenProperties, ElementOfSeq
<1>4. /\ Before(s, n + 1) = Total(s)
      /\ \A k \in 1 .. n + 1 : Before(s, k) \in Nat
      /\ \A k \in 1 .. n : Before(s, k + 1) = Before(s, k) + s[k].size
  BY <1>2, BeforeSteps
<1>5. /\ \A i, j \in 1 .. n + 1 : i < j => Before(s, i) + s[i].size <= Before(s, j)
      /\ \A a \in 0 .. Total(s) - 1 : \E k \in 1 .. n :
           Before(s, k) <= a /\ a < Before(s, k) + s[k].size
  BY <1>2, BeforeOrder
<1>6. u = [k \in 1 .. n |-> [s[k] EXCEPT !.start = Before(s, k)]]
  <2>1. u = [k \in 1 .. n |-> [s[k] EXCEPT !.start = DEFAULT_MEM_START + Before(s, k)]]
    BY <1>3 DEF MovedDown, Before
  <2>2. \A k \in 1 .. n : DEFAULT_MEM_START + Before(s, k) = Before(s, k)
    <3>1. \A k \in 1 .. n : Before(s, k) \in Nat
      BY <1>3, <1>4
    <3> QED
      BY <3>1 DEF DEFAULT_MEM_START
  <2> HIDE DEF u
  <2> QED
    BY <2>1, <2>2
<1> HIDE DEF u
<1>7. ASSUME NEW k \in 1 .. n
      PROVE  /\ u[k] \in Processes /\ u[k].start = Before(s, k)
             /\ u[k].pid = s[k].pid /\ u[k].size = s[k].size /\ u[k].r_size = s[k].r_size
  <2>1. s[k] \in Processes /\ Before(s, k) \in Nat
    BY <1>3, <1>4
  <2>2. u[k] = [s[k] EXCEPT !.start = Before(s, k)]
    BY <1>6
  <2> QED
    BY <2>1, <2>2 DEF Processes
<1>8. u \in Seq(Processes) /\ Len(u) = n
  <2>1. u \in [1 .. n -> Processes]
    BY <1>6, <1>7
  <2> QED
    BY <1>3, <2>1, SeqDef, LenProperties
<1>9. Total(u) = Total(s)
  <2>1. IsSum(T, W, Processes)
    BY <1>2, TotalIsSum
  <2>2. \A k \in 1 .. Len(u) : W[u[k]] = W[s[k]]
    BY <1>3, <1>7, <1>8
  <2>3. T[u] = Total(u) /\ T[s] = Total(s)
    BY <1>8
  <2> HIDE DEF T, W, n
  <2>4. Len(u) = Len(s)
    BY <1>8 DEF n
  <2>5. T[u] = T[s]
    BY <1>8, <2>1, <2>2, <2>4, SumSame
  <2> QED
    BY <2>3, <2>5
<1>10. TotalRequest(u) = TotalRequest(s)
  <2>1. IsSum(Q, V, Processes)
    BY <1>2, RequestIsSum
  <2>2. \A k \in 1 .. Len(u) : V[u[k]] = V[s[k]]
    BY <1>3, <1>7, <1>8
  <2>3. Q[u] = TotalRequest(u) /\ Q[s] = TotalRequest(s)
    BY <1>8
  <2> HIDE DEF Q, V, n
  <2>4. Len(u) = Len(s)
    BY <1>8 DEF n
  <2>5. Q[u] = Q[s]
    BY <1>8, <2>1, <2>2, <2>4, SumSame
  <2> QED
    BY <2>3, <2>5
<1>11. /\ \A k \in 1 .. n : u[k] \in ToSet(u)
       /\ \A c \in ToSet(u) : \E k \in 1 .. n : u[k] = c
  BY <1>8, Elements
<1>12. ASSUME NEW i \in 1 .. n, NEW j \in 1 .. n, i # j PROVE Disjoint(u[i], u[j])
  <2>1. i \in 1 .. n + 1 /\ j \in 1 .. n + 1 /\ (i < j \/ j < i)
    BY <1>3, <1>12
  <2> QED
    BY <1>5, <1>7, <2>1 DEF Disjoint, End
<1>13. Apart(ToSet(u))
  <2>1. SUFFICES ASSUME NEW c \in ToSet(u), NEW d \in ToSet(u), c # d PROVE Disjoint(c, d)
    BY DEF Apart
  <2> QED
    BY <1>11, <1>12, <2>1
<1>14. ASSUME NEW c \in ToSet(u) PROVE End(c) <= Total(s)
  <2>1. PICK k \in 1 .. n : u[k] = c
    BY <1>11
  <2>2. k \in 1 .. n + 1 /\ n + 1 \in 1 .. n + 1 /\ k < n + 1
    BY <1>3
  <2> QED
    BY <1>4, <1>5, <1>7, <2>1, <2>2 DEF End
<1>15. ASSUME NEW a \in 0 .. Total(s) - 1 PROVE Covers(ToSet(u), a)
  <2>1. PICK k \in 1 .. n : Before(s, k) <= a /\ a < Before(s, k) + s[k].size
    BY <1>5
  <2>2. Holds(u[k], a)
    BY <1>7, <2>1 DEF Holds
  <2> QED
    BY <1>11, <2>2 DEF Covers
<1> QED
  BY <1>7, <1>8, <1>9, <1>10, <1>13, <1>14, <1>15 DEF u

-----------------------------------------------------------------------------
(* Giving a block back.                                                    *)

\* A merged list has gaps.
LEMMA GappedApart ==
  ASSUME NEW s \in Seq(FreeBlocks), Gapped(s)
  PROVE  Apart(ToSet(s)) /\ Separated(ToSet(s))
<1>1. /\ \A k \in 1 .. Len(s) : s[k].start \in Nat /\ s[k].size \in Nat \ {0}
      /\ \A c \in ToSet(s) : \E k \in 1 .. Len(s) : s[k] = c
      /\ Len(s) \in Nat
  <2>1. \A k \in 1 .. Len(s) : s[k] \in FreeBlocks
    BY ElementOfSeq
  <2>2. \A k \in 1 .. Len(s) : s[k].start \in Nat /\ s[k].size \in Nat \ {0}
    BY <2>1 DEF FreeBlocks
  <2>3. (\A c \in ToSet(s) : \E k \in 1 .. Len(s) : s[k] = c) /\ Len(s) \in Nat
    BY Elements, LenProperties
  <2> QED
    BY <2>2, <2>3
<1>2. SUFFICES ASSUME NEW i \in 1 .. Len(s), NEW j \in 1 .. Len(s)
               PROVE  (s[i] # s[j] => Disjoint(s[i], s[j])) /\ End(s[i]) # s[j].start
  BY <1>1 DEF Apart, Separated
<1>3. i < j \/ i = j \/ j < i
  BY <1>1
<1>4. (i < j => End(s[i]) < s[j].start) /\ (j < i => End(s[j]) < s[i].start)
  BY DEF Gapped
<1>5. /\ s[i].start \in Nat /\ s[i].size \in Nat \ {0} /\ End(s[i]) = s[i].start + s[i].size
      /\ s[j].start \in Nat /\ s[j].size \in Nat \ {0} /\ End(s[j]) = s[j].start + s[j].size
  BY <1>1 DEF End
<1>6. CASE i < j
  BY <1>4, <1>5, <1>6 DEF Disjoint
<1>7. CASE j < i
  BY <1>4, <1>5, <1>7 DEF Disjoint
<1>8. CASE i = j
  BY <1>5, <1>8
<1> QED
  BY <1>3, <1>6, <1>7, <1>8

\* free_mem on a free list, for a process x of U.
LEMMA FreedList ==
  ASSUME NEW m \in Nat, NEW U, Solid(U), NEW x \in U,
         free_block \in Seq(FreeBlocks), Distinct(free_block),
         Fills(ToSet(free_block), U, m)
  PROVE  LET g == Freed(x) IN
         /\ g \in Seq(FreeBlocks) /\ Distinct(g) /\ Apart(ToSet(g)) /\ Separated(ToSet(g))
         /\ Total(g) = Total(free_block) + x.size
         /\ \A a \in Int : Covers(ToSet(g), a) <=> Covers(ToSet(free_block), a) \/ Holds(x, a)
<1> DEFINE f == free_block
           b == Block(x.start, x.size)
           s == Append(f, b)
           r == Rearrange(MA_FF, s)
           T == [u \in Seq(FreeBlocks) |-> Total(u)]
           W == [c \in FreeBlocks |-> c.size]
<1>1. x.start \in Nat /\ x.size \in Nat \ {0}
  BY DEF Solid
<1>2. b \in FreeBlocks /\ b.start = x.start /\ b.size = x.size
  BY <1>1 DEF FreeBlocks, Block
<1>3. Freed(x) = Merge(r)
  BY DEF Freed
<1> HIDE DEF b
<1>4. \A c \in ToSet(f) : Disjoint(b, c) /\ Disjoint(c, b) /\ c # b
  <2>1. \A c \in ToSet(f) : Disjoint(c, x) /\ c.start \in Nat /\ c.size \in Nat \ {0}
    <3>1. ToSet(f) \subseteq FreeBlocks
      BY Elements
    <3> QED
      BY <3>1 DEF Fills, FreeBlocks
  <2>2. \A c \in ToSet(f) : Disjoint(c, b)
    BY <1>2, <2>1 DEF Disjoint, End
  <2> QED
    BY <1>1, <1>2, <2>1, <2>2 DEF Disjoint, End
<1>5. s \in Seq(FreeBlocks) /\ ToSet(s) = ToSet(f) \cup {b} /\ Distinct(s)
  <2>1. b \notin ToSet(f)
    BY <1>4
  <2> QED
    BY <1>2, <2>1, AppendProperties, AppendedSet
<1>6. Total(s) = Total(f) + x.size
  <2>1. IsSum(T, W, FreeBlocks)
    BY TotalIsSum, FreeBlocksAreBlocks
  <2>2. T[s] = T[f] + W[b]
    <3> HIDE DEF T, W
    <3> QED
      BY <1>2, <2>1 DEF IsSum
  <2> QED
    BY <1>2, <1>5, <2>2
<1> HIDE DEF s
<1>7. /\ r \in Seq(FreeBlocks) /\ ToSet(r) = ToSet(s) /\ Distinct(r)
      /\ Total(r) = Total(s) /\ Sorted(MA_FF, r)
  <2>1. MA_FF \in Algorithms
    BY DEF Algorithms
  <2> QED
    BY <1>5, <2>1, FreeBlocksAreBlocks, Rearranged
<1> HIDE DEF r
<1>8. Ascending(r)
  <2>1. Apart(ToSet(r))
    <3>1. Apart(ToSet(f))
      BY DEF Fills
    <3> QED
      BY <1>4, <1>5, <1>7, <3>1 DEF Apart
  <2> QED
    BY <1>7, <2>1, SortedAscending
<1>9. /\ Merge(r) \in Seq(FreeBlocks) /\ Gapped(Merge(r)) /\ Total(Merge(r)) = Total(r)
      /\ \A a \in Int : Covers(ToSet(Merge(r)), a) <=> Covers(ToSet(r), a)
  BY <1>7, <1>8, Merged
<1>10. Distinct(Merge(r)) /\ Apart(ToSet(Merge(r))) /\ Separated(ToSet(Merge(r)))
  BY <1>9, GappedDistinct, GappedApart
<1>11. \A a : Covers(ToSet(r), a) <=> Covers(ToSet(f), a) \/ Holds(x, a)
  <2>1. \A a : Holds(b, a) <=> Holds(x, a)
    BY <1>2 DEF Holds
  <2> QED
    BY <1>5, <1>7, <2>1 DEF Covers
<1> QED
  BY <1>3, <1>6, <1>7, <1>9, <1>10, <1>11

\* Blocks with gaps between them are determined by the addresses they cover.
LEMMA CoverDetermines ==
  ASSUME NEW F \in SUBSET FreeBlocks, Apart(F), Separated(F),
         NEW G \in SUBSET FreeBlocks, Apart(G), Separated(G),
         \A a \in Int : Covers(F, a) <=> Covers(G, a),
         NEW b \in F
  PROVE  b \in G
<1>1. \A c \in F \cup G : c.start \in Nat /\ c.size \in Nat \ {0} /\ c = Block(c.start, c.size)
  BY DEF FreeBlocks, Block
<1>2. PICK c \in G : Holds(c, b.start)
  <2>1. Holds(b, b.start) /\ b.start \in Int
    BY <1>1 DEF Holds
  <2> QED
    BY <2>1 DEF Covers
<1>3. c.start = b.start
  <2> SUFFICES ASSUME c.start < b.start PROVE FALSE
    BY <1>1, <1>2 DEF Holds
  <2>1. Holds(c, b.start - 1) /\ b.start - 1 \in Int
    BY <1>1, <1>2 DEF Holds
  <2>2. PICK e \in F : Holds(e, b.start - 1)
    BY <2>1 DEF Covers
  <2>3. e # b
    BY <1>1, <2>2 DEF Holds
  <2>4. Disjoint(e, b) /\ End(e) # b.start
    BY <2>3 DEF Apart, Separated
  <2> QED
    BY <1>1, <2>2, <2>4 DEF Disjoint, End, Holds
<1>4. End(c) >= End(b)
  <2> SUFFICES ASSUME End(c) < End(b) PROVE FALSE
    BY <1>1 DEF End
  <2>1. Holds(b, End(c)) /\ End(c) \in Int
    BY <1>1, <1>3 DEF Holds, End
  <2>2. PICK e \in G : Holds(e, End(c))
    BY <2>1 DEF Covers
  <2>3. e # c
    BY <1>1, <2>2 DEF Holds, End
  <2>4. Disjoint(e, c) /\ End(c) # e.start
    BY <2>3 DEF Apart, Separated
  <2> QED
    BY <1>1, <2>2, <2>4 DEF Disjoint, End, Holds
<1>5. End(b) >= End(c)
  <2> SUFFICES ASSUME End(b) < End(c) PROVE FALSE
    BY <1>1 DEF End
  <2>1. Holds(c, End(b)) /\ End(b) \in Int
    BY <1>1, <1>3 DEF Holds, End
  <2>2. PICK e \in F : Holds(e, End(b))
    BY <2>1 DEF Covers
  <2>3. e # b
    BY <1>1, <2>2 DEF Holds, End
  <2>4. Disjoint(e, b) /\ End(b) # e.start
    BY <2>3 DEF Apart, Separated
  <2> QED
    BY <1>1, <2>2, <2>4 DEF Disjoint, End, Holds
<1>6. c.size = b.size
  BY <1>1, <1>3, <1>4, <1>5 DEF End
<1>7. c = b
  BY <1>1, <1>3, <1>6
<1> QED
  BY <1>7

-----------------------------------------------------------------------------
(* What the commands do to the two lists.                                  *)

\* Sums of the empty list, and of a list of one block.
LEMMA FewBlocks ==
  /\ Total(<<>>) = 0 /\ TotalRequest(<<>>) = 0
  /\ \A b \in FreeBlocks : Total(<<b>>) = b.size
<1>1. Total(<<>>) = 0
  <2> DEFINE T == [u \in Seq(FreeBlocks) |-> Total(u)]
             W == [b \in FreeBlocks |-> b.size]
  <2>1. IsSum(T, W, FreeBlocks)
    BY TotalIsSum, FreeBlocksAreBlocks
  <2>2. T[<<>>] = 0 /\ <<>> \in Seq(FreeBlocks)
    BY <2>1, EmptySeq DEF IsSum
  <2> QED
    BY <2>2
<1>2. TotalRequest(<<>>) = 0
  <2> DEFINE B == {}
             T == [u \in Seq(B) |-> TotalRequest(u)]
             W == [b \in B |-> b.r_size]
  <2>1. IsSum(T, W, B)
    BY RequestIsSum
  <2>2. T[<<>>] = 0 /\ <<>> \in Seq(B)
    BY <2>1, EmptySeq DEF IsSum
  <2> QED
    BY <2>2
<1>3. ASSUME NEW b \in FreeBlocks PROVE Total(<<b>>) = b.size
  <2> DEFINE T == [u \in Seq(FreeBlocks) |-> Total(u)]
             W == [c \in FreeBlocks |-> c.size]
  <2>1. IsSum(T, W, FreeBlocks)
    BY TotalIsSum, FreeBlocksAreBlocks
  <2>2. T[<<b>>] = W[b]
    <3> HIDE DEF T, W
    <3> QED
      BY <2>1, SumOne
  <2> QED
    BY <2>2
<1> QED
  BY <1>1, <1>2, <1>3

\* A list of one block.
LEMMA OneBlock ==
  ASSUME NEW b \in FreeBlocks
  PROVE  /\ FreeList(<<b>>) /\ ToSet(<<b>>) = {b} /\ Total(<<b>>) = b.size
         /\ \A m : Sorted(m, <<b>>)
<1>1. ToSet(<<b>>) = {b}
  BY DEF ToSet
<1>2. Separated({b})
  BY DEF Separated, End, FreeBlocks
<1> QED
  BY <1>1, <1>2, FewBlocks DEF FreeList, Distinct, Sorted

\* Memory that is all free.
LEMMA WholeMemory ==
  ASSUME NEW m \in Nat \ {0}
  PROVE  /\ Block(0, m) \in FreeBlocks
         /\ Memory(<<Block(0, m)>>, <<>>, m)
         /\ \A p : UsedList(<<>>, p)
         /\ ToSet(<<>>) = {}
<1> DEFINE b == Block(0, m)
<1>1. b \in FreeBlocks /\ b.start = 0 /\ b.size = m
  BY DEF FreeBlocks, Block
<1> HIDE DEF b
<1>2. ToSet(<<>>) = {}
  BY DEF ToSet
<1>3. Fills({b}, {}, m)
  <2>1. \A a \in 0 .. m - 1 : Holds(b, a)
    BY <1>1 DEF Holds
  <2> QED
    BY <1>1, <2>1 DEF Fills, Apart, Covers, End
<1>4. Memory(<<b>>, <<>>, m)
  <2>1. ToSet(<<b>>) = {b} /\ Total(<<b>>) = m
    BY <1>1, OneBlock
  <2>2. Total(<<>>) = 0 /\ m + 0 = m
    BY FewBlocks
  <2> QED
    BY <1>2, <1>3, <2>1, <2>2 DEF Memory
<1>5. \A p : UsedList(<<>>, p)
  BY EmptySeq DEF UsedList
<1> QED
  BY <1>1, <1>2, <1>4, <1>5 DEF b

\* Sorting the free list for an algorithm.
LEMMA Reordered ==
  ASSUME NEW f, FreeList(f), NEW a \in Algorithms
  PROVE  /\ FreeList(Rearrange(a, f)) /\ Sorted(a, Rearrange(a, f))
         /\ ToSet(Rearrange(a, f)) = ToSet(f)
         /\ \A u, m : Memory(f, u, m) => Memory(Rearrange(a, f), u, m)
<1>1. f \in Seq(FreeBlocks) /\ Distinct(f) /\ Separated(ToSet(f))
  BY DEF FreeList
<1>2. /\ Rearrange(a, f) \in Seq(FreeBlocks) /\ ToSet(Rearrange(a, f)) = ToSet(f)
      /\ Distinct(Rearrange(a, f)) /\ Total(Rearrange(a, f)) = Total(f)
      /\ Sorted(a, Rearrange(a, f))
  BY <1>1, FreeBlocksAreBlocks, Rearranged
<1> QED
  BY <1>1, <1>2 DEF FreeList, Memory

\* What the elements of a process list are.
LEMMA UsedElements ==
  ASSUME NEW u, NEW p, UsedList(u, p)
  PROVE  /\ \A c \in Processes : c.size \in Nat /\ c.r_size \in Nat
         /\ u \in Seq(Processes) /\ Len(u) \in Nat /\ Distinct(u)
         /\ ToSet(u) \subseteq Processes /\ Solid(ToSet(u))
         /\ Total(u) \in Nat /\ TotalRequest(u) \in Nat
<1>1. \A c \in Processes : c.size \in Nat /\ c.r_size \in Nat
  <2>1. Requests \subseteq Nat
    BY MemAllocAssumption
  <2> QED
    BY <2>1 DEF Processes
<1>2. u \in Seq(Processes) /\ Len(u) \in Nat
  BY LenProperties DEF UsedList
<1>3. Distinct(u)
  BY DEF UsedList, Distinct
<1>4. ToSet(u) \subseteq Processes
  BY <1>2, Elements
<1>5. Solid(ToSet(u))
  BY <1>4, BlocksSolid
<1>6. Total(u) \in Nat
  <2> DEFINE T == [v \in Seq(Processes) |-> Total(v)]
             W == [c \in Processes |-> c.size]
  <2>1. IsSum(T, W, Processes)
    BY <1>1, TotalIsSum
  <2>2. T[u] \in Nat
    <3> HIDE DEF T
    <3> QED
      BY <1>2, <2>1 DEF IsSum
  <2> QED
    BY <1>2, <2>2
<1>7. TotalRequest(u) \in Nat
  <2> DEFINE T == [v \in Seq(Processes) |-> TotalRequest(v)]
             W == [c \in Processes |-> c.r_size]
  <2>1. IsSum(T, W, Processes)
    BY <1>1, RequestIsSum
  <2>2. T[u] \in Nat
    <3> HIDE DEF T
    <3> QED
      BY <1>2, <2>1 DEF IsSum
  <2> QED
    BY <1>2, <2>2
<1> QED
  BY <1>1, <1>2, <1>3, <1>4, <1>5, <1>6, <1>7

\* A process with the next pid goes to the head of the list.
LEMMA Entered ==
  ASSUME NEW u, NEW p \in Nat, UsedList(u, p), p + 1 <= MaxPid,
         NEW x \in FreeBlocks, NEW n \in Requests, x.size - n \in 0 .. MIN_SLICE - 1
  PROVE  LET e == [pid |-> p + 1, start |-> x.start, size |-> x.size, r_size |-> n]
             v == <<e>> \o u
         IN  /\ UsedList(v, p + 1) /\ ToSet(v) = ToSet(u) \cup {e}
             /\ Total(v) = Total(u) + x.size /\ TotalRequest(v) = TotalRequest(u) + n
<1> DEFINE e == [pid |-> p + 1, start |-> x.start, size |-> x.size, r_size |-> n]
           v == <<e>> \o u
           T == [w \in Seq(Processes) |-> Total(w)]
           W == [c \in Processes |-> c.size]
           Q == [w \in Seq(Processes) |-> TotalRequest(w)]
           V == [c \in Processes |-> c.r_size]
<1>1. /\ \A c \in Processes : c.size \in Nat /\ c.r_size \in Nat
      /\ u \in Seq(Processes) /\ Len(u) \in Nat
      /\ Total(u) \in Nat /\ TotalRequest(u) \in Nat
  BY UsedElements
<1>2. MaxPid \in Nat /\ MIN_SLICE \in Nat \ {0}
  BY MemAllocAssumption
<1>3. e \in Processes
  BY <1>2 DEF Processes, FreeBlocks
<1>4. e.pid = p + 1 /\ e.size = x.size /\ e.r_size = n
  OBVIOUS
<1> HIDE DEF e
<1>5. /\ v \in Seq(Processes) /\ Len(v) = 1 + Len(u)
      /\ \A k \in 1 .. Len(v) : v[k] = IF k = 1 THEN e ELSE u[k - 1]
  <2>1. <<e>> \in Seq(Processes) /\ Len(<<e>>) = 1 /\ <<e>>[1] = e
    BY <1>3
  <2>2. /\ v \in Seq(Processes) /\ Len(v) = 1 + Len(u)
        /\ \A k \in 1 .. 1 + Len(u) :
             v[k] = IF k <= 1 THEN <<e>>[k] ELSE u[k - 1]
    BY <1>1, <2>1, ConcatProperties
  <2> QED
    BY <1>1, <2>1, <2>2
<1>6. Total(v) = Total(u) + x.size
  <2>1. IsSum(T, W, Processes)
    BY <1>1, TotalIsSum
  <2>2. T[v] = T[<<e>>] + T[u] /\ T[<<e>>] = W[e]
    <3>1. <<e>> \in Seq(Processes) /\ u \in Seq(Processes)
      BY <1>1, <1>3
    <3> HIDE DEF T, W
    <3>2. T[<<e>> \o u] = T[<<e>>] + T[u]
      BY <2>1, <3>1, SumConcat
    <3>3. T[<<e>>] = W[e]
      BY <1>3, <2>1, SumOne
    <3> QED
      BY <3>2, <3>3
  <2> HIDE DEF v
  <2>3. T[v] = Total(v) /\ T[u] = Total(u) /\ W[e] = x.size /\ x.size \in Nat
    BY <1>1, <1>3, <1>4, <1>5 DEF FreeBlocks
  <2> HIDE DEF T, W
  <2> QED
    BY <1>1, <2>2, <2>3
<1>7. TotalRequest(v) = TotalRequest(u) + n
  <2>1. IsSum(Q, V, Processes)
    BY <1>1, RequestIsSum
  <2>2. Q[v] = Q[<<e>>] + Q[u] /\ Q[<<e>>] = V[e]
    <3>1. <<e>> \in Seq(Processes) /\ u \in Seq(Processes)
      BY <1>1, <1>3
    <3> HIDE DEF Q, V
    <3>2. Q[<<e>> \o u] = Q[<<e>>] + Q[u]
      BY <2>1, <3>1, SumConcat
    <3>3. Q[<<e>>] = V[e]
      BY <1>3, <2>1, SumOne
    <3> QED
      BY <3>2, <3>3
  <2> HIDE DEF v
  <2>3. Q[v] = TotalRequest(v) /\ Q[u] = TotalRequest(u) /\ V[e] = n /\ n \in Nat
    BY <1>1, <1>3, <1>4, <1>5
  <2> HIDE DEF Q, V
  <2> QED
    BY <1>1, <2>2, <2>3
<1> HIDE DEF v
<1>8. ASSUME NEW k \in 1 .. Len(v)
      PROVE  \/ k = 1 /\ v[k] = e
             \/ k # 1 /\ k - 1 \in 1 .. Len(u) /\ v[k] = u[k - 1]
  <2>1. k # 1 => k - 1 \in 1 .. Len(u)
    BY <1>1, <1>5
  <2> QED
    BY <1>5, <2>1
<1>9. /\ \A k \in 1 .. Len(u) : u[k].pid <= p /\ u[k].size - u[k].r_size \in 0 .. MIN_SLICE - 1
      /\ \A j, k \in 1 .. Len(u) : j # k => u[j].pid # u[k].pid
      /\ \A k \in 1 .. Len(u) : u[k].pid \in Int
  <2>1. \A k \in 1 .. Len(u) : u[k] \in Processes
    BY <1>1, ElementOfSeq
  <2> QED
    BY <1>2, <2>1 DEF UsedList, Processes
<1>10. UsedList(v, p + 1)
  <2>1. ASSUME NEW k \in 1 .. Len(v)
        PROVE  v[k].pid <= p + 1 /\ v[k].size - v[k].r_size \in 0 .. MIN_SLICE - 1
    <3>1. CASE k = 1 /\ v[k] = e
      BY <1>4, <3>1
    <3>2. CASE k # 1 /\ k - 1 \in 1 .. Len(u) /\ v[k] = u[k - 1]
      <4>1. /\ v[k].pid <= p /\ v[k].pid \in Int
            /\ v[k].size - v[k].r_size \in 0 .. MIN_SLICE - 1
        BY <1>9, <3>2
      <4> QED
        BY <4>1
    <3> QED
      BY <1>8, <3>1, <3>2
  <2>2. ASSUME NEW j \in 1 .. Len(v), NEW k \in 1 .. Len(v), j # k PROVE v[j].pid # v[k].pid
    <3>1. \A i \in 1 .. Len(u) : u[i].pid # p + 1
      BY <1>9
    <3>2. /\ \/ j = 1 /\ v[j] = e
             \/ j # 1 /\ j - 1 \in 1 .. Len(u) /\ v[j] = u[j - 1]
          /\ \/ k = 1 /\ v[k] = e
             \/ k # 1 /\ k - 1 \in 1 .. Len(u) /\ v[k] = u[k - 1]
      BY <1>8
    <3>3. CASE j = 1 /\ v[j] = e
      <4>1. k - 1 \in 1 .. Len(u) /\ v[k] = u[k - 1]
        BY <2>2, <3>2, <3>3
      <4> QED
        BY <1>4, <3>1, <3>3, <4>1
    <3>4. CASE j # 1 /\ j - 1 \in 1 .. Len(u) /\ v[j] = u[j - 1]
      <4>1. CASE k = 1 /\ v[k] = e
        BY <1>4, <3>1, <3>4, <4>1
      <4>2. CASE k # 1 /\ k - 1 \in 1 .. Len(u) /\ v[k] = u[k - 1]
        <5>1. j - 1 # k - 1
          BY <2>2
        <5> QED
          BY <1>9, <3>4, <4>2, <5>1
      <4> QED
        BY <3>2, <4>1, <4>2
    <3> QED
      BY <3>2, <3>3, <3>4
  <2> QED
    BY <1>5, <2>1, <2>2 DEF UsedList
<1>11. ToSet(v) = ToSet(u) \cup {e}
  <2>1. /\ \A k \in 1 .. Len(v) : v[k] \in ToSet(v)
        /\ \A c \in ToSet(v) : \E k \in 1 .. Len(v) : v[k] = c
        /\ \A k \in 1 .. Len(u) : u[k] \in ToSet(u)
        /\ \A c \in ToSet(u) : \E k \in 1 .. Len(u) : u[k] = c
    BY <1>1, <1>5, Elements
  <2>2. ASSUME NEW c \in ToSet(v) PROVE c \in ToSet(u) \cup {e}
    <3>1. PICK k \in 1 .. Len(v) : v[k] = c
      BY <2>1
    <3>2. \/ k = 1 /\ v[k] = e
          \/ k # 1 /\ k - 1 \in 1 .. Len(u) /\ v[k] = u[k - 1]
      BY <1>8
    <3>3. k - 1 \in 1 .. Len(u) => u[k - 1] \in ToSet(u)
      BY <2>1
    <3> QED
      BY <3>1, <3>2, <3>3
  <2>3. e \in ToSet(v)
    <3>1. 1 \in 1 .. Len(v) /\ v[1] = e
      BY <1>1, <1>5
    <3> QED
      BY <2>1, <3>1
  <2>4. ASSUME NEW c \in ToSet(u) PROVE c \in ToSet(v)
    <3>1. PICK k \in 1 .. Len(u) : u[k] = c
      BY <2>1
    <3>2. k + 1 \in 1 .. Len(v) /\ k + 1 # 1 /\ (k + 1) - 1 = k
      BY <1>1, <1>5
    <3>3. v[k + 1] = c
      BY <1>5, <3>1, <3>2
    <3> QED
      BY <2>1, <3>2, <3>3
  <2> QED
    BY <2>2, <2>3, <2>4
<1> QED
  BY <1>6, <1>7, <1>10, <1>11 DEF e, v

\* allocate_mem, once block i of the free list is found large enough.
LEMMA Taken ==
  ASSUME NEW f, FreeList(f), NEW u, NEW p \in Nat, UsedList(u, p),
         p + 1 <= MaxPid, NEW m \in Nat, Memory(f, u, m),
         NEW i \in 1 .. Len(f), NEW n \in Requests, f[i].size >= n
  PROVE  LET b == f[i]
             c == Carve(f, i, n)
             e == [pid |-> p + 1, start |-> c.block.start, size |-> c.block.size, r_size |-> n]
             v == <<e>> \o u
         IN  /\ FreeList(c.rest) /\ UsedList(v, p + 1) /\ Memory(c.rest, v, m)
             /\ Total(v) = Total(u) + c.block.size /\ TotalRequest(v) = TotalRequest(u) + n
             /\ ToSet(c.rest) = (ToSet(f) \ {b}) \cup Partition!Left(b, n)
             /\ ToSet(v) = ToSet(u) \cup {Partition!Entry(p + 1, b, n)}
<1> DEFINE b == f[i]
           x == Carve(f, i, n).block
           t == Carve(f, i, n).rest
           R == Partition!Left(b, n)
           e == [pid |-> p + 1, start |-> x.start, size |-> x.size, r_size |-> n]
           v == <<e>> \o u
<1>1. f \in Seq(FreeBlocks) /\ Distinct(f) /\ Separated(ToSet(f))
  BY DEF FreeList
<1>2. Fills(ToSet(f), ToSet(u), m) /\ Total(f) + Total(u) = m
  BY DEF Memory
<1>3. Apart(ToSet(f)) /\ \A c, d \in ToSet(f) : End(c) # d.start
  BY <1>1, <1>2 DEF Fills, Separated
<1>4. n \in Nat \ {0}
  BY MemAllocAssumption
<1>5. b \in ToSet(f) /\ ToSet(f) \subseteq FreeBlocks
  BY <1>1, Elements
<1>6. /\ x \in FreeBlocks /\ x.start = b.start /\ x.size = Partition!Given(b, n)
      /\ x.size - n \in 0 .. MIN_SLICE - 1
      /\ \/ x.size = b.size /\ R = {}
         \/ x.size < b.size /\ R = {Block(b.start + x.size, b.size - x.size)}
      /\ t \in Seq(FreeBlocks) /\ Distinct(t) /\ ToSet(t) = (ToSet(f) \ {b}) \cup R
      /\ \A c, d \in ToSet(t) : End(c) # d.start
      /\ Total(t) + x.size = Total(f)
  BY <1>1, <1>3, <1>4, Carved
<1> HIDE DEF b, x, t, R
<1>7. /\ UsedList(v, p + 1) /\ ToSet(v) = ToSet(u) \cup {e}
      /\ Total(v) = Total(u) + x.size /\ TotalRequest(v) = TotalRequest(u) + n
  BY <1>6, Entered
<1>8. e.start = b.start /\ e.size = x.size /\ e.size \in Nat \ {0}
  BY <1>6 DEF FreeBlocks
<1>9. e = Partition!Entry(p + 1, b, n)
  BY <1>6 DEF Partition!Entry
<1> HIDE DEF e, v
<1>10. Fills(ToSet(t), ToSet(v), m)
  <2>1. Solid(ToSet(f)) /\ Solid(ToSet(u))
    BY <1>5, BlocksSolid, UsedElements
  <2>2. \/ e.size = b.size /\ R = {}
        \/ e.size < b.size /\ R = {Block(b.start + e.size, b.size - e.size)}
    BY <1>6, <1>8
  <2>3. Fills((ToSet(f) \ {b}) \cup R, ToSet(u) \cup {e}, m)
    BY <1>2, <1>5, <1>8, <2>1, <2>2, FillsTake
  <2> QED
    BY <1>6, <1>7, <2>3
<1>11. Total(t) + Total(v) = m
  <2>1. Total(u) \in Nat /\ Total(f) \in Nat /\ Total(t) \in Nat /\ x.size \in Nat
    <3> DEFINE T == [s \in Seq(FreeBlocks) |-> Total(s)]
               W == [c \in FreeBlocks |-> c.size]
    <3>1. IsSum(T, W, FreeBlocks)
      BY TotalIsSum, FreeBlocksAreBlocks
    <3>2. T[f] \in Nat /\ T[t] \in Nat
      <4> HIDE DEF T
      <4> QED
        BY <1>1, <1>6, <3>1 DEF IsSum
    <3> QED
      BY <1>1, <1>6, <3>2, UsedElements DEF FreeBlocks
  <2> QED
    BY <1>2, <1>6, <1>7, <2>1
<1>12. FreeList(t) /\ Memory(t, v, m)
  BY <1>6, <1>10, <1>11 DEF FreeList, Separated, Memory
<1> QED
  BY <1>6, <1>7, <1>9, <1>12 DEF b, x, t, R, e, v

\* The sizes on a free list that is not empty add up to something.
LEMMA SomethingFree ==
  ASSUME NEW f \in Seq(FreeBlocks)
  PROVE  Total(f) \in Nat /\ (f # <<>> => Total(f) > 0)
<1> DEFINE T == [s \in Seq(FreeBlocks) |-> Total(s)]
           W == [c \in FreeBlocks |-> c.size]
<1>1. IsSum(T, W, FreeBlocks)
  BY TotalIsSum, FreeBlocksAreBlocks
<1>2. Total(f) \in Nat
  <2>1. T[f] \in Nat
    <3> HIDE DEF T
    <3> QED
      BY <1>1 DEF IsSum
  <2> QED
    BY <2>1
<1>3. ASSUME f # <<>> PROVE Total(f) > 0
  <2>1. PICK s \in Seq(FreeBlocks), e \in FreeBlocks : f = Append(s, e)
    BY <1>3, SequenceEmptyOrAppend
  <2>2. T[f] = T[s] + W[e] /\ T[s] \in Nat
    <3> HIDE DEF T, W
    <3> QED
      BY <1>1, <2>1 DEF IsSum
  <2>3. W[e] \in Nat \ {0}
    BY DEF FreeBlocks
  <2>4. T[f] = Total(f)
    OBVIOUS
  <2> HIDE DEF T, W
  <2> QED
    BY <2>2, <2>3, <2>4
<1> QED
  BY <1>2, <1>3

\* So do the sizes of the processes.
LEMMA SomethingUsed ==
  ASSUME NEW u, NEW p, UsedList(u, p), u # <<>>
  PROVE  Total(u) > 0
<1> DEFINE T == [s \in Seq(Processes) |-> Total(s)]
           W == [c \in Processes |-> c.size]
<1>1. u \in Seq(Processes) /\ \A c \in Processes : c.size \in Nat
  BY UsedElements
<1>2. IsSum(T, W, Processes)
  BY <1>1, TotalIsSum
<1>3. PICK s \in Seq(Processes), e \in Processes : u = Append(s, e)
  BY <1>1, SequenceEmptyOrAppend
<1>4. T[u] = T[s] + W[e] /\ T[s] \in Nat
  <2> HIDE DEF T, W
  <2> QED
    BY <1>2, <1>3 DEF IsSum
<1>5. W[e] \in Nat \ {0}
  BY DEF Processes
<1>6. T[u] = Total(u)
  BY <1>1
<1> HIDE DEF T, W
<1> QED
  BY <1>4, <1>5, <1>6

\* Compaction, with something free and something allocated.
LEMMA CompactedMemory ==
  ASSUME NEW f, FreeList(f), f # <<>>,
         NEW u, NEW p, UsedList(u, p), u # <<>>, NEW m \in Nat, Memory(f, u, m)
  PROVE  LET b == Block(Total(u), m - Total(u))
             v == MovedDown(u)
         IN  /\ Compacted(f, u) = <<b>> /\ b \in FreeBlocks /\ Total(u) \in 1 .. m - 1
             /\ UsedList(v, p) /\ Memory(<<b>>, v, m)
             /\ Total(v) = Total(u) /\ TotalRequest(v) = TotalRequest(u)
<1> DEFINE b == Block(Total(u), m - Total(u))
           v == MovedDown(u)
           k == Total(u)
<1>1. f \in Seq(FreeBlocks) /\ Total(f) + Total(u) = m
  BY DEF FreeList, Memory
<1>2. u \in Seq(Processes) /\ Len(u) \in Nat /\ k \in Nat /\ k > 0
  BY UsedElements, SomethingUsed
<1>3. Total(f) \in Nat /\ Total(f) > 0
  BY <1>1, SomethingFree
<1>4. k \in 1 .. m - 1 /\ m - k = Total(f)
  BY <1>1, <1>2, <1>3
<1>5. Compacted(f, u) = <<b>>
  BY <1>2, <1>4 DEF Compacted, DEFAULT_MEM_START
<1>6. b \in FreeBlocks /\ b.start = k /\ b.size = m - k
  BY <1>2, <1>3, <1>4 DEF FreeBlocks, Block
<1> HIDE DEF b, k
<1>7. /\ v \in Seq(Processes) /\ Len(v) = Len(u)
      /\ \A j \in 1 .. Len(u) : /\ v[j].pid = u[j].pid /\ v[j].size = u[j].size
                                /\ v[j].r_size = u[j].r_size
      /\ Total(v) = k /\ TotalRequest(v) = TotalRequest(u)
      /\ Apart(ToSet(v)) /\ \A c \in ToSet(v) : End(c) <= k
      /\ \A a \in 0 .. k - 1 : Covers(ToSet(v), a)
  BY <1>2, Packed DEF k
<1> HIDE DEF v
<1>8. UsedList(v, p)
  BY <1>7 DEF UsedList
<1>9. Fills({b}, ToSet(v), m)
  <2>1. Apart({b}) /\ End(b) = m
    BY <1>4, <1>6 DEF Apart, End
  <2>2. \A c \in ToSet(v) : End(c) \in Int
    <3>1. ToSet(v) \subseteq Processes
      BY <1>7, Elements
    <3> QED
      BY <3>1 DEF Processes, End
  <2>3. \A c \in ToSet(v) : Disjoint(b, c) /\ End(c) <= m
    BY <1>4, <1>6, <1>7, <2>2 DEF Disjoint
  <2>4. \A a \in 0 .. m - 1 : Covers({b}, a) \/ Covers(ToSet(v), a)
    <3> SUFFICES ASSUME NEW a \in 0 .. m - 1 PROVE Covers({b}, a) \/ Covers(ToSet(v), a)
      OBVIOUS
    <3>1. CASE a < k
      BY <1>4, <1>7, <3>1
    <3>2. CASE ~(a < k)
      <4>1. Holds(b, a)
        BY <1>4, <1>6, <3>2 DEF Holds
      <4> QED
        BY <4>1 DEF Covers
    <3> QED
      BY <3>1, <3>2
  <2>5. \A c \in {b} : End(c) <= m
    BY <1>4, <2>1
  <2>6. (\A c \in {b}, d \in ToSet(v) : Disjoint(c, d)) /\ \A c \in ToSet(v) : End(c) <= m
    BY <2>3
  <2> QED
    BY <1>7, <2>1, <2>4, <2>5, <2>6 DEF Fills
<1>10. Memory(<<b>>, v, m)
  <2>1. ToSet(<<b>>) = {b} /\ Total(<<b>>) = m - k
    BY <1>6, OneBlock
  <2>2. (m - k) + k = m
    BY <1>4
  <2> QED
    BY <1>7, <1>9, <2>1, <2>2 DEF Memory
<1> QED
  BY <1>4, <1>5, <1>6, <1>7, <1>8, <1>10 DEF b, k, v

\* free_mem, for process i of the list.
LEMMA GivenBack ==
  ASSUME FreeList(free_block), NEW u, NEW p, UsedList(u, p),
         NEW m \in Nat, Memory(free_block, u, m), NEW i \in 1 .. Len(u)
  PROVE  LET x == u[i]
             g == Freed(x)
             v == RemoveAt(u, i)
         IN  /\ FreeList(g) /\ UsedList(v, p) /\ Memory(g, v, m) /\ Apart(ToSet(g))
             /\ x \in ToSet(u) /\ ToSet(v) = ToSet(u) \ {x}
             /\ Total(u) = Total(v) + x.size /\ TotalRequest(u) = TotalRequest(v) + x.r_size
             /\ \A a \in Int : Covers(ToSet(g), a) <=> Covers(ToSet(free_block), a) \/ Holds(x, a)
<1> DEFINE f == free_block
           x == u[i]
           g == Freed(x)
           v == RemoveAt(u, i)
           T == [s \in Seq(Processes) |-> Total(s)]
           W == [c \in Processes |-> c.size]
           Q == [s \in Seq(Processes) |-> TotalRequest(s)]
           V == [c \in Processes |-> c.r_size]
<1>1. /\ u \in Seq(Processes) /\ Len(u) \in Nat /\ Distinct(u) /\ Solid(ToSet(u))
      /\ Total(u) \in Nat /\ TotalRequest(u) \in Nat
      /\ \A c \in Processes : c.size \in Nat /\ c.r_size \in Nat
  BY UsedElements
<1>2. f \in Seq(FreeBlocks) /\ Distinct(f) /\ Fills(ToSet(f), ToSet(u), m) /\ Total(f) + Total(u) = m
  BY DEF FreeList, Memory
<1>3. x \in ToSet(u) /\ x \in Processes
  BY <1>1, Elements, ElementOfSeq
<1>4. /\ g \in Seq(FreeBlocks) /\ Distinct(g) /\ Apart(ToSet(g)) /\ Separated(ToSet(g))
      /\ Total(g) = Total(f) + x.size
      /\ \A a \in Int : Covers(ToSet(g), a) <=> Covers(ToSet(f), a) \/ Holds(x, a)
  <2> HIDE DEF x
  <2> QED
    BY <1>1, <1>2, <1>3, FreedList
<1>5. /\ v \in Seq(Processes) /\ Len(v) = Len(u) - 1
      /\ \A k \in 1 .. Len(u) - 1 : v[k] = IF k < i THEN u[k] ELSE u[k + 1]
      /\ ToSet(v) = ToSet(u) \ {x}
  BY <1>1, Removed, RemovedSet
<1>6. Total(u) = Total(v) + x.size
  <2>1. IsSum(T, W, Processes)
    BY <1>1, TotalIsSum
  <2>2. T[u] = T[v] + W[x]
    <3> HIDE DEF T, W
    <3> QED
      BY <1>1, <2>1, SumRemoved
  <2> HIDE DEF v, x
  <2> QED
    BY <1>1, <1>3, <1>5, <2>2
<1>7. TotalRequest(u) = TotalRequest(v) + x.r_size
  <2>1. IsSum(Q, V, Processes)
    BY <1>1, RequestIsSum
  <2>2. Q[u] = Q[v] + V[x]
    <3> HIDE DEF Q, V
    <3> QED
      BY <1>1, <2>1, SumRemoved
  <2> HIDE DEF v, x
  <2> QED
    BY <1>1, <1>3, <1>5, <2>2
<1> HIDE DEF g, v
<1>8. UsedList(v, p)
  <2>1. \A k \in 1 .. Len(v) :
          \/ k < i /\ k \in 1 .. Len(u) /\ v[k] = u[k]
          \/ k >= i /\ k + 1 \in 1 .. Len(u) /\ v[k] = u[k + 1]
    BY <1>1, <1>5
  <2>2. /\ \A k \in 1 .. Len(u) : u[k].pid <= p /\ u[k].size - u[k].r_size \in 0 .. MIN_SLICE - 1
        /\ \A j, k \in 1 .. Len(u) : j # k => u[j].pid # u[k].pid
    BY DEF UsedList
  <2>3. \A k \in 1 .. Len(v) : v[k].pid <= p /\ v[k].size - v[k].r_size \in 0 .. MIN_SLICE - 1
    BY <2>1, <2>2
  <2>4. ASSUME NEW j \in 1 .. Len(v), NEW k \in 1 .. Len(v), j # k PROVE v[j].pid # v[k].pid
    <3>1. /\ \/ j < i /\ j \in 1 .. Len(u) /\ v[j] = u[j]
             \/ j >= i /\ j + 1 \in 1 .. Len(u) /\ v[j] = u[j + 1]
          /\ \/ k < i /\ k \in 1 .. Len(u) /\ v[k] = u[k]
             \/ k >= i /\ k + 1 \in 1 .. Len(u) /\ v[k] = u[k + 1]
      BY <2>1
    <3>2. j \in Int /\ k \in Int /\ i \in Int
      OBVIOUS
    <3>3. PICK a \in 1 .. Len(u), c \in 1 .. Len(u) : a # c /\ v[j] = u[a] /\ v[k] = u[c]
      <4>1. CASE j < i /\ j \in 1 .. Len(u) /\ v[j] = u[j]
        BY <2>4, <3>1, <3>2, <4>1
      <4>2. CASE j >= i /\ j + 1 \in 1 .. Len(u) /\ v[j] = u[j + 1]
        BY <2>4, <3>1, <3>2, <4>2
      <4> QED
        BY <3>1, <4>1, <4>2
    <3> QED
      BY <2>2, <3>3
  <2> QED
    BY <1>5, <2>3, <2>4 DEF UsedList
<1>9. Memory(g, v, m)
  <2>1. Solid(ToSet(f)) /\ Solid(ToSet(g))
    BY <1>2, <1>4, Elements, BlocksSolid
  <2>2. Fills(ToSet(g), ToSet(u) \ {x}, m)
    <3> HIDE DEF x
    <3> QED
      BY <1>1, <1>2, <1>3, <1>4, <2>1, FillsGive
  <2>3. Total(g) + Total(v) = m
    <3>1. Total(f) \in Nat /\ Total(g) \in Nat
      BY <1>2, <1>4, SomethingFree
    <3>2. Total(v) \in Nat
      BY <1>8, UsedElements
    <3> QED
      BY <1>1, <1>2, <1>3, <1>4, <1>6, <3>1, <3>2, SMTT(30)
  <2> QED
    BY <1>5, <2>2, <2>3 DEF Memory
<1> QED
  BY <1>3, <1>4, <1>5, <1>6, <1>7, <1>8, <1>9 DEF FreeList, g, v

-----------------------------------------------------------------------------
(* The invariant holds.                                                    *)

\* It holds when the program starts.
LEMMA AllocInit ==
  ASSUME Init
  PROVE  AllocInv
<1>1. DEFAULT_MEM_SIZE \in Nat \ {0} /\ MaxPid \in Nat
  BY MemAllocAssumption
<1>2. /\ free_block = <<Block(0, mem_size)>> /\ allocated_block = <<>>
      /\ mem_size = DEFAULT_MEM_SIZE
  BY DEF Init, DEFAULT_MEM_START
<1>3. Scalars
  BY <1>1 DEF Init, Scalars, Algorithms
<1>4. Untouched
  BY <1>2 DEF Untouched
<1>5. Books
  BY <1>2, FewBlocks DEF Init, Books
<1>6. /\ FreeList(free_block) /\ Sorted(ma_algorithm, free_block)
      /\ UsedList(allocated_block, pid) /\ Memory(free_block, allocated_block, mem_size)
  BY <1>1, <1>2, WholeMemory, OneBlock
<1> QED
  BY <1>3, <1>4, <1>5, <1>6 DEF AllocInv

\* What the invariant says of the numbers.
LEMMA ScalarFacts ==
  ASSUME AllocInv
  PROVE  /\ mem_size \in Nat \ {0} /\ mem_size \in Nat /\ pid \in Nat /\ pid <= MaxPid
         /\ ma_algorithm \in Algorithms /\ MaxPid \in Nat
BY MemAllocAssumption DEF AllocInv, Scalars

\* Command 1 keeps it: the whole memory is one free block again.
LEMMA ResizeKeeps ==
  ASSUME AllocInv, NEW size \in Sizes, set_mem_size(size)
  PROVE  AllocInv' /\ free_block' = <<Block(0, size)>>
<1>1. size \in Nat \ {0}
  BY MemAllocAssumption
<1>2. free_block = <<Block(0, mem_size)>> /\ allocated_block = <<>>
  BY DEF AllocInv, Untouched, set_mem_size
<1>3. free_block' = <<Block(0, size)>> /\ allocated_block' = <<>> /\ mem_size' = size
  BY <1>2 DEF set_mem_size, Block
<1>4. Scalars'
  BY <1>1 DEF AllocInv, Scalars, set_mem_size
<1>5. Untouched'
  BY DEF Untouched, set_mem_size
<1>6. Books'
  BY DEF AllocInv, Books, set_mem_size, totals
<1>7. /\ FreeList(free_block') /\ Sorted(ma_algorithm', free_block')
      /\ UsedList(allocated_block', pid') /\ Memory(free_block', allocated_block', mem_size')
  BY <1>1, <1>3, WholeMemory, OneBlock
<1> QED
  BY <1>3, <1>4, <1>5, <1>6, <1>7 DEF AllocInv

\* Command 2 keeps it: the free list has the same blocks in another order.
LEMMA AlgorithmKeeps ==
  ASSUME AllocInv, NEW a \in Algorithms, set_algorithm(a)
  PROVE  AllocInv' /\ ToSet(free_block') = ToSet(free_block)
<1>1. /\ FreeList(free_block') /\ Sorted(a, free_block')
      /\ ToSet(free_block') = ToSet(free_block)
      /\ Memory(free_block', allocated_block, mem_size)
  BY Reordered DEF AllocInv, set_algorithm
<1>2. Scalars' /\ Untouched' /\ Books'
  BY DEF AllocInv, Scalars, Untouched, Books, set_algorithm, totals
<1> QED
  BY <1>1, <1>2 DEF AllocInv, set_algorithm

\* A block that fits is taken: the lists are those of Taken, the free one sorted.
LEMMA PlacingKeeps ==
  ASSUME Scalars, Books, NEW n \in Requests, Asked,
         NEW f, FreeList(f), NEW u, UsedList(u, pid), Memory(f, u, mem_size),
         Total(u) = Total(allocated_block), TotalRequest(u) = TotalRequest(allocated_block),
         NEW i \in 1 .. Len(f), f[i].size >= n,
         Enter(Carve(f, i, n).block, n, u),
         free_block' = Rearrange(ma_algorithm, Carve(f, i, n).rest),
         UNCHANGED <<mem_size, ma_algorithm, state>>
  PROVE  /\ AllocInv'
         /\ ToSet(free_block') = (ToSet(f) \ {f[i]}) \cup Partition!Left(f[i], n)
         /\ ToSet(allocated_block') = ToSet(u) \cup {Partition!Entry(pid', f[i], n)}
<1> DEFINE c == Carve(f, i, n)
           e == [pid |-> pid + 1, start |-> c.block.start, size |-> c.block.size, r_size |-> n]
           v == <<e>> \o u
<1>1. /\ mem_size \in Nat /\ pid \in Nat /\ pid + 1 <= MaxPid /\ ma_algorithm \in Algorithms
      /\ pid' = pid + 1
  BY MemAllocAssumption DEF Scalars, Asked
<1>2. allocated_block' = v
  BY DEF Enter
<1>3. /\ FreeList(c.rest) /\ UsedList(v, pid + 1) /\ Memory(c.rest, v, mem_size)
      /\ Total(v) = Total(u) + c.block.size /\ TotalRequest(v) = TotalRequest(u) + n
      /\ ToSet(c.rest) = (ToSet(f) \ {f[i]}) \cup Partition!Left(f[i], n)
      /\ ToSet(v) = ToSet(u) \cup {Partition!Entry(pid + 1, f[i], n)}
  <2>1. mem_size \in Nat /\ pid \in Nat /\ pid + 1 <= MaxPid
    BY <1>1
  <2> QED
    BY <2>1, Taken
<1>4. /\ Allocated_Memory_Size' = Allocated_Memory_Size + c.block.size
      /\ Request_Memory_Size' = Request_Memory_Size + n
      /\ free_block' = Rearrange(ma_algorithm, c.rest)
  BY DEF Enter
<1> HIDE DEF v, c
<1>5. /\ FreeList(free_block') /\ Sorted(ma_algorithm, free_block')
      /\ ToSet(free_block') = ToSet(c.rest) /\ Memory(free_block', v, mem_size)
  BY <1>1, <1>3, <1>4, Reordered
<1>6. Books'
  BY <1>2, <1>3, <1>4 DEF Books
<1>7. Scalars'
  BY <1>1, MemAllocAssumption DEF Scalars, Asked
<1>8. Untouched'
  BY DEF Untouched, Asked
<1> QED
  BY <1>1, <1>2, <1>3, <1>5, <1>6, <1>7, <1>8 DEF AllocInv

\* Command 3 keeps it when a block is found: what was found is cut in two.
LEMMA NewProcessKeeps ==
  ASSUME AllocInv, NEW n \in Requests, new_process(n)
  PROVE  /\ AllocInv'
         /\ LET b == free_block[FirstFit(free_block, n)] IN
            /\ ToSet(free_block') = (ToSet(free_block) \ {b}) \cup Partition!Left(b, n)
            /\ ToSet(allocated_block') =
                 ToSet(allocated_block) \cup {Partition!Entry(pid', b, n)}
<1> DEFINE i == FirstFit(free_block, n)
<1>1. free_block \in Seq(FreeBlocks)
  BY DEF AllocInv, FreeList
<1>2. i \in 1 .. Len(free_block) /\ free_block[i].size >= n
  BY <1>1, FirstFitFound DEF new_process
<1>3. /\ Asked /\ Enter(Carve(free_block, i, n).block, n, allocated_block)
      /\ free_block' = Rearrange(ma_algorithm, Carve(free_block, i, n).rest)
      /\ UNCHANGED <<mem_size, ma_algorithm, state>>
  BY DEF new_process
<1> HIDE DEF i
<1>4. /\ Scalars /\ Books /\ FreeList(free_block) /\ UsedList(allocated_block, pid)
      /\ Memory(free_block, allocated_block, mem_size)
  BY DEF AllocInv
<1>5. /\ AllocInv'
      /\ ToSet(free_block') = (ToSet(free_block) \ {free_block[i]})
                              \cup Partition!Left(free_block[i], n)
      /\ ToSet(allocated_block') =
           ToSet(allocated_block) \cup {Partition!Entry(pid', free_block[i], n)}
  BY <1>2, <1>3, <1>4, PlacingKeeps
<1> QED
  BY <1>5 DEF i

\* Command 3 keeps it when it compacts: the processes go down to address 0, and the
\* new one is cut from the one free block above them.
LEMMA CompactingKeeps ==
  ASSUME AllocInv, NEW n \in Requests, new_process_compacting(n)
  PROVE  /\ AllocInv'
         /\ LET b == Block(Total(allocated_block), mem_size - Total(allocated_block)) IN
            /\ b.size >= n
            /\ ToSet(free_block') = Partition!Left(b, n)
            /\ ToSet(allocated_block') =
                 ToSet(MovedDown(allocated_block)) \cup {Partition!Entry(pid', b, n)}
<1> DEFINE one == Compacted(free_block, allocated_block)
           u == MovedDown(allocated_block)
           b == Block(Total(allocated_block), mem_size - Total(allocated_block))
<1>1. /\ Scalars /\ Books /\ FreeList(free_block) /\ UsedList(allocated_block, pid)
      /\ Memory(free_block, allocated_block, mem_size) /\ mem_size \in Nat
      /\ free_block # <<>> /\ allocated_block # <<>>
  BY ScalarFacts DEF AllocInv, new_process_compacting
<1>2. /\ one = <<b>> /\ b \in FreeBlocks
      /\ UsedList(u, pid) /\ Memory(<<b>>, u, mem_size)
      /\ Total(u) = Total(allocated_block) /\ TotalRequest(u) = TotalRequest(allocated_block)
  BY <1>1, CompactedMemory
<1>3. /\ Asked /\ FirstFit(one, n) # 0
      /\ Enter(Carve(one, 1, n).block, n, u)
      /\ free_block' = Rearrange(ma_algorithm, Carve(one, 1, n).rest)
      /\ UNCHANGED <<mem_size, ma_algorithm, state>>
  BY DEF new_process_compacting
<1> HIDE DEF one, u, b
<1>4. FreeList(one) /\ ToSet(one) = {b} /\ one \in Seq(FreeBlocks)
  BY <1>2, OneBlock DEF FreeList
<1>5. 1 \in 1 .. Len(one) /\ Len(one) = 1 /\ one[1] = b
  BY <1>2
<1>6. b.size >= n
  <2>1. FirstFit(one, n) \in 1 .. Len(one) /\ one[FirstFit(one, n)].size >= n
    BY <1>3, <1>4, FirstFitFound
  <2>2. FirstFit(one, n) = 1
    BY <1>5, <2>1
  <2> QED
    BY <1>5, <2>1, <2>2
<1>7. /\ AllocInv'
      /\ ToSet(free_block') = (ToSet(one) \ {one[1]}) \cup Partition!Left(one[1], n)
      /\ ToSet(allocated_block') = ToSet(u) \cup {Partition!Entry(pid', one[1], n)}
  <2>1. Memory(one, u, mem_size) /\ one[1].size >= n
    BY <1>2, <1>5, <1>6
  <2> QED
    BY <1>1, <1>2, <1>3, <1>4, <1>5, <2>1, PlacingKeeps
<1> QED
  BY <1>4, <1>5, <1>6, <1>7 DEF b, u

\* Command 3 keeps it when even that is too little: memory stays compacted.
LEMMA FailingKeeps ==
  ASSUME AllocInv, NEW n \in Requests, new_process_failing(n)
  PROVE  /\ AllocInv'
         /\ LET b == Block(Total(allocated_block), mem_size - Total(allocated_block)) IN
            /\ ~(b.size >= n)
            /\ ToSet(free_block') = {b}
            /\ ToSet(allocated_block') = ToSet(MovedDown(allocated_block))
<1> DEFINE one == Compacted(free_block, allocated_block)
           u == MovedDown(allocated_block)
           b == Block(Total(allocated_block), mem_size - Total(allocated_block))
<1>1. /\ Scalars /\ Books /\ FreeList(free_block) /\ UsedList(allocated_block, pid)
      /\ Memory(free_block, allocated_block, mem_size) /\ mem_size \in Nat
      /\ free_block # <<>> /\ allocated_block # <<>>
  BY ScalarFacts DEF AllocInv, new_process_failing
<1>2. /\ one = <<b>> /\ b \in FreeBlocks
      /\ UsedList(u, pid) /\ Memory(<<b>>, u, mem_size)
      /\ Total(u) = Total(allocated_block) /\ TotalRequest(u) = TotalRequest(allocated_block)
  BY <1>1, CompactedMemory
<1>3. /\ Asked /\ FirstFit(one, n) = 0 /\ free_block' = one /\ allocated_block' = u
      /\ UNCHANGED <<mem_size, ma_algorithm, totals, state>>
  BY DEF new_process_failing
<1> HIDE DEF one, u, b
<1>4. /\ FreeList(one) /\ ToSet(one) = {b} /\ one \in Seq(FreeBlocks)
      /\ Sorted(ma_algorithm, one)
  BY <1>2, OneBlock DEF FreeList
<1>5. 1 \in 1 .. Len(one) /\ one[1] = b
  BY <1>2
<1>6. ~(b.size >= n)
  BY <1>3, <1>4, <1>5, FirstFitFound
<1>7. /\ mem_size \in Nat /\ pid \in Nat /\ pid' = pid + 1 /\ flag' = 1 /\ pid + 1 \in 0 .. MaxPid
  BY <1>1, <1>3, MemAllocAssumption DEF Scalars, Asked
<1>8. UsedList(u, pid')
  <2>1. \A k \in 1 .. Len(u) : u[k].pid <= pid => u[k].pid <= pid + 1
    <3>1. \A k \in 1 .. Len(u) : u[k] \in Processes
      BY <1>2, ElementOfSeq DEF UsedList
    <3>2. \A k \in 1 .. Len(u) : u[k].pid \in Nat
      BY <3>1 DEF Processes
    <3> QED
      BY <1>7, <3>2
  <2> QED
    BY <1>2, <1>7, <2>1 DEF UsedList
<1>9. Scalars' /\ Untouched' /\ Books'
  BY <1>1, <1>2, <1>3, <1>7 DEF Scalars, Untouched, Books, totals
<1>10. Memory(free_block', allocated_block', mem_size')
  BY <1>2, <1>3
<1> QED
  BY <1>3, <1>4, <1>6, <1>8, <1>9, <1>10 DEF AllocInv, u, b

\* find_process finds the process with the pid, if there is one.
LEMMA ProcessFound ==
  ASSUME AllocInv, NEW p, find_process(p) # 0
  PROVE  find_process(p) \in 1 .. Len(allocated_block)
<1> DEFINE I == {k \in 1 .. Len(allocated_block) : allocated_block[k].pid = p}
<1>1. find_process(p) = IF I # {} THEN Min(I) ELSE 0
  BY DEF find_process, SelectInSeq
<1>2. I # {} /\ find_process(p) = Min(I)
  BY <1>1
<1>3. \E x \in I : \A y \in I : x <= y
  <2>1. I \in SUBSET Nat
    OBVIOUS
  <2> QED
    BY <1>2, <2>1, LeastNatural
<1>4. Min(I) \in I
  BY <1>3 DEF Min
<1> QED
  BY <1>2, <1>4

\* Command 4 keeps it: the free addresses are those there were and those of the process.
LEMMA KillKeeps ==
  ASSUME AllocInv, NEW p, kill_process(p)
  PROVE  /\ AllocInv'
         /\ LET x == allocated_block[find_process(p)] IN
            /\ x \in ToSet(allocated_block)
            /\ ToSet(allocated_block') = ToSet(allocated_block) \ {x}
            /\ \A a \in Int : Covers(ToSet(free_block'), a) <=>
                                Covers(ToSet(free_block), a) \/ Holds(x, a)
<1> DEFINE i == find_process(p)
           x == allocated_block[i]
           g == Freed(x)
           v == RemoveAt(allocated_block, i)
<1>1. /\ Scalars /\ Books /\ FreeList(free_block) /\ UsedList(allocated_block, pid)
      /\ Memory(free_block, allocated_block, mem_size) /\ mem_size \in Nat
      /\ ma_algorithm \in Algorithms
  BY ScalarFacts DEF AllocInv
<1>2. i \in 1 .. Len(allocated_block)
  BY ProcessFound DEF kill_process
<1>3. /\ Allocated_Memory_Size' = Allocated_Memory_Size - x.size
      /\ Request_Memory_Size' = Request_Memory_Size - x.r_size
      /\ free_block' = Rearrange(ma_algorithm, g) /\ allocated_block' = v /\ flag' = 1
      /\ UNCHANGED <<mem_size, ma_algorithm, pid, state>>
  BY DEF kill_process
<1> HIDE DEF i
<1>4. /\ FreeList(g) /\ UsedList(v, pid) /\ Memory(g, v, mem_size)
      /\ x \in ToSet(allocated_block) /\ ToSet(v) = ToSet(allocated_block) \ {x}
      /\ Total(allocated_block) = Total(v) + x.size
      /\ TotalRequest(allocated_block) = TotalRequest(v) + x.r_size
      /\ \A a \in Int : Covers(ToSet(g), a) <=> Covers(ToSet(free_block), a) \/ Holds(x, a)
  BY <1>1, <1>2, GivenBack
<1>5. Total(v) \in Nat /\ TotalRequest(v) \in Nat
  <2> HIDE DEF v
  <2> QED
    BY <1>4, UsedElements
<1>6. x.size \in Nat /\ x.r_size \in Nat
  <2>1. x \in Processes /\ \A c \in Processes : c.size \in Nat /\ c.r_size \in Nat
    BY <1>1, <1>2, UsedElements, ElementOfSeq
  <2> QED
    BY <2>1
<1> HIDE DEF x, g, v
<1>7. Books'
  BY <1>1, <1>3, <1>4, <1>5, <1>6 DEF Books
<1>8. /\ FreeList(free_block') /\ Sorted(ma_algorithm, free_block')
      /\ ToSet(free_block') = ToSet(g) /\ Memory(free_block', v, mem_size)
  BY <1>1, <1>3, <1>4, Reordered
<1>9. Scalars' /\ Untouched'
  BY <1>1, <1>3 DEF Scalars, Untouched
<1>10. AllocInv'
  BY <1>3, <1>4, <1>7, <1>8, <1>9 DEF AllocInv
<1>11. /\ x \in ToSet(allocated_block)
       /\ ToSet(allocated_block') = ToSet(allocated_block) \ {x}
       /\ \A a \in Int : Covers(ToSet(free_block'), a) <=>
                           Covers(ToSet(free_block), a) \/ Holds(x, a)
  BY <1>3, <1>4, <1>8
<1> QED
  BY <1>10, <1>11 DEF x, i

\* The commands that leave the lists alone.
LEMMA QuietKeeps ==
  ASSUME AllocInv,
         \/ \E n \in Requests : new_process_crashing(n)
         \/ no_effect \/ display_mem_usage \/ Exit \/ UNCHANGED vars
  PROVE  AllocInv' /\ UNCHANGED <<mem_size, ma_algorithm, free_block, allocated_block>>
<1>1. UNCHANGED <<mem_size, ma_algorithm, totals, free_block, allocated_block>>
  BY DEF new_process_crashing, no_effect, display_mem_usage, Exit, vars
<1>2. pid \in Nat /\ MaxPid \in Nat /\ pid <= MaxPid
  BY ScalarFacts
<1>3. pid' = pid \/ (pid' = pid + 1 /\ pid + 1 <= MaxPid)
  BY <1>2 DEF new_process_crashing, no_effect, display_mem_usage, Exit, vars, Asked
<1>4. flag' = flag \/ flag' = 1
  BY DEF new_process_crashing, no_effect, display_mem_usage, Exit, vars, Asked
<1>5. state' \in {"running", "exited", "crashed"}
  BY DEF AllocInv, Scalars, new_process_crashing, no_effect, display_mem_usage, Exit, vars
<1>6. Scalars'
  BY <1>1, <1>2, <1>3, <1>4, <1>5 DEF AllocInv, Scalars
<1>7. Untouched' /\ Books'
  BY <1>1, <1>4 DEF AllocInv, Untouched, Books, totals
<1>8. UsedList(allocated_block, pid')
  <2>1. UsedList(allocated_block, pid)
    BY DEF AllocInv
  <2>2. \A k \in 1 .. Len(allocated_block) : allocated_block[k].pid \in Nat
    <3>1. \A k \in 1 .. Len(allocated_block) : allocated_block[k] \in Processes
      BY <2>1, ElementOfSeq DEF UsedList
    <3> QED
      BY <3>1 DEF Processes
  <2>3. \A k \in 1 .. Len(allocated_block) : allocated_block[k].pid <= pid
                                             => allocated_block[k].pid <= pid'
    BY <1>2, <1>3, <2>2
  <2> QED
    BY <2>1, <2>3 DEF UsedList
<1> QED
  BY <1>1, <1>6, <1>7, <1>8 DEF AllocInv

\* Every command keeps it.
LEMMA AllocStep ==
  ASSUME AllocInv, [Next]_vars
  PROVE  AllocInv'
<1>1. CASE \E size \in Sizes : set_mem_size(size)
  BY <1>1, ResizeKeeps
<1>2. CASE \E algorithm \in {MA_FF, MA_BF, MA_WF} : set_algorithm(algorithm)
  BY <1>2, AlgorithmKeeps DEF Algorithms
<1>3. CASE \E n \in Requests : new_process(n)
  BY <1>3, NewProcessKeeps
<1>4. CASE \E n \in Requests : new_process_compacting(n)
  BY <1>4, CompactingKeeps
<1>5. CASE \E n \in Requests : new_process_failing(n)
  BY <1>5, FailingKeeps
<1>6. CASE \E p \in 1 .. MaxPid : kill_process(p)
  BY <1>6, KillKeeps
<1>7. CASE \/ \E n \in Requests : new_process_crashing(n)
           \/ no_effect \/ display_mem_usage \/ Exit \/ UNCHANGED vars
  BY <1>7, QuietKeeps
<1> QED
  BY <1>1, <1>2, <1>3, <1>4, <1>5, <1>6, <1>7 DEF Next

\* The invariant holds in every state the allocator reaches.
THEOREM Allocated == Spec => []AllocInv
<1>1. Init => AllocInv
  BY AllocInit
<1>2. AllocInv /\ [Next]_vars => AllocInv'
  BY AllocStep
<1> QED
  BY <1>1, <1>2, PTL DEF Spec

-----------------------------------------------------------------------------
(* The properties.                                                         *)

\* The types follow.
LEMMA InvTypeOK == AllocInv => TypeOK
<1> SUFFICES ASSUME AllocInv PROVE TypeOK
  OBVIOUS
<1>1. /\ free_block \in Seq(FreeBlocks) /\ UsedList(allocated_block, pid)
      /\ allocated_block \in Seq(Processes)
  BY DEF AllocInv, FreeList, UsedList
<1>2. \A i \in DOMAIN free_block : free_block[i] \in FreeBlocks
  BY <1>1, ElementOfSeq, LenProperties
<1>3. ASSUME NEW i \in DOMAIN allocated_block
      PROVE  allocated_block[i] \in
               [pid : 1 .. pid, start : Nat, size : Nat \ {0}, r_size : Requests]
  <2>1. i \in 1 .. Len(allocated_block)
    BY <1>1, <1>3, LenProperties
  <2>2. allocated_block[i] \in Processes
    BY <1>1, <2>1, ElementOfSeq
  <2>3. allocated_block[i].pid <= pid
    BY <1>1, <2>1 DEF UsedList
  <2>4. pid \in Nat
    BY ScalarFacts
  <2>5. allocated_block[i].pid \in 1 .. pid
    BY <2>2, <2>3, <2>4, ScalarFacts DEF Processes
  <2> QED
    BY <2>2, <2>5 DEF Processes
<1>4. Allocated_Memory_Size \in Nat /\ Request_Memory_Size \in Nat
  BY <1>1, UsedElements DEF AllocInv, Books
<1>5. /\ mem_size \in Nat \ {0} /\ ma_algorithm \in {MA_FF, MA_BF, MA_WF}
      /\ pid \in 0 .. MaxPid /\ flag \in {0, 1} /\ state \in {"running", "exited", "crashed"}
  BY DEF AllocInv, Scalars, Algorithms
<1> QED
  BY <1>2, <1>3, <1>4, <1>5 DEF TypeOK, FreeBlocks

\* The lists keep their element types, and a process has a pid already given.
THEOREM TypeCorrect == Spec => []TypeOK
<1>1. AllocInv => TypeOK
  BY InvTypeOK
<1> QED
  BY <1>1, Allocated, PTL

\* Every address belongs to exactly one block.
LEMMA InvTiled == AllocInv => Tiled
<1> SUFFICES ASSUME AllocInv PROVE Tiled
  OBVIOUS
<1> DEFINE F == ToSet(free_block)
           U == ToSet(allocated_block)
<1>1. /\ Fills(F, U, mem_size) /\ Total(free_block) + Total(allocated_block) = mem_size
      /\ UsedList(allocated_block, pid) /\ free_block \in Seq(FreeBlocks)
  BY DEF AllocInv, Memory, FreeList
<1>2. \A b \in F \cup U : b.start \in Nat /\ b.size \in Nat \ {0}
  <2>1. Solid(F) /\ Solid(U)
    BY <1>1, Elements, BlocksSolid, UsedElements
  <2> QED
    BY <2>1 DEF Solid
<1> HIDE DEF F, U
<1>3. ASSUME NEW a \in 0 .. mem_size - 1
      PROVE  Cardinality({b \in F \cup U : Holds(b, a)}) = 1
  <2>1. PICK b \in F \cup U : Holds(b, a)
    BY <1>1 DEF Fills, Covers
  <2>2. ASSUME NEW c \in F \cup U, Holds(c, a), c # b PROVE FALSE
    <3>1. Disjoint(b, c) \/ Disjoint(c, b)
      BY <1>1, <2>2 DEF Fills, Apart
    <3> QED
      BY <1>2, <2>1, <2>2, <3>1 DEF Disjoint, End, Holds
  <2>3. {c \in F \cup U : Holds(c, a)} = {b}
    BY <2>1, <2>2
  <2> QED
    BY <2>3, FS_Singleton
<1>4. Blocks = F \cup U
  BY DEF Blocks, F, U
<1> QED
  BY <1>1, <1>3, <1>4 DEF Tiled

\* Every unit of memory is in exactly one block, and the lists lose and count
\* twice no block, for every sequence of commands.
THEOREM MemoryTiled == Spec => []Tiled
<1>1. AllocInv => Tiled
  BY InvTiled
<1> QED
  BY <1>1, Allocated, PTL

\* No two free blocks are side by side.
THEOREM FreeCoalesced == Spec => []Coalesced
<1>1. AllocInv => Coalesced
  BY DEF AllocInv, FreeList, Separated, Coalesced, End
<1> QED
  BY <1>1, Allocated, PTL

\* The free list is in the order of the current algorithm.
THEOREM FreeOrdered == Spec => []Ordered
<1>1. AllocInv => Ordered
  <2> SUFFICES ASSUME AllocInv PROVE Ordered
    OBVIOUS
  <2>1. Len(free_block) \in Nat /\ Sorted(ma_algorithm, free_block)
    BY LenProperties DEF AllocInv, FreeList
  <2> QED
    BY <2>1 DEF Ordered, IsSorted, Sorted
<1> QED
  BY <1>1, Allocated, PTL

\* The totals shown to the user are the sums over the list.
THEOREM TotalsAccounted == Spec => []Accounted
<1>1. AllocInv => Accounted
  <2> SUFFICES ASSUME AllocInv PROVE Accounted
    OBVIOUS
  <2>1. UsedList(allocated_block, pid) /\ Books
    BY DEF AllocInv
  <2>2. \A ab \in ToSet(allocated_block) : \E k \in 1 .. Len(allocated_block) :
          allocated_block[k] = ab
    BY <2>1, Elements DEF UsedList
  <2>3. \A ab \in ToSet(allocated_block) : ab.size - ab.r_size \in 0 .. MIN_SLICE - 1
    BY <2>1, <2>2 DEF UsedList
  <2> QED
    BY <2>1, <2>3 DEF Accounted, Books, TotalRequest
<1> QED
  BY <1>1, Allocated, PTL

-----------------------------------------------------------------------------
(* The lists implement the partition.                                      *)

\* Whatever CHOOSE picks, a set that is not empty holds it.
LEMMA Chosen == \A S : S # {} => (CHOOSE b \in S : TRUE) \in S
OBVIOUS

\* Blocks that cover what free blocks F and block x did are F with x merged into its
\* free neighbours.
LEMMA GivingBack ==
  ASSUME NEW F \in SUBSET FreeBlocks, Apart(F), Separated(F),
         NEW x, x.start \in Nat, x.size \in Nat \ {0}, \A c \in F : Disjoint(c, x),
         NEW G \in SUBSET FreeBlocks, Apart(G), Separated(G),
         \A a \in Int : Covers(G, a) <=> Covers(F, a) \/ Holds(x, a)
  PROVE  LET below == {b \in F : End(b) = x.start}
             above == {b \in F : b.start = End(x)}
             s == IF below = {} THEN x.start ELSE (CHOOSE b \in below : TRUE).start
             t == IF above = {} THEN End(x) ELSE End(CHOOSE b \in above : TRUE)
         IN  G = (F \ (below \cup above)) \cup {Block(s, t - s)}
<1> DEFINE below == {b \in F : End(b) = x.start}
           above == {b \in F : b.start = End(x)}
           lo == CHOOSE b \in below : TRUE
           hi == CHOOSE b \in above : TRUE
           s == IF below = {} THEN x.start ELSE lo.start
           t == IF above = {} THEN End(x) ELSE End(hi)
           new == Block(s, t - s)
           K == F \ (below \cup above)
           H == K \cup {new}
<1>1. \A c \in F : c.start \in Nat /\ c.size \in Nat \ {0}
  BY DEF FreeBlocks
<1>2. below # {} => lo \in F /\ End(lo) = x.start
  <2>1. below # {} => lo \in below
    BY Chosen
  <2> QED
    BY <2>1
<1>3. above # {} => hi \in F /\ hi.start = End(x)
  <2>1. above # {} => hi \in above
    BY Chosen
  <2> QED
    BY <2>1
<1>4. \A c \in F : (End(c) = x.start => c \in below) /\ (c.start = End(x) => c \in above)
  OBVIOUS
<1>5. \A c \in F : (c \in below => End(c) = x.start) /\ (c \in above => c.start = End(x))
  OBVIOUS
<1>6. \A c \in F : Disjoint(c, x) /\ \A d \in F : End(c) # d.start /\ (c # d => Disjoint(c, d))
  BY DEF Apart, Separated
<1> HIDE DEF lo, hi, below, above
<1>7. s \in Nat /\ s <= x.start /\ (below = {} => s = x.start)
      /\ (below # {} => s = lo.start /\ lo \in F /\ End(lo) = x.start)
  BY <1>1, <1>2 DEF End
<1>8. t \in Nat /\ t >= End(x) /\ (above = {} => t = End(x))
      /\ (above # {} => t = End(hi) /\ hi \in F /\ hi.start = End(x))
  BY <1>1, <1>3 DEF End
<1> HIDE DEF s, t
<1>9. new \in FreeBlocks /\ new.start = s /\ End(new) = t /\ s < t
  <2>1. s \in Nat /\ t \in Nat /\ s <= x.start /\ t >= x.start + x.size
    BY <1>7, <1>8 DEF End
  <2>2. s < t /\ t - s \in Nat \ {0} /\ s + (t - s) = t
    BY <2>1
  <2> QED
    BY <2>1, <2>2 DEF FreeBlocks, Block, End
<1> HIDE DEF new
\* There is one block below x at most, and one above.
<1>10. \A c \in below : c = lo
  <2> SUFFICES ASSUME NEW c \in below PROVE c = lo
    OBVIOUS
  <2>1. c \in F /\ End(c) = x.start /\ below # {}
    BY <1>5 DEF below
  <2>2. Disjoint(c, lo) => FALSE
    BY <1>1, <1>7, <2>1 DEF Disjoint, End
  <2> QED
    BY <1>6, <1>7, <2>1, <2>2
<1>11. \A c \in above : c = hi
  <2> SUFFICES ASSUME NEW c \in above PROVE c = hi
    OBVIOUS
  <2>1. c \in F /\ c.start = End(x) /\ above # {}
    BY <1>5 DEF above
  <2>2. Disjoint(c, hi) => FALSE
    BY <1>1, <1>8, <2>1 DEF Disjoint, End
  <2> QED
    BY <1>6, <1>8, <2>1, <2>2
<1>12. ASSUME NEW c \in K PROVE End(c) < s \/ t < c.start
  <2>1. c \in F /\ End(c) # x.start /\ c.start # End(x)
    BY <1>4
  <2>2. c.start \in Nat /\ c.size \in Nat \ {0} /\ End(c) = c.start + c.size
        /\ End(x) = x.start + x.size
    BY <1>1, <2>1 DEF End
  <2>3. CASE End(c) < x.start
    <3>1. CASE below = {}
      BY <1>7, <2>3, <3>1
    <3>2. CASE below # {}
      <4>1. c # lo
        BY <1>7, <2>3, <3>2, <2>2
      <4>2. Disjoint(c, lo) /\ End(c) # lo.start
        BY <1>6, <1>7, <2>1, <3>2, <4>1
      <4>3. lo.start \in Nat /\ lo.size \in Nat \ {0}
        BY <1>1, <1>7, <3>2
      <4> QED
        BY <1>7, <2>2, <2>3, <3>2, <4>2, <4>3 DEF Disjoint
    <3> QED
      BY <3>1, <3>2
  <2>4. CASE End(x) < c.start
    <3>1. CASE above = {}
      BY <1>8, <2>4, <3>1
    <3>2. CASE above # {}
      <4>1. c # hi
        BY <1>8, <2>4, <3>2, <2>2
      <4>2. Disjoint(hi, c) /\ End(hi) # c.start
        BY <1>6, <1>8, <2>1, <3>2, <4>1
      <4>3. hi.start \in Nat /\ hi.size \in Nat \ {0} /\ End(hi) = hi.start + hi.size
        BY <1>1, <1>8, <3>2 DEF End
      <4> QED
        BY <1>8, <2>2, <2>4, <3>2, <4>2, <4>3 DEF Disjoint
    <3> QED
      BY <3>1, <3>2
  <2>5. End(c) < x.start \/ End(x) < c.start
    BY <1>6, <2>1, <2>2 DEF Disjoint
  <2> QED
    BY <2>3, <2>4, <2>5
<1>13. K \subseteq F /\ \A c \in K : c.start \in Nat /\ End(c) \in Nat /\ c.start < End(c)
  BY <1>1 DEF End
<1>14. H \in SUBSET FreeBlocks
  BY <1>9, <1>13
<1>15. Apart(H)
  <2>1. \A c \in K : Disjoint(c, new) /\ Disjoint(new, c)
    BY <1>7, <1>8, <1>9, <1>12, <1>13 DEF Disjoint
  <2> QED
    BY <1>6, <1>13, <2>1 DEF Apart
<1>16. Separated(H)
  <2>1. \A c \in K : End(c) # new.start /\ End(new) # c.start
    BY <1>7, <1>8, <1>9, <1>12, <1>13
  <2>2. End(new) # new.start
    BY <1>7, <1>8, <1>9
  <2> QED
    BY <1>6, <1>13, <2>1, <2>2 DEF Separated
<1>17. ASSUME NEW a \in Int, Covers(H, a) PROVE Covers(F, a) \/ Holds(x, a)
  <2>1. PICK c \in H : Holds(c, a)
    BY <1>17 DEF Covers
  <2>2. CASE c \in K
    BY <1>13, <2>1, <2>2 DEF Covers
  <2>3. CASE c = new
    <3>1. s <= a /\ a < t
      BY <1>9, <2>1, <2>3 DEF Holds, End
    <3>2. CASE a < x.start
      <4>1. lo \in F /\ Holds(lo, a)
        BY <1>7, <3>1, <3>2 DEF Holds, End
      <4> QED
        BY <4>1 DEF Covers
    <3>3. CASE a >= End(x)
      <4>1. hi \in F /\ Holds(hi, a)
        BY <1>8, <3>1, <3>3 DEF Holds, End
      <4> QED
        BY <4>1 DEF Covers
    <3>4. CASE ~(a < x.start) /\ ~(a >= End(x))
      BY <3>4 DEF Holds, End
    <3> QED
      BY <3>2, <3>3, <3>4
  <2> QED
    BY <2>2, <2>3
<1>18. ASSUME NEW a \in Int, Covers(F, a) \/ Holds(x, a) PROVE Covers(H, a)
  <2>1. ASSUME s <= a, a < t PROVE Covers(H, a)
    <3>1. Holds(new, a)
      BY <1>9, <2>1 DEF Holds, End
    <3> QED
      BY <3>1 DEF Covers
  <2>2. CASE Holds(x, a)
    BY <1>7, <1>8, <2>1, <2>2 DEF Holds, End
  <2>3. CASE Covers(F, a)
    <3>1. PICK c \in F : Holds(c, a)
      BY <2>3 DEF Covers
    <3>2. CASE c \in K
      BY <3>1, <3>2 DEF Covers
    <3>3. CASE c \in below
      <4>1. below # {} /\ c = lo
        BY <1>10, <3>3
      <4>2. s <= a /\ a < x.start
        BY <1>7, <3>1, <4>1 DEF Holds, End
      <4>3. a < t
        BY <1>8, <4>2 DEF End
      <4> QED
        BY <2>1, <4>2, <4>3
    <3>4. CASE c \in above
      <4>1. above # {} /\ c = hi
        BY <1>11, <3>4
      <4>2. End(x) <= a /\ a < t
        BY <1>8, <3>1, <4>1 DEF Holds, End
      <4>3. s <= a
        BY <1>7, <4>2 DEF End
      <4> QED
        BY <2>1, <4>2, <4>3
    <3> QED
      BY <3>2, <3>3, <3>4
  <2> QED
    BY <1>18, <2>2, <2>3
<1> HIDE DEF H
<1>19. \A a \in Int : Covers(G, a) <=> Covers(H, a)
  BY <1>17, <1>18
<1>20. \A a \in Int : Covers(H, a) <=> Covers(G, a)
  BY <1>19
<1>21. \A b \in G : b \in H
  BY <1>14, <1>15, <1>16, <1>19, CoverDetermines
<1>22. \A b \in H : b \in G
  BY <1>14, <1>15, <1>16, <1>20, CoverDetermines
<1>23. G = H
  BY <1>21, <1>22
<1> QED
  BY <1>23 DEF H, K, new, s, t, lo, hi, below, above

\* Among the blocks that fit, the first of a sorted list is the one preferred.
LEMMA FirstPreferred ==
  ASSUME AllocInv, NEW n \in Requests, FirstFit(free_block, n) # 0
  PROVE  LET b == free_block[FirstFit(free_block, n)] IN
         /\ b \in Partition!Fitting(n) /\ b \in ToSet(free_block)
         /\ \A c \in Partition!Fitting(n) : Partition!Prefers(b, c)
<1> DEFINE i == FirstFit(free_block, n)
           b == free_block[i]
<1>1. free_block \in Seq(FreeBlocks) /\ ma_algorithm \in Algorithms
      /\ Sorted(ma_algorithm, free_block)
  BY ScalarFacts DEF AllocInv, FreeList
<1>2. /\ i \in 1 .. Len(free_block) /\ b.size >= n
      /\ \A k \in 1 .. Len(free_block) : k < i => ~(free_block[k].size >= n)
  BY <1>1, FirstFitFound
<1> HIDE DEF i
<1>3. /\ \A k \in 1 .. Len(free_block) : free_block[k] \in ToSet(free_block)
      /\ \A c \in ToSet(free_block) : \E k \in 1 .. Len(free_block) : free_block[k] = c
  BY <1>1, Elements
<1>4. \A k \in 1 .. Len(free_block) : free_block[k] \in FreeBlocks
  BY <1>1, ElementOfSeq
<1>5. b \in ToSet(free_block) /\ b \in Partition!Fitting(n)
  BY <1>2, <1>3 DEF Partition!Fitting
<1>6. ASSUME NEW c \in Partition!Fitting(n) PROVE Partition!Prefers(b, c)
  <2>1. c \in ToSet(free_block) /\ c.size >= n
    BY DEF Partition!Fitting
  <2>2. PICK k \in 1 .. Len(free_block) : free_block[k] = c
    BY <1>3, <2>1
  <2>3. i = k \/ i < k
    BY <1>2, <2>1, <2>2
  <2>4. ~Precedes(ma_algorithm, c, b)
    <3>1. CASE i = k
      BY <2>2, <3>1, <1>4 DEF Precedes, FreeBlocks
    <3>2. CASE i < k
      BY <1>1, <1>2, <2>2, <3>2 DEF Sorted
    <3> QED
      BY <2>3, <3>1, <3>2
  <2>5. b \in FreeBlocks /\ c \in FreeBlocks
    BY <1>2, <1>4, <2>2
  <2> HIDE DEF b
  <2>6. /\ b.start \in Nat /\ b.size \in Nat /\ c.start \in Nat /\ c.size \in Nat
    BY <2>5 DEF FreeBlocks
  <2> QED
    BY <1>1, <2>4, <2>6 DEF Precedes, Partition!Prefers, Algorithms, MA_FF, MA_BF, MA_WF
<1> QED
  BY <1>5, <1>6 DEF i, b

\* No process has the next pid.
LEMMA NextPidFresh ==
  ASSUME AllocInv, Asked
  PROVE  /\ pid' \in 1 .. MaxPid /\ Partition!Fresh(pid')
         /\ \A u : UsedList(u, pid) => \A x \in ToSet(u) : x.pid # pid'
<1>1. pid \in Nat /\ MaxPid \in Nat /\ pid' = pid + 1 /\ pid < MaxPid
  BY ScalarFacts DEF Asked
<1>2. ASSUME NEW u, UsedList(u, pid), NEW x \in ToSet(u) PROVE x.pid # pid'
  <2>1. u \in Seq(Processes) /\ \A k \in 1 .. Len(u) : u[k].pid <= pid
    BY <1>2 DEF UsedList
  <2>2. PICK k \in 1 .. Len(u) : u[k] = x
    BY <2>1, Elements
  <2>3. u[k].pid \in Nat
    <3>1. u[k] \in Processes
      BY <2>1, ElementOfSeq
    <3> QED
      BY <3>1 DEF Processes
  <2> QED
    BY <1>1, <2>1, <2>2, <2>3
<1>3. UsedList(allocated_block, pid)
  BY DEF AllocInv
<1>4. Partition!Fresh(pid')
  BY <1>2, <1>3 DEF Partition!Fresh
<1> QED
  BY <1>1, <1>2, <1>4

\* Compaction packs the processes below the free memory.
LEMMA CompactionPacks ==
  ASSUME AllocInv, free_block # <<>>, allocated_block # <<>>
  PROVE  /\ Partition!Packs(ToSet(MovedDown(allocated_block)), Total(allocated_block))
         /\ Total(allocated_block) \in 1 .. mem_size - 1
         /\ UsedList(MovedDown(allocated_block), pid)
<1> DEFINE u == allocated_block
           v == MovedDown(allocated_block)
           k == Total(allocated_block)
<1>1. /\ FreeList(free_block) /\ UsedList(u, pid) /\ mem_size \in Nat
      /\ Memory(free_block, u, mem_size)
  BY ScalarFacts DEF AllocInv
<1>2. u \in Seq(Processes)
  BY <1>1 DEF UsedList
<1>3. /\ v \in Seq(Processes) /\ Len(v) = Len(u)
      /\ \A j \in 1 .. Len(u) : /\ v[j].pid = u[j].pid /\ v[j].size = u[j].size
                                /\ v[j].r_size = u[j].r_size
      /\ Apart(ToSet(v)) /\ \A c \in ToSet(v) : End(c) <= k
      /\ \A a \in 0 .. k - 1 : Covers(ToSet(v), a)
  BY <1>2, Packed
<1>4. k \in 1 .. mem_size - 1 /\ UsedList(v, pid)
  BY <1>1, CompactedMemory
<1> HIDE DEF v, k
<1>5. /\ \A j \in 1 .. Len(u) : u[j] \in ToSet(u) /\ v[j] \in ToSet(v)
      /\ \A c \in ToSet(u) : \E j \in 1 .. Len(u) : u[j] = c
      /\ \A c \in ToSet(v) : \E j \in 1 .. Len(u) : v[j] = c
      /\ ToSet(v) \subseteq Processes
  BY <1>2, <1>3, Elements
<1>6. \A x \in ToSet(u) : \E y \in ToSet(v) :
        y.pid = x.pid /\ y.size = x.size /\ y.r_size = x.r_size
  BY <1>3, <1>5
<1>7. \A y \in ToSet(v) : \E x \in ToSet(u) :
        y.pid = x.pid /\ y.size = x.size /\ y.r_size = x.r_size
  BY <1>3, <1>5
<1>8. \A x, y \in ToSet(v) : x # y => End(x) <= y.start \/ End(y) <= x.start
  BY <1>3 DEF Apart, Disjoint
<1>9. \A a \in 0 .. k - 1 : \E y \in ToSet(v) : y.start <= a /\ a < End(y)
  BY <1>3 DEF Covers, Holds, End
<1>10. Partition!Owned = Processes
  BY DEF Partition!Owned, Processes
<1>11. \A b : Partition!End(b) = End(b)
  BY DEF Partition!End, End
<1>12. Partition!Packs(ToSet(v), k)
  BY <1>3, <1>4, <1>5, <1>6, <1>7, <1>8, <1>9, <1>10, <1>11 DEF Partition!Packs
<1> QED
  BY <1>4, <1>12 DEF v, k

\* The search that finds nothing is right.
LEMMA NothingFits ==
  ASSUME AllocInv, NEW n \in Requests, FirstFit(free_block, n) = 0
  PROVE  Partition!Fitting(n) = {}
<1>1. free_block \in Seq(FreeBlocks)
  BY DEF AllocInv, FreeList
<1>2. \A k \in 1 .. Len(free_block) : ~(free_block[k].size >= n)
  BY <1>1, FirstFitFound
<1>3. \A c \in ToSet(free_block) : \E k \in 1 .. Len(free_block) : free_block[k] = c
  BY <1>1, Elements
<1> QED
  BY <1>2, <1>3 DEF Partition!Fitting

\* Command 1 is Resize.
LEMMA ResizeRefines ==
  ASSUME AllocInv, NEW size \in Sizes, set_mem_size(size)
  PROVE  Partition!Resize(size)
<1>1. /\ free_block = <<Block(0, mem_size)>> /\ allocated_block = <<>>
      /\ allocated_block' = <<>> /\ mem_size' = size /\ ma_algorithm' = ma_algorithm
  BY DEF AllocInv, Untouched, set_mem_size
<1>2. free_block' = <<Block(0, size)>>
  BY ResizeKeeps
<1>3. ToSet(<<>>) = {} /\ \A b : ToSet(<<b>>) = {b}
  BY DEF ToSet
<1>4. \A m : {Block(0, m)} = Partition!Whole(m)
  BY DEF Partition!Whole, Block
<1> QED
  BY <1>1, <1>2, <1>3, <1>4 DEF Partition!Resize

\* Command 3 with a block is Place, of a block its algorithm prefers.
LEMMA PlaceRefines ==
  ASSUME AllocInv, NEW n \in Requests, new_process(n)
  PROVE  \E p \in 1 .. MaxPid, b \in ToSet(free_block) : Partition!Place(p, n, b)
<1> DEFINE b == free_block[FirstFit(free_block, n)]
<1>1. Asked /\ FirstFit(free_block, n) # 0 /\ UNCHANGED <<mem_size, ma_algorithm>>
  BY DEF new_process
<1>2. /\ b \in Partition!Fitting(n) /\ b \in ToSet(free_block)
      /\ \A c \in Partition!Fitting(n) : Partition!Prefers(b, c)
  BY <1>1, FirstPreferred
<1>3. pid' \in 1 .. MaxPid /\ Partition!Fresh(pid')
  BY <1>1, NextPidFresh
<1>4. /\ ToSet(free_block') = (ToSet(free_block) \ {b}) \cup Partition!Left(b, n)
      /\ ToSet(allocated_block') = ToSet(allocated_block) \cup {Partition!Entry(pid', b, n)}
  BY NewProcessKeeps
<1> HIDE DEF b
<1>5. Partition!Place(pid', n, b)
  BY <1>1, <1>2, <1>3, <1>4 DEF Partition!Place
<1> QED
  BY <1>2, <1>3, <1>5

\* Command 3 with compaction is CompactAndPlace.
LEMMA CompactAndPlaceRefines ==
  ASSUME AllocInv, NEW n \in Requests, new_process_compacting(n)
  PROVE  Partition!Compaction
<1> DEFINE top == Total(allocated_block)
           u == ToSet(MovedDown(allocated_block))
           b == Block(top, mem_size - top)
           e == Partition!Entry(pid', b, n)
<1>1. /\ Asked /\ FirstFit(free_block, n) = 0 /\ free_block # <<>> /\ allocated_block # <<>>
      /\ UNCHANGED <<mem_size, ma_algorithm>>
  BY DEF new_process_compacting
<1>2. /\ b.size >= n /\ ToSet(free_block') = Partition!Left(b, n)
      /\ ToSet(allocated_block') = u \cup {e}
  BY CompactingKeeps
<1>3. /\ Partition!Packs(u, top) /\ top \in 1 .. mem_size - 1
      /\ UsedList(MovedDown(allocated_block), pid)
  BY <1>1, CompactionPacks
<1>4. Partition!Fresh(pid') /\ \A x \in u : x.pid # pid'
  BY <1>1, <1>3, NextPidFresh
<1>5. Partition!Fitting(n) = {}
  BY <1>1, NothingFits
<1>6. e.pid = pid'
  BY DEF Partition!Entry
<1>7. b = Partition!Above(top) /\ mem_size - top >= n
  BY <1>2 DEF Partition!Above, Block
<1> HIDE DEF e, u, b, top
<1>8. e \in ToSet(allocated_block') /\ ToSet(allocated_block') \ {e} = u
  BY <1>2, <1>4, <1>6
<1>9. Partition!CompactAndPlace(e.pid, n, top, ToSet(allocated_block') \ {e})
  BY <1>1, <1>2, <1>3, <1>4, <1>5, <1>6, <1>7, <1>8 DEF Partition!CompactAndPlace, e
<1> QED
  BY <1>3, <1>8, <1>9 DEF Partition!Compaction

\* Command 3 without room packs the processes and leaves one free block above.
LEMMA RefusalCompacts ==
  ASSUME AllocInv, NEW n \in Requests, new_process_failing(n)
  PROVE  FutileCompaction
<1> DEFINE top == Total(allocated_block)
           u == ToSet(MovedDown(allocated_block))
           b == Block(top, mem_size - top)
<1>1. /\ Asked /\ FirstFit(free_block, n) = 0 /\ free_block # <<>> /\ allocated_block # <<>>
      /\ UNCHANGED <<mem_size, ma_algorithm>>
  BY DEF new_process_failing
<1>2. ~(b.size >= n) /\ ToSet(free_block') = {b} /\ ToSet(allocated_block') = u
  BY FailingKeeps
<1>3. Partition!Packs(u, top) /\ top \in 1 .. mem_size - 1
  BY <1>1, CompactionPacks
<1>4. b = Partition!Above(top)
  BY DEF Partition!Above, Block
<1> HIDE DEF u, b, top
<1> QED
  BY <1>2, <1>3, <1>4 DEF FutileCompaction

\* Command 4 is GiveBack: the block grows by its free neighbours.
LEMMA GiveBackRefines ==
  ASSUME AllocInv, NEW p, kill_process(p)
  PROVE  \E x \in ToSet(allocated_block) : Partition!GiveBack(x)
<1> DEFINE x == allocated_block[find_process(p)]
           F == ToSet(free_block)
           G == ToSet(free_block')
<1>1. /\ AllocInv' /\ x \in ToSet(allocated_block)
      /\ ToSet(allocated_block') = ToSet(allocated_block) \ {x}
      /\ \A a \in Int : Covers(G, a) <=> Covers(F, a) \/ Holds(x, a)
  BY KillKeeps
<1>2. UNCHANGED <<mem_size, ma_algorithm>>
  BY DEF kill_process
<1> HIDE DEF x
<1>3. F \in SUBSET FreeBlocks /\ Apart(F) /\ Separated(F)
  BY Elements DEF AllocInv, FreeList, Memory, Fills
<1>4. G \in SUBSET FreeBlocks /\ Apart(G) /\ Separated(G)
  <2>1. FreeList(free_block') /\ Memory(free_block', allocated_block', mem_size')
    BY <1>1 DEF AllocInv
  <2> QED
    BY <2>1, Elements DEF FreeList, Memory, Fills
<1>5. x.start \in Nat /\ x.size \in Nat \ {0} /\ \A c \in F : Disjoint(c, x)
  <2>1. Solid(ToSet(allocated_block))
    BY UsedElements DEF AllocInv
  <2>2. Fills(F, ToSet(allocated_block), mem_size)
    BY DEF AllocInv, Memory
  <2> QED
    BY <1>1, <2>1, <2>2 DEF Solid, Fills
<1> DEFINE below == {b \in F : End(b) = x.start}
           above == {b \in F : b.start = End(x)}
           s == IF below = {} THEN x.start ELSE (CHOOSE b \in below : TRUE).start
           t == IF above = {} THEN End(x) ELSE End(CHOOSE b \in above : TRUE)
<1>6. G = (F \ (below \cup above)) \cup {Block(s, t - s)}
  <2> HIDE DEF F, G
  <2> QED
    BY <1>1, <1>3, <1>4, <1>5, GivingBack
<1>7. Partition!GiveBack(x)
  BY <1>1, <1>2, <1>6 DEF Partition!GiveBack, Partition!End, End, Block
<1> QED
  BY <1>1, <1>7

\* Every command maps to a step of the partition, to a futile compaction or to none.
LEMMA CommandRefines ==
  ASSUME AllocInv, [Next]_vars
  PROVE  [FutileCompaction \/ Partition!Next]_(Partition!vars)
<1>1. CASE \E size \in Sizes : set_mem_size(size)
  BY <1>1, ResizeRefines DEF Partition!Next
<1>2. CASE \E algorithm \in {MA_FF, MA_BF, MA_WF} : set_algorithm(algorithm)
  <2>1. PICK a \in Algorithms : set_algorithm(a)
    BY <1>2 DEF Algorithms
  <2>2. /\ ToSet(free_block') = ToSet(free_block)
        /\ ma_algorithm' = a /\ UNCHANGED <<mem_size, allocated_block>>
    BY <2>1, AlgorithmKeeps DEF set_algorithm
  <2>3. Partition!SetPolicy(a)
    BY <2>2 DEF Partition!SetPolicy
  <2> QED
    BY <2>3 DEF Partition!Next, Partition!Policies, Algorithms, MA_FF, MA_BF, MA_WF
<1>3. CASE \E n \in Requests : new_process(n)
  BY <1>3, PlaceRefines DEF Partition!Next
<1>4. CASE \E n \in Requests : new_process_compacting(n)
  BY <1>4, CompactAndPlaceRefines DEF Partition!Next
<1>5. CASE \E n \in Requests : new_process_failing(n)
  BY <1>5, RefusalCompacts
<1>6. CASE \E p \in 1 .. MaxPid : kill_process(p)
  BY <1>6, GiveBackRefines DEF Partition!Next
<1>7. CASE \/ \E n \in Requests : new_process_crashing(n)
           \/ no_effect \/ display_mem_usage \/ Exit \/ UNCHANGED vars
  BY <1>7, QuietKeeps DEF Partition!vars
<1> QED
  BY <1>1, <1>2, <1>3, <1>4, <1>5, <1>6, <1>7 DEF Next

\* Placement, compaction and merging are those of the partition, and a compaction
\* before a refusal loses nothing, for every memory size, algorithm and sequence of
\* commands.
THEOREM PartitionRefinement == Spec => ImplementsPartition
<1>1. Init => Partition!Init
  <2> SUFFICES ASSUME Init PROVE Partition!Init
    OBVIOUS
  <2>1. ToSet(<<>>) = {} /\ \A b : ToSet(<<b>>) = {b}
    BY DEF ToSet
  <2> QED
    BY <2>1 DEF Init, Partition!Init, Partition!Whole, Block, MA_FF, DEFAULT_MEM_START
<1>2. AllocInv /\ [Next]_vars => [FutileCompaction \/ Partition!Next]_(Partition!vars)
  BY CommandRefines
<1> QED
  BY <1>1, <1>2, Allocated, PTL DEF Spec, ImplementsPartition
=============================================================================
