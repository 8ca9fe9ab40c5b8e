---------------------------- MODULE Ext2VolumeProofs ----------------------------
(***************************************************************************)
(* What the helpers of the file system do to a sound volume, for any size  *)
(* of its disk, its directory blocks and its bitmaps: blocks keep one      *)
(* owner, counters agree with bitmaps, directories fit together.           *)
(***************************************************************************)
EXTENDS Ext2, ListLemmas, FiniteSetTheorems

(***************************************************************************)
(* Folds.  The helpers walk through blocks and slots with folds whose      *)
(* steps are these; whatever they return, it is where the walk ends.       *)
(***************************************************************************)
Step(kind, a, v, k) ==
  CASE kind = "free"  -> freeDataBlock(v, a[k])
    [] kind = "grow"  -> [allocDataBlock(v) EXCEPT !.inode[a].i_block = Append(@, NewBlock(v))]
    [] kind = "rm"    -> rmFreesBlock(v, a, k)
    [] kind = "rmdir" -> rmdirFreesBlock(v, a, k)
    [] kind = "child" -> RemoveChild(v, a, <<1, k - 1>>)

\* A fold over sets of indices, the greatest last.
Steps(it, kind, a, base, n) ==
  it = [x \in SUBSET (1 .. n) |->
         IF x = {} THEN base ELSE Step(kind, a, it[x \ {Max(x)}], Max(x))]
Fold(kind, a, base, n) == (CHOOSE it : Steps(it, kind, a, base, n))[1 .. n]
Walk(h, kind, a, base, n) == h[0] = base /\ \A k \in 1 .. n : h[k] = Step(kind, a, h[k - 1], k)

\* There is such a fold.
LEMMA StepsExist ==
  ASSUME NEW kind, NEW a, NEW base, NEW n \in Nat
  PROVE  \E it : Steps(it, kind, a, base, n)
<1> DEFINE Below(k) == SUBSET (1 .. k)
           Right(it, k) ==
             \A s \in Below(k) :
               it[s] = IF s = {} THEN base ELSE Step(kind, a, it[s \ {Max(s)}], Max(s))
           S == {k \in Nat : \E it : Right(it, k)}
<1>1. \A k \in Nat : \A s \in Below(k) : s # {} => Max(s) \in s /\ (\A y \in s : Max(s) >= y)
  BY Greatest
<1>2. 0 \in S
  <2> DEFINE it == [s \in Below(0) |-> base]
  <2>1. \A s \in Below(0) : s = {}
    OBVIOUS
  <2>2. Right(it, 0)
    BY <2>1
  <2> HIDE DEF it, Right
  <2> QED
    BY <2>2
<1>3. ASSUME NEW k \in Nat, k \in S PROVE k + 1 \in S
  <2>1. PICK g : Right(g, k)
    BY <1>3
  <2> DEFINE it == [s \in Below(k + 1) |->
                     IF s \in Below(k) THEN g[s] ELSE Step(kind, a, g[s \ {k + 1}], k + 1)]
  <2>2. \A s \in Below(k + 1) : s \ {k + 1} \in Below(k)
    OBVIOUS
  <2>3. ASSUME NEW s \in Below(k + 1)
        PROVE it[s] = IF s = {} THEN base ELSE Step(kind, a, it[s \ {Max(s)}], Max(s))
    <3>1. CASE s \in Below(k)
      <4>1. it[s] = g[s]
        BY <3>1
      <4>2. s \ {Max(s)} \in Below(k) /\ s \ {Max(s)} \in Below(k + 1)
        BY <3>1
      <4>3. it[s \ {Max(s)}] = g[s \ {Max(s)}]
        BY <4>2
      <4>4. g[s] = IF s = {} THEN base ELSE Step(kind, a, g[s \ {Max(s)}], Max(s))
        BY <2>1, <3>1
      <4> QED
        BY <4>1, <4>3, <4>4
    <3>2. CASE s \notin Below(k)
      <4>1. k + 1 \in s /\ s # {}
        BY <3>2
      <4>2. Max(s) = k + 1
        <5>1. Max(s) \in s /\ Max(s) >= k + 1
          BY <1>1, <4>1, k + 1 \in Nat
        <5>2. \A x \in s : x \in Int /\ x <= k + 1
          OBVIOUS
        <5> HIDE DEF Below
        <5> QED
          BY <5>1, <5>2
      <4>3. it[s] = Step(kind, a, g[s \ {k + 1}], k + 1)
        BY <3>2
      <4>4. it[s \ {k + 1}] = g[s \ {k + 1}]
        BY <2>2
      <4> QED
        BY <4>1, <4>2, <4>3, <4>4
    <3> QED
      BY <3>1, <3>2
  <2> HIDE DEF it
  <2>4. Right(it, k + 1)
    BY <2>3
  <2> HIDE DEF Right
  <2> QED
    BY <2>4
<1>4. n \in S
  <2> HIDE DEF S
  <2> QED
    BY <1>2, <1>3, NaturalSteps
<1>5. PICK g : Right(g, n)
  BY <1>4
<1> DEFINE it == [s \in Below(n) |-> g[s]]
<1>6. \A s \in Below(n) : s \ {Max(s)} \in Below(n)
  OBVIOUS
<1>7. \A s \in Below(n) : it[s] = IF s = {} THEN base ELSE Step(kind, a, it[s \ {Max(s)}], Max(s))
  BY <1>5, <1>6
<1>8. it = [s \in Below(n) |-> it[s]]
  OBVIOUS
<1> HIDE DEF it
<1>9. Steps(it, kind, a, base, n)
  BY <1>7, <1>8 DEF Steps
<1> QED
  BY <1>9

\* A fold chosen by its equation ends where a walk of n steps ends.
LEMMA WalkOfSteps ==
  ASSUME NEW kind, NEW a, NEW base, NEW n \in Nat
  PROVE  \E h : Walk(h, kind, a, base, n) /\ Fold(kind, a, base, n) = h[n]
<1> DEFINE f == CHOOSE it : Steps(it, kind, a, base, n)
           h == [k \in 0 .. n |-> f[Upto(k)]]
<1>1. Steps(f, kind, a, base, n)
  BY StepsExist
<1> HIDE DEF f
<1>2. h[0] = base
  BY <1>1, IndexPrefix DEF Steps
<1>3. ASSUME NEW k \in 1 .. n PROVE h[k] = Step(kind, a, h[k - 1], k)
  <2>1. k \in 0 .. n /\ k - 1 \in 0 .. n
    OBVIOUS
  <2>2. Upto(k) \in SUBSET (1 .. n) /\ Upto(k) # {} /\ Max(Upto(k)) = k /\ Upto(k) \ {k} = Upto(k - 1)
    BY <2>1, IndexPrefix
  <2>3. f[Upto(k)] = Step(kind, a, f[Upto(k - 1)], k)
    BY <1>1, <2>2 DEF Steps
  <2> QED
    BY <2>1, <2>3
<1>4. f[1 .. n] = h[n]
  BY DEF Upto
<1> HIDE DEF h
<1>5. Walk(h, kind, a, base, n)
  BY <1>2, <1>3 DEF Walk
<1> QED
  BY <1>4, <1>5 DEF f, Fold

\* The helpers are such folds.
LEMMA FreeWalk ==
  ASSUME NEW v, NEW B, NEW blocks \in Seq(B)
  PROVE  \E h : /\ Walk(h, "free", blocks, v, Len(blocks))
                /\ freeDataBlocks(v, blocks) = h[Len(blocks)]
<1> DEFINE n == Len(blocks)
           Rec(it) == [x \in SUBSET DOMAIN blocks |->
             IF x = {} THEN v ELSE freeDataBlock(it[x \ {Max(x)}], blocks[Max(x)])]
<1>1. n \in Nat /\ DOMAIN blocks = 1 .. n
  BY LenProperties
<1>2. freeDataBlocks(v, blocks) = (CHOOSE it : it = Rec(it))[DOMAIN blocks]
  BY DEF freeDataBlocks, FoldLeft, MapThenFoldSet
<1>3. \A it : Steps(it, "free", blocks, v, n) <=> it = Rec(it)
  BY <1>1 DEF Steps, Step
<1> HIDE DEF Rec
<1>4. freeDataBlocks(v, blocks) = Fold("free", blocks, v, n)
  BY <1>1, <1>2, <1>3 DEF Fold
<1> QED
  BY <1>1, <1>4, WalkOfSteps

\* The loop that takes blocks for a text.
LEMMA GrowWalk ==
  ASSUME NEW v, NEW i, NEW n \in Nat
  PROVE  \E h : Walk(h, "grow", i, v, n) /\ Grow(v, i, n) = h[n]
<1> DEFINE s == [k \in 1 .. n |-> k]
           Rec(it) == [x \in SUBSET DOMAIN s |->
             IF x = {} THEN v
             ELSE [allocDataBlock(it[x \ {Max(x)}]) EXCEPT !.inode[i].i_block =
                     Append(@, NewBlock(it[x \ {Max(x)}]))]]
<1>1. DOMAIN s = 1 .. n
  OBVIOUS
<1>2. Grow(v, i, n) = (CHOOSE it : it = Rec(it))[DOMAIN s]
  BY DEF Grow, FoldLeft, MapThenFoldSet
<1>3. \A it : Steps(it, "grow", i, v, n) <=> it = Rec(it)
  BY <1>1 DEF Steps, Step
<1> HIDE DEF Rec
<1>4. Grow(v, i, n) = Fold("grow", i, v, n)
  BY <1>1, <1>2, <1>3 DEF Fold
<1> QED
  BY <1>1, <1>4, WalkOfSteps

\* The loops of rm and rmdir over the blocks of a directory.
RmWalked(v, d) == FoldLeft(LAMBDA u, k : rmFreesBlock(u, d, k), v, EachBlock(v, d))
RmdirWalked(v, d) == FoldLeft(LAMBDA u, k : rmdirFreesBlock(u, d, k), v, EachBlock(v, d))

\* They are walks too.
LEMMA TrimWalks ==
  ASSUME NEW v, NEW d, Len(v.inode[d].i_block) \in Nat
  PROVE  /\ \E h : /\ Walk(h, "rm", d, v, Len(v.inode[d].i_block))
                   /\ RmWalked(v, d) = h[Len(v.inode[d].i_block)]
         /\ \E h : /\ Walk(h, "rmdir", d, v, Len(v.inode[d].i_block))
                   /\ RmdirWalked(v, d) = h[Len(v.inode[d].i_block)]
<1> SUFFICES ASSUME NEW n \in Nat, n = Len(v.inode[d].i_block)
             PROVE  /\ \E h : Walk(h, "rm", d, v, n) /\ RmWalked(v, d) = h[n]
                    /\ \E h : Walk(h, "rmdir", d, v, n) /\ RmdirWalked(v, d) = h[n]
  OBVIOUS
<1> DEFINE s == [k \in 1 .. n |-> k]
           RecRm(it) == [x \in SUBSET DOMAIN s |->
             IF x = {} THEN v ELSE rmFreesBlock(it[x \ {Max(x)}], d, s[Max(x)])]
           RecDir(it) == [x \in SUBSET DOMAIN s |->
             IF x = {} THEN v ELSE rmdirFreesBlock(it[x \ {Max(x)}], d, s[Max(x)])]
<1>1. DOMAIN s = 1 .. n /\ s = EachBlock(v, d)
  BY DEF EachBlock
<1>2. FoldLeft(LAMBDA u, k : rmFreesBlock(u, d, k), v, s)
        = (CHOOSE it : it = RecRm(it))[DOMAIN s]
  BY DEF FoldLeft, MapThenFoldSet
<1>3. FoldLeft(LAMBDA u, k : rmdirFreesBlock(u, d, k), v, s)
        = (CHOOSE it : it = RecDir(it))[DOMAIN s]
  BY DEF FoldLeft, MapThenFoldSet
<1>4. \A x \in SUBSET (1 .. n) : x # {} => s[Max(x)] = Max(x)
  BY Greatest
<1>5. \A it : Steps(it, "rm", d, v, n) <=> it = RecRm(it)
  BY <1>1, <1>4 DEF Steps, Step
<1>6. \A it : Steps(it, "rmdir", d, v, n) <=> it = RecDir(it)
  BY <1>1, <1>4 DEF Steps, Step
<1> HIDE DEF RecRm, RecDir
<1>7. FoldLeft(LAMBDA u, k : rmFreesBlock(u, d, k), v, s) = Fold("rm", d, v, n)
  BY <1>1, <1>2, <1>5 DEF Fold
<1>8. FoldLeft(LAMBDA u, k : rmdirFreesBlock(u, d, k), v, s) = Fold("rmdir", d, v, n)
  BY <1>1, <1>3, <1>6 DEF Fold
<1> HIDE DEF s
<1>9. \E h : /\ Walk(h, "rm", d, v, n)
             /\ FoldLeft(LAMBDA u, k : rmFreesBlock(u, d, k), v, s) = h[n]
  <2>1. PICK h : Walk(h, "rm", d, v, n) /\ Fold("rm", d, v, n) = h[n]
    BY WalkOfSteps
  <2> QED
    BY <2>1, <1>7
<1>10. \E h : /\ Walk(h, "rmdir", d, v, n)
              /\ FoldLeft(LAMBDA u, k : rmdirFreesBlock(u, d, k), v, s) = h[n]
  <2>1. PICK h : Walk(h, "rmdir", d, v, n) /\ Fold("rmdir", d, v, n) = h[n]
    BY WalkOfSteps
  <2> QED
    BY <2>1, <1>8
<1>11. s = EachBlock(v, d)
  BY <1>1
<1>12. /\ RmWalked(v, d) = FoldLeft(LAMBDA u, k : rmFreesBlock(u, d, k), v, s)
       /\ RmdirWalked(v, d) = FoldLeft(LAMBDA u, k : rmdirFreesBlock(u, d, k), v, s)
  BY <1>11 DEF RmWalked, RmdirWalked
<1> QED
  BY <1>9, <1>10, <1>12

\* The loop of rmdir over what a directory holds.
ChildrenWalked(v, i) ==
  FoldLeft(LAMBDA u, s : RemoveChild(u, i, <<1, s - 1>>), v,
           [s \in 1 .. DIR_ENTRY_NUM_PER_BLOCK |-> s])

\* The loop that removes what a directory holds, slot by slot.
LEMMA ChildWalk ==
  ASSUME NEW v, NEW i
  PROVE  \E h : /\ Walk(h, "child", i, v, DIR_ENTRY_NUM_PER_BLOCK)
                /\ ChildrenWalked(v, i) = h[DIR_ENTRY_NUM_PER_BLOCK]
<1> SUFFICES ASSUME NEW n \in Nat, n = DIR_ENTRY_NUM_PER_BLOCK
             PROVE  \E h : Walk(h, "child", i, v, n) /\ ChildrenWalked(v, i) = h[n]
  BY Zenon, Ext2Assumption
<1> DEFINE s == [k \in 1 .. n |-> k]
           Rec(it) == [x \in SUBSET DOMAIN s |->
             IF x = {} THEN v ELSE RemoveChild(it[x \ {Max(x)}], i, <<1, s[Max(x)] - 1>>)]
<1>1. DOMAIN s = 1 .. n
  OBVIOUS
<1>2. FoldLeft(LAMBDA u, k : RemoveChild(u, i, <<1, k - 1>>), v, s)
        = (CHOOSE it : it = Rec(it))[DOMAIN s]
  BY DEF FoldLeft, MapThenFoldSet
<1>3. \A x \in SUBSET (1 .. n) : x # {} => s[Max(x)] = Max(x)
  BY Greatest
<1>4. \A it : Steps(it, "child", i, v, n) <=> it = Rec(it)
  BY <1>1, <1>3 DEF Steps, Step
<1> HIDE DEF Rec
<1>5. FoldLeft(LAMBDA u, k : RemoveChild(u, i, <<1, k - 1>>), v, s) = Fold("child", i, v, n)
  BY <1>1, <1>2, <1>4 DEF Fold
<1> HIDE DEF s
<1>6. \E h : /\ Walk(h, "child", i, v, n)
             /\ FoldLeft(LAMBDA u, k : RemoveChild(u, i, <<1, k - 1>>), v, s) = h[n]
  <2>1. PICK h : Walk(h, "child", i, v, n) /\ Fold("child", i, v, n) = h[n]
    BY WalkOfSteps
  <2> QED
    BY <2>1, <1>5
<1>7. ChildrenWalked(v, i) = FoldLeft(LAMBDA u, k : RemoveChild(u, i, <<1, k - 1>>), v, s)
  BY DEF s, ChildrenWalked
<1> QED
  BY <1>6, <1>7

(***************************************************************************)
(* Volumes, and what the allocators find.                                  *)
(***************************************************************************)
InodeRecords == [i_mode : SUBSET {"r", "w", "x"}, i_size : Int, i_block : Seq(Blocks)]
Volumes ==
  [block_bits : SUBSET Blocks, free_blocks_count : Int, last_alloc_block : Slots,
   inode_bits : SUBSET Inodes, free_inodes_count : Int, last_alloc_inode : Slots,
   inode : [Inodes -> InodeRecords], block : [Blocks -> [Slots -> Cells]]]

\* Changes that keep the type.
LEMMA BlockBitsType ==
  ASSUME NEW v \in Volumes, NEW bits \in SUBSET Blocks, NEW n \in Int, NEW k \in Slots
  PROVE  [v EXCEPT !.block_bits = bits, !.free_blocks_count = n, !.last_alloc_block = k] \in Volumes
BY DEF Volumes

\* The same for the inodes.
LEMMA InodeBitsType ==
  ASSUME NEW v \in Volumes, NEW bits \in SUBSET Inodes, NEW n \in Int, NEW k \in Slots
  PROVE  [v EXCEPT !.inode_bits = bits, !.free_inodes_count = n, !.last_alloc_inode = k] \in Volumes
BY DEF Volumes

\* The first bit that no scan looks at.
Top == DIR_ENTRY_NUM_PER_BLOCK * BYTE_BITS

\* What is assumed of the sizes.
LEMMA SizeFacts ==
  /\ DIR_ENTRY_NUM_PER_BLOCK \in Nat /\ DIR_ENTRY_NUM_PER_BLOCK > 2
  /\ Top \in Nat /\ DATA_BLOCK_NUM \in Nat /\ INODE_NUM \in Nat
  /\ DATA_BLOCK_NUM > Top /\ INODE_NUM > Top
<1>1. /\ DIR_ENTRY_NUM_PER_BLOCK \in Nat /\ DIR_ENTRY_NUM_PER_BLOCK > 2 /\ BYTE_BITS \in Nat
      /\ DATA_BLOCK_NUM \in Nat /\ INODE_NUM \in Nat
  BY Zenon, Ext2Assumption
<1>2. DATA_BLOCK_NUM > Top /\ INODE_NUM > Top
  BY Zenon, Ext2Assumption DEF Top
<1>3. Top \in Nat
  BY <1>1 DEF Top
<1> QED
  BY <1>1, <1>2, <1>3

\* A set of natural numbers that is not empty has its least element.
LEMMA LeastOne ==
  ASSUME NEW S \in SUBSET Nat, S # {}
  PROVE  LeastOf(S) \in S
BY LeastNatural DEF LeastOf

\* The bits in reach.
LEMMA InReach ==
  ASSUME NEW used
  PROVE  \A b : b \in Reachable(used) <=> b \notin used /\ \E k \in Slots : b \in Bits(k)
<1> DEFINE U == UNION {Bits(k) : k \in Slots}
<1>1. \A b : b \in U <=> \E k \in Slots : b \in Bits(k)
  OBVIOUS
<1>2. Reachable(used) = U \ used
  BY DEF Reachable
<1> HIDE DEF U
<1> QED
  BY <1>1, <1>2

\* The scan finds a free bit if one is in reach.
LEMMA ScanFinds ==
  ASSUME NEW used, NEW byte \in Slots, Reachable(used) # {}
  PROVE  /\ NextFree(used, byte) \in Reachable(used)
         /\ NextFree(used, byte) \in 0 .. Top - 1
         /\ NextFree(used, byte) \notin used
         /\ ByteOf(NextFree(used, byte)) \in Slots
<1> DEFINE D == DIR_ENTRY_NUM_PER_BLOCK
           At(d) == (byte + d) % D
           Away == {d \in Slots : ~ByteFull(used, At(d))}
<1>1. D \in Nat /\ D > 2 /\ byte \in Nat /\ byte < D
  BY SizeFacts DEF Slots
<1>2. \A d \in Slots : At(d) \in Slots
  BY <1>1 DEF Slots
<1>3. Away # {}
  <2>1. PICK k \in Slots : Bits(k) \ used # {}
    BY InReach
  <2>2. PICK d \in Slots : At(d) = k
    <3>1. k \in Nat /\ k < D
      BY <1>1 DEF Slots
    <3>2. CASE k >= byte
      <4>1. k - byte \in Slots /\ byte + (k - byte) = k /\ k % D = k
        BY <1>1, <3>1, <3>2 DEF Slots
      <4> QED
        BY <4>1
    <3>3. CASE k < byte
      <4>1. k - byte + D \in Slots /\ byte + (k - byte + D) = k + D /\ (k + D) % D = k
        BY <1>1, <3>1, <3>3 DEF Slots
      <4> QED
        BY <4>1
    <3> QED
      BY <1>1, <3>1, <3>2, <3>3
  <2> QED
    BY <2>1, <2>2 DEF ByteFull
<1>4. LeastOf(Away) \in Away
  <2>1. Away \in SUBSET Nat
    BY DEF Slots
  <2> HIDE DEF Away
  <2> QED
    BY <1>3, <2>1, LeastOne
<1> DEFINE k == At(LeastOf(Away))
<1>5. k \in Slots /\ Bits(k) \ used # {}
  BY <1>2, <1>4 DEF ByteFull
<1>6. NextFree(used, byte) = LeastOf(Bits(k) \ used)
  BY DEF NextFree
<1> HIDE DEF k
<1>7. LeastOf(Bits(k) \ used) \in Bits(k) \ used
  <2>1. Bits(k) \ used \in SUBSET Nat
    BY SizeFacts DEF Bits, Top
  <2> QED
    BY <1>5, <2>1, LeastOne
<1>8. NextFree(used, byte) \in Bits(k)
  BY <1>6, <1>7
<1>9. ByteOf(NextFree(used, byte)) = k
  BY <1>8 DEF Bits
<1> QED
  <2>1. NextFree(used, byte) \in Reachable(used) /\ NextFree(used, byte) \notin used
    BY <1>5, <1>6, <1>7, InReach
  <2>2. NextFree(used, byte) \in 0 .. Top - 1
    BY <1>8 DEF Bits, Top
  <2> QED
    BY <1>5, <1>9, <2>1, <2>2

\* What an allocated block changes.
LEMMA BlockAllocated ==
  ASSUME NEW v \in Volumes, Reachable(v.block_bits) # {}
  PROVE  /\ NewBlock(v) \in Blocks /\ NewBlock(v) \notin v.block_bits
         /\ NewBlock(v) \in Reachable(v.block_bits)
         /\ allocDataBlock(v) \in Volumes
         /\ allocDataBlock(v) =
              [v EXCEPT !.block_bits = v.block_bits \cup {NewBlock(v)},
                        !.free_blocks_count = v.free_blocks_count - 1,
                        !.last_alloc_block = ByteOf(NewBlock(v))]
<1> DEFINE b == NewBlock(v)
<1>1. v.last_alloc_block \in Slots /\ v.block_bits \in SUBSET Blocks /\ v.free_blocks_count \in Int
  BY DEF Volumes
<1>2. /\ b \in Reachable(v.block_bits) /\ b \notin v.block_bits /\ ByteOf(b) \in Slots
      /\ b \in 0 .. Top - 1
  BY <1>1, ScanFinds DEF NewBlock
<1>3. b \in Blocks
  BY <1>2, SizeFacts DEF Blocks
<1> HIDE DEF b
<1>4. allocDataBlock(v) = [v EXCEPT !.block_bits = v.block_bits \cup {b},
                             !.free_blocks_count = v.free_blocks_count - 1,
                             !.last_alloc_block = ByteOf(b)]
  BY DEF allocDataBlock, b, Volumes
<1>5. allocDataBlock(v) \in Volumes
  <2>1. v.block_bits \cup {b} \in SUBSET Blocks /\ v.free_blocks_count - 1 \in Int
    BY <1>1, <1>3
  <2> QED
    <3> DEFINE bits == v.block_bits \cup {b}
               n == v.free_blocks_count - 1
               k == ByteOf(b)
    <3>1. bits \in SUBSET Blocks /\ n \in Int /\ k \in Slots
      BY <1>2, <2>1
    <3>2. allocDataBlock(v) = [v EXCEPT !.block_bits = bits, !.free_blocks_count = n, !.last_alloc_block = k]
      BY <1>4
    <3> HIDE DEF bits, n, k
    <3>3. [v EXCEPT !.block_bits = bits, !.free_blocks_count = n, !.last_alloc_block = k] \in Volumes
      BY <3>1, BlockBitsType
    <3> QED
      BY <3>2, <3>3
<1> QED
  BY <1>2, <1>3, <1>4, <1>5 DEF b

\* What an allocated inode changes.
LEMMA InodeAllocated ==
  ASSUME NEW v \in Volumes, Reachable(v.inode_bits) # {}
  PROVE  /\ NewInode(v) \in Inodes /\ NewInode(v) \notin v.inode_bits
         /\ allocInode(v) \in Volumes
         /\ allocInode(v) =
              [v EXCEPT !.inode_bits = v.inode_bits \cup {NewInode(v)},
                        !.free_inodes_count = v.free_inodes_count - 1,
                        !.last_alloc_inode = ByteOf(NewInode(v))]
<1> DEFINE i == NewInode(v)
<1>1. v.last_alloc_inode \in Slots /\ v.inode_bits \in SUBSET Inodes /\ v.free_inodes_count \in Int
  BY DEF Volumes
<1>2. /\ i \in Reachable(v.inode_bits) /\ i \notin v.inode_bits /\ ByteOf(i) \in Slots
      /\ i \in 0 .. Top - 1
  BY <1>1, ScanFinds DEF NewInode
<1>3. i \in Inodes
  BY <1>2, SizeFacts DEF Inodes
<1> HIDE DEF i
<1>4. allocInode(v) = [v EXCEPT !.inode_bits = v.inode_bits \cup {i},
                         !.free_inodes_count = v.free_inodes_count - 1,
                         !.last_alloc_inode = ByteOf(i)]
  BY DEF allocInode, i, Volumes
<1>5. allocInode(v) \in Volumes
  <2>1. v.inode_bits \cup {i} \in SUBSET Inodes /\ v.free_inodes_count - 1 \in Int
    BY <1>1, <1>3
  <2> QED
    <3> DEFINE bits == v.inode_bits \cup {i}
               n == v.free_inodes_count - 1
               k == ByteOf(i)
    <3>1. bits \in SUBSET Inodes /\ n \in Int /\ k \in Slots
      BY <1>2, <2>1
    <3>2. allocInode(v) = [v EXCEPT !.inode_bits = bits, !.free_inodes_count = n, !.last_alloc_inode = k]
      BY <1>4
    <3> HIDE DEF bits, n, k
    <3>3. [v EXCEPT !.inode_bits = bits, !.free_inodes_count = n, !.last_alloc_inode = k] \in Volumes
      BY <3>1, InodeBitsType
    <3> QED
      BY <3>2, <3>3
<1> QED
  BY <1>2, <1>3, <1>4, <1>5 DEF i

(***************************************************************************)
(* Freeing.                                                                *)
(***************************************************************************)
\* The counters are what the bitmaps say.
BlocksCounted(v) == v.free_blocks_count = DATA_BLOCK_NUM - Cardinality(v.block_bits)
InodesCounted(v) == v.free_inodes_count = INODE_NUM - Cardinality(v.inode_bits)

\* No cell of the block looks like an entry.
NoEntries(cells) == \A s \in Slots : cells[s].type = 0 /\ cells[s].name = ""

\* The blocks of a list.
ListedIn(a) == {a[k] : k \in 1 .. Len(a)}

\* w is v with the blocks of S freed.
Freed(v, w, S) ==
  /\ w \in Volumes
  /\ w.block_bits = v.block_bits \ S
  /\ w.inode = v.inode /\ w.inode_bits = v.inode_bits
  /\ w.free_inodes_count = v.free_inodes_count
  /\ \A b \in Blocks \ S : w.block[b] = v.block[b]
  /\ \A b \in S : NoEntries(w.block[b])
  /\ BlocksCounted(v) => BlocksCounted(w)

\* There are finitely many of everything.
LEMMA BlocksFinite == IsFiniteSet(Blocks) /\ IsFiniteSet(Inodes) /\ IsFiniteSet(Slots)
<1>1. DATA_BLOCK_NUM - 1 \in Int /\ INODE_NUM - 1 \in Int /\ DIR_ENTRY_NUM_PER_BLOCK - 1 \in Int
  BY SizeFacts
<1> QED
  BY <1>1, FS_Interval DEF Blocks, Inodes, Slots

\* A volume with other blocks, or other inodes, is a volume.
LEMMA BlockDataType ==
  ASSUME NEW v \in Volumes, NEW bits \in SUBSET Blocks, NEW n \in Int,
         NEW data \in [Blocks -> [Slots -> Cells]]
  PROVE  [v EXCEPT !.block_bits = bits, !.free_blocks_count = n, !.block = data] \in Volumes
BY DEF Volumes

\* The inodes of it.
LEMMA InodeTableType ==
  ASSUME NEW v \in Volumes, NEW bits \in SUBSET Inodes, NEW n \in Int,
         NEW table \in [Inodes -> InodeRecords]
  PROVE  [v EXCEPT !.inode_bits = bits, !.free_inodes_count = n, !.inode = table] \in Volumes
BY DEF Volumes

\* What Entry makes is a cell.
LEMMA CellType ==
  ASSUME NEW i \in 0 .. INODE_NUM, NEW t \in {0, FILE, DIR, TEXT, TEXT_END},
         NEW n \in Names \cup Data \cup {"", ".", ".."}, NEW len \in {0, 1}
  PROVE  Entry(i, t, n, len) \in Cells
BY DEF Entry, Cells

\* What is left in a freed block are cells, and none is an entry.
LEMMA RemainsType ==
  ASSUME NEW cells \in [Slots -> Cells]
  PROVE  Remains(cells) \in [Slots -> Cells] /\ NoEntries(Remains(cells))
<1>1. NoEntry \in Cells
  <2>1. 0 \in 0 .. INODE_NUM /\ 0 \in {0, FILE, DIR, TEXT, TEXT_END} /\ 0 \in {0, 1}
        /\ "" \in Names \cup Data \cup {"", ".", ".."}
    BY SizeFacts
  <2> QED
    BY <2>1, CellType DEF NoEntry
<1>2. ASSUME NEW s \in Slots
      PROVE  Entry(IF cells[s].inode = 0 THEN 0 ELSE INODE_NUM, 0, "", cells[s].name_len) \in Cells
  <2>1. cells[s].name_len \in {0, 1}
    BY DEF Cells
  <2>2. (IF cells[s].inode = 0 THEN 0 ELSE INODE_NUM) \in 0 .. INODE_NUM
    BY SizeFacts
  <2> QED
    BY <2>1, <2>2, CellType
<1>3. Remains(cells) \in [Slots -> Cells]
  BY <1>1, <1>2 DEF Remains
<1>4. NoEntries(Remains(cells))
  BY DEF NoEntries, Remains, NoEntry, Entry
<1> QED
  BY <1>3, <1>4

\* Taking one away from a finite set of the bits.
LEMMA OneLess ==
  ASSUME NEW B, IsFiniteSet(B), NEW S \in SUBSET B, NEW b \in S
  PROVE  Cardinality(S \ {b}) = Cardinality(S) - 1 /\ Cardinality(S) \in Nat
<1>1. IsFiniteSet(S)
  BY FS_Subset
<1> QED
  BY <1>1, FS_RemoveElement, FS_CardinalityType

\* Adding one.
LEMMA OneMore ==
  ASSUME NEW B, IsFiniteSet(B), NEW S \in SUBSET B, NEW b \in B \ S
  PROVE  Cardinality(S \cup {b}) = Cardinality(S) + 1 /\ Cardinality(S) \in Nat
<1>1. IsFiniteSet(S)
  BY FS_Subset
<1> QED
  BY <1>1, FS_AddElement, FS_CardinalityType

\* Freeing a marked block.
LEMMA OneFreed ==
  ASSUME NEW v \in Volumes, NEW b \in v.block_bits
  PROVE  Freed(v, freeDataBlock(v, b), {b})
<1> DEFINE w == freeDataBlock(v, b)
           bits == v.block_bits \ {b}
           n == v.free_blocks_count + 1
           data == [v.block EXCEPT ![b] = Remains(v.block[b])]
<1>1. /\ v.block_bits \in SUBSET Blocks /\ b \in Blocks /\ v.free_blocks_count \in Int
      /\ v.block \in [Blocks -> [Slots -> Cells]]
  BY DEF Volumes
<1>2. v.block[b] \in [Slots -> Cells]
  BY <1>1
<1>3. Remains(v.block[b]) \in [Slots -> Cells] /\ NoEntries(Remains(v.block[b]))
  BY <1>2, RemainsType
<1>4. bits \in SUBSET Blocks /\ n \in Int /\ data \in [Blocks -> [Slots -> Cells]]
  BY <1>1, <1>3
<1>5. w = [v EXCEPT !.block_bits = bits, !.free_blocks_count = n, !.block = data]
  BY <1>1 DEF freeDataBlock, Flip, Volumes
<1>6. /\ data[b] = Remains(v.block[b])
      /\ \A c \in Blocks \ {b} : data[c] = v.block[c]
  BY <1>1
<1>7. Cardinality(bits) = Cardinality(v.block_bits) - 1 /\ Cardinality(v.block_bits) \in Nat
  BY <1>1, OneLess, BlocksFinite
<1>8. v.free_blocks_count = DATA_BLOCK_NUM - Cardinality(v.block_bits)
        => n = DATA_BLOCK_NUM - Cardinality(bits)
  BY <1>7, SizeFacts
<1>9. bits = v.block_bits \ {b}
  OBVIOUS
<1> HIDE DEF bits, n, data, w
<1>10. w \in Volumes
  BY <1>4, <1>5, BlockDataType
<1>11. /\ w.block_bits = bits /\ w.free_blocks_count = n /\ w.block = data
       /\ w.inode = v.inode /\ w.inode_bits = v.inode_bits
       /\ w.free_inodes_count = v.free_inodes_count
  BY <1>5 DEF Volumes
<1>12. Freed(v, w, {b})
  BY <1>3, <1>6, <1>8, <1>9, <1>10, <1>11 DEF Freed, BlocksCounted
<1> QED
  BY <1>12 DEF w

\* A list of marked blocks, none twice, is freed one after another.
LEMMA ListFreed ==
  ASSUME NEW v \in Volumes, NEW a \in Seq(Blocks),
         \A k \in 1 .. Len(a) : a[k] \in v.block_bits,
         \A k, l \in 1 .. Len(a) : a[k] = a[l] => k = l
  PROVE  Freed(v, freeDataBlocks(v, a), ListedIn(a))
<1> DEFINE n == Len(a)
           S(k) == {a[j] : j \in 1 .. k}
<1>1. n \in Nat
  BY LenProperties
<1>2. PICK h : Walk(h, "free", a, v, n) /\ freeDataBlocks(v, a) = h[n]
  BY FreeWalk
<1> DEFINE Good == {k \in Nat : k <= n => Freed(v, h[k], S(k))}
<1>3. 0 \in Good
  <2>1. h[0] = v /\ S(0) = {}
    BY <1>2 DEF Walk
  <2>2. Freed(v, v, {})
    BY DEF Freed
  <2> QED
    BY <2>1, <2>2
<1>4. ASSUME NEW k \in Nat, k \in Good PROVE k + 1 \in Good
  <2> SUFFICES ASSUME k + 1 <= n PROVE Freed(v, h[k + 1], S(k + 1))
    OBVIOUS
  <2> DEFINE b == a[k + 1]
  <2>1. k + 1 \in 1 .. n /\ (k + 1) - 1 = k /\ Freed(v, h[k], S(k))
    BY <1>1, <1>4
  <2>2. h[k + 1] = freeDataBlock(h[k], b)
    BY <1>2, <2>1 DEF Walk, Step
  <2>3. b \in v.block_bits /\ b \notin S(k)
    BY <1>1, <2>1
  <2>4. S(k + 1) = S(k) \cup {b}
    <3>1. 1 .. k + 1 = (1 .. k) \cup {k + 1}
      OBVIOUS
    <3> QED
      BY <3>1
  <2> HIDE DEF S, b
  <2>5. b \in h[k].block_bits /\ h[k] \in Volumes
    BY <2>1, <2>3 DEF Freed
  <2>6. Freed(h[k], h[k + 1], {b})
    BY <2>2, <2>5, OneFreed
  <2>7. b \in Blocks
    BY <2>3 DEF Volumes
  <2>8. h[k + 1].block_bits = v.block_bits \ S(k + 1)
    BY <2>1, <2>4, <2>6 DEF Freed
  <2>9. \A c \in Blocks \ S(k + 1) : h[k + 1].block[c] = v.block[c]
    BY <2>1, <2>4, <2>6 DEF Freed
  <2>10. \A c \in S(k + 1) : NoEntries(h[k + 1].block[c])
    <3>1. \A c \in S(k) : c \in Blocks \ {b} /\ NoEntries(h[k].block[c])
      <4>1. \A j \in 1 .. k : j \in 1 .. n
        BY <1>1, <2>1
      <4>2. v.block_bits \subseteq Blocks
        BY DEF Volumes
      <4>3. \A c \in S(k) : c \in v.block_bits
        BY <4>1 DEF S
      <4> QED
        BY <2>1, <2>3, <4>2, <4>3 DEF Freed
    <3> QED
      BY <2>4, <2>6, <3>1 DEF Freed
  <2> QED
    BY <2>1, <2>6, <2>8, <2>9, <2>10 DEF Freed
<1> HIDE DEF Good, S
<1>5. n \in Good
  BY <1>1, <1>3, <1>4, NaturalSteps
<1>6. Freed(v, h[n], S(n))
  BY <1>1, <1>5 DEF Good
<1> QED
  BY <1>2, <1>6 DEF S, ListedIn

(***************************************************************************)
(* The tree of directories, as far as one directory and what it names.     *)
(***************************************************************************)
\* Directories are told from files by their size, which is 0 for a file here.
Dirs(v) == {i \in v.inode_bits : v.inode[i].i_size # 0}
Entries(v, d) == {p \in Places(v, d) : CellAt(v, d, p).name \in Names}
Dot == <<1, 0>>
DotDot == <<1, 1>>
Empty(c) == c.inode = 0 /\ c.type = 0 /\ c.name = ""

\* A directory begins with . and .. and has at most two blocks: room is looked for from
\* the third slot of a block on, so that the second slot of its second block stays
\* empty and the two are never full.
Dotted(v) ==
  /\ \A d \in Dirs(v) :
       /\ Len(v.inode[d].i_block) \in 1 .. 2
       /\ Len(v.inode[d].i_block) = 2 => Empty(CellAt(v, d, <<2, 1>>))
       /\ CellAt(v, d, Dot) = Entry(d, DIR, ".", 1)
       /\ CellAt(v, d, DotDot).type = DIR /\ CellAt(v, d, DotDot).name = ".."
       /\ CellAt(v, d, DotDot).inode \in Dirs(v)
  /\ root \in Dirs(v) /\ CellAt(v, root, DotDot).inode = root

\* What an entry of directory d is: it names a live inode with the type the entry
\* says, and if that is a directory its .. leads back.
Names1(v, d, c) ==
  /\ c.name \in Names /\ c.inode \in v.inode_bits \ {root} /\ c.type \in {FILE, DIR}
  /\ c.type = DIR <=> c.inode \in Dirs(v)
  /\ c.inode \in Dirs(v) => CellAt(v, c.inode, DotDot).inode = d
Tidy(v) ==
  \A d \in Dirs(v) : \A p \in Places(v, d) \ {Dot, DotDot} :
    Empty(CellAt(v, d, p)) \/ Names1(v, d, CellAt(v, d, p))

\* No directory has two entries of the same name and type.
Unique(v) ==
  \A d \in Dirs(v) : \A p, q \in Entries(v, d) :
    CellAt(v, d, p).name = CellAt(v, d, q).name /\ CellAt(v, d, p).type = CellAt(v, d, q).type
      => p = q

\* The size of a directory counts its entries, and . and ..
Sized(v) == \A d \in Dirs(v) : v.inode[d].i_size = 2 + Cardinality(Entries(v, d))

\* Every live inode but the root is named by one entry.
Named1(v) == \A i \in v.inode_bits \ {root} :
  \E d \in Dirs(v) : \E p \in Entries(v, d) : CellAt(v, d, p).inode = i
NamedOnce(v) == \A d, e \in Dirs(v) : \A p \in Entries(v, d), q \in Entries(v, e) :
  CellAt(v, d, p).inode = CellAt(v, e, q).inode => d = e /\ p = q

TreeSound(v) == Dotted(v) /\ Tidy(v) /\ Unique(v) /\ Sized(v) /\ Named1(v) /\ NamedOnce(v)

\* Entry p of directory d, which names i, is gone, and inode i with it; d may have
\* lost a block without entries.
Dropped(v, w, d, p, i) ==
  /\ d \in Dirs(v) /\ p \in Entries(v, d) /\ CellAt(v, d, p).inode = i
  /\ i \in Dirs(v) => Entries(v, i) = {}
  /\ w.inode_bits = v.inode_bits \ {i} /\ Dirs(w) = Dirs(v) \ {i}
  /\ \A e \in Dirs(w) :
       /\ Len(w.inode[e].i_block) \in 1 .. 2 /\ Places(w, e) \subseteq Places(v, e)
       /\ \A q \in Places(v, e) \ Places(w, e) : Empty(CellAt(v, e, q)) \/ (e = d /\ q = p)
       /\ \A q \in Places(w, e) : e # d \/ q # p => CellAt(w, e, q) = CellAt(v, e, q)
       /\ e # d => w.inode[e].i_size = v.inode[e].i_size
  /\ p \in Places(w, d) => Empty(CellAt(w, d, p))
  /\ w.inode[d].i_size = v.inode[d].i_size - 1

\* The places of a directory.
LEMMA PlacesOf ==
  ASSUME NEW v, NEW d, Len(v.inode[d].i_block) \in 1 .. 2
  PROVE  /\ Dot \in Places(v, d) /\ DotDot \in Places(v, d)
         /\ <<2, 1>> \in Places(v, d) <=> Len(v.inode[d].i_block) = 2
         /\ Dot # DotDot /\ <<2, 1>> # Dot /\ <<2, 1>> # DotDot
         /\ IsFiniteSet(Places(v, d))
         /\ Places(v, d) \subseteq (1 .. 2) \X Slots
<1> DEFINE n == Len(v.inode[d].i_block)
<1>1. 0 \in Slots /\ 1 \in Slots
  BY SizeFacts DEF Slots
<1>2. IsFiniteSet(1 .. n)
  BY FS_Interval
<1>3. IsFiniteSet((1 .. n) \X Slots)
  BY <1>2, BlocksFinite, FS_Product
<1>4. Places(v, d) = (1 .. n) \X Slots
  BY DEF Places
<1>5. n \in 1 .. 2
  OBVIOUS
<1> HIDE DEF n
<1>6. \A k, s : <<k, s>> \in (1 .. n) \X Slots <=> k \in 1 .. n /\ s \in Slots
  OBVIOUS
<1>7. 1 \in 1 .. n /\ (2 \in 1 .. n <=> n = 2)
  BY <1>5
<1>8. (1 .. n) \X Slots \subseteq (1 .. 2) \X Slots
  BY <1>5
<1>9. <<1, 0>> # <<1, 1>> /\ <<2, 1>> # <<1, 0>> /\ <<2, 1>> # <<1, 1>>
  OBVIOUS
<1> QED
  BY <1>1, <1>3, <1>4, <1>6, <1>7, <1>8, <1>9 DEF Dot, DotDot, n

\* Cells that are empty, or . and .., are no entries.
LEMMA NotNames == "" \notin Names /\ "." \notin Names /\ ".." \notin Names
BY Zenon, Ext2Assumption

\* . and .. are no entries.
LEMMA DotsNoEntries ==
  ASSUME NEW v, Dotted(v), NEW d \in Dirs(v)
  PROVE  Dot \notin Entries(v, d) /\ DotDot \notin Entries(v, d)
<1>1. CellAt(v, d, Dot) = Entry(d, DIR, ".", 1) /\ CellAt(v, d, DotDot).name = ".."
  BY DEF Dotted
<1>2. CellAt(v, d, Dot).name = "."
  BY <1>1 DEF Entry
<1> QED
  BY <1>1, <1>2, NotNames DEF Entries

\* What an entry says of what it names.
LEMMA EntryNames ==
  ASSUME NEW v, TreeSound(v), NEW d \in Dirs(v), NEW p \in Entries(v, d)
  PROVE  Names1(v, d, CellAt(v, d, p)) /\ p \in Places(v, d) /\ p # Dot /\ p # DotDot
<1>1. p \in Places(v, d) /\ CellAt(v, d, p).name \in Names
  BY DEF Entries
<1>2. p # Dot /\ p # DotDot
  BY DotsNoEntries DEF TreeSound
<1>3. ~Empty(CellAt(v, d, p))
  BY <1>1, NotNames DEF Empty
<1> QED
  BY <1>1, <1>2, <1>3 DEF TreeSound, Tidy

\* What a removed entry leaves of the entries.
LEMMA DroppedEntries ==
  ASSUME NEW v, NEW w, TreeSound(v), NEW d, NEW p, NEW i, Dropped(v, w, d, p, i),
         NEW e \in Dirs(w)
  PROVE  /\ e \in Dirs(v) /\ Dot \in Places(w, e) /\ DotDot \in Places(w, e)
         /\ CellAt(w, e, Dot) = CellAt(v, e, Dot)
         /\ CellAt(w, e, DotDot) = CellAt(v, e, DotDot)
         /\ Entries(w, e) = Entries(v, e) \ (IF e = d THEN {p} ELSE {})
         /\ \A q \in Entries(w, e) : q \in Entries(v, e) /\ CellAt(w, e, q) = CellAt(v, e, q)
<1>1. d \in Dirs(v) /\ p \in Entries(v, d) /\ CellAt(v, d, p).inode = i
  BY DEF Dropped
<1>2. p \in Places(v, d) /\ p # Dot /\ p # DotDot /\ Names1(v, d, CellAt(v, d, p))
  BY <1>1, EntryNames
<1>3. /\ Len(w.inode[e].i_block) \in 1 .. 2 /\ Places(w, e) \subseteq Places(v, e)
      /\ \A q \in Places(v, e) \ Places(w, e) : Empty(CellAt(v, e, q)) \/ (e = d /\ q = p)
      /\ \A q \in Places(w, e) : e # d \/ q # p => CellAt(w, e, q) = CellAt(v, e, q)
  BY DEF Dropped
<1>4. e \in Dirs(v)
  BY DEF Dropped
<1>5. Dot \in Places(w, e) /\ DotDot \in Places(w, e)
  BY <1>3, PlacesOf
<1>6. ASSUME NEW q \in Entries(w, e)
      PROVE  q \in Entries(v, e) /\ CellAt(w, e, q) = CellAt(v, e, q) /\ ~(e = d /\ q = p)
  <2>1. q \in Places(w, e) /\ CellAt(w, e, q).name \in Names
    BY DEF Entries
  <2>2. ~(e = d /\ q = p)
    BY <2>1, NotNames DEF Dropped, Empty
  <2> QED
    BY <1>3, <2>1, <2>2 DEF Entries
<1>7. ASSUME NEW q \in Entries(v, e), ~(e = d /\ q = p) PROVE q \in Entries(w, e)
  <2>1. q \in Places(v, e) /\ ~Empty(CellAt(v, e, q)) /\ CellAt(v, e, q).name \in Names
    BY NotNames DEF Entries, Empty
  <2> QED
    BY <1>3, <1>7, <2>1 DEF Entries
<1>8. Entries(w, e) = Entries(v, e) \ (IF e = d THEN {p} ELSE {})
  BY <1>6, <1>7
<1> QED
  BY <1>2, <1>3, <1>4, <1>5, <1>6, <1>8

\* A removed entry leaves the tree sound.
LEMMA DroppedSound ==
  ASSUME NEW v, NEW w, TreeSound(v), NEW d, NEW p, NEW i, Dropped(v, w, d, p, i)
  PROVE  TreeSound(w)
<1>1. d \in Dirs(v) /\ p \in Entries(v, d) /\ CellAt(v, d, p).inode = i
  BY DEF Dropped
<1>2. p \in Places(v, d) /\ p # Dot /\ p # DotDot /\ Names1(v, d, CellAt(v, d, p))
  BY <1>1, EntryNames
<1>3. i # d
  BY <1>1 DEF Dropped
<1>4. d \in Dirs(w) /\ Dirs(w) = Dirs(v) \ {i} /\ w.inode_bits = v.inode_bits \ {i} /\ i # root
  BY <1>1, <1>2, <1>3 DEF Dropped, Names1
<1>5. ASSUME NEW e \in Dirs(w)
      PROVE  /\ e \in Dirs(v) /\ Dot \in Places(w, e) /\ DotDot \in Places(w, e)
             /\ CellAt(w, e, Dot) = CellAt(v, e, Dot)
             /\ CellAt(w, e, DotDot) = CellAt(v, e, DotDot)
             /\ Entries(w, e) = Entries(v, e) \ (IF e = d THEN {p} ELSE {})
             /\ \A q \in Entries(w, e) : q \in Entries(v, e) /\ CellAt(w, e, q) = CellAt(v, e, q)
  BY DroppedEntries
<1>6. ASSUME NEW e \in Dirs(v), e # i PROVE CellAt(v, e, DotDot).inode \in Dirs(w)
  <2>1. CellAt(v, e, DotDot).inode \in Dirs(v)
    BY DEF TreeSound, Dotted
  <2>2. CASE e = root
    BY <1>4, <2>1, <2>2 DEF TreeSound, Dotted
  <2>3. CASE e # root
    <3>1. PICK f \in Dirs(v) : \E q \in Entries(v, f) : CellAt(v, f, q).inode = e
      BY <2>3 DEF TreeSound, Named1, Dirs
    <3>2. CellAt(v, e, DotDot).inode = f /\ Entries(v, f) # {}
      BY <3>1, EntryNames DEF Names1
    <3>3. f # i
      BY <3>1, <3>2 DEF Dropped
    <3> QED
      BY <1>4, <3>2, <3>3
  <2> QED
    BY <2>2, <2>3
<1>7. Dotted(w)
  <2>1. ASSUME NEW e \in Dirs(w)
        PROVE  /\ Len(w.inode[e].i_block) \in 1 .. 2
               /\ Len(w.inode[e].i_block) = 2 => Empty(CellAt(w, e, <<2, 1>>))
    <3>1. Len(w.inode[e].i_block) \in 1 .. 2 /\ Places(w, e) \subseteq Places(v, e)
      BY DEF Dropped
    <3>2. ASSUME Len(w.inode[e].i_block) = 2 PROVE Empty(CellAt(w, e, <<2, 1>>))
      <4>1. <<2, 1>> \in Places(w, e) /\ <<2, 1>> \in Places(v, e)
        BY <3>1, <3>2, PlacesOf
      <4>2. e \in Dirs(v) /\ Len(v.inode[e].i_block) \in 1 .. 2
        BY <1>5 DEF TreeSound, Dotted
      <4>3. Len(v.inode[e].i_block) = 2
        BY <4>1, <4>2, PlacesOf
      <4>4. Empty(CellAt(v, e, <<2, 1>>))
        BY <4>2, <4>3 DEF TreeSound, Dotted
      <4> QED
        BY <4>1, <4>4 DEF Dropped
    <3> QED
      BY <3>1, <3>2
  <2>2. ASSUME NEW e \in Dirs(w)
        PROVE  /\ CellAt(w, e, Dot) = Entry(e, DIR, ".", 1)
               /\ CellAt(w, e, DotDot).type = DIR /\ CellAt(w, e, DotDot).name = ".."
               /\ CellAt(w, e, DotDot).inode \in Dirs(w)
    <3>1. e \in Dirs(v) /\ e # i /\ CellAt(w, e, Dot) = CellAt(v, e, Dot)
          /\ CellAt(w, e, DotDot) = CellAt(v, e, DotDot)
      BY <1>4, <1>5
    <3> QED
      BY <1>6, <3>1 DEF TreeSound, Dotted
  <2>3. root \in Dirs(w) /\ CellAt(w, root, DotDot).inode = root
    BY <1>4, <1>5 DEF TreeSound, Dotted
  <2> QED
    BY <2>1, <2>2, <2>3 DEF Dotted
<1>8. Tidy(w)
  <2>1. SUFFICES ASSUME NEW e \in Dirs(w), NEW q \in Places(w, e) \ {Dot, DotDot},
                        ~Empty(CellAt(w, e, q))
                 PROVE  Names1(w, e, CellAt(w, e, q))
    BY DEF Tidy
  <2> DEFINE c == CellAt(w, e, q)
  <2>2. ~(e = d /\ q = p) /\ c = CellAt(v, e, q) /\ q \in Places(v, e)
    BY <2>1 DEF Dropped
  <2>3. e \in Dirs(v) /\ Names1(v, e, c)
    BY <1>5, <2>1, <2>2 DEF TreeSound, Tidy
  <2>4. q \in Entries(v, e)
    BY <2>2, <2>3 DEF Entries, Names1
  <2>5. c.inode # i
    BY <1>1, <2>2, <2>3, <2>4 DEF TreeSound, NamedOnce
  <2> HIDE DEF c
  <2>6. c.inode \in Dirs(w) <=> c.inode \in Dirs(v)
    BY <1>4, <2>5
  <2>7. c.inode \in Dirs(w) => CellAt(w, c.inode, DotDot).inode = e
    BY <1>5, <2>3 DEF Names1
  <2>8. Names1(w, e, c)
    BY <1>4, <2>3, <2>5, <2>6, <2>7 DEF Names1
  <2> QED
    BY <2>8 DEF c
<1>9. Unique(w)
  BY <1>5 DEF TreeSound, Unique
<1>10. Sized(w)
  <2>1. SUFFICES ASSUME NEW e \in Dirs(w)
                 PROVE  w.inode[e].i_size = 2 + Cardinality(Entries(w, e))
    BY DEF Sized
  <2>2. e \in Dirs(v) /\ v.inode[e].i_size = 2 + Cardinality(Entries(v, e))
    BY <1>5 DEF TreeSound, Sized
  <2>3. CASE e # d
    <3>1. Entries(w, e) = Entries(v, e)
      BY <1>5, <2>3
    <3> QED
      BY <2>2, <2>3, <3>1 DEF Dropped
  <2>4. CASE e = d
    <3>1. Entries(w, d) = Entries(v, d) \ {p}
      BY <1>4, <1>5
    <3>2. IsFiniteSet(Places(v, d))
      BY <1>1, PlacesOf DEF TreeSound, Dotted
    <3>3. Entries(v, d) \in SUBSET Places(v, d)
      BY DEF Entries
    <3>4. /\ Cardinality(Entries(w, d)) = Cardinality(Entries(v, d)) - 1
          /\ Cardinality(Entries(v, d)) \in Nat
      BY <1>1, <3>1, <3>2, <3>3, OneLess
    <3> QED
      BY <2>2, <2>4, <3>4 DEF Dropped
  <2> QED
    BY <2>3, <2>4
<1>11. Named1(w)
  <2>1. SUFFICES ASSUME NEW j \in w.inode_bits \ {root}
                 PROVE  \E e \in Dirs(w) : \E q \in Entries(w, e) : CellAt(w, e, q).inode = j
    BY DEF Named1
  <2>2. j \in v.inode_bits \ {root} /\ j # i
    BY <1>4
  <2>3. PICK e \in Dirs(v) : \E q \in Entries(v, e) : CellAt(v, e, q).inode = j
    BY <2>2 DEF TreeSound, Named1
  <2>4. PICK q \in Entries(v, e) : CellAt(v, e, q).inode = j
    BY <2>3
  <2>5. e # i /\ ~(e = d /\ q = p)
    BY <1>1, <2>2, <2>4 DEF Dropped
  <2>6. e \in Dirs(w) /\ q \in Entries(w, e)
    BY <1>4, <1>5, <2>5
  <2> QED
    BY <1>5, <2>4, <2>6
<1>12. NamedOnce(w)
  BY <1>5 DEF TreeSound, NamedOnce
<1> QED
  BY <1>7, <1>8, <1>9, <1>10, <1>11, <1>12 DEF TreeSound

\* An entry for i has come to place p of directory d, and inode i with it: a file, or
\* a directory with . and .. only.  d may have got a block.
Added(v, w, d, p, i, t) ==
  /\ d \in Dirs(v) /\ i \notin v.inode_bits /\ t \in {FILE, DIR}
  /\ w.inode_bits = v.inode_bits \cup {i}
  /\ Dirs(w) = Dirs(v) \cup (IF t = DIR THEN {i} ELSE {})
  /\ \A e \in Dirs(v) :
       /\ Len(w.inode[e].i_block) \in 1 .. 2 /\ Places(v, e) \subseteq Places(w, e)
       /\ Len(w.inode[e].i_block) = 2 => Empty(CellAt(w, e, <<2, 1>>))
       /\ \A q \in Places(v, e) : e # d \/ q # p => CellAt(w, e, q) = CellAt(v, e, q)
       /\ \A q \in Places(w, e) \ Places(v, e) : Empty(CellAt(w, e, q)) \/ (e = d /\ q = p)
       /\ e # d => w.inode[e].i_size = v.inode[e].i_size
  /\ p \in Places(w, d) /\ p # Dot /\ p # DotDot
  /\ p \in Places(v, d) => Empty(CellAt(v, d, p))
  /\ w.inode[d].i_size = v.inode[d].i_size + 1
  /\ CellAt(w, d, p).inode = i /\ CellAt(w, d, p).type = t /\ CellAt(w, d, p).name \in Names
  /\ \A q \in Entries(v, d) :
       ~(CellAt(v, d, q).name = CellAt(w, d, p).name /\ CellAt(v, d, q).type = t)
  /\ t = DIR =>
       /\ Len(w.inode[i].i_block) = 1 /\ w.inode[i].i_size = 2
       /\ CellAt(w, i, Dot) = Entry(i, DIR, ".", 1)
       /\ CellAt(w, i, DotDot).type = DIR /\ CellAt(w, i, DotDot).name = ".."
       /\ CellAt(w, i, DotDot).inode = d
       /\ \A q \in Places(w, i) \ {Dot, DotDot} : Empty(CellAt(w, i, q))

\* What an added entry leaves of the entries.
LEMMA AddedEntries ==
  ASSUME NEW v, NEW w, TreeSound(v), NEW d, NEW p, NEW i, NEW t, Added(v, w, d, p, i, t),
         NEW e \in Dirs(v)
  PROVE  /\ e \in Dirs(w) /\ e # i
         /\ CellAt(w, e, Dot) = CellAt(v, e, Dot)
         /\ CellAt(w, e, DotDot) = CellAt(v, e, DotDot)
         /\ Entries(w, e) = Entries(v, e) \cup (IF e = d THEN {p} ELSE {})
         /\ \A q \in Entries(v, e) : ~(e = d /\ q = p) /\ CellAt(w, e, q) = CellAt(v, e, q)
<1>1. e \in Dirs(w) /\ e # i
  BY DEF Added, Dirs
<1>2. /\ Places(v, e) \subseteq Places(w, e)
      /\ \A q \in Places(v, e) : e # d \/ q # p => CellAt(w, e, q) = CellAt(v, e, q)
      /\ \A q \in Places(w, e) \ Places(v, e) : Empty(CellAt(w, e, q)) \/ (e = d /\ q = p)
  BY DEF Added
<1>3. Dot \in Places(v, e) /\ DotDot \in Places(v, e)
  BY PlacesOf DEF TreeSound, Dotted
<1>4. p # Dot /\ p # DotDot
  BY DEF Added
<1>5. ASSUME NEW q \in Entries(v, e)
      PROVE  ~(e = d /\ q = p) /\ CellAt(w, e, q) = CellAt(v, e, q) /\ q \in Entries(w, e)
  <2>1. q \in Places(v, e) /\ CellAt(v, e, q).name \in Names /\ ~Empty(CellAt(v, e, q))
    BY NotNames DEF Entries, Empty
  <2>2. ~(e = d /\ q = p)
    BY <2>1 DEF Added
  <2> QED
    BY <1>2, <2>1, <2>2 DEF Entries
<1>6. ASSUME NEW q \in Entries(w, e), ~(e = d /\ q = p) PROVE q \in Entries(v, e)
  <2>1. q \in Places(w, e) /\ CellAt(w, e, q).name \in Names /\ ~Empty(CellAt(w, e, q))
    BY NotNames DEF Entries, Empty
  <2> QED
    BY <1>2, <1>6, <2>1 DEF Entries
<1>7. p \in Entries(w, d)
  BY DEF Added, Entries
<1>8. Entries(w, e) = Entries(v, e) \cup (IF e = d THEN {p} ELSE {})
  BY <1>5, <1>6, <1>7
<1> QED
  BY <1>1, <1>2, <1>3, <1>4, <1>5, <1>8

\* An added entry leaves the tree sound.
LEMMA AddedSound ==
  ASSUME NEW v, NEW w, TreeSound(v), NEW d, NEW p, NEW i, NEW t, Added(v, w, d, p, i, t)
  PROVE  TreeSound(w)
<1>1. /\ d \in Dirs(v) /\ i \notin v.inode_bits /\ t \in {FILE, DIR}
      /\ w.inode_bits = v.inode_bits \cup {i}
      /\ Dirs(w) = Dirs(v) \cup (IF t = DIR THEN {i} ELSE {})
  BY DEF Added
<1>2. Dirs(v) \subseteq v.inode_bits /\ i \notin Dirs(v) /\ root \in Dirs(v) /\ i # root
  BY <1>1 DEF Dirs, TreeSound, Dotted
<1>3. ASSUME NEW e \in Dirs(v)
      PROVE  /\ e \in Dirs(w) /\ e # i
             /\ CellAt(w, e, Dot) = CellAt(v, e, Dot)
             /\ CellAt(w, e, DotDot) = CellAt(v, e, DotDot)
             /\ Entries(w, e) = Entries(v, e) \cup (IF e = d THEN {p} ELSE {})
             /\ \A q \in Entries(v, e) : ~(e = d /\ q = p) /\ CellAt(w, e, q) = CellAt(v, e, q)
  BY AddedEntries
<1>4. ASSUME t = DIR
      PROVE  /\ i \in Dirs(w) /\ Len(w.inode[i].i_block) = 1 /\ w.inode[i].i_size = 2
             /\ CellAt(w, i, Dot) = Entry(i, DIR, ".", 1)
             /\ CellAt(w, i, DotDot).type = DIR /\ CellAt(w, i, DotDot).name = ".."
             /\ CellAt(w, i, DotDot).inode = d
             /\ \A q \in Places(w, i) \ {Dot, DotDot} : Empty(CellAt(w, i, q))
             /\ Entries(w, i) = {}
  <2>1. /\ i \in Dirs(w) /\ Len(w.inode[i].i_block) = 1 /\ w.inode[i].i_size = 2
        /\ CellAt(w, i, Dot) = Entry(i, DIR, ".", 1)
        /\ CellAt(w, i, DotDot).type = DIR /\ CellAt(w, i, DotDot).name = ".."
        /\ CellAt(w, i, DotDot).inode = d
        /\ \A q \in Places(w, i) \ {Dot, DotDot} : Empty(CellAt(w, i, q))
    BY <1>1, <1>4 DEF Added
  <2>2. CellAt(w, i, Dot).name = "."
    BY <2>1 DEF Entry
  <2>3. \A q \in Places(w, i) : CellAt(w, i, q).name \notin Names
    BY <2>1, <2>2, NotNames DEF Empty
  <2> QED
    BY <2>1, <2>3 DEF Entries
<1>5. \A e \in Dirs(w) : e \in Dirs(v) \/ (e = i /\ t = DIR)
  BY <1>1
<1>6. Dotted(w)
  <2>1. ASSUME NEW e \in Dirs(v)
        PROVE  /\ Len(w.inode[e].i_block) \in 1 .. 2
               /\ Len(w.inode[e].i_block) = 2 => Empty(CellAt(w, e, <<2, 1>>))
               /\ CellAt(w, e, Dot) = Entry(e, DIR, ".", 1)
               /\ CellAt(w, e, DotDot).type = DIR /\ CellAt(w, e, DotDot).name = ".."
               /\ CellAt(w, e, DotDot).inode \in Dirs(w)
    <3>1. /\ Len(w.inode[e].i_block) \in 1 .. 2
          /\ Len(w.inode[e].i_block) = 2 => Empty(CellAt(w, e, <<2, 1>>))
      BY DEF Added
    <3>2. /\ CellAt(v, e, Dot) = Entry(e, DIR, ".", 1)
          /\ CellAt(v, e, DotDot).type = DIR /\ CellAt(v, e, DotDot).name = ".."
          /\ CellAt(v, e, DotDot).inode \in Dirs(v)
      BY DEF TreeSound, Dotted
    <3> QED
      BY <1>3, <3>1, <3>2
  <2>2. root \in Dirs(w) /\ CellAt(w, root, DotDot).inode = root
    BY <1>2, <1>3 DEF TreeSound, Dotted
  <2>3. t = DIR => Len(w.inode[i].i_block) \in 1 .. 2 /\ Len(w.inode[i].i_block) # 2
    BY <1>4
  <2> QED
    BY <1>1, <1>3, <1>4, <1>5, <2>1, <2>2, <2>3 DEF Dotted
<1>7. Tidy(w)
  <2>1. SUFFICES ASSUME NEW e \in Dirs(w), NEW q \in Places(w, e) \ {Dot, DotDot},
                        ~Empty(CellAt(w, e, q))
                 PROVE  Names1(w, e, CellAt(w, e, q))
    BY DEF Tidy
  <2>2. e \in Dirs(v)
    BY <1>4, <1>5, <2>1
  <2>3. CASE e = d /\ q = p
    <3>1. /\ CellAt(w, d, p).inode = i /\ CellAt(w, d, p).type = t
          /\ CellAt(w, d, p).name \in Names
      BY DEF Added
    <3> QED
      BY <1>1, <1>2, <1>4, <2>3, <3>1 DEF Names1, FILE, DIR
  <2>4. CASE ~(e = d /\ q = p)
    <3>1. q \in Places(v, e) /\ CellAt(w, e, q) = CellAt(v, e, q)
      BY <2>1, <2>2, <2>4 DEF Added
    <3> DEFINE c == CellAt(v, e, q)
    <3>2. Names1(v, e, c)
      BY <2>1, <2>2, <3>1 DEF TreeSound, Tidy
    <3> HIDE DEF c
    <3>3. c.inode # i /\ (c.inode \in Dirs(w) <=> c.inode \in Dirs(v))
      BY <1>1, <1>2, <3>2 DEF Names1
    <3>4. c.inode \in Dirs(w) => CellAt(w, c.inode, DotDot).inode = e
      BY <1>3, <3>2, <3>3 DEF Names1
    <3>5. Names1(w, e, c)
      BY <1>1, <3>2, <3>3, <3>4 DEF Names1
    <3> QED
      BY <3>1, <3>5 DEF c
  <2> QED
    BY <2>3, <2>4
<1>8. Unique(w)
  <2>1. SUFFICES ASSUME NEW e \in Dirs(w), NEW q \in Entries(w, e), NEW r \in Entries(w, e),
                        CellAt(w, e, q).name = CellAt(w, e, r).name,
                        CellAt(w, e, q).type = CellAt(w, e, r).type
                 PROVE  q = r
    BY DEF Unique
  <2>2. e \in Dirs(v)
    BY <1>4, <1>5, <2>1
  <2>3. \A s \in Entries(w, e) : s \in Entries(v, e) \/ (e = d /\ s = p)
    BY <1>3, <2>2
  <2>4. CellAt(w, d, p).type = t
        /\ \A s \in Entries(v, d) :
             ~(CellAt(v, d, s).name = CellAt(w, d, p).name /\ CellAt(v, d, s).type = t)
    BY DEF Added
  <2>5. CASE q \in Entries(v, e) /\ r \in Entries(v, e)
    BY <1>3, <2>1, <2>2, <2>5 DEF TreeSound, Unique
  <2>6. CASE e = d /\ q = p /\ r \in Entries(v, e)
    BY <1>3, <2>1, <2>2, <2>4, <2>6
  <2>7. CASE e = d /\ r = p /\ q \in Entries(v, e)
    BY <1>3, <2>1, <2>2, <2>4, <2>7
  <2> QED
    BY <2>3, <2>5, <2>6, <2>7
<1>9. Sized(w)
  <2>1. SUFFICES ASSUME NEW e \in Dirs(w)
                 PROVE  w.inode[e].i_size = 2 + Cardinality(Entries(w, e))
    BY DEF Sized
  <2>2. CASE e \in Dirs(v) /\ e # d
    <3>1. Entries(w, e) = Entries(v, e)
      BY <1>3, <2>2
    <3>2. w.inode[e].i_size = v.inode[e].i_size
      BY <2>2 DEF Added
    <3> QED
      BY <2>2, <3>1, <3>2 DEF TreeSound, Sized
  <2>3. CASE e = d
    <3>1. Entries(w, d) = Entries(v, d) \cup {p} /\ p \notin Entries(v, d)
      BY <1>1, <1>3
    <3>2. IsFiniteSet(Places(w, d))
      BY <1>1, PlacesOf DEF Added
    <3>3. Entries(v, d) \in SUBSET Places(w, d) /\ p \in Places(w, d) \ Entries(v, d)
      BY <3>1 DEF Entries
    <3>4. /\ Cardinality(Entries(w, d)) = Cardinality(Entries(v, d)) + 1
          /\ Cardinality(Entries(v, d)) \in Nat
      BY <3>1, <3>2, <3>3, OneMore
    <3>5. v.inode[d].i_size = 2 + Cardinality(Entries(v, d))
      BY <1>1 DEF TreeSound, Sized
    <3>6. w.inode[d].i_size = v.inode[d].i_size + 1
      BY DEF Added
    <3> QED
      BY <2>3, <3>4, <3>5, <3>6
  <2>4. CASE e = i /\ t = DIR
    <3>1. w.inode[i].i_size = 2 /\ Cardinality(Entries(w, i)) = 0
      BY <1>4, <2>4, FS_EmptySet
    <3> QED
      BY <2>4, <3>1
  <2> QED
    BY <1>5, <2>2, <2>3, <2>4
<1>10. Named1(w)
  <2>1. SUFFICES ASSUME NEW j \in w.inode_bits \ {root}
                 PROVE  \E e \in Dirs(w) : \E q \in Entries(w, e) : CellAt(w, e, q).inode = j
    BY DEF Named1
  <2>2. CASE j = i
    <3>1. p \in Entries(w, d) /\ d \in Dirs(w) /\ CellAt(w, d, p).inode = i
      BY <1>1, <1>3 DEF Added
    <3> QED
      BY <2>2, <3>1
  <2>3. CASE j \in v.inode_bits
    <3>1. PICK e \in Dirs(v) : \E q \in Entries(v, e) : CellAt(v, e, q).inode = j
      BY <2>1, <2>3 DEF TreeSound, Named1
    <3>2. PICK q \in Entries(v, e) : CellAt(v, e, q).inode = j
      BY <3>1
    <3> QED
      BY <1>3, <3>2
  <2> QED
    BY <1>1, <2>2, <2>3
<1>11. NamedOnce(w)
  <2>1. SUFFICES ASSUME NEW e \in Dirs(w), NEW f \in Dirs(w), NEW q \in Entries(w, e),
                        NEW r \in Entries(w, f), CellAt(w, e, q).inode = CellAt(w, f, r).inode
                 PROVE  e = f /\ q = r
    BY DEF NamedOnce
  <2>2. \A g \in Dirs(w) : \A s \in Entries(w, g) :
          \/ g = d /\ s = p
          \/ /\ g \in Dirs(v) /\ s \in Entries(v, g) /\ CellAt(w, g, s) = CellAt(v, g, s)
             /\ CellAt(v, g, s).inode # i
    <3>1. TAKE g \in Dirs(w)
    <3>4. TAKE s \in Entries(w, g)
    <3>2. g \in Dirs(v)
      BY <1>4, <1>5
    <3>3. s \in Entries(v, g) => CellAt(w, g, s) = CellAt(v, g, s) /\ CellAt(v, g, s).inode # i
      BY <1>1, <1>3, <3>2, EntryNames DEF Names1
    <3> QED
      BY <1>3, <3>2, <3>3
  <2>3. CellAt(w, d, p).inode = i
    BY DEF Added
  <2> QED
    BY <2>1, <2>2, <2>3 DEF TreeSound, NamedOnce
<1> QED
  BY <1>6, <1>7, <1>8, <1>9, <1>10, <1>11 DEF TreeSound

\* Directories and what they hold are as they were, but for blocks without entries that
\* a directory may have lost.
Same(v, w) ==
  /\ w.inode_bits = v.inode_bits /\ Dirs(w) = Dirs(v)
  /\ \A e \in Dirs(v) :
       /\ Len(w.inode[e].i_block) \in 1 .. 2 /\ Places(w, e) \subseteq Places(v, e)
       /\ \A q \in Places(v, e) \ Places(w, e) : Empty(CellAt(v, e, q))
       /\ \A q \in Places(w, e) : CellAt(w, e, q) = CellAt(v, e, q)
       /\ w.inode[e].i_size = v.inode[e].i_size

\* A change that directories do not see leaves the entries.
LEMMA SameEntries ==
  ASSUME NEW v, NEW w, TreeSound(v), Same(v, w), NEW e \in Dirs(v)
  PROVE  /\ Dot \in Places(w, e) /\ DotDot \in Places(w, e)
         /\ CellAt(w, e, Dot) = CellAt(v, e, Dot)
         /\ CellAt(w, e, DotDot) = CellAt(v, e, DotDot)
         /\ Entries(w, e) = Entries(v, e)
         /\ \A q \in Entries(v, e) : CellAt(w, e, q) = CellAt(v, e, q)
<1>1. /\ Len(w.inode[e].i_block) \in 1 .. 2 /\ Places(w, e) \subseteq Places(v, e)
      /\ \A q \in Places(v, e) \ Places(w, e) : Empty(CellAt(v, e, q))
      /\ \A q \in Places(w, e) : CellAt(w, e, q) = CellAt(v, e, q)
  BY DEF Same
<1>2. Dot \in Places(w, e) /\ DotDot \in Places(w, e)
  BY <1>1, PlacesOf
<1>3. \A q \in Entries(v, e) : q \in Places(w, e)
  BY <1>1, NotNames DEF Entries, Empty
<1>4. Entries(w, e) = Entries(v, e)
  BY <1>1, <1>3 DEF Entries
<1> QED
  BY <1>1, <1>2, <1>3, <1>4

\* So does a change that directories do not see.
LEMMA SameSound ==
  ASSUME NEW v, NEW w, TreeSound(v), Same(v, w)
  PROVE  TreeSound(w)
<1>1. w.inode_bits = v.inode_bits /\ Dirs(w) = Dirs(v)
  BY DEF Same
<1>2. ASSUME NEW e \in Dirs(v)
      PROVE  /\ Dot \in Places(w, e) /\ DotDot \in Places(w, e)
             /\ CellAt(w, e, Dot) = CellAt(v, e, Dot)
             /\ CellAt(w, e, DotDot) = CellAt(v, e, DotDot)
             /\ Entries(w, e) = Entries(v, e)
             /\ \A q \in Entries(v, e) : CellAt(w, e, q) = CellAt(v, e, q)
  BY SameEntries
<1>3. Dotted(w)
  <2>1. ASSUME NEW e \in Dirs(v), Len(w.inode[e].i_block) = 2
        PROVE  Empty(CellAt(w, e, <<2, 1>>))
    <3>1. /\ Len(w.inode[e].i_block) \in 1 .. 2 /\ Places(w, e) \subseteq Places(v, e)
          /\ Len(v.inode[e].i_block) \in 1 .. 2
      BY DEF Same, TreeSound, Dotted
    <3>2. <<2, 1>> \in Places(w, e)
      BY <2>1, <3>1, PlacesOf
    <3>3. Len(v.inode[e].i_block) = 2
      BY <3>1, <3>2, PlacesOf
    <3> QED
      BY <3>2, <3>3 DEF Same, TreeSound, Dotted
  <2>2. \A e \in Dirs(v) : Len(w.inode[e].i_block) \in 1 .. 2
    BY DEF Same
  <2> QED
    BY <1>1, <1>2, <2>1, <2>2 DEF TreeSound, Dotted
<1>4. Tidy(w)
  <2>1. SUFFICES ASSUME NEW e \in Dirs(v), NEW q \in Places(w, e) \ {Dot, DotDot},
                        ~Empty(CellAt(w, e, q))
                 PROVE  Names1(w, e, CellAt(w, e, q))
    BY <1>1 DEF Tidy
  <2> DEFINE c == CellAt(w, e, q)
  <2>2. c = CellAt(v, e, q) /\ q \in Places(v, e)
    BY <2>1 DEF Same
  <2>3. Names1(v, e, c)
    BY <2>1, <2>2 DEF TreeSound, Tidy
  <2> HIDE DEF c
  <2>4. Names1(w, e, c)
    BY <1>1, <1>2, <2>3 DEF Names1
  <2> QED
    BY <2>4 DEF c
<1>5. Unique(w)
  BY <1>1, <1>2 DEF TreeSound, Unique
<1>6. Sized(w)
  BY <1>1, <1>2 DEF TreeSound, Sized, Same
<1>7. Named1(w)
  <2>1. SUFFICES ASSUME NEW j \in v.inode_bits \ {root}
                 PROVE  \E e \in Dirs(w) : \E q \in Entries(w, e) : CellAt(w, e, q).inode = j
    BY <1>1 DEF Named1
  <2>2. PICK e \in Dirs(v) : \E q \in Entries(v, e) : CellAt(v, e, q).inode = j
    BY DEF TreeSound, Named1
  <2>3. PICK q \in Entries(v, e) : CellAt(v, e, q).inode = j
    BY <2>2
  <2> QED
    BY <1>1, <1>2, <2>3
<1>8. NamedOnce(w)
  BY <1>1, <1>2 DEF TreeSound, NamedOnce
<1> QED
  BY <1>3, <1>4, <1>5, <1>6, <1>7, <1>8 DEF TreeSound

(***************************************************************************)
(* Paths from the root.                                                    *)
(***************************************************************************)
\* path gives every live inode its path: what an entry names is one name further down
\* than the directory the entry is in.
Pathed(v, path) ==
  /\ path \in [v.inode_bits -> Seq(Names)] /\ path[root] = <<>>
  /\ \A d \in Dirs(v) : \A p \in Entries(v, d) :
       path[CellAt(v, d, p).inode] = Append(path[d], CellAt(v, d, p).name)

\* What w has of a file's inode and blocks is what v had.
FilesKept(v, w, I) ==
  \A e \in I : /\ w.inode[e] = v.inode[e]
               /\ \A k \in 1 .. Len(v.inode[e].i_block) :
                    w.block[v.inode[e].i_block[k]] = v.block[v.inode[e].i_block[k]]

\* The inodes of S are gone with their entries; what is left has the path and, if it is
\* a file, the text it had.
Shrunk(v, w, S) ==
  /\ w.inode_bits = v.inode_bits \ S /\ Dirs(w) = Dirs(v) \ S
  /\ \A path : Pathed(v, path) => Pathed(w, [j \in w.inode_bits |-> path[j]])
  /\ FilesKept(v, w, w.inode_bits \ Dirs(w))

\* Inode i has come, and an entry for it with name n in directory d.
Gained(v, w, d, n, i, t) ==
  /\ i \notin v.inode_bits /\ w.inode_bits = v.inode_bits \cup {i}
  /\ Dirs(w) = Dirs(v) \cup (IF t = DIR THEN {i} ELSE {})
  /\ \A path : Pathed(v, path) =>
       Pathed(w, [j \in w.inode_bits |-> IF j = i THEN Append(path[d], n) ELSE path[j]])
  /\ FilesKept(v, w, v.inode_bits \ Dirs(v))

\* All that has changed is the file with inode i.
FileChanged(v, w, i) ==
  /\ w.inode_bits = v.inode_bits /\ Dirs(w) = Dirs(v)
  /\ \A path : Pathed(v, path) => Pathed(w, path)
  /\ FilesKept(v, w, (v.inode_bits \ Dirs(v)) \ {i})

\* Every directory and all it names is live.
LEMMA LiveNames ==
  ASSUME NEW v, TreeSound(v), NEW d \in Dirs(v), NEW p \in Entries(v, d)
  PROVE  /\ d \in v.inode_bits /\ CellAt(v, d, p).inode \in v.inode_bits \ {root}
         /\ CellAt(v, d, p).name \in Names
BY EntryNames DEF Names1, Dirs

\* A removed entry leaves the other paths.
LEMMA DroppedShrinks ==
  ASSUME NEW v, NEW w, TreeSound(v), NEW d, NEW p, NEW i, Dropped(v, w, d, p, i),
         FilesKept(v, w, w.inode_bits \ Dirs(w))
  PROVE  Shrunk(v, w, {i})
<1>1. /\ w.inode_bits = v.inode_bits \ {i} /\ Dirs(w) = Dirs(v) \ {i}
      /\ d \in Dirs(v) /\ p \in Entries(v, d) /\ CellAt(v, d, p).inode = i
  BY DEF Dropped
<1>2. ASSUME NEW path, Pathed(v, path)
      PROVE  Pathed(w, [j \in w.inode_bits |-> path[j]])
  <2> DEFINE less == [j \in w.inode_bits |-> path[j]]
  <2>1. path \in [v.inode_bits -> Seq(Names)] /\ path[root] = <<>>
    BY <1>2 DEF Pathed
  <2>2. root \in w.inode_bits
    BY DroppedSound DEF TreeSound, Dotted, Dirs
  <2>3. less \in [w.inode_bits -> Seq(Names)] /\ less[root] = <<>>
    BY <1>1, <2>1, <2>2
  <2>4. ASSUME NEW e \in Dirs(w), NEW q \in Entries(w, e)
        PROVE  less[CellAt(w, e, q).inode] = Append(less[e], CellAt(w, e, q).name)
    <3>1. e \in Dirs(v) /\ q \in Entries(v, e) /\ CellAt(w, e, q) = CellAt(v, e, q)
      BY DroppedEntries
    <3>2. e \in w.inode_bits /\ CellAt(w, e, q).inode \in w.inode_bits
      BY DroppedSound, LiveNames
    <3>3. path[CellAt(v, e, q).inode] = Append(path[e], CellAt(v, e, q).name)
      BY <1>2, <3>1 DEF Pathed
    <3> QED
      BY <3>1, <3>2, <3>3
  <2> HIDE DEF less
  <2> QED
    BY <2>3, <2>4 DEF Pathed, less
<1> QED
  BY <1>1, <1>2 DEF Shrunk

\* A change that directories do not see leaves all paths.
LEMMA SamePaths ==
  ASSUME NEW v, NEW w, TreeSound(v), Same(v, w), NEW path, Pathed(v, path)
  PROVE  Pathed(w, path)
<1>1. w.inode_bits = v.inode_bits /\ Dirs(w) = Dirs(v)
  BY DEF Same
<1>2. path \in [v.inode_bits -> Seq(Names)] /\ path[root] = <<>>
  BY DEF Pathed
<1>3. ASSUME NEW e \in Dirs(w), NEW q \in Entries(w, e)
      PROVE  path[CellAt(w, e, q).inode] = Append(path[e], CellAt(w, e, q).name)
  <2>1. e \in Dirs(v) /\ q \in Entries(v, e) /\ CellAt(w, e, q) = CellAt(v, e, q)
    BY <1>1, SameEntries
  <2> QED
    BY <2>1 DEF Pathed
<1> QED
  BY <1>1, <1>2, <1>3 DEF Pathed

\* So does one that files do not see either.
LEMMA SameShrinks ==
  ASSUME NEW v, NEW w, TreeSound(v), Same(v, w), FilesKept(v, w, w.inode_bits \ Dirs(w))
  PROVE  Shrunk(v, w, {})
<1>1. w.inode_bits = v.inode_bits /\ Dirs(w) = Dirs(v)
  BY DEF Same
<1>2. ASSUME NEW path, Pathed(v, path)
      PROVE  Pathed(w, [j \in w.inode_bits |-> path[j]])
  <2>1. path \in [v.inode_bits -> Seq(Names)] /\ path[root] = <<>>
    BY <1>2 DEF Pathed
  <2>2. [j \in w.inode_bits |-> path[j]] = path
    BY <1>1, <2>1
  <2>3. Pathed(w, path)
    BY <1>2, SamePaths
  <2> QED
    BY <2>2, <2>3
<1> QED
  BY <1>1, <1>2 DEF Shrunk

\* So does no change.
LEMMA NothingShrinks ==
  ASSUME NEW v, TreeSound(v)
  PROVE  Shrunk(v, v, {})
<1>1. ASSUME NEW path, Pathed(v, path) PROVE Pathed(v, [j \in v.inode_bits |-> path[j]])
  <2>1. path = [j \in v.inode_bits |-> path[j]]
    BY <1>1 DEF Pathed
  <2> QED
    BY <1>1, <2>1
<1> QED
  BY <1>1 DEF Shrunk, FilesKept

\* Two steps of it.
LEMMA ShrunkTwice ==
  ASSUME NEW u, NEW v, NEW w, NEW S, NEW T, Shrunk(u, v, S), Shrunk(v, w, T)
  PROVE  Shrunk(u, w, S \cup T)
<1>1. /\ v.inode_bits = u.inode_bits \ S /\ Dirs(v) = Dirs(u) \ S
      /\ w.inode_bits = v.inode_bits \ T /\ Dirs(w) = Dirs(v) \ T
  BY DEF Shrunk
<1>2. ASSUME NEW path, Pathed(u, path)
      PROVE  Pathed(w, [j \in w.inode_bits |-> path[j]])
  <2> DEFINE middle == [j \in v.inode_bits |-> path[j]]
  <2>1. Pathed(v, middle)
    BY <1>2 DEF Shrunk
  <2>2. [j \in w.inode_bits |-> middle[j]] = [j \in w.inode_bits |-> path[j]]
    BY <1>1
  <2> HIDE DEF middle
  <2>3. Pathed(w, [j \in w.inode_bits |-> middle[j]])
    BY <2>1 DEF Shrunk
  <2> QED
    BY <2>2, <2>3
<1>3. FilesKept(u, w, w.inode_bits \ Dirs(w))
  <2>1. FilesKept(u, v, v.inode_bits \ Dirs(v)) /\ FilesKept(v, w, w.inode_bits \ Dirs(w))
    BY DEF Shrunk
  <2>2. ASSUME NEW e \in w.inode_bits \ Dirs(w)
        PROVE  /\ w.inode[e] = u.inode[e]
               /\ \A k \in 1 .. Len(u.inode[e].i_block) :
                    w.block[u.inode[e].i_block[k]] = u.block[u.inode[e].i_block[k]]
    <3>1. e \in v.inode_bits \ Dirs(v)
      BY <1>1
    <3>2. /\ v.inode[e] = u.inode[e]
          /\ \A k \in 1 .. Len(u.inode[e].i_block) :
               v.block[u.inode[e].i_block[k]] = u.block[u.inode[e].i_block[k]]
      BY <2>1, <3>1 DEF FilesKept
    <3>3. /\ w.inode[e] = v.inode[e]
          /\ \A k \in 1 .. Len(v.inode[e].i_block) :
               w.block[v.inode[e].i_block[k]] = v.block[v.inode[e].i_block[k]]
      BY <2>1 DEF FilesKept
    <3> QED
      BY <3>2, <3>3
  <2> QED
    BY <2>2 DEF FilesKept
<1>4. w.inode_bits = u.inode_bits \ (S \cup T) /\ Dirs(w) = Dirs(u) \ (S \cup T)
  BY <1>1
<1> QED
  BY <1>2, <1>3, <1>4 DEF Shrunk

\* An added entry gives what it names a path and leaves the others.
LEMMA AddedGains ==
  ASSUME NEW v, NEW w, TreeSound(v), NEW d, NEW p, NEW i, NEW t, Added(v, w, d, p, i, t),
         NEW n, n = CellAt(w, d, p).name, FilesKept(v, w, v.inode_bits \ Dirs(v))
  PROVE  Gained(v, w, d, n, i, t)
<1>1. /\ d \in Dirs(v) /\ i \notin v.inode_bits /\ t \in {FILE, DIR}
      /\ w.inode_bits = v.inode_bits \cup {i}
      /\ Dirs(w) = Dirs(v) \cup (IF t = DIR THEN {i} ELSE {})
      /\ CellAt(w, d, p).inode = i /\ n \in Names
  BY DEF Added
<1>2. ASSUME NEW path, Pathed(v, path)
      PROVE  Pathed(w, [j \in w.inode_bits |-> IF j = i THEN Append(path[d], n) ELSE path[j]])
  <2> DEFINE more == [j \in w.inode_bits |-> IF j = i THEN Append(path[d], n) ELSE path[j]]
  <2>1. path \in [v.inode_bits -> Seq(Names)] /\ path[root] = <<>>
    BY <1>2 DEF Pathed
  <2>2. root \in v.inode_bits /\ d \in v.inode_bits
    BY <1>1 DEF TreeSound, Dotted, Dirs
  <2>3. Append(path[d], n) \in Seq(Names)
    BY <1>1, <2>1, <2>2, AppendProperties
  <2>4. more \in [w.inode_bits -> Seq(Names)] /\ more[root] = <<>>
    BY <1>1, <2>1, <2>2, <2>3
  <2>5. ASSUME NEW e \in Dirs(w), NEW q \in Entries(w, e)
        PROVE  more[CellAt(w, e, q).inode] = Append(more[e], CellAt(w, e, q).name)
    <3>1. e \in Dirs(v)
      <4>1. e = i => Entries(w, i) = {}
        <5>1. ASSUME e = i PROVE Entries(w, i) = {}
          <6>1. t = DIR
            BY <1>1, <5>1 DEF Dirs
          <6>2. /\ CellAt(w, i, Dot) = Entry(i, DIR, ".", 1) /\ CellAt(w, i, DotDot).name = ".."
                /\ \A r \in Places(w, i) \ {Dot, DotDot} : Empty(CellAt(w, i, r))
            BY <6>1 DEF Added
          <6>3. CellAt(w, i, Dot).name = "."
            BY <6>2 DEF Entry
          <6> QED
            BY <6>2, <6>3, NotNames DEF Empty, Entries
        <5> QED
          BY <5>1
      <4> QED
        BY <1>1, <4>1
    <3>2. CASE e = d /\ q = p
      BY <1>1, <2>2, <3>2
    <3>3. CASE ~(e = d /\ q = p)
      <4>1. q \in Entries(v, e) /\ CellAt(w, e, q) = CellAt(v, e, q)
        BY <3>1, <3>3, AddedEntries
      <4>2. e \in v.inode_bits /\ CellAt(v, e, q).inode \in v.inode_bits
        BY <3>1, <4>1, LiveNames
      <4>3. path[CellAt(v, e, q).inode] = Append(path[e], CellAt(v, e, q).name)
        BY <1>2, <3>1, <4>1 DEF Pathed
      <4> QED
        BY <1>1, <4>1, <4>2, <4>3
    <3> QED
      BY <3>2, <3>3
  <2> HIDE DEF more
  <2> QED
    BY <2>4, <2>5 DEF Pathed, more
<1> QED
  BY <1>1, <1>2 DEF Gained

(***************************************************************************)
(* Who owns a block.  B are the marked blocks, I the live inodes, L[i] the *)
(* blocks of inode i.                                                      *)
(***************************************************************************)
BlockLists == [Inodes -> Seq(Blocks)]
Lists(v) == [i \in Inodes |-> v.inode[i].i_block]
Owned(B, I, L) ==
  /\ \A i \in I : \A k \in 1 .. Len(L[i]) : L[i][k] \in B
  /\ \A b \in B : \E i \in I : \E k \in 1 .. Len(L[i]) : L[i][k] = b
  /\ \A i, j \in I : \A k \in 1 .. Len(L[i]), l \in 1 .. Len(L[j]) :
       L[i][k] = L[j][l] => i = j /\ k = l

\* An inode gets a free block.
LEMMA OwnedGrows ==
  ASSUME NEW B \in SUBSET Blocks, NEW I \in SUBSET Inodes, NEW L \in BlockLists,
         Owned(B, I, L), NEW i \in I, NEW b \in Blocks \ B
  PROVE  Owned(B \cup {b}, I, [L EXCEPT ![i] = Append(L[i], b)])
<1> DEFINE M == [L EXCEPT ![i] = Append(L[i], b)]
           n == Len(L[i])
<1>1. L[i] \in Seq(Blocks) /\ n \in Nat
  BY LenProperties DEF BlockLists
<1>2. /\ M[i] = Append(L[i], b) /\ \A j \in I \ {i} : M[j] = L[j]
      /\ Len(M[i]) = n + 1 /\ M[i][n + 1] = b /\ \A k \in 1 .. n : M[i][k] = L[i][k]
  BY <1>1, AppendProperties DEF BlockLists
<1>3. \A k : k \in 1 .. n + 1 <=> k \in 1 .. n \/ k = n + 1
  BY <1>1
<1>4. n + 1 \notin 1 .. n
  BY <1>1
<1> HIDE DEF M
<1>5. ASSUME NEW j \in I, NEW k \in 1 .. Len(M[j])
      PROVE  \/ k \in 1 .. Len(L[j]) /\ M[j][k] = L[j][k] /\ M[j][k] \in B
             \/ j = i /\ k = n + 1 /\ M[j][k] = b
  <2>1. CASE j = i
    <3>1. k \in 1 .. n \/ k = n + 1
      BY <1>2, <1>3, <2>1
    <3>2. \A l \in 1 .. n : L[i][l] \in B
      BY DEF Owned
    <3> QED
      BY <1>2, <2>1, <3>1, <3>2
  <2>2. CASE j # i
    BY <1>2, <2>2 DEF Owned
  <2> QED
    BY <2>1, <2>2
<1>6. ASSUME NEW j \in I, NEW k \in 1 .. Len(L[j])
      PROVE  k \in 1 .. Len(M[j]) /\ M[j][k] = L[j][k]
  <2>1. j = i => k \in 1 .. n + 1
    BY <1>3
  <2> QED
    BY <1>2, <2>1
<1>7. \A j \in I : \A k \in 1 .. Len(M[j]) : M[j][k] \in B \cup {b}
  BY <1>5
<1>8. \A c \in B \cup {b} : \E j \in I : \E k \in 1 .. Len(M[j]) : M[j][k] = c
  <2>1. TAKE c \in B \cup {b}
  <2>2. CASE c = b
    BY <1>2, <1>3, <2>2
  <2>3. CASE c \in B
    <3>1. PICK j \in I : \E k \in 1 .. Len(L[j]) : L[j][k] = c
      BY <2>3 DEF Owned
    <3> QED
      BY <1>6, <3>1
  <2> QED
    BY <2>2, <2>3
<1>9. ASSUME NEW j \in I, NEW m \in I, NEW k \in 1 .. Len(M[j]), NEW l \in 1 .. Len(M[m]),
             M[j][k] = M[m][l]
      PROVE  j = m /\ k = l
  BY <1>5, <1>9 DEF Owned
<1>10. Owned(B \cup {b}, I, M)
  BY <1>7, <1>8, <1>9 DEF Owned
<1> QED
  BY <1>10 DEF M

\* An inode is born without blocks.
LEMMA OwnedBorn ==
  ASSUME NEW B, NEW I \in SUBSET Inodes, NEW L \in BlockLists, Owned(B, I, L),
         NEW i \in Inodes \ I
  PROVE  Owned(B, I \cup {i}, [L EXCEPT ![i] = <<>>])
<1> DEFINE M == [L EXCEPT ![i] = <<>>]
<1>1. (\A j \in I : M[j] = L[j]) /\ M[i] = <<>>
  BY DEF BlockLists
<1>2. Len(M[i]) = 0
  BY <1>1
<1> HIDE DEF M
<1>3. \A j \in I \cup {i} : \A k \in 1 .. Len(M[j]) : j \in I
  BY <1>2
<1>4. Owned(B, I \cup {i}, M)
  BY <1>1, <1>3 DEF Owned
<1> QED
  BY <1>4 DEF M

\* An inode loses its blocks, and they are unmarked.
LEMMA OwnedEmptied ==
  ASSUME NEW B, NEW I \in SUBSET Inodes, NEW L \in BlockLists, Owned(B, I, L), NEW i \in I
  PROVE  Owned(B \ ListedIn(L[i]), I, [L EXCEPT ![i] = <<>>])
<1> DEFINE M == [L EXCEPT ![i] = <<>>]
           S == ListedIn(L[i])
<1>1. (\A j \in I \ {i} : M[j] = L[j]) /\ M[i] = <<>>
  BY DEF BlockLists
<1>2. Len(M[i]) = 0
  BY <1>1
<1> HIDE DEF M
<1>3. \A j \in I : \A k \in 1 .. Len(M[j]) : j # i
  BY <1>2
<1>4. \A j \in I \ {i} : \A k \in 1 .. Len(L[j]) : L[j][k] \in B \ S
  BY DEF Owned, ListedIn
<1>5. \A b \in B \ S : \E j \in I \ {i} : \E k \in 1 .. Len(L[j]) : L[j][k] = b
  BY DEF Owned, ListedIn
<1> HIDE DEF S
<1>6. Owned(B \ S, I, M)
  BY <1>1, <1>3, <1>4, <1>5 DEF Owned
<1> QED
  BY <1>6 DEF M, S

\* An inode without blocks dies.
LEMMA OwnedDies ==
  ASSUME NEW B, NEW I, NEW L, Owned(B, I, L), NEW i \in I, L[i] = <<>>
  PROVE  Owned(B, I \ {i}, L)
<1>1. Len(L[i]) = 0
  OBVIOUS
<1> QED
  BY <1>1 DEF Owned

\* An inode with two blocks loses the second.
LEMMA OwnedShrinks ==
  ASSUME NEW B, NEW I \in SUBSET Inodes, NEW L \in BlockLists, Owned(B, I, L), NEW i \in I,
         Len(L[i]) = 2
  PROVE  Owned(B \ {L[i][2]}, I, [L EXCEPT ![i] = <<L[i][1]>>])
<1> DEFINE M == [L EXCEPT ![i] = <<L[i][1]>>]
           b == L[i][2]
<1>1. (\A j \in I \ {i} : M[j] = L[j]) /\ Len(M[i]) = 1 /\ M[i][1] = L[i][1]
  BY DEF BlockLists
<1> HIDE DEF M
<1>2. 2 \in 1 .. Len(L[i]) /\ 1 \in 1 .. Len(L[i])
  OBVIOUS
<1>3. ASSUME NEW j \in I, NEW k \in 1 .. Len(M[j])
      PROVE  k \in 1 .. Len(L[j]) /\ M[j][k] = L[j][k] /\ ~(j = i /\ k = 2)
  BY <1>1, <1>2
<1>4. ASSUME NEW j \in I, NEW k \in 1 .. Len(L[j]), ~(j = i /\ k = 2)
      PROVE  k \in 1 .. Len(M[j]) /\ M[j][k] = L[j][k]
  BY <1>1, <1>4
<1>5. ASSUME NEW j \in I, NEW k \in 1 .. Len(M[j]) PROVE M[j][k] \in B \ {b}
  <2>1. k \in 1 .. Len(L[j]) /\ M[j][k] = L[j][k] /\ ~(j = i /\ k = 2)
    BY <1>3
  <2>2. L[j][k] \in B /\ L[j][k] # L[i][2]
    BY <1>2, <2>1 DEF Owned
  <2> QED
    BY <2>1, <2>2
<1>6. \A c \in B \ {b} : \E j \in I : \E k \in 1 .. Len(M[j]) : M[j][k] = c
  <2>1. TAKE c \in B \ {b}
  <2>2. PICK j \in I : \E k \in 1 .. Len(L[j]) : L[j][k] = c
    BY DEF Owned
  <2>3. PICK k \in 1 .. Len(L[j]) : L[j][k] = c
    BY <2>2
  <2> QED
    BY <1>4, <2>3
<1>7. ASSUME NEW j \in I, NEW h \in I, NEW k \in 1 .. Len(M[j]), NEW l \in 1 .. Len(M[h]),
             M[j][k] = M[h][l]
      PROVE  j = h /\ k = l
  <2>1. k \in 1 .. Len(L[j]) /\ M[j][k] = L[j][k]
    BY <1>3
  <2>2. l \in 1 .. Len(L[h]) /\ M[h][l] = L[h][l]
    BY <1>3
  <2>3. L[j][k] = L[h][l]
    BY Zenon, <1>7, <2>1, <2>2
  <2> QED
    <3>1. \A p, q \in I : \A m \in 1 .. Len(L[p]), o \in 1 .. Len(L[q]) :
            L[p][m] = L[q][o] => p = q /\ m = o
      BY Zenon DEF Owned
    <3>2. j \in I /\ h \in I
      OBVIOUS
    <3> QED
      BY <2>1, <2>2, <2>3, <3>1, <3>2
<1>8. Owned(B \ {b}, I, M)
  BY Zenon, <1>5, <1>6, <1>7 DEF Owned
<1> QED
  BY <1>8 DEF M

(***************************************************************************)
(* A sound volume.                                                         *)
(***************************************************************************)
\* No free block holds what looks like an entry.
Clean(v) == \A b \in Blocks \ v.block_bits : NoEntries(v.block[b])
\* No inode has more than eight blocks, and what is dead has no size.
Small(v) == \A i \in Inodes :
  Len(v.inode[i].i_block) <= 8 /\ (i \notin v.inode_bits => v.inode[i].i_size = 0)
Sound(v) ==
  /\ v \in Volumes /\ Owned(v.block_bits, v.inode_bits, Lists(v))
  /\ Clean(v) /\ Small(v) /\ BlocksCounted(v) /\ InodesCounted(v) /\ TreeSound(v)

\* The fields of a volume.
LEMMA Fields ==
  ASSUME NEW v \in Volumes
  PROVE  /\ v.block_bits \in SUBSET Blocks /\ v.inode_bits \in SUBSET Inodes
         /\ v.free_blocks_count \in Int /\ v.free_inodes_count \in Int
         /\ v.last_alloc_block \in Slots /\ v.last_alloc_inode \in Slots
         /\ v.inode \in [Inodes -> InodeRecords] /\ v.block \in [Blocks -> [Slots -> Cells]]
         /\ Lists(v) \in BlockLists /\ Dirs(v) \in SUBSET Inodes
         /\ \A i \in Inodes :
              /\ v.inode[i] \in InodeRecords /\ v.inode[i].i_block \in Seq(Blocks)
              /\ Lists(v)[i] = v.inode[i].i_block /\ v.inode[i].i_size \in Int
              /\ Len(v.inode[i].i_block) \in Nat
<1>1. /\ v.block_bits \in SUBSET Blocks /\ v.inode_bits \in SUBSET Inodes
      /\ v.free_blocks_count \in Int /\ v.free_inodes_count \in Int
      /\ v.last_alloc_block \in Slots /\ v.last_alloc_inode \in Slots
      /\ v.inode \in [Inodes -> InodeRecords] /\ v.block \in [Blocks -> [Slots -> Cells]]
  BY DEF Volumes
<1>2. ASSUME NEW i \in Inodes
      PROVE  /\ v.inode[i] \in InodeRecords /\ v.inode[i].i_block \in Seq(Blocks)
             /\ v.inode[i].i_size \in Int
  BY <1>1 DEF InodeRecords
<1>3. \A i \in Inodes : Len(v.inode[i].i_block) \in Nat
  BY <1>2, LenProperties
<1>4. Lists(v) \in BlockLists
  BY <1>2 DEF Lists, BlockLists
<1>5. Dirs(v) \in SUBSET Inodes
  BY <1>1 DEF Dirs
<1> QED
  BY <1>1, <1>2, <1>3, <1>4, <1>5 DEF Lists

\* A directory that has two blocks is never full.
LEMMA DirSize ==
  ASSUME NEW v, TreeSound(v), NEW d \in Dirs(v)
  PROVE  /\ v.inode[d].i_size \in 2 .. 2 * DIR_ENTRY_NUM_PER_BLOCK
         /\ Len(v.inode[d].i_block) = 1 => v.inode[d].i_size <= DIR_ENTRY_NUM_PER_BLOCK
         /\ BlocksAreFull(v, d) => Len(v.inode[d].i_block) = 1
         /\ v.inode[d].i_size = 2 => Entries(v, d) = {}
<1> DEFINE n == Len(v.inode[d].i_block)
           D == DIR_ENTRY_NUM_PER_BLOCK
           P == Places(v, d)
           E == Entries(v, d)
           hole == IF n = 2 THEN {<<2, 1>>} ELSE {}
<1>1. n \in 1 .. 2
  BY DEF TreeSound, Dotted
<1>2. /\ Dot \in P /\ DotDot \in P /\ Dot # DotDot /\ <<2, 1>> # Dot /\ <<2, 1>> # DotDot
      /\ <<2, 1>> \in P <=> n = 2
      /\ IsFiniteSet(P)
  BY <1>1, PlacesOf
<1>3. Cardinality(P) = n * D
  <2>1. IsFiniteSet(1 .. n) /\ Cardinality(1 .. n) = n
    BY <1>1, FS_Interval
  <2>2. Cardinality(Slots) = D
    BY SizeFacts, FS_Interval DEF Slots
  <2>3. Cardinality((1 .. n) \X Slots) = Cardinality(1 .. n) * Cardinality(Slots)
    BY <2>1, BlocksFinite, FS_Product
  <2> QED
    BY <2>1, <2>2, <2>3 DEF Places
<1>4. Dot \notin E /\ DotDot \notin E
  BY DotsNoEntries DEF TreeSound
<1>5. n = 2 => <<2, 1>> \notin E
  BY NotNames DEF TreeSound, Dotted, Empty, Entries
<1>6. E \subseteq ((P \ {Dot}) \ {DotDot}) \ hole
  BY <1>4, <1>5 DEF Entries
<1> DEFINE P1 == P \ {Dot}
           P2 == P1 \ {DotDot}
           P3 == P2 \ {<<2, 1>>}
<1>7. IsFiniteSet(P1) /\ Cardinality(P1) = n * D - 1
  BY <1>2, <1>3, FS_RemoveElement
<1>8. IsFiniteSet(P2) /\ Cardinality(P2) = n * D - 2
  <2>1. DotDot \in P1
    BY <1>2
  <2>2. IsFiniteSet(P2) /\ Cardinality(P2) = Cardinality(P1) - 1
    BY <1>7, <2>1, FS_RemoveElement
  <2>3. n * D \in Int
    BY <1>1, SizeFacts
  <2> QED
    BY <1>7, <2>2, <2>3
<1>9. n = 2 => IsFiniteSet(P3) /\ Cardinality(P3) = n * D - 3
  <2>1. n = 2 => <<2, 1>> \in P2
    BY <1>2
  <2>2. n = 2 => IsFiniteSet(P3) /\ Cardinality(P3) = Cardinality(P2) - 1
    BY <1>8, <2>1, FS_RemoveElement
  <2>3. n * D \in Int
    BY <1>1, SizeFacts
  <2> QED
    BY <1>8, <2>2, <2>3
<1>10. E \subseteq P2 /\ (n = 2 => E \subseteq P3)
  BY <1>6
<1>11. v.inode[d].i_size = 2 + Cardinality(E)
  BY DEF TreeSound, Sized
<1>12. BlocksAreFull(v, d) <=> v.inode[d].i_size = n * D
  BY DEF BlocksAreFull
<1> HIDE DEF P1, P2, P3, n, E
<1>13. IsFiniteSet(E) /\ Cardinality(E) \in Nat /\ Cardinality(E) <= Cardinality(P2)
  BY <1>8, <1>10, FS_Subset, FS_CardinalityType
<1>14. n = 2 => Cardinality(E) <= Cardinality(P3)
  BY <1>9, <1>10, FS_Subset
<1>15. Cardinality(E) = 0 => E = {}
  BY <1>13, FS_EmptySet
<1>16. D \in Nat /\ D > 2
  BY SizeFacts
<1> HIDE DEF D, P
<1>17. CASE n = 1
  BY <1>8, <1>11, <1>12, <1>13, <1>15, <1>16, <1>17 DEF n, E, D
<1>18. CASE n = 2
  <2>1. Cardinality(E) <= 2 * D - 3
    BY <1>9, <1>14, <1>18
  <2> QED
    BY <1>11, <1>12, <1>13, <1>15, <1>16, <1>18, <2>1 DEF n, E, D
<1> QED
  BY <1>1, <1>17, <1>18

\* The blocks of two inodes are different ones.
LEMMA OthersBlocks ==
  ASSUME NEW v, Sound(v), NEW e \in v.inode_bits, NEW i \in v.inode_bits, e # i,
         NEW k \in 1 .. Len(v.inode[e].i_block)
  PROVE  /\ v.inode[e].i_block[k] \in v.block_bits /\ v.inode[e].i_block[k] \in Blocks
         /\ \A l \in 1 .. Len(v.inode[i].i_block) :
              v.inode[e].i_block[k] # v.inode[i].i_block[l]
<1>1. v \in Volumes /\ e \in Inodes /\ i \in Inodes /\ v.block_bits \in SUBSET Blocks
  BY Fields DEF Sound
<1>2. Lists(v)[e] = v.inode[e].i_block /\ Lists(v)[i] = v.inode[i].i_block
  BY <1>1, Fields
<1>3. Owned(v.block_bits, v.inode_bits, Lists(v))
  BY DEF Sound
<1> QED
  BY <1>1, <1>2, <1>3 DEF Owned

\* And so are two blocks of one.
LEMMA OwnBlocks ==
  ASSUME NEW v, Sound(v), NEW e \in v.inode_bits, NEW k \in 1 .. Len(v.inode[e].i_block)
  PROVE  /\ v.inode[e].i_block[k] \in v.block_bits /\ v.inode[e].i_block[k] \in Blocks
         /\ \A l \in 1 .. Len(v.inode[e].i_block) :
              v.inode[e].i_block[k] = v.inode[e].i_block[l] => k = l
<1>1. v \in Volumes /\ e \in Inodes /\ v.block_bits \in SUBSET Blocks
  BY Fields DEF Sound
<1>2. Lists(v)[e] = v.inode[e].i_block
  BY <1>1, Fields
<1>3. Owned(v.block_bits, v.inode_bits, Lists(v))
  BY DEF Sound
<1> QED
  BY <1>1, <1>2, <1>3 DEF Owned

\* Where neither the list of blocks nor what they hold changes, no cell does.
LEMMA CellsKept ==
  ASSUME NEW v, NEW w, NEW e, w.inode[e].i_block = v.inode[e].i_block,
         \A k \in 1 .. Len(v.inode[e].i_block) :
           w.block[v.inode[e].i_block[k]] = v.block[v.inode[e].i_block[k]]
  PROVE  /\ Places(w, e) = Places(v, e) /\ Len(w.inode[e].i_block) = Len(v.inode[e].i_block)
         /\ \A q \in Places(v, e) : CellAt(w, e, q) = CellAt(v, e, q)
<1>1. Places(w, e) = Places(v, e)
  BY DEF Places
<1>2. ASSUME NEW q \in Places(v, e) PROVE CellAt(w, e, q) = CellAt(v, e, q)
  <2>1. q[1] \in 1 .. Len(v.inode[e].i_block)
    BY DEF Places
  <2> QED
    BY <2>1 DEF CellAt
<1> QED
  BY <1>1, <1>2

\* A place of a directory, and the cell there.
LEMMA PlaceType ==
  ASSUME NEW v \in Volumes, NEW d \in Inodes, NEW p \in Places(v, d)
  PROVE  /\ p[1] \in 1 .. Len(v.inode[d].i_block) /\ p[2] \in Slots /\ p = <<p[1], p[2]>>
         /\ v.inode[d].i_block[p[1]] \in Blocks
         /\ CellAt(v, d, p) \in Cells
         /\ CellAt(v, d, p).inode \in 0 .. INODE_NUM /\ CellAt(v, d, p).name_len \in {0, 1}
<1>1. p[1] \in 1 .. Len(v.inode[d].i_block) /\ p[2] \in Slots /\ p = <<p[1], p[2]>>
  BY DEF Places
<1>2. v.inode[d].i_block \in Seq(Blocks) /\ v.block \in [Blocks -> [Slots -> Cells]]
  BY Fields
<1>3. v.inode[d].i_block[p[1]] \in Blocks
  BY <1>1, <1>2, ElementOfSeq
<1>4. CellAt(v, d, p) \in Cells
  BY <1>1, <1>2, <1>3 DEF CellAt
<1> QED
  BY <1>1, <1>3, <1>4 DEF Cells

\* The cell that an entry is zeroed to.
LEMMA NoEntryType == NoEntry \in Cells /\ Empty(NoEntry)
<1>1. 0 \in 0 .. INODE_NUM /\ 0 \in {0, FILE, DIR, TEXT, TEXT_END} /\ 0 \in {0, 1}
      /\ "" \in Names \cup Data \cup {"", ".", ".."}
  BY SizeFacts
<1>2. NoEntry \in Cells
  BY <1>1, CellType DEF NoEntry
<1> QED
  BY <1>2 DEF Empty, NoEntry, Entry

(***************************************************************************)
(* Single changes of a volume.                                             *)
(***************************************************************************)
\* Only cells have changed.
OnlyCells(v, w) ==
  /\ w \in Volumes
  /\ w.block_bits = v.block_bits /\ w.free_blocks_count = v.free_blocks_count
  /\ w.last_alloc_block = v.last_alloc_block
  /\ w.inode_bits = v.inode_bits /\ w.free_inodes_count = v.free_inodes_count
  /\ w.last_alloc_inode = v.last_alloc_inode /\ w.inode = v.inode
\* Only inodes have changed.
OnlyInodes(v, w) ==
  /\ w \in Volumes
  /\ w.block_bits = v.block_bits /\ w.free_blocks_count = v.free_blocks_count
  /\ w.last_alloc_block = v.last_alloc_block
  /\ w.inode_bits = v.inode_bits /\ w.free_inodes_count = v.free_inodes_count
  /\ w.last_alloc_inode = v.last_alloc_inode /\ w.block = v.block

\* Other blocks.
LEMMA BlocksReplaced ==
  ASSUME NEW v \in Volumes, NEW data \in [Blocks -> [Slots -> Cells]]
  PROVE  OnlyCells(v, [v EXCEPT !.block = data]) /\ [v EXCEPT !.block = data].block = data
<1>1. [v EXCEPT !.block = data] \in Volumes
  BY DEF Volumes
<1> QED
  BY <1>1 DEF Volumes, OnlyCells

\* Other inodes.
LEMMA InodesReplaced ==
  ASSUME NEW v \in Volumes, NEW table \in [Inodes -> InodeRecords]
  PROVE  OnlyInodes(v, [v EXCEPT !.inode = table]) /\ [v EXCEPT !.inode = table].inode = table
<1>1. [v EXCEPT !.inode = table] \in Volumes
  BY DEF Volumes
<1> QED
  BY <1>1 DEF Volumes, OnlyInodes

\* One cell.
LEMMA CellSet ==
  ASSUME NEW v \in Volumes, NEW d \in Inodes, NEW p \in Places(v, d), NEW c \in Cells
  PROVE  /\ OnlyCells(v, SetCell(v, d, p, c))
         /\ \A b \in Blocks \ {v.inode[d].i_block[p[1]]} :
              SetCell(v, d, p, c).block[b] = v.block[b]
         /\ \A s \in Slots \ {p[2]} : SetCell(v, d, p, c).block[v.inode[d].i_block[p[1]]][s]
                                        = v.block[v.inode[d].i_block[p[1]]][s]
         /\ SetCell(v, d, p, c).block[v.inode[d].i_block[p[1]]][p[2]] = c
<1> DEFINE a == v.inode[d].i_block[p[1]]
           s == p[2]
           data == [v.block EXCEPT ![a][s] = c]
<1>1. a \in Blocks /\ s \in Slots
  BY PlaceType
<1>2. v.block \in [Blocks -> [Slots -> Cells]]
  BY Fields
<1>3. SetCell(v, d, p, c) = [v EXCEPT !.block = data]
  BY DEF SetCell, Volumes
<1> HIDE DEF a, s
<1>4. /\ data \in [Blocks -> [Slots -> Cells]]
      /\ \A b \in Blocks \ {a} : data[b] = v.block[b]
      /\ \A t \in Slots \ {s} : data[a][t] = v.block[a][t]
      /\ data[a][s] = c
  BY <1>1, <1>2
<1> HIDE DEF data
<1>5. /\ OnlyCells(v, [v EXCEPT !.block = data]) /\ [v EXCEPT !.block = data].block = data
  BY <1>4, BlocksReplaced
<1> QED
  BY <1>3, <1>4, <1>5 DEF a, s

\* The size of one inode.
LEMMA SizeSet ==
  ASSUME NEW v \in Volumes, NEW d \in Inodes, NEW n \in Int
  PROVE  /\ OnlyInodes(v, [v EXCEPT !.inode[d].i_size = n])
         /\ \A i \in Inodes \ {d} : [v EXCEPT !.inode[d].i_size = n].inode[i] = v.inode[i]
         /\ [v EXCEPT !.inode[d].i_size = n].inode[d].i_block = v.inode[d].i_block
         /\ [v EXCEPT !.inode[d].i_size = n].inode[d].i_mode = v.inode[d].i_mode
         /\ [v EXCEPT !.inode[d].i_size = n].inode[d].i_size = n
<1> DEFINE table == [v.inode EXCEPT ![d].i_size = n]
<1>1. v.inode \in [Inodes -> InodeRecords]
  BY Fields
<1>2. [v EXCEPT !.inode[d].i_size = n] = [v EXCEPT !.inode = table]
  BY DEF Volumes
<1>3. /\ table \in [Inodes -> InodeRecords]
      /\ \A i \in Inodes \ {d} : table[i] = v.inode[i]
      /\ table[d].i_block = v.inode[d].i_block /\ table[d].i_mode = v.inode[d].i_mode
      /\ table[d].i_size = n
  BY <1>1 DEF InodeRecords
<1> HIDE DEF table
<1>4. OnlyInodes(v, [v EXCEPT !.inode = table]) /\ [v EXCEPT !.inode = table].inode = table
  BY <1>3, InodesReplaced
<1> QED
  BY <1>2, <1>3, <1>4

(***************************************************************************)
(* Removing an entry, and what it names.                                   *)
(***************************************************************************)
\* An inode is freed.
LEMMA InodeFreed ==
  ASSUME NEW v \in Volumes, NEW i \in v.inode_bits
  PROVE  /\ freeInode(v, i) \in Volumes
         /\ freeInode(v, i).block_bits = v.block_bits /\ freeInode(v, i).block = v.block
         /\ freeInode(v, i).free_blocks_count = v.free_blocks_count
         /\ freeInode(v, i).inode_bits = v.inode_bits \ {i}
         /\ freeInode(v, i).inode[i] = Blank
         /\ \A e \in Inodes \ {i} : freeInode(v, i).inode[e] = v.inode[e]
         /\ InodesCounted(v) => InodesCounted(freeInode(v, i))
<1> DEFINE w == freeInode(v, i)
           bits == v.inode_bits \ {i}
           n == v.free_inodes_count + 1
           table == [v.inode EXCEPT ![i] = Blank]
<1>1. /\ v.inode_bits \in SUBSET Inodes /\ i \in Inodes /\ v.free_inodes_count \in Int
      /\ v.inode \in [Inodes -> InodeRecords]
  BY Fields
<1>2. Blank \in InodeRecords
  BY DEF Blank, Inode, InodeRecords
<1>3. bits \in SUBSET Inodes /\ n \in Int /\ table \in [Inodes -> InodeRecords]
  BY <1>1, <1>2
<1>4. w = [v EXCEPT !.inode_bits = bits, !.free_inodes_count = n, !.inode = table]
  BY <1>1 DEF freeInode, Flip, Volumes
<1>5. /\ table[i] = Blank
      /\ \A e \in Inodes \ {i} : table[e] = v.inode[e]
  BY <1>1
<1>6. Cardinality(bits) = Cardinality(v.inode_bits) - 1 /\ Cardinality(v.inode_bits) \in Nat
  BY <1>1, OneLess, BlocksFinite
<1>7. v.free_inodes_count = INODE_NUM - Cardinality(v.inode_bits)
        => n = INODE_NUM - Cardinality(bits)
  BY <1>6, SizeFacts
<1>8. bits = v.inode_bits \ {i}
  OBVIOUS
<1> HIDE DEF bits, n, table, w
<1>9. w \in Volumes
  BY <1>3, <1>4, InodeTableType
<1>10. /\ w.inode_bits = bits /\ w.free_inodes_count = n /\ w.inode = table
       /\ w.block_bits = v.block_bits /\ w.block = v.block
       /\ w.free_blocks_count = v.free_blocks_count
  BY <1>4 DEF Volumes
<1>11. InodesCounted(v) => InodesCounted(w)
  BY <1>7, <1>10 DEF InodesCounted
<1> QED
  BY <1>5, <1>8, <1>9, <1>10, <1>11 DEF w

\* An entry is zeroed, and its directory's size counted down.
LEMMA EntryDropped ==
  ASSUME NEW v \in Volumes, NEW d \in Inodes, NEW p \in Places(v, d)
  PROVE  /\ DropEntry(v, d, p) \in Volumes
         /\ DropEntry(v, d, p).block_bits = v.block_bits
         /\ DropEntry(v, d, p).free_blocks_count = v.free_blocks_count
         /\ DropEntry(v, d, p).inode_bits = v.inode_bits
         /\ DropEntry(v, d, p).free_inodes_count = v.free_inodes_count
         /\ \A e \in Inodes \ {d} : DropEntry(v, d, p).inode[e] = v.inode[e]
         /\ DropEntry(v, d, p).inode[d].i_block = v.inode[d].i_block
         /\ DropEntry(v, d, p).inode[d].i_mode = v.inode[d].i_mode
         /\ DropEntry(v, d, p).inode[d].i_size = v.inode[d].i_size - 1
         /\ \A b \in Blocks \ {v.inode[d].i_block[p[1]]} :
              DropEntry(v, d, p).block[b] = v.block[b]
         /\ \A s \in Slots \ {p[2]} : DropEntry(v, d, p).block[v.inode[d].i_block[p[1]]][s]
                                        = v.block[v.inode[d].i_block[p[1]]][s]
         /\ DropEntry(v, d, p).block[v.inode[d].i_block[p[1]]][p[2]] = NoEntry
<1> DEFINE u == SetCell(v, d, p, NoEntry)
           n == v.inode[d].i_size - 1
           w == [u EXCEPT !.inode[d].i_size = n]
           a == v.inode[d].i_block[p[1]]
<1>1. NoEntry \in Cells
  BY NoEntryType
<1>2. /\ OnlyCells(v, u)
      /\ \A b \in Blocks \ {a} : u.block[b] = v.block[b]
      /\ \A s \in Slots \ {p[2]} : u.block[a][s] = v.block[a][s]
      /\ u.block[a][p[2]] = NoEntry
  <2>1. OnlyCells(v, SetCell(v, d, p, NoEntry))
    BY Zenon, <1>1, CellSet
  <2>2. \A b \in Blocks \ {v.inode[d].i_block[p[1]]} :
          SetCell(v, d, p, NoEntry).block[b] = v.block[b]
    BY Zenon, <1>1, CellSet
  <2>3. /\ \A s \in Slots \ {p[2]} : SetCell(v, d, p, NoEntry).block[v.inode[d].i_block[p[1]]][s]
                                       = v.block[v.inode[d].i_block[p[1]]][s]
        /\ SetCell(v, d, p, NoEntry).block[v.inode[d].i_block[p[1]]][p[2]] = NoEntry
    BY <1>1, CellSet
  <2> QED
    BY Zenon, <2>1, <2>2, <2>3
<1>3. v.inode[d].i_size \in Int
  BY Fields
<1>4. n \in Int
  BY <1>3
<1> HIDE DEF u, a
<1>5. u \in Volumes /\ u.inode = v.inode
  BY <1>2 DEF OnlyCells
<1>6. DropEntry(v, d, p) = w
  <2>1. DropEntry(v, d, p) = [u EXCEPT !.inode[d].i_size = u.inode[d].i_size - 1]
    <3>1. u.inode \in [Inodes -> InodeRecords]
      BY <1>5, Fields
    <3> QED
      BY <1>5, <3>1 DEF DropEntry, u, Volumes, InodeRecords
  <2> QED
    BY <1>5, <2>1
<1> HIDE DEF n
<1>7. /\ OnlyInodes(u, w)
      /\ \A i \in Inodes \ {d} : w.inode[i] = u.inode[i]
      /\ w.inode[d].i_block = u.inode[d].i_block
      /\ w.inode[d].i_mode = u.inode[d].i_mode
      /\ w.inode[d].i_size = n
  BY <1>4, <1>5, SizeSet
<1> HIDE DEF w
<1>8. /\ w \in Volumes /\ w.block_bits = v.block_bits
      /\ w.free_blocks_count = v.free_blocks_count
      /\ w.inode_bits = v.inode_bits /\ w.free_inodes_count = v.free_inodes_count
      /\ w.block = u.block
  BY <1>2, <1>7 DEF OnlyCells, OnlyInodes
<1> QED
  BY Zenon, <1>2, <1>5, <1>6, <1>7, <1>8 DEF n, a

\* Entry p of directory d, which names i, is gone, and inode i with its blocks.
Gone(v, w, d, p, i) ==
  /\ i \in v.inode_bits /\ i # d /\ d \in Dirs(w) /\ Dirs(w) = Dirs(v) \ {i}
  /\ w.block_bits = v.block_bits \ ListedIn(v.inode[i].i_block)
  /\ w.inode_bits = v.inode_bits \ {i}
  /\ \A e \in Inodes \ {i, d} : w.inode[e] = v.inode[e]
  /\ w.inode[d].i_block = v.inode[d].i_block
  /\ \A e \in Dirs(w) :
       /\ Places(w, e) = Places(v, e)
       /\ \A q \in Places(v, e) : e # d \/ q # p => CellAt(w, e, q) = CellAt(v, e, q)
  /\ Empty(CellAt(w, d, p))

\* The entry of a file, or of a directory with . and .. only, goes, with the inode and
\* its blocks.
LEMMA EntryGone ==
  ASSUME NEW v, Sound(v), NEW d \in Dirs(v), NEW p \in Entries(v, d), NEW i,
         i = CellAt(v, d, p).inode, i \in Dirs(v) => Entries(v, i) = {},
         NEW S, S = ListedIn(v.inode[i].i_block), NEW x, Freed(v, x, S),
         NEW w, w = DropEntry(freeInode(x, i), d, p)
  PROVE  Sound(w) /\ Gone(v, w, d, p, i) /\ Shrunk(v, w, {i})
<1> DEFINE y == freeInode(x, i)
           a == v.inode[d].i_block[p[1]]
<1>1. v \in Volumes /\ TreeSound(v) /\ d \in Inodes /\ d \in v.inode_bits
  BY Fields DEF Sound, Dirs
<1>2. /\ p \in Places(v, d) /\ p # Dot /\ p # DotDot
      /\ i \in v.inode_bits /\ i # root /\ i \in Inodes
  <2>1. Names1(v, d, CellAt(v, d, p)) /\ p \in Places(v, d) /\ p # Dot /\ p # DotDot
    BY <1>1, EntryNames
  <2>2. v.inode_bits \in SUBSET Inodes
    BY <1>1, Fields
  <2> QED
    BY <2>1, <2>2 DEF Names1
<1>3. i # d
  BY DEF Sound
<1>4. /\ x \in Volumes /\ x.block_bits = v.block_bits \ S
      /\ x.inode = v.inode /\ x.inode_bits = v.inode_bits
      /\ x.free_inodes_count = v.free_inodes_count
      /\ \A b \in Blocks \ S : x.block[b] = v.block[b]
      /\ \A b \in S : NoEntries(x.block[b])
      /\ BlocksCounted(v) => BlocksCounted(x)
  BY DEF Freed
<1>5. /\ y \in Volumes /\ y.block_bits = x.block_bits /\ y.block = x.block
      /\ y.free_blocks_count = x.free_blocks_count
      /\ y.inode_bits = v.inode_bits \ {i}
      /\ y.inode[i] = Blank /\ \A e \in Inodes \ {i} : y.inode[e] = v.inode[e]
      /\ InodesCounted(x) => InodesCounted(y)
  BY <1>2, <1>4, InodeFreed
<1> HIDE DEF y
<1>6. p \in Places(y, d) /\ y.inode[d].i_block[p[1]] = a
  BY <1>1, <1>2, <1>3, <1>5 DEF Places
<1>7. /\ w \in Volumes /\ w.block_bits = y.block_bits
      /\ w.free_blocks_count = y.free_blocks_count
      /\ w.inode_bits = y.inode_bits /\ w.free_inodes_count = y.free_inodes_count
      /\ \A e \in Inodes \ {d} : w.inode[e] = y.inode[e]
      /\ w.inode[d].i_block = y.inode[d].i_block
      /\ w.inode[d].i_size = y.inode[d].i_size - 1
      /\ \A b \in Blocks \ {a} : w.block[b] = y.block[b]
      /\ \A s \in Slots \ {p[2]} : w.block[a][s] = y.block[a][s]
      /\ w.block[a][p[2]] = NoEntry
  <2>1. w = DropEntry(y, d, p)
    BY DEF y
  <2> HIDE DEF a
  <2> QED
    <3>1. y \in Volumes /\ d \in Inodes /\ p \in Places(y, d)
      BY <1>1, <1>5, <1>6
    <3> HIDE DEF y
    <3> DEFINE z == DropEntry(y, d, p)
    <3>2. /\ z \in Volumes /\ z.block_bits = y.block_bits
          /\ z.free_blocks_count = y.free_blocks_count
          /\ z.inode_bits = y.inode_bits /\ z.free_inodes_count = y.free_inodes_count
          /\ \A e \in Inodes \ {d} : z.inode[e] = y.inode[e]
          /\ z.inode[d].i_block = y.inode[d].i_block
          /\ z.inode[d].i_size = y.inode[d].i_size - 1
      <4>1. /\ z \in Volumes /\ z.block_bits = y.block_bits
            /\ z.free_blocks_count = y.free_blocks_count
            /\ z.inode_bits = y.inode_bits /\ z.free_inodes_count = y.free_inodes_count
        BY Zenon, <3>1, EntryDropped
      <4>2. /\ \A e \in Inodes \ {d} : z.inode[e] = y.inode[e]
            /\ z.inode[d].i_block = y.inode[d].i_block
            /\ z.inode[d].i_size = y.inode[d].i_size - 1
        BY Zenon, <3>1, EntryDropped
      <4> QED
        BY <4>1, <4>2
    <3>3. /\ \A b \in Blocks \ {a} : z.block[b] = y.block[b]
          /\ \A s \in Slots \ {p[2]} : z.block[a][s] = y.block[a][s]
          /\ z.block[a][p[2]] = NoEntry
      <4>1. /\ \A b \in Blocks \ {y.inode[d].i_block[p[1]]} : z.block[b] = y.block[b]
            /\ \A s \in Slots \ {p[2]} : z.block[y.inode[d].i_block[p[1]]][s]
                                          = y.block[y.inode[d].i_block[p[1]]][s]
            /\ z.block[y.inode[d].i_block[p[1]]][p[2]] = NoEntry
        BY Zenon, <3>1, EntryDropped
      <4> QED
        BY Zenon, <1>6, <4>1
    <3> HIDE DEF z
    <3>4. w = z
      BY <2>1 DEF z
    <3> QED
      BY <3>2, <3>3, <3>4
<1> HIDE DEF a
<1>8. /\ w.block_bits = v.block_bits \ S /\ w.inode_bits = v.inode_bits \ {i}
      /\ w.inode[i] = Blank
      /\ \A e \in Inodes \ {i, d} : w.inode[e] = v.inode[e]
      /\ w.inode[d].i_block = v.inode[d].i_block
      /\ w.inode[d].i_size = v.inode[d].i_size - 1
  BY <1>1, <1>2, <1>3, <1>4, <1>5, <1>7
<1>9. a \in v.block_bits /\ a \in Blocks /\ a \notin S
  <2>1. p[1] \in 1 .. Len(v.inode[d].i_block)
    BY <1>1, <1>2, PlaceType
  <2> QED
    <3>1. d \in v.inode_bits /\ i \in v.inode_bits /\ d # i
      BY <1>1, <1>2, <1>3
    <3>2. a \in v.block_bits /\ a \in Blocks
      BY <2>1, <3>1, OthersBlocks DEF a
    <3>3. \A l \in 1 .. Len(v.inode[i].i_block) : a # v.inode[i].i_block[l]
      BY <2>1, <3>1, OthersBlocks DEF a
    <3>4. a \notin S
      BY <3>3 DEF ListedIn
    <3> QED
      BY <3>2, <3>4
<1>10. v.inode[d].i_size - 1 # 0 /\ v.inode[d].i_size # 0
  BY <1>1, DirSize, SizeFacts
<1>11. Dirs(w) = Dirs(v) \ {i} /\ d \in Dirs(w)
  <2>1. v.inode_bits \subseteq Inodes
    BY <1>1, Fields
  <2> QED
    <3>1. d \in Dirs(w)
      BY <1>1, <1>3, <1>8, <1>10 DEF Dirs
    <3>2. ASSUME NEW e \in Dirs(w) PROVE e \in Dirs(v) \ {i}
      <4>1. e \in v.inode_bits /\ e # i /\ e \in Inodes /\ w.inode[e].i_size # 0
        BY <1>8, <2>1 DEF Dirs
      <4>2. CASE e = d
        BY <1>3, <4>2
      <4>3. CASE e # d
        <5>1. w.inode[e] = v.inode[e]
          BY <1>8, <4>1, <4>3
        <5> QED
          BY <4>1, <5>1 DEF Dirs
      <4> QED
        BY <4>2, <4>3
    <3>3. ASSUME NEW e \in Dirs(v) \ {i} PROVE e \in Dirs(w)
      <4>1. e \in v.inode_bits /\ e # i /\ e \in Inodes /\ v.inode[e].i_size # 0
        BY <2>1 DEF Dirs
      <4>2. CASE e = d
        BY <3>1, <4>2
      <4>3. CASE e # d
        <5>1. w.inode[e] = v.inode[e]
          BY <1>8, <4>1, <4>3
        <5> QED
          BY <1>8, <4>1, <5>1 DEF Dirs
      <4> QED
        BY <4>2, <4>3
    <3> QED
      BY <3>1, <3>2, <3>3
<1>12. ASSUME NEW e \in Dirs(w)
       PROVE  /\ Places(w, e) = Places(v, e)
              /\ Len(w.inode[e].i_block) = Len(v.inode[e].i_block)
              /\ \A q \in Places(v, e) : e # d \/ q # p => CellAt(w, e, q) = CellAt(v, e, q)
              /\ e # d => w.inode[e].i_size = v.inode[e].i_size
  <2>1. e \in Inodes /\ e \in v.inode_bits /\ e # i
    BY <1>1, <1>11, Fields DEF Dirs
  <2>2. w.inode[e].i_block = v.inode[e].i_block /\ (e # d => w.inode[e] = v.inode[e])
    BY <1>8, <2>1
  <2>3. Places(w, e) = Places(v, e)
    BY <2>2 DEF Places
  <2>4. ASSUME NEW q \in Places(v, e), e # d \/ q # p
        PROVE  CellAt(w, e, q) = CellAt(v, e, q)
    <3> DEFINE b == v.inode[e].i_block[q[1]]
    <3>1. q[1] \in 1 .. Len(v.inode[e].i_block) /\ q[2] \in Slots /\ q = <<q[1], q[2]>>
      BY <1>1, <2>1, PlaceType
    <3>2. b \in Blocks /\ b \notin S
      <4>1. e \in v.inode_bits /\ i \in v.inode_bits /\ e # i
        BY <1>2, <2>1
      <4>2. b \in Blocks /\ \A l \in 1 .. Len(v.inode[i].i_block) : b # v.inode[i].i_block[l]
        BY <3>1, <4>1, OthersBlocks
      <4> QED
        BY <4>2 DEF ListedIn
    <3>3. x.block[b] = v.block[b] /\ y.block[b] = v.block[b]
      BY <1>4, <1>5, <3>2
    <3>4. CASE b = a
      <4>1. p[1] \in 1 .. Len(v.inode[d].i_block) /\ p = <<p[1], p[2]>>
        BY <1>1, <1>2, PlaceType
      <4>2. e = d
        BY <1>1, <2>1, <3>1, <3>4, <4>1, OthersBlocks DEF a
      <4>3. q[1] = p[1]
        BY <2>1, <3>1, <3>4, <4>1, <4>2, OwnBlocks DEF a
      <4>4. q[2] # p[2]
        BY <2>4, <3>1, <4>1, <4>2, <4>3
      <4>5. w.block[a][q[2]] = v.block[a][q[2]]
        BY <1>7, <3>1, <3>3, <3>4, <4>4
      <4> QED
        BY Zenon, <2>2, <3>4, <4>5 DEF CellAt
    <3>5. CASE b # a
      <4>1. w.block[b] = v.block[b]
        BY <1>7, <3>2, <3>3, <3>5
      <4> QED
        BY Zenon, <2>2, <4>1 DEF CellAt
    <3> QED
      BY <3>4, <3>5
  <2> QED
    BY <2>2, <2>3, <2>4
<1>13. Empty(CellAt(w, d, p))
  <2>1. CellAt(w, d, p) = NoEntry
    BY <1>7, <1>8 DEF CellAt, a
  <2> QED
    BY <2>1, NoEntryType
<1>21. Dropped(v, w, d, p, i)
  <2>1. \A e \in Dirs(w) : Len(w.inode[e].i_block) \in 1 .. 2
    BY <1>1, <1>11, <1>12 DEF TreeSound, Dotted
  <2> QED
    BY <1>8, <1>11, <1>12, <1>13, <2>1 DEF Dropped
<1>14. TreeSound(w)
  BY <1>1, <1>21, DroppedSound
<1>15. Owned(w.block_bits, w.inode_bits, Lists(w))
  <2> DEFINE L == Lists(v)
             M == [L EXCEPT ![i] = <<>>]
  <2>1. /\ Owned(v.block_bits, v.inode_bits, L) /\ L \in BlockLists /\ v.inode_bits \in SUBSET Inodes
        /\ L[i] = v.inode[i].i_block
    BY <1>1, <1>2, Fields DEF Sound
  <2>2. Lists(w) = M
    <3>1. \A e \in Inodes : w.inode[e].i_block = IF e = i THEN <<>> ELSE v.inode[e].i_block
      BY <1>8 DEF Blank, Inode
    <3> QED
      BY <3>1 DEF Lists
  <2> HIDE DEF L
  <2>6. S = ListedIn(L[i])
    BY <2>1
  <2>3. Owned(v.block_bits \ S, v.inode_bits, M)
    BY <1>2, <2>1, <2>6, OwnedEmptied
  <2>4. M[i] = <<>>
    BY <1>2, <2>1 DEF BlockLists
  <2> HIDE DEF M
  <2>5. Owned(v.block_bits \ S, v.inode_bits \ {i}, M)
    BY <1>2, <2>3, <2>4, OwnedDies
  <2> QED
    BY <1>8, <2>2, <2>5
<1>16. Clean(w)
  <2>1. SUFFICES ASSUME NEW b \in Blocks \ w.block_bits PROVE NoEntries(w.block[b])
    BY DEF Clean
  <2>2. b # a /\ (b \in S \/ b \notin v.block_bits)
    BY <1>8, <1>9
  <2>3. w.block[b] = x.block[b]
    BY <1>5, <1>7, <2>2
  <2>4. b \notin S => NoEntries(v.block[b])
    BY <2>2 DEF Sound, Clean
  <2> QED
    BY <1>4, <2>2, <2>3, <2>4
<1>17. Small(w)
  <2>1. \A e \in Inodes : Len(v.inode[e].i_block) <= 8
                           /\ (e \notin v.inode_bits => v.inode[e].i_size = 0)
    BY DEF Sound, Small
  <2>2. Len(w.inode[i].i_block) = 0 /\ w.inode[i].i_size = 0
    BY <1>8 DEF Blank, Inode
  <2> QED
    BY <1>1, <1>2, <1>3, <1>8, <2>1, <2>2 DEF Small
<1>18. BlocksCounted(w) /\ InodesCounted(w)
  BY <1>4, <1>5, <1>7 DEF Sound, BlocksCounted, InodesCounted
<1>19. Sound(w)
  BY <1>7, <1>14, <1>15, <1>16, <1>17, <1>18 DEF Sound
<1>20. Gone(v, w, d, p, i)
  BY <1>2, <1>3, <1>8, <1>11, <1>12, <1>13 DEF Gone
<1>22. FilesKept(v, w, w.inode_bits \ Dirs(w))
  <2>1. ASSUME NEW e \in w.inode_bits \ Dirs(w)
        PROVE  w.inode[e] = v.inode[e]
    BY <1>1, <1>8, <1>11, <2>1, Fields
  <2>2. ASSUME NEW e \in w.inode_bits \ Dirs(w), NEW k \in 1 .. Len(v.inode[e].i_block)
        PROVE  w.block[v.inode[e].i_block[k]] = v.block[v.inode[e].i_block[k]]
    <3> DEFINE b == v.inode[e].i_block[k]
    <3>1. e \in v.inode_bits /\ e # i /\ e # d
      BY <1>8, <1>11
    <3>2. p[1] \in 1 .. Len(v.inode[d].i_block)
      BY <1>1, <1>2, PlaceType
    <3>3. b \in Blocks /\ b # a
      BY <1>1, <3>1, <3>2, OthersBlocks DEF a
    <3>4. \A l \in 1 .. Len(v.inode[i].i_block) : b # v.inode[i].i_block[l]
      BY <1>2, <3>1, OthersBlocks
    <3>5. b \notin S
      BY <3>4 DEF ListedIn
    <3> HIDE DEF b
    <3>6. w.block[b] = v.block[b]
      BY <1>4, <1>5, <1>7, <3>3, <3>5
    <3> QED
      BY <3>6 DEF b
  <2> QED
    BY <2>1, <2>2 DEF FilesKept
<1>23. Shrunk(v, w, {i})
  BY <1>1, <1>21, <1>22, DroppedShrinks
<1> QED
  BY <1>19, <1>20, <1>23

\* The list of blocks of an inode is replaced.
LEMMA ListSet ==
  ASSUME NEW v \in Volumes, NEW d \in Inodes, NEW a \in Seq(Blocks)
  PROVE  /\ OnlyInodes(v, [v EXCEPT !.inode[d].i_block = a])
         /\ \A i \in Inodes \ {d} : [v EXCEPT !.inode[d].i_block = a].inode[i] = v.inode[i]
         /\ [v EXCEPT !.inode[d].i_block = a].inode[d].i_block = a
         /\ [v EXCEPT !.inode[d].i_block = a].inode[d].i_mode = v.inode[d].i_mode
         /\ [v EXCEPT !.inode[d].i_block = a].inode[d].i_size = v.inode[d].i_size
<1> DEFINE table == [v.inode EXCEPT ![d].i_block = a]
<1>1. v.inode \in [Inodes -> InodeRecords]
  BY Fields
<1>2. [v EXCEPT !.inode[d].i_block = a] = [v EXCEPT !.inode = table]
  BY DEF Volumes
<1>3. /\ table \in [Inodes -> InodeRecords]
      /\ \A i \in Inodes \ {d} : table[i] = v.inode[i]
      /\ table[d].i_block = a /\ table[d].i_mode = v.inode[d].i_mode
      /\ table[d].i_size = v.inode[d].i_size
  BY <1>1 DEF InodeRecords
<1> HIDE DEF table
<1>4. OnlyInodes(v, [v EXCEPT !.inode = table]) /\ [v EXCEPT !.inode = table].inode = table
  BY <1>3, InodesReplaced
<1> QED
  BY <1>2, <1>3, <1>4

\* A directory of two blocks without its second.
Trimmed(v, d) ==
  [freeDataBlock(v, v.inode[d].i_block[2]) EXCEPT
     !.inode[d].i_block = <<v.inode[d].i_block[1]>>]

\* A directory's second block goes when no cell of it has an inode.
LEMMA BlockTrimmed ==
  ASSUME NEW v, Sound(v), NEW d \in Dirs(v), Len(v.inode[d].i_block) = 2,
         \A s \in Slots : BlockAt(v, d, 2)[s].inode = 0,
         NEW w, w = Trimmed(v, d)
  PROVE  Sound(w) /\ Dirs(w) = Dirs(v) /\ Shrunk(v, w, {})
<1> DEFINE b == v.inode[d].i_block[2]
           c == v.inode[d].i_block[1]
           x == freeDataBlock(v, b)
<1>1. v \in Volumes /\ TreeSound(v) /\ d \in Inodes /\ d \in v.inode_bits
      /\ v.inode_bits \in SUBSET Inodes
  BY Fields DEF Sound, Dirs
<1>2. 1 \in 1 .. Len(v.inode[d].i_block) /\ 2 \in 1 .. Len(v.inode[d].i_block)
  OBVIOUS
<1>3. b \in v.block_bits /\ b \in Blocks /\ c \in Blocks /\ c # b
  BY <1>1, <1>2, OwnBlocks
<1>4. /\ x \in Volumes /\ x.block_bits = v.block_bits \ {b}
      /\ x.inode = v.inode /\ x.inode_bits = v.inode_bits
      /\ x.free_inodes_count = v.free_inodes_count
      /\ \A a \in Blocks \ {b} : x.block[a] = v.block[a]
      /\ NoEntries(x.block[b])
      /\ BlocksCounted(v) => BlocksCounted(x)
  <2>1. Freed(v, x, {b})
    BY <1>1, <1>3, OneFreed
  <2> HIDE DEF x, b
  <2> QED
    BY <2>1 DEF Freed
<1>5. <<c>> \in Seq(Blocks) /\ Len(<<c>>) = 1 /\ <<c>>[1] = c
  BY <1>3
<1>6. w = [x EXCEPT !.inode[d].i_block = <<c>>]
  BY DEF Trimmed
<1> HIDE DEF x, b, c
<1>7. /\ OnlyInodes(x, w) /\ \A i \in Inodes \ {d} : w.inode[i] = x.inode[i]
      /\ w.inode[d].i_block = <<c>> /\ w.inode[d].i_size = x.inode[d].i_size
  <2> DEFINE a == <<c>>
             z == [x EXCEPT !.inode[d].i_block = a]
  <2>1. w = z /\ a \in Seq(Blocks)
    BY <1>5, <1>6
  <2>2. a = <<c>>
    OBVIOUS
  <2> HIDE DEF a
  <2>3. /\ OnlyInodes(x, z) /\ \A i \in Inodes \ {d} : z.inode[i] = x.inode[i]
        /\ z.inode[d].i_block = a /\ z.inode[d].i_size = x.inode[d].i_size
    BY <1>1, <1>4, <2>1, ListSet
  <2> HIDE DEF z
  <2> QED
    BY <2>1, <2>2, <2>3
<1>8. /\ w \in Volumes /\ w.block_bits = v.block_bits \ {b} /\ w.inode_bits = v.inode_bits
      /\ w.free_inodes_count = v.free_inodes_count /\ w.block = x.block
      /\ w.free_blocks_count = x.free_blocks_count
      /\ \A i \in Inodes \ {d} : w.inode[i] = v.inode[i]
      /\ w.inode[d].i_block = <<c>> /\ w.inode[d].i_size = v.inode[d].i_size
  BY <1>4, <1>7 DEF OnlyInodes
<1>9. \A i \in Inodes : w.inode[i].i_size = v.inode[i].i_size
  BY <1>8
<1>10. Dirs(w) = Dirs(v)
  BY <1>1, <1>8, <1>9 DEF Dirs
<1>11. ASSUME NEW e \in Dirs(v)
       PROVE  /\ Len(w.inode[e].i_block) \in 1 .. 2 /\ Places(w, e) \subseteq Places(v, e)
              /\ \A q \in Places(v, e) \ Places(w, e) : Empty(CellAt(v, e, q))
              /\ \A q \in Places(w, e) : CellAt(w, e, q) = CellAt(v, e, q)
  <2>1. e \in Inodes /\ e \in v.inode_bits /\ Len(v.inode[e].i_block) \in 1 .. 2
    BY <1>1 DEF Dirs, TreeSound, Dotted
  <2>2. CASE e # d
    <3>1. w.inode[e].i_block = v.inode[e].i_block
      BY <1>8, <2>1, <2>2
    <3>2. ASSUME NEW k \in 1 .. Len(v.inode[e].i_block)
          PROVE  w.block[v.inode[e].i_block[k]] = v.block[v.inode[e].i_block[k]]
      <4> DEFINE a == v.inode[e].i_block[k]
      <4>1. a \in Blocks /\ a # b
        BY <1>1, <1>2, <2>1, <2>2, OthersBlocks DEF b
      <4> HIDE DEF a
      <4>2. w.block[a] = v.block[a]
        BY <1>4, <1>8, <4>1
      <4> QED
        BY <4>2 DEF a
    <3>3. /\ Places(w, e) = Places(v, e) /\ Len(w.inode[e].i_block) = Len(v.inode[e].i_block)
          /\ \A q \in Places(v, e) : CellAt(w, e, q) = CellAt(v, e, q)
      BY <3>1, <3>2, CellsKept
    <3> QED
      BY <2>1, <3>3
  <2>3. CASE e = d
    <3>1. Places(w, d) = (1 .. 1) \X Slots /\ Places(v, d) = (1 .. 2) \X Slots
      BY <1>5, <1>8 DEF Places
    <3>2. ASSUME NEW s \in Slots PROVE CellAt(w, d, <<1, s>>) = CellAt(v, d, <<1, s>>)
      <4>1. w.block[c] = v.block[c]
        BY <1>3, <1>4, <1>8
      <4>2. w.inode[d].i_block[1] = c
        BY <1>5, <1>8
      <4> QED
        BY <4>1, <4>2 DEF CellAt, c
    <3>3. ASSUME NEW s \in Slots PROVE Empty(CellAt(v, d, <<2, s>>))
      <4>1. CellAt(v, d, <<2, s>>).inode = 0
        BY DEF CellAt, BlockAt
      <4>2. <<2, s>> \in Places(v, d) \ {Dot, DotDot}
        BY <3>1 DEF Dot, DotDot
      <4>3. ~Names1(v, d, CellAt(v, d, <<2, s>>))
        BY <4>1 DEF Names1, root
      <4> QED
        BY <1>1, <4>2, <4>3 DEF TreeSound, Tidy
    <3>4. \A q \in (1 .. 2) \X Slots :
             \/ q \in (1 .. 1) \X Slots
             \/ \E s \in Slots : q = <<2, s>>
      OBVIOUS
    <3>5. \A q \in (1 .. 1) \X Slots : q \in (1 .. 2) \X Slots /\ \E s \in Slots : q = <<1, s>>
      OBVIOUS
    <3>6. Len(w.inode[d].i_block) = 1
      BY <1>5, <1>8
    <3>7. Places(w, d) \subseteq Places(v, d)
      BY <3>1, <3>5
    <3>8. \A q \in Places(v, d) \ Places(w, d) : Empty(CellAt(v, d, q))
      BY <3>1, <3>3, <3>4
    <3>9. \A q \in Places(w, d) : CellAt(w, d, q) = CellAt(v, d, q)
      BY <3>1, <3>2, <3>5
    <3> QED
      BY <2>3, <3>6, <3>7, <3>8, <3>9
  <2> QED
    BY <2>2, <2>3
<1>18. Same(v, w)
  <2>1. \A e \in Dirs(v) : w.inode[e].i_size = v.inode[e].i_size
    BY <1>1, <1>9 DEF Dirs
  <2> QED
    BY <1>8, <1>10, <1>11, <2>1 DEF Same
<1>12. TreeSound(w)
  BY <1>1, <1>18, SameSound
<1>13. Owned(w.block_bits, w.inode_bits, Lists(w))
  <2> DEFINE L == Lists(v)
  <2>1. /\ Owned(v.block_bits, v.inode_bits, L) /\ L \in BlockLists
        /\ L[d] = v.inode[d].i_block
    BY <1>1, Fields DEF Sound
  <2>2. Lists(w) = [L EXCEPT ![d] = <<L[d][1]>>]
    <3>1. \A e \in Inodes : w.inode[e].i_block = IF e = d THEN <<c>> ELSE v.inode[e].i_block
      BY <1>8
    <3> QED
      BY <2>1, <3>1 DEF Lists, c
  <2> HIDE DEF L
  <2>3. Owned(v.block_bits \ {L[d][2]}, v.inode_bits, [L EXCEPT ![d] = <<L[d][1]>>])
    BY <1>1, <2>1, OwnedShrinks
  <2> QED
    BY <1>8, <2>1, <2>2, <2>3 DEF b
<1>14. Clean(w)
  <2>1. SUFFICES ASSUME NEW a \in Blocks \ w.block_bits PROVE NoEntries(w.block[a])
    BY DEF Clean
  <2>2. a = b \/ a \notin v.block_bits
    BY <1>8
  <2>3. a # b => NoEntries(v.block[a])
    BY <2>2 DEF Sound, Clean
  <2> QED
    BY <1>4, <1>8, <2>2, <2>3
<1>15. Small(w)
  <2>1. \A e \in Inodes : Len(v.inode[e].i_block) <= 8
                           /\ (e \notin v.inode_bits => v.inode[e].i_size = 0)
    BY DEF Sound, Small
  <2>2. Len(w.inode[d].i_block) <= 8
    BY <1>5, <1>8
  <2> QED
    BY <1>8, <1>9, <2>1, <2>2 DEF Small
<1>16. BlocksCounted(w) /\ InodesCounted(w)
  BY <1>4, <1>8 DEF Sound, BlocksCounted, InodesCounted
<1>17. Sound(w)
  BY <1>8, <1>12, <1>13, <1>14, <1>15, <1>16 DEF Sound
<1>19. FilesKept(v, w, w.inode_bits \ Dirs(w))
  <2>1. SUFFICES ASSUME NEW e \in v.inode_bits \ Dirs(v)
                 PROVE  /\ w.inode[e] = v.inode[e]
                        /\ \A k \in 1 .. Len(v.inode[e].i_block) :
                             w.block[v.inode[e].i_block[k]] = v.block[v.inode[e].i_block[k]]
    BY <1>8, <1>10 DEF FilesKept
  <2>2. e \in Inodes /\ e # d /\ e \in v.inode_bits
    BY <1>1
  <2>3. ASSUME NEW k \in 1 .. Len(v.inode[e].i_block)
        PROVE  w.block[v.inode[e].i_block[k]] = v.block[v.inode[e].i_block[k]]
    <3> DEFINE a == v.inode[e].i_block[k]
    <3>1. a \in Blocks /\ a # b
      BY <1>1, <1>2, <2>2, OthersBlocks DEF b
    <3> HIDE DEF a
    <3>2. w.block[a] = v.block[a]
      BY <1>4, <1>8, <3>1
    <3> QED
      BY <3>2 DEF a
  <2> QED
    BY <1>8, <2>2, <2>3
<1>20. Shrunk(v, w, {})
  BY <1>1, <1>18, <1>19, SameShrinks
<1> QED
  BY <1>10, <1>17, <1>20

\* rmdir's walk over the blocks of a directory leaves the first, which has . in it, and
\* may trim the second.
LEMMA RmdirTrims ==
  ASSUME NEW v, Sound(v), NEW d \in Dirs(v), NEW w,
         w = RmdirWalked(v, d)
  PROVE  Sound(w) /\ Dirs(w) = Dirs(v) /\ Shrunk(v, w, {})
<1> DEFINE n == Len(v.inode[d].i_block)
           old == v.inode[d].i_block
<1>1. n \in 1 .. 2 /\ TreeSound(v) /\ CellAt(v, d, Dot) = Entry(d, DIR, ".", 1)
  BY DEF Sound, TreeSound, Dotted
<1>0. n \in Nat /\ n = Len(v.inode[d].i_block) /\ n = Len(old)
  BY <1>1
<1> HIDE DEF n, old
<1>2. PICK h : Walk(h, "rmdir", d, v, n) /\ w = h[n]
  <2>1. \E h : Walk(h, "rmdir", d, v, n) /\ RmdirWalked(v, d) = h[n]
    BY <1>0, TrimWalks DEF n
  <2> QED
    BY <2>1
<1>3. h[0] = v /\ \A k \in 1 .. n : h[k] = rmdirFreesBlock(h[k - 1], d, k)
  BY <1>2 DEF Walk, Step
<1>4. rmdirFreesBlock(v, d, 1) = v
  <2>1. 0 \in Slots /\ BlockAt(v, d, 1)[0].name_len = 1
    BY <1>1, SizeFacts DEF Slots, BlockAt, CellAt, Dot, Entry
  <2> QED
    BY <2>1 DEF rmdirFreesBlock
<1>5. h[1] = v
  BY <1>1, <1>3, <1>4
<1>8. Shrunk(v, v, {})
  BY <1>1, NothingShrinks
<1>6. CASE n = 1
  BY <1>2, <1>5, <1>6, <1>8
<1>7. CASE n = 2
  <2>1. w = rmdirFreesBlock(v, d, 2)
    BY <1>2, <1>3, <1>5, <1>7
  <2>2. CASE \E s \in Slots : BlockAt(v, d, 2)[s].inode # 0 \/ BlockAt(v, d, 2)[s].name_len # 0
    <3>1. w = v
      BY <2>1, <2>2 DEF rmdirFreesBlock
    <3> QED
      BY <1>8, <3>1
  <2>3. CASE ~\E s \in Slots : BlockAt(v, d, 2)[s].inode # 0 \/ BlockAt(v, d, 2)[s].name_len # 0
    <3>1. w = [freeDataBlock(v, old[2]) EXCEPT !.inode[d].i_block =
                 [j \in 1 .. Len(old) - 1 |->
                    IF 2 <= j /\ j < Len(old) - 1 THEN old[j + 1] ELSE old[j]]]
      <4>1. ~(2 > Len(v.inode[d].i_block))
        BY <1>0, <1>7
      <4> QED
        BY Zenon, <2>1, <2>3, <4>1 DEF rmdirFreesBlock, old
    <3>2. [j \in 1 .. Len(old) - 1 |->
             IF 2 <= j /\ j < Len(old) - 1 THEN old[j + 1] ELSE old[j]] = <<old[1]>>
      BY <1>0, <1>7
    <3>3. w = [freeDataBlock(v, old[2]) EXCEPT !.inode[d].i_block = <<old[1]>>]
      BY <3>1, <3>2
    <3>4. w = Trimmed(v, d)
      BY <3>3 DEF Trimmed, old
    <3> QED
      BY <1>0, <1>7, <2>3, <3>4, BlockTrimmed
  <2> QED
    BY <2>2, <2>3
<1> QED
  BY <1>1, <1>6, <1>7

\* rm's walk leaves a directory alone if its second block, if any, has an inode in it.
LEMMA RmTrims ==
  ASSUME NEW v, Sound(v), NEW d \in Dirs(v), NEW w,
         w = RmWalked(v, d),
         Len(v.inode[d].i_block) = 2 => \E s \in Slots : BlockAt(v, d, 2)[s].inode # 0
  PROVE  w = v
<1> DEFINE n == Len(v.inode[d].i_block)
<1>1. n \in 1 .. 2
  BY DEF Sound, TreeSound, Dotted
<1>0. n \in Nat /\ n = Len(v.inode[d].i_block)
  BY <1>1
<1> HIDE DEF n
<1>2. PICK h : Walk(h, "rm", d, v, n) /\ w = h[n]
  <2>1. \E h : Walk(h, "rm", d, v, n) /\ RmWalked(v, d) = h[n]
    BY <1>0, TrimWalks DEF n
  <2> QED
    BY <2>1
<1>3. h[0] = v /\ \A k \in 1 .. n : h[k] = rmFreesBlock(h[k - 1], d, k)
  BY <1>2 DEF Walk, Step
<1>4. rmFreesBlock(v, d, 1) = v
  BY DEF rmFreesBlock
<1>5. h[1] = v
  BY <1>1, <1>3, <1>4
<1>6. CASE n = 1
  BY <1>2, <1>5, <1>6
<1>7. CASE n = 2
  <2>1. w = rmFreesBlock(v, d, 2)
    BY <1>2, <1>3, <1>5, <1>7
  <2>2. \E s \in Slots : BlockAt(v, d, 2)[s].inode # 0
    BY <1>0, <1>7
  <2> QED
    BY <2>1, <2>2 DEF rmFreesBlock
<1> QED
  BY <1>1, <1>6, <1>7

\* A set of places that is not empty has a first.
LEMMA FirstOne ==
  ASSUME NEW P, P \subseteq Nat \X Nat, P # {}
  PROVE  First(P) \in P
<1> DEFINE Rows == {k \in Nat : \E p \in P : p[1] = k}
<1>1. PICK k \in Rows : \A j \in Rows : k <= j
  <2>1. Rows \in SUBSET Nat /\ Rows # {}
    OBVIOUS
  <2> HIDE DEF Rows
  <2> QED
    BY <2>1, LeastNatural
<1> DEFINE Columns == {s \in Nat : \E p \in P : p[1] = k /\ p[2] = s}
<1>2. PICK s \in Columns : \A t \in Columns : s <= t
  <2>1. Columns \in SUBSET Nat /\ Columns # {}
    OBVIOUS
  <2> HIDE DEF Columns
  <2> QED
    BY <2>1, LeastNatural
<1>3. PICK p \in P : p[1] = k /\ p[2] = s
  BY <1>2
<1>4. ASSUME NEW q \in P PROVE p[1] < q[1] \/ (p[1] = q[1] /\ p[2] <= q[2])
  <2>1. q[1] \in Nat /\ q[2] \in Nat /\ q[1] \in Rows /\ k \in Nat /\ s \in Nat
    OBVIOUS
  <2>2. k <= q[1]
    BY <1>1, <2>1
  <2>3. q[1] = k => q[2] \in Columns
    BY <2>1
  <2>4. q[1] = k => s <= q[2]
    BY <1>2, <2>3
  <2> QED
    BY <1>3, <2>1, <2>2, <2>4
<1> QED
  BY <1>4 DEF First

\* What searchFile finds.
LEMMA SearchFinds ==
  ASSUME NEW v, Sound(v), NEW d \in Dirs(v), NEW n, NEW t, Found(v, d, n, t)
  PROVE  /\ searchFile(v, d, n, t) \in Places(v, d)
         /\ CellAt(v, d, searchFile(v, d, n, t)).type = t
         /\ CellAt(v, d, searchFile(v, d, n, t)).name = n
<1>1. Matches(v, d, n, t) \subseteq Places(v, d) /\ Matches(v, d, n, t) # {}
  BY DEF Matches, Found
<1>2. Places(v, d) \subseteq Nat \X Nat
  <2>1. Places(v, d) \subseteq (1 .. 2) \X Slots
    BY PlacesOf DEF Sound, TreeSound, Dotted
  <2> QED
    BY <2>1 DEF Slots
<1>3. Matches(v, d, n, t) \subseteq Nat \X Nat
  BY <1>1, <1>2
<1>4. searchFile(v, d, n, t) \in Matches(v, d, n, t)
  BY <1>1, <1>3, FirstOne DEF searchFile
<1> QED
  BY <1>1, <1>4 DEF Matches

\* A name leads to an entry, and to a live inode of the type asked for.
LEMMA NameFinds ==
  ASSUME NEW v, Sound(v), NEW d \in Dirs(v), NEW n \in Names, NEW t, Found(v, d, n, t)
  PROVE  /\ searchFile(v, d, n, t) \in Entries(v, d)
         /\ Node(v, d, n, t) = CellAt(v, d, searchFile(v, d, n, t)).inode
         /\ Node(v, d, n, t) \in v.inode_bits \ {root} /\ Node(v, d, n, t) \in Inodes
         /\ t = DIR <=> Node(v, d, n, t) \in Dirs(v)
<1> DEFINE p == searchFile(v, d, n, t)
<1>1. p \in Places(v, d) /\ CellAt(v, d, p).type = t /\ CellAt(v, d, p).name = n
  BY SearchFinds
<1> HIDE DEF p
<1>2. p \in Entries(v, d)
  BY <1>1 DEF Entries
<1>3. Names1(v, d, CellAt(v, d, p)) /\ p \in Entries(v, d) /\ v \in Volumes /\ TreeSound(v)
  <2>1. TreeSound(v) /\ v \in Volumes
    BY DEF Sound
  <2> QED
    BY <1>2, <2>1, EntryNames
<1>4. Node(v, d, n, t) = CellAt(v, d, p).inode
  BY DEF Node, p
<1>5. v.inode_bits \in SUBSET Inodes
  BY <1>3, Fields
<1> QED
  BY <1>1, <1>3, <1>4, <1>5 DEF Names1, p

\* rm of a file whose blocks are in the buffer: nothing goes but the file, as long as the
\* second block of the directory, if any, has another entry.
LEMMA FileRemoved ==
  ASSUME NEW v, Sound(v), NEW d \in Dirs(v), NEW p \in Entries(v, d), NEW i,
         i = CellAt(v, d, p).inode, i \notin Dirs(v),
         NEW w, w = RemoveFile(v, d, p, v.inode[i].i_block),
         BlocksInUse(v, d, p)
  PROVE  Sound(w) /\ Gone(v, w, d, p, i) /\ Shrunk(v, w, {i})
<1> DEFINE a == v.inode[i].i_block
           x == freeDataBlocks(v, a)
           z == DropEntry(freeInode(x, i), d, p)
<1>1. w = RmWalked(z, d)
  BY DEF RemoveFile, RmWalked
<1>2. v \in Volumes /\ TreeSound(v) /\ i \in v.inode_bits /\ i \in Inodes /\ a \in Seq(Blocks)
  <2>1. v \in Volumes /\ TreeSound(v)
    BY DEF Sound
  <2>2. i \in v.inode_bits /\ i \in Inodes
    BY <2>1, EntryNames, Fields DEF Names1
  <2> QED
    BY <2>1, <2>2, Fields
<1>3. Freed(v, x, ListedIn(a))
  <2>1. \A k \in 1 .. Len(a) : a[k] \in v.block_bits
    BY <1>2, OwnBlocks
  <2>2. \A k, l \in 1 .. Len(a) : a[k] = a[l] => k = l
    BY <1>2, OwnBlocks
  <2> HIDE DEF a
  <2> QED
    BY <1>2, <2>1, <2>2, ListFreed
<1> HIDE DEF x
<1>4. Sound(z) /\ Gone(v, z, d, p, i) /\ Shrunk(v, z, {i})
  <2>1. a = v.inode[i].i_block
    OBVIOUS
  <2> DEFINE S == ListedIn(a)
             y == z
  <2>2. S = ListedIn(v.inode[i].i_block) /\ y = DropEntry(freeInode(x, i), d, p)
    OBVIOUS
  <2> HIDE DEF S, y
  <2>3. Freed(v, x, S)
    BY <1>3 DEF S
  <2>4. Sound(y) /\ Gone(v, y, d, p, i) /\ Shrunk(v, y, {i})
    BY <2>2, <2>3, EntryGone
  <2> QED
    BY <2>4 DEF y
<1> HIDE DEF z
<1>5. d \in Dirs(z) /\ z.inode[d].i_block = v.inode[d].i_block
  BY <1>4 DEF Gone
<1>6. Len(z.inode[d].i_block) = 2 => \E s \in Slots : BlockAt(z, d, 2)[s].inode # 0
  <2> SUFFICES ASSUME Len(v.inode[d].i_block) = 2
               PROVE  \E s \in Slots : BlockAt(z, d, 2)[s].inode # 0
    BY <1>5
  <2>1. 2 \in 2 .. Len(v.inode[d].i_block) /\ 2 \in 1 .. Len(v.inode[d].i_block)
    OBVIOUS
  <2>2. PICK s \in Slots : <<2, s>> # p /\ BlockAt(v, d, 2)[s].inode # 0
    BY <2>1 DEF BlocksInUse
  <2> DEFINE q == <<2, s>>
  <2>3. q \in Places(v, d) /\ q # p /\ q[1] = 2 /\ q[2] = s
    BY <2>1, <2>2 DEF Places
  <2>4. CellAt(v, d, q) = BlockAt(v, d, 2)[s] /\ CellAt(z, d, q) = BlockAt(z, d, 2)[s]
    BY <2>3 DEF CellAt, BlockAt
  <2> HIDE DEF q
  <2>5. CellAt(z, d, q) = CellAt(v, d, q)
    BY <1>4, <1>5, <2>3 DEF Gone
  <2> QED
    BY <2>2, <2>4, <2>5
<1>7. w = z
  BY <1>1, <1>4, <1>5, <1>6, RmTrims
<1> QED
  BY <1>4, <1>7

\* rmdir of a directory with . and .. only: it goes, and then perhaps the second block of
\* the directory that named it.
LEMMA EmptyRemoved ==
  ASSUME NEW v, Sound(v), NEW d \in Dirs(v), NEW p \in Entries(v, d), NEW i,
         i = CellAt(v, d, p).inode, i \in Dirs(v), Entries(v, i) = {},
         Len(v.inode[i].i_block) = 1, NEW w, w = RemoveEmpty(v, d, p)
  PROVE  Sound(w) /\ Dirs(w) = Dirs(v) \ {i} /\ i # d /\ Shrunk(v, w, {i})
<1> DEFINE a == v.inode[i].i_block
           b == a[1]
           x == freeDataBlock(v, b)
           z == DropEntry(freeInode(x, i), d, p)
<1>1. w = RmdirWalked(z, d)
  BY DEF RemoveEmpty, RmdirWalked
<1>2. v \in Volumes /\ TreeSound(v) /\ i \in v.inode_bits /\ i \in Inodes
  BY Fields DEF Sound, Dirs
<1>3. b \in v.block_bits /\ 1 \in 1 .. Len(a) /\ ListedIn(a) = {b}
  <2>1. 1 \in 1 .. Len(a) /\ 1 .. Len(a) = {1}
    OBVIOUS
  <2>2. b \in v.block_bits
    BY <1>2, <2>1, OwnBlocks
  <2> QED
    BY <2>1, <2>2 DEF ListedIn
<1>4. Freed(v, x, ListedIn(a))
  <2> HIDE DEF b
  <2> QED
    BY <1>2, <1>3, OneFreed
<1> HIDE DEF x
<1>5. Sound(z) /\ Gone(v, z, d, p, i) /\ Shrunk(v, z, {i})
  <2> DEFINE S == ListedIn(a)
             y == z
  <2>2. S = ListedIn(v.inode[i].i_block) /\ y = DropEntry(freeInode(x, i), d, p)
    OBVIOUS
  <2> HIDE DEF S, y
  <2>3. Freed(v, x, S)
    BY <1>4 DEF S
  <2>4. Sound(y) /\ Gone(v, y, d, p, i) /\ Shrunk(v, y, {i})
    BY <2>2, <2>3, EntryGone
  <2> QED
    BY <2>4 DEF y
<1> HIDE DEF z
<1>6. d \in Dirs(z) /\ Dirs(z) = Dirs(v) \ {i} /\ i # d
  BY <1>5 DEF Gone
<1>7. Sound(w) /\ Dirs(w) = Dirs(z) /\ Shrunk(z, w, {})
  BY <1>1, <1>5, <1>6, RmdirTrims
<1>8. Shrunk(v, w, {i} \cup {})
  BY <1>5, <1>7, ShrunkTwice
<1>9. {i} \cup {} = {i}
  OBVIOUS
<1> QED
  BY <1>6, <1>7, <1>8, <1>9

\* rmdir outside the root, of a directory of one block that names files only, none of
\* them open: slot by slot the files go.
LEMMA ChildrenRemoved ==
  ASSUME Sound(vol), NEW d \in Dirs(vol), NEW i \in Dirs(vol), i # d, NEW p \in Entries(vol, d),
         Len(vol.inode[i].i_block) = 1, Children(vol, i, DIR) = {},
         \A q \in Children(vol, i, FILE) : ~searchInTable(CellAt(vol, i, q).inode),
         NEW w, w = ChildrenWalked(vol, i)
  PROVE  /\ Sound(w) /\ Dirs(w) = Dirs(vol) /\ Entries(w, i) = {}
         /\ Len(w.inode[i].i_block) = 1
         /\ p \in Entries(w, d) /\ CellAt(w, d, p) = CellAt(vol, d, p)
         /\ Shrunk(vol, w, {CellAt(vol, i, q).inode : q \in Entries(vol, i)})
<1> DEFINE n == DIR_ENTRY_NUM_PER_BLOCK
           From(k) == {q \in Entries(vol, i) : q[2] >= k}
           Swept(k) == {CellAt(vol, i, q).inode : q \in Entries(vol, i) \ From(k)}
           Left(u, k) ==
             /\ Sound(u) /\ Dirs(u) = Dirs(vol) /\ u.inode_bits \subseteq vol.inode_bits
             /\ u.inode[i].i_block = vol.inode[i].i_block
             /\ \A e \in u.inode_bits \ {i} : u.inode[e] = vol.inode[e]
             /\ p \in Places(u, d) /\ CellAt(u, d, p) = CellAt(vol, d, p)
             /\ Entries(u, i) = From(k)
             /\ \A q \in From(k) : CellAt(u, i, q) = CellAt(vol, i, q)
             /\ Shrunk(vol, u, Swept(k))
<1>1. n \in Nat
  BY SizeFacts
<1>2. PICK h : Walk(h, "child", i, vol, n) /\ w = h[n]
  BY ChildWalk
<1>3. h[0] = vol /\ \A k \in 1 .. n : h[k] = RemoveChild(h[k - 1], i, <<1, k - 1>>)
  BY <1>2 DEF Walk, Step
<1> HIDE DEF n
<1> DEFINE Good == {k \in Nat : k <= n => Left(h[k], k)}
<1>4. 0 \in Good
  <2>1. From(0) = Entries(vol, i)
    BY DEF Entries, Places, Slots
  <2>2. p \in Places(vol, d)
    BY DEF Entries
  <2>3. Swept(0) = {} /\ Shrunk(vol, vol, {})
    BY <2>1, NothingShrinks DEF Sound
  <2> HIDE DEF From, Swept
  <2> QED
    BY <1>3, <2>1, <2>2, <2>3
<1>5. ASSUME NEW k \in Nat, k \in Good PROVE k + 1 \in Good
  <2> HIDE DEF Left
  <2>1. SUFFICES ASSUME k + 1 <= n PROVE Left(h[k + 1], k + 1)
    OBVIOUS
  <2> USE DEF Left
  <2> DEFINE u == h[k]
             q == <<1, k>>
             c == CellAt(u, i, q)
             j == c.inode
  <2>2. Left(u, k)
    BY <1>1, <1>5, <2>1
  <2>3. h[k + 1] = RemoveChild(u, i, q)
    BY <1>1, <1>3, <2>1
  <2> HIDE DEF u
  <2>4. i \in Dirs(u) /\ d \in Dirs(u) /\ TreeSound(u) /\ u \in Volumes /\ i \in Inodes
    BY <2>2, Fields DEF Sound
  <2>5. From(k + 1) = From(k) \ {q}
    <3>1. ASSUME NEW r \in Entries(vol, i)
          PROVE  r[2] \in Int /\ (r[2] >= k + 1 <=> r[2] >= k /\ r # q)
      <4>1. vol \in Volumes
        BY DEF Sound
      <4>2. r[1] \in 1 .. Len(vol.inode[i].i_block) /\ r = <<r[1], r[2]>> /\ r[2] \in Slots
        BY <2>4, <4>1, PlaceType DEF Entries
      <4>3. r[1] = 1 /\ r[2] \in Int
        BY <4>2 DEF Slots
      <4>4. r # q <=> r[2] # k
        BY <4>2, <4>3
      <4> QED
        BY <4>3, <4>4
    <3> QED
      BY <3>1
  <2>6. CASE q \notin Entries(u, i)
    <3>1. q \notin Children(u, i, FILE) /\ q \notin Children(u, i, DIR)
      BY <2>6 DEF Children, Entries
    <3>2. h[k + 1] = u
      BY <2>3, <3>1 DEF RemoveChild
    <3>3. From(k + 1) = From(k) /\ Swept(k + 1) = Swept(k)
      BY <2>2, <2>5, <2>6
    <3> HIDE DEF From, Swept
    <3> QED
      BY <2>2, <3>2, <3>3
  <2>7. CASE q \in Entries(u, i)
    <3> DEFINE x == h[k + 1]
    <3>1. q \in Entries(vol, i) /\ c = CellAt(vol, i, q)
      BY <2>2, <2>7
    <3>2. /\ c.name \in Names /\ j \in u.inode_bits \ {root} /\ c.type \in {FILE, DIR}
          /\ c.type = DIR <=> j \in Dirs(u)
      BY <2>4, <2>7, EntryNames DEF Names1
    <3>3. q \in Places(u, i) /\ q \in Places(vol, i)
      BY <2>7, <3>1 DEF Entries
    <3>4. c.type = FILE
      <4>1. j # 0
        BY <3>2 DEF root
      <4>2. c.type = DIR => q \in Children(vol, i, DIR)
        BY <3>1, <3>2, <3>3, <4>1 DEF Children
      <4> QED
        BY <3>2, <4>2
    <3>5. q \in Children(u, i, FILE) /\ q \in Children(vol, i, FILE)
      BY <3>1, <3>2, <3>3, <3>4 DEF Children, root
    <3>6. j \notin Dirs(u) /\ j # i /\ j \in u.inode_bits /\ j # d
      BY <2>4, <3>2, <3>4 DEF FILE, DIR
    <3>7. Held(i, j) = u.inode[j].i_block
      <4>1. ~searchInTable(j)
        BY <3>1, <3>5
      <4>2. u.inode[j] = vol.inode[j]
        BY <2>2, <3>6
      <4> QED
        BY <4>1, <4>2 DEF Held
    <3>8. x = RemoveFile(u, i, q, u.inode[j].i_block)
      BY <2>3, <3>5, <3>7 DEF RemoveChild
    <3> HIDE DEF q, c, x
    <3>9. Len(u.inode[i].i_block) = 1 /\ j = CellAt(u, i, q).inode
      BY <2>2 DEF c
    <3> HIDE DEF j
    <3>10. Sound(x) /\ Gone(u, x, i, q, j) /\ Shrunk(u, x, {j})
      <4>1. BlocksInUse(u, i, q)
        BY <3>9 DEF BlocksInUse
      <4> QED
        BY <2>2, <2>4, <2>7, <3>6, <3>8, <3>9, <4>1, FileRemoved
    <3>11. /\ Dirs(x) = Dirs(u) /\ x.inode_bits \subseteq u.inode_bits
           /\ x.inode[i].i_block = u.inode[i].i_block
           /\ \A e \in Inodes \ {j, i} : x.inode[e] = u.inode[e]
           /\ j \notin x.inode_bits
      BY <3>6, <3>10 DEF Gone
    <3>12. \A e \in x.inode_bits \ {i} : x.inode[e] = vol.inode[e]
      <4>1. u.inode_bits \subseteq Inodes
        BY <2>4, Fields
      <4> QED
        BY <2>2, <3>11, <4>1
    <3>13. Places(x, d) = Places(u, d) /\ CellAt(x, d, p) = CellAt(u, d, p)
      <4>1. d \in Dirs(x)
        BY <2>4, <3>11
      <4>2. p \in Places(u, d)
        BY <2>2
      <4> QED
        BY <3>10, <4>1, <4>2 DEF Gone
    <3>14. ASSUME NEW r \in Entries(x, i)
           PROVE  r \in Entries(u, i) /\ r # q
      <4>1. i \in Dirs(x)
        BY <2>4, <3>11
      <4>2. Places(x, i) = Places(u, i) /\ Empty(CellAt(x, i, q))
        BY <3>10, <4>1 DEF Gone
      <4>3. r \in Places(u, i) /\ CellAt(x, i, r).name \in Names
        BY <4>2 DEF Entries
      <4>4. r # q
        BY <4>2, <4>3, NotNames DEF Empty
      <4>5. CellAt(x, i, r) = CellAt(u, i, r)
        BY <3>10, <4>1, <4>3, <4>4 DEF Gone
      <4> QED
        BY <4>3, <4>4, <4>5 DEF Entries
    <3>17. ASSUME NEW r \in Entries(u, i), r # q
           PROVE  r \in Entries(x, i) /\ CellAt(x, i, r) = CellAt(u, i, r)
      <4>1. i \in Dirs(x) /\ r \in Places(u, i)
        BY <2>4, <3>11 DEF Entries
      <4>2. Places(x, i) = Places(u, i) /\ CellAt(x, i, r) = CellAt(u, i, r)
        BY <3>10, <3>17, <4>1 DEF Gone
      <4> QED
        BY <4>1, <4>2 DEF Entries
    <3>15. Entries(x, i) = From(k + 1)
      BY <2>2, <2>5, <3>14, <3>17
    <3>18. \A r \in From(k + 1) : CellAt(x, i, r) = CellAt(vol, i, r)
      BY <2>2, <2>5, <3>17
    <3>19. Swept(k) \cup {j} = Swept(k + 1)
      <4>1. q \in Entries(vol, i) /\ q \in From(k) /\ j = CellAt(vol, i, q).inode
        BY <2>2, <2>7, <3>1 DEF c, j
      <4>2. Entries(vol, i) \ From(k + 1) = (Entries(vol, i) \ From(k)) \cup {q}
        BY <2>5, <4>1
      <4> HIDE DEF From
      <4> QED
        BY <4>1, <4>2
    <3> HIDE DEF From, Swept
    <3>20. Shrunk(vol, x, Swept(k + 1))
      <4>1. Shrunk(vol, u, Swept(k)) /\ Shrunk(u, x, {j})
        BY <2>2, <3>10
      <4> QED
        BY <3>19, <4>1, ShrunkTwice
    <3>16. Left(x, k + 1)
      BY <2>2, <3>10, <3>11, <3>12, <3>13, <3>15, <3>18, <3>20
    <3> QED
      BY <3>16 DEF x
  <2> QED
    BY <2>6, <2>7
<1>6. Left(w, n)
  <2> HIDE DEF Left
  <2>1. n \in Good
    <3> HIDE DEF Good
    <3> QED
      BY <1>1, <1>4, <1>5, NaturalSteps
  <2> QED
    BY <1>1, <1>2, <2>1
<1>7. Entries(w, i) = {}
  <2>1. \A q \in Entries(w, i) : q[2] \in Slots
    BY DEF Entries, Places
  <2>2. \A q \in Entries(w, i) : q[2] >= n
    BY <1>6
  <2> QED
    BY <1>1, <2>1, <2>2 DEF Slots, n
<1>9. Swept(n) = {CellAt(vol, i, q).inode : q \in Entries(vol, i)}
  <2>1. From(n) = {}
    BY <1>6, <1>7
  <2> HIDE DEF From
  <2> QED
    BY <2>1
<1> HIDE DEF From, Swept
<1>8. p \in Entries(w, d)
  BY <1>6 DEF Entries
<1> QED
  BY <1>6, <1>7, <1>8, <1>9

\* What an entry for the new inode i at place p of directory d leaves, before the inode is
\* written.
Entered(v, w, d, p, i, n, t) ==
  /\ w \in Volumes /\ i \in Inodes \ v.inode_bits /\ w.inode_bits = v.inode_bits \cup {i}
  /\ w.block_bits = IF BlocksAreFull(v, d) THEN v.block_bits \cup {NewBlock(v)} ELSE v.block_bits
  /\ Owned(w.block_bits, v.inode_bits, Lists(w)) /\ Clean(w)
  /\ BlocksCounted(w) /\ InodesCounted(w)
  /\ \A e \in Inodes \ {d} : w.inode[e] = v.inode[e]
  /\ w.inode[d].i_size = v.inode[d].i_size + 1 /\ Len(w.inode[d].i_block) \in 1 .. 2
  /\ p \in Places(w, d) /\ p # Dot /\ p # DotDot /\ p # <<2, 1>>
  /\ CellAt(w, d, p) = Entry(i, t, n, 1)
  /\ p \in Places(v, d) => Empty(CellAt(v, d, p))
  /\ \A e \in Dirs(v) :
       /\ Places(v, e) \subseteq Places(w, e)
       /\ \A q \in Places(v, e) : e # d \/ q # p => CellAt(w, e, q) = CellAt(v, e, q)
       /\ \A q \in Places(w, e) \ Places(v, e) : Empty(CellAt(w, e, q)) \/ (e = d /\ q = p)
  /\ FilesKept(v, w, v.inode_bits \ Dirs(v))

(***************************************************************************)
(* Adding an entry.                                                        *)
(***************************************************************************)
\* An inode taken is counted.
LEMMA InodeCounted ==
  ASSUME NEW v \in Volumes, Reachable(v.inode_bits) # {}, InodesCounted(v)
  PROVE  InodesCounted(allocInode(v))
<1> DEFINE i == NewInode(v)
           w == allocInode(v)
<1>1. /\ i \in Inodes /\ i \notin v.inode_bits
      /\ w = [v EXCEPT !.inode_bits = v.inode_bits \cup {i},
                       !.free_inodes_count = v.free_inodes_count - 1,
                       !.last_alloc_inode = ByteOf(i)]
  BY InodeAllocated
<1>2. v.inode_bits \in SUBSET Inodes
  BY Fields
<1> HIDE DEF i, w
<1>3. w.inode_bits = v.inode_bits \cup {i} /\ w.free_inodes_count = v.free_inodes_count - 1
  BY <1>1 DEF Volumes
<1>4. /\ Cardinality(v.inode_bits \cup {i}) = Cardinality(v.inode_bits) + 1
      /\ Cardinality(v.inode_bits) \in Nat
  BY <1>1, <1>2, BlocksFinite, OneMore
<1>5. InodesCounted(w)
  BY <1>3, <1>4, SizeFacts DEF InodesCounted
<1> QED
  BY <1>5 DEF w

\* A block taken is counted.
LEMMA BlockCounted ==
  ASSUME NEW v \in Volumes, Reachable(v.block_bits) # {}, BlocksCounted(v)
  PROVE  BlocksCounted(allocDataBlock(v))
<1> DEFINE b == NewBlock(v)
           w == allocDataBlock(v)
<1>1. /\ b \in Blocks /\ b \notin v.block_bits
      /\ w = [v EXCEPT !.block_bits = v.block_bits \cup {b},
                       !.free_blocks_count = v.free_blocks_count - 1,
                       !.last_alloc_block = ByteOf(b)]
  BY BlockAllocated
<1>2. v.block_bits \in SUBSET Blocks
  BY Fields
<1> HIDE DEF b, w
<1>3. w.block_bits = v.block_bits \cup {b} /\ w.free_blocks_count = v.free_blocks_count - 1
  BY <1>1 DEF Volumes
<1>4. /\ Cardinality(v.block_bits \cup {b}) = Cardinality(v.block_bits) + 1
      /\ Cardinality(v.block_bits) \in Nat
  BY <1>1, <1>2, BlocksFinite, OneMore
<1>5. BlocksCounted(w)
  BY <1>3, <1>4, SizeFacts DEF BlocksCounted
<1> QED
  BY <1>5 DEF w

\* The allocators change bits and counters.
LEMMA AllocatorFields ==
  ASSUME NEW v \in Volumes
  PROVE  /\ Reachable(v.inode_bits) # {} =>
              /\ allocInode(v).inode_bits = v.inode_bits \cup {NewInode(v)}
              /\ allocInode(v).inode = v.inode /\ allocInode(v).block = v.block
              /\ allocInode(v).block_bits = v.block_bits
              /\ allocInode(v).free_blocks_count = v.free_blocks_count
         /\ Reachable(v.block_bits) # {} =>
              /\ allocDataBlock(v).block_bits = v.block_bits \cup {NewBlock(v)}
              /\ allocDataBlock(v).inode = v.inode /\ allocDataBlock(v).block = v.block
              /\ allocDataBlock(v).inode_bits = v.inode_bits
              /\ allocDataBlock(v).free_inodes_count = v.free_inodes_count
              /\ NewInode(allocDataBlock(v)) = NewInode(v)
<1>1. ASSUME Reachable(v.inode_bits) # {}
      PROVE  /\ allocInode(v).inode_bits = v.inode_bits \cup {NewInode(v)}
             /\ allocInode(v).inode = v.inode /\ allocInode(v).block = v.block
             /\ allocInode(v).block_bits = v.block_bits
             /\ allocInode(v).free_blocks_count = v.free_blocks_count
  <2> DEFINE i == NewInode(v)
             w == allocInode(v)
  <2>1. w = [v EXCEPT !.inode_bits = v.inode_bits \cup {i},
                      !.free_inodes_count = v.free_inodes_count - 1,
                      !.last_alloc_inode = ByteOf(i)]
    BY <1>1, InodeAllocated
  <2> HIDE DEF i, w
  <2>2. /\ w.inode_bits = v.inode_bits \cup {i} /\ w.inode = v.inode /\ w.block = v.block
        /\ w.block_bits = v.block_bits /\ w.free_blocks_count = v.free_blocks_count
    BY <2>1 DEF Volumes
  <2> QED
    BY <2>2 DEF i, w
<1>2. ASSUME Reachable(v.block_bits) # {}
      PROVE  /\ allocDataBlock(v).block_bits = v.block_bits \cup {NewBlock(v)}
             /\ allocDataBlock(v).inode = v.inode /\ allocDataBlock(v).block = v.block
             /\ allocDataBlock(v).inode_bits = v.inode_bits
             /\ allocDataBlock(v).free_inodes_count = v.free_inodes_count
             /\ NewInode(allocDataBlock(v)) = NewInode(v)
  <2> DEFINE b == NewBlock(v)
             w == allocDataBlock(v)
  <2>1. w = [v EXCEPT !.block_bits = v.block_bits \cup {b},
                      !.free_blocks_count = v.free_blocks_count - 1,
                      !.last_alloc_block = ByteOf(b)]
    BY <1>2, BlockAllocated
  <2> HIDE DEF b, w
  <2>2. /\ w.block_bits = v.block_bits \cup {b} /\ w.inode = v.inode /\ w.block = v.block
        /\ w.inode_bits = v.inode_bits /\ w.free_inodes_count = v.free_inodes_count
        /\ w.last_alloc_inode = v.last_alloc_inode
    BY <2>1 DEF Volumes
  <2>3. NewInode(w) = NewInode(v)
    BY <2>2 DEF NewInode
  <2> QED
    BY <2>2, <2>3 DEF b, w
<1> QED
  BY <1>1, <1>2

\* The entry finds an empty slot.
LEMMA EntryFindsRoom ==
  ASSUME NEW v, Sound(v), NEW d \in Dirs(v), NEW n \in Names, NEW t \in {FILE, DIR},
         Reachable(v.inode_bits) # {}, ~BlocksAreFull(v, d), Room(v, d) # {},
         NEW w, w = AddEntry(v, d, n, t)
  PROVE  \E p : Entered(v, w, d, p, NewInode(v), n, t)
<1> DEFINE i == NewInode(v)
           x == allocInode(v)
           p == First(Room(v, d))
           c == Entry(i, t, n, 1)
           y == SetCell(x, d, p, c)
           m == v.inode[d].i_size + 1
           z == [y EXCEPT !.inode[d].i_size = m]
           a == v.inode[d].i_block[p[1]]
<1>1. v \in Volumes /\ TreeSound(v) /\ d \in Inodes /\ d \in v.inode_bits
      /\ v.inode_bits \in SUBSET Inodes /\ v.inode[d].i_size \in Int
  BY Fields DEF Sound, Dirs
<1>2. Places(v, d) \subseteq (1 .. 2) \X Slots /\ Len(v.inode[d].i_block) \in 1 .. 2
  BY <1>1, PlacesOf DEF TreeSound, Dotted
<1>3. p \in Room(v, d)
  <2>1. Room(v, d) \subseteq Nat \X Nat
    BY <1>2 DEF Room, Slots
  <2> QED
    BY <2>1, FirstOne
<1>4. /\ p \in Places(v, d) /\ p[2] >= 2 /\ CellAt(v, d, p).inode = 0
      /\ p # Dot /\ p # DotDot /\ p # <<2, 1>>
  <2>1. p \in Places(v, d) /\ p[2] >= 2 /\ CellAt(v, d, p).inode = 0
    BY <1>3 DEF Room, SearchedFrom
  <2> HIDE DEF p
  <2> QED
    BY <2>1 DEF Dot, DotDot
<1>5. Empty(CellAt(v, d, p))
  <2>1. ~Names1(v, d, CellAt(v, d, p))
    BY <1>4 DEF Names1, root
  <2> QED
    BY <1>1, <1>4, <2>1 DEF TreeSound, Tidy
<1>6. /\ i \in Inodes /\ i \notin v.inode_bits /\ x \in Volumes /\ x.inode_bits = v.inode_bits \cup {i}
      /\ x.inode = v.inode /\ x.block = v.block /\ x.block_bits = v.block_bits
      /\ x.free_blocks_count = v.free_blocks_count /\ InodesCounted(x)
  BY <1>1, InodeAllocated, AllocatorFields, InodeCounted DEF Sound
<1>7. c \in Cells
  <2> HIDE DEF i
  <2>1. i \in 0 .. INODE_NUM
    BY <1>6, SizeFacts DEF Inodes
  <2>2. t \in {0, FILE, DIR, TEXT, TEXT_END} /\ 1 \in {0, 1}
        /\ n \in Names \cup Data \cup {"", ".", ".."}
    OBVIOUS
  <2> QED
    BY <2>1, <2>2, CellType
<1> HIDE DEF x, p, c, i
<1>8. w = z
  <2>1. w = [y EXCEPT !.inode[d].i_size = @ + 1]
    BY DEF AddEntry, x, p, c, i
  <2>2. OnlyCells(x, y)
    BY Zenon, <1>1, <1>4, <1>6, <1>7, CellSet DEF Places
  <2>3. y.inode = v.inode
    BY <1>6, <2>2 DEF OnlyCells
  <2> HIDE DEF y
  <2>4. y \in Volumes
    BY <2>2 DEF OnlyCells
  <2>5. y.inode[d].i_size + 1 = m
    BY <2>3
  <2> HIDE DEF m
  <2>6. [y EXCEPT !.inode[d].i_size = @ + 1] = [y EXCEPT !.inode[d].i_size = m]
    BY <2>4, <2>5, <1>1 DEF Volumes, InodeRecords
  <2> QED
    BY <2>1, <2>6
<1>9. /\ y \in Volumes /\ y.block_bits = v.block_bits
      /\ y.free_blocks_count = v.free_blocks_count
      /\ y.inode_bits = v.inode_bits \cup {i} /\ InodesCounted(y)
      /\ y.inode = v.inode
      /\ \A b \in Blocks \ {a} : y.block[b] = v.block[b]
      /\ \A s \in Slots \ {p[2]} : y.block[a][s] = v.block[a][s]
      /\ y.block[a][p[2]] = c
  <2>1. p \in Places(x, d) /\ x.inode[d].i_block[p[1]] = a
    BY <1>4, <1>6 DEF Places
  <2>2. OnlyCells(x, y)
    BY <1>1, <1>6, <1>7, <2>1, CellSet
  <2>7. x \in Volumes /\ d \in Inodes /\ c \in Cells /\ p \in Places(x, d)
    BY <1>1, <1>6, <1>7, <2>1
  <2> DEFINE a0 == x.inode[d].i_block[p[1]]
  <2>4. \A b \in Blocks \ {a0} : y.block[b] = x.block[b]
    BY <2>7, CellSet
  <2>5. \A s \in Slots \ {p[2]} : y.block[a0][s] = x.block[a0][s]
    BY <2>7, CellSet
  <2>6. y.block[a0][p[2]] = c
    BY <2>7, CellSet
  <2>3. /\ \A b \in Blocks \ {a0} : y.block[b] = x.block[b]
        /\ \A s \in Slots \ {p[2]} : y.block[a0][s] = x.block[a0][s]
        /\ y.block[a0][p[2]] = c
    BY <2>4, <2>5, <2>6
  <2> HIDE DEF y, a
  <2> QED
    BY <1>6, <2>1, <2>2, <2>3 DEF OnlyCells, InodesCounted
<1> HIDE DEF y
<1>10. m \in Int
  BY <1>1
<1> HIDE DEF m
<1>11. /\ OnlyInodes(y, z) /\ \A e \in Inodes \ {d} : z.inode[e] = v.inode[e]
       /\ z.inode[d].i_block = v.inode[d].i_block /\ z.inode[d].i_size = m
  <2>1. /\ OnlyInodes(y, z) /\ \A e \in Inodes \ {d} : z.inode[e] = y.inode[e]
        /\ z.inode[d].i_block = y.inode[d].i_block /\ z.inode[d].i_size = m
    BY <1>1, <1>9, <1>10, SizeSet
  <2> HIDE DEF z
  <2> QED
    BY <1>9, <2>1
<1> HIDE DEF z
<1>12. /\ w \in Volumes /\ w.block_bits = v.block_bits
       /\ w.free_blocks_count = v.free_blocks_count
       /\ w.inode_bits = v.inode_bits \cup {i} /\ InodesCounted(w)
       /\ w.block = y.block
  BY <1>8, <1>9, <1>11 DEF OnlyInodes, InodesCounted
<1>13. a \in v.block_bits /\ a \in Blocks
  <2>1. p[1] \in 1 .. Len(v.inode[d].i_block)
    BY <1>1, <1>4, PlaceType
  <2> QED
    BY <1>1, <2>1, OwnBlocks
<1>14. \A e \in Inodes : w.inode[e].i_block = v.inode[e].i_block
  BY <1>8, <1>11
<1>15. \A e \in Inodes : Places(w, e) = Places(v, e)
  BY <1>14 DEF Places
<1>16. CellAt(w, d, p) = c
  BY <1>1, <1>9, <1>12, <1>14 DEF CellAt
<1>17. ASSUME NEW e \in Dirs(v), NEW q \in Places(v, e), e # d \/ q # p
       PROVE  CellAt(w, e, q) = CellAt(v, e, q)
  <2> DEFINE b == v.inode[e].i_block[q[1]]
  <2>0. e \in Inodes /\ e \in v.inode_bits
    BY <1>1 DEF Dirs
  <2>1. q[1] \in 1 .. Len(v.inode[e].i_block) /\ q[2] \in Slots /\ q = <<q[1], q[2]>>
        /\ b \in Blocks
    BY <1>1, <2>0, PlaceType
  <2>2. w.inode[e].i_block[q[1]] = b
    BY <1>14, <2>0
  <2>3. p[1] \in 1 .. Len(v.inode[d].i_block) /\ p = <<p[1], p[2]>>
    BY <1>1, <1>4, PlaceType
  <2>4. CASE b = a
    <3>1. e = d
      BY <1>1, <2>0, <2>1, <2>3, <2>4, OthersBlocks DEF a
    <3>2. q[1] = p[1]
      BY <2>0, <2>1, <2>3, <2>4, <3>1, OwnBlocks DEF a
    <3>3. q[2] # p[2]
      BY <1>17, <2>1, <2>3, <3>1, <3>2
    <3>4. w.block[a][q[2]] = v.block[a][q[2]]
      BY Zenon, <1>9, <1>12, <2>1, <3>3
    <3> QED
      BY <2>2, <2>4, <3>4 DEF CellAt
  <2>5. CASE b # a
    <3>1. w.block[b] = v.block[b]
      BY Zenon, <1>9, <1>12, <2>1, <2>5
    <3> QED
      BY <2>2, <3>1 DEF CellAt
  <2> QED
    BY <2>4, <2>5
<1>18. Owned(w.block_bits, v.inode_bits, Lists(w))
  <2>1. Lists(w) = Lists(v)
    BY <1>14 DEF Lists
  <2> QED
    BY <1>12, <2>1 DEF Sound
<1>19. Clean(w)
  <2>1. SUFFICES ASSUME NEW b \in Blocks \ w.block_bits PROVE NoEntries(w.block[b])
    BY DEF Clean
  <2>2. w.block[b] = v.block[b]
    BY <1>9, <1>12, <1>13, <2>1
  <2> QED
    BY <1>12, <2>2 DEF Sound, Clean
<1>20. BlocksCounted(w)
  BY <1>12 DEF Sound, BlocksCounted
<1>21. \A e \in Dirs(v) : Places(w, e) = Places(v, e)
  BY <1>1, <1>15 DEF Dirs
<1>22. w.inode[d].i_size = v.inode[d].i_size + 1
  BY <1>8, <1>11 DEF m
<1>23. \A e \in Inodes \ {d} : w.inode[e] = v.inode[e]
  BY <1>8, <1>11
<1>24. Len(w.inode[d].i_block) \in 1 .. 2 /\ p \in Places(w, d)
  BY <1>1, <1>2, <1>4, <1>14, <1>15
<1>26. FilesKept(v, w, v.inode_bits \ Dirs(v))
  <2>1. ASSUME NEW e \in v.inode_bits \ Dirs(v), NEW k \in 1 .. Len(v.inode[e].i_block)
        PROVE  w.block[v.inode[e].i_block[k]] = v.block[v.inode[e].i_block[k]]
    <3> DEFINE b == v.inode[e].i_block[k]
    <3>1. p[1] \in 1 .. Len(v.inode[d].i_block)
      BY <1>1, <1>4, PlaceType
    <3>2. b \in Blocks /\ b # a
      BY <1>1, <3>1, OthersBlocks DEF a
    <3> HIDE DEF b
    <3>3. w.block[b] = v.block[b]
      BY Zenon, <1>9, <1>12, <3>2
    <3> QED
      BY <3>3 DEF b
  <2> QED
    BY <1>1, <1>23, <2>1 DEF FilesKept
<1>25. Entered(v, w, d, p, i, n, t)
  BY <1>4, <1>5, <1>6, <1>12, <1>16, <1>17, <1>18, <1>19, <1>20, <1>21, <1>22, <1>23, <1>24,
     <1>26
  DEF Entered, c
<1> QED
  BY <1>25 DEF i

\* The cells of a block that a directory's entry is the first of.
NewCells(cells, entry, t) ==
  [s \in Slots |-> IF s = 0 THEN entry
     ELSE IF s \in Cleared(t) THEN [cells[s] EXCEPT !.inode = 0] ELSE cells[s]]

\* They are cells.
LEMMA NewCellsType ==
  ASSUME NEW cells \in [Slots -> Cells], NEW entry \in Cells, NEW t
  PROVE  NewCells(cells, entry, t) \in [Slots -> Cells]
<1>1. ASSUME NEW s \in Slots PROVE [cells[s] EXCEPT !.inode = 0] \in Cells /\ cells[s] \in Cells
  <2>1. cells[s] \in Cells /\ 0 \in 0 .. INODE_NUM
    BY SizeFacts
  <2> QED
    BY <2>1 DEF Cells
<1> QED
  BY <1>1 DEF NewCells

\* The entry comes to the first slot of a new block.
LEMMA EntryGetsBlock ==
  ASSUME NEW v, Sound(v), NEW d \in Dirs(v), NEW n \in Names, NEW t \in {FILE, DIR},
         Reachable(v.inode_bits) # {}, Reachable(v.block_bits) # {}, BlocksAreFull(v, d),
         t = FILE => \A s \in Slots \ {0, 1} : v.block[NewBlock(v)][s].inode = 0,
         NEW w, w = AddEntry(v, d, n, t)
  PROVE  Entered(v, w, d, <<2, 0>>, NewInode(v), n, t)
<1> DEFINE i == NewInode(v)
           b == NewBlock(v)
           x1 == allocDataBlock(v)
           x2 == allocInode(x1)
           c == Entry(i, t, n, 1)
           old == v.inode[d].i_block
           list == Append(old, b)
           y1 == [x2 EXCEPT !.inode[d].i_block = list]
           cells == NewCells(v.block[b], c, t)
           data == [v.block EXCEPT ![b] = cells]
           y2 == [y1 EXCEPT !.block = data]
           m == v.inode[d].i_size + 1
           z == [y2 EXCEPT !.inode[d].i_size = m]
           p == <<2, 0>>
<1>1. /\ v \in Volumes /\ TreeSound(v) /\ d \in Inodes /\ d \in v.inode_bits
      /\ v.inode_bits \in SUBSET Inodes /\ v.inode[d].i_size \in Int
      /\ v.block \in [Blocks -> [Slots -> Cells]]
  BY Fields DEF Sound, Dirs
<1>2. Len(old) = 1 /\ old \in Seq(Blocks)
  BY <1>1, DirSize, Fields
<1>3. b \in Blocks /\ b \notin v.block_bits /\ x1 \in Volumes
  BY <1>1, BlockAllocated
<1>4. /\ x1.block_bits = v.block_bits \cup {b} /\ x1.inode = v.inode /\ x1.block = v.block
      /\ x1.inode_bits = v.inode_bits /\ x1.free_inodes_count = v.free_inodes_count
      /\ NewInode(x1) = i
  BY <1>1, AllocatorFields
<1>5. BlocksCounted(x1) /\ InodesCounted(x1)
  BY <1>1, <1>4, BlockCounted DEF Sound, InodesCounted
<1> HIDE DEF x1
<1>6. /\ i \in Inodes /\ i \notin v.inode_bits /\ x2 \in Volumes
      /\ x2.inode_bits = v.inode_bits \cup {i} /\ x2.inode = v.inode /\ x2.block = v.block
      /\ x2.block_bits = v.block_bits \cup {b} /\ BlocksCounted(x2) /\ InodesCounted(x2)
  <2>1. Reachable(x1.inode_bits) # {}
    BY <1>4
  <2>2. NewInode(x1) \in Inodes /\ NewInode(x1) \notin x1.inode_bits /\ x2 \in Volumes
    BY <1>3, <2>1, InodeAllocated
  <2>3. /\ x2.inode_bits = x1.inode_bits \cup {NewInode(x1)} /\ x2.inode = x1.inode
        /\ x2.block = x1.block /\ x2.block_bits = x1.block_bits
        /\ x2.free_blocks_count = x1.free_blocks_count
    BY <1>3, <2>1, AllocatorFields
  <2>4. InodesCounted(x2)
    BY <1>3, <1>5, <2>1, InodeCounted
  <2> HIDE DEF i, b, x2
  <2> QED
    BY <1>4, <1>5, <2>2, <2>3, <2>4 DEF BlocksCounted
<1> HIDE DEF x2
<1>7. c \in Cells
  <2> HIDE DEF i
  <2>1. i \in 0 .. INODE_NUM
    BY <1>6, SizeFacts DEF Inodes
  <2>2. t \in {0, FILE, DIR, TEXT, TEXT_END} /\ 1 \in {0, 1}
        /\ n \in Names \cup Data \cup {"", ".", ".."}
    OBVIOUS
  <2> QED
    BY <2>1, <2>2, CellType
<1>8. v.block[b] \in [Slots -> Cells]
  BY <1>1, <1>3
<1>9. cells \in [Slots -> Cells]
  <2> HIDE DEF c, b
  <2> QED
    BY <1>7, <1>8, NewCellsType
<1>10. /\ cells[0] = c
       /\ \A s \in Slots \ {0} : Empty(cells[s])
  <2>1. 0 \in Slots
    BY SizeFacts DEF Slots
  <2> HIDE DEF c, b
  <2>2. cells[0] = c
    BY <2>1 DEF NewCells
  <2>3. ASSUME NEW s \in Slots \ {0} PROVE Empty(cells[s])
    <3>1. /\ v.block[b][s] \in Cells /\ v.block[b][s].type = 0 /\ v.block[b][s].name = ""
      BY <1>3, <1>8 DEF Sound, Clean, NoEntries
    <3>2. CASE s \in Cleared(t)
      <4>1. cells[s] = [v.block[b][s] EXCEPT !.inode = 0]
        BY <3>2 DEF NewCells
      <4> QED
        BY <3>1, <4>1 DEF Empty, Cells
    <3>3. CASE s \notin Cleared(t)
      <4>1. cells[s] = v.block[b][s]
        BY <3>3 DEF NewCells
      <4>2. v.block[b][s].inode = 0
        BY <3>3 DEF Cleared, b
      <4> QED
        BY <3>1, <4>1, <4>2 DEF Empty
    <3> QED
      BY <3>2, <3>3
  <2> QED
    BY <2>2, <2>3
<1> HIDE DEF i, b, c, cells
<1>11. w = z
  <2>1. w = [[x2 EXCEPT !.inode[d].i_block = Append(@, b),
                        !.block[b] = [s \in Slots |->
                          IF s = 0 THEN c
                          ELSE IF s \in Cleared(t) THEN [@[s] EXCEPT !.inode = 0] ELSE @[s]]]
               EXCEPT !.inode[d].i_size = @ + 1]
    BY DEF AddEntry, x2, x1, c, i, b
  <2>2. x2.inode[d].i_block = old /\ x2.block[b] = v.block[b]
    BY <1>6
  <2>3. [x2 EXCEPT !.inode[d].i_block = Append(@, b),
                   !.block[b] = [s \in Slots |->
                     IF s = 0 THEN c
                     ELSE IF s \in Cleared(t) THEN [@[s] EXCEPT !.inode = 0] ELSE @[s]]]
        = [x2 EXCEPT !.inode[d].i_block = list, !.block[b] = cells]
    BY <1>1, <1>3, <1>6, <2>2 DEF Volumes, InodeRecords, NewCells, cells
  <2>4. [x2 EXCEPT !.inode[d].i_block = list, !.block[b] = cells] = y2
    BY <1>6 DEF Volumes
  <2>5. y2.inode[d].i_size = v.inode[d].i_size
    BY <1>1, <1>6 DEF Volumes, InodeRecords
  <2>6. [y2 EXCEPT !.inode[d].i_size = @ + 1] = z
    BY <2>5
  <2> QED
    BY <2>1, <2>3, <2>4, <2>6
<1>12. list \in Seq(Blocks) /\ Len(list) = 2 /\ list[1] = old[1] /\ list[2] = b
  <2>1. old \in Seq(Blocks) /\ b \in Blocks
    BY <1>2, <1>3
  <2> HIDE DEF old
  <2>2. /\ list \in Seq(Blocks) /\ Len(list) = Len(old) + 1
        /\ \A k \in 1 .. Len(old) : list[k] = old[k]
        /\ list[Len(old) + 1] = b
    BY <2>1, AppendProperties
  <2> HIDE DEF list
  <2>3. Len(old) = 1
    BY <1>2 DEF old
  <2> QED
    BY <2>2, <2>3
<1> HIDE DEF list, old
<1>13. /\ OnlyInodes(x2, y1) /\ \A e \in Inodes \ {d} : y1.inode[e] = x2.inode[e]
       /\ y1.inode[d].i_block = list /\ y1.inode[d].i_size = x2.inode[d].i_size
  <2>1. x2 \in Volumes /\ d \in Inodes /\ list \in Seq(Blocks)
    BY <1>1, <1>6, <1>12
  <2> QED
    BY <2>1, ListSet
<1> HIDE DEF y1
<1>14. /\ data \in [Blocks -> [Slots -> Cells]] /\ data[b] = cells
       /\ \A a \in Blocks \ {b} : data[a] = v.block[a]
  BY <1>1, <1>3, <1>9
<1> HIDE DEF data
<1>15. OnlyCells(y1, y2) /\ y2.block = data
  <2>1. y1 \in Volumes
    BY <1>13 DEF OnlyInodes
  <2> QED
    BY <1>14, <2>1, BlocksReplaced
<1> HIDE DEF y2
<1>16. m \in Int
  BY <1>1
<1> HIDE DEF m
<1>17. /\ OnlyInodes(y2, z) /\ \A e \in Inodes \ {d} : z.inode[e] = y2.inode[e]
       /\ z.inode[d].i_block = y2.inode[d].i_block /\ z.inode[d].i_size = m
  <2>1. y2 \in Volumes /\ d \in Inodes /\ m \in Int
    BY <1>1, <1>15, <1>16 DEF OnlyCells
  <2> QED
    BY <2>1, SizeSet
<1> HIDE DEF z
<1>18. /\ w \in Volumes /\ w.block_bits = v.block_bits \cup {b}
       /\ w.inode_bits = v.inode_bits \cup {i} /\ w.block = data
       /\ BlocksCounted(w) /\ InodesCounted(w)
       /\ \A e \in Inodes \ {d} : w.inode[e] = v.inode[e]
       /\ w.inode[d].i_block = list /\ w.inode[d].i_size = m
  <2>1. /\ y1.block_bits = v.block_bits \cup {b} /\ y1.inode_bits = v.inode_bits \cup {i}
        /\ BlocksCounted(y1) /\ InodesCounted(y1)
        /\ \A e \in Inodes \ {d} : y1.inode[e] = v.inode[e]
    BY <1>6, <1>13 DEF OnlyInodes, BlocksCounted, InodesCounted
  <2>2. /\ y2.block_bits = v.block_bits \cup {b} /\ y2.inode_bits = v.inode_bits \cup {i}
        /\ BlocksCounted(y2) /\ InodesCounted(y2) /\ y2.inode = y1.inode
    BY <1>15, <2>1 DEF OnlyCells, BlocksCounted, InodesCounted
  <2>3. /\ z \in Volumes
        /\ z.block_bits = v.block_bits \cup {b} /\ z.inode_bits = v.inode_bits \cup {i}
        /\ BlocksCounted(z) /\ InodesCounted(z) /\ z.block = y2.block
    BY <1>17, <2>2 DEF OnlyInodes, BlocksCounted, InodesCounted
  <2> QED
    BY <1>11, <1>13, <1>15, <1>17, <2>1, <2>2, <2>3
<1>19. /\ Places(v, d) = (1 .. 1) \X Slots /\ Places(w, d) = (1 .. 2) \X Slots
       /\ p \in Places(w, d) /\ p \notin Places(v, d)
       /\ p # Dot /\ p # DotDot /\ p # <<2, 1>>
  <2>1. Places(v, d) = (1 .. 1) \X Slots
    BY <1>2 DEF Places, old
  <2>2. Places(w, d) = (1 .. 2) \X Slots
    BY <1>12, <1>18 DEF Places
  <2>3. 0 \in Slots
    BY SizeFacts DEF Slots
  <2> QED
    BY <2>1, <2>2, <2>3 DEF Dot, DotDot
<1>20. CellAt(w, d, p) = c /\ \A s \in Slots \ {0} : Empty(CellAt(w, d, <<2, s>>))
  BY <1>10, <1>12, <1>14, <1>18 DEF CellAt
<1>21. ASSUME NEW e \in Dirs(v), NEW q \in Places(v, e) PROVE CellAt(w, e, q) = CellAt(v, e, q)
  <2>1. e \in Inodes /\ e \in v.inode_bits
    BY <1>1 DEF Dirs
  <2>2. q[1] \in 1 .. Len(v.inode[e].i_block)
    BY DEF Places
  <2> DEFINE a == v.inode[e].i_block[q[1]]
  <2>3. a \in v.block_bits /\ a \in Blocks
    BY <2>1, <2>2, OwnBlocks
  <2>4. w.inode[e].i_block[q[1]] = a
    <3>1. CASE e # d
      BY <1>18, <2>1, <3>1
    <3>2. CASE e = d
      <4>1. q[1] = 1
        <5>1. Len(v.inode[e].i_block) = 1
          BY <1>2, <3>2 DEF old
        <5> QED
          BY <2>2, <5>1
      <4> QED
        BY <1>12, <1>18, <3>2, <4>1 DEF old
    <3> QED
      BY <3>1, <3>2
  <2> HIDE DEF a
  <2>5. w.block[a] = v.block[a]
    BY <1>3, <1>14, <1>18, <2>3
  <2> QED
    BY <2>4, <2>5 DEF CellAt, a
<1>22. ASSUME NEW e \in Dirs(v)
       PROVE  /\ Places(v, e) \subseteq Places(w, e)
              /\ \A q \in Places(w, e) \ Places(v, e) : Empty(CellAt(w, e, q)) \/ (e = d /\ q = p)
  <2>1. CASE e # d
    <3>1. w.inode[e].i_block = v.inode[e].i_block
      BY <1>1, <1>18, <2>1 DEF Dirs
    <3> QED
      BY <3>1 DEF Places
  <2>2. CASE e = d
    <3>1. (1 .. 1) \X Slots \subseteq (1 .. 2) \X Slots
      OBVIOUS
    <3>2. \A q \in (1 .. 2) \X Slots :
            q \in (1 .. 1) \X Slots \/ q = <<2, 0>> \/ \E s \in Slots \ {0} : q = <<2, s>>
      OBVIOUS
    <3> QED
      BY <1>19, <1>20, <2>2, <3>1, <3>2 DEF p
  <2> QED
    BY <2>1, <2>2
<1>23. Owned(w.block_bits, v.inode_bits, Lists(w))
  <2> DEFINE L == Lists(v)
  <2>1. /\ Owned(v.block_bits, v.inode_bits, L) /\ L \in BlockLists
        /\ L[d] = old /\ v.block_bits \in SUBSET Blocks
    BY <1>1, Fields DEF Sound, old
  <2>2. Lists(w) = [L EXCEPT ![d] = Append(L[d], b)]
    <3>1. \A e \in Inodes : w.inode[e].i_block = IF e = d THEN list ELSE v.inode[e].i_block
      BY <1>18
    <3> QED
      BY <2>1, <3>1 DEF Lists, list
  <2> HIDE DEF L
  <2>3. Owned(v.block_bits \cup {b}, v.inode_bits, [L EXCEPT ![d] = Append(L[d], b)])
    BY <1>1, <1>3, <2>1, OwnedGrows
  <2> QED
    BY <1>18, <2>2, <2>3
<1>24. Clean(w)
  BY <1>14, <1>18 DEF Sound, Clean
<1>26. FilesKept(v, w, v.inode_bits \ Dirs(v))
  <2>1. ASSUME NEW e \in v.inode_bits \ Dirs(v), NEW k \in 1 .. Len(v.inode[e].i_block)
        PROVE  w.block[v.inode[e].i_block[k]] = v.block[v.inode[e].i_block[k]]
    <3> DEFINE a == v.inode[e].i_block[k]
    <3>1. a \in v.block_bits /\ a \in Blocks
      BY OwnBlocks
    <3> HIDE DEF a
    <3>2. w.block[a] = v.block[a]
      BY <1>3, <1>14, <1>18, <3>1
    <3> QED
      BY <3>2 DEF a
  <2> QED
    BY <1>1, <1>18, <2>1 DEF FilesKept
<1>25. Entered(v, w, d, p, i, n, t)
  <2>1. Len(w.inode[d].i_block) \in 1 .. 2
    BY <1>12, <1>18
  <2>2. w.inode[d].i_size = v.inode[d].i_size + 1
    BY <1>18 DEF m
  <2>3. i \in Inodes \ v.inode_bits
    BY <1>6
  <2>4. w.block_bits = IF BlocksAreFull(v, d) THEN v.block_bits \cup {NewBlock(v)} ELSE v.block_bits
    BY <1>18 DEF b
  <2> HIDE DEF p
  <2> QED
    BY <1>18, <1>19, <1>20, <1>21, <1>22, <1>23, <1>24, <1>26, <2>1, <2>2, <2>3, <2>4
    DEF Entered, c
<1> QED
  BY <1>25 DEF i, p

(***************************************************************************)
(* The inode that goes with the entry.                                     *)
(***************************************************************************)
\* One or two blocks are not too many.
LEMMA TwoFew == \A x \in 1 .. 2 : x <= 8
OBVIOUS

\* When the inode is written too, the entry is added to the tree.
LEMMA EntryComplete ==
  ASSUME NEW v, Sound(v), NEW d \in Dirs(v), NEW n \in Names, NEW t \in {FILE, DIR},
         NEW u, NEW p, NEW i, Entered(v, u, d, p, i, n, t), ~Found(v, d, n, t),
         NEW w, w.inode_bits = u.inode_bits, \A e \in Inodes \ {i} : w.inode[e] = u.inode[e],
         \A b \in u.block_bits : w.block[b] = u.block[b],
         t = FILE => w.inode[i].i_size = 0,
         t = DIR =>
           /\ Len(w.inode[i].i_block) = 1 /\ w.inode[i].i_size = 2
           /\ CellAt(w, i, Dot) = Entry(i, DIR, ".", 1)
           /\ CellAt(w, i, DotDot).type = DIR /\ CellAt(w, i, DotDot).name = ".."
           /\ CellAt(w, i, DotDot).inode = d
           /\ \A q \in Places(w, i) \ {Dot, DotDot} : Empty(CellAt(w, i, q))
  PROVE  /\ TreeSound(w) /\ Dirs(w) = Dirs(v) \cup (IF t = DIR THEN {i} ELSE {})
         /\ Gained(v, w, d, n, i, t)
<1>1. /\ v \in Volumes /\ TreeSound(v) /\ v.inode_bits \in SUBSET Inodes
      /\ d \in v.inode_bits /\ d \in Inodes
  BY Fields DEF Sound, Dirs
<1>2. /\ u \in Volumes /\ i \in Inodes /\ i \notin v.inode_bits /\ u.inode_bits = v.inode_bits \cup {i}
      /\ \A e \in Inodes \ {d} : u.inode[e] = v.inode[e]
      /\ u.inode[d].i_size = v.inode[d].i_size + 1 /\ Len(u.inode[d].i_block) \in 1 .. 2
  BY DEF Entered
<1>3. v.inode[d].i_size + 1 # 0 /\ v.inode[d].i_size # 0
  BY <1>1, DirSize, SizeFacts
<1>4. Dirs(w) = Dirs(v) \cup (IF t = DIR THEN {i} ELSE {})
  <2>1. \A e \in v.inode_bits : e \in Inodes /\ e # i /\ (w.inode[e].i_size # 0 <=> v.inode[e].i_size # 0)
    BY <1>1, <1>2, <1>3
  <2>2. w.inode[i].i_size # 0 <=> t = DIR
    BY DEF FILE, DIR
  <2> QED
    BY <1>2, <2>1, <2>2 DEF Dirs
<1>5. ASSUME NEW e \in Dirs(v)
      PROVE  /\ w.inode[e] = u.inode[e] /\ Places(w, e) = Places(u, e)
             /\ \A q \in Places(u, e) : CellAt(w, e, q) = CellAt(u, e, q)
  <2>1. e \in Inodes /\ e \in v.inode_bits /\ e # i
    BY <1>1, <1>2 DEF Dirs
  <2>2. w.inode[e] = u.inode[e]
    BY <2>1
  <2>3. ASSUME NEW k \in 1 .. Len(u.inode[e].i_block)
        PROVE  w.block[u.inode[e].i_block[k]] = u.block[u.inode[e].i_block[k]]
    <3>1. Lists(u)[e] = u.inode[e].i_block
      BY <1>2, <2>1, Fields
    <3>2. u.inode[e].i_block[k] \in u.block_bits
      BY <2>1, <3>1 DEF Entered, Owned
    <3> QED
      BY <3>2
  <2>4. /\ Places(w, e) = Places(u, e)
        /\ \A q \in Places(u, e) : CellAt(w, e, q) = CellAt(u, e, q)
    <3>1. w.inode[e].i_block = u.inode[e].i_block
      BY <2>2
    <3>2. Places(w, e) = Places(u, e)
      BY <3>1 DEF Places
    <3>3. ASSUME NEW q \in Places(u, e) PROVE CellAt(w, e, q) = CellAt(u, e, q)
      <4>1. q[1] \in 1 .. Len(u.inode[e].i_block)
        BY DEF Places
      <4> QED
        BY <2>3, <3>1, <4>1 DEF CellAt
    <3> QED
      BY <3>2, <3>3
  <2> QED
    BY <2>2, <2>4
<1>6. ASSUME NEW e \in Dirs(v)
      PROVE  /\ Len(w.inode[e].i_block) \in 1 .. 2 /\ Places(v, e) \subseteq Places(w, e)
             /\ Len(w.inode[e].i_block) = 2 => Empty(CellAt(w, e, <<2, 1>>))
             /\ \A q \in Places(v, e) : e # d \/ q # p => CellAt(w, e, q) = CellAt(v, e, q)
             /\ \A q \in Places(w, e) \ Places(v, e) : Empty(CellAt(w, e, q)) \/ (e = d /\ q = p)
             /\ e # d => w.inode[e].i_size = v.inode[e].i_size
  <2>1. /\ Places(v, e) \subseteq Places(u, e)
        /\ \A q \in Places(v, e) : e # d \/ q # p => CellAt(u, e, q) = CellAt(v, e, q)
        /\ \A q \in Places(u, e) \ Places(v, e) : Empty(CellAt(u, e, q)) \/ (e = d /\ q = p)
        /\ p # <<2, 1>>
    BY DEF Entered
  <2>2. Len(v.inode[e].i_block) \in 1 .. 2
        /\ (Len(v.inode[e].i_block) = 2 => Empty(CellAt(v, e, <<2, 1>>)))
    BY <1>1 DEF TreeSound, Dotted
  <2>3. Len(w.inode[e].i_block) \in 1 .. 2 /\ (e # d => w.inode[e].i_size = v.inode[e].i_size)
    <3>1. CASE e = d
      BY <1>2, <1>5, <3>1
    <3>2. CASE e # d
      <4>1. w.inode[e] = v.inode[e]
        BY <1>1, <1>2, <1>5, <3>2 DEF Dirs
      <4> QED
        BY <2>2, <3>2, <4>1
    <3> QED
      BY <3>1, <3>2
  <2>4. ASSUME Len(w.inode[e].i_block) = 2 PROVE Empty(CellAt(w, e, <<2, 1>>))
    <3>1. <<2, 1>> \in Places(w, e)
      BY <2>3, <2>4, PlacesOf
    <3>2. CASE <<2, 1>> \in Places(v, e)
      <4>1. Len(v.inode[e].i_block) = 2
        BY <2>2, <3>2, PlacesOf
      <4>2. CellAt(w, e, <<2, 1>>) = CellAt(v, e, <<2, 1>>)
        BY <1>5, <2>1, <3>2
      <4> QED
        BY <2>2, <4>1, <4>2
    <3>3. CASE <<2, 1>> \notin Places(v, e)
      BY <1>5, <2>1, <3>1, <3>3
    <3> QED
      BY <3>2, <3>3
  <2> QED
    BY <1>5, <2>1, <2>3, <2>4
<1>7. /\ p \in Places(w, d) /\ p # Dot /\ p # DotDot
      /\ p \in Places(v, d) => Empty(CellAt(v, d, p))
      /\ CellAt(w, d, p) = Entry(i, t, n, 1)
  BY <1>5 DEF Entered
<1>8. /\ CellAt(w, d, p).inode = i /\ CellAt(w, d, p).type = t /\ CellAt(w, d, p).name = n
  BY <1>7 DEF Entry
<1>9. \A q \in Entries(v, d) :
        ~(CellAt(v, d, q).name = CellAt(w, d, p).name /\ CellAt(v, d, q).type = t)
  BY <1>8 DEF Found, Matches, Entries
<1>10. w.inode[d].i_size = v.inode[d].i_size + 1
  BY <1>2, <1>5
<1>11. Added(v, w, d, p, i, t)
  BY <1>2, <1>4, <1>6, <1>7, <1>8, <1>9, <1>10 DEF Added
<1>12. FilesKept(v, w, v.inode_bits \ Dirs(v))
  <2>1. SUFFICES ASSUME NEW e \in v.inode_bits \ Dirs(v)
                 PROVE  /\ w.inode[e] = v.inode[e]
                        /\ \A k \in 1 .. Len(v.inode[e].i_block) :
                             w.block[v.inode[e].i_block[k]] = v.block[v.inode[e].i_block[k]]
    BY DEF FilesKept
  <2>2. /\ u.inode[e] = v.inode[e]
        /\ \A k \in 1 .. Len(v.inode[e].i_block) :
             u.block[v.inode[e].i_block[k]] = v.block[v.inode[e].i_block[k]]
    BY DEF Entered, FilesKept
  <2>3. e \in Inodes /\ e # i
    BY <1>1, <1>2
  <2>4. ASSUME NEW k \in 1 .. Len(v.inode[e].i_block)
        PROVE  w.block[v.inode[e].i_block[k]] = v.block[v.inode[e].i_block[k]]
    <3>1. Lists(u)[e] = v.inode[e].i_block
      BY <1>2, <2>2, <2>3, Fields
    <3>2. v.inode[e].i_block[k] \in u.block_bits
      BY <3>1 DEF Entered, Owned
    <3> QED
      BY <2>2, <3>2
  <2> QED
    BY <2>2, <2>3, <2>4
<1>13. n = CellAt(w, d, p).name
  BY <1>8
<1>14. Gained(v, w, d, n, i, t)
  BY <1>1, <1>11, <1>12, <1>13, AddedGains
<1> QED
  BY <1>1, <1>4, <1>11, <1>14, AddedSound

\* touch: a file without blocks.
LEMMA FileMade ==
  ASSUME NEW v, Sound(v), NEW d \in Dirs(v), NEW n \in Names,
         NEW u, NEW p, NEW i, Entered(v, u, d, p, i, n, FILE), ~Found(v, d, n, FILE),
         NEW len, NEW w, w = preProcess(u, i, d, n, FILE, len)
  PROVE  /\ Sound(w) /\ Dirs(w) = Dirs(v) /\ Gained(v, w, d, n, i, FILE)
         /\ w.inode[i] = Inode(DefaultMode[n], 0, <<>>)
<1> DEFINE new == Inode(DefaultMode[n], 0, <<>>)
           table == [u.inode EXCEPT ![i] = new]
<1>1. /\ u \in Volumes /\ i \in Inodes /\ i \notin v.inode_bits /\ u.inode_bits = v.inode_bits \cup {i}
      /\ Owned(u.block_bits, v.inode_bits, Lists(u)) /\ Clean(u)
      /\ BlocksCounted(u) /\ InodesCounted(u)
      /\ \A e \in Inodes \ {d} : u.inode[e] = v.inode[e]
      /\ Len(u.inode[d].i_block) \in 1 .. 2
  BY DEF Entered
<1>2. u.inode \in [Inodes -> InodeRecords]
  BY <1>1, Fields
<1>3. new \in InodeRecords /\ new.i_size = 0 /\ new.i_block = <<>>
  <2>1. DefaultMode[n] \in SUBSET {"r", "w", "x"}
    BY Zenon, Ext2Assumption
  <2> QED
    BY <2>1 DEF Inode, InodeRecords
<1>4. w = [u EXCEPT !.inode = table]
  BY <1>1 DEF preProcess, Volumes
<1> HIDE DEF new
<1>5. /\ table \in [Inodes -> InodeRecords] /\ table[i] = new
      /\ \A e \in Inodes \ {i} : table[e] = u.inode[e]
  BY <1>1, <1>2, <1>3
<1> HIDE DEF table
<1>6. OnlyInodes(u, w) /\ w.inode = table
  BY <1>1, <1>4, <1>5, InodesReplaced
<1>7. /\ w \in Volumes /\ w.inode_bits = u.inode_bits /\ w.block = u.block
      /\ w.block_bits = u.block_bits /\ BlocksCounted(w) /\ InodesCounted(w)
      /\ \A e \in Inodes \ {i} : w.inode[e] = u.inode[e]
      /\ w.inode[i].i_size = 0 /\ w.inode[i].i_block = <<>>
  BY <1>1, <1>3, <1>5, <1>6 DEF OnlyInodes, BlocksCounted, InodesCounted
<1>8. TreeSound(w) /\ Dirs(w) = Dirs(v) /\ Gained(v, w, d, n, i, FILE)
  <2>1. FILE # DIR /\ FILE \in {FILE, DIR}
    BY DEF FILE, DIR
  <2>2. TreeSound(w) /\ Dirs(w) = Dirs(v) \cup (IF FILE = DIR THEN {i} ELSE {})
        /\ Gained(v, w, d, n, i, FILE)
    BY <1>7, <2>1, EntryComplete
  <2> QED
    BY <2>1, <2>2
<1>9. Owned(w.block_bits, w.inode_bits, Lists(w))
  <2>1. Lists(u) \in BlockLists /\ v.inode_bits \in SUBSET Inodes
    BY <1>1, Fields DEF Sound
  <2>2. Lists(w) = [Lists(u) EXCEPT ![i] = <<>>]
    <3>1. \A e \in Inodes : w.inode[e].i_block = IF e = i THEN <<>> ELSE u.inode[e].i_block
      BY <1>7
    <3> QED
      BY <3>1 DEF Lists
  <2>3. Owned(u.block_bits, v.inode_bits \cup {i}, [Lists(u) EXCEPT ![i] = <<>>])
    BY <1>1, <2>1, OwnedBorn
  <2> QED
    BY <1>1, <1>7, <2>2, <2>3
<1>10. Clean(w)
  BY <1>1, <1>7 DEF Clean
<1>11. Small(w)
  <2>1. \A e \in Inodes : Len(v.inode[e].i_block) <= 8
                           /\ (e \notin v.inode_bits => v.inode[e].i_size = 0)
    BY DEF Sound, Small
  <2>2. d \in v.inode_bits
    BY DEF Dirs
  <2>3. Len(w.inode[i].i_block) = 0
    BY <1>7
  <2>4. ASSUME NEW e \in Inodes \ {i}
        PROVE  Len(w.inode[e].i_block) <= 8 /\ (e \notin w.inode_bits => w.inode[e].i_size = 0)
    <3>1. CASE e = d
      <4>1. Len(u.inode[d].i_block) <= 8 /\ w.inode[e] = u.inode[d]
        <5>1. w.inode[e] = u.inode[e] /\ u.inode[e] = u.inode[d]
          BY <1>7, <2>4, <3>1
        <5>2. Len(u.inode[d].i_block) \in 1 .. 2
          BY <1>1
        <5>3. Len(u.inode[d].i_block) <= 8
          BY <5>2, TwoFew
        <5> QED
          BY <5>1, <5>3
      <4>2. e \in w.inode_bits
        BY <1>1, <1>7, <2>2, <3>1
      <4> QED
        BY <4>1, <4>2
    <3>2. CASE e # d
      BY <1>1, <1>7, <2>1, <3>2
    <3> QED
      BY <3>1, <3>2
  <2> QED
    BY <1>7, <2>3, <2>4 DEF Small
<1>12. w.inode[i] = Inode(DefaultMode[n], 0, <<>>)
  BY <1>5, <1>6 DEF new
<1> QED
  BY <1>7, <1>8, <1>9, <1>10, <1>11, <1>12 DEF Sound

\* mkdir: a directory in a block of its own, with . and .. in it.
LEMMA DirMade ==
  ASSUME NEW v, Sound(v), NEW d \in Dirs(v), NEW n \in Names,
         NEW u, NEW p, NEW i, Entered(v, u, d, p, i, n, DIR), ~Found(v, d, n, DIR),
         Reachable(u.block_bits) # {}, NEW len \in {0, 1},
         NEW w, w = preProcess(u, i, d, n, DIR, len)
  PROVE  Sound(w) /\ Dirs(w) = Dirs(v) \cup {i} /\ Gained(v, w, d, n, i, DIR)
<1> DEFINE x == allocDataBlock(u)
           c == NewBlock(u)
           new == Inode(DIR_RW_MODE, 2, <<c>>)
           table == [u.inode EXCEPT ![i] = new]
           cells == [s \in Slots |->
             CASE s = 0 -> Entry(i, DIR, ".", 1)
               [] s = 1 -> Entry(d, DIR, "..", len)
               [] OTHER -> [u.block[c][s] EXCEPT !.inode = 0]]
           data == [u.block EXCEPT ![c] = cells]
           y == [x EXCEPT !.inode = table]
<1>1. /\ u \in Volumes /\ i \in Inodes /\ i \notin v.inode_bits /\ u.inode_bits = v.inode_bits \cup {i}
      /\ Owned(u.block_bits, v.inode_bits, Lists(u)) /\ Clean(u)
      /\ BlocksCounted(u) /\ InodesCounted(u)
      /\ \A e \in Inodes \ {d} : u.inode[e] = v.inode[e]
      /\ Len(u.inode[d].i_block) \in 1 .. 2
  BY DEF Entered
<1>2. /\ d \in v.inode_bits /\ d \in Inodes /\ v.inode_bits \in SUBSET Inodes /\ i # d
  BY <1>1, Fields DEF Sound, Dirs
<1>3. /\ u.inode \in [Inodes -> InodeRecords] /\ u.block \in [Blocks -> [Slots -> Cells]]
      /\ u.block_bits \in SUBSET Blocks /\ Lists(u) \in BlockLists
  BY <1>1, Fields
<1>4. /\ c \in Blocks /\ c \notin u.block_bits /\ x \in Volumes /\ BlocksCounted(x)
      /\ x.block_bits = u.block_bits \cup {c} /\ x.inode = u.inode /\ x.block = u.block
      /\ x.inode_bits = u.inode_bits /\ x.free_inodes_count = u.free_inodes_count
  BY <1>1, BlockAllocated, BlockCounted, AllocatorFields
<1>5. w = [[x EXCEPT !.inode = table] EXCEPT !.block = data]
  <2>1. DIR # FILE
    BY DEF DIR, FILE
  <2>2. w = [x EXCEPT !.inode[i] = new, !.block[c] =
               [s \in Slots |->
                 CASE s = 0 -> Entry(i, DIR, ".", 1)
                   [] s = 1 -> Entry(d, DIR, "..", len)
                   [] OTHER -> [x.block[c][s] EXCEPT !.inode = 0]]]
    BY <2>1 DEF preProcess
  <2> HIDE DEF x, new, c
  <2>3. [s \in Slots |->
                 CASE s = 0 -> Entry(i, DIR, ".", 1)
                   [] s = 1 -> Entry(d, DIR, "..", len)
                   [] OTHER -> [x.block[c][s] EXCEPT !.inode = 0]] = cells
    BY <1>4
  <2> HIDE DEF cells
  <2>4. w = [x EXCEPT !.inode[i] = new, !.block[c] = cells]
    BY <2>2, <2>3
  <2>5. x.inode = u.inode /\ x.block = u.block
    BY <1>4
  <2> QED
    BY <1>4, <2>4, <2>5 DEF Volumes
<1> HIDE DEF x
<1>6. new \in InodeRecords /\ new.i_size = 2 /\ new.i_block = <<c>> /\ Len(new.i_block) = 1
      /\ new.i_block[1] = c
  <2>1. DIR_RW_MODE \in SUBSET {"r", "w", "x"}
    BY DEF DIR_RW_MODE
  <2>2. <<c>> \in Seq(Blocks) /\ Len(<<c>>) = 1 /\ <<c>>[1] = c
    BY <1>4
  <2> QED
    BY <2>1, <2>2 DEF Inode, InodeRecords
<1> HIDE DEF new
<1>7. /\ table \in [Inodes -> InodeRecords] /\ table[i] = new
      /\ \A e \in Inodes \ {i} : table[e] = u.inode[e]
  BY <1>1, <1>3, <1>6
<1> HIDE DEF table
<1>8. OnlyInodes(x, y) /\ y.inode = table
  BY <1>4, <1>7, InodesReplaced
<1> HIDE DEF y
<1>9. /\ \A s \in Slots : u.block[c][s] \in Cells /\ u.block[c][s].type = 0 /\ u.block[c][s].name = ""
  BY <1>1, <1>3, <1>4 DEF Clean, NoEntries
<1>10. /\ cells \in [Slots -> Cells]
       /\ cells[0] = Entry(i, DIR, ".", 1) /\ cells[1] = Entry(d, DIR, "..", len)
       /\ \A s \in Slots \ {0, 1} : Empty(cells[s])
  <2>1. 0 \in Slots /\ 1 \in Slots
    BY SizeFacts DEF Slots
  <2>2. Entry(i, DIR, ".", 1) \in Cells /\ Entry(d, DIR, "..", len) \in Cells
    <3>1. i \in 0 .. INODE_NUM /\ d \in 0 .. INODE_NUM
      BY <1>1, <1>2, SizeFacts DEF Inodes
    <3>2. DIR \in {0, FILE, DIR, TEXT, TEXT_END}
      OBVIOUS
    <3> QED
      BY <3>1, <3>2, CellType
  <2>3. ASSUME NEW s \in Slots
        PROVE  /\ [u.block[c][s] EXCEPT !.inode = 0] \in Cells
               /\ Empty([u.block[c][s] EXCEPT !.inode = 0])
    <3>1. 0 \in 0 .. INODE_NUM
      BY SizeFacts
    <3> QED
      BY <1>9, <3>1 DEF Cells, Empty
  <2> QED
    BY <2>1, <2>2, <2>3
<1> HIDE DEF cells
<1>11. /\ data \in [Blocks -> [Slots -> Cells]] /\ data[c] = cells
       /\ \A b \in Blocks \ {c} : data[b] = u.block[b]
  BY <1>3, <1>4, <1>10
<1> HIDE DEF data
<1>12. w = [y EXCEPT !.block = data]
  BY <1>5 DEF y
<1>13. OnlyCells(y, w) /\ w.block = data
  BY <1>8, <1>11, <1>12, BlocksReplaced DEF OnlyInodes
<1>14. /\ w \in Volumes /\ w.inode_bits = u.inode_bits /\ w.block_bits = u.block_bits \cup {c}
       /\ w.free_blocks_count = x.free_blocks_count /\ w.free_inodes_count = u.free_inodes_count
       /\ w.inode = table /\ w.block = data
  BY <1>4, <1>8, <1>13 DEF OnlyInodes, OnlyCells
<1>15. BlocksCounted(w) /\ InodesCounted(w)
  BY <1>1, <1>4, <1>14 DEF BlocksCounted, InodesCounted
<1>16. TreeSound(w) /\ Dirs(w) = Dirs(v) \cup {i} /\ Gained(v, w, d, n, i, DIR)
  <2>1. FILE # DIR /\ DIR \in {FILE, DIR}
    BY DEF FILE, DIR
  <2>2. \A b \in u.block_bits : w.block[b] = u.block[b]
    BY <1>3, <1>4, <1>11, <1>14
  <2>3. \A e \in Inodes \ {i} : w.inode[e] = u.inode[e]
    BY <1>7, <1>14
  <2>4. w.inode[i] = new
    BY <1>7, <1>14
  <2>5. /\ Len(w.inode[i].i_block) = 1 /\ w.inode[i].i_size = 2 /\ w.inode[i].i_block[1] = c
    BY <1>6, <2>4
  <2>6. /\ CellAt(w, i, Dot) = Entry(i, DIR, ".", 1)
        /\ CellAt(w, i, DotDot) = Entry(d, DIR, "..", len)
    BY <1>10, <1>11, <1>14, <2>5 DEF CellAt, Dot, DotDot
  <2>7. ASSUME NEW q \in Places(w, i) \ {Dot, DotDot}
        PROVE  Empty(CellAt(w, i, q))
    <3>1. q[1] = 1 /\ q[2] \in Slots /\ q = <<q[1], q[2]>>
      BY <2>5, <2>7 DEF Places
    <3>2. q[2] # 0 /\ q[2] # 1
      BY <2>7, <3>1 DEF Dot, DotDot
    <3>3. CellAt(w, i, q) = cells[q[2]]
      BY <1>11, <1>14, <2>5, <3>1 DEF CellAt
    <3> QED
      BY <1>10, <3>1, <3>2, <3>3
  <2>8. /\ CellAt(w, i, DotDot).type = DIR /\ CellAt(w, i, DotDot).name = ".."
        /\ CellAt(w, i, DotDot).inode = d
    BY <2>6 DEF Entry
  <2>9. TreeSound(w) /\ Dirs(w) = Dirs(v) \cup (IF DIR = DIR THEN {i} ELSE {})
        /\ Gained(v, w, d, n, i, DIR)
    BY <1>14, <2>1, <2>2, <2>3, <2>5, <2>6, <2>7, <2>8, EntryComplete
  <2> QED
    BY <2>9
<1>17. Owned(w.block_bits, w.inode_bits, Lists(w))
  <2> DEFINE L == [Lists(u) EXCEPT ![i] = <<>>]
             I == v.inode_bits \cup {i}
  <2>1. Owned(u.block_bits, I, L)
    BY <1>1, <1>2, <1>3, OwnedBorn
  <2>2. L \in BlockLists /\ L[i] = <<>> /\ I \in SUBSET Inodes /\ i \in I
        /\ \A e \in Inodes \ {i} : L[e] = Lists(u)[e]
    BY <1>1, <1>2, <1>3 DEF BlockLists
  <2>3. Lists(w) = [L EXCEPT ![i] = Append(L[i], c)]
    <3>1. Append(<<>>, c) = <<c>>
      OBVIOUS
    <3>2. \A e \in Inodes : w.inode[e].i_block = IF e = i THEN <<c>> ELSE u.inode[e].i_block
      BY <1>6, <1>7, <1>14
    <3>3. \A e \in Inodes \ {i} : L[e] = u.inode[e].i_block
      BY <2>2 DEF Lists
    <3> HIDE DEF L
    <3>4. [L EXCEPT ![i] = Append(L[i], c)] = [e \in Inodes |-> IF e = i THEN <<c>> ELSE L[e]]
      BY <2>2, <3>1 DEF BlockLists
    <3> QED
      BY <3>2, <3>3, <3>4 DEF Lists
  <2> HIDE DEF L, I
  <2>4. c \in Blocks \ u.block_bits
    BY <1>4
  <2>5. Owned(u.block_bits \cup {c}, I, [L EXCEPT ![i] = Append(L[i], c)])
    BY <1>3, <2>1, <2>2, <2>4, OwnedGrows
  <2> QED
    BY <1>1, <1>14, <2>3, <2>5 DEF I
<1>18. Clean(w)
  BY <1>1, <1>11, <1>14 DEF Clean
<1>19. Small(w)
  <2>1. \A e \in Inodes : Len(v.inode[e].i_block) <= 8
                           /\ (e \notin v.inode_bits => v.inode[e].i_size = 0)
    BY DEF Sound, Small
  <2>2. Len(w.inode[i].i_block) <= 8 /\ i \in w.inode_bits
    <3>1. Len(w.inode[i].i_block) = 1 /\ i \in w.inode_bits
      BY <1>1, <1>6, <1>7, <1>14
    <3> QED
      BY <3>1, TwoFew
  <2>3. ASSUME NEW e \in Inodes \ {i}
        PROVE  Len(w.inode[e].i_block) <= 8 /\ (e \notin w.inode_bits => w.inode[e].i_size = 0)
    <3>1. w.inode[e] = u.inode[e]
      BY <1>7, <1>14
    <3>2. CASE e = d
      <4>1. Len(u.inode[d].i_block) \in 1 .. 2 /\ e \in w.inode_bits
        BY <1>1, <1>2, <1>14, <3>2
      <4>2. Len(u.inode[d].i_block) <= 8
        BY <4>1, TwoFew
      <4>3. w.inode[e] = u.inode[d]
        BY <3>1, <3>2
      <4> QED
        BY <4>1, <4>2, <4>3
    <3>3. CASE e # d
      <4>1. w.inode[e] = v.inode[e] /\ (e \notin w.inode_bits => e \notin v.inode_bits)
        BY <1>1, <1>14, <3>1, <3>3
      <4> QED
        BY <2>1, <4>1
    <3> QED
      BY <3>2, <3>3
  <2> QED
    BY <2>2, <2>3 DEF Small
<1> QED
  BY <1>14, <1>15, <1>16, <1>17, <1>18, <1>19 DEF Sound

(***************************************************************************)
(* Writing.                                                                *)
(***************************************************************************)
\* The scan reaches finitely many bits.
LEMMA ReachFinite ==
  ASSUME NEW used
  PROVE  /\ IsFiniteSet(Reachable(used)) /\ Reachable(used) \subseteq 0 .. Top - 1
         /\ Cardinality(Reachable(used)) \in Nat
         /\ Cardinality(Reachable(used)) = 0 <=> Reachable(used) = {}
<1>1. \A b \in Reachable(used) : b \in 0 .. Top - 1
  BY InReach DEF Bits, Top
<1>2. IsFiniteSet(0 .. Top - 1)
  BY SizeFacts, FS_Interval
<1>3. IsFiniteSet(Reachable(used))
  BY <1>1, <1>2, FS_Subset
<1> QED
  BY <1>1, <1>3, FS_CardinalityType, FS_EmptySet

\* A bit that is set is one the scan no longer reaches.
LEMMA ReachLess ==
  ASSUME NEW used, NEW b, b \in Reachable(used)
  PROVE  BlocksLeft(used \cup {b}) = BlocksLeft(used) - 1
<1>1. Reachable(used \cup {b}) = Reachable(used) \ {b}
  BY DEF Reachable
<1>2. Cardinality(Reachable(used) \ {b}) = Cardinality(Reachable(used)) - 1
  BY ReachFinite, FS_RemoveElement
<1> QED
  BY <1>1, <1>2 DEF BlocksLeft

\* A file's list after n more blocks: they were free, and only the list has changed.
Grown(v, w, i, n) ==
  /\ w \in Volumes /\ w.inode_bits = v.inode_bits /\ w.block = v.block
  /\ w.free_inodes_count = v.free_inodes_count
  /\ \A e \in Inodes \ {i} : w.inode[e] = v.inode[e]
  /\ w.inode[i].i_size = v.inode[i].i_size /\ w.inode[i].i_mode = v.inode[i].i_mode
  /\ Len(w.inode[i].i_block) = Len(v.inode[i].i_block) + n
  /\ v.block_bits \subseteq w.block_bits
  /\ Owned(w.block_bits, w.inode_bits, Lists(w)) /\ BlocksCounted(w)
  /\ BlocksLeft(w.block_bits) = BlocksLeft(v.block_bits) - n

\* One step of the loop that takes blocks for a text.
LEMMA OneGrown ==
  ASSUME NEW v \in Volumes, NEW i \in v.inode_bits, BlocksCounted(v),
         Owned(v.block_bits, v.inode_bits, Lists(v)), BlocksLeft(v.block_bits) > 0,
         NEW w, w = [allocDataBlock(v) EXCEPT !.inode[i].i_block = Append(@, NewBlock(v))]
  PROVE  Grown(v, w, i, 1)
<1> DEFINE x == allocDataBlock(v)
           b == NewBlock(v)
           a == Append(v.inode[i].i_block, b)
<1>1. Reachable(v.block_bits) # {}
  BY ReachFinite DEF BlocksLeft
<1>2. /\ b \in Blocks /\ b \notin v.block_bits /\ b \in Reachable(v.block_bits)
      /\ x \in Volumes /\ BlocksCounted(x)
      /\ x.block_bits = v.block_bits \cup {b} /\ x.inode = v.inode /\ x.block = v.block
      /\ x.inode_bits = v.inode_bits /\ x.free_inodes_count = v.free_inodes_count
  BY <1>1, BlockAllocated, BlockCounted, AllocatorFields
<1>3. /\ i \in Inodes /\ v.inode_bits \in SUBSET Inodes /\ v.block_bits \in SUBSET Blocks
      /\ Lists(v) \in BlockLists /\ v.inode[i].i_block \in Seq(Blocks)
      /\ Lists(v)[i] = v.inode[i].i_block /\ Len(v.inode[i].i_block) \in Nat
  BY Fields
<1>4. a \in Seq(Blocks) /\ Len(a) = Len(v.inode[i].i_block) + 1
  BY <1>2, <1>3
<1>5. w = [x EXCEPT !.inode[i].i_block = a]
  <2>1. w = [x EXCEPT !.inode[i].i_block = Append(x.inode[i].i_block, b)]
    <3> HIDE DEF x, b
    <3>1. w = [x EXCEPT !.inode[i].i_block = Append(@, b)]
      BY DEF x, b
    <3>2. x.inode \in [Inodes -> InodeRecords]
      BY <1>2, Fields
    <3> QED
      BY <1>3, <3>1, <3>2, <1>2 DEF Volumes, InodeRecords
  <2> HIDE DEF x, b
  <2> QED
    BY <1>2, <2>1
<1> HIDE DEF x, a
<1>6. /\ OnlyInodes(x, w) /\ \A e \in Inodes \ {i} : w.inode[e] = x.inode[e]
      /\ w.inode[i].i_block = a /\ w.inode[i].i_size = x.inode[i].i_size
      /\ w.inode[i].i_mode = x.inode[i].i_mode
  <2> DEFINE z == [x EXCEPT !.inode[i].i_block = a]
  <2>1. x \in Volumes /\ i \in Inodes /\ a \in Seq(Blocks)
    BY <1>2, <1>3, <1>4
  <2>2. /\ OnlyInodes(x, z) /\ \A e \in Inodes \ {i} : z.inode[e] = x.inode[e]
        /\ z.inode[i].i_block = a /\ z.inode[i].i_size = x.inode[i].i_size
        /\ z.inode[i].i_mode = x.inode[i].i_mode
    BY <2>1, ListSet
  <2>3. w = z
    BY <1>5
  <2> HIDE DEF z
  <2> QED
    BY <2>2, <2>3
<1>7. /\ w \in Volumes /\ w.block_bits = v.block_bits \cup {b} /\ w.inode_bits = v.inode_bits
      /\ w.free_inodes_count = v.free_inodes_count /\ w.block = v.block
      /\ w.free_blocks_count = x.free_blocks_count
      /\ \A e \in Inodes \ {i} : w.inode[e] = v.inode[e]
      /\ w.inode[i].i_block = a /\ w.inode[i].i_size = v.inode[i].i_size
      /\ w.inode[i].i_mode = v.inode[i].i_mode
  BY <1>2, <1>6 DEF OnlyInodes
<1>8. Owned(w.block_bits, w.inode_bits, Lists(w))
  <2>1. b \in Blocks \ v.block_bits
    BY <1>2
  <2> HIDE DEF b
  <2>2. Owned(v.block_bits \cup {b}, v.inode_bits, [Lists(v) EXCEPT ![i] = Append(Lists(v)[i], b)])
    BY <1>3, <2>1, OwnedGrows
  <2>3. Lists(w) = [Lists(v) EXCEPT ![i] = Append(Lists(v)[i], b)]
    <3>1. \A e \in Inodes : w.inode[e].i_block = IF e = i THEN a ELSE v.inode[e].i_block
      <4>1. w.inode[i].i_block = a
        BY <1>7
      <4>2. \A e \in Inodes \ {i} : w.inode[e].i_block = v.inode[e].i_block
        BY <1>7
      <4> HIDE DEF a
      <4>3. ASSUME NEW e \in Inodes
            PROVE  w.inode[e].i_block = IF e = i THEN a ELSE v.inode[e].i_block
        <5>1. CASE e = i
          BY <4>1, <5>1
        <5>2. CASE e # i
          BY <4>2, <5>2
        <5> QED
          BY <5>1, <5>2
      <4> QED
        BY <4>3
    <3>2. a = Append(Lists(v)[i], b)
      BY <1>3 DEF a
    <3> QED
      BY <3>1, <3>2 DEF Lists
  <2> QED
    BY <1>7, <2>2, <2>3
<1>9. BlocksCounted(w)
  BY <1>2, <1>7 DEF BlocksCounted
<1>10. BlocksLeft(w.block_bits) = BlocksLeft(v.block_bits) - 1
  <2> HIDE DEF b
  <2> QED
    BY <1>2, <1>7, ReachLess
<1> QED
  BY <1>4, <1>7, <1>8, <1>9, <1>10 DEF Grown

\* The loop, for as many blocks as the scan can find.
LEMMA TextGrown ==
  ASSUME NEW v \in Volumes, NEW i \in v.inode_bits, BlocksCounted(v),
         Owned(v.block_bits, v.inode_bits, Lists(v)),
         NEW n \in Nat, n <= BlocksLeft(v.block_bits)
  PROVE  Grown(v, Grow(v, i, n), i, n)
<1>1. PICK h : Walk(h, "grow", i, v, n) /\ Grow(v, i, n) = h[n]
  BY GrowWalk
<1>2. BlocksLeft(v.block_bits) \in Nat /\ Len(v.inode[i].i_block) \in Nat
  BY Fields, ReachFinite DEF BlocksLeft
<1> DEFINE Good == {k \in Nat : k <= n => Grown(v, h[k], i, k)}
<1>3. 0 \in Good
  <2>1. h[0] = v
    BY <1>1 DEF Walk
  <2>2. Grown(v, v, i, 0)
    BY <1>2 DEF Grown
  <2> QED
    BY <2>1, <2>2
<1>4. ASSUME NEW k \in Nat, k \in Good PROVE k + 1 \in Good
  <2> SUFFICES ASSUME k + 1 <= n PROVE Grown(v, h[k + 1], i, k + 1)
    OBVIOUS
  <2> DEFINE u == h[k]
             w == h[k + 1]
  <2>1. k + 1 \in 1 .. n /\ (k + 1) - 1 = k /\ Grown(v, u, i, k)
    BY <1>4
  <2>2. w = [allocDataBlock(u) EXCEPT !.inode[i].i_block = Append(@, NewBlock(u))]
    BY <1>1, <2>1 DEF Walk, Step
  <2> HIDE DEF u, w
  <2>3. /\ u \in Volumes /\ i \in u.inode_bits /\ BlocksCounted(u)
        /\ Owned(u.block_bits, u.inode_bits, Lists(u)) 
    BY <2>1 DEF Grown
  <2>4. BlocksLeft(u.block_bits) > 0
    <3>1. BlocksLeft(u.block_bits) = BlocksLeft(v.block_bits) - k
      BY <2>1 DEF Grown
    <3> QED
      BY <1>2, <3>1
  <2>5. Grown(u, w, i, 1)
    BY <2>2, <2>3, <2>4, OneGrown
  <2>6. /\ Len(w.inode[i].i_block) = Len(v.inode[i].i_block) + (k + 1)
        /\ BlocksLeft(w.block_bits) = BlocksLeft(v.block_bits) - (k + 1)
    <3>1. /\ Len(w.inode[i].i_block) = Len(u.inode[i].i_block) + 1
          /\ BlocksLeft(w.block_bits) = BlocksLeft(u.block_bits) - 1
      BY <2>5 DEF Grown
    <3>2. /\ Len(u.inode[i].i_block) = Len(v.inode[i].i_block) + k
          /\ BlocksLeft(u.block_bits) = BlocksLeft(v.block_bits) - k
      BY <2>1 DEF Grown
    <3> DEFINE l == Len(v.inode[i].i_block)
               m == BlocksLeft(v.block_bits)
    <3>3. l \in Nat /\ m \in Nat
      BY <1>2
    <3>4. Len(w.inode[i].i_block) = (l + k) + 1 /\ BlocksLeft(w.block_bits) = (m - k) - 1
      BY <3>1, <3>2
    <3> HIDE DEF l, m
    <3>5. (l + k) + 1 = l + (k + 1) /\ (m - k) - 1 = m - (k + 1)
      BY <3>3
    <3>6. Len(w.inode[i].i_block) = l + (k + 1) /\ BlocksLeft(w.block_bits) = m - (k + 1)
      BY <3>4, <3>5
    <3> QED
      BY <3>6 DEF l, m
  <2>7. Grown(v, w, i, k + 1)
    BY <2>1, <2>5, <2>6 DEF Grown
  <2> QED
    BY <2>7 DEF w
<1> HIDE DEF Good
<1>5. n \in Good
  BY <1>3, <1>4, NaturalSteps
<1>6. Grown(v, h[n], i, n)
  BY <1>5 DEF Good
<1> QED
  BY <1>1, <1>6

\* A file without its text.
Forgotten(v, i) == [freeDataBlocks(v, v.inode[i].i_block) EXCEPT !.inode[i].i_block = <<>>]

\* A file's blocks are freed and its list is emptied, to be written again.
LEMMA ListEmptied ==
  ASSUME NEW v, Sound(v), NEW i \in v.inode_bits,
         NEW w, w = Forgotten(v, i)
  PROVE  /\ w \in Volumes /\ w.inode_bits = v.inode_bits
         /\ w.free_inodes_count = v.free_inodes_count
         /\ w.block_bits = v.block_bits \ ListedIn(v.inode[i].i_block)
         /\ Owned(w.block_bits, w.inode_bits, Lists(w)) /\ BlocksCounted(w) /\ Clean(w)
         /\ \A e \in Inodes \ {i} : w.inode[e] = v.inode[e]
         /\ w.inode[i].i_block = <<>> /\ w.inode[i].i_size = v.inode[i].i_size
         /\ w.inode[i].i_mode = v.inode[i].i_mode
         /\ \A b \in w.block_bits : w.block[b] = v.block[b]
<1> DEFINE a == v.inode[i].i_block
           S == ListedIn(a)
           x == freeDataBlocks(v, a)
           none == <<>>
<1>1. /\ v \in Volumes /\ i \in Inodes /\ v.inode_bits \in SUBSET Inodes /\ v.block_bits \in SUBSET Blocks
      /\ Lists(v) \in BlockLists /\ a \in Seq(Blocks) /\ Lists(v)[i] = a
      /\ Owned(v.block_bits, v.inode_bits, Lists(v)) /\ BlocksCounted(v) /\ Clean(v)
  BY Fields DEF Sound
<1>2. \A k \in 1 .. Len(a) : a[k] \in v.block_bits
  BY OwnBlocks
<1>3. \A k, l \in 1 .. Len(a) : a[k] = a[l] => k = l
  BY OwnBlocks
<1>4. Freed(v, x, S)
  <2> HIDE DEF a
  <2> QED
    BY <1>1, <1>2, <1>3, ListFreed
<1>5. S \subseteq v.block_bits
  BY <1>2 DEF ListedIn
<1> HIDE DEF S, x
<1>6. /\ OnlyInodes(x, w) /\ \A e \in Inodes \ {i} : w.inode[e] = x.inode[e]
      /\ w.inode[i].i_block = none /\ w.inode[i].i_size = x.inode[i].i_size
      /\ w.inode[i].i_mode = x.inode[i].i_mode
  <2> DEFINE z == [x EXCEPT !.inode[i].i_block = none]
  <2>1. x \in Volumes /\ i \in Inodes /\ none \in Seq(Blocks)
    BY <1>1, <1>4 DEF Freed
  <2>2. w = z
    BY DEF x, Forgotten
  <2> HIDE DEF none
  <2>3. /\ OnlyInodes(x, z) /\ \A e \in Inodes \ {i} : z.inode[e] = x.inode[e]
        /\ z.inode[i].i_block = none /\ z.inode[i].i_size = x.inode[i].i_size
        /\ z.inode[i].i_mode = x.inode[i].i_mode
    BY <2>1, ListSet
  <2> HIDE DEF z
  <2> QED
    BY <2>2, <2>3
<1>7. /\ w \in Volumes /\ w.inode_bits = v.inode_bits /\ w.free_inodes_count = v.free_inodes_count
      /\ w.block_bits = v.block_bits \ S /\ w.block = x.block
      /\ w.free_blocks_count = x.free_blocks_count
      /\ \A e \in Inodes \ {i} : w.inode[e] = v.inode[e]
      /\ w.inode[i].i_block = none /\ w.inode[i].i_size = v.inode[i].i_size
      /\ w.inode[i].i_mode = v.inode[i].i_mode
      /\ \A b \in Blocks \ S : w.block[b] = v.block[b]
      /\ \A b \in S : NoEntries(w.block[b])
  BY <1>1, <1>4, <1>6 DEF OnlyInodes, Freed
<1>8. BlocksCounted(w)
  BY <1>1, <1>4, <1>7 DEF BlocksCounted, Freed
<1>9. Clean(w)
  BY <1>1, <1>7 DEF Clean
<1>10. Owned(w.block_bits, w.inode_bits, Lists(w))
  <2>1. Owned(v.block_bits \ ListedIn(Lists(v)[i]), v.inode_bits, [Lists(v) EXCEPT ![i] = <<>>])
    BY <1>1, OwnedEmptied
  <2>2. Lists(w) = [Lists(v) EXCEPT ![i] = <<>>]
    <3>1. ASSUME NEW e \in Inodes
          PROVE  w.inode[e].i_block = IF e = i THEN <<>> ELSE v.inode[e].i_block
      <4>1. CASE e = i
        BY <1>7, <4>1
      <4>2. CASE e # i
        BY <1>7, <4>2
      <4> QED
        BY <4>1, <4>2
    <3> QED
      BY <3>1 DEF Lists
  <2> QED
    BY <1>1, <1>7, <2>1, <2>2 DEF S
<1>11. \A b \in w.block_bits : w.block[b] = v.block[b]
  BY <1>1, <1>7
<1> QED
  BY <1>7, <1>8, <1>9, <1>10, <1>11 DEF S

\* File i holds a text of `length' cells of d.
Holds(v, i, d, length) ==
  /\ Len(v.inode[i].i_block) = BlocksFor(length)
  /\ \A k \in 1 .. BlocksFor(length), s \in Slots :
       LET c == (k - 1) * DIR_ENTRY_NUM_PER_BLOCK + s + 1
       IN /\ c < length => BlockAt(v, i, k)[s] = TextCell(d, TEXT)
          /\ c = length => BlockAt(v, i, k)[s] = TextCell(d, TEXT_END)

\* write: a file's text is replaced, and nothing of a directory.
LEMMA TextWritten ==
  ASSUME NEW v, Sound(v), NEW i \in v.inode_bits, i \notin Dirs(v), NEW d \in Data,
         NEW length \in Nat, BlocksFor(length) \in Nat, BlocksFor(length) <= N_DIRECT,
         BlocksFor(length) <= BlocksLeft(v.block_bits \ ListedIn(v.inode[i].i_block)),
         NEW w, w = WriteText(v, i, d, length)
  PROVE  /\ Sound(w) /\ Dirs(w) = Dirs(v) /\ FileChanged(v, w, i)
         /\ w.inode[i].i_mode = v.inode[i].i_mode /\ Holds(w, i, d, length)
<1> DEFINE n == BlocksFor(length)
           x == Forgotten(v, i)
           y == Grow(x, i, n)
           at == y.inode[i].i_block
           Number(k, s) == (k - 1) * DIR_ENTRY_NUM_PER_BLOCK + s + 1
           Written(b, s) ==
             LET c == Number(CHOOSE k \in DOMAIN at : at[k] = b, s)
             IN IF c < length THEN TextCell(d, TEXT)
                ELSE IF c = length THEN TextCell(d, TEXT_END) ELSE y.block[b][s]
           data == [b \in Blocks |->
             IF b \in {at[k] : k \in DOMAIN at} THEN [s \in Slots |-> Written(b, s)] ELSE y.block[b]]
<1>1. /\ v \in Volumes /\ i \in Inodes /\ v.inode_bits \in SUBSET Inodes /\ TreeSound(v)
      /\ InodesCounted(v) /\ Small(v)
  BY Fields DEF Sound
<1>2. w = [y EXCEPT !.block = data]
  BY DEF WriteText, Forgotten
<1>3. /\ x \in Volumes /\ x.inode_bits = v.inode_bits
      /\ x.free_inodes_count = v.free_inodes_count
      /\ x.block_bits = v.block_bits \ ListedIn(v.inode[i].i_block)
      /\ Owned(x.block_bits, x.inode_bits, Lists(x)) /\ BlocksCounted(x) /\ Clean(x)
      /\ \A e \in Inodes \ {i} : x.inode[e] = v.inode[e]
      /\ x.inode[i].i_block = <<>> /\ x.inode[i].i_size = v.inode[i].i_size
      /\ x.inode[i].i_mode = v.inode[i].i_mode
      /\ \A b \in x.block_bits : x.block[b] = v.block[b]
  BY ListEmptied
<1> HIDE DEF x
<1>4. n \in Nat /\ n <= 8 /\ n <= BlocksLeft(x.block_bits)
  <2>1. N_DIRECT \in 0 .. 8
    BY Zenon, Ext2Assumption
  <2>2. n <= BlocksLeft(x.block_bits)
    BY <1>3
  <2> HIDE DEF n
  <2>3. n \in Nat /\ n <= N_DIRECT
    BY DEF n
  <2> QED
    BY <2>1, <2>2, <2>3
<1> HIDE DEF n
<1>5. Grown(x, y, i, n)
  BY <1>3, <1>4, TextGrown
<1> HIDE DEF y
<1>6. /\ y \in Volumes /\ y.inode_bits = v.inode_bits /\ y.block = x.block
      /\ y.free_inodes_count = v.free_inodes_count
      /\ \A e \in Inodes \ {i} : y.inode[e] = v.inode[e]
      /\ y.inode[i].i_size = v.inode[i].i_size /\ x.block_bits \subseteq y.block_bits
      /\ y.inode[i].i_mode = v.inode[i].i_mode
      /\ Owned(y.block_bits, y.inode_bits, Lists(y)) /\ BlocksCounted(y)
  BY <1>3, <1>5 DEF Grown
<1>7. Len(at) = n
  <2>1. Len(at) = Len(x.inode[i].i_block) + n /\ Len(x.inode[i].i_block) = 0
    BY <1>3, <1>5 DEF Grown
  <2> QED
    BY <1>4, <2>1
<1>8. /\ y.block \in [Blocks -> [Slots -> Cells]] /\ at \in Seq(Blocks) /\ y.block_bits \in SUBSET Blocks
      /\ Lists(y)[i] = at /\ \A e \in Inodes : Lists(y)[e] = y.inode[e].i_block
  BY <1>1, <1>6, Fields
<1> HIDE DEF at
<1>9. \A b \in Blocks, s \in Slots : Written(b, s) \in Cells
  <2>1. TextCell(d, TEXT) \in Cells /\ TextCell(d, TEXT_END) \in Cells
    <3>1. INODE_NUM \in 0 .. INODE_NUM /\ 1 \in {0, 1}
      BY SizeFacts
    <3> QED
      BY <3>1, CellType DEF TextCell
  <2> HIDE DEF Number
  <2> QED
    BY <1>8, <2>1
<1>20. ASSUME NEW k \in 1 .. n, NEW s \in Slots
       PROVE  LET c == Number(k, s)
              IN /\ c < length => Written(at[k], s) = TextCell(d, TEXT)
                 /\ c = length => Written(at[k], s) = TextCell(d, TEXT_END)
  <2>1. \A l \in 1 .. Len(at) : at[k] = at[l] => k = l
    <3>1. \A f, g \in y.inode_bits :
            \A m \in 1 .. Len(Lists(y)[f]), o \in 1 .. Len(Lists(y)[g]) :
              Lists(y)[f][m] = Lists(y)[g][o] => f = g /\ m = o
      BY Zenon, <1>6 DEF Owned
    <3>2. i \in y.inode_bits
      BY <1>6
    <3>3. \A m, o \in 1 .. Len(Lists(y)[i]) : Lists(y)[i][m] = Lists(y)[i][o] => m = o
      BY Zenon, <3>1, <3>2
    <3>4. Lists(y)[i] = at /\ k \in 1 .. Len(at)
      BY <1>7, <1>8
    <3>5. \A m, o \in 1 .. Len(at) : at[m] = at[o] => m = o
      BY Zenon, <3>3, <3>4
    <3> QED
      BY Zenon, <3>4, <3>5
  <2>2. DOMAIN at = 1 .. Len(at)
    BY <1>8
  <2>3. (CHOOSE l \in DOMAIN at : at[l] = at[k]) = k
    BY <1>7, <2>1, <2>2
  <2> DEFINE c == Number(k, s)
  <2>4. Written(at[k], s) = IF c < length THEN TextCell(d, TEXT)
                            ELSE IF c = length THEN TextCell(d, TEXT_END) ELSE y.block[at[k]][s]
    BY Zenon, <2>3
  <2>5. c \in Int
    BY SizeFacts DEF Slots
  <2> HIDE DEF c, Written, Number
  <2> QED
    BY <2>4, <2>5 DEF c
<1> HIDE DEF Written
<1>10. /\ data \in [Blocks -> [Slots -> Cells]]
       /\ \A b \in Blocks \ ListedIn(at) : data[b] = y.block[b]
       /\ \A k \in 1 .. n, s \in Slots : data[at[k]][s] = Written(at[k], s)
  <2>1. {at[k] : k \in DOMAIN at} = ListedIn(at)
    BY <1>8 DEF ListedIn
  <2>2. \A k \in 1 .. n : at[k] \in ListedIn(at) /\ at[k] \in Blocks
    BY <1>7, <1>8 DEF ListedIn
  <2> QED
    BY <1>8, <1>9, <2>1, <2>2
<1> HIDE DEF data
<1>11. OnlyCells(y, w) /\ w.block = data
  BY <1>2, <1>6, <1>10, BlocksReplaced
<1>12. /\ w \in Volumes /\ w.block_bits = y.block_bits /\ w.inode = y.inode
       /\ w.inode_bits = v.inode_bits /\ w.free_inodes_count = v.free_inodes_count
       /\ w.free_blocks_count = y.free_blocks_count
       /\ \A b \in Blocks \ ListedIn(at) : w.block[b] = x.block[b]
  BY <1>6, <1>10, <1>11 DEF OnlyCells
<1>13. Owned(w.block_bits, w.inode_bits, Lists(w)) /\ BlocksCounted(w) /\ InodesCounted(w)
  <2>1. Lists(w) = Lists(y)
    BY <1>12 DEF Lists
  <2> QED
    BY <1>1, <1>6, <1>12, <2>1 DEF BlocksCounted, InodesCounted
<1>14. Clean(w)
  <2>1. ListedIn(at) \subseteq y.block_bits
    BY <1>6, <1>8 DEF Owned, ListedIn
  <2> QED
    BY <1>3, <1>6, <1>12, <2>1 DEF Clean
<1>15. Small(w)
  <2>1. w.inode[i] = y.inode[i] /\ w.inode[i].i_block = at /\ w.inode[i].i_size = v.inode[i].i_size
    BY <1>6, <1>12 DEF at
  <2>2. Len(w.inode[i].i_block) <= 8
    BY <1>4, <1>7, <2>1
  <2>3. \A e \in Inodes \ {i} : w.inode[e] = v.inode[e]
    BY <1>6, <1>12
  <2> QED
    BY <1>1, <1>12, <2>1, <2>2, <2>3 DEF Small
<1>16. Dirs(w) = Dirs(v)
  <2>1. \A e \in Inodes : w.inode[e].i_size = v.inode[e].i_size
    <3>1. w.inode[i].i_size = v.inode[i].i_size
      BY <1>6, <1>12
    <3>2. \A e \in Inodes \ {i} : w.inode[e] = v.inode[e]
      BY <1>6, <1>12
    <3> QED
      BY <3>1, <3>2
  <2> QED
    BY <1>1, <1>12, <2>1 DEF Dirs
<1>22. ASSUME NEW e \in v.inode_bits, e # i
       PROVE  /\ w.inode[e] = v.inode[e]
              /\ \A k \in 1 .. Len(v.inode[e].i_block) :
                   w.block[v.inode[e].i_block[k]] = v.block[v.inode[e].i_block[k]]
  <2>1. e \in Inodes /\ e \in v.inode_bits /\ e # i
    BY <1>1, <1>22
  <2>2. w.inode[e] = v.inode[e] /\ y.inode[e] = v.inode[e] /\ x.inode[e] = v.inode[e]
    BY <1>3, <1>6, <1>12, <2>1
  <2>3. ASSUME NEW k \in 1 .. Len(v.inode[e].i_block)
        PROVE  w.block[v.inode[e].i_block[k]] = v.block[v.inode[e].i_block[k]]
    <3> DEFINE b == v.inode[e].i_block[k]
    <3>1. Lists(x)[e] = v.inode[e].i_block /\ Lists(y)[e] = v.inode[e].i_block
      BY <1>8, <2>1, <2>2 DEF Lists
    <3>2. b \in x.block_bits
      BY <1>3, <2>1, <3>1 DEF Owned
    <3>3. b \notin ListedIn(at)
      <4>1. \A l \in 1 .. Len(Lists(y)[i]) : Lists(y)[e][k] # Lists(y)[i][l]
        <5>1. k \in 1 .. Len(Lists(y)[e]) /\ i \in y.inode_bits /\ e \in y.inode_bits
          BY <1>1, <1>6, <2>1, <3>1
        <5> QED
          <6>1. \A f, g \in y.inode_bits :
                  \A m \in 1 .. Len(Lists(y)[f]), o \in 1 .. Len(Lists(y)[g]) :
                    Lists(y)[f][m] = Lists(y)[g][o] => f = g /\ m = o
            BY Zenon, <1>6 DEF Owned
          <6> QED
            BY Zenon, <2>1, <5>1, <6>1
      <4>2. b = Lists(y)[e][k] /\ Lists(y)[i] = at
        BY <1>8, <3>1
      <4> HIDE DEF b
      <4> QED
        BY Zenon, <4>1, <4>2 DEF ListedIn
    <3>4. b \in Blocks
      BY <1>6, <1>8, <3>2
    <3> HIDE DEF b
    <3>5. w.block[b] = x.block[b] /\ x.block[b] = v.block[b]
      BY <1>3, <1>12, <3>2, <3>3, <3>4
    <3> QED
      BY <3>5 DEF b
  <2> QED
    BY <2>2, <2>3
<1>17. ASSUME NEW e \in Dirs(v)
       PROVE  /\ w.inode[e] = v.inode[e] /\ Places(w, e) = Places(v, e)
              /\ \A q \in Places(v, e) : CellAt(w, e, q) = CellAt(v, e, q)
  <2>1. e \in v.inode_bits /\ e # i
    BY DEF Dirs
  <2>2. /\ w.inode[e] = v.inode[e]
        /\ \A k \in 1 .. Len(v.inode[e].i_block) :
             w.block[v.inode[e].i_block[k]] = v.block[v.inode[e].i_block[k]]
    BY <1>22, <2>1
  <2>3. w.inode[e].i_block = v.inode[e].i_block
    BY <2>2
  <2> QED
    BY <2>2, <2>3, CellsKept
<1>18. Same(v, w)
  <2>1. \A e \in Dirs(v) : Len(v.inode[e].i_block) \in 1 .. 2
    BY <1>1 DEF TreeSound, Dotted
  <2> QED
    BY <1>12, <1>16, <1>17, <2>1 DEF Same
<1>19. TreeSound(w)
  BY <1>1, <1>18, SameSound
<1>21. FileChanged(v, w, i)
  <2>1. \A path : Pathed(v, path) => Pathed(w, path)
    BY <1>1, <1>18, SamePaths
  <2>2. FilesKept(v, w, (v.inode_bits \ Dirs(v)) \ {i})
    BY <1>22 DEF FilesKept
  <2> QED
    BY <1>12, <1>16, <2>1, <2>2 DEF FileChanged
<1>23. w.inode[i].i_mode = v.inode[i].i_mode
  BY <1>6, <1>12
<1>24. Holds(w, i, d, length)
  <2>1. w.inode[i].i_block = at /\ Len(at) = BlocksFor(length)
    BY <1>7, <1>12 DEF at, n
  <2>2. ASSUME NEW k \in 1 .. n, NEW s \in Slots
        PROVE  LET c == Number(k, s)
               IN /\ c < length => BlockAt(w, i, k)[s] = TextCell(d, TEXT)
                  /\ c = length => BlockAt(w, i, k)[s] = TextCell(d, TEXT_END)
    <3>1. BlockAt(w, i, k)[s] = Written(at[k], s)
      BY <1>10, <1>11, <2>1 DEF BlockAt
    <3> HIDE DEF Number
    <3> QED
      BY <1>20, <3>1
  <2> QED
    BY <2>1, <2>2 DEF Holds, n
<1> QED
  BY <1>12, <1>13, <1>14, <1>15, <1>16, <1>19, <1>21, <1>23, <1>24 DEF Sound

\* chmod: the mode of one inode.
LEMMA ModeSet ==
  ASSUME NEW v, Sound(v), NEW i \in Inodes, NEW mode \in SUBSET {"r", "w", "x"},
         NEW w, w = [v EXCEPT !.inode[i].i_mode = mode]
  PROVE  /\ Sound(w) /\ Dirs(w) = Dirs(v) /\ FileChanged(v, w, i) /\ w.block = v.block
         /\ w.inode[i].i_mode = mode /\ w.inode[i].i_block = v.inode[i].i_block
<1> DEFINE table == [v.inode EXCEPT ![i].i_mode = mode]
<1>1. v \in Volumes /\ TreeSound(v) /\ v.inode_bits \in SUBSET Inodes
  BY Fields DEF Sound
<1>2. v.inode \in [Inodes -> InodeRecords]
  BY <1>1, Fields
<1>3. w = [v EXCEPT !.inode = table]
  BY <1>1 DEF Volumes
<1>4. /\ table \in [Inodes -> InodeRecords]
      /\ table[i].i_mode = mode /\ \A e \in Inodes \ {i} : table[e] = v.inode[e]
      /\ \A e \in Inodes : table[e].i_block = v.inode[e].i_block /\ table[e].i_size = v.inode[e].i_size
  BY <1>2 DEF InodeRecords
<1> HIDE DEF table
<1>5. OnlyInodes(v, w) /\ w.inode = table
  <2>1. OnlyInodes(v, [v EXCEPT !.inode = table]) /\ [v EXCEPT !.inode = table].inode = table
    BY <1>1, <1>4, InodesReplaced
  <2> QED
    BY <1>3, <2>1
<1>6. /\ w \in Volumes /\ w.block_bits = v.block_bits /\ w.inode_bits = v.inode_bits
      /\ w.free_blocks_count = v.free_blocks_count
      /\ w.free_inodes_count = v.free_inodes_count /\ w.block = v.block
      /\ \A e \in Inodes : w.inode[e].i_block = v.inode[e].i_block
                           /\ w.inode[e].i_size = v.inode[e].i_size
  BY <1>4, <1>5 DEF OnlyInodes
<1>7. Dirs(w) = Dirs(v)
  BY <1>1, <1>6 DEF Dirs
<1>8. Owned(w.block_bits, w.inode_bits, Lists(w))
  <2>1. Lists(w) = Lists(v)
    BY <1>6 DEF Lists
  <2> QED
    BY <1>6, <2>1 DEF Sound
<1>9. Clean(w) /\ Small(w) /\ BlocksCounted(w) /\ InodesCounted(w)
  BY <1>6 DEF Sound, Clean, Small, BlocksCounted, InodesCounted
<1>10. Same(v, w)
  <2>1. ASSUME NEW e \in Dirs(v)
        PROVE  /\ Len(w.inode[e].i_block) \in 1 .. 2 /\ Places(w, e) = Places(v, e)
               /\ \A q \in Places(w, e) : CellAt(w, e, q) = CellAt(v, e, q)
               /\ w.inode[e].i_size = v.inode[e].i_size
    <3>1. e \in Inodes /\ Len(v.inode[e].i_block) \in 1 .. 2
      BY <1>1 DEF Dirs, TreeSound, Dotted
    <3> QED
      BY <1>6, <3>1 DEF Places, CellAt
  <2> QED
    BY <1>6, <1>7, <2>1 DEF Same
<1>11. FileChanged(v, w, i)
  <2>1. \A path : Pathed(v, path) => Pathed(w, path)
    BY <1>1, <1>10, SamePaths
  <2>2. \A e \in Inodes \ {i} : w.inode[e] = v.inode[e]
    BY <1>4, <1>5
  <2> QED
    BY <1>1, <1>6, <1>7, <2>1, <2>2 DEF FileChanged, FilesKept
<1>12. w.inode[i].i_mode = mode
  BY <1>4, <1>5
<1> QED
  BY <1>1, <1>6, <1>7, <1>8, <1>9, <1>10, <1>11, <1>12, SameSound DEF Sound

(***************************************************************************)
(* A new volume.                                                           *)
(***************************************************************************)
\* Of a set with 0 in it that is the least.
LEMMA LeastZero ==
  ASSUME NEW S \in SUBSET Nat, 0 \in S
  PROVE  LeastOf(S) = 0
<1>1. \A y \in S : 0 <= y
  OBVIOUS
<1>2. \A x \in S : (\A y \in S : x <= y) => x = 0
  OBVIOUS
<1> QED
  BY <1>1, <1>2 DEF LeastOf

\* On an empty bitmap the scan finds the first bit.
LEMMA FirstBit == NextFree({}, 0) = 0 /\ ByteOf(0) = 0 /\ 0 \in Slots
<1>1. /\ DIR_ENTRY_NUM_PER_BLOCK \in Nat /\ DIR_ENTRY_NUM_PER_BLOCK > 2
      /\ BYTE_BITS \in Nat /\ BYTE_BITS > 0
  <2>1. BYTE_BITS \in Nat \ {0}
    BY Zenon, Ext2Assumption
  <2> QED
    BY <2>1, SizeFacts
<1>2. Top \in Nat /\ Top >= 1
  BY <1>1 DEF Top
<1>3. ByteOf(0) = 0
  BY <1>1 DEF ByteOf
<1>4. 0 \in Bits(0) /\ Bits(0) \in SUBSET Nat /\ 0 \in Slots
  BY <1>1, <1>2, <1>3 DEF Bits, Top, Slots
<1>5. 0 % DIR_ENTRY_NUM_PER_BLOCK = 0
  BY <1>1
<1> DEFINE away == LeastOf({d \in Slots : ~ByteFull({}, (0 + d) % DIR_ENTRY_NUM_PER_BLOCK)})
<1>6. away = 0
  <2>1. 0 \in {d \in Slots : ~ByteFull({}, (0 + d) % DIR_ENTRY_NUM_PER_BLOCK)}
    BY <1>4, <1>5 DEF ByteFull
  <2>2. Slots \subseteq Nat
    BY DEF Slots
  <2> QED
    BY <2>1, <2>2, LeastZero
<1>7. LeastOf(Bits((0 + 0) % DIR_ENTRY_NUM_PER_BLOCK) \ {}) = 0
  <2>1. Bits((0 + 0) % DIR_ENTRY_NUM_PER_BLOCK) \ {} = Bits(0)
    BY <1>5
  <2> QED
    BY <1>4, <2>1, LeastZero
<1>8. NextFree({}, 0) = LeastOf(Bits((0 + away) % DIR_ENTRY_NUM_PER_BLOCK) \ {})
  BY DEF NextFree
<1> HIDE DEF away
<1> QED
  BY <1>3, <1>4, <1>6, <1>7, <1>8

\* The block of the root directory.
RootCells ==
  [s \in Slots |->
     CASE s = 0 -> Entry(root, DIR, ".", 1)
       [] s = 1 -> Entry(root, DIR, "..", 1)
       [] OTHER -> NoEntry]

\* The first volume, field by field.
LEMMA FirstFields ==
  /\ NewVolume.block_bits = {0} /\ NewVolume.inode_bits = {0}
  /\ NewVolume.free_blocks_count = DATA_BLOCK_NUM - 1
  /\ NewVolume.free_inodes_count = INODE_NUM - 1
  /\ NewVolume.inode =
       [i \in Inodes |-> IF i = 0 THEN Inode(DIR_RW_MODE, 2, <<0>>) ELSE Blank]
  /\ NewVolume.block =
       [b \in Blocks |-> IF b = 0 THEN RootCells ELSE [s \in Slots |-> NoEntry]]
  /\ NewVolume \in Volumes
<1> DEFINE table == [i \in Inodes |-> Blank]
           data == [b \in Blocks |-> [s \in Slots |-> NoEntry]]
           zero == [block_bits |-> {}, free_blocks_count |-> DATA_BLOCK_NUM,
                    last_alloc_block |-> 0,
                    inode_bits |-> {}, free_inodes_count |-> INODE_NUM, last_alloc_inode |-> 0,
                    inode |-> table, block |-> data]
           x == allocDataBlock(zero)
           y == allocInode(x)
           first == Inode(DIR_RW_MODE, 2, <<0>>)
           table1 == [table EXCEPT ![0] = first]
           data1 == [data EXCEPT ![0] = RootCells]
<1>1. NewBlock(zero) = 0 /\ ByteOf(NewBlock(zero)) = 0
  <2>1. NewBlock(zero) = NextFree({}, 0)
    BY DEF NewBlock
  <2> QED
    BY <2>1, FirstBit
<1> HIDE DEF table, data
<1>2. x = [block_bits |-> {} \cup {0}, free_blocks_count |-> DATA_BLOCK_NUM - 1,
           last_alloc_block |-> 0,
           inode_bits |-> {}, free_inodes_count |-> INODE_NUM, last_alloc_inode |-> 0,
           inode |-> table, block |-> data]
  <2> HIDE DEF zero
  <2>1. x = [zero EXCEPT !.block_bits = @ \cup {0}, !.free_blocks_count = @ - 1,
                         !.last_alloc_block = 0]
    BY Zenon, <1>1 DEF allocDataBlock
  <2> HIDE DEF x
  <2> USE DEF zero
  <2> QED
    BY <2>1
<1>3. NewInode(x) = 0 /\ ByteOf(NewInode(x)) = 0
  <2> HIDE DEF x
  <2>1. x.inode_bits = {} /\ x.last_alloc_inode = 0
    BY <1>2
  <2>2. NewInode(x) = NextFree({}, 0)
    BY <2>1 DEF NewInode
  <2> QED
    BY <2>2, FirstBit
<1>4. y = [block_bits |-> {} \cup {0}, free_blocks_count |-> DATA_BLOCK_NUM - 1,
           last_alloc_block |-> 0,
           inode_bits |-> {} \cup {0}, free_inodes_count |-> INODE_NUM - 1, last_alloc_inode |-> 0,
           inode |-> table, block |-> data]
  <2> HIDE DEF x
  <2>1. y = [x EXCEPT !.inode_bits = @ \cup {0}, !.free_inodes_count = @ - 1,
                      !.last_alloc_inode = 0]
    BY Zenon, <1>3 DEF allocInode
  <2> HIDE DEF y
  <2> QED
    BY <1>2, <2>1
<1>5. NewVolume = [y EXCEPT !.inode[root] = Inode(DIR_RW_MODE, 2, <<NewBlock(zero)>>),
                            !.block[root] = RootCells]
  BY DEF NewVolume, RootCells, table, data
<1>6. NewVolume = [y EXCEPT !.inode[root] = first, !.block[root] = RootCells]
  <2> HIDE DEF y, zero
  <2> QED
    BY <1>1, <1>5
<1> HIDE DEF first
<1>7. NewVolume = [block_bits |-> {} \cup {0}, free_blocks_count |-> DATA_BLOCK_NUM - 1,
           last_alloc_block |-> 0,
           inode_bits |-> {} \cup {0}, free_inodes_count |-> INODE_NUM - 1, last_alloc_inode |-> 0,
           inode |-> table1, block |-> data1]
  <2> HIDE DEF y
  <2> QED
    BY <1>4, <1>6 DEF root
<1>8. 0 \in Blocks /\ 0 \in Inodes /\ {} \cup {0} = {0} /\ 0 \in Slots
  BY SizeFacts, FirstBit DEF Blocks, Inodes
<1>9. /\ table1 = [i \in Inodes |-> IF i = 0 THEN first ELSE Blank]
      /\ data1 = [b \in Blocks |-> IF b = 0 THEN RootCells ELSE [s \in Slots |-> NoEntry]]
  BY DEF table, data
<1>10. first \in InodeRecords /\ Blank \in InodeRecords
  <2>1. DIR_RW_MODE \in SUBSET {"r", "w", "x"} /\ {} \in SUBSET {"r", "w", "x"}
    BY DEF DIR_RW_MODE
  <2>2. <<0>> \in Seq(Blocks) /\ <<>> \in Seq(Blocks)
    BY <1>8
  <2> QED
    BY <2>1, <2>2 DEF first, Blank, Inode, InodeRecords
<1>11. RootCells \in [Slots -> Cells] /\ [s \in Slots |-> NoEntry] \in [Slots -> Cells]
  <2>1. Entry(root, DIR, ".", 1) \in Cells /\ Entry(root, DIR, "..", 1) \in Cells
    <3>1. root \in 0 .. INODE_NUM /\ 1 \in {0, 1}
      BY SizeFacts DEF root
    <3> QED
      BY <3>1, CellType
  <2> QED
    BY <2>1, NoEntryType DEF RootCells
<1>12. table1 \in [Inodes -> InodeRecords] /\ data1 \in [Blocks -> [Slots -> Cells]]
  <2> HIDE DEF table1, data1
  <2> QED
    BY <1>9, <1>10, <1>11
<1> HIDE DEF table1, data1
<1>13. NewVolume \in Volumes
  <2>1. DATA_BLOCK_NUM - 1 \in Int /\ INODE_NUM - 1 \in Int
    BY SizeFacts
  <2> QED
    BY <1>7, <1>8, <1>12, <2>1 DEF Volumes
<1> QED
  BY <1>7, <1>8, <1>9, <1>13 DEF first

\* A new volume is sound: the root and nothing else.
LEMMA NewSound ==
  /\ Sound(NewVolume) /\ Dirs(NewVolume) = {root} /\ NewVolume.inode_bits = {root}
  /\ Pathed(NewVolume, [i \in {root} |-> <<>>])
<1> DEFINE v == NewVolume
<1>1. /\ 0 \in Blocks /\ 0 \in Inodes /\ 0 \in Slots /\ 1 \in Slots
  BY SizeFacts DEF Blocks, Inodes, Slots
<1>2. /\ v.block_bits = {0} /\ v.inode_bits = {0} /\ v \in Volumes
      /\ v.free_blocks_count = DATA_BLOCK_NUM - 1 /\ v.free_inodes_count = INODE_NUM - 1
      /\ v.inode[0].i_block = <<0>> /\ v.inode[0].i_size = 2
      /\ \A i \in Inodes \ {0} : v.inode[i].i_block = <<>> /\ v.inode[i].i_size = 0
      /\ v.block[0] = RootCells
      /\ \A b \in Blocks \ {0} : v.block[b] = [s \in Slots |-> NoEntry]
  BY <1>1, FirstFields DEF Inode, Blank
<1> HIDE DEF v
<1>3. Len(v.inode[0].i_block) = 1 /\ v.inode[0].i_block[1] = 0
  BY <1>2
<1>4. /\ RootCells[0] = Entry(root, DIR, ".", 1) /\ RootCells[1] = Entry(root, DIR, "..", 1)
      /\ \A s \in Slots \ {0, 1} : RootCells[s] = NoEntry
  BY <1>1 DEF RootCells
<1>5. Dirs(v) = {root}
  BY <1>2 DEF Dirs, root
<1>6. BlocksCounted(v) /\ InodesCounted(v)
  <2>1. Cardinality({0}) = 1
    BY FS_Singleton
  <2> QED
    BY <1>2, <2>1 DEF BlocksCounted, InodesCounted
<1>7. Owned(v.block_bits, v.inode_bits, Lists(v))
  <2>1. Lists(v)[0] = <<0>>
    BY <1>1, <1>2 DEF Lists
  <2>2. \A k \in 1 .. Len(Lists(v)[0]) : k = 1 /\ Lists(v)[0][k] = 0
    BY <2>1
  <2>3. 1 \in 1 .. Len(Lists(v)[0])
    BY <2>1
  <2> QED
    BY <1>2, <2>2, <2>3 DEF Owned
<1>8. Clean(v)
  <2>1. \A s \in Slots : [r \in Slots |-> NoEntry][s] = NoEntry
    OBVIOUS
  <2> QED
    BY <1>2, <2>1, NoEntryType DEF Clean, NoEntries, Empty
<1>9. Small(v)
  <2>1. \A i \in Inodes \ {0} : Len(v.inode[i].i_block) = 0 /\ v.inode[i].i_size = 0
    BY <1>2
  <2>2. Len(v.inode[0].i_block) <= 8 /\ \A i \in Inodes \ {0} : Len(v.inode[i].i_block) <= 8
    BY <1>3, <2>1
  <2> QED
    BY <1>2, <2>1, <2>2 DEF Small
<1>10. /\ CellAt(v, root, Dot) = Entry(root, DIR, ".", 1)
       /\ CellAt(v, root, DotDot) = Entry(root, DIR, "..", 1)
  BY <1>2, <1>3, <1>4 DEF CellAt, Dot, DotDot, root
<1>11. ASSUME NEW q \in Places(v, root) \ {Dot, DotDot}
       PROVE  CellAt(v, root, q) = NoEntry
  <2>1. q[1] = 1 /\ q[2] \in Slots /\ q = <<q[1], q[2]>>
    BY <1>3, <1>11 DEF Places, root
  <2>2. q[2] # 0 /\ q[2] # 1
    BY <1>11, <2>1 DEF Dot, DotDot
  <2>3. CellAt(v, root, q) = RootCells[q[2]]
    BY <1>2, <1>3, <2>1 DEF CellAt, root
  <2> QED
    BY <1>4, <2>1, <2>2, <2>3
<1>12. Dotted(v)
  <2>1. /\ CellAt(v, root, DotDot).type = DIR /\ CellAt(v, root, DotDot).name = ".."
        /\ CellAt(v, root, DotDot).inode = root
    BY <1>10 DEF Entry
  <2>2. Len(v.inode[root].i_block) = 1
    BY <1>3 DEF root
  <2> QED
    BY <1>5, <1>10, <2>1, <2>2 DEF Dotted
<1>13. Entries(v, root) = {}
  <2>1. ASSUME NEW q \in Entries(v, root) PROVE FALSE
    <3>1. q \in Places(v, root) /\ CellAt(v, root, q).name \in Names
      BY DEF Entries
    <3>2. q # Dot /\ q # DotDot
      <4>1. CellAt(v, root, Dot).name = "." /\ CellAt(v, root, DotDot).name = ".."
        BY <1>10 DEF Entry
      <4> QED
        BY <3>1, <4>1, NotNames
    <3>3. CellAt(v, root, q) = NoEntry
      BY <1>11, <3>1, <3>2
    <3>4. NoEntry.name = ""
      BY DEF NoEntry, Entry
    <3> QED
      BY <3>1, <3>3, <3>4, NotNames
  <2> QED
    BY <2>1
<1>14. Tidy(v)
  BY <1>5, <1>11, NoEntryType DEF Tidy
<1>15. Sized(v)
  <2>1. v.inode[root].i_size = 2
    BY <1>2 DEF root
  <2> QED
    BY <1>5, <1>13, <2>1, FS_EmptySet DEF Sized
<1>16. Unique(v) /\ Named1(v) /\ NamedOnce(v)
  BY <1>2, <1>5, <1>13 DEF Unique, Named1, NamedOnce, root
<1>17. v.inode_bits = {root}
  BY <1>2 DEF root
<1>18. Pathed(v, [i \in {root} |-> <<>>])
  BY <1>5, <1>13, <1>17 DEF Pathed
<1> QED
  BY <1>17, <1>18, <1>2, <1>5, <1>6, <1>7, <1>8, <1>9, <1>12, <1>14, <1>15, <1>16 DEF Sound, TreeSound, v
=============================================================================
