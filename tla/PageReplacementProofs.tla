------------------------- MODULE PageReplacementProofs -------------------------
(***************************************************************************)
(* Proofs about page.c: the flags agree with the frames, FIFO and LRU      *)
(* replace the page Paging says, and LRU keeps the pages used most         *)
(* recently and has no Belady anomaly, for any sizes the user may enter    *)
(* and any reference string.                                               *)
(***************************************************************************)
EXTENDS PageReplacement, FiniteSetTheorems, WellFoundedInduction, TLAPS

\* Every set of natural numbers has a least one.
LEMMA LeastNatural ==
  ASSUME NEW S \in SUBSET Nat, S # {}
  PROVE  \E x \in S : \A y \in S : x <= y
<1> DEFINE Less == {ss \in Nat \X Nat : ss[1] < ss[2]}
<1>1. IsWellFoundedOn(Less, Nat)
  BY NatLessThanWellFounded DEF OpToRel
<1>2. \A x, y \in Nat : y < x => <<y, x>> \in Less
  OBVIOUS
<1> HIDE DEF Less
<1>3. PICK x \in S : \A y \in S : ~(<<y, x>> \in Less)
  BY <1>1, WFMin
<1>4. \A y \in S : ~(y < x)
  BY <1>2, <1>3
<1> QED
  BY <1>4

\* The circular arithmetic of the queue, without division.
LEMMA Circular ==
  ASSUME NEW m \in Nat, NEW a \in 0 .. m, NEW b \in 0 .. m
  PROVE  /\ (a - b) % (m + 1) = IF a >= b THEN a - b ELSE a - b + m + 1
         /\ (a + 1) % (m + 1) = IF a = m THEN 0 ELSE a + 1
<1>1. CASE a >= b
  <2>1. a - b \in 0 .. m
    BY <1>1
  <2>2. (a - b) % (m + 1) = a - b
    BY <2>1
  <2> QED
    BY <1>1, <2>2
<1>2. CASE a < b
  BY <1>2
<1>3. (a + 1) % (m + 1) = IF a = m THEN 0 ELSE a + 1
  OBVIOUS
<1> QED
  BY <1>1, <1>2, <1>3

\* The sizes are the ones entered, and LRU's clock counts the references.
Params ==
  /\ table_size \in TableSizes \cup {6} /\ frame_size \in FrameSizes \cup {3}
  /\ Len(reference) <= ref_size
  /\ clock = IF Runs_LRU THEN Len(reference) ELSE 0

\* The inductive invariant.
PagingInv == TypeOK /\ Params /\ FlagsAreFrames

\* What FIFO's pointers say of its cells.
LEMMA QueueCells ==
  ASSUME frame_size \in Nat \ {0}, front \in 0..frame_size, rear \in 0..frame_size, ~Runs_LRU
  PROVE  /\ Cells \subseteq 0..frame_size /\ rear \notin Cells
         /\ QueueFull => front \in Cells /\ Cells = (0..frame_size) \ {rear}
         /\ ~QueueFull => Following(rear) \notin Cells \cup {rear}
<1> DEFINE off(k) == IF k >= front THEN k - front ELSE k - front + frame_size + 1
<1>1. \A k \in 0..frame_size : (k - front) % queue_size = off(k)
  BY Circular DEF queue_size
<1>2. Cells = {k \in 0..frame_size : off(k) < off(rear)}
  BY <1>1 DEF Cells
<1>3. Following(rear) = IF rear = frame_size THEN 0 ELSE rear + 1
  BY Circular DEF Following, queue_size
<1> QED
  BY <1>2, <1>3 DEF QueueFull

\* The entries of the page table.
Entries == [frame : 0..frame_size \cup {Unset}, flag : BOOLEAN, counter : Nat]

\* A step brings page p into cell f; the pages `gone' of the cells in `out' leave theirs.
Exchanges(p, f, out, gone, table) ==
  /\ ~Resident(p) /\ f \in DOMAIN Holding /\ f \in 0..frame_size
  /\ out \in SUBSET Cells /\ f \notin Cells \ out /\ gone = {Holding[k] : k \in out}
  /\ table \in [Pages -> Entries]
  /\ \A q \in Pages : /\ table[q].flag = page_table[q].flag
                     /\ table[q].frame = page_table[q].frame
  /\ table_size' = table_size
  /\ page_table' = Load(table, p, f, gone)
  /\ Holding' = [Holding EXCEPT ![f] = p]
  /\ Cells' = (Cells \ out) \cup {f}

\* Then the flags still agree with the cells.
LEMMA Exchange ==
  ASSUME TypeOK, FlagsAreFrames,
         NEW p \in Pages, NEW f, NEW out, NEW gone, NEW table,
         Exchanges(p, f, out, gone, table)
  PROVE  /\ {q \in Pages : Resident(q)}' = {Holding[k] : k \in Cells}'
         /\ (\A k \in Cells : page_table[Holding[k]].frame = k)'
         /\ {q \in Pages : Resident(q)}' = ({q \in Pages : Resident(q)} \ gone) \cup {p}
<1> USE DEF Exchanges
<1>1. Pages' = Pages
  BY DEF Pages
<1>2. /\ \A k \in Cells : Holding[k] \in Pages /\ Resident(Holding[k])
      /\ \A q \in Pages : Resident(q) => \E k \in Cells : q = Holding[k]
      /\ \A k \in Cells : page_table[Holding[k]].frame = k
  BY DEF FlagsAreFrames
<1>3. p \notin gone /\ gone \subseteq Pages
  BY <1>2
<1>4. \A q \in Pages :
        /\ page_table'[q].flag = (q = p \/ (page_table[q].flag /\ q \notin gone))
        /\ page_table'[q].frame = IF q = p THEN f ELSE page_table[q].frame
  <2>1. ASSUME NEW q \in Pages
        PROVE  page_table'[q] =
                 IF q = p THEN [table[q] EXCEPT !.flag = TRUE, !.frame = f]
                 ELSE IF q \in gone THEN [table[q] EXCEPT !.flag = FALSE] ELSE table[q]
    BY DEF Load
  <2>2. ASSUME NEW q \in Pages
        PROVE  /\ page_table'[q].flag = (q = p \/ (table[q].flag /\ q \notin gone))
               /\ page_table'[q].frame = IF q = p THEN f ELSE table[q].frame
    <3>1. table[q] \in Entries
      OBVIOUS
    <3>2. CASE q = p
      BY <2>1, <3>1, <3>2 DEF Entries
    <3>3. CASE q # p /\ q \in gone
      BY <2>1, <3>1, <3>3 DEF Entries
    <3>4. CASE q # p /\ q \notin gone
      BY <2>1, <3>1, <3>4 DEF Entries
    <3> QED
      BY <3>2, <3>3, <3>4
  <2> QED
    BY <2>2
<1>5. \A k \in Cells \ out : Holding[k] \notin gone
  BY <1>2
<1>6. Holding'[f] = p /\ \A k \in Cells \ out : Holding'[k] = Holding[k]
  OBVIOUS
<1>7. {q \in Pages : Resident(q)}' = ({q \in Pages : Resident(q)} \ gone) \cup {p}
  BY <1>1, <1>4 DEF Resident
<1>8. {q \in Pages : Resident(q)} \ gone = {Holding[k] : k \in Cells \ out}
  BY <1>2, <1>5
<1>9. {Holding[k] : k \in Cells}' = {Holding[k] : k \in Cells \ out} \cup {p}
  BY <1>6
<1>10. ASSUME NEW k \in Cells' PROVE page_table'[Holding'[k]].frame = k
  <2>1. CASE k = f
    BY <2>1, <1>4, <1>6
  <2>2. CASE k \in Cells \ out
    <3>1. Holding'[k] = Holding[k] /\ Holding[k] \in Pages /\ Holding[k] # p
      BY <2>2, <1>2, <1>6
    <3> QED
      BY <2>2, <3>1, <1>2, <1>4
  <2> QED
    BY <2>1, <2>2
<1> QED
  BY <1>7, <1>8, <1>9, <1>10

\* Loading a page keeps the page table one.
LEMMA LoadType ==
  ASSUME NEW table \in [Pages -> Entries], NEW p, NEW f \in 0..frame_size, NEW out
  PROVE  Load(table, p, f, out) \in [Pages -> Entries]
<1>1. ASSUME NEW q \in Pages
      PROVE  /\ [[table[q] EXCEPT !.flag = TRUE] EXCEPT !.frame = f] \in Entries
             /\ [table[q] EXCEPT !.flag = FALSE] \in Entries
  BY DEF Entries
<1> QED
  BY <1>1 DEF Load

\* What a reference changes besides the memory.
LEMMA Referred ==
  ASSUME TypeOK, Params, NEW p \in Pages, Refer(p)
  PROVE  /\ Len(reference') = Len(reference) + 1 /\ Len(reference') <= ref_size
         /\ reference' \in Seq(Pages) /\ Len(reference) \in Nat
         /\ choice' = choice /\ table_size' = table_size /\ frame_size' = frame_size
         /\ ref_size' = ref_size /\ Pages' = Pages /\ Runs_LRU' = Runs_LRU
         /\ queue_size' = queue_size /\ Entries' = Entries
         /\ frame_size \in Nat \ {0}
<1>1. frame_size \in Nat \ {0}
  BY PageReplacementAssumption DEF Params
<1> QED
  BY <1>1 DEF Refer, params, TypeOK, Params, Pages, Runs_LRU, queue_size, Entries

\* What a fault changes besides the memory.
LEMMA FaultType ==
  ASSUME TypeOK, Params, NEW p \in Pages, Refer(p), Fault(p)
  PROVE  diseffect' \in 0 .. Len(reference') /\ loaded' \in [Pages -> 0..ref_size]
  BY SMTT(30), Referred DEF Fault, TypeOK

\* All cells but one, at most, are as many as there are frames.
LEMMA FewerCells ==
  ASSUME NEW m \in Nat, NEW r \in 0..m, NEW S \in SUBSET ((0..m) \ {r})
  PROVE  /\ IsFiniteSet(S) /\ Cardinality(S) \in Nat /\ Cardinality(S) <= m
         /\ S = (0..m) \ {r} => Cardinality(S) = m
<1> DEFINE all == 0..m
           but == all \ {r}
<1>1. IsFiniteSet(all) /\ Cardinality(all) = m + 1 /\ r \in all
  BY FS_Interval
<1>2. S \in SUBSET but
  OBVIOUS
<1> HIDE DEF all
<1>3. IsFiniteSet(but) /\ Cardinality(but) = m
  <2>1. IsFiniteSet(but) /\ Cardinality(but) = Cardinality(all) - 1
    BY <1>1, FS_RemoveElement
  <2> QED
    BY <1>1, <2>1
<1> HIDE DEF but
<1>4. IsFiniteSet(S) /\ Cardinality(S) <= m
  BY <1>2, <1>3, FS_Subset
<1>5. Cardinality(S) \in Nat
  BY <1>4, FS_CardinalityType
<1> QED
  BY <1>3, <1>4, <1>5 DEF but, all

\* FIFO takes the next cell, from the page that has been there longest if all are full.
LEMMA FifoFault ==
  ASSUME PagingInv, NEW p \in Pages, FIFO_fault(p)
  PROVE  /\ PagingInv'
         /\ {q \in Pages : Resident(q)}' =
              ({q \in Pages : Resident(q)} \ (IF QueueFull THEN {queue[front]} ELSE {})) \cup {p}
         /\ Cells' = (Cells \ (IF QueueFull THEN {front} ELSE {})) \cup {rear}
<1> DEFINE out == IF QueueFull THEN {front} ELSE {}
<1>1. /\ TypeOK /\ Params /\ FlagsAreFrames /\ Refer(p) /\ Fault(p) /\ ~Runs_LRU
      /\ ~Resident(p)
  BY DEF PagingInv, FIFO_fault, Fault
<1>2. frame_size \in Nat \ {0} /\ front \in 0..frame_size /\ rear \in 0..frame_size
  BY <1>1, Referred DEF TypeOK
<1>3. /\ Cells \subseteq 0..frame_size /\ rear \notin Cells
      /\ QueueFull => front \in Cells /\ Cells = (0..frame_size) \ {rear}
      /\ ~QueueFull => Following(rear) \notin Cells \cup {rear}
  BY <1>1, <1>2, QueueCells
<1>4. /\ front' = IF QueueFull THEN Following(front) ELSE front
      /\ rear' = Following(rear)
      /\ queue' = [queue EXCEPT ![rear] = p]
      /\ page_table' = Load(page_table, p, rear, IF QueueFull THEN {queue[front]} ELSE {})
      /\ UNCHANGED lru_locals
  BY DEF FIFO_fault
<1>5. Following(rear) \in 0..frame_size /\ Following(front) \in 0..frame_size
  BY <1>2, Circular DEF Following, queue_size
<1>6. Cells' = (Cells \ out) \cup {rear}
  <2> DEFINE off(k, f) == IF k >= f THEN k - f ELSE k - f + frame_size + 1
  <2>1. \A j, k \in 0..frame_size : (k - j) % queue_size = off(k, j)
    BY <1>2, Circular DEF queue_size
  <2>2. Cells = {k \in 0..frame_size : off(k, front) < off(rear, front)}
    BY <1>1, <1>2, <2>1 DEF Cells
  <2>3. front' \in 0..frame_size /\ rear' \in 0..frame_size
    BY <1>2, <1>4, <1>5
  <2>4. Cells' = {k \in 0..frame_size : off(k, front') < off(rear', front')}
    <3>1. ~Runs_LRU' /\ frame_size' = frame_size /\ queue_size' = queue_size
      BY <1>1, Referred
    <3>2. Cells' = {k \in 0..frame_size :
                      (k - front') % queue_size < (rear' - front') % queue_size}
      BY <3>1 DEF Cells
    <3> HIDE DEF off
    <3>3. \A k \in 0..frame_size : /\ (k - front') % queue_size = off(k, front')
                                   /\ (rear' - front') % queue_size = off(rear', front')
      BY <2>1, <2>3
    <3> QED
      BY <3>2, <3>3
  <2>5. \A k \in 0..frame_size : Following(k) = IF k = frame_size THEN 0 ELSE k + 1
    BY <1>2, Circular DEF Following, queue_size
  <2>6. CASE QueueFull
    BY <1>2, <1>4, <2>2, <2>4, <2>5, <2>6 DEF QueueFull
  <2>7. CASE ~QueueFull
    BY <1>2, <1>4, <2>2, <2>4, <2>5, <2>7 DEF QueueFull
  <2> QED
    BY <2>6, <2>7
<1>7. UNCHANGED <<table_size, frame_size>> /\ ~Runs_LRU' /\ Entries' = Entries
      /\ Pages' = Pages
  BY <1>1, Referred
<1>8. page_table \in [Pages -> Entries] /\ Holding = queue /\ Holding' = queue'
      /\ queue \in [0..frame_size -> Pages \cup {Unset}]
  BY <1>1, <1>7 DEF TypeOK, Entries, Holding
<1>9. out \in SUBSET Cells /\ rear \notin Cells \ out
      /\ {Holding[k] : k \in out} = IF QueueFull THEN {queue[front]} ELSE {}
  BY <1>3, <1>8
<1>10. /\ {q \in Pages : Resident(q)}' = {Holding[k] : k \in Cells}'
       /\ (\A k \in Cells : page_table[Holding[k]].frame = k)'
       /\ {q \in Pages : Resident(q)}' =
             ({q \in Pages : Resident(q)} \ {Holding[k] : k \in out}) \cup {p}
  <2> HIDE DEF out
  <2> DEFINE gone == {Holding[k] : k \in out}
  <2>1. page_table' = Load(page_table, p, rear, gone) /\ gone = {Holding[k] : k \in out}
    BY <1>4, <1>9
  <2>2. Holding' = [Holding EXCEPT ![rear] = p] /\ rear \in DOMAIN Holding
    BY <1>2, <1>4, <1>8
  <2> HIDE DEF gone
  <2>3. /\ {q \in Pages : Resident(q)}' = {Holding[k] : k \in Cells}'
        /\ (\A k \in Cells : page_table[Holding[k]].frame = k)'
        /\ {q \in Pages : Resident(q)}' = ({q \in Pages : Resident(q)} \ gone) \cup {p}
    <3>1. Exchanges(p, rear, out, gone, page_table)
      BY <1>1, <1>2, <1>6, <1>7, <1>8, <1>9, <2>1, <2>2 DEF Exchanges
    <3> QED
      BY <1>1, <3>1, Exchange
  <2> QED
    BY <2>1, <2>3
<1>11. (Cardinality(Cells) <= frame_size)'
  <2>1. Cells' \subseteq (0..frame_size) \ {rear'} /\ rear' \in 0..frame_size
    <3>1. (frame_size \in Nat \ {0})' /\ (front \in 0..frame_size)'
          /\ (rear \in 0..frame_size)'
      BY <1>2, <1>4, <1>5, <1>7
    <3>2. (Cells \subseteq 0..frame_size /\ rear \notin Cells)'
      BY <1>7, <3>1, QueueCells, PTL
    <3> QED
      BY <1>7, <3>1, <3>2
  <2> QED
    BY <1>2, <1>7, <2>1, FewerCells
<1>12. TypeOK'
  <2>1. page_table' \in [Pages -> Entries]
    BY <1>2, <1>4, <1>8, LoadType
  <2>2. queue' \in [0..frame_size -> Pages \cup {Unset}]
    BY <1>2, <1>4, <1>8
  <2> QED
    BY <1>1, <1>2, <1>4, <1>5, <1>7, <2>1, <2>2, Referred, FaultType
       DEF TypeOK, lru_locals, Entries
<1>13. Params'
  BY <1>1, <1>4, Referred DEF Params, lru_locals
<1> QED
  BY <1>6, <1>9, <1>10, <1>11, <1>12, <1>13 DEF PagingInv, FlagsAreFrames

\* The scan for the least counter finds a frame, the oldest one.
LEMMA FindMin ==
  ASSUME TypeOK, frame_size \in Nat \ {0}, \A k \in 0 .. frame_size - 1 : frame[k] \in Pages
  PROVE  /\ find_min \in 0 .. frame_size - 1
         /\ \A j \in 0 .. frame_size - 1 :
              page_table[frame[find_min]].counter <= page_table[frame[j]].counter
<1> DEFINE age(k) == page_table[frame[k]].counter
           least == {k \in 0 .. frame_size - 1 : \A j \in 0 .. frame_size - 1 : age(k) <= age(j)}
<1>1. DOMAIN frame = 0 .. frame_size - 1 /\ \A k \in 0 .. frame_size - 1 : age(k) \in Nat
  BY DEF TypeOK
<1>2. find_min = Min(least)
  BY <1>1 DEF find_min
<1> HIDE DEF age
<1>3. least # {}
  <2>1. PICK a \in {age(k) : k \in 0 .. frame_size - 1} :
          \A b \in {age(k) : k \in 0 .. frame_size - 1} : a <= b
    <3>1. age(0) \in {age(k) : k \in 0 .. frame_size - 1}
      OBVIOUS
    <3>2. {age(k) : k \in 0 .. frame_size - 1} \in SUBSET Nat
      BY <1>1
    <3> QED
      BY <3>1, <3>2, LeastNatural
  <2> QED
    BY <2>1
<1>4. find_min \in least
  <2>1. PICK m \in least : \A k \in least : m <= k
    <3>1. least \in SUBSET Nat
      OBVIOUS
    <3> QED
      BY <1>3, <3>1, LeastNatural
  <2> QED
    BY <1>2, <2>1 DEF Min
<1> QED
  BY <1>4 DEF age

\* LRU stamps the page; flags and frames are as they were.
LEMMA StampType ==
  ASSUME TypeOK, NEW p \in Pages, clock \in Nat
  PROVE  /\ Stamped(p) \in [Pages -> Entries]
         /\ \A q \in Pages : /\ Stamped(p)[q].flag = page_table[q].flag
                            /\ Stamped(p)[q].frame = page_table[q].frame
                            /\ Stamped(p)[q].counter = IF q = p THEN clock
                                                      ELSE page_table[q].counter
<1>1. \A q \in Pages : page_table[q] \in Entries
  BY DEF TypeOK, Entries
<1>2. Stamped(p) = [q \in Pages |-> IF q = p THEN [page_table[q] EXCEPT !.counter = clock]
                                   ELSE page_table[q]]
  BY DEF Stamped, TypeOK
<1> QED
  BY <1>1, <1>2 DEF Entries

\* LRU's clock counts the references.
LEMMA Clocked ==
  ASSUME TypeOK, Params, NEW p \in Pages, Refer(p), Runs_LRU
  PROVE  /\ clock \in Nat /\ clock = Len(reference) /\ clock + 1 \in 0..ref_size
         /\ clock + 1 = Len(reference') /\ diseffect \in 0..Len(reference')
         /\ reference' \in Seq(Pages)
<1>1. /\ Len(reference') = Len(reference) + 1 /\ Len(reference') <= ref_size
      /\ reference' \in Seq(Pages) /\ Len(reference) \in Nat
  BY Referred
<1>2. clock = Len(reference) /\ diseffect \in 0..Len(reference) /\ ref_size \in Nat
  BY DEF Params, TypeOK
<1> QED
  BY <1>1, <1>2

\* A hit of LRU stamps the page and moves nothing.
LEMMA LruHit ==
  ASSUME PagingInv, NEW p \in Pages, LRU_hit(p)
  PROVE  PagingInv' /\ {q \in Pages : Resident(q)}' = {q \in Pages : Resident(q)}
<1>1. /\ TypeOK /\ Params /\ FlagsAreFrames /\ Refer(p) /\ Runs_LRU
      /\ page_table' = Stamped(p) /\ clock' = clock + 1
      /\ UNCHANGED <<diseffect, fifo_locals, frame, full, loaded>>
  BY DEF PagingInv, LRU_hit
<1>2. /\ UNCHANGED <<choice, table_size, frame_size, ref_size>>
      /\ Runs_LRU' /\ Pages' = Pages /\ frame_size \in Nat \ {0}
  BY <1>1, Referred
<1>3. /\ clock \in Nat /\ clock' \in 0..ref_size /\ clock' = Len(reference')
      /\ diseffect' \in 0..Len(reference') /\ reference' \in Seq(Pages)
  BY <1>1, Clocked
<1>4. Cells' = Cells /\ Holding' = Holding /\ Cells = 0 .. full - 1 /\ Holding = frame
  BY <1>1, <1>2 DEF Cells, Holding
<1>5. page_table' \in [Pages -> Entries]
  BY <1>1, <1>3, StampType
<1>6. \A q \in Pages : /\ page_table'[q].flag = page_table[q].flag
                       /\ page_table'[q].frame = page_table[q].frame
  BY <1>1, <1>3, StampType
<1>7. {q \in Pages : Resident(q)}' = {q \in Pages : Resident(q)}
  BY <1>2, <1>6 DEF Resident
<1>8. TypeOK'
  <2>1. loaded' \in [Pages -> 0..ref_size] /\ frame' \in [0..frame_size - 1 -> Pages \cup {Unset}]
        /\ full' \in 0..frame_size /\ queue' \in [0..frame_size -> Pages \cup {Unset}]
        /\ front' \in 0..frame_size /\ rear' \in 0..frame_size
    BY <1>1 DEF TypeOK, fifo_locals
  <2> QED
    BY <1>1, <1>2, <1>3, <1>5, <2>1 DEF TypeOK, Entries
<1>9. FlagsAreFrames'
  <2>1. \A k \in Cells : Holding[k] \in Pages
    BY <1>1 DEF FlagsAreFrames
  <2> QED
    BY <1>1, <1>2, <1>4, <1>6, <1>7, <2>1 DEF FlagsAreFrames
<1> QED
  BY <1>1, <1>2, <1>3, <1>7, <1>8, <1>9, Referred DEF PagingInv, Params

\* LRU takes a free frame, or the one of the oldest page.
LEMMA LruFault ==
  ASSUME PagingInv, NEW p \in Pages, LRU_load(p) \/ LRU_replace(p)
  PROVE  /\ PagingInv'
         /\ {q \in Pages : Resident(q)}' =
              ({q \in Pages : Resident(q)}
                 \ (IF full < frame_size THEN {} ELSE {frame[find_min]})) \cup {p}
<1> DEFINE f == IF full < frame_size THEN full ELSE find_min
           out == IF full < frame_size THEN {} ELSE {find_min}
<1>1. /\ TypeOK /\ Params /\ FlagsAreFrames /\ Refer(p) /\ Runs_LRU /\ Fault(p)
      /\ ~Resident(p) /\ clock' = clock + 1 /\ UNCHANGED fifo_locals
  BY DEF PagingInv, LRU_load, LRU_replace, Fault
<1>2. /\ UNCHANGED <<choice, table_size, frame_size, ref_size>>
      /\ Runs_LRU' /\ Pages' = Pages /\ frame_size \in Nat \ {0} /\ Entries' = Entries
  BY <1>1, Referred
<1>3. /\ clock \in Nat /\ clock' \in 0..ref_size /\ clock' = Len(reference')
      /\ reference' \in Seq(Pages)
  BY <1>1, Clocked
<1>4. full \in 0..frame_size /\ Cells = 0 .. full - 1 /\ Holding = frame
      /\ DOMAIN Holding = 0 .. frame_size - 1
  BY <1>1 DEF TypeOK, Cells, Holding
<1>5. \A k \in 0 .. full - 1 : frame[k] \in Pages
  BY <1>1, <1>4 DEF FlagsAreFrames
<1>6. full = frame_size => find_min \in 0 .. frame_size - 1
  BY <1>1, <1>2, <1>5, FindMin
<1>7. /\ page_table' = Load(Stamped(p), p, f, {Holding[k] : k \in out})
      /\ frame' = [frame EXCEPT ![f] = p]
      /\ full' = IF full < frame_size THEN full + 1 ELSE full
  <2>1. CASE full < frame_size
    <3>1. LRU_load(p)
      BY <1>2, <1>4, <2>1 DEF LRU_replace
    <3>2. f = full /\ {Holding[k] : k \in out} = {}
      BY <2>1
    <3> QED
      BY <2>1, <3>1, <3>2 DEF LRU_load
  <2>2. CASE ~(full < frame_size)
    <3>1. LRU_replace(p)
      BY <2>2 DEF LRU_load
    <3>2. f = find_min /\ {Holding[k] : k \in out} = {frame[find_min]}
      BY <1>4, <2>2
    <3> QED
      BY <2>2, <3>1, <3>2 DEF LRU_replace
  <2> QED
    BY <2>1, <2>2
<1>8. f \in 0 .. frame_size - 1 /\ out \in SUBSET Cells /\ f \notin Cells \ out
  <2>1. CASE full < frame_size
    BY <1>2, <1>4, <2>1
  <2>2. CASE ~(full < frame_size)
    BY <1>2, <1>4, <1>6, <2>2
  <2> QED
    BY <2>1, <2>2
<1>9. Cells' = (Cells \ out) \cup {f} /\ Holding' = [Holding EXCEPT ![f] = p]
      /\ Cells' = 0 .. full' - 1 /\ full' \in 0..frame_size /\ f \in 0..frame_size
  <2>1. Cells' = 0 .. full' - 1 /\ Holding' = frame'
    BY <1>2 DEF Cells, Holding
  <2>2. CASE full < frame_size
    BY <1>2, <1>4, <1>7, <2>1, <2>2
  <2>3. CASE ~(full < frame_size)
    BY <1>2, <1>4, <1>6, <1>7, <2>1, <2>3
  <2> QED
    BY <2>2, <2>3
<1>10. /\ Stamped(p) \in [Pages -> Entries]
       /\ \A q \in Pages : /\ Stamped(p)[q].flag = page_table[q].flag
                          /\ Stamped(p)[q].frame = page_table[q].frame
  BY <1>1, <1>3, StampType
<1>11. {Holding[k] : k \in out} = IF full < frame_size THEN {} ELSE {frame[find_min]}
  BY <1>4
<1> HIDE DEF f, out
<1>12. /\ {q \in Pages : Resident(q)}' = {Holding[k] : k \in Cells}'
       /\ (\A k \in Cells : page_table[Holding[k]].frame = k)'
       /\ {q \in Pages : Resident(q)}' =
             ({q \in Pages : Resident(q)} \ {Holding[k] : k \in out}) \cup {p}
  <2> DEFINE table == Stamped(p)
             gone == {Holding[k] : k \in out}
  <2>1. /\ table \in [Pages -> Entries]
        /\ \A q \in Pages : /\ table[q].flag = page_table[q].flag
                           /\ table[q].frame = page_table[q].frame
        /\ page_table' = Load(table, p, f, gone)
        /\ gone = {Holding[k] : k \in out}
    BY <1>7, <1>10
  <2>2. f \in DOMAIN Holding
    BY <1>4, <1>8
  <2>3. table_size' = table_size
    BY <1>2
  <2> HIDE DEF table, gone
  <2>4. /\ {q \in Pages : Resident(q)}' = {Holding[k] : k \in Cells}'
        /\ (\A k \in Cells : page_table[Holding[k]].frame = k)'
        /\ {q \in Pages : Resident(q)}' = ({q \in Pages : Resident(q)} \ gone) \cup {p}
    <3>1. Exchanges(p, f, out, gone, table)
      BY <1>1, <1>8, <1>9, <2>1, <2>2, <2>3 DEF Exchanges
    <3> QED
      BY <1>1, <3>1, Exchange
  <2> QED
    BY <2>1, <2>4
<1>13. (Cardinality(Cells) <= frame_size)'
  <2>1. full' \in Int /\ full' - 1 \in Int /\ full' >= 0
    BY <1>2, <1>9
  <2>2. Cardinality(0 .. full' - 1) = full'
    BY <2>1, FS_Interval
  <2>3. Cardinality(Cells') = full'
    BY <1>9, <2>2, Zenon
  <2>4. frame_size' = frame_size /\ full' <= frame_size
    BY <1>2, <1>9
  <2> QED
    BY <2>3, <2>4
<1>14. TypeOK'
  <2>1. page_table' \in [Pages -> Entries]
    BY <1>7, <1>9, <1>10, LoadType
  <2>2. /\ frame' \in [0..frame_size - 1 -> Pages \cup {Unset}]
        /\ queue' \in [0..frame_size -> Pages \cup {Unset}]
        /\ front' \in 0..frame_size /\ rear' \in 0..frame_size
    BY <1>1, <1>7, <1>8 DEF TypeOK, fifo_locals
  <2>3. diseffect' \in 0 .. Len(reference') /\ loaded' \in [Pages -> 0..ref_size]
    BY <1>1, FaultType
  <2> QED
    BY <1>1, <1>2, <1>3, <1>9, <2>1, <2>2, <2>3 DEF TypeOK, Entries
<1>15. Params'
  BY <1>1, <1>2, <1>3 DEF Params
<1> QED
  BY <1>11, <1>12, <1>13, <1>14, <1>15 DEF PagingInv, FlagsAreFrames

\* A hit of FIFO changes nothing but the place in the string.
LEMMA FifoHit ==
  ASSUME PagingInv, NEW p \in Pages, FIFO_hit(p)
  PROVE  PagingInv' /\ {q \in Pages : Resident(q)}' = {q \in Pages : Resident(q)}
<1>1. /\ TypeOK /\ Params /\ FlagsAreFrames /\ Refer(p) /\ ~Runs_LRU
      /\ UNCHANGED <<page_table, diseffect, queue, front, rear, frame, full, clock, loaded>>
  BY DEF PagingInv, FIFO_hit, fifo_locals, lru_locals
<1>2. /\ UNCHANGED <<choice, table_size, frame_size, ref_size>>
      /\ Len(reference) \in Nat /\ reference' \in Seq(Pages)
      /\ Len(reference') = Len(reference) + 1 /\ Len(reference') <= ref_size
  BY <1>1, Referred
<1>3. Runs_LRU' = Runs_LRU /\ Pages' = Pages /\ queue_size' = queue_size
  BY <1>2 DEF Runs_LRU, Pages, queue_size
<1>4. Cells' = Cells /\ Holding' = Holding
  BY <1>1, <1>2, <1>3 DEF Cells, Holding
<1>5. TypeOK'
  BY <1>1, <1>2, <1>3 DEF TypeOK
<1> QED
  BY <1>1, <1>2, <1>3, <1>4, <1>5 DEF PagingInv, Params, FlagsAreFrames, Resident

\* No page is in memory at the start, and no cell is in use.
LEMMA PagingInit ==
  ASSUME Init
  PROVE  PagingInv /\ Cells = {} /\ {p \in Pages : Resident(p)} = {}
<1>1. /\ choice \in {"1", "2", "3", "other"}
      /\ table_size \in TableSizes \cup {6} /\ frame_size \in FrameSizes \cup {3}
      /\ ref_size \in RefSizes \cup {12}
  BY DEF Init, set_parameter
<1>2. table_size \in Nat /\ frame_size \in Nat \ {0} /\ ref_size \in Nat
  BY <1>1, PageReplacementAssumption
<1>3. /\ reference = <<>> /\ diseffect = 0 /\ front = 0 /\ rear = 0 /\ full = 0 /\ clock = 0
      /\ page_table = [p \in Pages |-> [frame |-> Unset, flag |-> FALSE, counter |-> 0]]
      /\ queue = [k \in 0..frame_size |-> Unset]
      /\ frame = [k \in 0..frame_size - 1 |-> Unset]
      /\ loaded = [p \in Pages |-> 0]
  BY DEF Init
<1>4. TypeOK
  BY <1>1, <1>2, <1>3 DEF TypeOK
<1>5. Params
  BY <1>1, <1>2, <1>3 DEF Params
<1>6. Cells = {}
  BY <1>2, <1>3 DEF Cells, queue_size
<1>7. {p \in Pages : Resident(p)} = {}
  BY <1>3 DEF Resident
<1>8. Cardinality(Cells) = 0
  BY <1>6, FS_EmptySet
<1>9. FlagsAreFrames
  BY <1>2, <1>6, <1>7, <1>8 DEF FlagsAreFrames
<1> QED
  BY <1>4, <1>5, <1>6, <1>7, <1>9 DEF PagingInv
\* Every turn of the loop keeps the invariant.
LEMMA PagingStep == PagingInv /\ [Next]_vars => PagingInv'
<1>1. ASSUME PagingInv, UNCHANGED vars PROVE PagingInv'
  <2> USE <1>1 DEF vars, params, fifo_locals, lru_locals, Runs_LRU, Pages, queue_size
  <2>1. TypeOK' /\ Params'
    BY DEF PagingInv, TypeOK, Params
  <2>2. Cells' = Cells /\ Holding' = Holding
    BY DEF Cells, Holding
  <2>3. FlagsAreFrames'
    BY <2>2 DEF PagingInv, FlagsAreFrames, Resident
  <2> QED
    BY <2>1, <2>3 DEF PagingInv
<1> QED
  BY <1>1, FifoHit, FifoFault, LruHit, LruFault DEF Next

\* The circular queue, the frames and the counters stay in their ranges.
THEOREM TypeCorrect == Spec => []TypeOK
<1>1. PagingInv => TypeOK
  BY DEF PagingInv
<1> QED
  BY <1>1, PagingInit, PagingStep, PTL DEF Spec

\* The flagged pages are those in the cells that are in use, each in the one its entry
\* names.
THEOREM FlagsMatchFrames == Spec => []FlagsAreFrames
<1>1. PagingInv => FlagsAreFrames
  BY DEF PagingInv
<1> QED
  BY <1>1, PagingInit, PagingStep, PTL DEF Spec

\* FIFO: the pages came into the cells in the order of the cells from front.
InOrder ==
  ~Runs_LRU =>
    /\ \A k \in Cells : loaded[queue[k]] < Len(reference)
    /\ \A j, k \in Cells :
         (j - front) % queue_size < (k - front) % queue_size
           => loaded[queue[j]] < loaded[queue[k]]

\* LRU: position j of the string, counted from 1, is where page q was last used.
LastUsed(q, j) ==
  j \in DOMAIN reference /\ reference[j] = q
    /\ \A k \in DOMAIN reference : reference[k] = q => k <= j
Used == {q \in Pages : \E j \in DOMAIN reference : reference[j] = q}

\* LRU: counters are the times of the last uses, a page that was used and is not
\* resident is older than every resident one, and until all frames are taken every
\* page that was used is resident.
Recency ==
  Runs_LRU =>
    /\ \A q \in Used : LastUsed(q, page_table[q].counter + 1)
    /\ \A q \in Pages : Resident(q) => q \in Used
    /\ \A q \in Used, r \in Pages :
         Resident(r) /\ ~Resident(q) => page_table[q].counter < page_table[r].counter
    /\ full < frame_size => \A q \in Used : Resident(q)

\* Distances from front, without division.
LEMMA Distance ==
  ASSUME frame_size \in Nat \ {0}, NEW k \in 0..frame_size, NEW j \in 0..frame_size
  PROVE  (k - j) % queue_size = IF k >= j THEN k - j ELSE k - j + frame_size + 1
BY Circular DEF queue_size

\* A page that FIFO loads goes behind the pages that stay.
LEMMA InOrderFault ==
  ASSUME PagingInv, InOrder, NEW p \in Pages, FIFO_fault(p)
  PROVE  InOrder'
<1>1. /\ TypeOK /\ Params /\ FlagsAreFrames /\ Refer(p) /\ Fault(p) /\ ~Runs_LRU /\ ~Resident(p)
      /\ front' = IF QueueFull THEN Following(front) ELSE front
      /\ queue' = [queue EXCEPT ![rear] = p] /\ rear' = Following(rear)
      /\ loaded' = [loaded EXCEPT ![p] = Len(reference)]
  BY DEF PagingInv, FIFO_fault, Fault
<1>2. /\ frame_size \in Nat \ {0} /\ queue_size' = queue_size /\ ~Runs_LRU'
      /\ Len(reference') = Len(reference) + 1 /\ Len(reference) \in Nat
      /\ front \in 0..frame_size /\ rear \in 0..frame_size
      /\ queue \in [0..frame_size -> Pages \cup {Unset}] /\ loaded \in [Pages -> 0..ref_size]
      /\ ref_size \in Nat
  BY <1>1, Referred DEF TypeOK
<1>3. /\ Cells \subseteq 0..frame_size /\ rear \notin Cells
      /\ QueueFull => front \in Cells
  BY <1>1, <1>2, QueueCells
<1> DEFINE off(k, j) == IF k >= j THEN k - j ELSE k - j + frame_size + 1
           stay == Cells \ (IF QueueFull THEN {front} ELSE {})
<1>4. \A j, k \in 0..frame_size : (k - j) % queue_size = off(k, j)
  BY <1>2, Distance
<1>5. Cells' = stay \cup {rear}
  BY FifoFault
<1>6. \A k \in Cells : queue[k] \in Pages /\ queue[k] # p
  BY <1>1 DEF FlagsAreFrames, Holding
<1>7. /\ loaded'[queue'[rear]] = Len(reference)
      /\ \A k \in stay : queue'[k] = queue[k] /\ loaded'[queue'[k]] = loaded[queue[k]]
  BY <1>1, <1>2, <1>3, <1>6
<1>8. \A k \in Cells : loaded[queue[k]] < Len(reference) /\ loaded[queue[k]] \in Nat
  BY <1>1, <1>2, <1>6 DEF InOrder
<1>9. \A j, k \in stay : off(j, front) < off(k, front) => loaded[queue[j]] < loaded[queue[k]]
  BY <1>1, <1>2, <1>3, <1>4 DEF InOrder
<1>10. front' \in 0..frame_size
  BY <1>1, <1>2, Circular DEF Following, queue_size
<1>11. /\ \A j, k \in stay : off(j, front') < off(k, front') => off(j, front) < off(k, front)
       /\ \A k \in stay : off(k, front') < off(rear, front')
  <2>1. Cells = {k \in 0..frame_size : off(k, front) < off(rear, front)}
    BY <1>1, <1>2, <1>4 DEF Cells
  <2>2. Following(front) = IF front = frame_size THEN 0 ELSE front + 1
    BY <1>2, Circular DEF Following, queue_size
  <2>3. CASE QueueFull
    <3>1. \A k \in stay : off(k, front') = off(k, front) - 1
      BY <1>1, <1>2, <1>3, <2>2, <2>3
    <3>2. rear # front => off(rear, front') = off(rear, front) - 1
      BY <1>1, <1>2, <2>2, <2>3
    <3>3. rear # front
      BY <1>3, <2>3
    <3>4. \A k \in stay \cup {rear} : off(k, front) \in Int
      BY <1>2, <1>3
    <3>5. \A k \in stay : off(k, front) < off(rear, front)
      BY <2>1
    <3> HIDE DEF off, stay
    <3> QED
      BY <3>1, <3>2, <3>3, <3>4, <3>5
  <2>4. CASE ~QueueFull
    BY <1>1, <2>1, <2>4
  <2> QED
    BY <2>3, <2>4
<1>14. \A j, k \in 0..frame_size : off(j, k) \in Int
  BY <1>2
<1> HIDE DEF off, stay
<1>12. \A k \in Cells' : loaded'[queue'[k]] < Len(reference')
  BY <1>2, <1>5, <1>7, <1>8 DEF stay
<1>13. ASSUME NEW j \in Cells', NEW k \in Cells',
              (j - front') % queue_size < (k - front') % queue_size
       PROVE  loaded'[queue'[j]] < loaded'[queue'[k]]
  <2>1. off(j, front') < off(k, front')
    BY <1>2, <1>3, <1>4, <1>5, <1>10, <1>13 DEF stay
  <2>2. /\ off(j, front') \in Int /\ off(k, front') \in Int /\ off(rear, front') \in Int
    BY <1>14, <1>2, <1>3, <1>5, <1>10 DEF stay
  <2>3. CASE k = rear
    BY <1>5, <1>7, <1>8, <2>1, <2>2, <2>3 DEF stay
  <2>4. CASE k # rear
    <3>1. k \in stay /\ j \in stay
      BY <1>5, <1>11, <2>1, <2>2, <2>4
    <3> QED
      BY <1>7, <1>9, <1>11, <2>1, <3>1
  <2> QED
    BY <2>3, <2>4
<1> QED
  BY <1>2, <1>12, <1>13 DEF InOrder

\* The order of the cells is kept, and is empty at the start.
LEMMA InOrderStep ==
  ASSUME PagingInv, InOrder, [Next]_vars
  PROVE  InOrder'
<1>1. CASE UNCHANGED vars
  BY <1>1 DEF InOrder, vars, params, fifo_locals, lru_locals, Runs_LRU, Cells, queue_size
<1>2. ASSUME NEW p \in Pages, FIFO_hit(p) PROVE InOrder'
  <2>1. /\ UNCHANGED <<queue, front, rear, loaded, full>> /\ ~Runs_LRU /\ Refer(p)
        /\ TypeOK /\ Params
    BY <1>2 DEF FIFO_hit, fifo_locals, lru_locals, PagingInv
  <2>2. /\ Runs_LRU' = Runs_LRU /\ queue_size' = queue_size /\ frame_size' = frame_size
        /\ Len(reference') = Len(reference) + 1 /\ Len(reference) \in Nat
    BY <2>1, Referred
  <2>3. Cells' = Cells
    BY <2>1, <2>2 DEF Cells
  <2>4. \A k \in Cells : loaded[queue[k]] \in Int
    BY <2>1 DEF TypeOK, PagingInv, FlagsAreFrames, Holding
  <2> QED
    BY <2>1, <2>2, <2>3, <2>4 DEF InOrder
<1>3. ASSUME NEW p \in Pages, LRU_hit(p) \/ LRU_load(p) \/ LRU_replace(p) PROVE InOrder'
  BY <1>3 DEF LRU_hit, LRU_load, LRU_replace, Refer, params, Runs_LRU, InOrder
<1> QED
  BY <1>1, <1>2, <1>3, InOrderFault DEF Next

\* As many pages are resident as cells are in use.
LEMMA ResidentCount ==
  ASSUME PagingInv
  PROVE  /\ IsFiniteSet({q \in Pages : Resident(q)})
         /\ Cardinality({q \in Pages : Resident(q)}) = Cardinality(Cells)
         /\ IsFiniteSet(Cells)
<1> DEFINE pages == {q \in Pages : Resident(q)}
           cells == Cells
           holds == [k \in cells |-> Holding[k]]
<1>1. pages = {Holding[k] : k \in cells} /\ \A k \in cells : page_table[Holding[k]].frame = k
  BY DEF PagingInv, FlagsAreFrames
<1>2. IsFiniteSet(cells)
  <2>1. frame_size \in Nat \ {0}
    BY PageReplacementAssumption DEF PagingInv, Params
  <2>2. cells \subseteq 0..frame_size
    BY <2>1 DEF Cells, PagingInv, TypeOK
  <2>3. IsFiniteSet(0..frame_size)
    BY <2>1, FS_Interval
  <2> QED
    BY <2>2, <2>3, FS_Subset
<1> HIDE DEF pages, cells
<1>3. holds \in Bijection(cells, pages)
  <2>1. holds \in [cells -> pages] /\ \A k \in cells : holds[k] = Holding[k]
    BY <1>1
  <2>2. \A j, k \in cells : holds[j] = holds[k] => j = k
    BY <1>1, <2>1
  <2>3. \A q \in pages : \E k \in cells : holds[k] = q
    BY <1>1, <2>1
  <2> HIDE DEF holds
  <2> QED
    BY <2>1, <2>2, <2>3 DEF Bijection, Injection, IsInjective, Surjection
<1>4. ExistsBijection(cells, pages)
  BY <1>3 DEF ExistsBijection
<1> QED
  BY <1>2, <1>4, FS_Bijection DEF pages, cells

\* FIFO's queue is full exactly when every frame is taken.
LEMMA FullQueue ==
  ASSUME PagingInv, ~Runs_LRU
  PROVE  QueueFull <=> ~(Cardinality({q \in Pages : Resident(q)}) < frame_size)
<1>1. frame_size \in Nat \ {0} /\ front \in 0..frame_size /\ rear \in 0..frame_size
  BY PageReplacementAssumption DEF PagingInv, Params, TypeOK
<1>2. /\ Cells \subseteq 0..frame_size /\ rear \notin Cells
      /\ QueueFull => Cells = (0..frame_size) \ {rear}
      /\ ~QueueFull => Following(rear) \notin Cells \cup {rear}
  BY <1>1, QueueCells
<1>3. QueueFull => Cardinality(Cells) = frame_size
  BY <1>1, <1>2, FewerCells
<1>4. ASSUME ~QueueFull PROVE Cardinality(Cells) < frame_size
  <2>1. Following(rear) \in 0..frame_size
    BY <1>1, Circular DEF Following, queue_size
  <2> DEFINE all == (0..frame_size) \ {rear}
             S == all \ {Following(rear)}
  <2>2. IsFiniteSet(all) /\ Cardinality(all) = frame_size
    BY <1>1, FewerCells
  <2>3. Following(rear) \in all /\ Cells \subseteq S
    BY <1>2, <1>4, <2>1
  <2> HIDE DEF all
  <2>4. IsFiniteSet(S) /\ Cardinality(S) = Cardinality(all) - 1
    BY <2>2, <2>3, FS_RemoveElement
  <2> HIDE DEF S
  <2>5. Cardinality(Cells) <= Cardinality(S) /\ Cardinality(Cells) \in Nat
    BY <2>3, <2>4, FS_Subset, FS_CardinalityType
  <2> QED
    BY <1>1, <2>2, <2>4, <2>5
<1>5. Cardinality({q \in Pages : Resident(q)}) = Cardinality(Cells)
  BY ResidentCount
<1> QED
  BY <1>1, <1>3, <1>4, <1>5

\* LRU's frames are all taken exactly when as many pages are resident.
LEMMA FullFrames ==
  ASSUME PagingInv, Runs_LRU
  PROVE  /\ Cardinality({q \in Pages : Resident(q)}) = full
         /\ full \in 0..frame_size /\ frame_size \in Nat \ {0}
<1>1. frame_size \in Nat \ {0} /\ full \in 0..frame_size
  BY PageReplacementAssumption DEF PagingInv, Params, TypeOK
<1>2. Cardinality(0 .. full - 1) = full
  <2>1. full \in Int /\ full - 1 \in Int /\ full >= 0
    BY <1>1
  <2> QED
    BY <2>1, FS_Interval
<1>3. Cells = 0 .. full - 1
  BY DEF Cells
<1>4. Cardinality({q \in Pages : Resident(q)}) = Cardinality(Cells)
  BY ResidentCount
<1> QED
  BY <1>1, <1>2, <1>3, <1>4

\* The stamp Paging gives a page.
StampOf(q) == IF q \notin Pages THEN 0 ELSE IF Runs_LRU THEN page_table[q].counter ELSE loaded[q]

\* The pages of this run are pages of Paging, with numbers for stamps.
LEMMA Stamps ==
  ASSUME PagingInv
  PROVE  Pages \subseteq AllPages /\ \A q \in AllPages : StampOf(q) \in Nat
<1>1. Pages \subseteq AllPages
  BY DEF Pages, AllPages, PagingInv, Params
<1>2. \A q \in Pages : page_table[q].counter \in Nat /\ loaded[q] \in Nat
  BY DEF PagingInv, TypeOK
<1> QED
  BY <1>1, <1>2 DEF StampOf

\* A hit is a hit of Paging.
LEMMA HitRefines ==
  ASSUME PagingInv, NEW p \in Pages, Resident(p), Refer(p), diseffect' = diseffect,
         {q \in Pages : Resident(q)}' = {q \in Pages : Resident(q)},
         \A q \in AllPages :
           StampOf(q)' = IF Runs_LRU /\ q = p THEN Len(reference) ELSE StampOf(q)
  PROVE  Abstract!Hit(p)
<1> DEFINE stamp == [q \in AllPages |-> StampOf(q)]
<1>1. /\ Runs_LRU' = Runs_LRU /\ frame_size' = frame_size
      /\ Len(reference') = Len(reference) + 1 /\ AllPages' = AllPages
  BY Referred DEF PagingInv, AllPages, PagesOf
<1>2. p \in {q \in Pages : Resident(q)}
  OBVIOUS
<1>3. stamp' = IF Runs_LRU THEN [stamp EXCEPT ![p] = Len(reference)] ELSE stamp
  <2>1. stamp' = [q \in AllPages |-> StampOf(q)']
    BY <1>1
  <2> QED
    BY <2>1, Stamps
<1> QED
  BY <1>1, <1>2, <1>3 DEF Abstract!Hit, Abstract!Stamped, StampOf

\* Every frame is taken, as Paging counts them.
Crowded == ~(Cardinality({q \in Pages : Resident(q)}) < frame_size)

\* A fault is a fault of Paging, when the page that leaves is the one it says.
LEMMA FaultRefines ==
  ASSUME PagingInv, NEW p \in Pages, Refer(p), Fault(p), NEW v,
         {q \in Pages : Resident(q)}' =
           ({q \in Pages : Resident(q)} \ (IF Crowded THEN {v} ELSE {})) \cup {p},
         Crowded => /\ v \in Pages /\ Resident(v)
                     /\ \A q \in Pages : Resident(q) => StampOf(v) <= StampOf(q),
         \A q \in AllPages : StampOf(q)' = IF q = p THEN Len(reference) ELSE StampOf(q)
  PROVE  Abstract!Fault(p)
<1> DEFINE stamp == [q \in AllPages |-> StampOf(q)]
           resident == {q \in Pages : Resident(q)}
<1>1. /\ Runs_LRU' = Runs_LRU /\ frame_size' = frame_size
      /\ Len(reference') = Len(reference) + 1 /\ AllPages' = AllPages
  BY Referred DEF PagingInv, AllPages, PagesOf
<1>2. p \notin resident /\ diseffect' = diseffect + 1 /\ resident \subseteq AllPages
  BY Stamps DEF Fault
<1>3. stamp' = [stamp EXCEPT ![p] = Len(reference)]
  <2>1. stamp' = [q \in AllPages |-> StampOf(q)']
    BY <1>1
  <2> QED
    BY <2>1, Stamps
<1>4. \A q \in resident : stamp[q] = StampOf(q)
  BY <1>2
<1>5. resident' = IF Crowded THEN (resident \ {v}) \cup {p} ELSE resident \cup {p}
  OBVIOUS
<1>6. Crowded => v \in Abstract!Oldest(resident)
  <2>1. Crowded => v \in resident /\ \A q \in resident : stamp[v] <= stamp[q]
    BY <1>4
  <2> HIDE DEF resident
  <2>2. Abstract!Oldest(resident) = {w \in resident : \A q \in resident : stamp[w] <= stamp[q]}
    BY DEF Abstract!Oldest, StampOf
  <2> HIDE DEF stamp
  <2> QED
    BY <2>1, <2>2
<1>7. resident' \in Abstract!Loaded(resident, frame_size, p)
  <2>1. Crowded <=> ~(Cardinality(resident) < frame_size)
    BY DEF Crowded
  <2> HIDE DEF resident
  <2>2. Abstract!Loaded(resident, frame_size, p) =
          IF Cardinality(resident) < frame_size THEN {resident \cup {p}}
          ELSE {(resident \ {w}) \cup {p} : w \in Abstract!Oldest(resident)}
    <3>1. Abstract!Cardinality(resident) = Cardinality(resident)
      BY DEF Abstract!Cardinality, Cardinality
    <3> QED
      BY <3>1 DEF Abstract!Loaded
  <2> QED
    BY <1>5, <1>6, <2>1, <2>2
<1> QED
  BY <1>1, <1>2, <1>3, <1>7 DEF Abstract!Fault, Abstract!Stamped, StampOf

\* Every step of the simulator is a step of Paging, or none.
LEMMA StepRefines ==
  ASSUME PagingInv, InOrder, [Next]_vars
  PROVE  [Abstract!Next]_Abstract!vars
<1>1. CASE UNCHANGED vars
  <2>1. UNCHANGED <<Runs_LRU, frame_size, page_table, loaded, reference, diseffect, Pages>>
    BY <1>1 DEF vars, params, Runs_LRU, Pages
  <2> QED
    BY <2>1 DEF Abstract!vars, Resident
<1>2. ASSUME NEW p \in Pages, FIFO_hit(p) PROVE Abstract!Hit(p)
  <2>1. /\ Resident(p) /\ Refer(p) /\ diseffect' = diseffect /\ loaded' = loaded /\ ~Runs_LRU
    BY <1>2 DEF FIFO_hit
  <2>2. {q \in Pages : Resident(q)}' = {q \in Pages : Resident(q)}
    BY <1>2, FifoHit
  <2>3. Runs_LRU' = Runs_LRU /\ Pages' = Pages
    BY <2>1, Referred DEF PagingInv
  <2>4. \A q \in AllPages :
          StampOf(q)' = IF Runs_LRU /\ q = p THEN Len(reference) ELSE StampOf(q)
    BY <2>1, <2>3 DEF StampOf
  <2> QED
    BY <2>1, <2>2, <2>4, HitRefines
<1>3. ASSUME NEW p \in Pages, LRU_hit(p) PROVE Abstract!Hit(p)
  <2>1. /\ Resident(p) /\ Refer(p) /\ diseffect' = diseffect /\ page_table' = Stamped(p)
        /\ Runs_LRU /\ TypeOK /\ Params
    BY <1>3 DEF LRU_hit, PagingInv
  <2>2. {q \in Pages : Resident(q)}' = {q \in Pages : Resident(q)}
    BY <1>3, LruHit
  <2>3. Runs_LRU' = Runs_LRU /\ Pages' = Pages /\ clock \in Nat /\ clock = Len(reference)
    BY <2>1, Referred, Clocked
  <2>4. \A q \in AllPages :
          StampOf(q)' = IF Runs_LRU /\ q = p THEN Len(reference) ELSE StampOf(q)
    BY <2>1, <2>3, StampType, Stamps DEF PagingInv, StampOf
  <2> QED
    BY <2>1, <2>2, <2>4, HitRefines
<1>4. ASSUME NEW p \in Pages, FIFO_fault(p) PROVE Abstract!Fault(p)
  <2>1. /\ Refer(p) /\ Fault(p) /\ ~Runs_LRU /\ TypeOK /\ Params
        /\ loaded' = [loaded EXCEPT ![p] = Len(reference)]
    BY <1>4 DEF FIFO_fault, Fault, PagingInv
  <2>2. {q \in Pages : Resident(q)}' =
          ({q \in Pages : Resident(q)} \ (IF QueueFull THEN {queue[front]} ELSE {})) \cup {p}
    BY <1>4, FifoFault
  <2>3. Runs_LRU' = Runs_LRU /\ Pages' = Pages /\ frame_size \in Nat \ {0}
    BY <2>1, Referred
  <2>4. \A q \in AllPages : StampOf(q)' = IF q = p THEN Len(reference) ELSE StampOf(q)
    BY <2>1, <2>3 DEF StampOf, TypeOK
  <2>5. ASSUME QueueFull
        PROVE  /\ queue[front] \in Pages /\ Resident(queue[front])
               /\ \A q \in Pages : Resident(q) => StampOf(queue[front]) <= StampOf(q)
    <3>1. front \in Cells /\ Cells \subseteq 0..frame_size /\ front \in 0..frame_size
      BY <2>1, <2>3, <2>5, QueueCells DEF TypeOK
    <3>2. /\ {q \in Pages : Resident(q)} = {queue[k] : k \in Cells}
      BY <2>1 DEF PagingInv, FlagsAreFrames, Holding
    <3>3. \A k \in Cells : queue[k] \in Pages /\ loaded[queue[k]] \in Nat
      BY <2>1, <3>2 DEF TypeOK
    <3>4. \A k \in Cells : k # front => loaded[queue[front]] < loaded[queue[k]]
      <4>1. ASSUME NEW k \in Cells, k # front
            PROVE  (front - front) % queue_size < (k - front) % queue_size
        <5>1. k \in 0..frame_size /\ front \in 0..frame_size /\ frame_size \in Nat \ {0}
          BY <2>3, <3>1
        <5>2. (k - front) % queue_size = IF k >= front THEN k - front ELSE k - front + frame_size + 1
          BY <5>1, Distance
        <5>3. (front - front) % queue_size = IF front >= front THEN front - front
                                             ELSE front - front + frame_size + 1
          BY <5>1, Distance
        <5>4. front - front = 0 /\ front >= front
          BY <5>1
        <5>5. (front - front) % queue_size = 0
          BY <5>3, <5>4
        <5>6. (k - front) % queue_size > 0 /\ (k - front) % queue_size \in Int
          BY <4>1, <5>1, <5>2
        <5> QED
          BY <5>5, <5>6
      <4> QED
        BY <2>1, <3>1, <4>1 DEF InOrder
    <3>5. \A k \in Cells : loaded[queue[front]] <= loaded[queue[k]]
      BY <3>1, <3>3, <3>4
    <3>6. \A q \in Pages : StampOf(q) = loaded[q]
      BY <2>1 DEF StampOf
    <3> QED
      BY <3>1, <3>2, <3>3, <3>5, <3>6
  <2>6. QueueFull <=> Crowded
    BY <2>1, FullQueue DEF Crowded
  <2> QED
    BY <2>1, <2>2, <2>4, <2>5, <2>6, FaultRefines
<1>5. ASSUME NEW p \in Pages, LRU_load(p) \/ LRU_replace(p) PROVE Abstract!Fault(p)
  <2>1. /\ Refer(p) /\ Fault(p) /\ Runs_LRU /\ TypeOK /\ Params
        /\ \E f, out : page_table' = Load(Stamped(p), p, f, out)
    BY <1>5 DEF LRU_load, LRU_replace, PagingInv
  <2>2. {q \in Pages : Resident(q)}' =
          ({q \in Pages : Resident(q)}
             \ (IF full < frame_size THEN {} ELSE {frame[find_min]})) \cup {p}
    BY <1>5, LruFault
  <2>3. Runs_LRU' = Runs_LRU /\ Pages' = Pages /\ clock \in Nat /\ clock = Len(reference)
    BY <2>1, Referred, Clocked
  <2>4. \A q \in AllPages : StampOf(q)' = IF q = p THEN Len(reference) ELSE StampOf(q)
    <3>1. \A q \in Pages : Stamped(p)[q].counter = IF q = p THEN clock ELSE page_table[q].counter
      BY <2>1, <2>3, StampType
    <3>2. ASSUME NEW q \in Pages PROVE page_table'[q].counter = Stamped(p)[q].counter
      <4> DEFINE table == Stamped(p)
      <4>1. table \in [Pages -> Entries]
        BY <2>1, <2>3, StampType
      <4>2. PICK f, out : page_table' = Load(table, p, f, out)
        BY <2>1
      <4> HIDE DEF table
      <4>3. table[q] \in Entries
        BY <4>1
      <4>4. page_table'[q] =
              IF q = p THEN [table[q] EXCEPT !.flag = TRUE, !.frame = f]
              ELSE IF q \in out THEN [table[q] EXCEPT !.flag = FALSE] ELSE table[q]
        BY <4>1, <4>2 DEF Load
      <4>5. page_table'[q].counter = table[q].counter
        BY <4>3, <4>4 DEF Entries
      <4> QED
        BY <4>5 DEF table
    <3> QED
      BY <2>1, <2>3, <3>1, <3>2, Stamps DEF StampOf
  <2>5. /\ Cardinality({q \in Pages : Resident(q)}) = full
        /\ full \in 0..frame_size /\ frame_size \in Nat \ {0}
    BY <2>1, FullFrames
  <2>6. ASSUME ~(full < frame_size)
        PROVE  /\ frame[find_min] \in Pages /\ Resident(frame[find_min])
               /\ \A q \in Pages : Resident(q) => StampOf(frame[find_min]) <= StampOf(q)
    <3>1. /\ Cells = 0 .. frame_size - 1 /\ Holding = frame
      BY <2>1, <2>5, <2>6 DEF Cells, Holding
    <3>2. {q \in Pages : Resident(q)} = {frame[k] : k \in 0 .. frame_size - 1}
      BY <3>1 DEF PagingInv, FlagsAreFrames
    <3>3. \A k \in 0 .. frame_size - 1 : frame[k] \in Pages
      BY <3>2
    <3>4. /\ find_min \in 0 .. frame_size - 1
          /\ \A j \in 0 .. frame_size - 1 :
               page_table[frame[find_min]].counter <= page_table[frame[j]].counter
      BY <2>1, <2>5, <3>3, FindMin
    <3>5. \A q \in Pages : StampOf(q) = page_table[q].counter
      BY <2>1 DEF StampOf
    <3> QED
      BY <3>2, <3>3, <3>4, <3>5
  <2>7. Crowded <=> ~(full < frame_size)
    BY <2>5 DEF Crowded
  <2>8. {q \in Pages : Resident(q)}' =
          ({q \in Pages : Resident(q)} \ (IF Crowded THEN {frame[find_min]} ELSE {})) \cup {p}
    BY <2>2, <2>7
  <2> QED
    BY <2>1, <2>4, <2>6, <2>7, <2>8, FaultRefines
<1>6. Pages \subseteq AllPages
  BY Stamps
<1> QED
  BY <1>1, <1>2, <1>3, <1>4, <1>5, <1>6 DEF Next, Abstract!Next

\* FIFO replaces the page loaded first, LRU the one used least recently, and only when
\* every frame is taken.
THEOREM PagingRefinement == Spec => ImplementsPaging
<1>1. ASSUME Init PROVE InOrder /\ Abstract!Init
  <2>1. PagingInv /\ Cells = {} /\ {q \in Pages : Resident(q)} = {}
    BY <1>1, PagingInit
  <2>2. Len(reference) = 0 /\ diseffect = 0 /\ Runs_LRU \in BOOLEAN
        /\ frame_size \in FrameSizes \cup {3}
    BY <1>1, <2>1 DEF Init, PagingInv, Params, Runs_LRU
  <2>3. \A q \in Pages : page_table[q].counter = 0 /\ loaded[q] = 0
    BY <1>1 DEF Init
  <2> QED
    BY <2>1, <2>2, <2>3 DEF InOrder, Abstract!Init
<1> QED
  BY <1>1, PagingInit, PagingStep, InOrderStep, StepRefines, PTL
     DEF Spec, ImplementsPaging, Abstract!Spec

\* The counters follow a reference to page p.
LEMMA Counted ==
  ASSUME PagingInv, Recency, NEW p \in Pages, LRU_hit(p) \/ LRU_load(p) \/ LRU_replace(p)
  PROVE  /\ Runs_LRU /\ Runs_LRU' /\ Pages' = Pages /\ frame_size' = frame_size
         /\ Used' = Used \cup {p}
         /\ \A q \in Pages : page_table'[q].counter = IF q = p THEN Len(reference)
                                                     ELSE page_table[q].counter
         /\ \A q \in Used' : LastUsed(q, page_table[q].counter + 1)'
         /\ \A q \in Used : page_table[q].counter \in Nat /\ page_table[q].counter < Len(reference)
         /\ Len(reference) \in Nat
<1>1. /\ Refer(p) /\ Runs_LRU /\ TypeOK /\ Params
      /\ page_table' = Stamped(p) \/ \E f, out : page_table' = Load(Stamped(p), p, f, out)
  BY DEF LRU_hit, LRU_load, LRU_replace, PagingInv
<1>2. /\ Runs_LRU' /\ Pages' = Pages /\ clock \in Nat /\ clock = Len(reference)
      /\ Len(reference) \in Nat /\ frame_size' = frame_size
  BY <1>1, Referred, Clocked
<1>3. /\ reference \in Seq(Pages) /\ reference' = Append(reference, p)
      /\ DOMAIN reference = 1..Len(reference)
  BY <1>1 DEF TypeOK, Refer
<1>4. /\ DOMAIN reference' = 1 .. Len(reference) + 1
      /\ reference'[Len(reference) + 1] = p
      /\ \A j \in 1..Len(reference) : reference'[j] = reference[j]
  BY <1>2, <1>3
<1>5. Used' = Used \cup {p}
  BY <1>2, <1>3, <1>4 DEF Used
<1>6. ASSUME NEW q \in Pages
      PROVE  page_table'[q].counter = IF q = p THEN Len(reference) ELSE page_table[q].counter
  <2> DEFINE table == Stamped(p)
  <2>1. table \in [Pages -> Entries]
    BY <1>1, <1>2, StampType
  <2>2. table[q].counter = IF q = p THEN Len(reference) ELSE page_table[q].counter
    BY <1>1, <1>2, StampType
  <2>3. page_table' = table \/ \E f, out : page_table' = Load(table, p, f, out)
    BY <1>1
  <2> HIDE DEF table
  <2>4. ASSUME NEW f, NEW out, page_table' = Load(table, p, f, out)
        PROVE  page_table'[q].counter = table[q].counter
    <3>1. table[q] \in Entries
      BY <2>1
    <3>2. page_table'[q] =
            IF q = p THEN [table[q] EXCEPT !.flag = TRUE, !.frame = f]
            ELSE IF q \in out THEN [table[q] EXCEPT !.flag = FALSE] ELSE table[q]
      BY <2>1, <2>4 DEF Load
    <3> QED
      BY <3>1, <3>2 DEF Entries
  <2> QED
    BY <2>2, <2>3, <2>4
<1>7. \A q \in Used : page_table[q].counter \in Nat /\ page_table[q].counter < Len(reference)
  <2>1. \A q \in Used : page_table[q].counter \in Nat
    BY <1>1 DEF TypeOK, Used
  <2>2. \A q \in Used : page_table[q].counter + 1 \in 1..Len(reference)
    BY <1>1, <1>3 DEF Recency, LastUsed
  <2> QED
    BY <1>2, <2>1, <2>2
<1>8. ASSUME NEW q \in Used' PROVE LastUsed(q, page_table[q].counter + 1)'
  <2>1. q \in Pages
    BY <1>2, <1>8 DEF Used
  <2>2. CASE q = p
    <3>1. page_table'[q].counter + 1 = Len(reference) + 1
      BY <1>6, <2>1, <2>2
    <3>2. \A k \in DOMAIN reference' : k <= Len(reference) + 1
      BY <1>2, <1>4
    <3> QED
      BY <1>2, <1>4, <2>2, <3>1, <3>2 DEF LastUsed
  <2>3. CASE q # p
    <3>1. q \in Used /\ page_table'[q].counter = page_table[q].counter
      BY <1>5, <1>6, <1>8, <2>1, <2>3
    <3>2. LastUsed(q, page_table[q].counter + 1)
      BY <1>1, <3>1 DEF Recency
    <3> QED
      BY <1>2, <1>3, <1>4, <2>3, <3>1, <3>2 DEF LastUsed
  <2> QED
    BY <2>2, <2>3
<1> QED
  BY <1>1, <1>2, <1>5, <1>6, <1>7, <1>8

\* A reference keeps LRU's pages the most recently used ones.
LEMMA RecencyStep ==
  ASSUME PagingInv, Recency, [Next]_vars
  PROVE  Recency'
<1>1. CASE UNCHANGED vars
  BY <1>1 DEF Recency, LastUsed, Used, Resident, vars, params, lru_locals, Runs_LRU, Pages
<1>2. ASSUME NEW p \in Pages, FIFO_hit(p) \/ FIFO_fault(p) PROVE Recency'
  BY <1>2 DEF FIFO_hit, FIFO_fault, Refer, params, Runs_LRU, Recency
<1>3. ASSUME NEW p \in Pages, LRU_hit(p) \/ LRU_load(p) \/ LRU_replace(p) PROVE Recency'
  <2> DEFINE age(q) == page_table[q].counter
  <2>1. /\ Runs_LRU /\ Runs_LRU' /\ Pages' = Pages /\ frame_size' = frame_size
        /\ Used' = Used \cup {p}
        /\ \A q \in Pages : age(q)' = IF q = p THEN Len(reference) ELSE age(q)
        /\ \A q \in Used' : LastUsed(q, page_table[q].counter + 1)'
        /\ \A q \in Used : age(q) \in Nat /\ age(q) < Len(reference)
        /\ Len(reference) \in Nat
    BY <1>3, Counted
  <2>2. \A q, r \in Used : age(q) = age(r) => q = r
    BY <2>1 DEF Recency, LastUsed
  <2>3. /\ \A q \in Pages : Resident(q) => q \in Used
        /\ \A q \in Used, r \in Pages : Resident(r) /\ ~Resident(q) => age(q) < age(r)
        /\ full < frame_size => \A q \in Used : Resident(q)
        /\ Used \subseteq Pages
    BY <2>1 DEF Recency, Used
  <2> HIDE DEF age
  <2>4. CASE LRU_hit(p)
    <3>1. /\ {q \in Pages : Resident(q)}' = {q \in Pages : Resident(q)}
          /\ Resident(p) /\ full' = full
      BY <2>4, LruHit DEF LRU_hit
    <3>2. \A q \in Pages : Resident(q)' <=> Resident(q)
      BY <2>1, <3>1
    <3>3. /\ \A q \in Pages : Resident(q)' => q \in Used'
          /\ \A q \in Used', r \in Pages : Resident(r)' /\ ~Resident(q)' => age(q)' < age(r)'
          /\ full' < frame_size' => \A q \in Used' : Resident(q)'
      BY <2>1, <2>3, <3>1, <3>2
    <3> QED
      BY <2>1, <3>3 DEF Recency, age
  <2>5. CASE LRU_load(p)
    <3>1. /\ {q \in Pages : Resident(q)}' = {q \in Pages : Resident(q)} \cup {p}
          /\ full < frame_size
      BY <2>5, LruFault DEF LRU_load
    <3>2. \A q \in Pages : Resident(q)' <=> (Resident(q) \/ q = p)
      BY <2>1, <3>1
    <3>3. /\ \A q \in Pages : Resident(q)' => q \in Used'
          /\ \A q \in Used' : Resident(q)'
      BY <2>1, <2>3, <3>1, <3>2
    <3> QED
      BY <2>1, <3>3 DEF Recency
  <2>6. CASE LRU_replace(p)
    <3> DEFINE v == frame[find_min]
    <3>1. /\ full = frame_size /\ full' = full /\ frame_size \in Nat \ {0} /\ TypeOK
      BY <2>6, FullFrames, <2>1 DEF LRU_replace, PagingInv
    <3>2. {q \in Pages : Resident(q)}' = ({q \in Pages : Resident(q)} \ {v}) \cup {p}
      BY <2>6, <3>1, LruFault
    <3>3. {q \in Pages : Resident(q)} = {frame[k] : k \in 0 .. frame_size - 1}
      BY <2>1, <3>1 DEF PagingInv, FlagsAreFrames, Cells, Holding
    <3>4. v \in Pages /\ Resident(v) /\ \A q \in Pages : Resident(q) => age(v) <= age(q)
      BY <3>1, <3>3, FindMin DEF age
    <3> HIDE DEF v
    <3>5. \A q \in Pages : Resident(q)' <=> (Resident(q) /\ q # v) \/ q = p
      BY <2>1, <3>2
    <3>6. \A q \in Pages : Resident(q)' => q \in Used'
      BY <2>1, <2>3, <3>5
    <3>7. ASSUME NEW q \in Used', NEW r \in Pages, Resident(r)', ~Resident(q)'
          PROVE  age(q)' < age(r)'
      <4>1. q # p /\ q \in Used /\ age(q)' = age(q)
        BY <2>1, <2>3, <3>5, <3>7
      <4>2. CASE r = p
        BY <2>1, <4>1, <4>2
      <4>3. CASE r # p
        <5>1. Resident(r) /\ r # v /\ age(r)' = age(r) /\ r \in Used /\ v \in Used
          BY <2>1, <2>3, <3>4, <3>5, <3>7, <4>3
        <5>2. age(v) < age(r)
          BY <2>1, <2>2, <3>4, <5>1
        <5> QED
          BY <2>3, <3>5, <3>7, <4>1, <5>1, <5>2
      <4> QED
        BY <4>2, <4>3
    <3> QED
      BY <2>1, <3>1, <3>6, <3>7 DEF Recency, age
  <2> QED
    BY <1>3, <2>4, <2>5, <2>6
<1> QED
  BY <1>1, <1>2, <1>3 DEF Next

\* A counter is the time of the last use, from which positions are one off.
LEMMA LatestUse ==
  ASSUME PagingInv, Recency, Runs_LRU, NEW q \in Used
  PROVE  LastUse(q) = page_table[q].counter + 1 /\ LastUsed(q, LastUse(q))
<1> DEFINE j == page_table[q].counter + 1
           uses == {k \in DOMAIN reference : reference[k] = q}
<1>1. j \in Nat /\ DOMAIN reference \subseteq Nat /\ LastUsed(q, j)
  BY DEF PagingInv, TypeOK, Recency, Used
<1>2. j \in uses /\ \A k \in uses : j >= k
  BY <1>1 DEF LastUsed
<1>3. \A i \in uses : (\A k \in uses : i >= k) => i = j
  BY <1>1, <1>2
<1>4. LastUse(q) = Max(uses)
  BY DEF LastUse
<1> HIDE DEF uses, j
<1>5. LastUse(q) = j
  BY <1>2, <1>3, <1>4 DEF Max
<1> QED
  BY <1>1, <1>5 DEF j

\* Counters in order of last use: MostRecentlyUsed follows.
LEMMA RecentPages ==
  ASSUME PagingInv, Recency, Runs_LRU
  PROVE  {q \in Pages : Resident(q)} =
           {q \in Since(1) : Cardinality(Since(LastUse(q)) \ {q}) < frame_size}
<1> DEFINE age(q) == page_table[q].counter
           residents == {q \in Pages : Resident(q)}
           younger(q) == {r \in Used : age(q) < age(r)}
<1>1. /\ TypeOK /\ reference \in Seq(Pages) /\ Len(reference) \in Nat
      /\ DOMAIN reference = 1..Len(reference) /\ table_size \in Nat
  BY DEF PagingInv, TypeOK
<1>2. Since(1) = Used /\ Used \subseteq Pages
  BY <1>1 DEF Since, Used
<1>3. IsFiniteSet(Pages)
  <2>1. 0 \in Int /\ table_size - 1 \in Int
    BY <1>1
  <2> QED
    BY <2>1, FS_Interval DEF Pages, PagesOf
<1>4. /\ Cardinality(residents) = full /\ full \in 0..frame_size /\ frame_size \in Nat \ {0}
      /\ IsFiniteSet(residents)
  BY FullFrames, ResidentCount
<1>5. \A q \in Used : age(q) \in Nat /\ LastUsed(q, age(q) + 1)
  BY <1>1, <1>2 DEF TypeOK, Recency
<1>6. /\ residents \subseteq Used
      /\ \A q \in Used, r \in residents : q \notin residents => age(q) < age(r)
      /\ full < frame_size => Used \subseteq residents
  BY <1>2 DEF Recency
<1> HIDE DEF age, residents
<1>7. ASSUME NEW q \in Used PROVE Since(LastUse(q)) \ {q} = younger(q)
  <2>1. LastUse(q) = age(q) + 1
    BY LatestUse DEF age
  <2>2. ASSUME NEW r \in younger(q) PROVE r \in Since(LastUse(q)) \ {q}
    <3>1. /\ r \in Used /\ age(r) + 1 \in age(q) + 1 .. Len(reference)
          /\ r = reference[age(r) + 1] /\ r # q
      BY <1>1, <1>5 DEF LastUsed
    <3> QED
      BY <2>1, <3>1 DEF Since
  <2>3. ASSUME NEW r \in Since(LastUse(q)) \ {q} PROVE r \in younger(q)
    <3>1. PICK k \in age(q) + 1 .. Len(reference) : r = reference[k]
      BY <2>1, <2>3 DEF Since
    <3>2. k \in DOMAIN reference /\ r # q /\ r \in Pages
      BY <1>1, <1>5, <2>3, <3>1
    <3>3. r \in Used
      BY <3>1, <3>2 DEF Used
    <3>4. reference[age(q) + 1] = q
      BY <1>5 DEF LastUsed
    <3>5. k # age(q) + 1 /\ k <= age(r) + 1
      BY <1>5, <3>1, <3>2, <3>3, <3>4 DEF LastUsed
    <3> QED
      BY <1>1, <1>5, <3>1, <3>3, <3>5
  <2> QED
    BY <2>2, <2>3
<1>8. ASSUME NEW q \in residents
      PROVE  q \in Used /\ Cardinality(younger(q)) < frame_size
  <2> DEFINE others == residents \ {q}
  <2>1. IsFiniteSet(others) /\ Cardinality(others) = full - 1
    BY <1>4, FS_RemoveElement
  <2>2. younger(q) \subseteq others
    BY <1>5, <1>6
  <2> HIDE DEF others, younger
  <2>3. Cardinality(younger(q)) <= Cardinality(others) /\ Cardinality(younger(q)) \in Nat
    BY <2>1, <2>2, FS_Subset, FS_CardinalityType
  <2> QED
    BY <1>4, <1>6, <2>1, <2>3
<1>9. ASSUME NEW q \in Used, Cardinality(younger(q)) < frame_size
      PROVE  q \in residents
  <2> SUFFICES ASSUME q \notin residents PROVE FALSE
    OBVIOUS
  <2>1. residents \subseteq younger(q) /\ full = frame_size
    BY <1>4, <1>6
  <2>2. IsFiniteSet(younger(q))
    BY <1>2, <1>3, FS_Subset
  <2> HIDE DEF younger
  <2>3. Cardinality(residents) <= Cardinality(younger(q)) /\ Cardinality(younger(q)) \in Nat
    BY <2>1, <2>2, FS_Subset, FS_CardinalityType
  <2> QED
    BY <1>4, <1>9, <2>1, <2>3
<1> HIDE DEF younger
<1>10. residents = {q \in Used : Cardinality(younger(q)) < frame_size}
  BY <1>8, <1>9
<1>11. residents = {q \in Since(1) : Cardinality(Since(LastUse(q)) \ {q}) < frame_size}
  BY <1>2, <1>7, <1>10
<1> QED
  BY <1>11 DEF residents

\* In memory are the pages after whose last use fewer than frame_size others were used.
THEOREM LruKeepsRecent == Spec => []MostRecentlyUsed
<1>1. ASSUME Init PROVE Recency
  <2>1. reference = <<>> /\ DOMAIN reference = {} /\ {q \in Pages : Resident(q)} = {}
    BY <1>1, PagingInit DEF Init
  <2> QED
    BY <2>1 DEF Recency, Used
<1>2. PagingInv /\ Recency => MostRecentlyUsed
  BY RecentPages DEF MostRecentlyUsed
<1> QED
  BY <1>1, <1>2, PagingInit, PagingStep, RecencyStep, PTL DEF Spec

\* The positions of a string are finitely many.
LEMMA Upto == ASSUME NEW n \in Nat PROVE IsFiniteSet(1 .. n)
<1>1. 1 \in Int /\ n \in Int
  OBVIOUS
<1> QED
  BY <1>1, FS_Interval

\* LRU misses a page exactly if frame_size others were used since each of its uses.
LEMMA AwayIsFar ==
  ASSUME PagingInv, Recency, Runs_LRU, NEW p \in Pages
  PROVE  ~Resident(p) <=> \A j \in DOMAIN reference :
           reference[j] = p => Cardinality(Since(j) \ {p}) >= frame_size
<1>1. /\ reference \in Seq(Pages) /\ Len(reference) \in Nat /\ frame_size \in Nat
      /\ DOMAIN reference = 1 .. Len(reference) /\ table_size \in Nat
  BY DEF PagingInv, TypeOK
<1>2. Since(1) = Used
  BY <1>1 DEF Since, Used
<1>3. ASSUME NEW j \in DOMAIN reference
      PROVE  IsFiniteSet(Since(j) \ {p}) /\ Cardinality(Since(j) \ {p}) \in Nat
  <2>1. IsFiniteSet(Pages)
    <3>1. 0 \in Int /\ table_size - 1 \in Int
      BY <1>1
    <3> QED
      BY <3>1, FS_Interval DEF Pages, PagesOf
  <2>2. Since(j) \ {p} \subseteq Pages
    BY <1>1 DEF Since
  <2> QED
    BY <2>1, <2>2, FS_Subset, FS_CardinalityType
<1>4. CASE p \notin Used
  <2>1. ~Resident(p)
    BY <1>4 DEF Recency
  <2> QED
    BY <1>4, <2>1 DEF Used
<1>5. CASE p \in Used
  <2> DEFINE last == LastUse(p)
  <2>1. LastUsed(p, last)
    BY <1>5, LatestUse
  <2>2. Resident(p) <=> Cardinality(Since(last) \ {p}) < frame_size
    <3>1. p \in {q \in Pages : Resident(q)} <=>
            p \in {q \in Since(1) : Cardinality(Since(LastUse(q)) \ {q}) < frame_size}
      BY RecentPages
    <3> QED
      BY <1>2, <1>5, <3>1
  <2> HIDE DEF last
  <2>3. /\ last \in DOMAIN reference /\ reference[last] = p
        /\ \A j \in DOMAIN reference : reference[j] = p => j <= last
    BY <2>1 DEF LastUsed
  <2>4. ASSUME NEW j \in DOMAIN reference, reference[j] = p
        PROVE  Cardinality(Since(last) \ {p}) <= Cardinality(Since(j) \ {p})
    <3>1. j <= last
      BY <2>3, <2>4
    <3>2. Since(last) \ {p} \subseteq Since(j) \ {p}
      BY <1>1, <2>3, <3>1 DEF Since
    <3> QED
      BY <1>3, <3>2, FS_Subset
  <2> DEFINE others(j) == Cardinality(Since(j) \ {p})
  <2>5. /\ \A j \in DOMAIN reference : others(j) \in Nat
        /\ \A j \in DOMAIN reference : reference[j] = p => others(last) <= others(j)
        /\ Resident(p) <=> others(last) < frame_size
    BY <1>3, <2>2, <2>4
  <2> HIDE DEF others
  <2>6. ~Resident(p) <=>
          \A j \in DOMAIN reference : reference[j] = p => others(j) >= frame_size
    <3>1. frame_size \in Nat /\ others(last) \in Nat
      BY <1>1, <2>3, <2>5
    <3>2. ASSUME Resident(p) PROVE others(last) < frame_size /\ ~(others(last) >= frame_size)
      BY <2>5, <3>1, <3>2
    <3>3. ASSUME ~Resident(p), NEW j \in DOMAIN reference, reference[j] = p
          PROVE  others(j) >= frame_size
      BY <2>5, <3>1, <3>3
    <3> QED
      BY <2>3, <3>2, <3>3
  <2> QED
    BY <2>6 DEF others
<1> QED
  BY <1>4, <1>5

\* The next reference is distant if its page is far, and the others stay as they are.
LEMMA DistantStep ==
  ASSUME PagingInv, NEW p \in Pages, Refer(p)
  PROVE  /\ \A k : k = Len(reference) + 1 =>
              (Far(k, frame_size)' <=> \A j \in DOMAIN reference :
                 reference[j] = p => Cardinality(Since(j) \ {p}) >= frame_size)
         /\ \A k \in DOMAIN reference : Far(k, frame_size)' <=> Far(k, frame_size)
         /\ DOMAIN reference' = DOMAIN reference \cup {Len(reference) + 1}
         /\ Len(reference) \in Nat /\ DOMAIN reference = 1 .. Len(reference)
<1>1. /\ reference \in Seq(Pages) /\ Len(reference) \in Nat /\ frame_size' = frame_size
      /\ DOMAIN reference = 1 .. Len(reference) /\ reference' = Append(reference, p)
      /\ Len(reference)' = Len(reference) + 1
  BY Referred DEF PagingInv, TypeOK, Refer
<1>2. /\ DOMAIN reference' = 1 .. Len(reference) + 1
      /\ reference'[Len(reference) + 1] = p
      /\ \A i \in 1 .. Len(reference) : reference'[i] = reference[i]
  BY <1>1
<1>3. ASSUME NEW j \in DOMAIN reference, NEW k \in 1 .. Len(reference) + 1
      PROVE  Between(j, k)' = Between(j, k)
  <2>1. \A i \in j .. k - 1 : reference'[i] = reference[i]
    BY <1>1, <1>2
  <2> QED
    BY <2>1 DEF Between
<1>4. \A j \in DOMAIN reference : Between(j, Len(reference) + 1) = Since(j)
  BY <1>1 DEF Between, Since
<1>5. ASSUME NEW k, k = Len(reference) + 1
      PROVE  Far(k, frame_size)' <=> \A j \in DOMAIN reference :
               reference[j] = p => Cardinality(Since(j) \ {p}) >= frame_size
  <2>1. ASSUME NEW j \in DOMAIN reference
        PROVE  Between(j, k)' = Since(j)
    <3>1. Between(j, k)' = {reference'[i] : i \in j .. Len(reference)}
      BY <1>1, <1>5 DEF Between
    <3>2. \A i \in j .. Len(reference) : reference'[i] = reference[i]
      BY <1>1, <1>2
    <3> QED
      BY <3>1, <3>2 DEF Since
  <2>2. Far(k, frame_size)' <=> \A j \in 1 .. k - 1 :
          reference'[j] = reference'[k] =>
            Cardinality(Between(j, k)' \ {reference'[k]}) >= frame_size'
    BY DEF Far
  <2>3. /\ 1 .. k - 1 = DOMAIN reference /\ reference'[k] = p
        /\ \A j \in DOMAIN reference : reference'[j] = reference[j]
    BY <1>1, <1>2, <1>5
  <2> QED
    BY <1>1, <2>1, <2>2, <2>3
<1>6. ASSUME NEW k \in DOMAIN reference
      PROVE  Far(k, frame_size)' <=> Far(k, frame_size)
  <2>1. /\ k \in 1 .. Len(reference) + 1 /\ reference'[k] = reference[k]
        /\ \A j \in 1 .. k - 1 : j \in DOMAIN reference /\ reference'[j] = reference[j]
    BY <1>1, <1>2
  <2>2. \A j \in 1 .. k - 1 : Between(j, k)' = Between(j, k)
    BY <1>3, <2>1
  <2> QED
    BY <1>1, <2>1, <2>2 DEF Far
<1>7. DOMAIN reference' = DOMAIN reference \cup {Len(reference) + 1}
  BY <1>1, <1>2
<1> QED
  BY <1>1, <1>5, <1>6, <1>7

\* A reference of LRU counts as a fault exactly if it is distant.
LEMMA FaultCountStep ==
  ASSUME PagingInv, Recency, LruFaultCount, [Next]_vars
  PROVE  LruFaultCount'
<1>1. CASE UNCHANGED vars
  <2>1. /\ reference' = reference /\ frame_size' = frame_size /\ diseffect' = diseffect
        /\ Runs_LRU' = Runs_LRU
    BY <1>1 DEF vars, params, Runs_LRU
  <2>2. Distant(frame_size)' = Distant(frame_size)
    BY <2>1 DEF Distant, Far, Between
  <2> QED
    BY <2>1, <2>2 DEF LruFaultCount
<1>2. ASSUME NEW p \in Pages, FIFO_hit(p) \/ FIFO_fault(p) PROVE LruFaultCount'
  BY <1>2 DEF FIFO_hit, FIFO_fault, Refer, params, Runs_LRU, LruFaultCount
<1>3. ASSUME NEW p \in Pages, LRU_hit(p) \/ LRU_load(p) \/ LRU_replace(p)
      PROVE  LruFaultCount'
  <2> DEFINE K == Len(reference) + 1
             D == Distant(frame_size)
  <2>1. /\ Runs_LRU /\ Refer(p) /\ diseffect \in Nat
        /\ Resident(p) => diseffect' = diseffect
        /\ ~Resident(p) => diseffect' = diseffect + 1
    BY <1>3 DEF LRU_hit, LRU_load, LRU_replace, Fault, PagingInv, TypeOK
  <2>2. /\ \A k : k = K => (Far(k, frame_size)' <=> ~Resident(p))
        /\ \A k \in DOMAIN reference : Far(k, frame_size)' <=> Far(k, frame_size)
        /\ DOMAIN reference' = DOMAIN reference \cup {K}
        /\ Len(reference) \in Nat /\ DOMAIN reference = 1 .. Len(reference)
    BY <2>1, DistantStep, AwayIsFar
  <2>3. K \notin D /\ IsFiniteSet(D)
    <3>1. D \subseteq 1 .. Len(reference) /\ K \notin 1 .. Len(reference)
      BY <2>2 DEF Distant
    <3> QED
      BY <2>2, <3>1, Upto, FS_Subset
  <2>4. D' = IF Resident(p) THEN D ELSE D \cup {K}
    <3>1. \A k : k \in D <=> k \in DOMAIN reference /\ Far(k, frame_size)
      BY DEF Distant
    <3>2. \A k : k \in D' <=> k \in DOMAIN reference' /\ Far(k, frame_size)'
      BY DEF Distant
    <3> QED
      BY <2>2, <3>1, <3>2
  <2>5. diseffect = Cardinality(D)
    BY <2>1 DEF LruFaultCount
  <2> HIDE DEF K, D
  <2>6. diseffect' = Cardinality(D')
    BY <2>1, <2>3, <2>4, <2>5, FS_AddElement
  <2> QED
    BY <2>6 DEF LruFaultCount, D
<1> QED
  BY <1>1, <1>2, <1>3 DEF Next

\* The faults of LRU are the distant references, whatever the sizes and the string.
THEOREM LruFaultsCounted == Spec => []LruFaultCount
<1>1. ASSUME Init PROVE Recency /\ LruFaultCount
  <2>1. reference = <<>> /\ DOMAIN reference = {} /\ {q \in Pages : Resident(q)} = {}
    BY <1>1, PagingInit DEF Init
  <2>2. Distant(frame_size) = {} /\ diseffect = 0
    BY <1>1, <2>1 DEF Distant, Init
  <2> QED
    BY <2>1, <2>2, FS_EmptySet DEF Recency, Used, LruFaultCount
<1> QED
  BY <1>1, PagingInit, PagingStep, RecencyStep, FaultCountStep, PTL DEF Spec

\* On one string, the references distant for m are among those distant for n <= m.
LEMMA DistantShrinks ==
  ASSUME PagingInv, NEW n \in Nat, NEW m \in Nat, n <= m
  PROVE  Cardinality(Distant(m)) <= Cardinality(Distant(n))
<1>1. /\ reference \in Seq(Pages) /\ Len(reference) \in Nat /\ table_size \in Nat
      /\ DOMAIN reference = 1 .. Len(reference)
  BY DEF PagingInv, TypeOK
<1>2. ASSUME NEW k \in DOMAIN reference, NEW j \in 1 .. k - 1
      PROVE  Cardinality(Between(j, k) \ {reference[k]}) \in Nat
  <2>1. IsFiniteSet(Pages)
    <3>1. 0 \in Int /\ table_size - 1 \in Int
      BY <1>1
    <3> QED
      BY <3>1, FS_Interval DEF Pages, PagesOf
  <2>2. Between(j, k) \ {reference[k]} \subseteq Pages
    BY <1>1 DEF Between
  <2> QED
    BY <2>1, <2>2, FS_Subset, FS_CardinalityType
<1>3. \A k \in DOMAIN reference : Far(k, m) => Far(k, n)
  BY <1>2 DEF Far
<1>4. Distant(m) \subseteq Distant(n)
  BY <1>3 DEF Distant
<1>5. IsFiniteSet(Distant(n))
  BY <1>1, Upto, FS_Subset DEF Distant
<1> QED
  BY <1>4, <1>5, FS_Subset

\* LRU never faults more often than it would, on the same string, with fewer frames.
MoreFramesFewerFaults ==
  Runs_LRU => \A n \in Nat : n <= frame_size => diseffect <= Cardinality(Distant(n))

\* LRU has no Belady anomaly, for any sizes and any reference string.
THEOREM NoBeladyAnomaly == Spec => []MoreFramesFewerFaults
<1>1. PagingInv /\ LruFaultCount => MoreFramesFewerFaults
  <2> SUFFICES ASSUME PagingInv, LruFaultCount, Runs_LRU, NEW n \in Nat, n <= frame_size
               PROVE  diseffect <= Cardinality(Distant(n))
    BY DEF MoreFramesFewerFaults
  <2>1. frame_size \in Nat
    BY DEF PagingInv, TypeOK
  <2>2. Cardinality(Distant(frame_size)) <= Cardinality(Distant(n))
    BY <2>1, DistantShrinks
  <2> QED
    BY <2>2 DEF LruFaultCount
<1>2. Spec => []PagingInv
  BY PagingInit, PagingStep, PTL DEF Spec
<1> QED
  BY <1>1, <1>2, LruFaultsCounted, PTL
====
