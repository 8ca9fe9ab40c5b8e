----------------------------- MODULE PageReplacement -----------------------------
(***************************************************************************)
(* The page replacement simulator of Lab 2 (page.c).  The initial states   *)
(* are those in which main has its parameters, an empty page table and an  *)
(* algorithm to run; every step is one turn of the loop of FIFO or LRU.    *)
(* `reference' holds the part of the reference string that has been used:  *)
(* a page of the string is chosen when it is looked at.                    *)
(***************************************************************************)
EXTENDS Integers, Sequences, FiniteSets, FiniteSetsExt

CONSTANTS
  TableSizes, FrameSizes, RefSizes,  \* what the user may enter, or the defaults
  Unset,       \* a cell of malloc that nothing has been written to
  MaxRefs      \* BOUND: references made

ASSUME PageReplacementAssumption ==
  /\ TableSizes \subseteq 1..128 /\ FrameSizes \subseteq 1..32 /\ RefSizes \subseteq 0..100
  /\ MaxRefs \in Nat

VARIABLES
  choice,                   \* the menu: "1" FIFO, "2" LRU, "3" Belady, or another key
  table_size, frame_size, ref_size,
  reference, page_table, diseffect,
  queue, front, rear,       \* locals of FIFO: a circular queue with a spare cell
  frame, full, clock,       \* locals of LRU
  loaded                    \* history: when each page last came into a frame

params == <<choice, table_size, frame_size, ref_size>>
fifo_locals == <<queue, front, rear>>
lru_locals == <<frame, full, clock>>
vars == <<params, reference, page_table, diseffect, fifo_locals, lru_locals, loaded>>

PagesOf(n) == 0 .. n - 1
Pages == PagesOf(table_size)
Runs_LRU == choice = "2"
queue_size == frame_size + 1

\* Belady() sets the sizes; for every other choice they are entered.
set_parameter ==
  \/ /\ choice = "3"
     /\ table_size = 6 /\ frame_size = 3 /\ ref_size = 12
  \/ /\ choice \in {"1", "2", "other"}
     /\ table_size \in TableSizes /\ frame_size \in FrameSizes /\ ref_size \in RefSizes

Init ==
  /\ set_parameter
  /\ reference = <<>> /\ diseffect = 0
  /\ page_table = [p \in Pages |-> [frame |-> Unset, flag |-> FALSE, counter |-> 0]]
  /\ queue = [k \in 0..frame_size |-> Unset] /\ front = 0 /\ rear = 0
  /\ frame = [k \in 0..frame_size - 1 |-> Unset] /\ full = 0 /\ clock = 0
  /\ loaded = [p \in Pages |-> 0]

\* The next page of the string: random, or typed in.  main makes a new string for
\* every choice, for the "if (choice1 != '3')" governs the prompt only; the string
\* that Belady() had set up is never used.
Refer(p) ==
  /\ Len(reference) < ref_size /\ Len(reference) < MaxRefs
  /\ p \in Pages
  /\ reference' = Append(reference, p)
  /\ UNCHANGED params

Resident(p) == page_table[p].flag
\* Page p comes into frame f; the pages of out have left.
Load(table, p, f, out) ==
  [q \in DOMAIN table |->
    IF q = p THEN [table[q] EXCEPT !.flag = TRUE, !.frame = f]
    ELSE IF q \in out THEN [table[q] EXCEPT !.flag = FALSE] ELSE table[q]]
Fault(p) ==
  /\ ~Resident(p)
  /\ diseffect' = diseffect + 1
  /\ loaded' = [loaded EXCEPT ![p] = Len(reference)]

FIFO_hit(p) ==
  /\ ~Runs_LRU /\ Refer(p) /\ Resident(p)
  /\ UNCHANGED <<page_table, diseffect, fifo_locals, lru_locals, loaded>>

FollowingUnwrapped(k) == k + 1  \* mutant: no wrap at the end of the array
Following(k) == (k + 1) % queue_size

QueueMet == rear = front  \* mutant: no spare cell
QueueFull == Following(rear) = front

FIFO_fault(p) ==
  /\ ~Runs_LRU /\ Refer(p) /\ Fault(p)
  /\ page_table' = Load(page_table, p, rear, IF QueueFull THEN {queue[front]} ELSE {})
  /\ front' = IF QueueFull THEN Following(front) ELSE front
  /\ queue' = [queue EXCEPT ![rear] = p]
  /\ rear' = Following(rear)
  /\ UNCHANGED lru_locals

\* mutant: only a fault takes the time
StampedOnFault(p) ==
  IF Resident(p) THEN page_table ELSE [page_table EXCEPT ![p].counter = clock]
\* Every reference stamps the page with the clock, before it is looked for.
Stamped(p) == [page_table EXCEPT ![p].counter = clock]

LRU_hit(p) ==
  /\ Runs_LRU /\ Refer(p) /\ Resident(p)
  /\ page_table' = Stamped(p) /\ clock' = clock + 1
  /\ UNCHANGED <<diseffect, fifo_locals, frame, full, loaded>>

LRU_load(p) ==  \* a frame is free
  /\ Runs_LRU /\ Refer(p) /\ Fault(p)
  /\ full < frame_size
  /\ page_table' = Load(Stamped(p), p, full, {})
  /\ frame' = [frame EXCEPT ![full] = p] /\ full' = full + 1
  /\ clock' = clock + 1
  /\ UNCHANGED fifo_locals

find_min_last == frame_size - 1  \* mutant: min is never lowered
\* The first frame whose page has the least counter.
find_min ==
  Min({k \in DOMAIN frame : \A j \in DOMAIN frame :
         page_table[frame[k]].counter <= page_table[frame[j]].counter})

LRU_replace_flagged(p) ==  \* mutant: the page that leaves keeps its flag
  /\ Runs_LRU /\ Refer(p) /\ Fault(p)
  /\ full = frame_size
  /\ page_table' = Load(Stamped(p), p, find_min, {})
  /\ frame' = [frame EXCEPT ![find_min] = p]
  /\ clock' = clock + 1
  /\ UNCHANGED <<fifo_locals, full>>

LRU_replace(p) ==
  /\ Runs_LRU /\ Refer(p) /\ Fault(p)
  /\ full = frame_size
  /\ page_table' = Load(Stamped(p), p, find_min, {frame[find_min]})
  /\ frame' = [frame EXCEPT ![find_min] = p]
  /\ clock' = clock + 1
  /\ UNCHANGED <<fifo_locals, full>>

Next ==
  \E p \in Pages :
    FIFO_hit(p) \/ FIFO_fault(p) \/ LRU_hit(p) \/ LRU_load(p) \/ LRU_replace(p)

Spec == Init /\ [][Next]_vars
-----------------------------------------------------------------------------

TypeOK ==
  /\ choice \in {"1", "2", "3", "other"}
  /\ table_size \in Nat /\ frame_size \in Nat /\ ref_size \in Nat
  /\ reference \in Seq(Pages) /\ diseffect \in 0 .. Len(reference)
  /\ page_table \in [Pages -> [frame : 0..frame_size \cup {Unset}, flag : BOOLEAN,
                               counter : Nat]]
  /\ queue \in [0..frame_size -> Pages \cup {Unset}]
  /\ front \in 0..frame_size /\ rear \in 0..frame_size
  /\ frame \in [0..frame_size - 1 -> Pages \cup {Unset}]
  /\ full \in 0..frame_size /\ clock \in 0..ref_size
  /\ loaded \in [Pages -> 0..ref_size]

\* The cells that hold pages: of the queue from front to rear, of frame below full.
Cells == IF Runs_LRU THEN 0 .. full - 1
         ELSE {k \in 0..frame_size : (k - front) % queue_size < (rear - front) % queue_size}
Holding == IF Runs_LRU THEN frame ELSE queue

\* The flags of the page table and the cells of the queue, or of the frames, agree:
\* the flagged pages are those in the cells, each in one, the one its entry names,
\* and there are never more than frame_size.
FlagsAreFrames ==
  /\ {p \in Pages : Resident(p)} = {Holding[k] : k \in Cells}
  /\ \A k \in Cells : page_table[Holding[k]].frame = k
  /\ Cardinality(Cells) <= frame_size

\* Both algorithms replace the page Paging says: the one loaded first, or the one
\* used least recently, and only when every frame is taken.
AllPages == UNION {PagesOf(n) : n \in TableSizes \cup {6}}
Abstract == INSTANCE Paging WITH
  Pages <- AllPages, FrameCounts <- FrameSizes \cup {3},
  lru <- Runs_LRU, frames <- frame_size, resident <- {p \in Pages : Resident(p)},
  stamp <- [p \in AllPages |-> IF p \notin Pages THEN 0
             ELSE IF Runs_LRU THEN page_table[p].counter ELSE loaded[p]],
  now <- Len(reference), faults <- diseffect
ImplementsPaging == Abstract!Spec

\* The pages used since position j of the string, and LRU without any counters: the
\* pages in memory are those after whose last use fewer than frame_size others
\* were used, and a reference faults exactly if its page is not among them.
Since(j) == {reference[k] : k \in j .. Len(reference)}
LastUse(p) == Max({j \in DOMAIN reference : reference[j] = p})
MostRecentlyUsed ==
  Runs_LRU => {p \in Pages : Resident(p)} =
    {p \in Since(1) : Cardinality(Since(LastUse(p)) \ {p}) < frame_size}

\* The pages of positions j to k - 1; a reference is distant if n other pages, or
\* more, were used since every earlier use of its page (or it has none).
Between(j, k) == {reference[i] : i \in j .. k - 1}
Far(k, n) == \A j \in 1 .. k - 1 :
  reference[j] = reference[k] => Cardinality(Between(j, k) \ {reference[k]}) >= n
Distant(n) == {k \in DOMAIN reference : Far(k, n)}

\* The faults LRU counts, from which main prints the ratio, are the references that
\* are distant for its number of frames: a number of the string and the frames
\* alone, which more frames can only lower (there is no Belady anomaly).
LruFaultCount == Runs_LRU => diseffect = Cardinality(Distant(frame_size))
=============================================================================
