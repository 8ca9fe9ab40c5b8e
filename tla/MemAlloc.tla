------------------------------- MODULE MemAlloc -------------------------------
(***************************************************************************)
(* The dynamic-partition memory allocator of Lab 2 (memory_in.c; memory.c  *)
(* is the same program without the requested sizes): one action per menu   *)
(* command.  free_block and the allocated list are the two linked lists,   *)
(* in their order.  Process names, display text and the linkage of the     *)
(* lists are left out; sizes entered by the user are positive, and the     *)
(* mallocs of list nodes, for which the program checks, do not fail.       *)
(***************************************************************************)
EXTENDS Integers, Sequences, FiniteSets, SequencesExt

CONSTANTS
  MIN_SLICE,         \* a smaller remainder is not split off
  DEFAULT_MEM_SIZE,
  Sizes,             \* the memory sizes the user may set
  Requests,          \* the amounts a new process may ask for
  MaxPid             \* BOUND: processes created

MA_FF == 1
MA_BF == 2
MA_WF == 3
DEFAULT_MEM_START == 0

ASSUME MemAllocAssumption ==
  /\ MIN_SLICE \in Nat \ {0} /\ DEFAULT_MEM_SIZE \in Nat \ {0}
  /\ Sizes \subseteq Nat \ {0} /\ Requests \subseteq Nat \ {0} /\ MaxPid \in Nat

VARIABLES
  mem_size, ma_algorithm, pid, flag, Allocated_Memory_Size, Request_Memory_Size,
  free_block,        \* sequence of [start, size]
  allocated_block,   \* sequence of [pid, start, size, r_size]
  state              \* "running", "exited", or "crashed" (a NULL dereference or
                     \* a division by zero)

totals == <<Allocated_Memory_Size, Request_Memory_Size>>
vars == <<mem_size, ma_algorithm, pid, flag, totals, free_block, allocated_block, state>>

-----------------------------------------------------------------------------
(* The three orders of the free list.  Each rearrange_XX is an insertion   *)
(* sort: nodes are taken in list order, and one goes behind exactly the    *)
(* nodes that strictly precede it, so equal keys come out reversed.        *)

Precedes(algorithm, b, c) ==
  \/ algorithm = MA_FF /\ b.start < c.start
  \/ algorithm = MA_BF /\ b.size < c.size
  \/ algorithm = MA_WF /\ b.size > c.size

SortedInsert(algorithm, sorted, b) ==
  LET next == SelectInSeq(sorted, LAMBDA c : ~Precedes(algorithm, c, b))
  IN  InsertAt(sorted, IF next = 0 THEN Len(sorted) + 1 ELSE next, b)

Rearrange(algorithm, list) ==
  FoldLeft(LAMBDA sorted, b : SortedInsert(algorithm, sorted, b), <<>>, list)

-----------------------------------------------------------------------------
(* The parts of allocate_mem and free_mem.                                 *)

Block(start, size) == [start |-> start, size |-> size]

FirstFitStrict(list, n) == SelectInSeq(list, LAMBDA b : b.size > n)  \* mutant: > for >=
FirstFit(list, n) == SelectInSeq(list, LAMBDA b : b.size >= n)

\* mutant: every block is split, an exact fit too
CarveAlways(list, i, n) ==
  LET b == list[i] IN
  [block |-> Block(b.start, n),
   rest |-> [list EXCEPT ![i] = Block(b.start + n, b.size - n)]]

\* mutant: a remainder of exactly MIN_SLICE is not split off
CarveLate(list, i, n) ==
  LET b == list[i] IN
  IF b.size - n > MIN_SLICE
  THEN [block |-> Block(b.start, n),
        rest |-> [list EXCEPT ![i] = Block(b.start + n, b.size - n)]]
  ELSE [block |-> b, rest |-> RemoveAt(list, i)]

\* Case 1 splits the block found, case 2 hands it over whole.
Carve(list, i, n) ==
  LET b == list[i] IN
  IF b.size - n >= MIN_SLICE
  THEN [block |-> Block(b.start, n),
        rest |-> [list EXCEPT ![i] = Block(b.start + n, b.size - n)]]
  ELSE [block |-> b, rest |-> RemoveAt(list, i)]

Total(list) == FoldLeft(LAMBDA n, b : n + b.size, 0, list)

\* mutant: the size of the process before is not added
MovedOnto(list) == [i \in DOMAIN list |-> [list[i] EXCEPT !.start = DEFAULT_MEM_START]]

\* Compaction: the processes are moved down in list order ...
MovedDown(list) ==
  [i \in DOMAIN list |->
    [list[i] EXCEPT !.start = DEFAULT_MEM_START + Total(SubSeq(list, 1, i - 1))]]
\* ... and one free block is left above them.
Compacted(free, list) == <<Block(DEFAULT_MEM_START + Total(list), Total(free))>>

MergeNext(merged, b) ==
  IF merged # <<>> /\ Last(merged).start + Last(merged).size = b.start
  THEN [merged EXCEPT ![Len(merged)].size = @ + b.size]
  ELSE Append(merged, b)
Merge(list) == FoldLeft(MergeNext, <<>>, list)

-----------------------------------------------------------------------------

Init ==
  /\ mem_size = DEFAULT_MEM_SIZE /\ ma_algorithm = MA_FF /\ pid = 0 /\ flag = 0
  /\ Allocated_Memory_Size = 0 /\ Request_Memory_Size = 0
  /\ free_block = <<Block(DEFAULT_MEM_START, DEFAULT_MEM_SIZE)>>
  /\ allocated_block = <<>>
  /\ state = "running"

\* Once, before any other command (flag).
set_mem_size(size) ==
  /\ state = "running" /\ flag = 0
  /\ mem_size' = size
  /\ free_block' = [free_block EXCEPT ![1].size = size]
  /\ flag' = 1
  /\ UNCHANGED <<ma_algorithm, pid, totals, allocated_block, state>>

set_algorithm_only(algorithm) ==  \* mutant: the list is not rearranged
  /\ state = "running"
  /\ ma_algorithm' = algorithm
  /\ flag' = 1
  /\ UNCHANGED <<mem_size, pid, totals, free_block, allocated_block, state>>

\* A choice that names no algorithm rearranges for the current one.
set_algorithm(algorithm) ==
  /\ state = "running"
  /\ ma_algorithm' = algorithm
  /\ free_block' = Rearrange(algorithm, free_block)
  /\ flag' = 1
  /\ UNCHANGED <<mem_size, pid, totals, allocated_block, state>>

\* The new process goes to the head of the list and into the totals.
Enter(block, n, list) ==
  /\ allocated_block' = <<[pid |-> pid + 1, start |-> block.start,
                           size |-> block.size, r_size |-> n]>> \o list
  /\ Allocated_Memory_Size' = Allocated_Memory_Size + block.size
  /\ Request_Memory_Size' = Request_Memory_Size + n

Asked == state = "running" /\ pid < MaxPid /\ pid' = pid + 1 /\ flag' = 1

\* A block of the list is large enough (cases 1 and 2).
new_process(n) ==
  LET i == FirstFit(free_block, n)
      c == Carve(free_block, i, n)
  IN
  /\ Asked
  /\ i # 0
  /\ Enter(c.block, n, allocated_block)
  /\ free_block' = Rearrange(ma_algorithm, c.rest)
  /\ UNCHANGED <<mem_size, ma_algorithm, state>>

\* None is: everything is compacted (case 3), and the one free block is tried.
new_process_compacting(n) ==
  LET one == Compacted(free_block, allocated_block)
      c == Carve(one, 1, n)
  IN
  /\ Asked
  /\ FirstFit(free_block, n) = 0
  /\ free_block # <<>> /\ allocated_block # <<>>
  /\ FirstFit(one, n) # 0
  /\ Enter(c.block, n, MovedDown(allocated_block))
  /\ free_block' = Rearrange(ma_algorithm, c.rest)
  /\ UNCHANGED <<mem_size, ma_algorithm, state>>

\* Even that block is too small: -1, the memory compacted all the same.
new_process_failing(n) ==
  LET one == Compacted(free_block, allocated_block) IN
  /\ Asked
  /\ FirstFit(free_block, n) = 0
  /\ free_block # <<>> /\ allocated_block # <<>>
  /\ FirstFit(one, n) = 0
  /\ free_block' = one
  /\ allocated_block' = MovedDown(allocated_block)
  /\ UNCHANGED <<mem_size, ma_algorithm, totals, state>>

\* Compaction reads free_block->next, and pre_abt->start_addr, of a NULL pointer
\* when nothing is free, or nothing allocated.
new_process_crashing(n) ==
  /\ Asked
  /\ FirstFit(free_block, n) = 0
  /\ free_block = <<>> \/ allocated_block = <<>>
  /\ state' = "crashed"
  /\ UNCHANGED <<mem_size, ma_algorithm, totals, free_block, allocated_block>>

find_process(p) == SelectInSeq(allocated_block, LAMBDA ab : ab.pid = p)

\* mutant: the freed block is merged before the list is in address order
FreedUnsorted(ab) == Merge(Append(free_block, Block(ab.start, ab.size)))

\* free_mem: append, sort by address, merge the neighbours.
Freed(ab) == Merge(Rearrange(MA_FF, Append(free_block, Block(ab.start, ab.size))))

kill_process(p) ==
  LET i == find_process(p)
      ab == allocated_block[i]
  IN
  /\ state = "running" /\ i # 0
  /\ Allocated_Memory_Size' = Allocated_Memory_Size - ab.size
  /\ Request_Memory_Size' = Request_Memory_Size - ab.r_size
  /\ free_block' = Rearrange(ma_algorithm, Freed(ab))
  /\ allocated_block' = RemoveAt(allocated_block, i)
  /\ flag' = 1
  /\ UNCHANGED <<mem_size, ma_algorithm, pid, state>>

\* kill of a pid nobody has, or a choice that sets nothing else: only the flag.
no_effect ==
  /\ state = "running"
  /\ flag' = 1
  /\ UNCHANGED <<mem_size, ma_algorithm, pid, totals, free_block, allocated_block, state>>

\* Prints the lists, and divides by Allocated_Memory_Size unless nothing is free.
display_mem_usage ==
  /\ state = "running"
  /\ flag' = 1
  /\ state' = IF free_block # <<>> /\ Allocated_Memory_Size = 0 THEN "crashed" ELSE state
  /\ UNCHANGED <<mem_size, ma_algorithm, pid, totals, free_block, allocated_block>>

Exit ==
  /\ state = "running"
  /\ state' = "exited"
  /\ UNCHANGED <<mem_size, ma_algorithm, pid, flag, totals, free_block, allocated_block>>

Next ==
  \/ \E size \in Sizes : set_mem_size(size)
  \/ \E algorithm \in {MA_FF, MA_BF, MA_WF} : set_algorithm(algorithm)
  \/ \E n \in Requests : \/ new_process(n) \/ new_process_compacting(n)
                         \/ new_process_failing(n) \/ new_process_crashing(n)
  \/ \E p \in 1..MaxPid : kill_process(p)
  \/ no_effect \/ display_mem_usage \/ Exit

Spec == Init /\ [][Next]_vars

-----------------------------------------------------------------------------
(* What the allocator promises.                                            *)

TypeOK ==
  /\ mem_size \in Nat \ {0} /\ ma_algorithm \in {MA_FF, MA_BF, MA_WF}
  /\ pid \in 0..MaxPid /\ flag \in {0, 1} /\ state \in {"running", "exited", "crashed"}
  /\ Allocated_Memory_Size \in Nat /\ Request_Memory_Size \in Nat
  /\ \A i \in DOMAIN free_block : free_block[i] \in [start : Nat, size : Nat \ {0}]
  /\ \A i \in DOMAIN allocated_block : allocated_block[i] \in
       [pid : 1..pid, start : Nat, size : Nat \ {0}, r_size : Requests]

Blocks == ToSet(free_block) \cup ToSet(allocated_block)
Holds(b, a) == b.start <= a /\ a < b.start + b.size

\* After any sequence of commands, compactions included, every unit of memory is
\* in one block, free or a process's, and the lists hold no block twice.
Tiled ==
  /\ \A a \in 0 .. mem_size - 1 : Cardinality({b \in Blocks : Holds(b, a)}) = 1
  /\ Total(free_block) + Total(allocated_block) = mem_size

\* free_mem leaves no two free blocks side by side, whatever order the list was
\* in: a hole is never split between two blocks that are each too small.
Coalesced ==
  \A b, c \in ToSet(free_block) : b.start + b.size # c.start

\* The free list is in the order of the current algorithm whenever a command
\* ends, so that the first block that fits is the one the algorithm wants.
Ordered == IsSorted(free_block, LAMBDA b, c : ~Precedes(ma_algorithm, c, b))

\* The totals shown to the user are the sums over the processes, and what a
\* process holds beyond its request is less than a slice.
Accounted ==
  /\ Allocated_Memory_Size = Total(allocated_block)
  /\ Request_Memory_Size =
       FoldLeft(LAMBDA n, ab : n + ab.r_size, 0, allocated_block)
  /\ \A ab \in ToSet(allocated_block) : ab.size - ab.r_size \in 0 .. MIN_SLICE - 1

\* The lists implement MemPartition: a request is met from the block the current
\* algorithm prefers, compaction moves processes without loss and only when no
\* block fits, and a freed block is merged with its free neighbours.  One step of
\* the code is not of MemPartition, and is allowed here beside its steps: before a
\* request too large for all the free memory is refused, everything is compacted.
Partition == INSTANCE MemPartition WITH
  MinSlice <- MIN_SLICE, Memories <- Sizes \cup {DEFAULT_MEM_SIZE}, Pids <- 1..MaxPid,
  mem <- mem_size, policy <- ma_algorithm,
  free <- ToSet(free_block), used <- ToSet(allocated_block)
FutileCompaction ==
  /\ \E n \in Requests : new_process_failing(n)
  /\ \E top \in 1 .. mem_size - 1 :
       /\ Partition!Packs(ToSet(allocated_block'), top)
       /\ ToSet(free_block') = {Partition!Above(top)}
ImplementsPartition ==
  Partition!Init /\ [][FutileCompaction \/ Partition!Next]_(Partition!vars)

\* Memory is compacted if that satisfies the request: when a process is moved, the
\* new process has got its memory.
Moved == \E x \in ToSet(allocated_block), y \in ToSet(allocated_block') :
           x.pid = y.pid /\ x.start # y.start
MovesOnlyToPlace ==
  [][Moved => \E z \in ToSet(allocated_block') : z.pid = pid' /\ z.pid # pid]_vars

\* allocate_mem answers 1 or -1: asking for memory never ends the program.
AllocationAnswers == [][pid' # pid => state' # "crashed"]_vars
=============================================================================
