----------------------------- MODULE MemPartition -----------------------------
(***************************************************************************)
(* What the allocator of memory.c and memory_in.c promises, without its    *)
(* lists: memory is a set of free blocks and a set of blocks owned by      *)
(* processes.  Only memory_in.c records the size that was asked for        *)
(* (r_size); the two programs are otherwise the same.                      *)
(***************************************************************************)
EXTENDS Integers

CONSTANTS
  MinSlice,  \* a smaller remainder is given along with the request
  Memories,  \* the sizes memory may have
  Requests,  \* the amounts a process may ask for
  Pids

\* What the theorems ask of the constants; the modules that use this one see to it.
PartitionAssumption ==
  /\ MinSlice \in Nat \ {0} /\ Pids \subseteq Nat
  /\ Memories \subseteq Nat \ {0} /\ Requests \subseteq Nat \ {0}

VARIABLES mem, policy, free, used

vars == <<mem, policy, free, used>>

Policies == {1, 2, 3}  \* first fit, best fit, worst fit
Blocks == [start : Nat, size : Nat \ {0}]
Owned  == [pid : Pids, start : Nat, size : Nat \ {0}, r_size : Requests]

End(b) == b.start + b.size
Whole(n) == {[start |-> 0, size |-> n]}

Init == mem \in Memories /\ policy = 1 /\ free = Whole(mem) /\ used = {}

Resize(n) ==
  /\ free = Whole(mem) /\ used = {}
  /\ mem' = n /\ free' = Whole(n)
  /\ UNCHANGED <<policy, used>>

SetPolicy(a) == policy' = a /\ UNCHANGED <<mem, free, used>>

\* The policy prefers b to c, or does not care.
Prefers(b, c) ==
  \/ policy = 1 /\ b.start <= c.start
  \/ policy = 2 /\ b.size <= c.size
  \/ policy = 3 /\ b.size >= c.size

Fitting(n) == {b \in free : b.size >= n}
Fresh(p) == \A u \in used : u.pid # p

\* What is left of block b when n units of it are asked for, and what is given:
\* a remainder below MinSlice is given along.
Given(b, n) == IF b.size - n >= MinSlice THEN n ELSE b.size
Left(b, n) ==
  IF b.size - n >= MinSlice THEN {[start |-> b.start + n, size |-> b.size - n]} ELSE {}
Entry(p, b, n) == [pid |-> p, start |-> b.start, size |-> Given(b, n), r_size |-> n]

\* A request is met from the block the policy prefers among those that fit.
Place(p, n, b) ==
  /\ Fresh(p)
  /\ b \in Fitting(n) /\ \A c \in Fitting(n) : Prefers(b, c)
  /\ free' = (free \ {b}) \cup Left(b, n)
  /\ used' = used \cup {Entry(p, b, n)}
  /\ UNCHANGED <<mem, policy>>

\* u is `used' with every process moved below address top, side by side.
Packs(u, top) ==
  /\ u \subseteq Owned /\ top \in 1 .. mem - 1
  /\ \A x \in used : \E y \in u :
       y.pid = x.pid /\ y.size = x.size /\ y.r_size = x.r_size
  /\ \A y \in u : \E x \in used :
       y.pid = x.pid /\ y.size = x.size /\ y.r_size = x.r_size
  /\ \A x, y \in u : x # y => End(x) <= y.start \/ End(y) <= x.start
  /\ \A y \in u : End(y) <= top
  /\ \A a \in 0 .. top - 1 : \E y \in u : y.start <= a /\ a < End(y)

Above(top) == [start |-> top, size |-> mem - top]

\* A request that fits no block, but the free memory taken together.  (A request
\* too large for that is refused, and nothing changes.)
CompactAndPlace(p, n, top, u) ==
  /\ Fresh(p)
  /\ Fitting(n) = {} /\ Packs(u, top) /\ mem - top >= n
  /\ free' = Left(Above(top), n)
  /\ used' = u \cup {Entry(p, Above(top), n)}
  /\ UNCHANGED <<mem, policy>>

\* The freed block and its free neighbours become one.
GiveBack(x) ==
  LET below == {b \in free : End(b) = x.start}
      above == {b \in free : b.start = End(x)}
      start == IF below = {} THEN x.start ELSE (CHOOSE b \in below : TRUE).start
      end   == IF above = {} THEN End(x) ELSE End(CHOOSE b \in above : TRUE)
  IN
  /\ x \in used
  /\ free' = (free \ (below \cup above)) \cup {[start |-> start, size |-> end - start]}
  /\ used' = used \ {x}
  /\ UNCHANGED <<mem, policy>>

\* The blocks a compaction can leave behind are given by the next state.
Compaction ==
  \E n \in Requests, top \in 1 .. mem - 1 :
    \E e \in used' : CompactAndPlace(e.pid, n, top, used' \ {e})

Next ==
  \/ \E n \in Memories : Resize(n)
  \/ \E a \in Policies : SetPolicy(a)
  \/ \E p \in Pids, n \in Requests, b \in free : Place(p, n, b)
  \/ Compaction
  \/ \E x \in used : GiveBack(x)

Spec == Init /\ [][Next]_vars
=============================================================================
