-------------------------------- MODULE Paging --------------------------------
(***************************************************************************)
(* What the two algorithms of page.c promise: a page that is not in memory *)
(* is a fault; when every frame is taken it replaces the resident page     *)
(* with the oldest stamp, the time of its loading (FIFO) or of its last    *)
(* use (LRU).                                                              *)
(***************************************************************************)
EXTENDS Integers, FiniteSets

CONSTANTS Pages, FrameCounts

VARIABLES lru, frames, resident, stamp, now, faults

vars == <<lru, frames, resident, stamp, now, faults>>

Init ==
  /\ lru \in BOOLEAN /\ frames \in FrameCounts
  /\ resident = {} /\ stamp = [p \in Pages |-> 0]
  /\ now = 0 /\ faults = 0

Stamped(p) == [stamp EXCEPT ![p] = now]
Oldest(memory) == {v \in memory : \A q \in memory : stamp[v] <= stamp[q]}

\* The contents `memory', of n frames, can have after a fault on p.
Loaded(memory, n, p) ==
  IF Cardinality(memory) < n THEN {memory \cup {p}}
  ELSE {(memory \ {v}) \cup {p} : v \in Oldest(memory)}

Hit(p) ==
  /\ p \in resident
  /\ stamp' = IF lru THEN Stamped(p) ELSE stamp
  /\ now' = now + 1
  /\ UNCHANGED <<lru, frames, resident, faults>>

Fault(p) ==
  /\ p \notin resident
  /\ stamp' = Stamped(p)
  /\ now' = now + 1 /\ faults' = faults + 1
  /\ resident' \in Loaded(resident, frames, p)
  /\ UNCHANGED <<lru, frames>>

Next == \E p \in Pages : Hit(p) \/ Fault(p)

Spec == Init /\ [][Next]_vars
=============================================================================
