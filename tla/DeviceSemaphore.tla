--------------------------- MODULE DeviceSemaphore ---------------------------
(***************************************************************************)
(* What ch_device.c uses its semaphore for, seen from above: a process     *)
(* takes the one permit and gives it back.  The third action is the up()   *)
(* that two error returns of globalvar_write do without a down() (lines    *)
(* 122 and 129 of ch_device.c).                                            *)
(***************************************************************************)
EXTENDS Integers, FiniteSets

CONSTANTS Procs
VARIABLES permits, holders, stray

vars == <<permits, holders, stray>>

Init == permits = 1 /\ holders = {} /\ stray = 0

Acquire(p) ==
  /\ permits > 0 /\ permits' = permits - 1 /\ stray' = stray
  /\ p \notin holders /\ holders' = holders \cup {p}

GiveBack(p) ==
  /\ permits' = permits + 1 /\ stray' = stray
  /\ p \in holders /\ holders' = holders \ {p}

StrayUp ==
  /\ permits' = permits + 1 /\ stray' = stray + 1
  /\ holders' = holders

Next == StrayUp \/ \E p \in Procs : Acquire(p) \/ GiveBack(p)

Spec == Init /\ [][Next]_vars

\* Every permit is accounted for: it is free, held, or one too many.
Conserved ==
  /\ permits \in Nat /\ stray \in Nat /\ IsFiniteSet(holders)
  /\ permits + Cardinality(holders) = 1 + stray

\* Until the first stray up(), the semaphore is a mutual exclusion lock.
Exclusive == stray = 0 => \A p, q \in holders : p = q
=============================================================================
