-------------------------------- MODULE Threads --------------------------------
(***************************************************************************)
(* The thread programs of Lab 1: spinlock.c, thread0.c, thread1.c and      *)
(* thread2.c.  In each, main creates two threads, joins them in order and  *)
(* prints; a thread repeats a critical section, under a spin lock, under a *)
(* mutex or under nothing.                                                 *)
(*                                                                         *)
(* value++ and value += 100 are a load and a store: in thread0.c the race  *)
(* is undefined behaviour.  A build that keeps the whole loop in one       *)
(* register shows a subset of these outcomes.  100 is the unit.            *)
(***************************************************************************)
EXTENDS Integers

CONSTANT Rounds   \* BOUND: 5000 in spinlock.c, 100000 in thread0.c and thread1.c

ASSUME RoundsAssumption == Rounds \in Nat \ {0}

VARIABLES
  program,    \* which of the four runs
  mainPc,     \* where its main is
  threadPc,   \* where each thread is
  lockFlag,   \* lock->flag, or the state of the mutex t
  value,      \* shared_value, or value
  reg,        \* what a thread loaded
  done,       \* i: rounds a thread has completed
  printed     \* the last line of main

threadsVars == <<program, mainPc, threadPc, lockFlag, value, reg, done, printed>>

Threads == {1, 2}

Locked == program # "thread0"
Counts == program # "thread2"
\* Mutant: func2 adds as func1 does
AlwaysAdds(t) == 1

Adds(t) == IF program = "spinlock" \/ t = 1 THEN 1 ELSE -1
Limit == IF Counts THEN Rounds ELSE 1

\* Mutant: one round too many
LoopsOnce(n) == IF n > Limit THEN "exited" ELSE IF Locked THEN "lock" ELSE "load"

\* The loop's test, at its head or after a round
LoopTest(n) == IF n = Limit THEN "exited" ELSE IF Locked THEN "lock" ELSE "load"

CreateAt == <<"create1", "create2">>
JoinAt == <<"join1", "join2">>
After == [create1 |-> "create2", create2 |-> "join1", join1 |-> "join2", join2 |-> "print"]

Running == mainPc \in {"create1", "create2", "join1", "join2", "print"}

ThreadsInit ==
  /\ program = "none" /\ mainPc = "none"
  /\ threadPc = [t \in Threads |-> "absent"]
  /\ lockFlag = 0 /\ value = 0 /\ printed = 0
  /\ reg = [t \in Threads |-> 0] /\ done = [t \in Threads |-> 0]

\* exec of one of the programs; spinlock_init or pthread_mutex_init frees the lock
LaunchThreads ==
  /\ mainPc = "none" /\ mainPc' = "create1"
  /\ program' \in {"spinlock", "thread0", "thread1", "thread2"}
  /\ UNCHANGED <<threadPc, lockFlag, value, reg, done, printed>>
-----------------------------------------------------------------------------
(* main *)

\* pthread_create may fail; no program acts on its result.
Create(t) ==
  /\ mainPc = CreateAt[t] /\ mainPc' = After[mainPc]
  /\ \/ threadPc' = [threadPc EXCEPT ![t] = LoopTest(0)]
     \/ UNCHANGED threadPc
  /\ UNCHANGED <<program, lockFlag, value, reg, done, printed>>

\* Mutant: the join of a running thread returns at once
EagerJoin(t) ==
  /\ mainPc = JoinAt[t] /\ mainPc' = After[mainPc]
  /\ UNCHANGED <<program, threadPc, lockFlag, value, reg, done, printed>>

Join(t) ==
  /\ mainPc = JoinAt[t] /\ threadPc[t] = "exited"
  /\ mainPc' = After[mainPc]
  /\ UNCHANGED <<program, threadPc, lockFlag, value, reg, done, printed>>

\* The id of a thread that was not created is not initialised: joining it may
\* return an error, which is ignored, or end the program.
JoinAbsent(t) ==
  /\ mainPc = JoinAt[t] /\ threadPc[t] = "absent"
  /\ mainPc' \in {After[mainPc], "crashed"}
  /\ UNCHANGED <<program, threadPc, lockFlag, value, reg, done, printed>>

PrintValue ==
  /\ mainPc = "print" /\ mainPc' = "ended" /\ printed' = value
  /\ UNCHANGED <<program, threadPc, lockFlag, value, reg, done>>

MainStep == PrintValue \/ \E t \in Threads : Create(t) \/ Join(t) \/ JoinAbsent(t)
-----------------------------------------------------------------------------
(* The threads *)

At(t, pc) == Running /\ threadPc[t] = pc

\* Mutant: the old value of the flag is not looked at
SetOnly(t) ==
  /\ At(t, "lock") /\ lockFlag' = 1
  /\ threadPc' = [threadPc EXCEPT ![t] = IF Counts THEN "load" ELSE "command"]
  /\ UNCHANGED <<program, mainPc, value, reg, done, printed>>

\* __sync_lock_test_and_set and pthread_mutex_lock; a spin that finds the flag
\* set writes 1 over 1.
Lock(t) ==
  /\ At(t, "lock") /\ lockFlag = 0 /\ lockFlag' = 1
  /\ threadPc' = [threadPc EXCEPT ![t] = IF Counts THEN "load" ELSE "command"]
  /\ UNCHANGED <<program, mainPc, value, reg, done, printed>>

Load(t) ==
  /\ At(t, "load") /\ reg' = [reg EXCEPT ![t] = value]
  /\ threadPc' = [threadPc EXCEPT ![t] = "store"]
  /\ UNCHANGED <<program, mainPc, lockFlag, value, done, printed>>

Store(t) ==
  /\ At(t, "store") /\ value' = reg[t] + Adds(t)
  /\ done' = [done EXCEPT ![t] = @ + 1]
  /\ threadPc' = [threadPc EXCEPT ![t] = IF Locked THEN "unlock" ELSE LoopTest(done[t] + 1)]
  /\ UNCHANGED <<program, mainPc, lockFlag, reg, printed>>

\* system("./system_call") of thread2.c: the child prints and ends.
RunCommand(t) ==
  /\ At(t, "command")
  /\ done' = [done EXCEPT ![t] = @ + 1]
  /\ threadPc' = [threadPc EXCEPT ![t] = "unlock"]
  /\ UNCHANGED <<program, mainPc, lockFlag, value, reg, printed>>

\* Mutant: the flag is left set
KeepLock(t) ==
  /\ At(t, "unlock")
  /\ threadPc' = [threadPc EXCEPT ![t] = LoopTest(done[t])]
  /\ UNCHANGED <<program, mainPc, lockFlag, value, reg, done, printed>>

Unlock(t) ==
  /\ At(t, "unlock") /\ lockFlag' = 0
  /\ threadPc' = [threadPc EXCEPT ![t] = LoopTest(done[t])]
  /\ UNCHANGED <<program, mainPc, value, reg, done, printed>>

ThreadStep(t) == Lock(t) \/ Load(t) \/ Store(t) \/ RunCommand(t) \/ Unlock(t)
-----------------------------------------------------------------------------

ThreadsNext == LaunchThreads \/ MainStep \/ \E t \in Threads : ThreadStep(t)

\* The scheduler runs every runnable thread; a spin lock promises nothing more,
\* so its thread is only sure to see the flag clear once the other has finished.
ThreadsFair ==
  /\ WF_threadsVars(MainStep)
  /\ \A t \in Threads : WF_threadsVars(ThreadStep(t))

ThreadsSpec == ThreadsInit /\ [][ThreadsNext]_threadsVars
-----------------------------------------------------------------------------

ThreadsTypeOK ==
  /\ program \in {"none", "spinlock", "thread0", "thread1", "thread2"}
  /\ mainPc \in {"none", "create1", "create2", "join1", "join2", "print", "ended", "crashed"}
  /\ threadPc \in [Threads -> {"absent", "lock", "load", "store", "command", "unlock", "exited"}]
  /\ lockFlag \in {0, 1} /\ value \in Int /\ printed \in Int
  /\ reg \in [Threads -> Int] /\ done \in [Threads -> 0 .. Rounds]

Inside(t) == threadPc[t] \in {"load", "store", "command", "unlock"}

\* Where there is a lock, the two threads are never between its lock and its
\* unlock together (spinlock.c 41-43, thread1.c, thread2.c).
MutualExclusion == Locked => ~(Inside(1) /\ Inside(2))

Sum(a, b) == Adds(1) * a + Adds(2) * b

\* Where there is a lock, main prints after the last round of every thread that
\* was created, and no round is lost: 2 * Rounds for spinlock.c, 0 for thread1.c.
NoLostUpdate ==
  (mainPc = "ended" /\ program \in {"spinlock", "thread1"})
    => LET Rest(t) == IF threadPc[t] = "absent" THEN 0 ELSE Rounds
       IN  printed = Sum(Rest(1), Rest(2))

\* thread0.c loses updates, and a lost update may undo many rounds of the other
\* thread, yet the value never leaves the band of what has been added so far and
\* what has been subtracted so far.
ValueInBand == program = "thread0" => value \in -done[2] .. done[1]

\* Every launched program comes to its end.
ThreadsEnd == mainPc # "none" ~> mainPc \in {"ended", "crashed"}
=============================================================================
