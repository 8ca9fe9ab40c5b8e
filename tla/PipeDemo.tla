-------------------------------- MODULE PipeDemo --------------------------------
(***************************************************************************)
(* pipe.c of Lab 2: two children write single bytes into one pipe, each    *)
(* under a record lock on the pipe's writing end; the parent waits for     *)
(* both and reads what they wrote.                                         *)
(*                                                                         *)
(* The parent's lockf calls are on the reading end, where a writing lock   *)
(* is refused: they change nothing and their results are ignored.  fork is *)
(* repeated until it succeeds.                                             *)
(***************************************************************************)
EXTENDS Integers, Sequences

CONSTANTS
  Bytes,      \* BOUND: bytes each child writes, 2000 in the code
  Capacity    \* what the pipe holds unread, 65536 on Linux

\* The children's bytes fit: the parent reads only after both have ended, so a
\* smaller pipe would block a writer for ever.
ASSUME BytesAssumption == Bytes \in Nat \ {0} /\ Capacity \in Nat /\ Capacity >= 2 * Bytes

VARIABLES
  parentPc,   \* where the parent is
  writerPc,   \* where each child is
  written,    \* i: bytes a child has written
  pipeLock,   \* the child that holds the lock, 0 for none
  pipe,       \* who wrote each unread byte
  inPipe      \* InPipe, the bytes the parent has read

pipeVars == <<parentPc, writerPc, written, pipeLock, pipe, inPipe>>

Writers == {1, 2}
ForkAt == <<"fork1", "fork2">>
Smaller(a, b) == IF a <= b THEN a ELSE b

PipeInit ==
  /\ parentPc = "none" /\ pipeLock = 0
  /\ writerPc = [w \in Writers |-> "unborn"] /\ written = [w \in Writers |-> 0]
  /\ pipe = <<>> /\ inPipe = <<>>

LaunchPipe ==
  /\ parentPc = "none" /\ parentPc' = "fork1"
  /\ UNCHANGED <<writerPc, written, pipeLock, pipe, inPipe>>

Fork(w) ==
  /\ parentPc = ForkAt[w] /\ parentPc' = IF w = 1 THEN "fork2" ELSE "wait1"
  /\ writerPc' = [writerPc EXCEPT ![w] = "lock"]
  /\ UNCHANGED <<written, pipeLock, pipe, inPipe>>

\* Mutant: the parent waits once
OneWait(w) ==
  /\ parentPc = "wait1" /\ writerPc[w] = "ended" /\ parentPc' = "read"
  /\ writerPc' = [writerPc EXCEPT ![w] = "reaped"]
  /\ UNCHANGED <<written, pipeLock, pipe, inPipe>>

\* wait(0) takes whichever child has ended.
Wait(w) ==
  /\ parentPc \in {"wait1", "wait2"} /\ writerPc[w] = "ended"
  /\ parentPc' = IF parentPc = "wait1" THEN "wait2" ELSE "read"
  /\ writerPc' = [writerPc EXCEPT ![w] = "reaped"]
  /\ UNCHANGED <<written, pipeLock, pipe, inPipe>>

\* read returns what there is, and blocks on an empty pipe.
ReadPipe ==
  /\ parentPc = "read" /\ parentPc' = "ended" /\ pipe # <<>>
  /\ LET n == Smaller(2 * Bytes, Len(pipe))
     IN  inPipe' = SubSeq(pipe, 1, n) /\ pipe' = SubSeq(pipe, n + 1, Len(pipe))
  /\ UNCHANGED <<writerPc, written, pipeLock>>

ParentStep == ReadPipe \/ \E w \in Writers : Fork(w) \/ Wait(w)
-----------------------------------------------------------------------------

\* Mutant: the child does not wait for the lock
NoLock(w) ==
  /\ writerPc[w] = "lock" /\ pipeLock' = w
  /\ writerPc' = [writerPc EXCEPT ![w] = "write"]
  /\ UNCHANGED <<parentPc, written, pipe, inPipe>>

LockPipe(w) ==
  /\ writerPc[w] = "lock" /\ pipeLock = 0 /\ pipeLock' = w
  /\ writerPc' = [writerPc EXCEPT ![w] = "write"]
  /\ UNCHANGED <<parentPc, written, pipe, inPipe>>

WriteByte(w) ==
  /\ writerPc[w] = "write" /\ Len(pipe) < Capacity
  /\ pipe' = Append(pipe, w) /\ written' = [written EXCEPT ![w] = @ + 1]
  /\ writerPc' = [writerPc EXCEPT ![w] = IF written[w] + 1 = Bytes THEN "sleep" ELSE "write"]
  /\ UNCHANGED <<parentPc, pipeLock, inPipe>>

\* Mutant: the child waits until the parent has read
WaitsForReader(w) ==
  /\ writerPc[w] = "sleep" /\ parentPc = "ended" /\ pipeLock' = 0
  /\ writerPc' = [writerPc EXCEPT ![w] = "exit"]
  /\ UNCHANGED <<parentPc, written, pipe, inPipe>>

\* The five seconds are over.
UnlockPipe(w) ==
  /\ writerPc[w] = "sleep" /\ pipeLock' = 0
  /\ writerPc' = [writerPc EXCEPT ![w] = "exit"]
  /\ UNCHANGED <<parentPc, written, pipe, inPipe>>

\* exit gives back a lock its process still holds.
Exit(w) ==
  /\ writerPc[w] = "exit" /\ pipeLock' = IF pipeLock = w THEN 0 ELSE pipeLock
  /\ writerPc' = [writerPc EXCEPT ![w] = "ended"]
  /\ UNCHANGED <<parentPc, written, pipe, inPipe>>

WriterStep(w) == LockPipe(w) \/ WriteByte(w) \/ UnlockPipe(w) \/ Exit(w)
-----------------------------------------------------------------------------

PipeNext == LaunchPipe \/ ParentStep \/ \E w \in Writers : WriterStep(w)

\* The kernel runs every runnable process.
PipeFair == WF_pipeVars(ParentStep) /\ \A w \in Writers : WF_pipeVars(WriterStep(w))

PipeSpec == PipeInit /\ [][PipeNext]_pipeVars
-----------------------------------------------------------------------------

PipeTypeOK ==
  /\ parentPc \in {"none", "fork1", "fork2", "wait1", "wait2", "read", "ended"}
  /\ writerPc \in [Writers -> {"unborn", "lock", "write", "sleep", "exit", "ended", "reaped"}]
  /\ written \in [Writers -> 0 .. Bytes] /\ pipeLock \in {0, 1, 2}
  /\ pipe \in Seq(Writers) /\ inPipe \in Seq(Writers)

\* One child's bytes, then the other's: the bytes of the two never interleave.
InTwoRuns(s) ==
  \E w \in Writers : \A i \in 1 .. Len(s) : s[i] = IF i <= written[w] THEN w ELSE 3 - w

\* The lock keeps each child's bytes together, whichever child comes first.
WritersApart == InTwoRuns(pipe) /\ InTwoRuns(inPipe)

\* The one read() after the two wait() gets everything both children wrote.
EverythingRead ==
  parentPc = "ended" =>
    /\ Len(inPipe) = 2 * Bytes /\ pipe = <<>>
    /\ \A w \in Writers : written[w] = Bytes

\* Parent and children come to an end: nobody waits for ever for the lock, for
\* room in the pipe or for a child.
PipeEnds == parentPc = "fork1" ~> parentPc = "ended"
=============================================================================
