--------------------------- MODULE LabProgramsProofs ---------------------------
(***************************************************************************)
(* The lab programs, for every value of their bounds.  Each program has an *)
(* inductive invariant of its own, proved of its own specification; a run  *)
(* of the lab is a run of each of them (LabRunsPrograms), so what is       *)
(* proved of a program holds in the lab.                                   *)
(***************************************************************************)
EXTENDS LabPrograms, TLAPS

-----------------------------------------------------------------------------
(* The threads: what the lock of spinlock.c, thread1.c and thread2.c gives, and what *)
(* thread0.c keeps without one, for any number of rounds.                            *)

\* How far a thread is in its rounds, and which steps its program has.
Progress ==
  \A t \in Threads :
    /\ threadPc[t] = "absent" => done[t] = 0
    /\ threadPc[t] \in {"lock", "load", "store", "command"} => done[t] < Limit
    /\ threadPc[t] = "unlock" => done[t] <= Limit
    /\ threadPc[t] = "exited" => done[t] = Limit
    /\ threadPc[t] \in {"lock", "command", "unlock"} => Locked
    /\ threadPc[t] = "command" => ~Counts
    /\ threadPc[t] \in {"load", "store"} => Counts

\* What main knows of the threads.
MainKnows ==
  /\ mainPc = "none" => value = 0 /\ lockFlag = 0 /\ program = "none"
  /\ mainPc \in {"none", "create1"} => threadPc[1] = "absent"
  /\ mainPc \in {"none", "create1", "create2"} => threadPc[2] = "absent"
  /\ mainPc \in {"join2", "print", "ended"} => threadPc[1] \in {"absent", "exited"}
  /\ mainPc \in {"print", "ended"} => threadPc[2] \in {"absent", "exited"}
  /\ mainPc = "ended" => printed = value

\* Under a lock, the lock is taken just when a thread is inside, the value is the
\* sum of the completed rounds, and what the thread inside has loaded is the value.
LockedValue ==
  Locked =>
    /\ MutualExclusion
    /\ lockFlag = 1 <=> Inside(1) \/ Inside(2)
    /\ Counts => value = Sum(done[1], done[2])
    /\ \A t \in Threads : threadPc[t] = "store" => reg[t] = value

\* Without a lock, a loaded value is in the band of the rounds completed since.
BandInv ==
  program = "thread0" => /\ value \in -done[2] .. done[1]
                         /\ \A t \in Threads : threadPc[t] = "store" => reg[t] \in -done[2] .. done[1]

ThreadsInv == ThreadsTypeOK /\ Progress /\ MainKnows /\ LockedValue /\ BandInv

LEMMA ThreadsInvHolds == ThreadsSpec => []ThreadsInv
<1> USE RoundsAssumption DEF Threads
<1>1. ThreadsInit => ThreadsInv
  <2> SUFFICES ASSUME ThreadsInit PROVE ThreadsInv
    OBVIOUS
  <2>1. ThreadsTypeOK /\ Progress /\ MainKnows /\ BandInv
    BY DEF ThreadsInit, ThreadsTypeOK, Progress, MainKnows, BandInv
  <2>2. LockedValue
    BY DEF ThreadsInit, LockedValue, MutualExclusion, Inside, Sum, Adds, Locked
  <2> QED
    BY <2>1, <2>2 DEF ThreadsInv
<1>2. ThreadsInv /\ [ThreadsNext]_threadsVars => ThreadsInv'
  <2> SUFFICES ASSUME ThreadsInv, [ThreadsNext]_threadsVars PROVE ThreadsInv'
    OBVIOUS
  <2> USE DEF ThreadsInv, ThreadsTypeOK, Progress, MainKnows, LockedValue, BandInv,
          MutualExclusion, Inside, Sum, Adds, Counts, Locked, Limit, LoopTest
  <2>1. CASE UNCHANGED threadsVars
    BY <2>1 DEF threadsVars
  <2>2. CASE LaunchThreads
    <3> USE <2>2 DEF LaunchThreads
    <3>1. /\ threadPc[1] = "absent" /\ threadPc[2] = "absent"
          /\ done[1] = 0 /\ done[2] = 0 /\ value = 0 /\ lockFlag = 0
      OBVIOUS
    <3>2. ThreadsTypeOK'
      OBVIOUS
    <3>3. Progress'
      BY <3>1
    <3>4. MainKnows'
      BY <3>1
    <3>5. BandInv'
      BY <3>1
    <3>6. LockedValue'
      BY <3>1
    <3> QED
      BY <3>2, <3>3, <3>4, <3>5, <3>6
  <2>3. CASE PrintValue
    BY <2>3 DEF PrintValue
  <2>4. ASSUME NEW t \in Threads, Create(t) PROVE ThreadsInv'
    BY <2>4 DEF Create, CreateAt, After
  <2>5. ASSUME NEW t \in Threads, Join(t) PROVE ThreadsInv'
    BY <2>5 DEF Join, JoinAt, After
  <2>6. ASSUME NEW t \in Threads, JoinAbsent(t) PROVE ThreadsInv'
    BY <2>6 DEF JoinAbsent, JoinAt, After
  <2>7. ASSUME NEW t \in Threads, Lock(t) PROVE ThreadsInv'
    BY <2>7 DEF Lock, At, Running
  <2>8. ASSUME NEW t \in Threads, Load(t) PROVE ThreadsInv'
    BY <2>8 DEF Load, At, Running
  <2>9. ASSUME NEW t \in Threads, Store(t) PROVE ThreadsInv'
    <3> USE <2>9 DEF Store, At, Running
    <3>1. (ThreadsTypeOK /\ Progress)'
      OBVIOUS
    <3>2. (MainKnows /\ BandInv)'
      OBVIOUS
    <3>3. LockedValue'
      <4>1. CASE t = 1
        BY <4>1
      <4>2. CASE t = 2
        BY <4>2
      <4> QED
        BY <4>1, <4>2
    <3> QED
      BY <3>1, <3>2, <3>3
  <2>10. ASSUME NEW t \in Threads, RunCommand(t) PROVE ThreadsInv'
    BY <2>10 DEF RunCommand, At, Running
  <2>11. ASSUME NEW t \in Threads, Unlock(t) PROVE ThreadsInv'
    BY <2>11 DEF Unlock, At, Running
  <2> QED
    BY <2>1, <2>2, <2>3, <2>4, <2>5, <2>6, <2>7, <2>8, <2>9, <2>10, <2>11
    DEF ThreadsNext, MainStep, ThreadStep
<1> QED
  BY <1>1, <1>2, PTL DEF ThreadsSpec

\* The two threads are never in the locked section together, whichever of the
\* locked programs runs and however many rounds it makes.
THEOREM Exclusion == ThreadsSpec => []MutualExclusion
<1>1. ThreadsInv => MutualExclusion
  BY DEF ThreadsInv, LockedValue, MutualExclusion
<1> QED
  BY <1>1, ThreadsInvHolds, PTL

\* spinlock.c and thread1.c print the sum of all rounds of the threads they created.
THEOREM NothingLost == ThreadsSpec => []NoLostUpdate
<1>1. ThreadsInv => NoLostUpdate
  BY RoundsAssumption DEF ThreadsInv, ThreadsTypeOK, Progress, MainKnows, LockedValue,
     NoLostUpdate, Sum, Adds, Limit, Counts, Locked, Threads
<1> QED
  BY <1>1, ThreadsInvHolds, PTL

\* The race of thread0.c never takes the value out of its band.
THEOREM Band == ThreadsSpec => []ValueInBand
<1>1. ThreadsInv => ValueInBand
  BY DEF ThreadsInv, BandInv, ValueInBand
<1> QED
  BY <1>1, ThreadsInvHolds, PTL
-----------------------------------------------------------------------------
(* The pipe, for any number of bytes. *)

\* A child writes between its lock and its unlock, and has written everything
\* once it sleeps.
Wrote ==
  \A w \in Writers :
    /\ writerPc[w] \in {"unborn", "lock"} => written[w] = 0
    /\ writerPc[w] \in {"write", "sleep"} <=> pipeLock = w
    /\ writerPc[w] = "write" => written[w] < Bytes
    /\ writerPc[w] \in {"sleep", "exit", "ended", "reaped"} => written[w] = Bytes

\* The parent reads after both children have ended.
ParentOrder ==
  /\ parentPc \in {"none", "fork1"} => writerPc[1] = "unborn"
  /\ parentPc \in {"none", "fork1", "fork2"} => writerPc[2] = "unborn"
  /\ parentPc \notin {"none", "fork1"} => writerPc[1] # "unborn"
  /\ parentPc \notin {"none", "fork1", "fork2"} => writerPc[2] # "unborn"
  /\ parentPc \in {"none", "fork1", "fork2", "wait1"} => \A w \in Writers : writerPc[w] # "reaped"
  /\ parentPc = "wait2" => (writerPc[1] = "reaped" <=> writerPc[2] # "reaped")
  /\ parentPc \in {"read", "ended"} => \A w \in Writers : writerPc[w] = "reaped"

\* Until the read the pipe holds all that was written: all of one child's bytes
\* before any of the other's.
Contents ==
  /\ parentPc # "ended" =>
       /\ inPipe = <<>> /\ Len(pipe) = written[1] + written[2]
       /\ \E w \in Writers :
            /\ \A i \in 1 .. Len(pipe) : pipe[i] = IF i <= written[w] THEN w ELSE 3 - w
            /\ written[3 - w] > 0 => written[w] = Bytes
  /\ parentPc = "ended" => pipe = <<>> /\ Len(inPipe) = 2 * Bytes /\ InTwoRuns(inPipe)

PipeInv == PipeTypeOK /\ Wrote /\ ParentOrder /\ Contents

LEMMA PipeInvHolds == PipeSpec => []PipeInv
<1> USE BytesAssumption DEF Writers
<1>1. PipeInit => PipeInv
  BY DEF PipeInit, PipeInv, PipeTypeOK, Wrote, ParentOrder, Contents
<1>2. PipeInv /\ [PipeNext]_pipeVars => PipeInv'
  <2> SUFFICES ASSUME PipeInv, [PipeNext]_pipeVars PROVE PipeInv'
    OBVIOUS
  <2> USE DEF PipeInv, PipeTypeOK, Wrote, ParentOrder, Contents
  <2>1. CASE UNCHANGED pipeVars
    BY <2>1 DEF pipeVars, InTwoRuns
  <2>2. CASE LaunchPipe
    BY <2>2 DEF LaunchPipe
  <2>3. ASSUME NEW w \in Writers, Fork(w) PROVE PipeInv'
    <3> USE <2>3 DEF Fork, ForkAt
    <3>1. PipeTypeOK'
      OBVIOUS
    <3>2. (Wrote /\ ParentOrder)'
      <4>1. CASE w = 1
        BY <4>1
      <4>2. CASE w = 2
        BY <4>2
      <4> QED
        BY <4>1, <4>2
    <3>3. Contents'
      <4>1. parentPc # "ended" /\ parentPc' # "ended"
        OBVIOUS
      <4> QED
        BY <4>1
    <3> QED
      BY <3>1, <3>2, <3>3
  <2>4. ASSUME NEW w \in Writers, Wait(w) PROVE PipeInv'
    <3> USE <2>4 DEF Wait
    <3>1. (PipeTypeOK /\ Wrote /\ Contents)'
      OBVIOUS
    <3>2. CASE parentPc = "wait1"
      <4>1. ParentOrder'
        BY <3>2
      <4> QED
        BY <3>1, <4>1
    <3>3. CASE parentPc = "wait2"
      <4>1. ParentOrder'
        BY <3>3
      <4> QED
        BY <3>1, <4>1
    <3> QED
      BY <3>2, <3>3
  <2>5. CASE ReadPipe
    <3> USE <2>5 DEF ReadPipe
    <3>1. Len(pipe) = 2 * Bytes /\ written[1] = Bytes /\ written[2] = Bytes
      OBVIOUS
    <3>2. inPipe' = pipe /\ pipe' = <<>>
      BY <3>1 DEF Smaller
    <3>3. InTwoRuns(inPipe)'
      BY <3>1, <3>2 DEF InTwoRuns
    <3> QED
      BY <3>1, <3>2, <3>3
  <2>6. ASSUME NEW w \in Writers, LockPipe(w) PROVE PipeInv'
    BY <2>6 DEF LockPipe
  <2>7. ASSUME NEW w \in Writers, WriteByte(w) PROVE PipeInv'
    <3> USE <2>7 DEF WriteByte
    <3> HIDE DEF Contents
    <3>1. /\ written[w] + 1 \in 0 .. Bytes /\ pipeLock = w /\ parentPc # "ended"
          /\ \A v \in Writers : v # w => writerPc[v] \notin {"write", "sleep"}
      OBVIOUS
    <3>2. PipeTypeOK'
      BY <3>1
    <3>3. Wrote'
      BY <3>1
    <3>4. ParentOrder'
      <4>1. CASE w = 1
        BY <4>1
      <4>2. CASE w = 2
        BY <4>2
      <4> QED
        BY <4>1, <4>2
    <3>5. PICK f \in Writers :
            /\ \A i \in 1 .. Len(pipe) : pipe[i] = IF i <= written[f] THEN f ELSE 3 - f
            /\ written[3 - f] > 0 => written[f] = Bytes
      BY <3>1 DEF Contents
    <3>6. /\ Len(pipe) = written[1] + written[2] /\ inPipe = <<>>
          /\ Len(pipe') = Len(pipe) + 1 /\ pipe'[Len(pipe) + 1] = w
          /\ \A i \in 1 .. Len(pipe) : pipe'[i] = pipe[i]
      BY <3>1 DEF Contents
    <3>7. /\ written'[w] = written[w] + 1 /\ written'[3 - w] = written[3 - w]
          /\ Len(pipe') = written'[1] + written'[2] /\ inPipe' = <<>> /\ parentPc' # "ended"
      BY <3>1, <3>6
    <3>8. \E u \in Writers :
            /\ \A i \in 1 .. Len(pipe') : pipe'[i] = IF i <= written'[u] THEN u ELSE 3 - u
            /\ written'[3 - u] > 0 => written'[u] = Bytes
      <4> HIDE DEF Wrote, ParentOrder
      <4>1. CASE w = f
        <5>1. written[3 - f] = 0 /\ Len(pipe) = written[f]
          BY <3>1, <3>5, <3>6, <4>1
        <5> QED
          BY SMTT(30), <3>1, <3>5, <3>6, <3>7, <4>1, <5>1
      <4>2. CASE w # f /\ written[f] = Bytes
        <5>1. w = 3 - f /\ written'[f] = Bytes /\ written[f] = Bytes
          BY <3>7, <4>2
        <5>2. Bytes < Len(pipe')
          BY <3>6, <5>1
        <5>3. ASSUME NEW i \in 1 .. Len(pipe')
              PROVE  pipe'[i] = IF i <= written'[f] THEN f ELSE 3 - f
          <6>1. CASE i = Len(pipe) + 1
            BY <3>6, <5>1, <5>2, <6>1
          <6>2. CASE i \in 1 .. Len(pipe)
            BY <3>5, <3>6, <5>1, <6>2
          <6> QED
            BY <3>6, <6>1, <6>2
        <5> QED
          BY <5>1, <5>3
      <4>3. CASE w # f /\ written[f] # Bytes
        <5>1. w = 3 - f /\ written[w] = 0
          BY <3>5, <4>3
        <5>2. written[f] = 0
          BY <3>1, <4>3 DEF Wrote
        <5>3. Len(pipe') = 1 /\ pipe'[1] = w /\ written'[w] = 1 /\ written'[3 - w] = 0
          BY <3>6, <3>7, <5>1, <5>2
        <5>4. \A i \in 1 .. Len(pipe') : pipe'[i] = IF i <= written'[w] THEN w ELSE 3 - w
          BY <5>3
        <5> QED
          BY <5>3, <5>4
      <4> QED
        BY <4>1, <4>2, <4>3
    <3>9. Contents'
      BY <3>7, <3>8 DEF Contents
    <3> QED
      BY <3>2, <3>3, <3>4, <3>9
  <2>8. ASSUME NEW w \in Writers, UnlockPipe(w) PROVE PipeInv'
    BY <2>8 DEF UnlockPipe
  <2>9. ASSUME NEW w \in Writers, Exit(w) PROVE PipeInv'
    BY <2>9 DEF Exit
  <2> QED
    BY <2>1, <2>2, <2>3, <2>4, <2>5, <2>6, <2>7, <2>8, <2>9 DEF PipeNext, ParentStep, WriterStep
<1> QED
  BY <1>1, <1>2, PTL DEF PipeSpec

\* However many bytes they write, the two children's bytes never interleave.
THEOREM Apart == PipeSpec => []WritersApart
<1>1. PipeInv => WritersApart
  BY DEF PipeInv, PipeTypeOK, Contents, WritersApart, InTwoRuns
<1> QED
  BY <1>1, PipeInvHolds, PTL

\* The parent ends with every byte of both children read.
THEOREM AllRead == PipeSpec => []EverythingRead
<1>1. PipeInv => EverythingRead
  BY DEF PipeInv, PipeTypeOK, Wrote, ParentOrder, Contents, EverythingRead
<1> QED
  BY <1>1, PipeInvHolds, PTL
-----------------------------------------------------------------------------
(* The signals, for any number of keys: who can wake a child, and why the parent *)
(* leaves none behind.                                                           *)

Installed == {"fork1", "fork2", "alarm", "test", "pause", "paused",
              "kill1", "kill2", "wait1", "wait2", "returned"}

\* The parent handles a key from the signal() call for it on, and forks and sets
\* its alarm only after all three: past them nothing ends it.
ParentHandles ==
  /\ sigPc["parent"] \in {"none", "signal", "terminated"} \cup Installed
  /\ sigPc["parent"] = "none" => installs["parent"] = 1
  /\ sigPc["parent"] = "signal" =>
       /\ installs["parent"] \in 1 .. 3
       /\ installs["parent"] > 1 => Handles("parent", "QUIT")
       /\ installs["parent"] > 2 => Handles("parent", "INT")
  /\ sigPc["parent"] \in Installed =>
       Handles("parent", "QUIT") /\ Handles("parent", "INT") /\ Handles("parent", "ALRM")
  /\ alarm = "set" => sigPc["parent"] \in Installed

\* A child that can be in pause() ignores the keys.
ChildIgnores ==
  \A c \in Children :
    /\ sigPc[c] \in {"none", "signal", "pause", "paused", "print"} \cup Ended
    /\ sigPc[c] = "none" => installs[c] = 1
    /\ sigPc[c] = "signal" =>
         /\ installs[c] \in 1 .. 4
         /\ installs[c] > 2 => disposition[c]["QUIT"] = "ignore"
         /\ installs[c] > 3 => disposition[c]["INT"] = "ignore"
    /\ sigPc[c] \in {"pause", "paused"} =>
         disposition[c]["QUIT"] = "ignore" /\ disposition[c]["INT"] = "ignore"

\* The children there are at each step of the parent
Family ==
  /\ sigPc["parent"] \in {"none", "signal", "fork1", "terminated"} => sigPc["child1"] = "none"
  /\ sigPc["parent"] \in {"none", "signal", "fork1", "fork2", "terminated"}
       => sigPc["child2"] = "none"
  /\ sigPc["parent"] = "wait2" => \E c \in Children : sigPc[c] = "reaped"
  /\ sigPc["parent"] = "returned" => \A c \in Children : sigPc[c] = "reaped"

SignalInv == SignalTypeOK /\ ParentHandles /\ ChildIgnores /\ Family /\ ByParentOnly

\* The calls of signal(), in order.
LEMMA CallsOf ==
  /\ Len(Calls("parent")) = 3
  /\ Calls("parent")[1][1] = "QUIT" /\ Calls("parent")[1][2] = "handler"
  /\ Calls("parent")[2][1] = "INT" /\ Calls("parent")[2][2] = "handler"
  /\ Calls("parent")[3][1] = "ALRM" /\ Calls("parent")[3][2] = "handler"
  /\ \A c \in Children :
       /\ Len(Calls(c)) = 4
       /\ Calls(c)[1][1] \in {"STKFLT", "CHLD"} /\ Calls(c)[1][2] = "handler"
       /\ Calls(c)[2][1] = "QUIT" /\ Calls(c)[2][2] = "ignore"
       /\ Calls(c)[3][1] = "INT" /\ Calls(c)[3][2] = "ignore"
       /\ Calls(c)[4][1] = "ALRM" /\ Calls(c)[4][2] = "ignore"
<1>1. /\ Len(Calls("parent")) = 3
      /\ Calls("parent")[1] = <<"QUIT", "handler">>
      /\ Calls("parent")[2] = <<"INT", "handler">>
      /\ Calls("parent")[3] = <<"ALRM", "handler">>
  BY DEF Calls
<1>2. ASSUME NEW c \in Children
      PROVE  /\ Len(Calls(c)) = 4
             /\ Calls(c)[1] \in {<<"STKFLT", "handler">>, <<"CHLD", "handler">>}
             /\ Calls(c)[2] = <<"QUIT", "ignore">>
             /\ Calls(c)[3] = <<"INT", "ignore">>
             /\ Calls(c)[4] = <<"ALRM", "ignore">>
  <2>1. CASE c = "child1"
    BY <2>1 DEF Calls
  <2>2. CASE c = "child2"
    BY <2>2 DEF Calls
  <2> QED
    BY <2>1, <2>2 DEF Children
<1> QED
  BY <1>1, <1>2

\* What a signal does to a process, as one of four outcomes.
LEMMA HitOutcome ==
  ASSUME NEW p \in Procs, NEW s \in Signals
  PROVE  \/ Hit(p, s) = sigPc[p]
         \/ Alive(p) /\ disposition[p][s] = "default" /\ Hit(p, s) = "terminated"
         \/ /\ sigPc[p] = "paused" /\ Handles(p, s)
            /\ Hit(p, s) = IF p = "parent" THEN "test" ELSE "print"
<1>1. CASE Alive(p) /\ Ends(p, s)
  BY <1>1 DEF Hit, Ends
<1>2. CASE ~(Alive(p) /\ Ends(p, s)) /\ Alive(p) /\ Handles(p, s) /\ sigPc[p] = "paused"
  BY <1>2 DEF Hit, Ends, Handles
<1>3. CASE ~(Alive(p) /\ Ends(p, s)) /\ ~(Alive(p) /\ Handles(p, s) /\ sigPc[p] = "paused")
  BY <1>3 DEF Hit
<1> QED
  BY <1>1, <1>2, <1>3

Dispositions == [Procs -> [Signals -> {"default", "handler", "ignore"}]]

\* What one call of signal() changes.
LEMMA OneCall ==
  ASSUME disposition \in Dispositions, NEW p \in Procs, Signal(p),
         NEW s \in Signals, NEW d \in {"handler", "ignore"},
         Calls(p)[installs[p]][1] = s, Calls(p)[installs[p]][2] = d
  PROVE  /\ disposition' \in Dispositions
         /\ disposition'[p][s] = d
         /\ \A r \in Signals \ {s} : disposition'[p][r] = disposition[p][r]
         /\ \A q \in Procs \ {p} : disposition'[q] = disposition[q]
<1>1. disposition' = [disposition EXCEPT ![p] = [disposition[p] EXCEPT ![s] = d]]
  BY DEF Signal, Dispositions
<1> QED
  BY <1>1 DEF Dispositions

LEMMA SignalInvHolds == SignalSpec => []SignalInv
<1> USE KeysAssumption
<1>1. SignalInit => SignalInv
  BY DEF SignalInit, SignalInv, SignalTypeOK, ParentHandles, ChildIgnores, Family,
         ByParentOnly, Procs, Children, Signals, Ended, Installed
<1>2. SignalInv /\ [SignalNext]_signalVars => SignalInv'
  <2> SUFFICES ASSUME SignalInv, [SignalNext]_signalVars PROVE SignalInv'
    OBVIOUS
  <2> USE DEF SignalInv, Handles
  <2> DEFINE Places == {"none", "signal", "fork1", "fork2", "alarm", "test", "pause", "paused",
                        "kill1", "kill2", "wait1", "wait2", "print"} \cup Ended
  <2>a. "parent" \in Procs /\ Children \subseteq Procs /\ "parent" \notin Children
    BY DEF Procs, Children
  <2>1. CASE UNCHANGED signalVars
    BY <2>1 DEF signalVars, SignalTypeOK, ParentHandles, ChildIgnores, Family, ByParentOnly
  <2>2. CASE LaunchSignals
    <3> USE <2>2 DEF LaunchSignals
    <3>1. SignalTypeOK'
      BY <2>a DEF SignalTypeOK, Ended
    <3>2. ParentHandles'
      BY <2>a DEF SignalTypeOK, ParentHandles, Installed
    <3>3. (ChildIgnores /\ Family /\ ByParentOnly)'
      BY <2>a DEF SignalTypeOK, ChildIgnores, Family, ByParentOnly, Children
    <3> QED
      BY <3>1, <3>2, <3>3
  <2>3. ASSUME NEW s \in {"INT", "QUIT"}, Key(s) PROVE SignalInv'
    <3> USE <2>3 DEF Key
    <3>0. s \in Signals
      BY DEF Signals
    <3>1. \A p \in Procs : \/ sigPc'[p] = sigPc[p]
                          \/ /\ Alive(p) /\ disposition[p][s] = "default"
                             /\ sigPc'[p] = "terminated"
                          \/ /\ sigPc[p] = "paused" /\ disposition[p][s] = "handler"
                             /\ sigPc'[p] = IF p = "parent" THEN "test" ELSE "print"
      BY <3>0, HitOutcome
    <3>2. SignalTypeOK'
      <4>1. sigPc' \in [Procs -> Places]
        <5>1. \A p \in Procs : sigPc'[p] \in Places
          BY <3>1 DEF SignalTypeOK, Ended
        <5> QED
          BY <5>1
      <4>2. flag' \in {0, 1} /\ keys' \in 0 .. MaxKeys
        BY DEF SignalTypeOK, SetsFlag
      <4> QED
        BY <4>1, <4>2 DEF SignalTypeOK
    <3>3. ParentHandles'
      BY <2>a, <3>1 DEF ParentHandles, Installed, Alive, Ended
    <3>4. \A c \in Children :
            \/ sigPc'[c] = sigPc[c]
            \/ /\ sigPc[c] \notin Ended \cup {"none", "pause", "paused"}
               /\ sigPc'[c] = "terminated"
      BY <2>a, <3>1 DEF ChildIgnores, Alive
    <3>5. ChildIgnores'
      BY <3>4 DEF ChildIgnores, Ended
    <3>6. ByParentOnly'
      BY <3>4 DEF ByParentOnly
    <3>7. \/ sigPc'["parent"] \in {sigPc["parent"], "test"}
          \/ sigPc["parent"] = "signal" /\ sigPc'["parent"] = "terminated"
      <4>1. CASE sigPc["parent"] \in Installed
        <5>1. disposition["parent"][s] = "handler"
          BY <4>1 DEF ParentHandles
        <5> QED
          BY <2>a, <3>1, <5>1
      <4>2. CASE sigPc["parent"] \notin Installed
        <5>1. sigPc["parent"] \in {"none", "signal", "terminated"}
          BY <4>2 DEF ParentHandles
        <5> QED
          BY <2>a, <3>1, <5>1 DEF Alive, Ended
      <4> QED
        BY <4>1, <4>2
    <3>8. Family'
      BY <2>a, <3>4, <3>7 DEF Family, Children, Ended
    <3> QED
      BY <3>2, <3>3, <3>5, <3>6, <3>8
  <2>4. CASE AlarmRings
    <3> USE <2>4 DEF AlarmRings
    <3>1. /\ sigPc["parent"] \in Installed
          /\ \/ sigPc' = sigPc
             \/ sigPc["parent"] = "paused" /\ sigPc' = [sigPc EXCEPT !["parent"] = "test"]
      <4>1. "ALRM" \in Signals /\ disposition["parent"]["ALRM"] = "handler"
        BY DEF Signals, ParentHandles
      <4>2. Hit("parent", "ALRM") \in {sigPc["parent"], "test"}
            /\ (Hit("parent", "ALRM") = "test" => sigPc["parent"] \in {"paused", "test"})
        BY <2>a, <4>1, HitOutcome
      <4> QED
        BY <2>a, <4>2 DEF SignalTypeOK, ParentHandles
    <3>2. SignalTypeOK'
      BY <2>a, <3>1 DEF SignalTypeOK, SetsFlag, Ended
    <3>3. ParentHandles'
      BY <2>a, <3>1 DEF SignalTypeOK, ParentHandles, Installed
    <3>4. (ChildIgnores /\ Family /\ ByParentOnly)'
      BY <2>a, <3>1 DEF SignalTypeOK, ChildIgnores, Family, ByParentOnly, Children
    <3> QED
      BY <3>2, <3>3, <3>4
  <2>5. CASE Signal("parent")
    <3> USE <2>5
    <3>0. /\ installs["parent"] \in 1 .. 3 /\ disposition \in Dispositions
          /\ "parent" \in Procs /\ {"QUIT", "INT", "ALRM"} \subseteq Signals
      BY <2>a DEF ParentHandles, SignalTypeOK, Dispositions, Signals, Signal, Goto
    <3>1. /\ disposition' \in Dispositions
          /\ \A q \in Procs \ {"parent"} : disposition'[q] = disposition[q]
          /\ installs["parent"] = 1 => disposition'["parent"]["QUIT"] = "handler"
          /\ installs["parent"] = 2 =>
               /\ disposition'["parent"]["INT"] = "handler"
               /\ disposition'["parent"]["QUIT"] = disposition["parent"]["QUIT"]
          /\ installs["parent"] = 3 =>
               /\ disposition'["parent"]["ALRM"] = "handler"
               /\ disposition'["parent"]["QUIT"] = disposition["parent"]["QUIT"]
               /\ disposition'["parent"]["INT"] = disposition["parent"]["INT"]
      <4>1. CASE installs["parent"] = 1
        BY <3>0, <4>1, CallsOf, OneCall
      <4>2. CASE installs["parent"] = 2
        BY <3>0, <4>2, CallsOf, OneCall
      <4>3. CASE installs["parent"] = 3
        BY <3>0, <4>3, CallsOf, OneCall
      <4> QED
        BY <3>0, <4>1, <4>2, <4>3
    <3>2. SignalTypeOK'
      BY <2>a, <3>0, <3>1 DEF SignalTypeOK, Dispositions, Signal, Goto
    <3>3. ParentHandles'
      <4>1. /\ sigPc["parent"] = "signal" /\ alarm' = alarm
            /\ sigPc'["parent"] = IF installs["parent"] < 3 THEN "signal" ELSE "fork1"
            /\ installs'["parent"] = installs["parent"] + 1
        BY <3>0, CallsOf DEF SignalTypeOK, Signal, Goto
      <4>2. CASE installs["parent"] = 1
        BY <3>1, <4>1, <4>2 DEF ParentHandles, Installed
      <4>3. CASE installs["parent"] = 2
        BY <3>1, <4>1, <4>3 DEF ParentHandles, Installed
      <4>4. CASE installs["parent"] = 3
        BY <3>1, <4>1, <4>4 DEF ParentHandles, Installed
      <4> QED
        BY <3>0, <4>2, <4>3, <4>4
    <3>4. (ChildIgnores /\ Family /\ ByParentOnly)'
      BY <2>a, <3>1, CallsOf DEF SignalTypeOK, ChildIgnores, Family, ByParentOnly, Children, Signal, Goto
    <3> QED
      BY <3>2, <3>3, <3>4
  <2>6. ASSUME NEW c \in Children, Signal(c) PROVE SignalInv'
    <3> USE <2>6
    <3>0. /\ installs[c] \in 1 .. 4 /\ disposition \in Dispositions
          /\ c \in Procs /\ Signals = {"INT", "QUIT", "ALRM", "STKFLT", "CHLD"}
      BY <2>a DEF ChildIgnores, SignalTypeOK, Dispositions, Signals, Signal, Goto
    <3>1. /\ disposition' \in Dispositions
          /\ \A q \in Procs \ {c} : disposition'[q] = disposition[q]
          /\ installs[c] = 2 => disposition'[c]["QUIT"] = "ignore"
          /\ installs[c] = 3 =>
               /\ disposition'[c]["INT"] = "ignore"
               /\ disposition'[c]["QUIT"] = disposition[c]["QUIT"]
          /\ installs[c] = 4 =>
               /\ disposition'[c]["QUIT"] = disposition[c]["QUIT"]
               /\ disposition'[c]["INT"] = disposition[c]["INT"]
      <4>1. CASE installs[c] = 1
        BY <3>0, <4>1, CallsOf, OneCall
      <4>2. CASE installs[c] = 2
        BY <3>0, <4>2, CallsOf, OneCall
      <4>3. CASE installs[c] = 3
        BY <3>0, <4>3, CallsOf, OneCall
      <4>4. CASE installs[c] = 4
        BY <3>0, <4>4, CallsOf, OneCall
      <4> QED
        BY <3>0, <4>1, <4>2, <4>3, <4>4
    <3>2. SignalTypeOK'
      BY <2>a, <3>0, <3>1 DEF SignalTypeOK, Dispositions, Signal, Goto
    <3>3. ParentHandles'
      BY <2>a, <3>0, <3>1, CallsOf DEF SignalTypeOK, ParentHandles, Installed, Signal, Goto
    <3>4. ChildIgnores'
      <4>1. /\ sigPc[c] = "signal" /\ sigPc' = [sigPc EXCEPT ![c] = sigPc'[c]]
            /\ sigPc'[c] = IF installs[c] < 4 THEN "signal" ELSE "pause"
            /\ installs' = [installs EXCEPT ![c] = @ + 1]
        BY <2>a, <3>0, CallsOf DEF SignalTypeOK, Signal, Goto
      <4> QED
        BY <2>a, <3>0, <3>1, <4>1 DEF SignalTypeOK, ChildIgnores
    <3>5. (Family /\ ByParentOnly)'
      BY <2>a, <3>0, <3>1, CallsOf DEF SignalTypeOK, Family, ByParentOnly, Children, Signal, Goto
    <3> QED
      BY <3>2, <3>3, <3>4, <3>5
  <2>7. ASSUME NEW c \in Children, ForkChild(c) PROVE SignalInv'
    <3> USE <2>7 DEF ForkChild
    <3>1. sigPc[c] = "none" /\ sigPc["parent"] \in {"fork1", "fork2"}
          /\ sigPc'["parent"] = IF c = "child1" THEN "fork2" ELSE "alarm"
      BY <2>a DEF Family, Children, SignalTypeOK
    <3>2. SignalTypeOK'
      BY <2>a DEF SignalTypeOK
    <3>3. ParentHandles'
      BY <2>a, <3>1 DEF SignalTypeOK, ParentHandles, Installed
    <3>4. ChildIgnores'
      BY <2>a, <3>1 DEF SignalTypeOK, ChildIgnores
    <3>5. (Family /\ ByParentOnly)'
      BY <2>a, <3>1 DEF SignalTypeOK, Family, ByParentOnly, Children
    <3> QED
      BY <3>2, <3>3, <3>4, <3>5
  <2>8. CASE SetAlarm
    <3> USE <2>8 DEF SetAlarm, Goto
    <3>1. SignalTypeOK'
      BY <2>a DEF SignalTypeOK
    <3>2. ParentHandles'
      BY <2>a DEF SignalTypeOK, ParentHandles, Installed
    <3>3. (ChildIgnores /\ Family /\ ByParentOnly)'
      BY <2>a DEF SignalTypeOK, ChildIgnores, Family, ByParentOnly, Children
    <3> QED
      BY <3>1, <3>2, <3>3
  <2>9. CASE TestFlag
    <3> USE <2>9 DEF TestFlag, Goto
    <3>1. SignalTypeOK'
      BY <2>a DEF SignalTypeOK
    <3>2. ParentHandles'
      BY <2>a DEF SignalTypeOK, ParentHandles, Installed
    <3>3. (ChildIgnores /\ Family /\ ByParentOnly)'
      BY <2>a DEF SignalTypeOK, ChildIgnores, Family, ByParentOnly, Children
    <3> QED
      BY <3>1, <3>2, <3>3
  <2>10. CASE Pause("parent")
    <3> USE <2>10 DEF Pause, Goto
    <3>1. SignalTypeOK'
      BY <2>a DEF SignalTypeOK
    <3>2. ParentHandles'
      BY <2>a DEF SignalTypeOK, ParentHandles, Installed
    <3>3. (ChildIgnores /\ Family /\ ByParentOnly)'
      BY <2>a DEF SignalTypeOK, ChildIgnores, Family, ByParentOnly, Children
    <3> QED
      BY <3>1, <3>2, <3>3
  <2>11. ASSUME NEW c \in Children, Pause(c) PROVE SignalInv'
    <3> USE <2>11 DEF Pause, Goto
    <3>1. SignalTypeOK'
      BY <2>a DEF SignalTypeOK
    <3>2. ParentHandles'
      BY <2>a DEF SignalTypeOK, ParentHandles
    <3>3. ChildIgnores'
      BY <2>a DEF SignalTypeOK, ChildIgnores
    <3>4. (Family /\ ByParentOnly)'
      BY <2>a DEF SignalTypeOK, Family, ByParentOnly, Children
    <3> QED
      BY <3>1, <3>2, <3>3, <3>4
  <2>12. ASSUME NEW c \in Children, Kill(c) PROVE SignalInv'
    <3> DEFINE s == IF c = "child1" THEN "STKFLT" ELSE "CHLD"
    <3>0. /\ sigPc["parent"] = IF c = "child1" THEN "kill1" ELSE "kill2"
          /\ sigPc' = [sigPc EXCEPT !["parent"] = IF c = "child1" THEN "kill2" ELSE "wait1",
                                    ![c] = Hit(c, s)]
          /\ killed' = killed \cup {c}
          /\ UNCHANGED <<installs, disposition, flag, alarm, keys>>
      BY <2>12 DEF Kill
    <3>1. s \in Signals
      BY DEF Signals
    <3>2. \/ Hit(c, s) = sigPc[c]
          \/ sigPc[c] \notin Ended \cup {"none"} /\ Hit(c, s) = "terminated"
          \/ sigPc[c] = "paused" /\ Hit(c, s) = "print"
      BY <2>a, <3>1, HitOutcome DEF Alive
    <3> HIDE DEF s
    <3>3. SignalTypeOK'
      BY <2>a, <3>0, <3>2 DEF SignalTypeOK, Ended
    <3>4. ParentHandles'
      BY <2>a, <3>0 DEF SignalTypeOK, ParentHandles, Installed
    <3>5. ChildIgnores'
      BY <2>a, <3>0, <3>2 DEF SignalTypeOK, ChildIgnores, Ended
    <3>6. Family'
      BY <2>a, <3>0, <3>2 DEF SignalTypeOK, Family, Children
    <3>7. ByParentOnly'
      BY <2>a, <3>0, <3>2 DEF SignalTypeOK, ByParentOnly
    <3> QED
      BY <3>3, <3>4, <3>5, <3>6, <3>7
  <2>13. ASSUME NEW c \in Children, PrintAndReturn(c) PROVE SignalInv'
    <3> USE <2>13 DEF PrintAndReturn, Goto
    <3>1. SignalTypeOK'
      BY <2>a DEF SignalTypeOK, Ended
    <3>2. ParentHandles'
      BY <2>a DEF SignalTypeOK, ParentHandles
    <3>3. ChildIgnores'
      BY <2>a DEF SignalTypeOK, ChildIgnores, Ended
    <3>4. (Family /\ ByParentOnly)'
      BY <2>a DEF SignalTypeOK, Family, ByParentOnly, Children
    <3> QED
      BY <3>1, <3>2, <3>3, <3>4
  <2>14. ASSUME NEW c \in Children, WaitFor(c) PROVE SignalInv'
    <3> USE <2>14 DEF WaitFor
    <3>1. SignalTypeOK'
      BY <2>a DEF SignalTypeOK, Ended
    <3>2. ParentHandles'
      BY <2>a DEF SignalTypeOK, ParentHandles, Installed
    <3>3. ChildIgnores'
      BY <2>a DEF SignalTypeOK, ChildIgnores, Ended
    <3>4. Family'
      BY <2>a DEF SignalTypeOK, Family, Children
    <3>5. ByParentOnly'
      BY <2>a DEF SignalTypeOK, ByParentOnly
    <3> QED
      BY <3>1, <3>2, <3>3, <3>4, <3>5
  <2> QED
    BY <2>1, <2>2, <2>3, <2>4, <2>5, <2>6, <2>7, <2>8, <2>9, <2>10, <2>11, <2>12, <2>13, <2>14
    DEF SignalNext, ParentRuns, ChildRuns
<1> QED
  BY <1>1, <1>2, PTL DEF SignalSpec

\* Only the parent's signal makes a child print that it was killed, however many
\* keys are typed, and when.
THEOREM WokenByParent == SignalSpec => []ByParentOnly
<1>1. SignalInv => ByParentOnly
  BY DEF SignalInv
<1> QED
  BY <1>1, SignalInvHolds, PTL

\* The parent returns, or is ended by a key, with no child left behind.
THEOREM NoneLeft == SignalSpec => []NoOrphans
<1>1. SignalInv => NoOrphans
  BY DEF SignalInv, Family, NoOrphans, Children
<1> QED
  BY <1>1, SignalInvHolds, PTL
-----------------------------------------------------------------------------
(* The system call module, for any number of loads. *)

\* The state between two steps: an unhooked table is the original one, the saved
\* entry is the original from the moment the table is found until the module is
\* out, and pages are writable just from unprotect to protect.
HookInv ==
  /\ HookTypeOK /\ NoFault
  /\ module \in {"out", "in"} <=> hookPc = "done"
  /\ hookPc # "done" \/ module = "in" => symbols = "found"
  /\ hookPc \in {"unprotect", "write", "protect"} => table = "found"
  /\ rodata = "writable" <=> hookPc \in {"write", "protect"}
  /\ table = "missing" => entry = "original"
  /\ table = "found" /\ module # "out" /\ ~(module = "loading" /\ hookPc = "table")
       => saved = "original"
  /\ table = "found" => entry = CASE module = "out" -> "original"
                                  [] module = "in" -> "hello"
                                  [] module = "loading" -> IF hookPc \in {"protect", "return"}
                                                           THEN "hello" ELSE "original"
                                  [] module = "unloading" -> IF hookPc \in {"protect", "return"}
                                                             THEN "original" ELSE "hello"

LEMMA HookInvHolds == HookSpec => []HookInv
<1> USE LoadsAssumption
<1>1. HookInit => HookInv
  BY DEF HookInit, HookInv, HookTypeOK, NoFault
<1>2. HookInv /\ [HookNext]_hookVars => HookInv'
  <2> SUFFICES ASSUME HookInv, [HookNext]_hookVars PROVE HookInv'
    OBVIOUS
  <2> USE DEF HookInv, HookTypeOK, NoFault
  <2>1. CASE UNCHANGED hookVars
    BY <2>1 DEF hookVars
  <2>2. CASE Insmod
    BY <2>2 DEF Insmod
  <2>3. CASE Rmmod
    BY <2>3 DEF Rmmod
  <2>4. CASE FindTable
    BY <2>4 DEF FindTable
  <2>5. CASE UnprotectMemory
    BY <2>5 DEF UnprotectMemory
  <2>6. CASE WriteEntry
    BY <2>6 DEF WriteEntry
  <2>7. CASE ProtectMemory
    BY <2>7 DEF ProtectMemory
  <2>8. CASE Return
    BY <2>8 DEF Return
  <2> QED
    BY <2>1, <2>2, <2>3, <2>4, <2>5, <2>6, <2>7, <2>8 DEF HookNext
<1> QED
  BY <1>1, <1>2, PTL DEF HookSpec

\* However often the module is loaded and unloaded, whatever symbols are missing.
THEOREM HookFollowsModule == HookSpec => []EntryFollowsModule
<1>1. HookInv => EntryFollowsModule
  BY DEF HookInv, HookTypeOK, EntryFollowsModule
<1> QED
  BY <1>1, HookInvHolds, PTL

\* Loading and unloading never write to a read-only page.
THEOREM HookNeverFaults == HookSpec => []NoFault
<1>1. HookInv => NoFault
  BY DEF HookInv
<1> QED
  BY <1>1, HookInvHolds, PTL
-----------------------------------------------------------------------------
(* The lab *)

\* A run of the lab is a run of each program: while one of them goes on, the others
\* keep their state.
LEMMA LabRunsPrograms == LabSpec => ThreadsSpec /\ PipeSpec /\ SignalSpec /\ HookSpec
<1>1. LabInit => ThreadsInit /\ PipeInit /\ SignalInit /\ HookInit
  BY DEF LabInit
<1>2. [LabNext]_<<threadsVars, pipeVars, signalVars, hookVars>>
        => /\ [ThreadsNext]_threadsVars /\ [PipeNext]_pipeVars
           /\ [SignalNext]_signalVars /\ [HookNext]_hookVars
  BY DEF LabNext, ThreadsIdle, PipeIdle, SignalsIdle, HookIdle
<1> QED
  BY <1>1, <1>2, PTL DEF LabSpec, ThreadsSpec, PipeSpec, SignalSpec, HookSpec

\* The types of all four programs, in every run of the lab.
THEOREM LabTypes == LabSpec => []TypeOK
<1>1. ThreadsInv /\ PipeInv /\ SignalInv /\ HookInv => TypeOK
  BY DEF TypeOK, ThreadsInv, PipeInv, SignalInv, HookInv
<1> QED
  BY <1>1, LabRunsPrograms, ThreadsInvHolds, PipeInvHolds, SignalInvHolds, HookInvHolds, PTL

\* Everything the programs promise, in every run of the lab.
THEOREM LabKeepsPromises ==
  LabSpec => [](/\ MutualExclusion /\ NoLostUpdate /\ ValueInBand
                /\ WritersApart /\ EverythingRead
                /\ ByParentOnly /\ NoOrphans
                /\ EntryFollowsModule /\ NoFault)
BY LabRunsPrograms, Exclusion, NothingLost, Band, Apart, AllRead, WokenByParent, NoneLeft,
   HookFollowsModule, HookNeverFaults, PTL
=============================================================================
