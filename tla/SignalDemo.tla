------------------------------- MODULE SignalDemo -------------------------------
(***************************************************************************)
(* sig.c of Lab 2: a parent and two children in the terminal's foreground  *)
(* group.  The parent waits for a key (SIGINT, SIGQUIT) or its alarm, then *)
(* sends 16 to the first child and 17 to the second and waits for both; a  *)
(* child pauses until a signal it handles.                                 *)
(*                                                                         *)
(* External: a signal takes effect when it is generated.  17 is SIGCHLD,   *)
(* whose default action is to be ignored; the default action of the others *)
(* ends the process.  Repeated forks succeed in the end.                   *)
(***************************************************************************)
EXTENDS Naturals, Sequences

CONSTANT MaxKeys    \* BOUND: interrupts typed at the terminal

ASSUME KeysAssumption == MaxKeys \in Nat

VARIABLES
  sigPc,         \* where each process is
  installs,      \* the next of its signal() calls
  disposition,   \* what each process does on each signal
  flag,          \* flag of the parent; the children never read theirs
  alarm,         \* the parent's alarm(5)
  killed,        \* children the parent has signalled
  keys           \* keys typed so far

signalVars == <<sigPc, installs, disposition, flag, alarm, killed, keys>>

Children == {"child1", "child2"}
Procs == {"parent"} \cup Children
Signals == {"INT", "QUIT", "ALRM", "STKFLT", "CHLD"}
Ended == {"returned", "terminated", "reaped"}
Alive(p) == sigPc[p] \notin {"none"} \cup Ended

\* Mutant: the children ignore one key only
ForgetsInt(p) ==
  LET Ignores == <<<<"QUIT", "ignore">>, <<"ALRM", "ignore">>>>
  IN  CASE p = "parent" -> <<<<"QUIT", "handler">>, <<"INT", "handler">>, <<"ALRM", "handler">>>>
        [] p = "child1" -> <<<<"STKFLT", "handler">>>> \o Ignores
        [] p = "child2" -> <<<<"CHLD", "handler">>>> \o Ignores

\* The signal() calls of each process, in order
Calls(p) ==
  LET Ignores == <<<<"QUIT", "ignore">>, <<"INT", "ignore">>, <<"ALRM", "ignore">>>>
  IN  CASE p = "parent" -> <<<<"QUIT", "handler">>, <<"INT", "handler">>, <<"ALRM", "handler">>>>
        [] p = "child1" -> <<<<"STKFLT", "handler">>>> \o Ignores
        [] p = "child2" -> <<<<"CHLD", "handler">>>> \o Ignores

SignalInit ==
  /\ sigPc = [p \in Procs |-> "none"] /\ installs = [p \in Procs |-> 1]
  /\ disposition = [p \in Procs |-> [s \in Signals |-> "default"]]
  /\ flag = 0 /\ alarm = "unset" /\ killed = {} /\ keys = 0

LaunchSignals ==
  /\ sigPc["parent"] = "none" /\ sigPc' = [sigPc EXCEPT !["parent"] = "signal"]
  /\ UNCHANGED <<installs, disposition, flag, alarm, killed, keys>>
-----------------------------------------------------------------------------
(* Delivery *)

Ends(p, s) == disposition[p][s] = "default" /\ s # "CHLD"
Handles(p, s) == disposition[p][s] = "handler"

\* A handler makes pause() return; a signal that comes any earlier does not.
Hit(p, s) ==
  CASE Alive(p) /\ Ends(p, s) -> "terminated"
    [] Alive(p) /\ Handles(p, s) /\ sigPc[p] = "paused" -> IF p = "parent" THEN "test" ELSE "print"
    [] OTHER -> sigPc[p]

\* Mutant: the handler leaves flag alone
KeepsFlag(s) == flag

\* inter_handler in the parent
SetsFlag(s) == IF Handles("parent", s) THEN 1 ELSE flag

\* Ctrl+C or Ctrl+\ reaches every process of the foreground group.
Key(s) ==
  /\ keys < MaxKeys /\ keys' = keys + 1 /\ Alive("parent")
  /\ sigPc' = [p \in Procs |-> Hit(p, s)] /\ flag' = SetsFlag(s)
  /\ UNCHANGED <<installs, disposition, alarm, killed>>

AlarmRings ==
  /\ alarm = "set" /\ alarm' = "rung" /\ Alive("parent")
  /\ sigPc' = [sigPc EXCEPT !["parent"] = Hit("parent", "ALRM")] /\ flag' = SetsFlag("ALRM")
  /\ UNCHANGED <<installs, disposition, killed, keys>>
-----------------------------------------------------------------------------
(* The processes *)

Goto(p, from, to) == sigPc[p] = from /\ sigPc' = [sigPc EXCEPT ![p] = to]

Signal(p) ==
  /\ Goto(p, "signal", IF installs[p] < Len(Calls(p)) THEN "signal"
                       ELSE IF p = "parent" THEN "fork1" ELSE "pause")
  /\ LET call == Calls(p)[installs[p]]
     IN  disposition' = [disposition EXCEPT ![p][call[1]] = call[2]]
  /\ installs' = [installs EXCEPT ![p] = @ + 1]
  /\ UNCHANGED <<flag, alarm, killed, keys>>

\* A child inherits its parent's dispositions.
ForkChild(c) ==
  /\ sigPc["parent"] = IF c = "child1" THEN "fork1" ELSE "fork2"
  /\ sigPc' = [sigPc EXCEPT ![c] = "signal", !["parent"] = IF c = "child1" THEN "fork2" ELSE "alarm"]
  /\ disposition' = [disposition EXCEPT ![c] = disposition["parent"]]
  /\ UNCHANGED <<installs, flag, alarm, killed, keys>>

SetAlarm ==
  /\ Goto("parent", "alarm", "test") /\ alarm' = "set"
  /\ UNCHANGED <<installs, disposition, flag, killed, keys>>

\* The loop of waiting(): the test and the pause are two steps.
TestFlag ==
  /\ Goto("parent", "test", IF flag = 0 THEN "pause" ELSE "kill1")
  /\ UNCHANGED <<installs, disposition, flag, alarm, killed, keys>>

Pause(p) ==
  /\ Goto(p, "pause", "paused")
  /\ UNCHANGED <<installs, disposition, flag, alarm, killed, keys>>

Kill(c) ==
  /\ sigPc["parent"] = IF c = "child1" THEN "kill1" ELSE "kill2"
  /\ sigPc' = [sigPc EXCEPT !["parent"] = IF c = "child1" THEN "kill2" ELSE "wait1",
                            ![c] = Hit(c, IF c = "child1" THEN "STKFLT" ELSE "CHLD")]
  /\ killed' = killed \cup {c}
  /\ UNCHANGED <<installs, disposition, flag, alarm, keys>>

PrintAndReturn(c) ==
  /\ Goto(c, "print", "returned")
  /\ UNCHANGED <<installs, disposition, flag, alarm, killed, keys>>

\* Mutant: the parent waits once
WaitOnce(c) ==
  /\ sigPc["parent"] = "wait1" /\ sigPc[c] \in {"returned", "terminated"}
  /\ sigPc' = [sigPc EXCEPT ![c] = "reaped", !["parent"] = "returned"]
  /\ UNCHANGED <<installs, disposition, flag, alarm, killed, keys>>

WaitFor(c) ==
  /\ sigPc["parent"] \in {"wait1", "wait2"} /\ sigPc[c] \in {"returned", "terminated"}
  /\ sigPc' = [sigPc EXCEPT ![c] = "reaped",
                            !["parent"] = IF @ = "wait1" THEN "wait2" ELSE "returned"]
  /\ UNCHANGED <<installs, disposition, flag, alarm, killed, keys>>

ParentRuns ==
  \/ Signal("parent") \/ SetAlarm \/ TestFlag \/ Pause("parent")
  \/ \E c \in Children : ForkChild(c) \/ Kill(c) \/ WaitFor(c)
ChildRuns(c) == Signal(c) \/ Pause(c) \/ PrintAndReturn(c)
-----------------------------------------------------------------------------

SignalNext ==
  \/ LaunchSignals \/ AlarmRings \/ ParentRuns
  \/ \E s \in {"INT", "QUIT"} : Key(s)
  \/ \E c \in Children : ChildRuns(c)

\* The kernel runs every runnable process and the alarm rings; nobody need type.
SignalFair ==
  /\ WF_signalVars(AlarmRings) /\ WF_signalVars(ParentRuns)
  /\ \A c \in Children : WF_signalVars(ChildRuns(c))

SignalSpec == SignalInit /\ [][SignalNext]_signalVars
SignalFairSpec == SignalSpec /\ SignalFair
-----------------------------------------------------------------------------

SignalTypeOK ==
  /\ sigPc \in [Procs -> {"none", "signal", "fork1", "fork2", "alarm", "test", "pause", "paused",
                          "kill1", "kill2", "wait1", "wait2", "print"} \cup Ended]
  /\ installs \in [Procs -> 1 .. 5]
  /\ disposition \in [Procs -> [Signals -> {"default", "handler", "ignore"}]]
  /\ flag \in {0, 1} /\ alarm \in {"unset", "set", "rung"}
  /\ killed \subseteq Children /\ keys \in 0 .. MaxKeys

\* A child that prints "killed by parent" was: no key, however timed, wakes it,
\* although it inherits the parent's handlers and shares its terminal.
ByParentOnly == \A c \in Children : sigPc[c] \in {"print", "returned"} => c \in killed

\* The parent never leaves a child behind: a key that ends it comes before the
\* first fork, and it returns after it has waited for both.
NoOrphans ==
  sigPc["parent"] \in {"returned", "terminated"}
    => \A c \in Children : sigPc[c] \in {"none", "reaped"}

\* Once all three are in pause() with the alarm set, everybody comes to an end.
PausedFamilyEnds ==
  (alarm = "set" /\ \A p \in Procs : sigPc[p] = "paused") ~> sigPc["parent"] = "returned"

\* What Readme.md of Lab 2 (line 124) says of the two kill calls: each ends its child.
KillEnds == \A c \in Children : c \in killed ~> sigPc[c] \in Ended
=============================================================================
