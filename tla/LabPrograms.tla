------------------------------ MODULE LabPrograms ------------------------------
(***************************************************************************)
(* The small programs of Labs 1 to 3, each run on its own: the thread      *)
(* programs, the pipe program, the signal program and the system call      *)
(* module.  The first step of one keeps the others from starting.          *)
(***************************************************************************)
EXTENDS Threads, PipeDemo, SignalDemo, SyscallHook

LabInit == ThreadsInit /\ PipeInit /\ SignalInit /\ HookInit

ThreadsIdle == mainPc = "none" /\ UNCHANGED threadsVars
PipeIdle == parentPc = "none" /\ UNCHANGED pipeVars
SignalsIdle == sigPc["parent"] = "none" /\ UNCHANGED signalVars
HookIdle == loads = 0 /\ UNCHANGED hookVars

LabNext ==
  \/ PipeIdle /\ SignalsIdle /\ HookIdle /\ ThreadsNext
  \/ ThreadsIdle /\ SignalsIdle /\ HookIdle /\ PipeNext
  \/ ThreadsIdle /\ PipeIdle /\ HookIdle /\ SignalNext
  \/ ThreadsIdle /\ PipeIdle /\ SignalsIdle /\ HookNext

LabSpec ==
  /\ LabInit /\ [][LabNext]_<<threadsVars, pipeVars, signalVars, hookVars>>
  /\ ThreadsFair /\ PipeFair /\ SignalFair

\* The types of all four programs.
TypeOK == ThreadsTypeOK /\ PipeTypeOK /\ SignalTypeOK /\ HookTypeOK
=============================================================================
