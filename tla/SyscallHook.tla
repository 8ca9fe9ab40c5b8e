------------------------------- MODULE SyscallHook -------------------------------
(***************************************************************************)
(* The kernel module of modify_syscall.c: loaded, it makes entry 169 of    *)
(* the system call table point to hello; unloaded, it puts back what was   *)
(* there.  A program's call (modify_old_syscall.c, modify_new_syscall.c)   *)
(* goes where the entry points when it is made.                            *)
(*                                                                         *)
(* External: kallsyms_lookup_name() finds a symbol always or never on one  *)
(* kernel; a write to a read-only page is a fault that ends insmod or      *)
(* rmmod and leaves the module where it is.                                *)
(***************************************************************************)
EXTENDS Naturals

CONSTANT MaxLoads   \* BOUND: insmod calls

ASSUME LoadsAssumption == MaxLoads \in Nat

VARIABLES
  symbols,    \* whether update_mapping_prot and both ends of .rodata are found
  table,      \* whether sys_call_table is found
  module,     \* the module's life
  hookPc,     \* the next step of modify_syscall or restore_syscall
  entry,      \* sys_call_table[169]
  saved,      \* old_sys_call_func
  rodata,     \* the protection of the table's pages
  loads       \* insmod calls so far

hookVars == <<symbols, table, module, hookPc, entry, saved, rodata, loads>>

HookInit ==
  /\ symbols \in {"found", "missing"} /\ table \in {"found", "missing"}
  /\ module = "out" /\ hookPc = "done" /\ loads = 0
  /\ entry = "original" /\ saved = "zero" /\ rodata = "read-only"

\* Mutant: the missing symbols are only reported
LoadsAnyway ==
  /\ module = "out" /\ loads < MaxLoads /\ loads' = loads + 1
  /\ saved' = "zero" /\ module' = "loading" /\ hookPc' = "table"
  /\ UNCHANGED <<symbols, table, entry, rodata>>

\* insmod: mymodule_init gives up before it changes anything unless all three
\* symbols are there.  The module's own data are new.
Insmod ==
  /\ module = "out" /\ loads < MaxLoads /\ loads' = loads + 1
  /\ saved' = "zero"
  /\ \/ symbols = "missing" /\ UNCHANGED <<module, hookPc>>
     \/ symbols = "found" /\ module' = "loading" /\ hookPc' = "table"
  /\ UNCHANGED <<symbols, table, entry, rodata>>

Rmmod ==
  /\ module = "in" /\ module' = "unloading" /\ hookPc' = "table"
  /\ UNCHANGED <<symbols, table, entry, saved, rodata, loads>>

\* Mutant: restore_syscall saves the entry too
SavesAgain ==
  /\ hookPc = "table"
  /\ hookPc' = IF table = "found" THEN "unprotect" ELSE "return"
  /\ saved' = IF table = "found" THEN entry ELSE saved
  /\ UNCHANGED <<symbols, table, module, entry, rodata, loads>>

\* Without the table, modify_syscall and restore_syscall return and their callers
\* go on: the module is loaded, or unloaded, all the same.
FindTable ==
  /\ hookPc = "table"
  /\ hookPc' = IF table = "found" THEN "unprotect" ELSE "return"
  /\ saved' = IF table = "found" /\ module = "loading" THEN entry ELSE saved
  /\ UNCHANGED <<symbols, table, module, entry, rodata, loads>>

UnprotectMemory ==
  /\ hookPc = "unprotect" /\ hookPc' = "write"
  /\ rodata' = IF symbols = "found" THEN "writable" ELSE rodata
  /\ UNCHANGED <<symbols, table, module, entry, saved, loads>>

WriteEntry ==
  /\ hookPc = "write"
  /\ \/ rodata = "writable" /\ hookPc' = "protect"
        /\ entry' = IF module = "loading" THEN "hello" ELSE saved
     \/ rodata = "read-only" /\ hookPc' = "fault" /\ UNCHANGED entry
  /\ UNCHANGED <<symbols, table, module, saved, rodata, loads>>

ProtectMemory ==
  /\ hookPc = "protect" /\ hookPc' = "return"
  /\ rodata' = IF symbols = "found" THEN "read-only" ELSE rodata
  /\ UNCHANGED <<symbols, table, module, entry, saved, loads>>

Return ==
  /\ hookPc = "return" /\ hookPc' = "done"
  /\ module' = IF module = "loading" THEN "in" ELSE "out"
  /\ UNCHANGED <<symbols, table, entry, saved, rodata, loads>>

HookNext ==
  Insmod \/ Rmmod \/ FindTable \/ UnprotectMemory \/ WriteEntry \/ ProtectMemory \/ Return

HookSpec == HookInit /\ [][HookNext]_hookVars
-----------------------------------------------------------------------------

HookTypeOK ==
  /\ symbols \in {"found", "missing"} /\ table \in {"found", "missing"}
  /\ module \in {"out", "loading", "in", "unloading"}
  /\ hookPc \in {"table", "unprotect", "write", "protect", "return", "done", "fault"}
  /\ entry \in {"original", "hello", "zero"} /\ saved \in {"original", "hello", "zero"}
  /\ rodata \in {"read-only", "writable"} /\ loads \in 0 .. MaxLoads

\* Whenever nothing is being loaded or unloaded, calls go to hello just when the
\* module is in (and found the table), to the original otherwise, however often
\* it was loaded before; and the table is read-only again.
EntryFollowsModule ==
  hookPc = "done" =>
    /\ entry = IF module = "in" /\ table = "found" THEN "hello" ELSE "original"
    /\ rodata = "read-only"

\* The entry is never written while its page is read-only, whatever symbols the
\* kernel lacks.
NoFault == hookPc # "fault"
=============================================================================
