-------------------------------- MODULE FileTree --------------------------------
(***************************************************************************)
(* What the commands of the file system of Lab 3 promise: a tree of        *)
(* directories with files in them, a current directory and open files.     *)
(* Directories and files are named by their paths from the root.  `kept'   *)
(* turns FALSE with the first call outside the contract that the code      *)
(* needs (Ext2.tla); nothing is promised after it.                         *)
(***************************************************************************)
EXTENDS Sequences, SequencesExt

CONSTANTS Names, DefaultMode, Modes, Texts

VARIABLES dirs, files, cwd, opened, kept

tree == <<dirs, files, cwd, opened, kept>>

Here(n) == Append(cwd, n)
Restricted(F, S) == [p \in S |-> F[p]]

Init == dirs = {<<>>} /\ files = <<>> /\ cwd = <<>> /\ opened = {} /\ kept = TRUE

Mkdir(n) ==
  /\ Here(n) \notin dirs
  /\ dirs' = dirs \cup {Here(n)}
  /\ UNCHANGED <<files, cwd, opened>>

\* A directory goes with all it holds, none of it open.
Below(S, n) == {p \in S : IsPrefix(Here(n), p)}
FilesBelow(n) == {p \in DOMAIN files : IsStrictPrefix(Here(n), p)}
Rmdir(n) ==
  /\ Here(n) \in dirs /\ FilesBelow(n) \cap opened = {}
  /\ dirs' = dirs \ Below(dirs, n)
  /\ files' = Restricted(files, DOMAIN files \ FilesBelow(n))
  /\ UNCHANGED <<cwd, opened>>

Put(f, file) ==
  files' = [p \in DOMAIN files \cup {f} |-> IF p = f THEN file ELSE files[p]]

Touch(n) ==
  /\ Here(n) \notin DOMAIN files
  /\ Put(Here(n), [mode |-> DefaultMode[n], text |-> <<>>])
  /\ UNCHANGED <<dirs, cwd, opened>>

Rm(n) ==
  /\ Here(n) \in DOMAIN files \ opened
  /\ files' = Restricted(files, DOMAIN files \ {Here(n)})
  /\ UNCHANGED <<dirs, cwd, opened>>

Cd(n) ==
  /\ Here(n) \in dirs
  /\ cwd' = Here(n)
  /\ UNCHANGED <<dirs, files, opened>>
CdUp ==
  /\ cwd # <<>>
  /\ cwd' = Front(cwd)
  /\ UNCHANGED <<dirs, files, opened>>

Open(n) ==
  /\ Here(n) \in DOMAIN files
  /\ opened' = opened \cup {Here(n)}
  /\ UNCHANGED <<dirs, files, cwd>>
Close(n) ==
  /\ opened' = opened \ {Here(n)}
  /\ UNCHANGED <<dirs, files, cwd>>

Chmod(n) ==
  /\ Here(n) \in DOMAIN files
  /\ \E m \in Modes : Put(Here(n), [files[Here(n)] EXCEPT !.mode = m])
  /\ UNCHANGED <<dirs, cwd, opened>>

\* The old text is replaced by the new.
Write(n) ==
  /\ Here(n) \in opened /\ {"r", "w"} \subseteq files[Here(n)].mode
  /\ \E t \in Texts : Put(Here(n), [files[Here(n)] EXCEPT !.text = t])
  /\ UNCHANGED <<dirs, cwd, opened>>

Command ==
  \/ CdUp
  \/ \E n \in Names : \/ Mkdir(n) \/ Rmdir(n) \/ Touch(n) \/ Rm(n) \/ Cd(n)
                      \/ Open(n) \/ Close(n) \/ Chmod(n) \/ Write(n)

Next == \/ kept = TRUE /\ kept' = TRUE /\ Command
        \/ kept' = FALSE

Spec == Init /\ [][Next]_tree
=============================================================================
