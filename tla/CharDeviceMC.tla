---------------------------- MODULE CharDeviceMC ----------------------------
(* CharDevice on small instances: the processes are model values.           *)
EXTENDS CharDevice, TLC

ReaderSymmetry == Permutations(Readers)
=============================================================================
