--------------------------------- MODULE Ext2MC ---------------------------------
(***************************************************************************)
(* Values for TLC: file a has a suffix that makes it readable and          *)
(* writable, b one that makes it executable; chmod makes a file readable.  *)
(* The name of b is the longer one.                                        *)
(***************************************************************************)
EXTENDS Ext2

ModeOfSuffix == [n \in Names |-> IF n = "a" THEN {"r", "w"} ELSE {"x"}]
LengthOfName == [n \in Names |-> IF n = "a" THEN 1 ELSE 3]
ChmodModes == {{"r"}}
=============================================================================
