--------------------------- MODULE MC_ManagedCabs ---------------------------
(***************************************************************************)
(* Instances of ManagedCabs for TLC: the three parts of a set, the second  *)
(* of which begins with a file that is continued from the first.           *)
(***************************************************************************)
EXTENDS ManagedCabs

CONSTANTS a, b, c

Parts == {a, b, c}
FilesOf == [o \in Parts |-> IF o = b THEN 2 ELSE 1]
Order == {<<a, b>>, <<b, c>>}
SplitFirst == {b}
=============================================================================
