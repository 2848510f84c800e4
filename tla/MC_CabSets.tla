---------------------------- MODULE MC_CabSets ----------------------------
(***************************************************************************)
(* Instances of CabSets for TLC.  The images are the parts of a set like   *)
(* the test files multi_basic_pt*.cab: the first ends in a folder that goes*)
(* on in the second and third, each part lists every file of that folder,  *)
(* and the first and third also have a folder of their own.                *)
(***************************************************************************)
EXTENDS CabSetsRefine, TLC

CONSTANTS X, Y, Z, imgA, imgB, imgC

ThreeCabs == {X, Y, Z}
TwoCabs == {X, Y}
Parts == {imgA, imgB, imgC}

Plain(f, k)    == [fidx |-> f, key |-> k, named |-> TRUE]
Fol(c, b)      == [comp |-> c, blocks |-> b]

SetFolders ==
  [i \in Parts |->
     CASE i = imgA -> <<Fol("mszip", 1), Fol("lzx", 2)>>
       [] i = imgB -> <<Fol("lzx", 3)>>
       [] i = imgC -> <<Fol("lzx", 2), Fol("mszip", 1)>>]

SetFiles ==
  [i \in Parts |->
     CASE i = imgA -> <<Plain(0, "a"), Plain(TO_NEXT, "s")>>
       [] i = imgB -> <<Plain(PREV_AND_NEXT, "s")>>
       [] i = imgC -> <<Plain(FROM_PREV, "s"), Plain(1, "c")>>]

\* A first part one of whose entries has no usable name
DamagedFiles ==
  [SetFiles EXCEPT ![imgA] = <<[Plain(0, "t") EXCEPT !.named = FALSE], Plain(TO_NEXT, "s")>>]

Known == {"none", "mszip", "quantum", "lzx"}
Keys == {"a", "s", "t", "c"}
OnlyLzx == {"lzx"}
AnyCall == {"open", "seek", "alloc"}
SeekOnly == {"seek"}

\* The instances meet the hypotheses of the theorems of CabSetsProofs.
ASSUME HypothesesMet == ~JoinChains /\ JointsWellFormed /\ ContinuedFirst

Symmetric == Permutations(Cab)
============================================================================
