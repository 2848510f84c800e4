----------------------------- MODULE CabSetView -----------------------------
(***************************************************************************)
(* What open(), search(), append() and close() promise (mspack.h): every   *)
(* open cabinet belongs to one set, a set is its parts in order, and "all  *)
(* cabinets in a set use the same file list", in which a file split over   *)
(* two parts appears once.  No pointers, no folders: CabSets implements it.*)
(* A part lists the files that are continued from the previous part first. *)
(***************************************************************************)
EXTENDS Integers, Sequences, FiniteSets, Functions

CONSTANTS
  Cab, Image,
  PartList,      \* [Image -> Seq(key)]: the files of one part, in its order
  Before,        \* [Image -> Nat]: how many of them began in the previous part
  After,         \* [Image -> Nat]: how many of them go on in the next part
  NULL

VARIABLES
  sets,     \* the cabinet sets, each the sequence of its cabinets
  part,     \* [Cab -> Image \cup {NULL}]: what an open cabinet was read from
  listing   \* [Cab -> Seq(key)]: the file list a caller sees

viewVars == <<sets, part, listing>>

Init ==
  /\ sets = {}
  /\ part = [c \in Cab |-> NULL]
  /\ listing = [c \in Cab |-> <<>>]

\* Cabinets are opened, each from an image of its own choice and each a set of
\* its own: one by open(), more by search().
Add(new) ==
  /\ part' = [c \in Cab |-> IF c \in DOMAIN new THEN new[c] ELSE part[c]]
  /\ sets' = sets \cup {<<c>> : c \in DOMAIN new}
  /\ listing' = [c \in Cab |-> IF c \in DOMAIN new THEN PartList[new[c]] ELSE listing[c]]

\* The parts on both sides of the joint agree on whether files are split across
\* it, and if so the two lists have one in common.
Fits(s, t) ==
  LET after  == After[part[s[Len(s)]]]
      before == Before[part[Head(t)]]
  IN
  \/ after = 0 /\ before = 0
  \/ /\ after # 0 /\ before # 0
     /\ Range(listing[Head(s)]) \cap Range(listing[Head(t)]) # {}

Join(s, t) ==
  LET twice == Before[part[Head(t)]]
      joined == listing[Head(s)]
                  \o SubSeq(listing[Head(t)], twice + 1, Len(listing[Head(t)]))
  IN
  /\ s # t
  /\ UNCHANGED part
  /\ Fits(s, t)
  /\ sets' = (sets \ {s, t}) \cup {s \o t}
  /\ listing' = [c \in Cab |-> IF c \in Range(s) \cup Range(t) THEN joined ELSE listing[c]]

\* Whole sets are closed, never a part of one.
Drop(closed) ==
  LET gone == UNION {Range(s) : s \in closed}
  IN
  /\ part' = [c \in Cab |-> IF c \in gone THEN NULL ELSE part[c]]
  /\ sets' = sets \ closed
  /\ listing' = [c \in Cab |-> IF c \in gone THEN <<>> ELSE listing[c]]

Closed == {c \in Cab : part[c] = NULL}

Next ==
  \/ \E opened \in (SUBSET Closed) \ {{}} : \E new \in [opened -> Image] : Add(new)
  \/ \E s, t \in sets : Join(s, t)
  \/ \E closed \in (SUBSET sets) \ {{}} : Drop(closed)

Spec == Init /\ [][Next]_viewVars
=============================================================================
