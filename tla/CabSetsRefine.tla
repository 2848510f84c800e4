--------------------------- MODULE CabSetsRefine ---------------------------
(***************************************************************************)
(* The pointer structure of CabSets implements the sets of CabSetView.     *)
(***************************************************************************)
EXTENDS CabSets

\* The entries of image i whose folder index is in xs
KeptWith(i, xs) == {k \in Kept(i) : ImageFiles[i][k].fidx \in xs}

\* What a caller meets who goes from h on along next
Met(h, next) ==
  LET w == Walk(h, next)
  IN  [n \in 1..Cardinality({k \in DOMAIN w : w[k] # NULL}) |-> w[n - 1]]

\* The file list of an open cabinet, as a caller walks it.
KeySeq(c) ==
  LET met == Met(cab[c].files, FilNext) IN [n \in DOMAIN met |-> file[met[n]].key]

\* The n-th entry of image i that is kept
NthKept(i, n) == CHOOSE k \in Kept(i) : Cardinality({j \in Kept(i) : j < k}) = n - 1

ImageKeys(i) == [n \in 1..Cardinality(Kept(i)) |-> ImageFiles[i][NthKept(i, n)].key]

IsFirst(c) == Open(c) /\ cab[c].prevcab = NULL

\* The set that begins with c
SetFrom(c) == Met(c, NextOf)

PartLists == [i \in Image |-> ImageKeys(i)]
FromPrev == [i \in Image |-> Cardinality(KeptWith(i, {FROM_PREV, PREV_AND_NEXT}))]
ToNext == [i \in Image |-> Cardinality(KeptWith(i, {TO_NEXT, PREV_AND_NEXT}))]

SetsSeen == {SetFrom(c) : c \in {x \in Cab : IsFirst(x)}}
PartSeen == [c \in Cab |-> cab[c].img]
ListingSeen == [c \in Cab |-> IF Open(c) THEN KeySeq(c) ELSE <<>>]

View == INSTANCE CabSetView WITH
  PartList <- PartLists,
  Before   <- FromPrev,
  After    <- ToNext,
  sets     <- SetsSeen,
  part     <- PartSeen,
  listing  <- ListingSeen

\* Where entries of a part come from the previous one, they are its first
\* folder's, all of them, and stand before the others.  An input assumption of
\* the refinement: cabd_merge frees the whole folder ("and only has files to
\* merge"), wherever its files are in the list.
ContinuedFirst ==
  \A i \in Image : Readable(i) =>
    LET continued == KeptWith(i, {FROM_PREV, PREV_AND_NEXT}) IN
    continued # {} => \A k \in Kept(i) :
      IF k \in continued THEN \A j \in Kept(i) \ continued : k < j
                         ELSE EntryFolder(i, k) # 1

\* Opening, searching, joining and closing do to the lists a caller sees
\* exactly what CabSetView says, and extraction does nothing to them: a file
\* split over two parts is listed once, in place, and by every part of the set.
ImplementsView == View!Spec
=============================================================================
