---------------------------- MODULE MC_CabSearch ----------------------------
(***************************************************************************)
(* Instances of CabSearch for TLC.                                         *)
(***************************************************************************)
EXTENDS CabSearch

\* A cabinet header, the beginning of which may be overlapped by other data.
Head20(len, foff) == <<77, 83, 67, 70, 0, 0, 0, 0, len % 256, len \div 256, 0, 0,
                       0, 0, 0, 0, foff, 0, 0, 0>>
Fill_(n) == [k \in 1..n |-> 7]

Im(bytes, strict, lax) ==
  [bytes |-> bytes, good |-> [s \in BOOLEAN |-> IF s THEN strict \cup lax ELSE strict]]

Files ==
  { Im(<<>>, {}, {}),
    \* one cabinet in the middle; a signature too near the end
    Im(Fill_(3) \o Head20(24, 20) \o Fill_(6) \o SubSeq(Head20(20, 4), 1, 19), {3}, {}),
    \* two cabinets, the second right behind the first, longer than the file
    Im(Head20(22, 20) \o Fill_(2) \o Head20(40, 20), {0, 22}, {}),
    \* a false header with a real one inside it, one only salvage mode accepts behind it
    Im(SubSeq(Head20(20, 20), 1, 9) \o Head20(21, 2) \o Fill_(1) \o Head20(21, 2) \o Fill_(1),
       {9}, {30}),
    Im(SubSeq(Head20(30, 20), 1, 16) \o Head20(20, 2), {16}, {}),
    \* a cabinet that says it is shorter than its header
    Im(SubSeq(Head20(5, 0), 1, 12) \o Head20(20, 0) \o Fill_(2), {0, 12}, {}),
    \* a cabinet inside the data of another
    Im(Head20(42, 20) \o Head20(22, 20) \o Fill_(4), {0, 20}, {}),
    \* a cabinet with a garbage length, and one behind it
    Im(Head20(700, 20) \o Fill_(4) \o Head20(20, 2), {0, 24}, {}),
    \* signatures behind the beginnings of others
    Im(<<77>> \o Head20(20, 2), {1}, {}),
    Im(<<77, 83, 67, 77>> \o <<77>> \o Head20(20, 2), {5}, {}) }

Sizes == {MINBUF, 5, 7, 20, 64}
=============================================================================
