---------------------------- MODULE MC_Decoders -----------------------------
(***************************************************************************)
(* Small streams of each kind: windows of two frames (one for MSZIP, less  *)
(* than one for Quantum), and enough units for a lap and a half.           *)
(***************************************************************************)
EXTENDS Decoders

MCStream(kind, size, frame, total, start, opt) ==
  [kind |-> kind, size |-> size, frame |-> frame, total |-> total, start |-> start, opt |-> opt]

Plain == [reset |-> 0, ref |-> 0, e8 |-> FALSE, told |-> "first", repair |-> FALSE, tail |-> 0]

MCStreams ==
  {MCStream("lzx", 6, 3, 10, 0, [Plain EXCEPT !.told = t]) : t \in {"first", "later", "never"}}
  \cup {MCStream("lzx", 6, 3, 10, 0, [Plain EXCEPT !.reset = 2]),
        MCStream("lzx", 6, 3, 10, 0, [Plain EXCEPT !.ref = 2]),
        MCStream("lzx", 6, 3, 10, 0, [Plain EXCEPT !.e8 = TRUE])}
  \cup {MCStream("quantum", n, 4, 9, 0, Plain) : n \in {3, 4, 5}}
  \cup {MCStream("mszip", 3, 3, 7, 0, [Plain EXCEPT !.repair = b]) : b \in BOOLEAN}
  \cup {MCStream("kwajzip", 3, 3, 5, 0, Plain)}
  \cup {MCStream("lzss", 4, 1, 8, 2, Plain), MCStream("lzh", 4, 1, 8, 0, [Plain EXCEPT !.tail = 2])}

MCAsks == {0, 2, 3, 5}
MCLengths == {2, 3}

=============================================================================
