------------------------------ MODULE LzWindow ------------------------------
(***************************************************************************)
(* What the window decoders of libmspack have in common: a stream of       *)
(* literals and matches is expanded into a window, and what is decoded but *)
(* not asked for yet waits between o_ptr and o_end for the next call.      *)
(*                                                                         *)
(* A unit of data is known by its number in the stream.  A literal puts    *)
(* the number it has into the window.  A match says "the same as           *)
(* match_offset units ago", so the unit it copies stands for the number it *)
(* finds at the source plus match_offset: if the code's arithmetic goes to *)
(* the wrong place, a wrong number comes out.  Memory that nothing was     *)
(* stored in yet holds JUNK.                                               *)
(*                                                                         *)
(* The tokens are chosen freely, legal ones and others, so that a run is   *)
(* about every stream; "intact" says that all tokens so far were legal.    *)
(***************************************************************************)
EXTENDS Integers, Sequences

CONSTANTS
  Streams,    \* the streams and how a decoder is set up for each
  Asks,       \* the out_bytes of calls
  Lengths,    \* the lengths matches have
  MaxFaults,  \* bounds the I/O calls that fail
  JUNK        \* what uninitialised memory holds

VARIABLES
  stream,                               \* the stream, an element of Streams
  window, posn, optr, oend, error, z,   \* the decoder; z is what only one kind has
  pc, want, l,                          \* the call: out_bytes, local variables
  made,                                 \* the input: units the tokens read stand for
  intact, faults,
  out, due                              \* units written; how many there should be

dec == <<window, posn, optr, oend, error, z>>
call == <<pc, want, l>>
vars == <<stream, dec, call, made, intact, faults, out, due>>

\* decoders that are not told how much to decode are due everything
ALL == -1

LzWindowAssumption ==
  /\ MaxFaults \in Nat
  /\ Asks \subseteq Nat
  /\ Lengths \subseteq Nat \ {0}
  /\ JUNK \notin Int
  /\ \A s \in Streams :
       /\ DOMAIN s = {"kind", "size", "frame", "total", "start", "opt"}
       /\ s.kind \in {"lzx", "quantum", "mszip", "kwajzip", "lzss", "lzh"}
       /\ s.size \in Nat \ {0}
       /\ s.frame \in Nat \ {0}
       /\ s.total \in Nat
       /\ s.start \in 0 .. s.size - 1
       \* LZX windows are whole frames and MSZIP's is one (lzxd_init, mszip.h), a
       \* match of Quantum has 259 bytes at most and its smallest window 1024; only
       \* LZSS starts elsewhere than at its window's beginning
       /\ s.kind # "lzss" => s.start = 0
       /\ s.kind = "lzx" => s.size % s.frame = 0 /\ s.opt.ref \in Nat
       /\ s.kind \in {"mszip", "kwajzip"} => s.size = s.frame
       /\ s.kind = "lzh" => s.opt.tail \in Nat
       /\ s.kind = "quantum" => \A n \in Lengths : n <= s.size
ASSUME LzWindowAssumption

Least(a, b) == IF a < b THEN a ELSE b

Size == stream.size
FRAME == stream.frame
At(kind, label) == stream.kind = kind /\ pc = label

\* the window as a decoder of this kind gets it: LZX DELTA lays reference data
\* at its end, LZSS and LZH fill it with spaces (which no offset is wrong for,
\* so they are numbered as if they had come before the stream), the others
\* leave it as allocated
FreshWindow(s) ==
  [p \in 0 .. s.size - 1 |->
     CASE s.kind \in {"lzss", "lzh"} -> IF p < s.start THEN p - s.start
                                        ELSE p - s.start - s.size
       [] s.kind = "lzx" -> IF p >= s.size - s.opt.ref THEN p - s.size ELSE JUNK
       [] OTHER -> JUNK]

Copied(unit, offset) == IF unit = JUNK THEN JUNK ELSE unit + offset

Puts(unit) == window' = [window EXCEPT ![posn] = unit]

-----------------------------------------------------------------------------
(* How calls begin, write and end.                                         *)

IOFails ==
  /\ faults < MaxFaults
  /\ faults' = faults + 1

Returns(e) ==
  /\ pc' = "idle"
  /\ error' = e
  /\ l' = <<>>
  /\ UNCHANGED <<window, posn, z, made, out, due, stream>>

\* write() of n units from o_ptr on, which lies in `from`
Writes(from, n) ==
  /\ out' = out \o [i \in 1 .. n |-> from[optr + i - 1]]
  /\ want' = want - n

WriteFails ==
  /\ IOFails
  /\ Returns("WRITE")
  /\ UNCHANGED <<optr, oend, want, intact>>

Unreadable ==
  /\ \/ made >= stream.total /\ UNCHANGED faults
     \/ IOFails
  /\ Returns("READ")
  /\ UNCHANGED <<optr, oend, want, intact>>

Rejects ==
  /\ Returns("DECRUNCH")
  /\ UNCHANGED <<optr, oend, want, faults>>

\* "easy answers": a call that finds error set returns it and changes nothing,
\* so these are the calls that are let in
Enters(kind) ==
  /\ At(kind, "idle")
  /\ error = "OK"
  /\ \E n \in Asks :
       /\ Len(out) + n <= stream.total
       /\ want' = n
       /\ due' = Len(out) + n
  /\ pc' = "leftover"
  /\ UNCHANGED <<stream, dec, l, made, intact, faults, out>>

\* "flush out any stored-up bytes before we begin"; `first` is where the call
\* goes when it wants more, with the local variables `locals`
FlushesLeftover(kind, from, first, locals) ==
  /\ At(kind, "leftover")
  /\ LET i == Least(oend - optr, want) IN
       /\ Writes(from, i)
       /\ optr' = optr + i
       /\ pc' = IF i = want THEN "idle" ELSE first
       /\ l' = IF i = want THEN <<>> ELSE locals
  /\ UNCHANGED <<stream, window, posn, oend, error, z, made, intact, faults, due>>

LeftoverFails(kind) ==
  /\ At(kind, "leftover")
  /\ oend > optr /\ want > 0
  /\ WriteFails

=============================================================================
