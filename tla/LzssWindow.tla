----------------------------- MODULE LzssWindow -----------------------------
(***************************************************************************)
(* lzss_decompress() (lzssd.c) and lzh_decompress() (kwajd.c): a ring that *)
(* is full of spaces at first, from which each unit is written as soon as  *)
(* it is decoded.  Both are one call for all there is, and both take the   *)
(* end of the input, wherever it comes, for the end of the data.           *)
(*                                                                         *)
(* An LZSS match names its place in the ring (mpos), an LZH match its      *)
(* distance; either way it is `off` behind o_ptr's place, and place pos    *)
(* itself (mpos = pos, offset 0) is a whole ring behind.                   *)
(***************************************************************************)
EXTENDS LzWindow

IsRing == stream.kind \in {"lzss", "lzh"}
RingAt(label) == IsRing /\ pc = label

RingCall ==
  /\ RingAt("idle") /\ due = 0
  /\ due' = ALL
  /\ l' = [left |-> 0, off |-> 0, src |-> 0]
  /\ pc' = "tokens"
  /\ UNCHANGED <<stream, dec, want, made, intact, faults, out>>

\* the place goes round the ring after each unit that was written (WRITE_BYTE)
RingPuts(unit) ==
  /\ Puts(unit)
  /\ out' = Append(out, unit)
  /\ posn' = (posn + 1) % Size

RingLiteral ==
  /\ RingAt("tokens") /\ made < stream.total
  /\ RingPuts(made)
  /\ made' = made + 1
  /\ UNCHANGED <<stream, optr, oend, error, z, pc, want, l, intact, faults, due>>

RingMatch ==
  /\ RingAt("tokens") /\ made < stream.total
  /\ \E len \in Lengths, off \in 1 .. Size :
       /\ made + len <= stream.total
       /\ l' = [left |-> len, off |-> off, src |-> (posn - off) % Size]
       /\ made' = made + len
  /\ pc' = "copy"
  /\ UNCHANGED <<stream, dec, want, intact, faults, out, due>>

RingCopy ==
  /\ RingAt("copy")
  /\ RingPuts(Copied(window[l.src], l.off))
  /\ l' = [l EXCEPT !.left = @ - 1, !.src = (@ + 1) % Size]
  /\ pc' = IF l.left = 1 THEN "tokens" ELSE "copy"
  /\ UNCHANGED <<stream, optr, oend, error, z, want, made, intact, faults, due>>

\* how many of an LZH stream's last units are coded in the bits that are still
\* looked ahead at when the input ends
LzhTail == IF stream.kind = "lzh" THEN stream.opt.tail ELSE 0

\* ENSURE_BYTES finds no more, READ_HUFFSYM_SAFE finds it has used bits that
\* were not there; or LZH is at the head of its loop and the input has ended
\* ("while (!lzh->input_end)"), though it has tokens left
RingEnd ==
  /\ RingAt("tokens")
  /\ intact' = (intact /\ made >= stream.total - LzhTail)
  /\ Returns("OK")
  /\ UNCHANGED <<optr, oend, want, faults>>

RingUnreadable ==
  /\ RingAt("tokens")
  /\ IOFails
  /\ Returns("READ")
  /\ UNCHANGED <<optr, oend, want, intact>>

\* trees that are none; LZSS has no such thing
RingBadTrees ==
  /\ At("lzh", "tokens") /\ made = 0
  /\ intact' = FALSE
  /\ Returns("DATAFORMAT")
  /\ UNCHANGED <<optr, oend, want, faults>>

RingWriteFails ==
  /\ RingAt("copy") \/ (RingAt("tokens") /\ made < stream.total)
  /\ WriteFails

RingCallStep ==
  \/ RingLiteral \/ RingMatch \/ RingCopy \/ RingEnd \/ RingUnreadable \/ RingBadTrees
  \/ RingWriteFails

=============================================================================
