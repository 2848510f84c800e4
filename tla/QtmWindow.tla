------------------------------ MODULE QtmWindow -----------------------------
(***************************************************************************)
(* qtmd_decompress() (qtmd.c) over its window, which may be smaller than a *)
(* frame: a match may then run over the end of the window, and what is not *)
(* written yet has to be written before its second part takes the place.   *)
(*                                                                         *)
(* The arithmetic coder is taken to give the tokens that were encoded; its *)
(* H, L, C and the header that sets them come down to header_read, and the *)
(* trailer byte that cabd.c puts behind each frame's block to one read.    *)
(***************************************************************************)
EXTENDS LzWindow

QtmFresh == [todo |-> FRAME, header |-> FALSE]

QtmEnter == Enters("quantum")

QtmFlush ==
  FlushesLeftover("quantum", window, "head",
    [end |-> 0, left |-> 0, rest |-> 0, off |-> 0, src |-> 0])

QtmLeftoverFails == LeftoverFails("quantum")

QtmHave == oend - optr

\* "decode more, up to the number of bytes needed, the frame boundary, or the
\* window boundary, whichever comes first"
QtmHead ==
  /\ At("quantum", "head") /\ QtmHave < want
  /\ z.header \/ made < stream.total
  /\ z' = [z EXCEPT !.header = TRUE]
  /\ l' = [l EXCEPT !.end = Least(Least(posn + want - QtmHave, posn + z.todo), Size)]
  /\ pc' = "tokens"
  /\ UNCHANGED <<stream, window, posn, optr, oend, error, want, made, intact, faults, out, due>>

QtmEnough ==
  /\ At("quantum", "head") /\ QtmHave >= want
  /\ pc' = "out"
  /\ UNCHANGED <<stream, dec, want, l, made, intact, faults, out, due>>

QtmLiteral ==
  /\ At("quantum", "tokens") /\ posn < l.end /\ made < stream.total
  /\ Puts(made)
  /\ posn' = posn + 1
  /\ made' = made + 1
  /\ z' = [z EXCEPT !.todo = @ - 1]
  /\ UNCHANGED <<stream, optr, oend, error, pc, want, l, intact, faults, out, due>>

QtmWraps(len) == posn + len > Size

QtmIntactMatch(len, off) == len <= z.todo /\ off <= made

\* a match: whole, or its first part up to the window's end.  (The position slots
\* of a window reach no further than its size, so no offset is rejected.)
QtmMatch ==
  /\ At("quantum", "tokens") /\ posn < l.end /\ made < stream.total
  /\ \E len \in Lengths, off \in 1 .. Size :
       /\ intact' = (intact /\ QtmIntactMatch(len, off))
       /\ LET first == IF QtmWraps(len) THEN Size - posn ELSE len IN
            l' = [l EXCEPT !.left = first, !.rest = len - first, !.off = off,
                           !.src = (posn - off) % Size]
       /\ z' = [z EXCEPT !.todo = @ - len]
       /\ made' = made + len
  /\ pc' = "copy"
  /\ UNCHANGED <<stream, window, posn, optr, oend, error, want, faults, out, due>>

QtmCopy ==
  /\ At("quantum", "copy")
  /\ Puts(Copied(window[l.src], l.off))
  /\ posn' = posn + 1
  /\ l' = [l EXCEPT !.src = (@ + 1) % Size, !.left = @ - 1]
  /\ pc' = IF l.left > 1 THEN "copy" ELSE IF l.rest > 0 THEN "wrap_match" ELSE "tokens"
  /\ UNCHANGED <<stream, optr, oend, error, z, want, made, intact, faults, out, due>>

\* "flush currently stored data": all of the window from o_ptr on
QtmWrapMatch ==
  /\ At("quantum", "wrap_match") /\ Size - optr <= want
  /\ Writes(window, Size - optr)
  /\ optr' = 0 /\ oend' = 0 /\ posn' = 0
  /\ l' = [l EXCEPT !.left = l.rest, !.rest = 0]
  /\ pc' = "second_part"
  /\ UNCHANGED <<stream, window, error, z, made, intact, faults, due>>

QtmBailsOut ==
  /\ At("quantum", "wrap_match") /\ Size - optr > want
  /\ UNCHANGED intact
  /\ Rejects

QtmSecondPart ==
  /\ At("quantum", "second_part")
  /\ Puts(Copied(window[l.src], l.off))
  /\ posn' = posn + 1
  /\ l' = [l EXCEPT !.src = (@ + 1) % Size, !.left = @ - 1]
  /\ pc' = IF l.left > 1 THEN "second_part" ELSE "stop"
  /\ UNCHANGED <<stream, optr, oend, error, z, want, made, intact, faults, out, due>>

QtmStops == At("quantum", "stop") \/ (At("quantum", "tokens") /\ posn >= l.end)

\* mutant: frame_todo is not set again behind a frame
QtmStopNoReset ==
  /\ QtmStops /\ z.todo >= 0
  /\ oend' = posn
  /\ z' = IF z.todo = 0 THEN [z EXCEPT !.header = FALSE] ELSE z
  /\ pc' = IF posn = Size THEN "wrap" ELSE "head"
  /\ UNCHANGED <<stream, window, posn, optr, error, want, l, made, intact, faults, out, due>>

\* what was decoded is in reserve; a frame that is complete has its trailer read
QtmStop ==
  /\ QtmStops /\ z.todo >= 0
  /\ oend' = posn
  /\ z' = IF z.todo = 0 THEN [todo |-> FRAME, header |-> FALSE] ELSE z
  /\ pc' = IF posn = Size THEN "wrap" ELSE "head"
  /\ UNCHANGED <<stream, window, posn, optr, error, want, l, made, intact, faults, out, due>>

\* "overshot frame alignment": frame_todo went below zero
QtmOvershot ==
  /\ QtmStops /\ z.todo < 0
  /\ UNCHANGED intact
  /\ Rejects

\* mutant: all that is stored is flushed, even if more than enough
QtmWrapAll ==
  /\ At("quantum", "wrap")
  /\ Writes(window, QtmHave)
  /\ optr' = 0 /\ oend' = 0 /\ posn' = 0
  /\ pc' = "head"
  /\ UNCHANGED <<stream, window, error, z, l, made, intact, faults, due>>

\* "flush all currently stored data", unless that "have more than enough"
QtmWrap ==
  /\ At("quantum", "wrap") /\ QtmHave < want
  /\ Writes(window, QtmHave)
  /\ optr' = 0 /\ oend' = 0 /\ posn' = 0
  /\ pc' = "head"
  /\ UNCHANGED <<stream, window, error, z, l, made, intact, faults, due>>

QtmKeep ==
  /\ At("quantum", "wrap") /\ QtmHave >= want
  /\ pc' = "out"
  /\ UNCHANGED <<stream, dec, want, l, made, intact, faults, out, due>>

QtmOut ==
  /\ At("quantum", "out")
  /\ Writes(window, want)
  /\ optr' = optr + want
  /\ pc' = "idle"
  /\ l' = <<>>
  /\ UNCHANGED <<stream, window, posn, oend, error, z, made, intact, faults, due>>

QtmWriteFails ==
  /\ \/ At("quantum", "wrap_match") /\ Size - optr <= want
     \/ At("quantum", "wrap") /\ QtmHave < want
     \/ At("quantum", "out") /\ want > 0
  /\ WriteFails

QtmUnreadable ==
  /\ \/ At("quantum", "head") /\ QtmHave < want /\ ~z.header
     \/ At("quantum", "tokens") /\ posn < l.end
  /\ Unreadable

\* "do { READ_BITS(i, 8); } while (i != 0xFF)"
QtmTrailerUnreadable ==
  /\ QtmStops /\ z.todo = 0
  /\ IOFails
  /\ Returns("READ")
  /\ UNCHANGED <<optr, oend, want, intact>>

QtmCallStep ==
  \/ QtmFlush \/ QtmLeftoverFails \/ QtmHead \/ QtmEnough \/ QtmLiteral \/ QtmMatch \/ QtmCopy
  \/ QtmWrapMatch \/ QtmBailsOut \/ QtmSecondPart \/ QtmStop \/ QtmOvershot \/ QtmWrap
  \/ QtmKeep \/ QtmOut \/ QtmWriteFails \/ QtmUnreadable \/ QtmTrailerUnreadable

\* the call gave up on a match over the window's end
QtmBailed ==
  stream.kind = "quantum" /\ error = "DECRUNCH" /\ posn = Size /\ Size - optr > want

QtmTypeOK ==
  stream.kind = "quantum" =>
    /\ posn \in 0 .. Size
    /\ optr \in 0 .. oend /\ oend \in 0 .. Size
    /\ pc = "copy" => posn + l.left <= Size
    /\ pc = "second_part" => posn + l.left < Size
    /\ error = "OK" /\ pc \in {"idle", "leftover", "head"} => z.todo \in 1 .. FRAME

=============================================================================
