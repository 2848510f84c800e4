------------------------------ MODULE LzxWindow -----------------------------
(***************************************************************************)
(* lzxd_decompress() (lzxd.c) over its window: frames, reset intervals,    *)
(* blocks that are cut by frames, matches into earlier laps and reference  *)
(* data, and the E8 pass in a buffer of its own.                           *)
(*                                                                         *)
(* Huffman trees are taken to give the tokens that were encoded; R0, R1    *)
(* and R2 are left out: a repeated offset is an offset, and after a stored *)
(* block, whose header sets them to any numbers, it is any number until    *)
(* the next reset (z.raw).  lzx->offset is Len(out), as both grow by what  *)
(* a write wrote.  What the E8 pass does depends on the position it takes  *)
(* the frame to have (intel_curpos): it gives back a unit that is where    *)
(* the pass thinks it is, and JUNK for others.                             *)
(*                                                                         *)
(* stream.opt: reset (the reset interval, 0 for none), ref (units of       *)
(* reference data), e8 (the header has an intel filesize), told (whether   *)
(* the output length is known from the start or told later, or never).     *)
(***************************************************************************)
EXTENDS LzWindow

\* frames of this size or less are not translated (10 in the code)
E8MIN == 1

LzxFresh(s) ==
  [frame |-> 0, fposn |-> 0, brem |-> 0, stored |-> FALSE, started |-> FALSE, curpos |-> 0,
   length |-> IF s.opt.told = "first" THEN s.total ELSE 0, in8 |-> FALSE, e8buf |-> <<>>,
   raw |-> FALSE, stray |-> FALSE]

\* what o_ptr points into
LzxFrom == IF z.in8 THEN z.e8buf ELSE window

LzxEnter == Enters("lzx")

LzxFlush ==
  FlushesLeftover("lzx", LzxFrom, "frame",
    [last |-> (Len(out) + want) \div FRAME + 1, size |-> 0, todo |-> 0, this |-> 0,
     left |-> 0, off |-> 0, src |-> 0])

LzxLeftoverFails == LeftoverFails("lzx")

\* lzxd_set_output_length(), which the caller may call from within a read()
LzxSetOutputLength ==
  /\ stream.kind = "lzx" /\ stream.opt.told = "later" /\ z.length = 0
  /\ z' = [z EXCEPT !.length = stream.total]
  /\ UNCHANGED <<stream, window, posn, optr, oend, error, call, made, intact, faults, out, due>>

\* mutant: the size the output has is not looked at
LzxFrameWhole ==
  /\ At("lzx", "frame") /\ z.frame < l.last
  /\ l' = [l EXCEPT !.size = FRAME, !.todo = z.fposn + FRAME - posn]
  /\ intact' = (intact /\ (z.length = 0 => stream.total - made >= FRAME))
  /\ pc' = "block"
  /\ UNCHANGED <<stream, dec, want, made, faults, out, due>>

\* begins a frame: at a reset interval the block that was going on is dropped
\* (it should have ended), and the frame is sized by what is left, if known
LzxFrame ==
  /\ At("lzx", "frame") /\ z.frame < l.last
  /\ LET resets == stream.opt.reset # 0 /\ z.frame % stream.opt.reset = 0
         size == IF z.length = 0 THEN FRAME ELSE Least(FRAME, z.length - Len(out)) IN
       /\ z' = IF resets THEN [z EXCEPT !.brem = 0, !.stored = FALSE, !.raw = FALSE]
               ELSE z
       /\ l' = [l EXCEPT !.size = size, !.todo = z.fposn + size - posn]
       /\ intact' = (intact /\ (resets => z.brem = 0)
                            /\ (z.length = 0 => stream.total - made >= FRAME))
  /\ pc' = "block"
  /\ UNCHANGED <<stream, window, posn, optr, oend, error, want, made, faults, out, due>>

LzxNewBlock ==
  /\ At("lzx", "block") /\ l.todo > 0 /\ z.brem = 0 /\ made < stream.total
  /\ \E b \in 1 .. stream.total - made, stored, e8seen \in BOOLEAN :
       /\ stored => b = 1 \/ b = FRAME + 1
       /\ e8seen => stream.opt.e8
       /\ z' = [z EXCEPT !.brem = b, !.stored = stored, !.raw = @ \/ stored,
                         !.started = @ \/ e8seen \/ (stored /\ stream.opt.e8)]
  /\ UNCHANGED <<stream, window, posn, optr, oend, error, call, made, intact, faults, out, due>>

\* an unknown block type, or trees that are none
LzxBadBlock ==
  /\ At("lzx", "block") /\ l.todo > 0 /\ z.brem = 0 /\ made < stream.total
  /\ intact' = FALSE
  /\ Rejects

\* "assume we decode exactly this_run bytes, for now"
LzxRun ==
  /\ At("lzx", "block") /\ l.todo > 0 /\ z.brem > 0
  /\ LET n == Least(z.brem, l.todo) IN
       /\ l' = [l EXCEPT !.this = n, !.todo = @ - n]
       /\ z' = [z EXCEPT !.brem = @ - n]
  /\ pc' = IF z.stored THEN "stored" ELSE "tokens"
  /\ UNCHANGED <<stream, window, posn, optr, oend, error, want, made, intact, faults, out, due>>

LzxLiteral ==
  /\ At("lzx", "tokens") /\ l.this > 0 /\ made < stream.total
  /\ Puts(made)
  /\ posn' = posn + 1
  /\ made' = made + 1
  /\ l' = [l EXCEPT !.this = @ - 1]
  /\ UNCHANGED <<stream, optr, oend, error, z, pc, want, intact, faults, out, due>>

\* mutants: a match that goes over the window's end, or back before the stream
LzxRejectsMatchNoEnd(len, off) ==
  off > posn /\ (off - posn > Size \/ (off > Len(out) /\ off - posn > stream.opt.ref))
LzxRejectsMatchNoStart(len, off) == posn + len > Size \/ off - posn > Size

LzxRejectsMatch(len, off) ==
  \/ posn + len > Size
  \/ off > posn /\ off > Len(out) /\ off - posn > stream.opt.ref
  \/ off - posn > Size

\* an offset that is coded lies in the window (position_base); a number above
\* 2 * Size is rejected as 2 * Size is, in streams shorter than 2^31 bytes
LzxOffsets == IF z.raw THEN 0 .. 2 * Size ELSE 1 .. Size

\* an offset no match can have.  One that is let in copies what it finds: 0 the
\* unit that the window had there before, and one beyond the window what is
\* nearer by a lap
LzxStray(off) == off \notin 1 .. Size

LzxIntactMatch(len, off) ==
  len <= l.this /\ off <= made + stream.opt.ref /\ ~LzxStray(off)

LzxMatch ==
  /\ At("lzx", "tokens") /\ l.this > 0 /\ made < stream.total
  /\ \E len \in Lengths, off \in LzxOffsets :
       /\ ~LzxRejectsMatch(len, off)
       /\ intact' = (intact /\ LzxIntactMatch(len, off))
       /\ z' = [z EXCEPT !.stray = @ \/ LzxStray(off)]
       /\ l' = [l EXCEPT !.left = len, !.off = off, !.this = @ - len,
                         !.src = IF off > posn THEN Size - (off - posn) ELSE posn - off]
       /\ made' = made + len
  /\ pc' = "copy"
  /\ UNCHANGED <<stream, window, posn, optr, oend, error, want, faults, out, due>>

LzxBadMatch ==
  /\ At("lzx", "tokens") /\ l.this > 0 /\ made < stream.total
  /\ \E len \in Lengths, off \in LzxOffsets :
       /\ LzxRejectsMatch(len, off)
       /\ intact' = (intact /\ LzxIntactMatch(len, off))
  /\ Rejects

\* one unit of a match; a source that reaches the window's end goes on at its
\* start ("do two copy runs")
LzxCopy ==
  /\ At("lzx", "copy")
  /\ Puts(Copied(window[l.src], l.off))
  /\ posn' = posn + 1
  /\ l' = [l EXCEPT !.src = IF @ + 1 = Size THEN 0 ELSE @ + 1, !.left = @ - 1]
  /\ pc' = IF l.left = 1 THEN "tokens" ELSE "copy"
  /\ UNCHANGED <<stream, optr, oend, error, z, want, made, intact, faults, out, due>>

\* a run of a stored block, read into the window in as many pieces as the
\* input buffer has it in
LzxStoredRun ==
  /\ At("lzx", "stored") /\ made + l.this <= stream.total
  /\ window' = [p \in DOMAIN window |->
                  IF p \in posn .. posn + l.this - 1 THEN made + p - posn ELSE window[p]]
  /\ posn' = posn + l.this
  /\ made' = made + l.this
  /\ l' = [l EXCEPT !.this = 0]
  /\ pc' = "tokens"
  /\ UNCHANGED <<stream, optr, oend, error, z, want, intact, faults, out, due>>

LzxUnreadable ==
  /\ \/ At("lzx", "block") /\ l.todo > 0 /\ z.brem = 0
     \/ At("lzx", "tokens") /\ l.this > 0
     \/ At("lzx", "stored")
  /\ Unreadable

\* "did the final match overrun our desired this_run length?"
LzxRunDone ==
  /\ At("lzx", "tokens") /\ l.this <= 0 /\ -l.this <= z.brem
  /\ z' = [z EXCEPT !.brem = @ + l.this]
  /\ pc' = "block"
  /\ UNCHANGED <<stream, window, posn, optr, oend, error, want, l, made, intact, faults, out, due>>

LzxOverrun ==
  /\ At("lzx", "tokens") /\ l.this <= 0 /\ -l.this > z.brem
  /\ UNCHANGED intact
  /\ Rejects

LzxFrameFull == At("lzx", "block") /\ l.todo <= 0

LzxBadFrame ==
  /\ LzxFrameFull
  /\ posn - z.fposn # l.size \/ optr # oend
  /\ UNCHANGED intact
  /\ Rejects

Wrapped(p) == IF p = Size THEN 0 ELSE p

\* the frame is translated if need be, written as far as it is asked for, and
\* the rest of it kept
LzxFrameDone ==
  /\ LzxFrameFull
  /\ posn - z.fposn = l.size /\ optr = oend
  /\ LET n == Least(want, l.size)
         in8 == z.started /\ stream.opt.e8 /\ l.size > E8MIN
         base == IF in8 THEN 0 ELSE z.fposn
         unit(k) == IF in8 /\ window[z.fposn + k] # z.curpos + k THEN JUNK
                    ELSE window[z.fposn + k] IN
       /\ out' = out \o [i \in 1 .. n |-> unit(i - 1)]
       /\ want' = want - n
       /\ optr' = base + n
       /\ oend' = base + l.size
       /\ z' = [z EXCEPT
                  !.frame = @ + 1, !.fposn = Wrapped(@ + l.size), !.in8 = in8,
                  !.e8buf = IF in8 THEN [k \in 0 .. l.size - 1 |-> unit(k)] ELSE <<>>,
                  !.curpos = IF stream.opt.e8 THEN @ + l.size ELSE @]
  /\ posn' = Wrapped(posn)
  /\ pc' = "frame"
  /\ UNCHANGED <<stream, window, error, l, made, intact, faults, due>>

LzxFrameFails ==
  /\ LzxFrameFull
  /\ posn - z.fposn = l.size /\ optr = oend
  /\ WriteFails

LzxReturn ==
  /\ At("lzx", "frame") /\ z.frame >= l.last
  /\ Returns(IF want > 0 THEN "DECRUNCH" ELSE "OK")
  /\ UNCHANGED <<optr, oend, want, intact, faults>>

LzxCallStep ==
  \/ LzxFlush \/ LzxLeftoverFails \/ LzxFrame \/ LzxNewBlock \/ LzxBadBlock \/ LzxRun
  \/ LzxLiteral \/ LzxMatch \/ LzxBadMatch \/ LzxCopy \/ LzxStoredRun \/ LzxUnreadable
  \/ LzxRunDone \/ LzxOverrun \/ LzxBadFrame \/ LzxFrameDone \/ LzxFrameFails \/ LzxReturn

LzxTypeOK ==
  stream.kind = "lzx" =>
    /\ posn \in 0 .. Size
    /\ z.fposn \in 0 .. Size - 1
    /\ z.brem \in 0 .. stream.total
    /\ oend <= IF z.in8 THEN FRAME ELSE Size
    /\ pc = "copy" => posn + l.left <= Size
    /\ pc = "stored" => posn + l.this <= Size

=============================================================================
