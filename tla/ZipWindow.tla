------------------------------ MODULE ZipWindow -----------------------------
(***************************************************************************)
(* mszipd_decompress() and mszipd_decompress_kwaj() (mszipd.c): one        *)
(* deflate stream per frame of 32K into a window that is the frame, with   *)
(* matches that reach back into the frame before, and a repair mode that   *)
(* fills what is lost of a frame with zeros.                               *)
(*                                                                         *)
(* stream.opt: repair, and in a stream that is damaged somewhere ZipDamage *)
(* is where inflate() notices; the next "CK" is the next frame's, so the   *)
(* input goes on there.  A zero that stands for a lost unit is JUNK.       *)
(***************************************************************************)
EXTENDS LzWindow

ZipFresh == [bytes |-> 0, hurt |-> FALSE]

IsZip == stream.kind \in {"mszip", "kwajzip"}
ZipAt(label) == IsZip /\ pc = label
Locals == [last |-> FALSE, some |-> FALSE, left |-> 0, off |-> 0, src |-> 0]

\* mszipd_init() is told to repair by cabd.c only
Repairs == stream.kind = "mszip" /\ stream.opt.repair

ZipEnter == Enters("mszip")
ZipFlush == FlushesLeftover("mszip", window, "frame", Locals)
ZipLeftoverFails == LeftoverFails("mszip")

\* mszipd_decompress_kwaj() is called once, for all there is
KwajEnter ==
  /\ At("kwajzip", "idle") /\ due = 0
  /\ due' = ALL
  /\ want' = 0
  /\ l' = Locals
  /\ pc' = "frame"
  /\ UNCHANGED <<stream, dec, made, intact, faults, out>>

\* block_len is 0 behind the last block
KwajReturn ==
  /\ At("kwajzip", "frame") /\ made >= stream.total
  /\ Returns("OK")
  /\ UNCHANGED <<optr, oend, want, intact, faults>>

\* "skip to next read 'CK' header"
ZipFrame ==
  /\ ZipAt("frame") /\ made < stream.total
  /\ posn' = 0
  /\ z' = [z EXCEPT !.bytes = 0]
  /\ pc' = "block"
  /\ UNCHANGED <<stream, window, optr, oend, error, want, l, made, intact, faults, out, due>>

ZipNoFrame == At("mszip", "frame") /\ Unreadable

\* block_len or "CK" cannot be read, or is not "CK"
KwajUnreadable ==
  /\ At("kwajzip", "frame")
  /\ \/ IOFails /\ UNCHANGED intact
     \/ made < stream.total /\ intact' = FALSE /\ UNCHANGED faults
  /\ Returns("READ")
  /\ UNCHANGED <<optr, oend, want>>

KwajNoHeader ==
  /\ At("kwajzip", "frame") /\ made < stream.total
  /\ intact' = FALSE
  /\ Returns("DATAFORMAT")
  /\ UNCHANGED <<optr, oend, want, faults>>

\* "FLUSH_IF_NEEDED" after n more units: a full window is counted, and a second
\* one is too much for a frame
FlushIfNeeded(n, label) ==
  /\ posn' = (posn + n) % FRAME
  /\ z' = IF posn + n = FRAME THEN [z EXCEPT !.bytes = @ + FRAME] ELSE z
  /\ pc' = IF z'.bytes > FRAME THEN "too_much" ELSE label

InFrame(n) == z.bytes = 0 /\ posn + n <= FRAME /\ made + n <= stream.total

\* a block: stored, with its length in l.left, or Huffman coded.  Blocks without
\* a symbol are modelled only as a frame's last
ZipStoredBlock ==
  /\ ZipAt("block") /\ made < stream.total
  /\ \E last \in BOOLEAN, n \in 1 .. FRAME + 1 :
       /\ made + n <= stream.total
       /\ l' = [l EXCEPT !.last = last, !.left = n, !.some = TRUE]
       /\ intact' = (intact /\ InFrame(n))
  /\ pc' = "stored"
  /\ UNCHANGED <<stream, dec, want, made, faults, out, due>>

ZipHuffmanBlock ==
  /\ ZipAt("block")
  /\ \E last \in BOOLEAN :
       /\ last \/ made < stream.total
       /\ l' = [l EXCEPT !.last = last, !.some = FALSE]
  /\ pc' = "symbols"
  /\ UNCHANGED <<stream, dec, want, made, intact, faults, out, due>>

\* as much of a stored block as the window takes
ZipStoredRun ==
  /\ ZipAt("stored") /\ l.left > 0
  /\ LET n == Least(l.left, FRAME - posn) IN
       /\ window' = [p \in DOMAIN window |->
                       IF p \in posn .. posn + n - 1 THEN made + p - posn ELSE window[p]]
       /\ made' = made + n
       /\ l' = [l EXCEPT !.left = @ - n]
       /\ FlushIfNeeded(n, "stored")
  /\ UNCHANGED <<stream, optr, oend, error, want, intact, faults, out, due>>

ZipLiteral ==
  /\ ZipAt("symbols") /\ made < stream.total
  /\ Puts(made)
  /\ made' = made + 1
  /\ l' = [l EXCEPT !.some = TRUE]
  /\ intact' = (intact /\ InFrame(1))
  /\ FlushIfNeeded(1, "symbols")
  /\ UNCHANGED <<stream, optr, oend, error, want, faults, out, due>>

\* "If distance is more than window position numerically, it must 'wrap around'
\* the frame size."
ZipMatch ==
  /\ ZipAt("symbols") /\ made < stream.total
  /\ \E len \in Lengths, off \in 1 .. FRAME :
       /\ intact' = (intact /\ InFrame(len) /\ off <= made)
       /\ l' = [l EXCEPT !.some = TRUE, !.left = len, !.off = off,
                         !.src = (IF off > posn THEN FRAME ELSE 0) + posn - off]
       /\ made' = made + len
  /\ pc' = "copy"
  /\ UNCHANGED <<stream, dec, want, faults, out, due>>

ZipCopy ==
  /\ ZipAt("copy")
  /\ Puts(Copied(window[l.src], l.off))
  /\ l' = [l EXCEPT !.src = (@ + 1) % FRAME, !.left = @ - 1]
  /\ FlushIfNeeded(1, IF l.left = 1 THEN "symbols" ELSE "copy")
  /\ UNCHANGED <<stream, optr, oend, error, want, made, intact, faults, out, due>>

\* the end of a block; behind the last one, "flush the remaining data"
ZipEndBlock ==
  /\ ZipAt("symbols") \/ (ZipAt("stored") /\ l.left = 0)
  /\ IF l.last
     THEN /\ z.bytes + posn > 0
          /\ z' = [z EXCEPT !.bytes = @ + posn]
          /\ pc' = IF z'.bytes > FRAME THEN "too_much" ELSE "write"
     ELSE /\ l.some
          /\ pc' = "block"
          /\ UNCHANGED z
  /\ UNCHANGED <<stream, window, posn, optr, oend, error, want, l, made, intact, faults, out, due>>

\* inflate() returns an error: the end of the call or, in repair mode, of the
\* frame, which keeps what it has of it.  (A read error is in zip->error by now.)
InflateFails(e) ==
  /\ error' = IF e = "READ" \/ ~Repairs THEN e ELSE error
  /\ IF Repairs
     THEN /\ LET kept == IF z.bytes = 0 THEN posn ELSE FRAME IN
               window' = [p \in DOMAIN window |-> IF p < kept THEN window[p] ELSE JUNK]
          /\ z' = [bytes |-> FRAME, hurt |-> TRUE]
          /\ pc' = "write"
          /\ UNCHANGED l
     ELSE /\ pc' = "idle"
          /\ l' = <<>>
          /\ UNCHANGED <<window, z>>
  /\ UNCHANGED <<stream, posn, optr, oend, want, out, due>>

ZipTooMuch ==
  /\ ZipAt("too_much")
  /\ InflateFails("DECRUNCH")
  /\ UNCHANGED <<made, intact, faults>>

\* a block type, tree or code that is none; what follows is the next frame
ZipDamage ==
  /\ ZipAt("block") \/ ZipAt("symbols")
  /\ InflateFails("DECRUNCH")
  /\ made' = IF z.bytes = 0 THEN Least(stream.total, made - posn + FRAME) ELSE made
  /\ intact' = (intact /\ Repairs)
  /\ UNCHANGED faults

\* a read that fails, or the end of a file that was cut short
ZipUnreadable ==
  /\ ZipAt("block") \/ ZipAt("symbols") \/ (ZipAt("stored") /\ l.left > 0)
  /\ InflateFails("READ")
  /\ \/ IOFails /\ UNCHANGED intact
     \/ intact' = FALSE /\ UNCHANGED faults
  /\ UNCHANGED made

\* "write a frame": all of it for KWAJ, which keeps nothing for later
ZipWrite ==
  /\ ZipAt("write")
  /\ LET n == IF stream.kind = "kwajzip" THEN z.bytes ELSE Least(want, z.bytes) IN
       /\ out' = out \o [i \in 1 .. n |-> window[i - 1]]
       /\ want' = IF stream.kind = "kwajzip" THEN 0 ELSE want - n
       /\ optr' = n
       /\ oend' = IF stream.kind = "kwajzip" THEN n ELSE z.bytes
  /\ pc' = IF error # "OK" \/ (stream.kind = "mszip" /\ want' = 0) THEN "idle" ELSE "frame"
  /\ l' = IF pc' = "idle" THEN <<>> ELSE l
  /\ intact' = (intact /\ (z.bytes = FRAME \/ made >= stream.total))
  /\ UNCHANGED <<stream, window, posn, error, z, made, faults, due>>

ZipWriteFails == ZipAt("write") /\ WriteFails

ZipCallStep ==
  \/ ZipFlush \/ ZipLeftoverFails \/ ZipFrame \/ ZipNoFrame \/ KwajReturn \/ KwajUnreadable
  \/ KwajNoHeader \/ ZipStoredBlock \/ ZipHuffmanBlock \/ ZipStoredRun \/ ZipLiteral \/ ZipMatch \/ ZipCopy
  \/ ZipEndBlock \/ ZipTooMuch \/ ZipDamage \/ ZipUnreadable \/ ZipWrite \/ ZipWriteFails

ZipTypeOK ==
  IsZip =>
    /\ posn \in 0 .. FRAME - 1
    /\ pc \notin {"too_much", "idle"} => z.bytes \in 0 .. FRAME
    /\ optr \in 0 .. oend /\ oend \in 0 .. FRAME

=============================================================================
