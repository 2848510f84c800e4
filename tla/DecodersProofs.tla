--------------------------- MODULE DecodersProofs ---------------------------
(***************************************************************************)
(* No decoder leaves its window: whatever the tokens, for windows and      *)
(* frames of any size, matches of any length and calls of any size, every  *)
(* place that is written to or copied from is in the window, and what      *)
(* waits to be written is too.                                             *)
(*                                                                         *)
(* The decoders share no state, so the invariant has one part for each.    *)
(* That of LZX has to follow its frames: they keep to the window because   *)
(* they begin at multiples of the frame size, and only the last one of     *)
(* the stream is short.                                                    *)
(*                                                                         *)
(* Behind that: that each decoder implements LzStream, that what it        *)
(* writes is the stream in order, and that a stream as it should be is     *)
(* decoded without an error.                                               *)
(***************************************************************************)
EXTENDS Decoders, TLAPS

\* within a call, behind the flush of what was left
Busy == pc \notin {"idle", "leftover"}
InWindow(p) == p \in Nat /\ p < Size

RingKept ==
  IsRing =>
    /\ InWindow(posn)
    /\ pc \in {"idle", "tokens", "copy"}
    /\ pc # "idle" => {"left", "off", "src"} \subseteq DOMAIN l
    /\ pc = "copy" => InWindow(l.src)

\* A match over the window's end comes in two parts, and what is stored up is
\* written in between; what is stored up never reaches beyond what is decoded.
QtmKept ==
  stream.kind = "quantum" =>
    /\ {"todo", "header"} \subseteq DOMAIN z /\ z.todo \in Int /\ z.todo <= FRAME
    /\ want \in Nat
    /\ {posn, oend, optr} \subseteq Nat /\ optr <= oend /\ oend <= posn /\ posn <= Size
    /\ error = "OK" \/ pc = "idle"
    /\ error = "OK" /\ pc \in {"idle", "leftover", "head", "wrap", "out"} => z.todo >= 1
    /\ Busy => /\ {"end", "left", "rest", "off", "src"} \subseteq DOMAIN l
               /\ l.end \in Int /\ l.left \in Int /\ l.rest \in Nat
    /\ pc \in {"tokens", "copy"} => l.end <= Size
    /\ pc \in {"copy", "wrap_match", "second_part"} => InWindow(l.src) /\ l.rest < Size
    /\ pc = "copy" => l.left >= 1 /\ posn + l.left <= Size /\ (l.rest > 0 => posn + l.left = Size)
    /\ pc = "wrap_match" => posn = Size /\ l.rest >= 1
    /\ pc = "second_part" => l.left >= 1 /\ posn + l.left < Size
    /\ pc = "out" => want <= oend - optr

\* A frame is counted when it is full, so that the place goes back to 0; one
\* that is more than a frame ends the call, or is repaired.
ZipKept ==
  IsZip =>
    /\ {"bytes", "hurt"} \subseteq DOMAIN z /\ z.bytes \in Nat
    /\ want \in Nat
    /\ InWindow(posn)
    /\ {oend, optr} \subseteq Nat /\ optr <= oend /\ oend <= FRAME
    /\ error = "OK" \/ pc \in {"idle", "write"}
    /\ stream.kind = "kwajzip" => due # 0 \/ (pc = "idle" /\ error = "OK")
    /\ pc \notin {"idle", "too_much"} \/ (pc = "idle" /\ error = "OK") => z.bytes <= FRAME
    /\ Busy => /\ {"last", "some", "left", "off", "src"} \subseteq DOMAIN l
               /\ l.left \in Int
    /\ pc # "second_part" /\ (pc = "copy" => InWindow(l.src))

-----------------------------------------------------------------------------
\* what a place of the window may hold
Units == Int \cup {JUNK}

\* The whole frames decoded so far, or all of the stream.
Decoded == Len(out) + (oend - optr)
WholeFrames == Decoded = z.frame * FRAME /\ z.fposn % FRAME = 0
AllThere == z.length = stream.total /\ Decoded = stream.total

\* "end_frame", the last one a call decodes.
LastFrame == due \div FRAME + 1

\* The memory of LZX, what it holds, and what a call has done and has to do.
LzxMemory ==
  /\ window \in [0 .. Size - 1 -> Units]
  /\ out \in Seq(Units)
  /\ {oend, optr} \subseteq Nat /\ optr <= oend /\ oend <= Size
  /\ z.in8 => oend <= FRAME /\ z.e8buf \in [0 .. oend - 1 -> Units]
  /\ made \in Nat /\ due \in Nat /\ due <= stream.total
  /\ want \in Nat /\ due = Len(out) + want

\* What is decoded of a frame and what is to come add up to it, unless a match
\* has overrun it.
LzxRuns ==
  /\ l.todo \in Nat /\ l.this \in Int /\ l.left \in Int /\ l.off \in Int
  /\ z.brem \in Nat /\ z.brem <= stream.total
  /\ pc = "block" /\ l.todo > 0 => posn + l.todo = z.fposn + l.size
  /\ pc \in {"tokens", "stored"} => posn + l.this + l.todo = z.fposn + l.size
  /\ pc = "copy" => posn + l.left + l.this + l.todo = z.fposn + l.size
  /\ pc \in {"tokens", "stored", "copy"} /\ l.todo > 0 => z.brem = 0
  /\ pc = "stored" => l.this >= 0
  /\ pc = "copy" => l.left >= 1 /\ posn + l.left <= Size /\ InWindow(l.src)

LzxFields ==
  {"frame", "fposn", "brem", "stored", "started", "curpos", "length", "in8", "e8buf", "raw",
   "stray"}
LzxLocals == {"last", "size", "todo", "this", "left", "off", "src"}
Decoding == pc \in {"block", "tokens", "copy", "stored"}

\* A frame lies in the window, and is only short if it is the stream's last.
LzxKept ==
  stream.kind = "lzx" =>
    /\ LzxFields \subseteq DOMAIN z
    /\ z.frame \in Nat /\ InWindow(z.fposn) /\ z.brem \in Nat /\ z.brem <= stream.total
    /\ z.length \in {0, stream.total} /\ z.curpos \in Int
    /\ posn \in Nat /\ posn <= Size
    /\ error = "OK" \/ pc = "idle"
    /\ pc \in {"idle", "leftover", "frame", "block", "tokens", "copy", "stored"}
    /\ LzxMemory
    /\ error = "OK" /\ pc \in {"idle", "leftover", "frame"} => posn = z.fposn
    /\ error = "OK" /\ pc \in {"idle", "leftover"} => WholeFrames \/ AllThere
    /\ Busy => /\ LzxLocals \subseteq DOMAIN l /\ l.last = LastFrame
               /\ l.this \in Int /\ l.left \in Int /\ l.off \in Int
    /\ pc = "frame" => WholeFrames \/ (AllThere /\ z.frame >= l.last)
    /\ Decoding => /\ WholeFrames /\ z.frame < l.last
                   /\ l.size \in Nat /\ l.size <= FRAME
                   /\ l.size # FRAME => z.length = stream.total /\ l.size = stream.total - Len(out)
                   /\ LzxRuns

Inv ==
  /\ stream \in Streams
  /\ RingKept /\ QtmKept /\ ZipKept /\ LzxKept

-----------------------------------------------------------------------------
(* Arithmetic.                                                              *)

\* What the constants say of the stream at hand.
LEMMA StreamFacts ==
  ASSUME stream \in Streams
  PROVE  /\ Size \in Nat \ {0} /\ FRAME \in Nat \ {0} /\ stream.total \in Nat
         /\ stream.start \in 0 .. Size - 1
         /\ stream.kind \in {"lzx", "quantum", "mszip", "kwajzip", "lzss", "lzh"}
         /\ stream.kind = "lzx" => stream.start = 0 /\ Size % FRAME = 0
         /\ IsZip => Size = FRAME
         /\ stream.kind = "quantum" => \A n \in Lengths : n <= Size
BY LzWindowAssumption DEF LzWindowAssumption, Size, FRAME, IsZip

\* Which actions are whose.
LEMMA KindOfStep ==
  /\ LzxEnter \/ LzxSetOutputLength \/ LzxCallStep => stream.kind = "lzx"
  /\ QtmEnter \/ QtmCallStep => stream.kind = "quantum"
  /\ ZipEnter \/ KwajEnter \/ ZipCallStep => stream.kind \in {"mszip", "kwajzip"}
  /\ RingCall \/ RingCallStep => stream.kind \in {"lzss", "lzh"}
<1>1. LzxEnter \/ LzxSetOutputLength \/ LzxCallStep => stream.kind = "lzx"
  BY DEF LzxEnter, LzxSetOutputLength, LzxCallStep, Enters, At, LzxFlush, FlushesLeftover,
     LzxLeftoverFails, LeftoverFails, LzxFrame, LzxNewBlock, LzxBadBlock, LzxRun, LzxLiteral,
     LzxMatch, LzxBadMatch, LzxCopy, LzxStoredRun, LzxUnreadable, LzxRunDone, LzxOverrun,
     LzxBadFrame, LzxFrameFull, LzxFrameDone, LzxFrameFails, LzxReturn
<1>2. QtmEnter \/ QtmCallStep => stream.kind = "quantum"
  BY DEF QtmEnter, QtmCallStep, Enters, At, QtmFlush, FlushesLeftover, QtmLeftoverFails,
     LeftoverFails, QtmHead, QtmEnough, QtmLiteral, QtmMatch, QtmCopy, QtmWrapMatch, QtmBailsOut,
     QtmSecondPart, QtmStops, QtmStop, QtmOvershot, QtmWrap, QtmKeep, QtmOut, QtmWriteFails,
     QtmUnreadable, QtmTrailerUnreadable
<1>3. ZipEnter \/ KwajEnter \/ ZipCallStep => stream.kind \in {"mszip", "kwajzip"}
  BY DEF ZipEnter, KwajEnter, ZipCallStep, Enters, At, ZipAt, IsZip, ZipFlush, FlushesLeftover,
     ZipLeftoverFails, LeftoverFails, ZipFrame, ZipNoFrame, KwajReturn, KwajUnreadable,
     KwajNoHeader, ZipStoredBlock, ZipHuffmanBlock, ZipStoredRun, ZipLiteral, ZipMatch,
     ZipCopy, ZipEndBlock, ZipTooMuch, ZipDamage, ZipUnreadable, ZipWrite, ZipWriteFails
<1>4. RingCall \/ RingCallStep => stream.kind \in {"lzss", "lzh"}
  BY DEF RingCall, RingCallStep, At, RingAt, IsRing, RingLiteral, RingMatch, RingCopy, RingEnd,
     RingUnreadable, RingBadTrees, RingWriteFails
<1> QED
  BY <1>1, <1>2, <1>3, <1>4

\* A place goes round a ring.
LEMMA Round ==
  ASSUME NEW n \in Nat \ {0}, NEW p \in Int
  PROVE  p % n \in Nat /\ p % n < n
OBVIOUS

\* Multiples of F are at least F apart.
LEMMA Multiples ==
  ASSUME NEW F \in Nat, NEW j \in Nat, NEW k \in Nat, j * F < k * F
  PROVE  j * F + F <= k * F
<1>1. j < k
  <2> SUFFICES ASSUME k <= j PROVE FALSE
    OBVIOUS
  <2>1. (j - k) * F \in Nat
    OBVIOUS
  <2>2. (j - k) * F = j * F - k * F
    OBVIOUS
  <2> QED
    BY <2>1, <2>2
<1>2. (k - j - 1) * F \in Nat
  BY <1>1
<1>3. (k - j - 1) * F = k * F - j * F - F
  OBVIOUS
<1> QED
  BY <1>2, <1>3

\* A frame that begins at a multiple of its size fits a window that is one too.
LEMMA FrameFits ==
  ASSUME NEW F \in Nat \ {0}, NEW s \in Nat, NEW p \in Nat,
         s % F = 0, p % F = 0, p < s
  PROVE  p + F <= s /\ (p + F) % F = 0
<1>1. /\ s = (s \div F) * F /\ s \div F \in Nat
      /\ p = (p \div F) * F /\ p \div F \in Nat
  OBVIOUS
<1>2. p + F <= s
  BY <1>1, Multiples
<1>3. (p + F) % F = 0
  <2>1. PICK q \in Int, r \in 0 .. F - 1 : p + F = q * F + r /\ r = (p + F) % F
    <3>1. /\ (p + F) \div F \in Int /\ (p + F) % F \in 0 .. F - 1
          /\ p + F = ((p + F) \div F) * F + ((p + F) % F)
      OBVIOUS
    <3> QED
      BY <3>1
  <2>2. (q - p \div F - 1) * F = -r
    BY <1>1, <2>1
  <2> SUFFICES ASSUME r # 0 PROVE FALSE
    BY <2>1
  <2>3. CASE q - p \div F - 1 >= 0
    BY <1>1, <2>2, <2>3
  <2>4. CASE q - p \div F - 1 <= -1
    BY <1>1, <2>2, <2>4
  <2> QED
    BY <1>1, <2>3, <2>4
<1> QED
  BY <1>2, <1>3

\* A place before the end of the k-th frame is in the k-th at the latest.
LEMMA FrameOf ==
  ASSUME NEW F \in Nat \ {0}, NEW k \in Nat, NEW d \in Nat, d < k * F + F
  PROVE  d \div F <= k
<1>1. d \div F \in Nat /\ (d \div F) * F <= d
  OBVIOUS
<1>2. CASE k * F < (d \div F) * F
  BY <1>1, <1>2, Multiples
<1>3. CASE (d \div F) * F <= k * F
  <2> SUFFICES ASSUME k < d \div F PROVE FALSE
    BY <1>1
  <2>1. (d \div F - k) * F \in Nat \ {0}
    BY <1>1
  <2>2. (d \div F - k) * F = (d \div F) * F - k * F
    BY <1>1
  <2> QED
    BY <1>1, <1>3, <2>1, <2>2
<1> QED
  BY <1>1, <1>2, <1>3

\* Units are written behind the others.
LEMMA Appended ==
  ASSUME NEW S, NEW s \in Seq(S), NEW t \in Seq(S)
  PROVE  s \o t \in Seq(S) /\ Len(s \o t) = Len(s) + Len(t)
OBVIOUS

-----------------------------------------------------------------------------
(* LZSS and LZH.                                                            *)

\* Places go round.
LEMMA RingStep ==
  ASSUME stream \in Streams, IsRing, RingKept, RingCall \/ RingCallStep
  PROVE  RingKept' /\ stream' = stream
<1>1. Size \in Nat \ {0}
  BY StreamFacts
<1> USE DEF RingKept, InWindow, RingAt, IsRing, At, Size
<1>2. CASE RingCall
  BY <1>2 DEF RingCall, dec
<1>3. CASE RingLiteral
  BY <1>1, <1>3, Round, posn + 1 \in Int DEF RingLiteral, RingPuts
<1>4. CASE RingMatch
  <2>1. PICK len \in Lengths, off \in 1 .. Size :
          l' = [left |-> len, off |-> off, src |-> (posn - off) % Size]
    BY <1>4 DEF RingMatch
  <2>2. InWindow(l'.src) /\ {"left", "off", "src"} \subseteq DOMAIN l'
    BY <1>1, <2>1, Round
  <2> QED
    BY <1>4, <2>2 DEF RingMatch, dec
<1>5. CASE RingCopy
  <2>1. l.src + 1 \in Int /\ posn + 1 \in Int
    BY <1>1, <1>5 DEF RingCopy
  <2>2. InWindow((l.src + 1) % Size) /\ InWindow((posn + 1) % Size)
    BY <1>1, <2>1, Round
  <2> QED
    BY <1>5, <2>2 DEF RingCopy, RingPuts
<1>6. CASE RingEnd
  BY <1>6 DEF RingEnd, Returns
<1>7. CASE RingUnreadable
  BY <1>7 DEF RingUnreadable, Returns
<1>8. CASE RingBadTrees
  BY <1>8 DEF RingBadTrees, Returns
<1>9. CASE RingWriteFails
  BY <1>9 DEF RingWriteFails, WriteFails, Returns
<1> QED
  BY <1>2, <1>3, <1>4, <1>5, <1>6, <1>7, <1>8, <1>9 DEF RingCallStep

-----------------------------------------------------------------------------
(* Quantum.                                                                 *)

\* A match is copied up to the window's end and no further.
LEMMA QtmStep ==
  ASSUME stream \in Streams, stream.kind = "quantum", QtmKept, QtmEnter \/ QtmCallStep
  PROVE  QtmKept' /\ stream' = stream
<1>1. Size \in Nat \ {0} /\ FRAME \in Nat \ {0}
  BY StreamFacts
<1>2. Asks \subseteq Nat /\ Lengths \subseteq Nat \ {0}
  BY LzWindowAssumption DEF LzWindowAssumption
<1> USE DEF QtmKept, Busy, InWindow, At, Size, FRAME
<1>3. CASE QtmEnter
  BY <1>1, <1>2, <1>3 DEF QtmEnter, Enters, dec
<1>4. CASE QtmFlush
  BY <1>1, <1>4 DEF QtmFlush, FlushesLeftover, Writes, Least
<1>5. CASE QtmLeftoverFails
  BY <1>1, <1>5 DEF QtmLeftoverFails, LeftoverFails, WriteFails, Returns
<1>6. CASE QtmHead
  BY <1>1, <1>6 DEF QtmHead, QtmHave, Least
<1>7. CASE QtmEnough
  BY <1>1, <1>7 DEF QtmEnough, QtmHave, dec
<1>8. CASE QtmLiteral
  BY <1>1, <1>8 DEF QtmLiteral
<1>9. CASE QtmMatch
  <2>1. PICK len \in Lengths, off \in 1 .. Size :
          /\ LET first == IF QtmWraps(len) THEN Size - posn ELSE len IN
               l' = [l EXCEPT !.left = first, !.rest = len - first, !.off = off,
                              !.src = (posn - off) % Size]
          /\ z' = [z EXCEPT !.todo = @ - len]
    BY <1>9 DEF QtmMatch
  <2>2. posn < l.end /\ l.end \in Int /\ l.end <= Size /\ posn \in 0 .. Size /\ len \in 1 .. Size
    <3>1. len \in Nat \ {0} /\ len <= Size
      BY <1>2, StreamFacts
    <3> QED
      BY <1>1, <1>9, <3>1 DEF QtmMatch
  <2>3. /\ {"end", "left", "rest", "off", "src"} \subseteq DOMAIN l' /\ l'.end = l.end
        /\ l'.left = IF posn + len > Size THEN Size - posn ELSE len
        /\ l'.rest = len - (IF posn + len > Size THEN Size - posn ELSE len)
        /\ l'.src = (posn - off) % Size
    BY <1>9, <2>1 DEF QtmMatch, QtmWraps
  <2>4. InWindow(l'.src)
    <3> HIDE DEF Size, QtmKept
    <3>1. posn - off \in Int
      BY <1>1, <2>2
    <3> QED
      BY <1>1, <2>3, <3>1, Round
  <2>5. z.todo \in Int /\ z.todo <= FRAME /\ {"todo", "header"} \subseteq DOMAIN z
    OBVIOUS
  <2>6. z' = [z EXCEPT !.todo = @ - len]
    BY <2>1
  <2> HIDE DEF QtmKept
  <2>7. /\ l'.left \in Int /\ l'.left >= 1 /\ posn + l'.left <= Size
        /\ l'.rest \in Nat /\ l'.rest < Size /\ (l'.rest > 0 => posn + l'.left = Size)
    <3>1. CASE posn + len > Size
      BY <1>1, <2>2, <2>3, <3>1
    <3>2. CASE posn + len <= Size
      BY <1>1, <2>2, <2>3, <3>2
    <3> QED
      BY <1>1, <2>2, <3>1, <3>2
  <2>8. {"todo", "header"} \subseteq DOMAIN z' /\ z'.todo \in Int /\ z'.todo <= FRAME
    BY <1>1, <2>2, <2>5, <2>6
  <2> QED
    BY <1>9, <2>2, <2>3, <2>4, <2>7, <2>8 DEF QtmMatch, QtmKept
<1>10. CASE QtmCopy
  <2>1. {"end", "left", "rest", "off", "src"} \subseteq DOMAIN l /\ l.src + 1 \in Int
    BY <1>10 DEF QtmCopy
  <2>2. InWindow((l.src + 1) % Size)
    BY <1>1, <2>1, Round
  <2> QED
    BY <1>1, <1>10, <2>1, <2>2 DEF QtmCopy
<1>11. CASE QtmWrapMatch
  BY <1>1, <1>11 DEF QtmWrapMatch, Writes
<1>12. CASE QtmBailsOut
  BY <1>1, <1>12 DEF QtmBailsOut, Rejects, Returns
<1>13. CASE QtmSecondPart
  <2>1. {"end", "left", "rest", "off", "src"} \subseteq DOMAIN l /\ l.src + 1 \in Int
    BY <1>13 DEF QtmSecondPart
  <2>2. InWindow((l.src + 1) % Size)
    BY <1>1, <2>1, Round
  <2> QED
    BY <1>1, <1>13, <2>1, <2>2 DEF QtmSecondPart
<1>14. CASE QtmStop
  BY <1>1, <1>14 DEF QtmStop, QtmStops
<1>15. CASE QtmOvershot
  BY <1>1, <1>15 DEF QtmOvershot, QtmStops, Rejects, Returns
<1>16. CASE QtmWrap
  BY SMTT(30), <1>1, <1>16 DEF QtmWrap, QtmHave, Writes
<1>17. CASE QtmKeep
  BY <1>1, <1>17 DEF QtmKeep, QtmHave, dec
<1>18. CASE QtmOut
  BY <1>1, <1>18 DEF QtmOut, Writes
<1>19. CASE QtmWriteFails
  BY <1>1, <1>19 DEF QtmWriteFails, WriteFails, Returns
<1>20. CASE QtmUnreadable
  BY <1>1, <1>20 DEF QtmUnreadable, Unreadable, Returns
<1>21. CASE QtmTrailerUnreadable
  BY <1>1, <1>21 DEF QtmTrailerUnreadable, QtmStops, Returns
<1> QED
  BY <1>3, <1>4, <1>5, <1>6, <1>7, <1>8, <1>9, <1>10, <1>11, <1>12, <1>13, <1>14, <1>15, <1>16,
     <1>17, <1>18, <1>19, <1>20, <1>21 DEF QtmCallStep

-----------------------------------------------------------------------------
(* MSZIP.                                                                   *)

\* The place goes round the window, which is the frame.
LEMMA ZipStep ==
  ASSUME stream \in Streams, IsZip, ZipKept, ZipEnter \/ KwajEnter \/ ZipCallStep
  PROVE  ZipKept' /\ stream' = stream
<1>1. FRAME \in Nat \ {0} /\ Size = FRAME
  BY StreamFacts
<1>2. Asks \subseteq Nat /\ Lengths \subseteq Nat \ {0}
  BY LzWindowAssumption DEF LzWindowAssumption
<1> USE DEF ZipKept, Busy, InWindow, At, ZipAt, IsZip, Size, FRAME, Locals
<1>3. CASE ZipEnter
  BY <1>1, <1>2, <1>3 DEF ZipEnter, Enters, dec
<1>4. CASE ZipFlush
  BY SMTT(30), <1>1, <1>4 DEF ZipFlush, FlushesLeftover, Writes, Least
<1>5. CASE ZipLeftoverFails
  BY <1>1, <1>5 DEF ZipLeftoverFails, LeftoverFails, WriteFails, Returns
<1>6. CASE KwajEnter
  BY <1>1, <1>6 DEF KwajEnter, ALL, dec
<1>7. CASE KwajReturn
  BY <1>1, <1>7 DEF KwajReturn, Returns
<1>8. CASE ZipFrame
  BY <1>1, <1>8 DEF ZipFrame
<1>9. CASE ZipNoFrame
  BY <1>1, <1>9 DEF ZipNoFrame, Unreadable, Returns
<1>10. CASE KwajUnreadable
  BY <1>1, <1>10 DEF KwajUnreadable, Returns
<1>11. CASE KwajNoHeader
  BY <1>1, <1>11 DEF KwajNoHeader, Returns
<1>12. CASE ZipStoredBlock
  BY <1>1, <1>12 DEF ZipStoredBlock, dec
<1>13. CASE ZipHuffmanBlock
  BY <1>1, <1>13 DEF ZipHuffmanBlock, dec
<1>14. CASE ZipStoredRun
  <2>1. PICK n \in Int : /\ n = Least(l.left, FRAME - posn)
                         /\ l' = [l EXCEPT !.left = @ - n]
                         /\ FlushIfNeeded(n, "stored")
    BY <1>1, <1>14 DEF ZipStoredRun, Least
  <2>2. InWindow((posn + n) % FRAME)
    BY <1>1, <1>14, Round, posn + n \in Int DEF ZipStoredRun
  <2> QED
    BY <1>1, <1>14, <2>1, <2>2 DEF ZipStoredRun, FlushIfNeeded
<1>15. CASE ZipLiteral
  <2>1. InWindow((posn + 1) % FRAME)
    BY <1>1, <1>15, Round, posn + 1 \in Int DEF ZipLiteral
  <2> QED
    BY <1>1, <1>15, <2>1 DEF ZipLiteral, FlushIfNeeded
<1>16. CASE ZipMatch
  BY <1>1, <1>2, <1>16 DEF ZipMatch, dec
<1>17. CASE ZipCopy
  <2>1. InWindow((posn + 1) % FRAME) /\ InWindow((l.src + 1) % FRAME)
    BY <1>1, <1>17, Round, posn + 1 \in Int, l.src + 1 \in Int DEF ZipCopy
  <2> QED
    BY <1>1, <1>17, <2>1 DEF ZipCopy, FlushIfNeeded
<1>18. CASE ZipEndBlock
  BY <1>1, <1>18 DEF ZipEndBlock
<1>19. CASE ZipTooMuch
  BY <1>1, <1>19 DEF ZipTooMuch, InflateFails
<1>20. CASE ZipDamage
  BY <1>1, <1>20 DEF ZipDamage, InflateFails
<1>21. CASE ZipUnreadable
  BY <1>1, <1>21 DEF ZipUnreadable, InflateFails
<1>22. CASE ZipWrite
  BY <1>1, <1>22 DEF ZipWrite, Least
<1>23. CASE ZipWriteFails
  BY <1>1, <1>23 DEF ZipWriteFails, WriteFails, Returns
<1> QED
  BY <1>3, <1>4, <1>5, <1>6, <1>7, <1>8, <1>9, <1>10, <1>11, <1>12, <1>13, <1>14, <1>15, <1>16,
     <1>17, <1>18, <1>19, <1>20, <1>21, <1>22, <1>23 DEF ZipCallStep

-----------------------------------------------------------------------------
(* LZX.                                                                     *)

\* What counts frames is the same where these are.
LEMMA FramesStay ==
  ASSUME FRAME' = FRAME, optr' = optr, oend' = oend, out' = out,
         z'.frame = z.frame, z'.fposn = z.fposn, due' = due
  PROVE  WholeFrames' = WholeFrames /\ Decoded' = Decoded /\ LastFrame' = LastFrame
BY DEF WholeFrames, Decoded, LastFrame

\* The memory is as it was, but for units of the window.
LEMMA MemoryStays ==
  ASSUME LzxMemory, made' \in Nat, window' \in [0 .. Size - 1 -> Units],
         UNCHANGED <<stream, out, optr, oend, want, due>>,
         z'.in8 = z.in8, z'.e8buf = z.e8buf
  PROVE  LzxMemory'
<1>1. Size' = Size /\ FRAME' = FRAME
  BY DEF Size, FRAME
<1> QED
  BY <1>1 DEF LzxMemory

\* A frame that is decoded has room in the window.
LEMMA LzxRoom ==
  ASSUME stream \in Streams, stream.kind = "lzx", LzxKept, Decoding
  PROVE  /\ z.fposn \in Nat /\ l.size \in Nat /\ z.fposn + l.size <= Size
         /\ l.size = FRAME => (z.fposn + l.size) % FRAME = 0
<1>1. Size \in Nat /\ FRAME \in Nat \ {0} /\ Size % FRAME = 0
  BY StreamFacts
<1>2. z.fposn \in Nat /\ z.fposn < Size
  BY DEF LzxKept, InWindow
<1>3. l.size \in Nat /\ l.size <= FRAME /\ z.fposn % FRAME = 0
  BY DEF LzxKept, WholeFrames
<1>4. z.fposn + FRAME <= Size /\ (z.fposn + FRAME) % FRAME = 0
  BY <1>1, <1>2, <1>3, FrameFits
<1> QED
  BY <1>1, <1>2, <1>3, <1>4

\* A step within a frame changes the place, the runs and the window's units.
SameFrame ==
  /\ UNCHANGED <<stream, optr, oend, error, want, out, due>>
  /\ DOMAIN z' = DOMAIN z /\ DOMAIN l' = DOMAIN l
  /\ \A f \in LzxFields \ {"brem", "stored", "started", "raw", "stray"} : z'[f] = z[f]
  /\ l'.last = l.last /\ l'.size = l.size
  /\ made' \in Nat /\ window' \in [0 .. Size - 1 -> Units]

LEMMA WithinFrame ==
  ASSUME stream \in Streams, stream.kind = "lzx", LzxKept, Decoding, Decoding',
         SameFrame, LzxRuns', posn' \in Nat, posn' <= Size
  PROVE  LzxKept'
<1>1. Size' = Size /\ FRAME' = FRAME
  BY DEF SameFrame, Size, FRAME
<1>2. /\ z'.frame = z.frame /\ z'.fposn = z.fposn /\ z'.curpos = z.curpos
      /\ z'.length = z.length /\ z'.in8 = z.in8 /\ z'.e8buf = z.e8buf
  BY DEF SameFrame, LzxFields
<1>3. LzxMemory'
  BY <1>2, MemoryStays DEF SameFrame, LzxKept
<1>4. WholeFrames' = WholeFrames /\ LastFrame' = LastFrame
  BY <1>1, <1>2, FramesStay DEF SameFrame
<1>5. /\ z'.brem \in Nat /\ z'.brem <= stream'.total
      /\ l'.this \in Int /\ l'.left \in Int /\ l'.off \in Int
  BY DEF LzxRuns
<1> QED
  BY <1>1, <1>2, <1>3, <1>4, <1>5 DEF SameFrame, LzxKept, Decoding, Busy, InWindow

\* A unit, a run or a match is decoded in the frame it belongs to.
LEMMA LzxFrameStep ==
  ASSUME stream \in Streams, stream.kind = "lzx", LzxKept,
         \/ LzxNewBlock \/ LzxRun \/ LzxLiteral \/ LzxMatch \/ LzxCopy \/ LzxStoredRun
         \/ LzxRunDone
  PROVE  LzxKept' /\ stream' = stream
<1>1. Size \in Nat \ {0} /\ stream.total \in Nat /\ Lengths \subseteq Nat \ {0}
  BY StreamFacts, LzWindowAssumption DEF LzWindowAssumption
<1>2. Decoding /\ Decoding' /\ stream' = stream
  BY DEF Decoding, LzxNewBlock, LzxRun, LzxLiteral, LzxMatch, LzxCopy, LzxStoredRun, LzxRunDone,
         At, call
<1>3. Size' = Size
  BY <1>2 DEF Size
<1>4. /\ z.fposn \in Nat /\ l.size \in Nat /\ z.fposn + l.size <= Size
      /\ posn \in Nat /\ posn <= Size
      /\ LzxFields \subseteq DOMAIN z /\ LzxLocals \subseteq DOMAIN l
      /\ window \in [0 .. Size - 1 -> Units] /\ made \in Nat
  BY <1>2, LzxRoom DEF LzxKept, LzxMemory, Decoding, Busy
<1>5. LzxRuns
  BY <1>2 DEF LzxKept
<1> SUFFICES SameFrame /\ LzxRuns' /\ posn' \in Nat /\ posn' <= Size
  BY <1>2, WithinFrame
<1> USE DEF SameFrame, LzxRuns, LzxFields, LzxLocals, At, InWindow
<1>6. CASE LzxNewBlock
  <2>1. PICK b \in 1 .. stream.total - made : \E stored, raw, started :
          z' = [z EXCEPT !.brem = b, !.stored = stored, !.raw = raw, !.started = started]
    <3>1. PICK b \in 1 .. stream.total - made, stored \in BOOLEAN, e8seen \in BOOLEAN :
            z' = [z EXCEPT !.brem = b, !.stored = stored, !.raw = @ \/ stored,
                           !.started = @ \/ e8seen \/ (stored /\ stream.opt.e8)]
      BY <1>6 DEF LzxNewBlock
    <3> DEFINE started == z.started \/ e8seen \/ (stored /\ stream.opt.e8)
             raw == z.raw \/ stored
    <3>2. z' = [z EXCEPT !.brem = b, !.stored = stored, !.raw = raw, !.started = started]
      BY <3>1
    <3> HIDE DEF started, raw
    <3> QED
      BY <3>2
  <2>2. /\ UNCHANGED <<stream, window, posn, optr, oend, error, pc, want, l, made, out, due>>
        /\ pc = "block"
    BY <1>6 DEF LzxNewBlock, call
  <2>3. b \in Nat /\ b <= stream.total
    BY <1>1, <1>4
  <2> QED
    BY <1>1, <1>3, <1>4, <1>5, <2>1, <2>2, <2>3
<1>7. CASE LzxRun
  BY SMTT(30), <1>1, <1>3, <1>4, <1>5, <1>7 DEF LzxRun, Least
<1>8. CASE LzxLiteral
  <2>1. window' \in [0 .. Size - 1 -> Units] /\ made' \in Nat
    <3>1. window \in [0 .. Size - 1 -> Units] /\ made \in Nat /\ made \in Units
      BY <1>4 DEF Units
    <3>2. window' = [window EXCEPT ![posn] = made] /\ made' = made + 1
      BY <1>8 DEF LzxLiteral, Puts
    <3>3. window' \in [0 .. Size - 1 -> Units]
      BY <3>1, <3>2
    <3> QED
      BY <1>4, <3>2, <3>3
  <2>2. SameFrame
    BY <1>4, <1>8, <2>1 DEF LzxLiteral
  <2>3. LzxRuns' /\ posn' \in Nat /\ posn' <= Size
    <3>1. pc = "tokens" /\ l.this >= 1 /\ posn + l.this + l.todo = z.fposn + l.size
      BY <1>5, <1>8 DEF LzxLiteral
    <3>2. /\ pc' = pc /\ z' = z /\ stream' = stream /\ posn' = posn + 1
          /\ l' = [l EXCEPT !.this = @ - 1]
      BY <1>8 DEF LzxLiteral
    <3>3. posn + 1 <= Size
      BY <1>1, <1>4, <1>5, <3>1
    <3> QED
      BY SMTT(30), <1>1, <1>3, <1>4, <1>5, <3>1, <3>2, <3>3
  <2> QED
    BY <2>2, <2>3
<1>9. CASE LzxMatch
  <2>1. PICK len \in Lengths, off \in LzxOffsets :
          /\ ~LzxRejectsMatch(len, off)
          /\ l' = [l EXCEPT !.left = len, !.off = off, !.this = @ - len,
                            !.src = IF off > posn THEN Size - (off - posn) ELSE posn - off]
          /\ z' = [z EXCEPT !.stray = @ \/ LzxStray(off)]
          /\ made' = made + len
    BY <1>9 DEF LzxMatch
  <2>2. /\ len \in Nat /\ len >= 1 /\ off \in Nat /\ off - posn <= Size /\ posn + len <= Size
    BY <1>1, <1>4, <2>1 DEF LzxRejectsMatch, LzxOffsets
  <2>3. /\ pc = "tokens" /\ pc' = "copy"
        /\ UNCHANGED <<stream, window, posn, optr, oend, error, want, out, due>>
    BY <1>9 DEF LzxMatch
  <2>4. DOMAIN z' = DOMAIN z /\ \A f \in LzxFields \ {"stray"} : z'[f] = z[f]
    BY <1>4, <2>1
  <2>5. z'.brem = z.brem /\ z'.fposn = z.fposn
    BY <2>4
  <2>6. SameFrame
    BY <1>4, <2>1, <2>2, <2>3, <2>4
  <2>7. LzxRuns'
    <3>1. /\ l'.left = len /\ l'.off = off /\ l'.this = l.this - len /\ l'.todo = l.todo
          /\ l'.size = l.size /\ l'.src = IF off > posn THEN Size - (off - posn) ELSE posn - off
      BY <1>4, <2>1
    <3>2. l'.src \in Nat /\ l'.src < Size
      BY <1>1, <1>4, <2>2, <3>1
    <3>3. posn + l.this + l.todo = z.fposn + l.size
      BY <1>5, <2>3
    <3>4. posn + len + (l.this - len) + l.todo = z.fposn + l.size
      BY <1>1, <1>4, <1>5, <2>2, <3>3
    <3> QED
      BY <1>1, <1>3, <1>4, <1>5, <2>2, <2>3, <2>5, <3>1, <3>2, <3>4
  <2> QED
    BY <1>4, <2>3, <2>6, <2>7
<1>10. CASE LzxCopy
  <2>1. window' \in [0 .. Size - 1 -> Units]
    BY SMTT(30), <1>1, <1>4, <1>5, <1>10 DEF LzxCopy, Puts, Copied, Units
  <2>2. SameFrame
    BY <1>4, <1>10, <2>1 DEF LzxCopy
  <2>3. LzxRuns' /\ posn' \in Nat /\ posn' <= Size
    <3>1. /\ pc = "copy" /\ posn' = posn + 1 /\ UNCHANGED <<stream, z>>
          /\ l' = [l EXCEPT !.src = IF @ + 1 = Size THEN 0 ELSE @ + 1, !.left = @ - 1]
          /\ pc' = IF l.left = 1 THEN "tokens" ELSE "copy"
      BY <1>10 DEF LzxCopy
    <3>2. /\ l'.left = l.left - 1 /\ l'.off = l.off /\ l'.this = l.this /\ l'.todo = l.todo
          /\ l'.size = l.size /\ l'.src = IF l.src + 1 = Size THEN 0 ELSE l.src + 1
      BY <1>4, <3>1
    <3>3. /\ posn + l.left + l.this + l.todo = z.fposn + l.size
          /\ l.left >= 1 /\ posn + l.left <= Size /\ l.src \in Nat /\ l.src < Size
          /\ l.todo > 0 => z.brem = 0
      BY <1>5, <3>1
    <3>4. l'.src \in Nat /\ l'.src < Size
      BY <1>1, <3>2, <3>3
    <3>5. posn + 1 <= Size /\ (posn + 1) + (l.left - 1) + l.this + l.todo = z.fposn + l.size
      BY <1>1, <1>4, <1>5, <3>3
    <3>6. LzxRuns'
      <4>1. CASE l.left = 1
        BY <1>1, <1>4, <1>5, <3>1, <3>2, <3>3, <3>5, <4>1
      <4>2. CASE l.left # 1
        <5>1. pc' = "copy" /\ l'.left >= 1
          BY <1>5, <3>1, <3>2, <3>3, <4>2
        <5>2. InWindow(l.src)'
          BY <1>3, <3>4
        <5>3. posn' + l'.left <= Size'
          BY <1>1, <1>3, <1>4, <1>5, <3>1, <3>2, <3>3
        <5>4. posn' + l'.left + l'.this + l'.todo = z'.fposn + l'.size
          BY <1>4, <1>5, <3>1, <3>2, <3>5
        <5> QED
          BY <1>5, <3>1, <3>2, <3>3, <5>1, <5>2, <5>3, <5>4
      <4> QED
        BY <4>1, <4>2
    <3> QED
      BY <1>4, <3>1, <3>5, <3>6
  <2> QED
    BY <2>2, <2>3
<1>11. CASE LzxStoredRun
  <2>1. window' \in [0 .. Size - 1 -> Units] /\ made' \in Nat
    BY SMTT(30), <1>1, <1>4, <1>5, <1>11 DEF LzxStoredRun, Units
  <2>2. SameFrame
    BY <1>4, <1>11, <2>1 DEF LzxStoredRun
  <2>3. LzxRuns' /\ posn' \in Nat /\ posn' <= Size
    BY SMTT(30), <1>1, <1>3, <1>4, <1>5, <1>11 DEF LzxStoredRun
  <2> QED
    BY <2>2, <2>3
<1>12. CASE LzxRunDone
  <2>1. SameFrame
    BY <1>4, <1>12 DEF LzxRunDone
  <2>2. LzxRuns' /\ posn' \in Nat /\ posn' <= Size
    BY SMTT(30), <1>1, <1>3, <1>4, <1>5, <1>12 DEF LzxRunDone
  <2> QED
    BY <2>1, <2>2
<1> QED
  BY <1>6, <1>7, <1>8, <1>9, <1>10, <1>11, <1>12

\* A call begins, writes what was left, goes to the next frame or ends.
LEMMA LzxCallEdges ==
  ASSUME stream \in Streams, stream.kind = "lzx", LzxKept,
         \/ LzxEnter \/ LzxSetOutputLength \/ LzxLeftoverFails \/ LzxBadBlock \/ LzxBadMatch
         \/ LzxUnreadable \/ LzxOverrun \/ LzxBadFrame \/ LzxFrameFails \/ LzxReturn
  PROVE  LzxKept' /\ stream' = stream
<1>1. Size \in Nat \ {0} /\ FRAME \in Nat \ {0} /\ stream.total \in Nat
  BY StreamFacts
<1>2. Asks \subseteq Nat
  BY LzWindowAssumption DEF LzWindowAssumption
<1>3. stream' = stream => Size' = Size /\ FRAME' = FRAME
  BY DEF Size, FRAME
<1> USE DEF LzxKept, LzxMemory, LzxFields, LzxLocals, Decoding, Busy, InWindow, At
<1>4. CASE LzxEnter
  <2>1. WholeFrames' = WholeFrames /\ AllThere' = AllThere
    BY <1>3, <1>4 DEF LzxEnter, Enters, dec, WholeFrames, AllThere, Decoded
  <2> QED
    BY SMTT(30), <1>1, <1>2, <1>3, <1>4, <2>1 DEF LzxEnter, Enters, dec
<1>5. CASE LzxSetOutputLength
  <2>1. WholeFrames' = WholeFrames /\ LastFrame' = LastFrame /\ (AllThere => AllThere')
    BY <1>3, <1>5 DEF LzxSetOutputLength, WholeFrames, AllThere, Decoded, LastFrame, call
  <2>2. LzxRuns => LzxRuns'
    BY <1>3, <1>5 DEF LzxSetOutputLength, LzxRuns, call
  <2> QED
    BY <1>1, <1>3, <1>5, <2>1, <2>2 DEF LzxSetOutputLength, call
<1>6. CASE LzxReturn
  <2>1. WholeFrames' = WholeFrames /\ AllThere' = AllThere
    BY <1>3, <1>6 DEF LzxReturn, Returns, WholeFrames, AllThere, Decoded
  <2> QED
    BY <1>1, <1>3, <1>6, <2>1 DEF LzxReturn, Returns
<1>7. CASE \/ LzxLeftoverFails \/ LzxBadBlock \/ LzxBadMatch \/ LzxUnreadable \/ LzxOverrun
           \/ LzxBadFrame \/ LzxFrameFails
  <2>1. /\ pc' = "idle" /\ error' \in {"READ", "WRITE", "DECRUNCH"}
        /\ UNCHANGED <<stream, window, posn, optr, oend, z, want, made, out, due>>
    BY <1>7 DEF LzxLeftoverFails, LeftoverFails, LzxBadBlock, LzxBadMatch, LzxUnreadable,
       Unreadable, LzxOverrun, LzxBadFrame, LzxFrameFails, WriteFails, Rejects, Returns
  <2> QED
    BY <1>1, <1>3, <2>1
<1> QED
  BY <1>4, <1>5, <1>6, <1>7

\* What was left is written; more is only asked for if there is more.
LEMMA LzxFlushStep ==
  ASSUME stream \in Streams, stream.kind = "lzx", LzxKept, LzxFlush
  PROVE  LzxKept' /\ stream' = stream
<1>1. Size \in Nat \ {0} /\ FRAME \in Nat \ {0} /\ stream.total \in Nat
  BY StreamFacts
<1>2. stream' = stream /\ Size' = Size /\ FRAME' = FRAME
  BY DEF LzxFlush, FlushesLeftover, Size, FRAME
<1>3. /\ optr \in Nat /\ oend \in Nat /\ want \in Nat /\ optr <= oend
      /\ window \in [0 .. Size - 1 -> Units] /\ out \in Seq(Units) /\ oend <= Size
      /\ z.in8 => oend <= FRAME /\ z.e8buf \in [0 .. oend - 1 -> Units]
      /\ due \in Nat /\ due = Len(out) + want /\ due <= stream.total
  BY DEF LzxKept, LzxMemory
<1>4. PICK i \in Nat : /\ i = Least(oend - optr, want)
                       /\ out' = out \o [k \in 1 .. i |-> LzxFrom[optr + k - 1]]
                       /\ want' = want - i /\ optr' = optr + i
                       /\ pc' = IF i = want THEN "idle" ELSE "frame"
  <2> DEFINE n == Least(oend - optr, want)
  <2>1. n \in Nat
    BY <1>3 DEF Least
  <2>2. Writes(LzxFrom, n) /\ optr' = optr + n /\ pc' = IF n = want THEN "idle" ELSE "frame"
    BY DEF LzxFlush, FlushesLeftover
  <2> HIDE DEF n
  <2>3. out' = out \o [k \in 1 .. n |-> LzxFrom[optr + k - 1]] /\ want' = want - n
    BY <2>2 DEF Writes
  <2> QED
    BY <2>1, <2>2, <2>3 DEF n
<1>5. UNCHANGED <<stream, window, posn, oend, error, z, made, due>>
  BY DEF LzxFlush, FlushesLeftover
<1>6. i <= want /\ i <= oend - optr /\ (i # want => i = oend - optr)
  BY <1>3, <1>4 DEF Least
<1>7. want' = want - i /\ optr' = optr + i
  BY <1>4
<1>8. out' \in Seq(Units) /\ Len(out') = Len(out) + i
  <2> DEFINE units == [k \in 1 .. i |-> LzxFrom[optr + k - 1]]
  <2>1. \A k \in 1 .. i : LzxFrom[optr + k - 1] \in Units
    <3> SUFFICES ASSUME NEW k \in 1 .. i PROVE LzxFrom[optr + k - 1] \in Units
      OBVIOUS
    <3>1. optr + k - 1 \in 0 .. oend - 1 /\ optr + k - 1 \in 0 .. Size - 1
      BY <1>1, <1>3, <1>6
    <3>2. CASE z.in8
      BY <1>3, <3>1, <3>2 DEF LzxFrom
    <3>3. CASE ~z.in8
      BY <1>3, <3>1, <3>3 DEF LzxFrom
    <3> QED
      BY <3>2, <3>3
  <2>2. units \in Seq(Units) /\ Len(units) = i
    BY <2>1
  <2>3. out' = out \o units
    BY <1>4
  <2> HIDE DEF units
  <2> QED
    BY <1>3, <2>2, <2>3, Appended
<1>9. LzxMemory'
  <2>1. optr' \in Nat /\ optr' <= oend /\ want' \in Nat
    BY <1>3, <1>6, <1>7
  <2>2. due = Len(out') + want'
    BY <1>3, <1>7, <1>8
  <2>3. z' = z /\ UNCHANGED <<stream, window, oend, made, due>>
    BY <1>5
  <2>4. LzxMemory
    BY DEF LzxKept
  <2> QED
    BY <1>2, <1>8, <2>1, <2>2, <2>3, <2>4 DEF LzxMemory
<1>10. Decoded' = Decoded
  BY <1>3, <1>4, <1>5, <1>8 DEF Decoded
<1>11. WholeFrames' = WholeFrames /\ AllThere' = AllThere
  BY <1>2, <1>5, <1>10 DEF WholeFrames, AllThere
<1>12. AllThere => i = want
  BY <1>3, <1>6 DEF AllThere, Decoded
<1>13. i # want => LzxLocals \subseteq DOMAIN l' /\ l'.last = LastFrame'
  BY <1>2, <1>3, <1>4, <1>5 DEF LzxFlush, FlushesLeftover, LzxLocals, LastFrame
<1> QED
  BY <1>1, <1>2, <1>4, <1>5, <1>9, <1>11, <1>12, <1>13
     DEF LzxKept, LzxFlush, FlushesLeftover, At, Busy, Decoding, InWindow

\* A frame begins where the one before ended.
LEMMA LzxFrameBegins ==
  ASSUME stream \in Streams, stream.kind = "lzx", LzxKept, LzxFrame
  PROVE  LzxKept' /\ stream' = stream
<1>1. Size \in Nat \ {0} /\ FRAME \in Nat \ {0} /\ stream.total \in Nat
  BY StreamFacts
<1>2. stream' = stream /\ Size' = Size /\ FRAME' = FRAME
  BY DEF LzxFrame, Size, FRAME
<1>3. /\ pc = "frame" /\ pc' = "block" /\ z.frame < l.last
      /\ UNCHANGED <<window, posn, optr, oend, error, want, made, out, due>>
  BY DEF LzxFrame, At
<1>4. /\ LzxFields \subseteq DOMAIN z /\ LzxLocals \subseteq DOMAIN l
      /\ z.frame \in Nat /\ z.fposn \in Nat /\ z.fposn < Size /\ posn = z.fposn /\ error = "OK"
      /\ z.brem \in Nat /\ z.brem <= stream.total /\ z.curpos \in Int
      /\ z.length \in {0, stream.total}
      /\ l.last = LastFrame /\ WholeFrames
      /\ l.this \in Int /\ l.left \in Int /\ l.off \in Int
  <2>1. error = "OK" /\ Busy /\ l.last = LastFrame /\ z.frame \in Nat
    BY <1>3 DEF LzxKept, Busy
  <2>2. LastFrame \in Int
    BY <1>1 DEF LzxKept, LzxMemory, LastFrame
  <2>3. WholeFrames
    BY <1>3, <2>1, <2>2 DEF LzxKept
  <2> QED
    BY <1>3, <2>1, <2>3 DEF LzxKept, InWindow
<1>5. LzxMemory /\ due \in Nat /\ due <= stream.total /\ Len(out) \in Nat /\ Len(out) <= due
  BY DEF LzxKept, LzxMemory
<1>6. \/ z' = [z EXCEPT !.brem = 0, !.stored = FALSE, !.raw = FALSE]
      \/ z' = z
  BY DEF LzxFrame
<1>7. /\ z'.frame = z.frame /\ z'.fposn = z.fposn /\ z'.curpos = z.curpos
      /\ z'.length = z.length /\ z'.in8 = z.in8 /\ z'.e8buf = z.e8buf
      /\ DOMAIN z' = DOMAIN z /\ z'.brem \in Nat /\ z'.brem <= stream.total
  <2>1. {"frame", "fposn", "curpos", "length", "in8", "e8buf", "brem", "stored"} \subseteq DOMAIN z
    BY <1>4 DEF LzxFields
  <2>2. CASE z' = [z EXCEPT !.brem = 0, !.stored = FALSE, !.raw = FALSE]
    BY <1>1, <2>1, <2>2
  <2>3. CASE z' = z
    BY <1>4, <2>3
  <2> QED
    BY <1>6, <2>2, <2>3
<1>8. PICK size : /\ size = IF z.length = 0 THEN FRAME ELSE Least(FRAME, z.length - Len(out))
                  /\ l' = [l EXCEPT !.size = size, !.todo = z.fposn + size - posn]
  BY DEF LzxFrame
<1>9. /\ size \in Nat /\ size <= FRAME
      /\ size # FRAME => z.length = stream.total /\ size = stream.total - Len(out)
  BY <1>1, <1>4, <1>5, <1>8 DEF Least
<1>10. /\ LzxLocals \subseteq DOMAIN l' /\ l'.last = l.last /\ l'.size = size /\ l'.todo = size
       /\ l'.this = l.this /\ l'.left = l.left /\ l'.off = l.off
  BY <1>4, <1>8, <1>9 DEF LzxLocals
<1>11. LzxMemory'
  BY <1>2, <1>3, <1>5, <1>7 DEF LzxMemory
<1>12. WholeFrames' = WholeFrames /\ LastFrame' = LastFrame
  BY <1>2, <1>3, <1>7, FramesStay
<1>13. LzxRuns'
  BY <1>1, <1>2, <1>3, <1>4, <1>7, <1>9, <1>10 DEF LzxRuns
<1> QED
  BY <1>2, <1>3, <1>4, <1>5, <1>7, <1>9, <1>10, <1>11, <1>12, <1>13
     DEF LzxKept, Decoding, Busy, InWindow

\* A whole frame leaves whole frames behind, and a short one all of the stream.
LEMMA LzxFrameEnds ==
  ASSUME stream \in Streams, stream.kind = "lzx", LzxKept, LzxFrameDone
  PROVE  LzxKept' /\ stream' = stream
<1>1. Size \in Nat \ {0} /\ FRAME \in Nat \ {0} /\ stream.total \in Nat /\ Size % FRAME = 0
  BY StreamFacts
<1>2. stream' = stream /\ Size' = Size /\ FRAME' = FRAME
  BY DEF LzxFrameDone, Size, FRAME
<1>3. /\ pc = "block" /\ pc' = "frame" /\ Decoding
      /\ posn - z.fposn = l.size /\ optr = oend /\ posn' = Wrapped(posn)
      /\ UNCHANGED <<window, error, l, made, due>>
  BY DEF LzxFrameDone, LzxFrameFull, At, Decoding
<1>4. /\ LzxFields \subseteq DOMAIN z /\ LzxLocals \subseteq DOMAIN l
      /\ z.frame \in Nat /\ z.curpos \in Int /\ z.brem \in Nat /\ z.brem <= stream.total
      /\ z.length \in {0, stream.total} /\ error = "OK"
      /\ l.last = LastFrame
      /\ l.this \in Int /\ l.left \in Int /\ l.off \in Int
      /\ WholeFrames /\ l.size <= FRAME
      /\ l.size # FRAME => z.length = stream.total /\ l.size = stream.total - Len(out)
  BY <1>3 DEF LzxKept, Busy
<1>5. /\ z.fposn \in Nat /\ l.size \in Nat /\ z.fposn + l.size <= Size
      /\ l.size = FRAME => (z.fposn + l.size) % FRAME = 0
      /\ posn = z.fposn + l.size
  <2>1. posn \in Nat
    BY DEF LzxKept
  <2> QED
    BY <1>3, <2>1, LzxRoom
<1>6. /\ window \in [0 .. Size - 1 -> Units] /\ out \in Seq(Units)
      /\ optr \in Nat /\ made \in Nat /\ due \in Nat /\ due <= stream.total
      /\ want \in Nat /\ due = Len(out) + want
  BY DEF LzxKept, LzxMemory
<1> DEFINE n == Least(want, l.size)
           in8 == z.started /\ stream.opt.e8 /\ l.size > E8MIN
           base == IF in8 THEN 0 ELSE z.fposn
           unit(k) == IF in8 /\ window[z.fposn + k] # z.curpos + k THEN JUNK
                      ELSE window[z.fposn + k]
           units == [i \in 1 .. n |-> unit(i - 1)]
           buf == [k \in 0 .. l.size - 1 |-> unit(k)]
<1>7. /\ out' = out \o units /\ want' = want - n /\ optr' = base + n /\ oend' = base + l.size
      /\ z' = [z EXCEPT !.frame = @ + 1, !.fposn = Wrapped(@ + l.size), !.in8 = in8,
                        !.e8buf = IF in8 THEN buf ELSE <<>>,
                        !.curpos = IF stream.opt.e8 THEN @ + l.size ELSE @]
  BY DEF LzxFrameDone
<1>8. n \in Nat /\ n <= want /\ n <= l.size
  BY <1>5, <1>6 DEF Least
<1>9. base \in Nat /\ base + l.size <= Size /\ (in8 => base = 0)
  <2> HIDE DEF in8
  <2>1. CASE in8
    BY <1>5, <2>1, <1>1
  <2>2. CASE ~in8
    BY <1>5, <2>2
  <2> QED
    BY <2>1, <2>2
<1>10. \A k \in 0 .. l.size - 1 : unit(k) \in Units
  <2>1. \A k \in 0 .. l.size - 1 : window[z.fposn + k] \in Units
    BY SMTT(30), <1>1, <1>5, <1>6
  <2> QED
    BY <2>1 DEF Units
<1>11. units \in Seq(Units) /\ Len(units) = n
  <2>1. \A i \in 1 .. n : unit(i - 1) \in Units
    BY <1>5, <1>8, <1>10
  <2> QED
    BY <1>8, <2>1
<1>12. buf \in [0 .. l.size - 1 -> Units]
  BY <1>10
<1> HIDE DEF n, in8, base, unit, units, buf
<1>13. out' \in Seq(Units) /\ Len(out') = Len(out) + n
  BY <1>6, <1>7, <1>11, Appended
<1>14. /\ z'.frame = z.frame + 1 /\ z'.fposn = Wrapped(z.fposn + l.size) /\ z'.in8 = in8
       /\ in8 => z'.e8buf = buf
       /\ z'.curpos \in Int /\ z'.length = z.length /\ z'.brem = z.brem /\ DOMAIN z' = DOMAIN z
  BY <1>4, <1>5, <1>7 DEF LzxFields
<1>15. LzxMemory'
  <2>1. optr' \in Nat /\ oend' \in Nat /\ optr' <= oend' /\ oend' <= Size
    BY <1>1, <1>5, <1>7, <1>8, <1>9
  <2>2. in8 => oend' = l.size
    BY <1>5, <1>7, <1>9
  <2>3. want' \in Nat /\ due = Len(out') + want'
    BY <1>6, <1>7, <1>8, <1>13
  <2>4. z'.in8 => oend' <= FRAME /\ z'.e8buf \in [0 .. oend' - 1 -> Units]
    BY <1>4, <1>12, <1>14, <2>2
  <2> QED
    BY <1>2, <1>3, <1>6, <1>13, <2>1, <2>3, <2>4 DEF LzxMemory
<1>16. Decoded' = Len(out) + l.size
  BY <1>5, <1>6, <1>7, <1>8, <1>9, <1>13 DEF Decoded
<1>17. Len(out) = z.frame * FRAME
  BY <1>3, <1>4, <1>6 DEF WholeFrames, Decoded
<1>18. posn' = z'.fposn /\ z'.fposn \in Nat /\ z'.fposn < Size'
  BY <1>1, <1>2, <1>3, <1>5, <1>14 DEF Wrapped
<1>19. WholeFrames' \/ (AllThere' /\ z'.frame >= l'.last)
  <2>1. (z.frame + 1) * FRAME = z.frame * FRAME + FRAME
    BY <1>1, <1>4
  <2>2. CASE l.size = FRAME
    <3>1. z'.fposn % FRAME = 0
      BY <1>1, <1>2, <1>5, <1>14, <2>2 DEF Wrapped
    <3> QED
      BY <1>2, <1>14, <1>16, <1>17, <2>1, <2>2, <3>1 DEF WholeFrames
  <2>3. CASE l.size # FRAME
    <3>1. /\ Len(out) \in Nat /\ z.length = stream.total /\ l.size = stream.total - Len(out)
          /\ l.size \in Nat /\ l.size < FRAME
      BY SMTT(30), <1>1, <1>4, <1>5, <1>6, <2>3
    <3>2. AllThere'
      <4>1. Decoded' = stream.total
        BY <1>1, <1>16, <3>1
      <4> QED
        BY <1>2, <1>14, <3>1, <4>1 DEF AllThere
    <3>3. due < Len(out) + FRAME
      BY <1>1, <1>6, <3>1
    <3>4. due \div FRAME <= z.frame /\ due \div FRAME \in Int
      <4>1. FRAME \in Nat \ {0} /\ z.frame \in Nat /\ due \in Nat /\ due < z.frame * FRAME + FRAME
        BY <1>1, <1>4, <1>6, <1>17, <3>3
      <4>2. due \div FRAME <= z.frame
        BY <4>1, FrameOf
      <4>3. due \div FRAME \in Int
        BY <4>1
      <4> QED
        BY <4>2, <4>3
    <3> QED
      BY <1>3, <1>4, <1>14, <3>2, <3>4 DEF LastFrame
  <2> QED
    BY <2>2, <2>3
<1>20. Busy' /\ ~Decoding' /\ l' = l /\ error' = "OK" /\ LastFrame' = LastFrame
  BY <1>2, <1>3, <1>4 DEF Busy, Decoding, LastFrame
<1>21. posn' \in Nat /\ posn' <= Size'
  BY <1>1, <1>2, <1>18
<1> QED
  BY <1>2, <1>3, <1>4, <1>14, <1>15, <1>18, <1>19, <1>20, <1>21 DEF LzxKept, InWindow

\* Frames are decoded one behind the other, each to its end.
LEMMA LzxStep ==
  ASSUME stream \in Streams, stream.kind = "lzx", LzxKept,
         LzxEnter \/ LzxSetOutputLength \/ LzxCallStep
  PROVE  LzxKept' /\ stream' = stream
BY LzxFrameStep, LzxCallEdges, LzxFlushStep, LzxFrameBegins, LzxFrameEnds DEF LzxCallStep

-----------------------------------------------------------------------------
(* All of them.                                                             *)

LEMMA InvInit == Init => Inv
<1> SUFFICES ASSUME Init PROVE Inv
  OBVIOUS
<1>1. stream \in Streams
  BY DEF Init
<1>2. /\ Size \in Nat \ {0} /\ FRAME \in Nat \ {0} /\ stream.total \in Nat
      /\ stream.start \in 0 .. Size - 1
      /\ stream.kind = "lzx" => stream.start = 0
      /\ IsZip => Size = FRAME
  BY <1>1, StreamFacts
<1>3. /\ posn = stream.start /\ optr = 0 /\ oend = 0 /\ error = "OK" /\ pc = "idle"
      /\ want = 0 /\ made = 0 /\ out = <<>> /\ due = 0
  BY DEF Init
<1>4. RingKept
  BY <1>2, <1>3 DEF RingKept, InWindow
<1>5. QtmKept
  <2> SUFFICES ASSUME stream.kind = "quantum" PROVE QtmKept
    BY DEF QtmKept
  <2>1. z = [todo |-> FRAME, header |-> FALSE]
    BY DEF Init, Fresh, QtmFresh
  <2> QED
    BY <1>2, <1>3, <2>1 DEF QtmKept, Busy
<1>6. ZipKept
  <2> SUFFICES ASSUME IsZip PROVE ZipKept
    BY DEF ZipKept
  <2>1. z = [bytes |-> 0, hurt |-> FALSE]
    BY DEF Init, Fresh, ZipFresh, IsZip
  <2> QED
    BY <1>2, <1>3, <2>1 DEF ZipKept, Busy, InWindow
<1>7. LzxKept
  <2> SUFFICES ASSUME stream.kind = "lzx" PROVE LzxKept
    BY DEF LzxKept
  <2>1. z = LzxFresh(stream)
    BY DEF Init, Fresh
  <2>2. LzxMemory
    <3>1. window = FreshWindow(stream)
      BY DEF Init
    <3>2. window \in [0 .. Size - 1 -> Units]
      BY <1>2, <3>1 DEF FreshWindow, Units, Size
    <3> QED
      BY <1>2, <1>3, <2>1, <3>2 DEF LzxMemory, LzxFresh
  <2>3. WholeFrames
    BY <1>2, <1>3, <2>1 DEF WholeFrames, Decoded, LzxFresh
  <2> QED
    BY <1>2, <1>3, <2>1, <2>2, <2>3
       DEF LzxKept, LzxFresh, LzxFields, Busy, Decoding, InWindow
<1> QED
  BY <1>1, <1>4, <1>5, <1>6, <1>7 DEF Inv

LEMMA InvStep == Inv /\ [Next]_vars => Inv'
<1> SUFFICES ASSUME Inv, [Next]_vars PROVE Inv'
  OBVIOUS
<1>1. stream \in Streams /\ RingKept /\ QtmKept /\ ZipKept /\ LzxKept
  BY DEF Inv
<1>2. CASE RingCall \/ RingCallStep
  <2>1. IsRing
    BY <1>2, KindOfStep DEF IsRing
  <2>2. RingKept' /\ stream' = stream
    BY <1>1, <1>2, <2>1, RingStep
  <2> QED
    BY <1>1, <2>1, <2>2 DEF Inv, QtmKept, ZipKept, LzxKept, IsRing, IsZip
<1>3. CASE QtmEnter \/ QtmCallStep
  <2>1. stream.kind = "quantum"
    BY <1>3, KindOfStep
  <2>2. QtmKept' /\ stream' = stream
    BY <1>1, <1>3, <2>1, QtmStep
  <2> QED
    BY <1>1, <2>1, <2>2 DEF Inv, RingKept, ZipKept, LzxKept, IsRing, IsZip
<1>4. CASE ZipEnter \/ KwajEnter \/ ZipCallStep
  <2>1. IsZip
    BY <1>4, KindOfStep DEF IsZip
  <2>2. ZipKept' /\ stream' = stream
    BY <1>1, <1>4, <2>1, ZipStep
  <2> QED
    BY <1>1, <2>1, <2>2 DEF Inv, RingKept, QtmKept, LzxKept, IsRing, IsZip
<1>5. CASE LzxEnter \/ LzxSetOutputLength \/ LzxCallStep
  <2>1. stream.kind = "lzx"
    BY <1>5, KindOfStep
  <2>2. LzxKept' /\ stream' = stream
    BY <1>1, <1>5, <2>1, LzxStep
  <2> QED
    BY <1>1, <2>1, <2>2 DEF Inv, RingKept, QtmKept, ZipKept, IsRing, IsZip
<1>6. CASE UNCHANGED vars
  <2>1. UNCHANGED <<stream, window, posn, optr, oend, error, z, pc, want, l, made, out, due>>
    BY <1>6 DEF vars, dec, call
  <2>2. RingKept' = RingKept /\ QtmKept' = QtmKept /\ ZipKept' = ZipKept /\ LzxKept' = LzxKept
    BY <2>1 DEF RingKept, QtmKept, ZipKept, LzxKept, IsRing, IsZip, InWindow, Busy, Size, FRAME,
       LzxMemory, LzxRuns, WholeFrames, AllThere, Decoded, LastFrame, Decoding
  <2> QED
    BY <1>1, <2>1, <2>2 DEF Inv
<1> QED
  BY <1>2, <1>3, <1>4, <1>5, <1>6 DEF Next, CallStep

LEMMA InvPlaces == Inv => TypeOK
<1> SUFFICES ASSUME Inv PROVE TypeOK
  OBVIOUS
<1>1. stream \in Streams /\ RingKept /\ QtmKept /\ ZipKept /\ LzxKept
  BY DEF Inv
<1>2. /\ Size \in Nat \ {0} /\ FRAME \in Nat \ {0}
      /\ stream.kind \in {"lzx", "quantum", "mszip", "kwajzip", "lzss", "lzh"}
      /\ IsZip => Size = FRAME
  BY <1>1, StreamFacts
<1>3. QtmTypeOK /\ (stream.kind = "quantum" => posn \in 0 .. Size)
  BY <1>1, <1>2 DEF QtmTypeOK, QtmKept, InWindow
<1>4. ZipTypeOK /\ (IsZip => posn \in 0 .. Size)
  BY <1>1, <1>2 DEF ZipTypeOK, ZipKept, InWindow
<1>5. LzxTypeOK /\ (stream.kind = "lzx" => posn \in 0 .. Size)
  <2> SUFFICES ASSUME stream.kind = "lzx" PROVE LzxTypeOK /\ posn \in 0 .. Size
    BY DEF LzxTypeOK
  <2>1. Decoding => LzxRuns /\ z.fposn + l.size <= Size /\ z.fposn \in Nat /\ l.size \in Nat
    BY <1>1, LzxRoom DEF LzxKept
  <2>2. pc = "copy" => posn + l.left <= Size
    BY <2>1 DEF LzxRuns, Decoding
  <2>3. posn \in Nat /\ posn <= Size
    BY <1>1 DEF LzxKept
  <2>4. pc = "stored" => posn + l.this <= Size
    BY <1>2, <2>1, <2>3 DEF LzxRuns, Decoding
  <2>5. /\ z.fposn \in 0 .. Size - 1 /\ z.brem \in 0 .. stream.total
        /\ oend <= IF z.in8 THEN FRAME ELSE Size
    BY <1>1, <1>2 DEF LzxKept, LzxMemory, InWindow
  <2> QED
    BY <1>2, <2>2, <2>3, <2>4, <2>5 DEF LzxTypeOK
<1>6. IsRing => posn \in 0 .. Size
  BY <1>1, <1>2 DEF RingKept, InWindow
<1>7. posn \in 0 .. Size
  BY <1>2, <1>3, <1>4, <1>5, <1>6 DEF IsZip, IsRing
<1>8. pc \in {"copy", "second_part"} => InWindow(l.src)
  <2>1. CASE stream.kind = "quantum"
    BY <1>1, <2>1 DEF QtmKept
  <2>2. CASE IsZip
    BY <1>1, <2>2 DEF ZipKept
  <2>3. CASE stream.kind = "lzx"
    BY <1>1, <2>3 DEF LzxKept, LzxRuns, Decoding
  <2>4. CASE IsRing
    BY <1>1, <2>4 DEF RingKept
  <2> QED
    BY <1>2, <2>1, <2>2, <2>3, <2>4 DEF IsZip, IsRing
<1> QED
  BY <1>2, <1>3, <1>4, <1>5, <1>7, <1>8 DEF TypeOK, InWindow

(* No decoder writes to, copies from or keeps for later what is not in its  *)
(* window: for every size of window and frame, every length of matches,    *)
(* every run of calls, and every stream, legal or not.                      *)
THEOREM PlacesInWindow == Spec => []TypeOK
<1>1. Spec => []Inv
  BY InvInit, InvStep, PTL DEF Spec
<1> QED
  BY <1>1, InvPlaces, PTL

-----------------------------------------------------------------------------
(* Every decoder implements LzStream, whatever the tokens and the sizes: a  *)
(* call that returns OK has written what it was asked for, none writes      *)
(* more, and a decoder that failed stays failed.                            *)
(*                                                                          *)
(* A step of a decoder is an Ask, or a Send (of nothing, mostly), or none   *)
(* the caller sees.  For that out_bytes and what was written have to add up *)
(* all the time, which is what OutKept says.                                *)

\* the decoders that are asked once, for all there is
Once == stream.kind \in {"kwajzip", "lzss", "lzh"}

Sequence(s) == s \in Seq({s[i] : i \in 1 .. Len(s)})

OutKept ==
  /\ Sequence(out)
  /\ Once => due \in {0, ALL} /\ (due = 0 => pc = "idle" /\ error = "OK")
  /\ ~Once => due \in Nat /\ want \in Nat /\ due = Len(out) + want

-----------------------------------------------------------------------------
(* Sequences, of whatever they are.                                         *)

LEMMA SequenceOf ==
  ASSUME NEW S, NEW s \in Seq(S)
  PROVE  Sequence(s) /\ Len(s) \in Nat
BY DEF Sequence

\* What is written is behind what was.
LEMMA Longer ==
  ASSUME NEW s, Sequence(s), NEW t, NEW n \in Nat, t = [i \in 1 .. n |-> t[i]]
  PROVE  Sequence(s \o t) /\ Len(s \o t) = Len(s) + n
<1> DEFINE S == {s[i] : i \in 1 .. Len(s)} \cup {t[i] : i \in 1 .. n}
<1>1. s \in Seq(S)
  <2>1. s \in Seq({s[i] : i \in 1 .. Len(s)})
    BY DEF Sequence
  <2> QED
    BY <2>1
<1>2. t \in Seq(S) /\ Len(t) = n
  OBVIOUS
<1> HIDE DEF S
<1>3. s \o t \in Seq(S) /\ Len(s \o t) = Len(s) + n
  BY <1>1, <1>2, Appended
<1> QED
  BY <1>3, SequenceOf

-----------------------------------------------------------------------------
(* What a step may be to the caller.                                        *)

\* A call is made.
LEMMA Asked ==
  ASSUME OutKept, NEW kind, Enters(kind), kind \in {"lzx", "quantum", "mszip"}
  PROVE  OutKept' /\ Promise!Ask /\ stream' = stream
<1>1. ~Once /\ stream' = stream /\ pc = "idle" /\ error = "OK" /\ pc' = "leftover" /\ out' = out
  BY DEF Enters, At, Once
<1>2. PICK n \in Asks : Len(out) + n <= stream.total /\ want' = n /\ due' = Len(out) + n
  BY DEF Enters
<1>3. Asks \subseteq Nat /\ Len(out) \in Nat
  BY SequenceOf, LzWindowAssumption DEF LzWindowAssumption, OutKept, Sequence
<1>4. due # Promise!ALL
  BY <1>1 DEF OutKept, Promise!ALL
<1>5. Promise!Ask
  BY <1>1, <1>2, <1>4 DEF Promise!Ask
<1> QED
  BY <1>1, <1>2, <1>3, <1>5 DEF OutKept, Once

\* The call for all there is.
LEMMA AskedOnce ==
  ASSUME OutKept, Once, pc = "idle", due = 0, due' = ALL, pc' # "idle", UNCHANGED <<stream, out>>
  PROVE  OutKept' /\ Promise!Ask
BY DEF OutKept, Once, Promise!Ask, Promise!ALL, ALL

\* A step within a call that writes nothing and does not end it well.
LEMMA Silent ==
  ASSUME OutKept, pc # "idle", UNCHANGED <<stream, out, due, want>>,
         pc' # "idle" \/ error' # "OK" \/ Once \/ want = 0
  PROVE  OutKept' /\ Promise!Send
<1>1. OutKept'
  BY DEF OutKept, Once
<1>2. Len(out) \in Nat
  BY SequenceOf DEF OutKept, Sequence
<1>3. due # Promise!ALL => ~Once /\ due \in Nat /\ want \in Nat /\ due = Len(out) + want
  BY DEF OutKept, Promise!ALL, ALL
<1>4. due = Promise!ALL \/ ~(want = 0) \/ Len(out) = due
  BY <1>2, <1>3
<1>5. Once => due = Promise!ALL
  BY <1>3
<1> QED
  BY <1>1, <1>2, <1>3, <1>4, <1>5 DEF Promise!Send, Promise!Met

\* A write of as much as was asked for at most, and of just that if the call
\* ends well.
LEMMA SentMore ==
  ASSUME OutKept, ~Once, pc # "idle", UNCHANGED <<stream, due>>,
         NEW t, NEW n \in Nat, n <= want, t = [i \in 1 .. n |-> t[i]],
         out' = out \o t, want' = want - n,
         pc' # "idle" \/ error' # "OK" \/ want' = 0
  PROVE  OutKept' /\ Promise!Send
<1>1. Sequence(out') /\ Len(out') = Len(out) + n
  BY Longer DEF OutKept
<1>2. Len(out) \in Nat
  BY SequenceOf DEF OutKept, Sequence
<1>3. due \in Nat /\ want \in Nat /\ due = Len(out) + want
  BY DEF OutKept
<1>4. want' \in Nat /\ due' = Len(out') + want' /\ Len(out) <= Len(out') /\ Len(out') <= due
  BY <1>1, <1>2, <1>3
<1>5. want' = 0 => Len(out') = due
  BY <1>1, <1>2, <1>3, <1>4
<1>6. Len(out') \in Nat
  BY <1>1, <1>2
<1>7. Promise!Send
  BY <1>4, <1>5, <1>6 DEF Promise!Send, Promise!Met
<1> QED
  BY <1>1, <1>3, <1>4, <1>7 DEF OutKept, Once

\* A write by a decoder that was asked for all there is.
LEMMA SentAll ==
  ASSUME OutKept, Once, pc # "idle", UNCHANGED <<stream, due>>,
         NEW t, NEW n \in Nat, t = [i \in 1 .. n |-> t[i]], out' = out \o t
  PROVE  OutKept' /\ Promise!Send
<1>1. Sequence(out') /\ Len(out') = Len(out) + n
  BY Longer DEF OutKept
<1>2. Len(out) \in Nat /\ Len(out') \in Nat /\ Len(out) <= Len(out')
  BY <1>1, SequenceOf DEF OutKept, Sequence
<1>3. due = Promise!ALL
  BY DEF OutKept, Promise!ALL, ALL
<1>4. Promise!Send
  BY <1>2, <1>3 DEF Promise!Send, Promise!Met
<1> QED
  BY <1>1, <1>4 DEF OutKept, Once

\* A write() from the window, or from the buffer of the E8 pass.
LEMMA Written ==
  ASSUME OutKept, ~Once, pc # "idle", UNCHANGED <<stream, due>>,
         NEW from, NEW n \in Nat, n <= want, Writes(from, n),
         pc' # "idle" \/ error' # "OK" \/ want' = 0
  PROVE  OutKept' /\ Promise!Send
<1> DEFINE t == [i \in 1 .. n |-> from[optr + i - 1]]
<1>1. t = [i \in 1 .. n |-> t[i]]
  OBVIOUS
<1>2. out' = out \o t /\ want' = want - n
  BY DEF Writes
<1> HIDE DEF t
<1> QED
  BY <1>1, <1>2, SentMore

\* The flush of what was left, which ends the call if it is enough.
LEMMA Flushed ==
  ASSUME OutKept, ~Once, NEW kind, NEW from, NEW first, NEW locals, first # "idle",
         FlushesLeftover(kind, from, first, locals),
         optr \in Nat, oend \in Nat, optr <= oend
  PROVE  OutKept' /\ Promise!Send /\ stream' = stream
<1>1. pc = "leftover" /\ UNCHANGED <<stream, due, error>>
  BY DEF FlushesLeftover, At
<1>2. want \in Nat
  BY DEF OutKept
<1>3. PICK i \in Nat : i <= want /\ Writes(from, i) /\ pc' = IF i = want THEN "idle" ELSE first
  BY <1>2 DEF FlushesLeftover, Least
<1>4. want' = want - i
  BY <1>3 DEF Writes
<1>5. pc' # "idle" \/ want' = 0
  BY <1>2, <1>3, <1>4
<1> QED
  BY <1>1, <1>3, <1>5, Written

-----------------------------------------------------------------------------
(* Each decoder.                                                            *)

\* LZSS and LZH write each unit as they have it.
LEMMA RingSeen ==
  ASSUME OutKept, IsRing, RingCall \/ RingCallStep
  PROVE  OutKept' /\ Promise!Next
<1>1. Once
  BY DEF Once, IsRing
<1>2. CASE RingCall
  BY <1>1, <1>2, AskedOnce DEF RingCall, RingAt, Promise!Next
<1>3. CASE RingLiteral \/ RingCopy
  <2>1. PICK unit : out' = Append(out, unit) /\ pc # "idle" /\ UNCHANGED <<stream, due>>
    BY <1>3 DEF RingLiteral, RingCopy, RingPuts, RingAt
  <2>2. <<unit>> = [i \in 1 .. 1 |-> <<unit>>[i]] /\ out' = out \o <<unit>>
    BY <2>1 DEF OutKept, Sequence
  <2> QED
    BY <1>1, <2>1, <2>2, SentAll DEF Promise!Next
<1>4. CASE RingMatch \/ RingEnd \/ RingUnreadable \/ RingBadTrees \/ RingWriteFails
  <2>1. pc # "idle" /\ UNCHANGED <<stream, out, due, want>>
    BY <1>4 DEF RingMatch, RingEnd, RingUnreadable, RingBadTrees, RingWriteFails, WriteFails,
       Returns, RingAt, At
  <2> QED
    BY <1>1, <2>1, Silent DEF Promise!Next
<1> QED
  BY <1>2, <1>3, <1>4 DEF RingCallStep

\* Quantum writes when the window is full, when a match goes over its end, and
\* when it has enough.
LEMMA QtmSeen ==
  ASSUME stream \in Streams, OutKept, stream.kind = "quantum", QtmKept, QtmEnter \/ QtmCallStep
  PROVE  OutKept' /\ Promise!Next
<1>1. ~Once /\ Size \in Nat
  BY StreamFacts DEF Once
<1>2. /\ optr \in Nat /\ oend \in Nat /\ posn \in Nat /\ want \in Nat
      /\ optr <= oend /\ oend <= posn /\ posn <= Size
  BY DEF QtmKept
<1>3. CASE QtmEnter
  BY <1>3, Asked DEF QtmEnter, Promise!Next
<1>4. CASE QtmFlush
  BY <1>1, <1>2, <1>4, Flushed DEF QtmFlush, Promise!Next
<1>5. CASE QtmWrapMatch
  <2>1. Size - optr \in Nat
    BY <1>1, <1>2
  <2> QED
    BY <1>1, <1>2, <1>5, <2>1, Written DEF QtmWrapMatch, At, Promise!Next
<1>6. CASE QtmWrap
  <2>1. QtmHave \in Nat /\ QtmHave <= want
    BY <1>2, <1>6 DEF QtmWrap, QtmHave
  <2> QED
    BY <1>1, <1>2, <1>6, <2>1, Written DEF QtmWrap, At, Promise!Next
<1>7. CASE QtmOut
  <2>1. want' = 0
    BY <1>2, <1>7 DEF QtmOut, Writes
  <2> QED
    BY <1>1, <1>2, <1>7, <2>1, Written DEF QtmOut, At, Promise!Next
<1>8. CASE \/ QtmHead \/ QtmEnough \/ QtmLiteral \/ QtmMatch \/ QtmCopy \/ QtmSecondPart
           \/ QtmStop \/ QtmKeep
  <2>1. pc # "idle" /\ pc' # "idle" /\ UNCHANGED <<stream, out, due, want>>
    BY <1>8 DEF QtmHead, QtmEnough, QtmLiteral, QtmMatch, QtmCopy, QtmSecondPart, QtmStop,
       QtmStops, QtmKeep, At, dec
  <2> QED
    BY <2>1, Silent DEF Promise!Next
<1>9. CASE \/ QtmLeftoverFails \/ QtmBailsOut \/ QtmOvershot \/ QtmWriteFails \/ QtmUnreadable
           \/ QtmTrailerUnreadable
  <2>1. pc # "idle" /\ error' # "OK" /\ UNCHANGED <<stream, out, due, want>>
    BY <1>9 DEF QtmLeftoverFails, LeftoverFails, QtmBailsOut, QtmOvershot, QtmStops,
       QtmWriteFails, QtmUnreadable, Unreadable, QtmTrailerUnreadable, WriteFails, Rejects,
       Returns, At
  <2> QED
    BY <2>1, Silent DEF Promise!Next
<1> QED
  BY <1>3, <1>4, <1>5, <1>6, <1>7, <1>8, <1>9 DEF QtmCallStep

\* MSZIP writes what it has of a frame, or as much of it as was asked for.
LEMMA ZipSeen ==
  ASSUME stream \in Streams, OutKept, IsZip, ZipKept, ZipEnter \/ KwajEnter \/ ZipCallStep
  PROVE  OutKept' /\ Promise!Next
<1>1. stream.kind \in {"mszip", "kwajzip"} /\ (Once <=> stream.kind = "kwajzip")
  BY DEF Once, IsZip
<1>2. optr \in Nat /\ oend \in Nat /\ optr <= oend /\ want \in Nat /\ z.bytes \in Nat
  BY DEF ZipKept
<1>3. CASE ZipEnter
  BY <1>3, Asked DEF ZipEnter, Promise!Next
<1>4. CASE KwajEnter
  <2>1. Once /\ pc = "idle" /\ due = 0 /\ due' = ALL /\ pc' # "idle" /\ UNCHANGED <<stream, out>>
    BY <1>1, <1>4 DEF KwajEnter, At
  <2> QED
    BY <2>1, AskedOnce DEF Promise!Next
<1>5. CASE ZipFlush
  <2>1. ~Once
    BY <1>1, <1>5 DEF ZipFlush, FlushesLeftover, At
  <2> QED
    BY <1>2, <1>5, <2>1, Flushed DEF ZipFlush, Promise!Next
<1>6. CASE ZipWrite
  <2> DEFINE n == IF stream.kind = "kwajzip" THEN z.bytes ELSE Least(want, z.bytes)
             t == [i \in 1 .. n |-> window[i - 1]]
  <2>1. /\ out' = out \o t /\ pc # "idle" /\ UNCHANGED <<stream, due, error>>
        /\ want' = IF stream.kind = "kwajzip" THEN 0 ELSE want - n
        /\ pc' = IF error # "OK" \/ (stream.kind = "mszip" /\ want' = 0) THEN "idle" ELSE "frame"
    BY <1>6 DEF ZipWrite, ZipAt
  <2>2. n \in Nat /\ (stream.kind = "mszip" => n <= want)
    BY <1>2 DEF Least
  <2>3. t = [i \in 1 .. n |-> t[i]]
    OBVIOUS
  <2> HIDE DEF n, t
  <2>4. CASE stream.kind = "kwajzip"
    BY <1>1, <2>1, <2>2, <2>3, <2>4, SentAll DEF Promise!Next
  <2>5. CASE stream.kind = "mszip"
    <3>1. pc' # "idle" \/ error' # "OK" \/ want' = 0
      BY <2>1, <2>5
    <3> QED
      BY <1>1, <2>1, <2>2, <2>3, <2>5, <3>1, SentMore DEF Promise!Next
  <2> QED
    BY <1>1, <2>4, <2>5
<1>7. CASE \/ ZipFrame \/ ZipStoredBlock \/ ZipHuffmanBlock \/ ZipStoredRun \/ ZipLiteral
           \/ ZipMatch \/ ZipCopy \/ ZipEndBlock
  <2>1. pc # "idle" /\ pc' # "idle" /\ UNCHANGED <<stream, out, due, want>>
    BY <1>7 DEF ZipFrame, ZipStoredBlock, ZipHuffmanBlock, ZipStoredRun, ZipLiteral, ZipMatch,
       ZipCopy, ZipEndBlock, FlushIfNeeded, ZipAt, dec
  <2> QED
    BY <2>1, Silent DEF Promise!Next
<1>8. CASE ZipTooMuch \/ ZipDamage \/ ZipUnreadable
  <2>1. /\ pc # "idle" /\ UNCHANGED <<stream, out, due, want>>
        /\ pc' # "idle" \/ error' # "OK"
    BY <1>8 DEF ZipTooMuch, ZipDamage, ZipUnreadable, InflateFails, ZipAt
  <2> QED
    BY <2>1, Silent DEF Promise!Next
<1>9. CASE \/ ZipLeftoverFails \/ ZipNoFrame \/ KwajReturn \/ KwajUnreadable \/ KwajNoHeader
           \/ ZipWriteFails
  <2>1. /\ pc # "idle" /\ UNCHANGED <<stream, out, due, want>>
        /\ error' # "OK" \/ Once
    BY <1>1, <1>9 DEF ZipLeftoverFails, LeftoverFails, ZipNoFrame, Unreadable, KwajReturn,
       KwajUnreadable, KwajNoHeader, ZipWriteFails, WriteFails, Returns, At, ZipAt
  <2> QED
    BY <2>1, Silent DEF Promise!Next
<1> QED
  BY <1>3, <1>4, <1>5, <1>6, <1>7, <1>8, <1>9 DEF ZipCallStep

\* LZX writes as much of a frame as was asked for.
LEMMA LzxSeen ==
  ASSUME stream \in Streams, OutKept, stream.kind = "lzx", LzxKept,
         LzxEnter \/ LzxSetOutputLength \/ LzxCallStep
  PROVE  OutKept' /\ (Promise!Next \/ UNCHANGED <<stream, out, due, pc, error>>)
<1>1. ~Once
  BY DEF Once
<1>2. optr \in Nat /\ oend \in Nat /\ optr <= oend /\ want \in Nat
  BY DEF LzxKept, LzxMemory
<1>3. CASE LzxEnter
  BY <1>3, Asked DEF LzxEnter, Promise!Next
<1>4. CASE LzxSetOutputLength
  BY <1>4 DEF LzxSetOutputLength, OutKept, Once, call
<1>5. CASE LzxFlush
  BY <1>1, <1>2, <1>5, Flushed DEF LzxFlush, Promise!Next
<1>6. CASE LzxFrameDone
  <2> DEFINE in8 == z.started /\ stream.opt.e8 /\ l.size > E8MIN
             unit(k) == IF in8 /\ window[z.fposn + k] # z.curpos + k THEN JUNK
                        ELSE window[z.fposn + k]
             n == Least(want, l.size)
             t == [i \in 1 .. n |-> unit(i - 1)]
  <2>1. l.size \in Nat /\ pc # "idle"
    BY <1>6 DEF LzxKept, LzxFrameDone, LzxFrameFull, At, Decoding
  <2>2. /\ out' = out \o t /\ want' = want - n
        /\ pc' # "idle" /\ UNCHANGED <<stream, due>>
    BY <1>6 DEF LzxFrameDone
  <2>3. n \in Nat /\ n <= want
    BY <1>2, <2>1 DEF Least
  <2>4. t = [i \in 1 .. n |-> t[i]]
    OBVIOUS
  <2> HIDE DEF n, t
  <2> QED
    BY <1>1, <2>1, <2>2, <2>3, <2>4, SentMore DEF Promise!Next
<1>7. CASE LzxReturn
  <2>1. /\ pc # "idle" /\ UNCHANGED <<stream, out, due, want>>
        /\ error' = IF want > 0 THEN "DECRUNCH" ELSE "OK"
    BY <1>7 DEF LzxReturn, Returns, At
  <2>2. error' # "OK" \/ want = 0
    BY <1>2, <2>1
  <2> QED
    BY <2>1, <2>2, Silent DEF Promise!Next
<1>8. CASE \/ LzxFrame \/ LzxNewBlock \/ LzxRun \/ LzxLiteral \/ LzxMatch \/ LzxCopy
           \/ LzxStoredRun \/ LzxRunDone
  <2>1. pc # "idle" /\ pc' # "idle" /\ UNCHANGED <<stream, out, due, want>>
    BY <1>8 DEF LzxFrame, LzxNewBlock, LzxRun, LzxLiteral, LzxMatch, LzxCopy, LzxStoredRun,
       LzxRunDone, At, dec, call
  <2> QED
    BY <2>1, Silent DEF Promise!Next
<1>9. CASE \/ LzxLeftoverFails \/ LzxBadBlock \/ LzxBadMatch \/ LzxUnreadable \/ LzxOverrun
           \/ LzxBadFrame \/ LzxFrameFails
  <2>1. pc # "idle" /\ error' # "OK" /\ UNCHANGED <<stream, out, due, want>>
    BY <1>9 DEF LzxLeftoverFails, LeftoverFails, LzxBadBlock, LzxBadMatch, LzxUnreadable,
       Unreadable, LzxOverrun, LzxBadFrame, LzxFrameFails, LzxFrameFull, WriteFails, Rejects,
       Returns, At
  <2> QED
    BY <2>1, Silent DEF Promise!Next
<1> QED
  BY <1>3, <1>4, <1>5, <1>6, <1>7, <1>8, <1>9 DEF LzxCallStep

-----------------------------------------------------------------------------
(* All of them.                                                             *)

LEMMA StreamInit == Init => OutKept /\ Promise!Init
<1> SUFFICES ASSUME Init PROVE OutKept /\ Promise!Init
  OBVIOUS
<1>1. stream \in Streams /\ out = <<>> /\ due = 0 /\ want = 0 /\ pc = "idle" /\ error = "OK"
  BY DEF Init
<1>2. stream.total \in Nat
  BY <1>1, StreamFacts
<1>3. Sequence(out) /\ Len(out) = 0
  BY <1>1 DEF Sequence
<1> QED
  BY <1>1, <1>2, <1>3 DEF OutKept, Promise!Init

\* what LzStream knows of a decoder
Seen == <<stream.total, Len(out), due,
          IF pc # "idle" THEN "busy" ELSE IF error = "OK" THEN "idle" ELSE "failed">>

LEMMA StreamStep ==
  Inv /\ OutKept /\ [Next]_vars => OutKept' /\ [Promise!Next]_Seen
<1> SUFFICES ASSUME Inv, OutKept, [Next]_vars PROVE OutKept' /\ [Promise!Next]_Seen
  OBVIOUS
<1>1. stream \in Streams /\ RingKept /\ QtmKept /\ ZipKept /\ LzxKept
  BY DEF Inv
<1>2. CASE RingCall \/ RingCallStep
  BY <1>2, KindOfStep, RingSeen DEF IsRing
<1>3. CASE QtmEnter \/ QtmCallStep
  BY <1>1, <1>3, KindOfStep, QtmSeen
<1>4. CASE ZipEnter \/ KwajEnter \/ ZipCallStep
  BY <1>1, <1>4, KindOfStep, ZipSeen DEF IsZip
<1>5. CASE LzxEnter \/ LzxSetOutputLength \/ LzxCallStep
  <2>1. OutKept' /\ (Promise!Next \/ UNCHANGED <<stream, out, due, pc, error>>)
    BY <1>1, <1>5, KindOfStep, LzxSeen
  <2> QED
    BY <2>1 DEF Seen
<1>6. CASE UNCHANGED vars
  BY <1>6 DEF vars, dec, call, OutKept, Once, Seen
<1> QED
  BY <1>2, <1>3, <1>4, <1>5, <1>6 DEF Next, CallStep

(* Every decoder does for its caller what LzStream promises: for every size *)
(* of window and frame, and every stream, legal or not.                    *)
THEOREM DecodersImplementStream == Spec => ImplementsStream
<1>1. Spec => []Inv
  BY InvInit, InvStep, PTL DEF Spec
<1>2. Spec => Promise!Spec
  BY <1>1, StreamInit, StreamStep, PTL DEF Spec, Promise!Spec, Seen
<1> QED
  BY <1>2 DEF ImplementsStream

-----------------------------------------------------------------------------
(* Every decoder writes the stream in order.  A unit is known by its number, *)
(* so what has to be said is which number is where: of the places of the     *)
(* window those before the next one hold the last units put there, those     *)
(* behind it the units of a lap ago.                                         *)

\* The unit n, or what may be there instead.
Right(u, n, other) == u = n \/ u \in other

None == {}

\* The unit at place p, when n were put and the next goes to place q of s.
UnitAt(p, s, q, n) == IF p < q THEN n - q + p ELSE n - q - s + p

\* So far as there are such units: the first one is that numbered `first'.
Laid(w, s, q, n, first, other) ==
  \A p \in 0 .. s - 1 :
    UnitAt(p, s, q, n) >= first => Right(w[p], UnitAt(p, s, q, n), other)

\* Place src is off places behind place q.
Behind(src, s, q, off) ==
  /\ src \in 0 .. s - 1 /\ off \in 1 .. s
  /\ src = q - off \/ src = q - off + s

\* The units written, and those that wait in `from' between o_ptr and o_end.
SentRight(o, other) == \A i \in 1 .. Len(o) : Right(o[i], i - 1, other)
Waiting(from, first, end, n, other) ==
  \A j \in 0 .. end - first - 1 : Right(from[first + j], n + j, other)

\* What of the match in hand is not copied yet is not in the window.
Put ==
  IF pc \in {"copy", "wrap_match", "second_part"}
    THEN made - l.left - (IF stream.kind = "quantum" THEN l.rest ELSE 0)
    ELSE made

MemoryKept ==
  /\ window \in [0 .. Size - 1 -> Units]
  /\ out \in Seq(Units)
  /\ made \in Int

RingOrder ==
  IsRing =>
    /\ MemoryKept /\ SentRight(out, None)
    /\ pc # "idle" \/ due = 0 =>
         Put = Len(out) /\ Laid(window, Size, posn, Put, -Size, None)
    /\ pc # "idle" => l.left \in Int
    /\ pc = "copy" => l.left >= 1 /\ Behind(l.src, Size, posn, l.off)

\* The oldest unit of the reference data.
Oldest == -stream.opt.ref

\* What is decoded lies before the frame, and behind it what of the frame is.
LzxPlaced ==
  /\ Laid(window, Size, posn, Put, Oldest, None)
  /\ z.fposn <= posn /\ z.fposn <= Decoded /\ Decoded = Put - (posn - z.fposn)
  /\ stream.opt.e8 => z.curpos = Decoded
  /\ pc \in {"idle", "leftover", "frame"} => Waiting(LzxFrom, optr, oend, Len(out), None)
  /\ pc = "copy" => Behind(l.src, Size, posn, l.off) /\ Put - l.off >= Oldest

LzxOrder ==
  stream.kind = "lzx" => SentRight(out, None) /\ (error = "OK" => LzxPlaced)

\* It is so unless a damaged stream had an offset that no match has.
LzxClean == z.stray => ~intact
LzxSound == stream.kind = "lzx" => LzxClean /\ (z.stray \/ LzxOrder)

\* In a call, or between two when none has failed.
QtmPlaced ==
  /\ Laid(window, Size, posn, Put, 0, None)
  /\ Len(out) = Put - (posn - optr)
  /\ pc = "wrap" => posn = Size /\ oend = Size
  /\ pc = "wrap_match" => l.left = 0
  /\ pc = "second_part" => l.rest = 0
  /\ pc \in {"copy", "wrap_match", "second_part"} =>
       Behind(l.src, Size, posn, l.off) /\ Put - l.off >= 0

QtmOrder ==
  stream.kind = "quantum" /\ intact =>
    MemoryKept /\ SentRight(out, None) /\ (error = "OK" => QtmPlaced)

\* The zeros that frames were repaired with.
Zeros == IF z.hurt THEN {JUNK} ELSE {}

\* Between two frames.
ZipBetween ==
  /\ Waiting(window, optr, oend, Len(out), Zeros)
  /\ made < stream.total => made = Decoded /\ Laid(window, Size, 0, made, 0, Zeros)
  /\ pc = "frame" => optr = oend

\* In a frame, of which the window is full or not.
ZipWithin ==
  /\ z.bytes = 0 \/ (z.bytes = FRAME /\ posn = 0)
  /\ Len(out) = Put - posn - z.bytes
  /\ Laid(window, Size, posn, Put, 0, Zeros)
  /\ pc \in {"copy", "stored"} =>
       l.left >= 0 /\ (l.left > 0 => z.bytes = 0 /\ posn + l.left <= FRAME)
  /\ pc = "copy" => l.left >= 1 /\ Behind(l.src, Size, posn, l.off) /\ Put - l.off >= 0

\* A frame to be written, whole if it is not the stream's last.
ZipWhole ==
  /\ \A p \in 0 .. z.bytes - 1 : Right(window[p], Len(out) + p, Zeros)
  /\ error = "OK" /\ z.bytes = FRAME /\ made < stream.total =>
       made = Len(out) + FRAME /\ Laid(window, Size, 0, made, 0, Zeros)

ZipOrder ==
  IsZip /\ intact =>
    /\ MemoryKept /\ SentRight(out, Zeros)
    /\ stream.kind = "kwajzip" => optr = oend
    /\ error = "OK" /\ pc \in {"idle", "leftover", "frame"} => ZipBetween
    /\ Busy /\ pc \notin {"frame", "write"} => pc # "too_much" /\ ZipWithin
    /\ pc = "write" => ZipWhole

-----------------------------------------------------------------------------
(* Windows.                                                                 *)

LEMMA JunkIsNone == JUNK \notin Int
BY LzWindowAssumption DEF LzWindowAssumption

LEMMA OutLength == out \in Seq(Units) => Len(out) \in Nat
OBVIOUS

\* The next unit is put in its place.
LEMMA LaidNext ==
  ASSUME NEW s \in Nat \ {0}, NEW w \in [0 .. s - 1 -> Units], NEW q \in 0 .. s - 1,
         NEW n \in Int, NEW first \in Int, NEW other, NEW u \in Units, Right(u, n, other),
         Laid(w, s, q, n, first, other)
  PROVE  /\ [w EXCEPT ![q] = u] \in [0 .. s - 1 -> Units]
         /\ Laid([w EXCEPT ![q] = u], s, q + 1, n + 1, first, other)
<1> DEFINE v == [w EXCEPT ![q] = u]
<1>1. v \in [0 .. s - 1 -> Units] /\ v[q] = u /\ \A p \in 0 .. s - 1 : p # q => v[p] = w[p]
  OBVIOUS
<1> HIDE DEF v
<1>2. ASSUME NEW p \in 0 .. s - 1, UnitAt(p, s, q + 1, n + 1) >= first
      PROVE  Right(v[p], UnitAt(p, s, q + 1, n + 1), other)
  <2>1. CASE p = q
    <3>1. UnitAt(p, s, q + 1, n + 1) = n
      BY <2>1 DEF UnitAt
    <3> QED
      BY <1>1, <2>1, <3>1
  <2>2. CASE p # q
    <3>1. UnitAt(p, s, q + 1, n + 1) = UnitAt(p, s, q, n)
      BY <2>2 DEF UnitAt
    <3> QED
      BY <1>1, <1>2, <2>2, <3>1 DEF Laid
  <2> QED
    BY <2>1, <2>2
<1>3. Laid(v, s, q + 1, n + 1, first, other)
  BY <1>2 DEF Laid
<1> QED
  BY <1>1, <1>3 DEF v

\* A run of k units, from place q on.
Filled(w, q, k, n) == [p \in DOMAIN w |-> IF p \in q .. q + k - 1 THEN n + p - q ELSE w[p]]

LEMMA LaidRun ==
  ASSUME NEW s \in Nat \ {0}, NEW w \in [0 .. s - 1 -> Units], NEW q \in Nat, NEW k \in Nat,
         q + k <= s, NEW n \in Int, NEW first \in Int, NEW other, NEW v,
         v = Filled(w, q, k, n), Laid(w, s, q, n, first, other)
  PROVE  v \in [0 .. s - 1 -> Units] /\ Laid(v, s, q + k, n + k, first, other)
<1>1. v \in [0 .. s - 1 -> Units]
  BY DEF Units, Filled
<1>2. ASSUME NEW p \in 0 .. s - 1, UnitAt(p, s, q + k, n + k) >= first
      PROVE  Right(v[p], UnitAt(p, s, q + k, n + k), other)
  <2>1. CASE p \in q .. q + k - 1
    <3>1. UnitAt(p, s, q + k, n + k) = n + p - q
      BY <2>1 DEF UnitAt
    <3> QED
      BY <2>1, <3>1 DEF Right, Filled
  <2>2. CASE p \notin q .. q + k - 1
    <3>1. UnitAt(p, s, q + k, n + k) = UnitAt(p, s, q, n)
      BY <2>2 DEF UnitAt
    <3> QED
      BY <1>2, <2>2, <3>1 DEF Laid, Filled
  <2> QED
    BY <2>1, <2>2
<1> QED
  BY <1>1, <1>2 DEF Laid

\* The end of the window is its beginning.
LEMMA LaidRound ==
  ASSUME NEW s \in Nat \ {0}, NEW w, NEW n \in Int, NEW first, NEW other
  PROVE  Laid(w, s, s, n, first, other) <=> Laid(w, s, 0, n, first, other)
<1>1. \A p \in 0 .. s - 1 : UnitAt(p, s, s, n) = UnitAt(p, s, 0, n)
  BY DEF UnitAt
<1> QED
  BY <1>1 DEF Laid

\* A match finds what it is to copy.
LEMMA SourceRight ==
  ASSUME NEW s \in Nat \ {0}, NEW w \in [0 .. s - 1 -> Units], NEW q \in 0 .. s, NEW n \in Int,
         NEW first \in Int, NEW other, NEW src, NEW off, Behind(src, s, q, off),
         n - off >= first, Laid(w, s, q, n, first, other), other \subseteq {JUNK}
  PROVE  Copied(w[src], off) \in Units /\ Right(Copied(w[src], off), n, other)
<1>1. UnitAt(src, s, q, n) = n - off /\ src \in 0 .. s - 1 /\ off \in Int
  BY DEF UnitAt, Behind
<1>2. Right(w[src], n - off, other) /\ w[src] \in Units
  BY <1>1 DEF Laid
<1> QED
  BY <1>1, <1>2, JunkIsNone DEF Right, Copied, Units

\* Both places go on together.
LEMMA BehindNext ==
  ASSUME NEW s \in Nat \ {0}, NEW q \in 0 .. s - 1, NEW src, NEW off, Behind(src, s, q, off)
  PROVE  /\ Behind(IF src + 1 = s THEN 0 ELSE src + 1, s, q + 1, off)
         /\ Behind((src + 1) % s, s, q + 1, off)
<1>1. src \in 0 .. s - 1 /\ off \in 1 .. s /\ (src = q - off \/ src = q - off + s)
  BY DEF Behind
<1>2. (src + 1) % s = IF src + 1 = s THEN 0 ELSE src + 1
  BY <1>1
<1>3. Behind(IF src + 1 = s THEN 0 ELSE src + 1, s, q + 1, off)
  <2>1. CASE src + 1 = s
    BY <1>1, <2>1 DEF Behind
  <2>2. CASE src + 1 # s
    BY <1>1, <2>2 DEF Behind
  <2> QED
    BY <2>1, <2>2
<1> QED
  BY <1>2, <1>3

LEMMA BehindRound ==
  ASSUME NEW s \in Nat \ {0}, NEW src, NEW off, Behind(src, s, s, off)
  PROVE  Behind(src, s, 0, off)
BY DEF Behind

\* Where a match of off units ago is.
LEMMA BehindOf ==
  ASSUME NEW s \in Nat \ {0}, NEW q \in 0 .. s - 1, NEW off \in 1 .. s
  PROVE  /\ Behind(IF off > q THEN s - (off - q) ELSE q - off, s, q, off)
         /\ (q - off) % s = IF off > q THEN s - (off - q) ELSE q - off
<1>1. CASE off > q
  <2>1. (q - off) % s = s - (off - q)
    BY <1>1
  <2> QED
    BY <1>1, <2>1 DEF Behind
<1>2. CASE off <= q
  <2>1. (q - off) % s = q - off
    BY <1>2
  <2> QED
    BY <1>2, <2>1 DEF Behind
<1> QED
  BY <1>1, <1>2

\* One unit is written behind the others.
LEMMA SentOne ==
  ASSUME NEW o \in Seq(Units), NEW u \in Units, NEW other, SentRight(o, other),
         Right(u, Len(o), other)
  PROVE  /\ Append(o, u) \in Seq(Units) /\ Len(Append(o, u)) = Len(o) + 1
         /\ SentRight(Append(o, u), other)
<1>1. /\ Len(o) \in Nat /\ Append(o, u) \in Seq(Units) /\ Len(Append(o, u)) = Len(o) + 1
      /\ \A i \in 1 .. Len(o) : Append(o, u)[i] = o[i]
      /\ Append(o, u)[Len(o) + 1] = u
  OBVIOUS
<1> QED
  BY <1>1 DEF SentRight, Right

\* Units are written behind the others.
LEMMA SentMany ==
  ASSUME NEW o \in Seq(Units), NEW t \in Seq(Units), NEW other, SentRight(o, other),
         \A i \in 1 .. Len(t) : Right(t[i], Len(o) + i - 1, other)
  PROVE  /\ o \o t \in Seq(Units) /\ Len(o \o t) = Len(o) + Len(t)
         /\ SentRight(o \o t, other)
<1> DEFINE c == o \o t
<1>1. /\ Len(o) \in Nat /\ Len(t) \in Nat /\ c \in Seq(Units) /\ Len(c) = Len(o) + Len(t)
      /\ \A i \in 1 .. Len(o) : c[i] = o[i]
      /\ \A i \in 1 .. Len(t) : c[Len(o) + i] = t[i]
  OBVIOUS
<1> HIDE DEF c
<1>2. ASSUME NEW i \in 1 .. Len(c) PROVE Right(c[i], i - 1, other)
  <2>1. CASE i <= Len(o)
    BY <1>1, <2>1 DEF SentRight
  <2>2. CASE i > Len(o)
    <3>1. i - Len(o) \in 1 .. Len(t) /\ Len(o) + (i - Len(o)) = i
      BY <1>1, <2>2
    <3>2. Right(t[i - Len(o)], Len(o) + (i - Len(o)) - 1, other) /\ c[i] = t[i - Len(o)]
      BY <1>1, <3>1
    <3> QED
      BY <3>1, <3>2
  <2> QED
    BY <1>1, <2>1, <2>2
<1>3. SentRight(c, other)
  BY <1>2 DEF SentRight
<1> QED
  BY <1>1, <1>3 DEF c

\* Units to be written: n of them lie from place p of `from' on.
Ready(o, from, p, n, other) ==
  \A i \in 0 .. n - 1 : from[p + i] \in Units /\ Right(from[p + i], Len(o) + i, other)

Sent(o, from, p, n) == o \o [i \in 1 .. n |-> from[p + i - 1]]

\* A write() of n units.
LEMMA SentFrom ==
  ASSUME NEW o \in Seq(Units), NEW from, NEW p \in Int, NEW n \in Nat, NEW other,
         SentRight(o, other), Ready(o, from, p, n, other),
         NEW w, w = Sent(o, from, p, n)
  PROVE  w \in Seq(Units) /\ Len(w) = Len(o) + n /\ SentRight(w, other)
<1> DEFINE t == [i \in 1 .. n |-> from[p + i - 1]]
<1>1. ASSUME NEW i \in 1 .. n
      PROVE  t[i] \in Units /\ Right(t[i], Len(o) + i - 1, other)
  <2>1. i - 1 \in 0 .. n - 1 /\ p + (i - 1) = p + i - 1 /\ Len(o) + (i - 1) = Len(o) + i - 1
    OBVIOUS
  <2>2. from[p + (i - 1)] \in Units /\ Right(from[p + (i - 1)], Len(o) + (i - 1), other)
    BY <2>1 DEF Ready
  <2>3. t[i] = from[p + i - 1]
    OBVIOUS
  <2> QED
    BY <2>1, <2>2, <2>3
<1>2. t \in [1 .. n -> Units]
  BY <1>1
<1>3. w = o \o t
  BY DEF Sent
<1> HIDE DEF t
<1>4. t \in Seq(Units) /\ Len(t) = n
  BY <1>2
<1>5. \A i \in 1 .. Len(t) : Right(t[i], Len(o) + i - 1, other)
  BY <1>1, <1>4
<1> QED
  BY <1>3, <1>4, <1>5, SentMany

-----------------------------------------------------------------------------
(* LZSS and LZH.                                                            *)

\* A unit goes to its place and out, and the next place is the one behind it.
LEMMA RingPutsRight ==
  ASSUME stream \in Streams, IsRing, RingKept, MemoryKept, SentRight(out, None),
         Laid(window, Size, posn, Len(out), -Size, None),
         NEW u \in Units, Right(u, Len(out), None), RingPuts(u), stream' = stream
  PROVE  /\ window' \in [0 .. Size - 1 -> Units] /\ out' \in Seq(Units)
         /\ Len(out') = Len(out) + 1 /\ Len(out) \in Nat /\ SentRight(out', None)
         /\ Laid(window', Size, posn', Len(out'), -Size, None)
         /\ \A src, off : Behind(src, Size, posn, off) => Behind((src + 1) % Size, Size, posn', off)
<1>1. Size \in Nat \ {0} /\ posn \in 0 .. Size - 1
  BY StreamFacts DEF RingKept, InWindow
<1>2. /\ out' \in Seq(Units) /\ Len(out') = Len(out) + 1 /\ Len(out) \in Nat
      /\ SentRight(out', None)
  <2>1. out \in Seq(Units) /\ out' = Append(out, u)
    BY DEF RingPuts, MemoryKept
  <2>2. Len(out) \in Nat
    BY <2>1
  <2> QED
    BY <2>1, <2>2, SentOne
<1>3. window \in [0 .. Size - 1 -> Units] /\ window' = [window EXCEPT ![posn] = u]
  BY DEF RingPuts, Puts, MemoryKept
<1>4. /\ window' \in [0 .. Size - 1 -> Units]
      /\ Laid(window', Size, posn + 1, Len(out) + 1, -Size, None)
  <2> DEFINE first == -Size
  <2>1. first \in Int /\ Len(out) \in Int
    BY <1>1, <1>2
  <2>2. Laid(window, Size, posn, Len(out), first, None)
    OBVIOUS
  <2> HIDE DEF first
  <2>3. /\ [window EXCEPT ![posn] = u] \in [0 .. Size - 1 -> Units]
        /\ Laid([window EXCEPT ![posn] = u], Size, posn + 1, Len(out) + 1, first, None)
    BY <1>1, <1>3, <2>1, <2>2, LaidNext
  <2> QED
    BY <1>3, <2>3 DEF first
<1>5. posn' = IF posn + 1 = Size THEN 0 ELSE posn + 1
  <2>1. posn' = (posn + 1) % Size
    BY DEF RingPuts
  <2> QED
    BY <1>1, <2>1
<1>6. Laid(window', Size, posn', Len(out'), -Size, None)
  <2>1. CASE posn + 1 = Size
    BY <1>1, <1>2, <1>4, <1>5, <2>1, LaidRound, Len(out) + 1 \in Int
  <2>2. CASE posn + 1 # Size
    BY <1>2, <1>4, <1>5, <2>2
  <2> QED
    BY <2>1, <2>2
<1>7. ASSUME NEW src, NEW off, Behind(src, Size, posn, off)
      PROVE  Behind((src + 1) % Size, Size, posn', off)
  <2>1. Behind((src + 1) % Size, Size, posn + 1, off)
    BY <1>1, <1>7, BehindNext
  <2>2. CASE posn + 1 = Size
    BY <1>1, <1>5, <2>1, <2>2, BehindRound
  <2> QED
    BY <1>5, <2>1, <2>2
<1> QED
  BY <1>2, <1>4, <1>6, <1>7

LEMMA RingOrderStep ==
  ASSUME stream \in Streams, IsRing, RingKept, OutKept, RingOrder, RingCall \/ RingCallStep
  PROVE  RingOrder'
<1>1. stream' = stream /\ Size' = Size /\ IsRing'
  BY RingStep DEF Size, IsRing
<1>2. stream.kind # "quantum" /\ Size \in Nat \ {0} /\ Lengths \subseteq Nat \ {0}
  BY StreamFacts, LzWindowAssumption DEF LzWindowAssumption, IsRing
<1>3. /\ MemoryKept /\ SentRight(out, None)
      /\ Len(out) \in Nat /\ made \in Int /\ window \in [0 .. Size - 1 -> Units]
  BY OutLength DEF RingOrder, MemoryKept
<1>4. pc # "idle" \/ due = 0 => Put = Len(out) /\ Laid(window, Size, posn, Put, -Size, None)
  BY DEF RingOrder
<1>5. CASE RingCall
  <2>1. /\ UNCHANGED <<window, posn, made, out>> /\ pc = "idle" /\ pc' = "tokens" /\ due = 0
        /\ l' = [left |-> 0, off |-> 0, src |-> 0]
    BY <1>5 DEF RingCall, RingAt, dec
  <2>2. Put = made /\ Put' = made
    BY <2>1 DEF Put
  <2>3. l'.left \in Int
    BY <2>1
  <2>4. Put' = Len(out') /\ Laid(window', Size, posn', Put', -Size, None)
    BY <1>4, <2>1, <2>2
  <2> QED
    BY <1>1, <1>3, <2>1, <2>3, <2>4 DEF RingOrder, MemoryKept
<1>6. CASE RingLiteral
  <2>1. pc = "tokens" /\ pc' = pc /\ RingPuts(made) /\ made' = made + 1 /\ l' = l
    BY <1>6 DEF RingLiteral, RingAt
  <2>2. Put = made /\ Put' = made + 1 /\ made \in Int
    BY <1>3, <2>1 DEF Put
  <2>3. made \in Units /\ Right(made, Len(out), None)
    BY <1>4, <2>1, <2>2 DEF Units, Right
  <2>4. Laid(window, Size, posn, Len(out), -Size, None) /\ Put = Len(out) /\ l.left \in Int
    BY <1>4, <2>1 DEF RingOrder
  <2>5. /\ window' \in [0 .. Size - 1 -> Units] /\ out' \in Seq(Units)
        /\ Len(out') = Len(out) + 1 /\ SentRight(out', None)
        /\ Laid(window', Size, posn', Len(out'), -Size, None)
    BY <1>1, <1>3, <2>1, <2>3, <2>4, RingPutsRight
  <2> QED
    BY <1>1, <2>1, <2>2, <2>4, <2>5 DEF RingOrder, MemoryKept
<1>7. CASE RingMatch
  <2>1. PICK len \in Lengths, off \in 1 .. Size :
          /\ l' = [left |-> len, off |-> off, src |-> (posn - off) % Size]
          /\ made' = made + len
    BY <1>7 DEF RingMatch
  <2>2. pc = "tokens" /\ pc' = "copy" /\ UNCHANGED <<window, posn, out>>
    BY <1>7 DEF RingMatch, RingAt, dec
  <2>3. posn \in 0 .. Size - 1
    BY <1>2 DEF RingKept, InWindow
  <2>4. Behind(l'.src, Size, posn, l'.off) /\ l'.left = len
    BY <1>2, <2>1, <2>3, BehindOf
  <2>5. Put' = made' - len /\ Put = made /\ made \in Int /\ len \in Int /\ len >= 1
    BY <1>1, <1>2, <1>3, <2>1, <2>2, <2>4 DEF Put
  <2>6. Put' = Put /\ made' \in Int
    BY <2>1, <2>5
  <2>7. MemoryKept'
    BY <1>1, <1>3, <2>2, <2>6 DEF MemoryKept
  <2> QED
    BY <1>1, <1>3, <1>4, <2>2, <2>4, <2>5, <2>6, <2>7 DEF RingOrder
<1>8. CASE RingCopy
  <2>1. /\ pc = "copy" /\ pc' = (IF l.left = 1 THEN "tokens" ELSE "copy") /\ made' = made
        /\ RingPuts(Copied(window[l.src], l.off))
        /\ l' = [l EXCEPT !.left = @ - 1, !.src = (@ + 1) % Size]
    BY <1>8 DEF RingCopy, RingAt
  <2>2. {"left", "off", "src"} \subseteq DOMAIN l
    BY <2>1 DEF RingKept
  <2>3. l'.left = l.left - 1 /\ l'.src = (l.src + 1) % Size /\ l'.off = l.off
    BY <2>1, <2>2
  <2>4. /\ l.left \in Int /\ l.left >= 1 /\ Behind(l.src, Size, posn, l.off)
        /\ Put = made - l.left /\ made \in Int
        /\ Laid(window, Size, posn, Len(out), -Size, None) /\ Put = Len(out)
    <3>1. l.left \in Int /\ l.left >= 1 /\ Behind(l.src, Size, posn, l.off)
      BY <2>1 DEF RingOrder
    <3>2. Put = made - l.left - 0 /\ made \in Int
      BY <1>2, <1>3, <2>1 DEF Put
    <3>3. Put = Len(out) /\ Laid(window, Size, posn, Put, -Size, None)
      BY <1>4, <2>1
    <3> QED
      BY <3>1, <3>2, <3>3
  <2>5. /\ Copied(window[l.src], l.off) \in Units
        /\ Right(Copied(window[l.src], l.off), Len(out), None)
    <3>1. posn \in 0 .. Size - 1 /\ window \in [0 .. Size - 1 -> Units]
      BY <1>2, <1>3 DEF RingKept, InWindow
    <3> DEFINE first == -Size
    <3>2. /\ Len(out) - l.off >= first /\ posn \in 0 .. Size /\ first \in Int /\ Len(out) \in Int
          /\ None \subseteq {JUNK} /\ Laid(window, Size, posn, Len(out), first, None)
      BY <1>2, <1>3, <2>4, <3>1 DEF Behind, None
    <3> HIDE DEF first
    <3> QED
      BY <1>2, <2>4, <3>1, <3>2, SourceRight
  <2>6. /\ window' \in [0 .. Size - 1 -> Units] /\ out' \in Seq(Units)
        /\ Len(out') = Len(out) + 1 /\ SentRight(out', None)
        /\ Laid(window', Size, posn', Len(out'), -Size, None)
        /\ Behind((l.src + 1) % Size, Size, posn', l.off)
    BY <1>1, <1>3, <2>1, <2>4, <2>5, RingPutsRight
  <2>7. Put' = Len(out')
    <3>1. CASE l.left = 1
      BY <2>1, <2>4, <2>6, <3>1 DEF Put
    <3>2. CASE l.left # 1
      BY <1>1, <1>2, <2>1, <2>3, <2>4, <2>6, <3>2 DEF Put
    <3> QED
      BY <3>1, <3>2
  <2>8. l'.left \in Int /\ (l.left # 1 => l'.left >= 1)
    BY <2>3, <2>4
  <2> QED
    BY <1>1, <2>1, <2>3, <2>4, <2>6, <2>7, <2>8 DEF RingOrder, MemoryKept
<1>9. CASE RingEnd \/ RingUnreadable \/ RingBadTrees \/ RingWriteFails
  <2>1. UNCHANGED <<window, made, out, due>> /\ pc # "idle" /\ pc' = "idle"
    BY <1>9 DEF RingEnd, RingUnreadable, RingBadTrees, RingWriteFails, WriteFails, Returns,
       RingAt, At
  <2>2. due # 0
    BY <2>1 DEF OutKept, Once, IsRing
  <2> QED
    BY <1>1, <1>3, <2>1, <2>2 DEF RingOrder, MemoryKept
<1> QED
  BY <1>5, <1>6, <1>7, <1>8, <1>9 DEF RingCallStep

-----------------------------------------------------------------------------
(* Quantum.                                                                 *)

\* A unit is put in its place.
LEMMA QtmPutsRight ==
  ASSUME stream \in Streams, MemoryKept, QtmPlaced, posn \in 0 .. Size - 1, Put \in Int,
         NEW u \in Units, Right(u, Put, None), Puts(u), posn' = posn + 1
  PROVE  /\ window' \in [0 .. Size - 1 -> Units]
         /\ Laid(window', Size, posn', Put + 1, 0, None)
<1>1. Size \in Nat \ {0}
  BY StreamFacts
<1>2. /\ window \in [0 .. Size - 1 -> Units] /\ window' = [window EXCEPT ![posn] = u]
      /\ Laid(window, Size, posn, Put, 0, None) /\ 0 \in Int
  BY DEF MemoryKept, QtmPlaced, Puts
<1>3. /\ [window EXCEPT ![posn] = u] \in [0 .. Size - 1 -> Units]
      /\ Laid([window EXCEPT ![posn] = u], Size, posn + 1, Put + 1, 0, None)
  BY <1>1, <1>2, LaidNext
<1> QED
  BY <1>2, <1>3

\* A unit of a match is copied to its place, and both places go on.
LEMMA QtmCopies ==
  ASSUME stream \in Streams, MemoryKept, QtmPlaced, posn \in 0 .. Size - 1, Put \in Int,
         pc \in {"copy", "second_part"},
         Puts(Copied(window[l.src], l.off)), posn' = posn + 1
  PROVE  /\ window' \in [0 .. Size - 1 -> Units]
         /\ Laid(window', Size, posn', Put + 1, 0, None)
         /\ Behind((l.src + 1) % Size, Size, posn', l.off) /\ Put + 1 - l.off >= 0
<1>1. Size \in Nat \ {0}
  BY StreamFacts
<1>2. /\ Behind(l.src, Size, posn, l.off) /\ Put - l.off >= 0
      /\ Laid(window, Size, posn, Put, 0, None) /\ window \in [0 .. Size - 1 -> Units]
  BY DEF QtmPlaced, MemoryKept
<1>3. 0 \in Int /\ None \subseteq {JUNK} /\ posn \in 0 .. Size
  BY <1>1 DEF None
<1>4. Copied(window[l.src], l.off) \in Units /\ Right(Copied(window[l.src], l.off), Put, None)
  BY <1>1, <1>2, <1>3, SourceRight
<1>5. Behind((l.src + 1) % Size, Size, posn + 1, l.off) /\ l.off \in Int
  BY <1>1, <1>2, BehindNext, SMTT(40) DEF Behind
<1>6. Put + 1 - l.off >= 0
  BY <1>2, <1>5
<1> QED
  BY <1>4, <1>5, <1>6, QtmPutsRight

\* What is written lies between o_ptr and the next place.
LEMMA QtmWritesRight ==
  ASSUME stream \in Streams, MemoryKept, SentRight(out, None), QtmPlaced, Put \in Int,
         optr \in Nat, posn \in Nat, posn <= Size,
         NEW n \in Nat, optr + n <= posn, Writes(window, n)
  PROVE  out' \in Seq(Units) /\ Len(out') = Len(out) + n /\ SentRight(out', None)
<1>1. Size \in Nat \ {0}
  BY StreamFacts
<1>2. out \in Seq(Units) /\ Len(out) \in Nat /\ window \in [0 .. Size - 1 -> Units]
  BY OutLength DEF MemoryKept
<1>3. Laid(window, Size, posn, Put, 0, None) /\ Len(out) = Put - (posn - optr)
  BY DEF QtmPlaced
<1>4. ASSUME NEW i \in 0 .. n - 1
      PROVE  window[optr + i] \in Units /\ Right(window[optr + i], Len(out) + i, None)
  <2>1. optr + i \in 0 .. Size - 1 /\ UnitAt(optr + i, Size, posn, Put) = Len(out) + i
    BY <1>1, <1>2, <1>3 DEF UnitAt
  <2>2. Len(out) + i >= 0
    BY <1>2
  <2> QED
    BY <1>2, <1>3, <2>1, <2>2 DEF Laid
<1>5. out' = Sent(out, window, optr, n)
  BY DEF Writes, Sent
<1>6. Ready(out, window, optr, n, None) /\ optr \in Int
  BY <1>4 DEF Ready
<1> QED
  BY <1>2, <1>5, <1>6, SentFrom

\* Steps that put nothing in the window and write nothing.
LEMMA QtmSame ==
  ASSUME MemoryKept, SentRight(out, None), stream' = stream,
         UNCHANGED <<window, out>>, made' \in Int, error' = "OK" => QtmPlaced'
  PROVE  QtmOrder'
<1>1. Size' = Size
  BY DEF Size
<1> QED
  BY <1>1 DEF QtmOrder, MemoryKept

LEMMA QtmOrderStep ==
  ASSUME stream \in Streams, stream.kind = "quantum", QtmKept, QtmOrder, QtmEnter \/ QtmCallStep
  PROVE  QtmOrder'
<1>1. stream' = stream /\ Size' = Size /\ QtmKept'
  BY QtmStep DEF Size
<1> SUFFICES ASSUME intact' PROVE QtmOrder'
  BY DEF QtmOrder
<1>2. Size \in Nat \ {0} /\ Lengths \subseteq Nat \ {0}
  BY StreamFacts, LzWindowAssumption DEF LzWindowAssumption
<1>3. intact
  BY DEF QtmEnter, QtmCallStep, Enters, QtmFlush, FlushesLeftover, QtmLeftoverFails,
     LeftoverFails, WriteFails, QtmHead, QtmEnough, QtmLiteral, QtmMatch, QtmCopy, QtmWrapMatch,
     QtmBailsOut, QtmSecondPart, QtmStop, QtmOvershot, QtmWrap, QtmKeep, QtmOut, QtmWriteFails,
     QtmUnreadable, Unreadable, QtmTrailerUnreadable
<1>4. MemoryKept /\ SentRight(out, None) /\ made \in Int /\ (error = "OK" => QtmPlaced)
  BY <1>3 DEF QtmOrder, MemoryKept
<1>5. /\ want \in Nat /\ posn \in Nat /\ optr \in Nat /\ oend \in Nat
      /\ optr <= oend /\ oend <= posn /\ posn <= Size /\ (error = "OK" \/ pc = "idle")
      /\ Busy => /\ {"end", "left", "rest", "off", "src"} \subseteq DOMAIN l
                 /\ l.left \in Int /\ l.rest \in Nat
  BY DEF QtmKept
<1>6. Put \in Int
  BY <1>4, <1>5 DEF Put, Busy
<1>7. CASE QtmEnter
  <2>1. /\ UNCHANGED <<window, posn, optr, out, made, l, stream>> /\ pc = "idle" /\ error = "OK"
        /\ pc' = "leftover" /\ Size' = Size
    BY <1>1, <1>7 DEF QtmEnter, Enters, At, dec
  <2>2. Put' = Put
    BY <2>1 DEF Put
  <2>3. QtmPlaced'
    BY <1>4, <2>1, <2>2 DEF QtmPlaced
  <2> QED
    BY <1>4, <2>1, <2>3, QtmSame
<1>8. CASE QtmFlush
  <2>1. PICK n \in Int : /\ n = Least(oend - optr, want)
                         /\ Writes(window, n) /\ optr' = optr + n
    BY <1>5, <1>8 DEF QtmFlush, FlushesLeftover, Least
  <2>2. /\ UNCHANGED <<window, posn, made>> /\ pc = "leftover" /\ pc' \in {"idle", "head"}
    BY <1>8 DEF QtmFlush, FlushesLeftover, At
  <2>3. n \in Nat /\ optr + n <= posn
    BY <1>5, <2>1 DEF Least
  <2>4. QtmPlaced
    BY <1>4, <1>5, <2>2
  <2>5. out' \in Seq(Units) /\ Len(out') = Len(out) + n /\ SentRight(out', None)
    BY <1>4, <1>5, <1>6, <2>1, <2>3, <2>4, QtmWritesRight
  <2>6. Put' = Put
    BY <2>2 DEF Put
  <2>7. Len(out') = Put' - (posn' - optr') /\ Laid(window', Size', posn', Put', 0, None)
    BY <1>1, <1>5, <1>6, <2>1, <2>2, <2>3, <2>4, <2>5, <2>6 DEF QtmPlaced
  <2>8. QtmPlaced'
    BY <2>2, <2>7 DEF QtmPlaced
  <2> QED
    BY <1>1, <1>4, <2>2, <2>5, <2>8 DEF QtmOrder, MemoryKept
<1>9. CASE QtmLeftoverFails \/ QtmBailsOut \/ QtmOvershot \/ QtmWriteFails \/ QtmUnreadable
           \/ QtmTrailerUnreadable
  <2>1. UNCHANGED <<window, out, made>> /\ error' # "OK"
    BY <1>9 DEF QtmLeftoverFails, LeftoverFails, QtmBailsOut, QtmOvershot, QtmWriteFails,
       QtmUnreadable, QtmTrailerUnreadable, WriteFails, Rejects, Unreadable, Returns
  <2> QED
    BY <1>1, <1>4, <2>1, QtmSame
<1>10. CASE QtmHead \/ QtmEnough \/ QtmStop \/ QtmKeep
  <2>1. /\ UNCHANGED <<window, posn, optr, out, made, error>>
        /\ pc \in {"head", "tokens", "stop", "wrap"} /\ pc' \in {"head", "tokens", "wrap", "out"}
        /\ pc' = "wrap" => posn = Size /\ oend' = posn
    BY <1>10 DEF QtmHead, QtmEnough, QtmStop, QtmStops, QtmKeep, At, dec
  <2>2. Put' = Put
    BY <2>1 DEF Put
  <2>3. QtmPlaced
    BY <1>4, <1>5, <2>1
  <2>4. QtmPlaced'
    BY <1>1, <2>1, <2>2, <2>3 DEF QtmPlaced
  <2> QED
    BY <1>1, <1>4, <2>1, <2>4, QtmSame
<1>11. CASE QtmLiteral
  <2>1. /\ Puts(made) /\ posn' = posn + 1 /\ made' = made + 1 /\ pc = "tokens" /\ pc' = pc
        /\ posn < l.end /\ UNCHANGED <<optr, out, error>>
    BY <1>11 DEF QtmLiteral, At
  <2>2. posn \in 0 .. Size - 1
    BY <1>2, <1>5, <2>1 DEF QtmKept, Busy
  <2>3. Put = made /\ Put' = made + 1 /\ made \in Units /\ Right(made, Put, None)
    BY <1>4, <2>1 DEF Put, Units, Right
  <2>4. QtmPlaced
    BY <1>4, <1>5, <2>1
  <2>5. /\ window' \in [0 .. Size - 1 -> Units]
        /\ Laid(window', Size, posn', Put + 1, 0, None)
    BY <1>4, <1>6, <2>1, <2>2, <2>3, <2>4, QtmPutsRight
  <2>6. Len(out') = Put' - (posn' - optr')
    BY <1>4, <1>5, <2>1, <2>3, <2>4 DEF QtmPlaced
  <2>7. QtmPlaced'
    BY <1>1, <2>1, <2>3, <2>5, <2>6 DEF QtmPlaced
  <2>8. made' \in Int
    BY <1>4, <2>1
  <2> QED
    BY <1>1, <1>4, <2>1, <2>5, <2>7, <2>8 DEF QtmOrder, MemoryKept
<1>12. CASE QtmMatch
  <2> DEFINE first(len) == IF QtmWraps(len) THEN Size - posn ELSE len
  <2>1. PICK len \in Lengths, off \in 1 .. Size :
          /\ intact' = (intact /\ QtmIntactMatch(len, off))
          /\ l' = [l EXCEPT !.left = first(len), !.rest = len - first(len), !.off = off,
                            !.src = (posn - off) % Size]
          /\ made' = made + len
    BY <1>12 DEF QtmMatch
  <2>2. /\ pc = "tokens" /\ pc' = "copy" /\ posn < l.end
        /\ UNCHANGED <<window, posn, optr, out, error>>
    BY <1>12 DEF QtmMatch, At
  <2>3. posn \in 0 .. Size - 1
    BY <1>2, <1>5, <2>2 DEF QtmKept, Busy
  <2>4. /\ l'.left = first(len) /\ l'.rest = len - first(len) /\ l'.off = off
        /\ l'.src = (posn - off) % Size
    BY <1>5, <2>1, <2>2 DEF Busy
  <2>5. first(len) \in Int /\ len \in Int /\ off \in Int
    BY <1>2, <1>5
  <2>6. off <= made
    BY <2>1 DEF QtmIntactMatch
  <2> HIDE DEF first
  <2>7. Put = made /\ Put' = Put
    <3>1. Put' = (made + len) - l'.left - l'.rest
      BY <1>1, <2>1, <2>2 DEF Put
    <3>2. Put = made
      BY <2>2 DEF Put
    <3> QED
      BY <1>4, <2>4, <2>5, <3>1, <3>2
  <2>8. Behind(l'.src, Size, posn, l'.off) /\ Put' - l'.off >= 0
    <3>1. Behind((posn - off) % Size, Size, posn, off)
      BY <1>2, <2>3, BehindOf
    <3> QED
      BY <1>4, <2>4, <2>5, <2>6, <2>7, <3>1
  <2>9. QtmPlaced
    BY <1>4, <1>5, <2>2
  <2>10. QtmPlaced'
    BY <1>1, <2>2, <2>7, <2>8, <2>9 DEF QtmPlaced
  <2>11. made' \in Int
    BY <1>4, <2>1, <2>5
  <2> QED
    BY <1>1, <1>4, <2>2, <2>10, <2>11, QtmSame
<1>13. CASE QtmCopy \/ QtmSecondPart
  <2>1. /\ Puts(Copied(window[l.src], l.off)) /\ posn' = posn + 1
        /\ l' = [l EXCEPT !.src = (@ + 1) % Size, !.left = @ - 1]
        /\ UNCHANGED <<optr, out, error, made>>
        /\ pc \in {"copy", "second_part"}
        /\ pc = "copy" => pc' = IF l.left > 1 THEN "copy"
                                ELSE IF l.rest > 0 THEN "wrap_match" ELSE "tokens"
        /\ pc = "second_part" => pc' = IF l.left > 1 THEN "second_part" ELSE "stop"
    BY <1>13 DEF QtmCopy, QtmSecondPart, At
  <2>2. posn \in 0 .. Size - 1 /\ l.left >= 1 /\ l.left \in Int /\ l.rest \in Nat
    BY <1>2, <1>5, <2>1 DEF QtmKept, Busy
  <2>3. /\ l'.src = (l.src + 1) % Size /\ l'.left = l.left - 1 /\ l'.off = l.off
        /\ l'.rest = l.rest
    BY <1>5, <2>1 DEF Busy
  <2>4. QtmPlaced
    BY <1>4, <1>5, <2>1
  <2>5. /\ window' \in [0 .. Size - 1 -> Units]
        /\ Laid(window', Size, posn', Put + 1, 0, None)
        /\ Behind(l'.src, Size, posn', l'.off) /\ Put + 1 - l'.off >= 0
    BY <1>4, <1>6, <2>1, <2>2, <2>3, <2>4, QtmCopies
  <2>6. Put' = Put + 1
    <3>1. Put = made - l.left - l.rest
      BY <2>1 DEF Put
    <3>2. CASE l.left > 1
      <4>1. Put' = made - l'.left - l'.rest
        BY <1>1, <2>1, <3>2 DEF Put
      <4> QED
        BY <1>4, <2>2, <2>3, <3>1, <4>1
    <3>3. CASE l.left = 1 /\ l.rest > 0
      <4>1. pc' = "wrap_match"
        BY <2>1, <2>4, <3>3 DEF QtmPlaced
      <4>2. Put' = made - l'.left - l'.rest
        BY <1>1, <2>1, <4>1 DEF Put
      <4> QED
        BY <1>4, <2>2, <2>3, <3>1, <3>3, <4>2
    <3>4. CASE l.left = 1 /\ l.rest = 0
      <4>1. Put' = made
        BY <2>1, <3>4 DEF Put
      <4> QED
        BY <1>4, <3>1, <3>4, <4>1
    <3> QED
      BY <2>2, <3>2, <3>3, <3>4
  <2>7. Len(out') = Put' - (posn' - optr')
    BY <1>5, <1>6, <2>1, <2>4, <2>6 DEF QtmPlaced
  <2>8. /\ pc' # "wrap" /\ (pc' = "second_part" => l'.rest = 0)
        /\ pc' = "wrap_match" => l'.left = 0
    BY <2>1, <2>2, <2>3, <2>4 DEF QtmPlaced
  <2>9. QtmPlaced'
    <3>1. /\ Laid(window', Size', posn', Put', 0, None)
          /\ Behind(l'.src, Size', posn', l'.off) /\ Put' - l'.off >= 0
      <4>1. Laid(window', Size', posn', Put', 0, None)
        BY <1>1, <2>5, <2>6
      <4>2. Behind(l'.src, Size', posn', l'.off)
        BY <1>1, <2>5
      <4>3. Put' - l'.off >= 0
        BY <1>2, <1>6, <2>5, <2>6 DEF Behind
      <4> QED
        BY <4>1, <4>2, <4>3
    <3> QED
      BY <2>7, <2>8, <3>1, Zenon DEF QtmPlaced
  <2> QED
    BY <1>1, <1>4, <2>1, <2>5, <2>9 DEF QtmOrder, MemoryKept
<1>14. CASE QtmWrapMatch \/ QtmWrap
  <2>1. /\ optr' = 0 /\ posn' = 0 /\ UNCHANGED <<window, made, error>>
        /\ \/ pc = "wrap_match" /\ pc' = "second_part" /\ Writes(window, Size - optr)
              /\ l' = [l EXCEPT !.left = l.rest, !.rest = 0]
           \/ pc = "wrap" /\ pc' = "head" /\ Writes(window, oend - optr)
    BY <1>14 DEF QtmWrapMatch, QtmWrap, QtmHave, At
  <2>2. QtmPlaced
    BY <1>4, <1>5, <2>1
  <2>3. posn = Size /\ (pc = "wrap" => oend = Size)
    BY <2>1, <2>2 DEF QtmPlaced, QtmKept
  <2>4. Writes(window, Size - optr) /\ Size - optr \in Nat /\ optr + (Size - optr) <= posn
    BY <1>2, <1>5, <2>1, <2>3
  <2>5. out' \in Seq(Units) /\ Len(out') = Len(out) + (Size - optr) /\ SentRight(out', None)
    BY <1>4, <1>5, <1>6, <2>2, <2>4, QtmWritesRight
  <2>6. Put' = Put /\ (pc = "wrap_match" => l'.src = l.src /\ l'.off = l.off)
    <3>1. CASE pc = "wrap"
      BY <2>1, <3>1 DEF Put
    <3>2. CASE pc = "wrap_match"
      <4>1. /\ l'.left = l.rest /\ l'.rest = 0 /\ l'.src = l.src /\ l'.off = l.off
            /\ l.left \in Int /\ l.rest \in Nat
        BY <1>5, <2>1, <3>2 DEF Busy
      <4>2. Put = made - l.left - l.rest /\ Put' = made - l.rest - 0
        BY <1>1, <2>1, <3>2, <4>1 DEF Put
      <4>3. l.left = 0
        BY <2>2, <3>2 DEF QtmPlaced
      <4> QED
        BY <1>4, <4>1, <4>2, <4>3
    <3>3. pc \in {"wrap", "wrap_match"}
      BY <2>1
    <3> QED
      BY <3>1, <3>2, <3>3
  <2>7. Laid(window', Size, 0, Put', 0, None)
    <3>1. Laid(window, Size, Size, Put, 0, None)
      BY <2>2, <2>3 DEF QtmPlaced
    <3> QED
      BY <1>2, <1>6, <2>1, <2>6, <3>1, LaidRound
  <2>8. Len(out') = Put' - (posn' - optr')
    BY <1>2, <1>5, <1>6, <2>1, <2>2, <2>3, <2>5, <2>6 DEF QtmPlaced
  <2>9. pc' = "second_part" => Behind(l'.src, Size, 0, l'.off) /\ Put' - l'.off >= 0
    <3> SUFFICES ASSUME pc = "wrap_match" PROVE Behind(l'.src, Size, 0, l'.off) /\ Put' - l'.off >= 0
      BY <2>1
    <3>1. Behind(l.src, Size, Size, l.off) /\ Put - l.off >= 0
      BY <2>2, <2>3 DEF QtmPlaced
    <3> QED
      BY <1>2, <2>6, <3>1, BehindRound
  <2>10. QtmPlaced'
    <3>1. pc' = "second_part" => l'.rest = 0
      BY <1>5, <2>1 DEF Busy
    <3> QED
      BY <1>1, <2>1, <2>7, <2>8, <2>9, <3>1 DEF QtmPlaced
  <2> QED
    BY <1>1, <1>4, <2>1, <2>5, <2>10 DEF QtmOrder, MemoryKept
<1>15. CASE QtmOut
  <2>1. /\ Writes(window, want) /\ optr' = optr + want /\ pc = "out" /\ pc' = "idle"
        /\ UNCHANGED <<window, posn, made, error>>
    BY <1>15 DEF QtmOut, At
  <2>2. QtmPlaced
    BY <1>4, <1>5, <2>1
  <2>3. optr + want <= posn
    BY <1>5, <2>1 DEF QtmKept
  <2>4. out' \in Seq(Units) /\ Len(out') = Len(out) + want /\ SentRight(out', None)
    BY <1>4, <1>5, <1>6, <2>1, <2>2, <2>3, QtmWritesRight
  <2>5. Put' = Put
    BY <2>1 DEF Put
  <2>6. Len(out') = Put' - (posn' - optr')
    BY <1>5, <1>6, <2>1, <2>2, <2>4, <2>5 DEF QtmPlaced
  <2>7. QtmPlaced'
    BY <1>1, <2>1, <2>2, <2>5, <2>6 DEF QtmPlaced
  <2> QED
    BY <1>1, <1>4, <2>1, <2>4, <2>7 DEF QtmOrder, MemoryKept
<1> QED
  BY <1>7, <1>8, <1>9, <1>10, <1>11, <1>12, <1>13, <1>14, <1>15 DEF QtmCallStep

-----------------------------------------------------------------------------
(* LZX.                                                                     *)

LEMMA LzxPut ==
  ASSUME stream \in Streams, stream.kind = "lzx", LzxKept
  PROVE  /\ Put \in Int /\ Oldest \in Int /\ Oldest <= 0
         /\ pc = "copy" => Put = made - l.left
         /\ pc \in {"idle", "leftover", "frame", "block", "tokens", "stored"} => Put = made
         /\ made \in Nat /\ out \in Seq(Units) /\ Len(out) \in Nat
         /\ window \in [0 .. Size - 1 -> Units]
         /\ optr \in Nat /\ oend \in Nat /\ optr <= oend /\ posn \in Nat /\ posn <= Size
         /\ Size \in Nat \ {0} /\ z.fposn \in Nat /\ Decoded \in Int /\ Len(out) <= Decoded
         /\ LzxFields \subseteq DOMAIN z /\ (Busy => LzxLocals \subseteq DOMAIN l)
         /\ Busy => l.left \in Int /\ l.off \in Int
         /\ error = "OK" \/ pc = "idle"
<1>1. /\ made \in Nat /\ out \in Seq(Units) /\ window \in [0 .. Size - 1 -> Units]
      /\ optr \in Nat /\ oend \in Nat /\ optr <= oend
  BY DEF LzxKept, LzxMemory
<1>2. Len(out) \in Nat
  BY <1>1, OutLength
<1>3. /\ posn \in Nat /\ posn <= Size /\ z.fposn \in Nat
      /\ LzxFields \subseteq DOMAIN z /\ (Busy => LzxLocals \subseteq DOMAIN l)
      /\ Busy => l.left \in Int /\ l.off \in Int
      /\ error = "OK" \/ pc = "idle"
      /\ pc \in {"idle", "leftover", "frame", "block", "tokens", "copy", "stored"}
  BY DEF LzxKept, InWindow
<1>4. Decoded \in Int /\ Len(out) <= Decoded
  BY <1>1, <1>2 DEF Decoded
<1>5. stream.opt.ref \in Nat /\ Size \in Nat \ {0}
  BY StreamFacts, LzWindowAssumption DEF LzWindowAssumption
<1>6. Oldest \in Int /\ Oldest <= 0
  BY <1>5 DEF Oldest
<1>7. pc = "copy" => Put = made - l.left
  <2> SUFFICES ASSUME pc = "copy" PROVE Put = made - l.left
    OBVIOUS
  <2>1. Put = made - l.left - 0 /\ l.left \in Int
    BY <1>3 DEF Put, Busy
  <2> QED
    BY <1>1, <2>1
<1>8. pc \in {"idle", "leftover", "frame", "block", "tokens", "stored"} => Put = made
  BY DEF Put
<1>9. Put \in Int
  BY <1>1, <1>3, <1>7, <1>8 DEF Busy
<1> QED
  BY <1>1, <1>2, <1>3, <1>4, <1>5, <1>6, <1>7, <1>8, <1>9

\* Steps that put nothing in the window and write nothing.
LEMMA LzxSame ==
  ASSUME stream.kind = "lzx", LzxOrder, stream' = stream,
         UNCHANGED <<window, posn, optr, oend, out>>, Put' = Put,
         z'.fposn = z.fposn, z'.curpos = z.curpos, z'.in8 = z.in8, z'.e8buf = z.e8buf,
         error' = "OK" => error = "OK",
         pc' \in {"idle", "leftover", "frame"} => pc \in {"idle", "leftover", "frame"},
         pc' = "copy" => pc = "copy" /\ l' = l
  PROVE  LzxOrder'
<1>1. Size' = Size /\ Oldest' = Oldest /\ Decoded' = Decoded /\ LzxFrom' = LzxFrom
  BY DEF Size, Oldest, Decoded, LzxFrom
<1>2. error = "OK" /\ LzxPlaced => LzxPlaced'
  BY <1>1 DEF LzxPlaced
<1> QED
  BY <1>2 DEF LzxOrder

\* Steps that put units in the window.
LEMMA LzxPutsRight ==
  ASSUME stream.kind = "lzx", LzxKept, LzxKept', stream \in Streams, LzxOrder, Decoding, Decoding',
         UNCHANGED <<stream, optr, oend, error, out>>, z'.fposn = z.fposn, z'.curpos = z.curpos,
         NEW k \in Nat, posn' = posn + k, Put' = Put + k,
         LzxPlaced => Laid(window', Size, posn + k, Put + k, Oldest, None),
         LzxPlaced /\ pc' = "copy" => Behind(l'.src, Size, posn + k, l'.off) /\ Put + k - l'.off >= Oldest
  PROVE  LzxOrder'
<1>1. Size' = Size /\ Oldest' = Oldest /\ Decoded' = Decoded
  BY DEF Size, Oldest, Decoded
<1>2. error = "OK" /\ SentRight(out, None) /\ LzxPlaced
  BY LzxPut DEF LzxOrder, Decoding
<1>3. posn \in Nat /\ z.fposn \in Nat /\ Decoded \in Int /\ Put \in Int
  BY LzxPut
<1>4. z.fposn <= posn' /\ z.fposn <= Decoded /\ Decoded = Put' - (posn' - z.fposn)
  BY <1>2, <1>3 DEF LzxPlaced
<1>5. stream.opt.e8 => z.curpos = Decoded
  BY <1>2 DEF LzxPlaced
<1>6. LzxPlaced'
  <2>1. UNCHANGED <<stream, optr, oend, out>> /\ pc' \notin {"idle", "leftover", "frame"}
    BY DEF Decoding
  <2>2. Laid(window', Size', posn', Put', Oldest', None)
    BY <1>1, <1>2
  <2>3. pc' = "copy" => Behind(l'.src, Size', posn', l'.off) /\ Put' - l'.off >= Oldest'
    <3>1. pc' = "copy" => Behind(l'.src, Size, posn + k, l'.off) /\ Put + k - l'.off >= Oldest
      BY <1>2
    <3>2. Size' = Size /\ posn' = posn + k /\ Put' = Put + k /\ Oldest' = Oldest
      BY <1>1
    <3>3. pc' = "copy" => Behind(l'.src, Size', posn', l'.off)
      BY <3>1, <3>2
    <3>4. pc' = "copy" => l'.off \in 1 .. Size
      BY <3>1 DEF Behind
    <3>5. pc' = "copy" => Put' - l'.off >= Oldest'
      BY <1>3, <3>1, <3>2, <3>4, LzxPut, SMTT(40)
    <3> QED
      BY <3>3, <3>5
  <2>4. z'.fposn <= posn' /\ z'.fposn <= Decoded' /\ Decoded' = Put' - (posn' - z'.fposn)
    BY <1>1, <1>4, <2>1
  <2>5. stream'.opt.e8 => z'.curpos = Decoded'
    BY <1>1, <1>5, <2>1
  <2> QED
    BY <2>1, <2>2, <2>3, <2>4, <2>5 DEF LzxPlaced
<1> QED
  BY <1>2, <1>6 DEF LzxOrder

\* A match that is let in begins in what was decoded, or in the reference data.
LEMMA LzxMatchKnown ==
  ASSUME stream \in Streams, stream.kind = "lzx", LzxKept, LzxPlaced,
         NEW len \in Nat, NEW off \in 1 .. Size, ~LzxRejectsMatch(len, off)
  PROVE  Put - off >= Oldest
<1>1. /\ Put \in Int /\ Oldest \in Int /\ Oldest <= 0 /\ posn \in Nat /\ z.fposn \in Nat
      /\ Decoded \in Int /\ Len(out) <= Decoded /\ Len(out) \in Nat /\ Size \in Nat \ {0}
  BY LzxPut
<1>2. z.fposn <= posn /\ z.fposn <= Decoded /\ Decoded = Put - (posn - z.fposn)
  BY DEF LzxPlaced
<1>3. Put >= posn /\ Put >= Decoded
  BY <1>1, <1>2
<1>4. off <= posn \/ off <= Len(out) \/ off - posn <= -Oldest
  <2>1. stream.opt.ref \in Nat
    BY LzWindowAssumption DEF LzWindowAssumption
  <2> QED
    BY <1>1, <2>1 DEF LzxRejectsMatch, Oldest
<1> QED
  BY <1>1, <1>3, <1>4

\* A unit, a run or a match is decoded.
LEMMA LzxFrameOrder ==
  ASSUME stream \in Streams, stream.kind = "lzx", LzxKept, LzxKept', LzxOrder,
         ~z'.stray, LzxLiteral \/ LzxMatch \/ LzxCopy \/ LzxStoredRun
  PROVE  LzxOrder'
<1>1. Decoding /\ Decoding' /\ stream' = stream /\ Size' = Size /\ Busy
  BY DEF Decoding, LzxLiteral, LzxMatch, LzxCopy, LzxStoredRun, At, Size, Busy
<1>2. /\ Put \in Int /\ Oldest \in Int /\ posn \in Nat /\ posn <= Size /\ Size \in Nat \ {0}
      /\ window \in [0 .. Size - 1 -> Units] /\ made \in Nat
      /\ LzxLocals \subseteq DOMAIN l /\ l.left \in Int /\ l.off \in Int
      /\ LzxFields \subseteq DOMAIN z
  BY <1>1, LzxPut
<1>3. LzxRuns /\ z.fposn + l.size <= Size /\ z.fposn \in Nat /\ l.size \in Nat
  BY <1>1, LzxRoom DEF LzxKept
<1>4. Lengths \subseteq Nat \ {0}
  BY LzWindowAssumption DEF LzWindowAssumption
<1>5. CASE LzxLiteral
  <2>1. /\ pc = "tokens" /\ pc' = "tokens" /\ l.this > 0 /\ posn' = posn + 1 /\ made' = made + 1
        /\ window' = [window EXCEPT ![posn] = made]
        /\ UNCHANGED <<stream, optr, oend, error, z, out>>
    BY <1>5 DEF LzxLiteral, At, Puts
  <2>2. posn \in 0 .. Size - 1
    BY <1>2, <1>3, <2>1 DEF LzxRuns
  <2>3. Put = made /\ Put' = Put + 1
    BY <2>1 DEF Put
  <2>4. made \in Units /\ Right(made, Put, None)
    BY <1>2, <2>3 DEF Units, Right
  <2>5. LzxPlaced => Laid(window', Size, posn + 1, Put + 1, Oldest, None)
    <3> SUFFICES ASSUME LzxPlaced PROVE Laid(window', Size, posn + 1, Put + 1, Oldest, None)
      OBVIOUS
    <3>1. Laid(window, Size, posn, Put, Oldest, None)
      BY DEF LzxPlaced
    <3> QED
      BY <1>2, <2>1, <2>2, <2>4, <3>1, LaidNext
  <2>6. pc' # "copy" /\ 1 \in Nat
    BY <2>1
  <2> QED
    BY <1>1, <2>1, <2>3, <2>5, <2>6, LzxPutsRight
<1>6. CASE LzxMatch
  <2>1. PICK len \in Lengths, off \in 1 .. Size :
          /\ ~LzxRejectsMatch(len, off)
          /\ l' = [l EXCEPT !.left = len, !.off = off, !.this = @ - len,
                            !.src = IF off > posn THEN Size - (off - posn) ELSE posn - off]
          /\ made' = made + len /\ z'.fposn = z.fposn /\ z'.curpos = z.curpos
    <3>1. PICK len \in Lengths, off \in LzxOffsets :
            /\ ~LzxRejectsMatch(len, off)
            /\ l' = [l EXCEPT !.left = len, !.off = off, !.this = @ - len,
                              !.src = IF off > posn THEN Size - (off - posn) ELSE posn - off]
            /\ z' = [z EXCEPT !.stray = @ \/ LzxStray(off)]
            /\ made' = made + len
      BY <1>6 DEF LzxMatch
    <3>2. /\ z'.fposn = z.fposn /\ z'.curpos = z.curpos
          /\ z'.stray = (z.stray \/ LzxStray(off))
      BY <1>2, <3>1 DEF LzxFields
    <3>3. off \in 1 .. Size
      BY <3>2 DEF LzxStray
    <3> QED
      BY <3>1, <3>2, <3>3
  <2>2. /\ pc = "tokens" /\ pc' = "copy" /\ l.this > 0
        /\ UNCHANGED <<stream, window, posn, optr, oend, error, out>>
    BY <1>6 DEF LzxMatch, At
  <2>3. /\ l'.left = len /\ l'.off = off /\ len \in Nat /\ off \in Int
        /\ l'.src = IF off > posn THEN Size - (off - posn) ELSE posn - off
    BY <1>2, <1>4, <2>1 DEF LzxLocals
  <2>4. posn \in 0 .. Size - 1
    BY <1>2, <1>3, <2>2 DEF LzxRuns
  <2>5. Put = made /\ Put' = Put + 0
    <3>1. Put' = made' - l'.left - 0
      BY <1>1, <2>2 DEF Put
    <3>2. Put = made
      BY <2>2 DEF Put
    <3> QED
      BY <1>2, <2>1, <2>3, <3>1, <3>2
  <2>6. Behind(l'.src, Size, posn, l'.off)
    BY <1>2, <2>3, <2>4, BehindOf
  <2>7. LzxPlaced => Put - l'.off >= Oldest
    BY <2>1, <2>3, LzxMatchKnown
  <2>8. posn + 0 = posn /\ Put + 0 = Put /\ 0 \in Nat
    BY <1>2
  <2>9. LzxPlaced => Laid(window', Size, posn + 0, Put + 0, Oldest, None)
    BY <2>2, <2>8 DEF LzxPlaced
  <2>10. LzxPlaced /\ pc' = "copy" =>
           Behind(l'.src, Size, posn + 0, l'.off) /\ Put + 0 - l'.off >= Oldest
    <3>1. Behind(l'.src, Size, posn + 0, l'.off)
      BY <2>6, <2>8
    <3>2. LzxPlaced => Put + 0 - l'.off >= Oldest
      BY <1>2, <2>3, <2>7, <2>8
    <3> QED
      BY <3>1, <3>2
  <2>11. posn' = posn + 0
    BY <2>2, <2>8
  <2> QED
    BY <1>1, <2>1, <2>2, <2>5, <2>8, <2>9, <2>10, <2>11, LzxPutsRight
<1>7. CASE LzxCopy
  <2>1. /\ pc = "copy" /\ posn' = posn + 1 /\ made' = made
        /\ UNCHANGED <<stream, optr, oend, error, z, out>>
        /\ window' = [window EXCEPT ![posn] = Copied(window[l.src], l.off)]
        /\ l' = [l EXCEPT !.src = IF @ + 1 = Size THEN 0 ELSE @ + 1, !.left = @ - 1]
        /\ pc' = IF l.left = 1 THEN "tokens" ELSE "copy"
    BY <1>7 DEF LzxCopy, At, Puts
  <2>2. /\ l'.left = l.left - 1 /\ l'.off = l.off
        /\ l'.src = IF l.src + 1 = Size THEN 0 ELSE l.src + 1
    BY <1>2, <2>1 DEF LzxLocals
  <2>3. posn \in 0 .. Size - 1 /\ posn \in 0 .. Size
    BY <1>2, <1>3, <2>1 DEF LzxRuns
  <2>4. Put = made - l.left /\ Put' = Put + 1
    <3>1. Put = made - l.left
      BY <2>1, LzxPut
    <3>2. CASE l.left = 1
      <4>1. Put' = made'
        BY <2>1, <3>2 DEF Put
      <4> QED
        BY <1>2, <2>1, <3>1, <3>2, <4>1
    <3>3. CASE l.left # 1
      <4>1. Put' = made' - l'.left - 0
        BY <1>1, <2>1, <3>3 DEF Put
      <4> QED
        BY <1>2, <2>1, <2>2, <3>1, <4>1
    <3> QED
      BY <3>1, <3>2, <3>3
  <2>5. LzxPlaced => /\ Laid(window', Size, posn + 1, Put + 1, Oldest, None)
                     /\ Behind(l'.src, Size, posn + 1, l'.off) /\ Put + 1 - l'.off >= Oldest
    <3> SUFFICES ASSUME LzxPlaced
                 PROVE  /\ Laid(window', Size, posn + 1, Put + 1, Oldest, None)
                        /\ Behind(l'.src, Size, posn + 1, l'.off) /\ Put + 1 - l'.off >= Oldest
      OBVIOUS
    <3>1. /\ Laid(window, Size, posn, Put, Oldest, None)
          /\ Behind(l.src, Size, posn, l.off) /\ Put - l.off >= Oldest
      BY <2>1 DEF LzxPlaced
    <3>2. None \subseteq {JUNK}
      BY DEF None
    <3>3. /\ Copied(window[l.src], l.off) \in Units
          /\ Right(Copied(window[l.src], l.off), Put, None)
      BY <1>2, <2>3, <3>1, <3>2, SourceRight
    <3>4. Laid(window', Size, posn + 1, Put + 1, Oldest, None)
      BY <1>2, <2>1, <2>3, <3>1, <3>3, LaidNext
    <3>5. Behind(IF l.src + 1 = Size THEN 0 ELSE l.src + 1, Size, posn + 1, l.off)
      BY <1>2, <2>3, <3>1, BehindNext
    <3> QED
      BY <1>2, <2>2, <3>1, <3>4, <3>5
  <2> QED
    BY <1>1, <2>1, <2>4, <2>5, 1 \in Nat, LzxPutsRight
<1>8. CASE LzxStoredRun
  <2>1. /\ pc = "stored" /\ pc' = "tokens" /\ posn' = posn + l.this /\ made' = made + l.this
        /\ window' = [p \in DOMAIN window |->
                        IF p \in posn .. posn + l.this - 1 THEN made + p - posn ELSE window[p]]
        /\ UNCHANGED <<stream, optr, oend, error, z, out>>
    BY <1>8 DEF LzxStoredRun, At
  <2>2. l.this \in Nat /\ posn + l.this <= Size
    BY <1>2, <1>3, <2>1 DEF LzxRuns
  <2>3. Put = made /\ Put' = Put + l.this
    BY <2>1 DEF Put
  <2>4. LzxPlaced => Laid(window', Size, posn + l.this, Put + l.this, Oldest, None)
    <3> SUFFICES ASSUME LzxPlaced
                 PROVE  Laid(window', Size, posn + l.this, Put + l.this, Oldest, None)
      OBVIOUS
    <3>1. Laid(window, Size, posn, Put, Oldest, None)
      BY DEF LzxPlaced
    <3>2. window' = Filled(window, posn, l.this, Put)
      BY <2>1, <2>3 DEF Filled
    <3> QED
      BY <1>2, <2>2, <3>1, <3>2, LaidRun
  <2>5. pc' # "copy"
    BY <2>1
  <2> QED
    BY <1>1, <2>1, <2>2, <2>3, <2>4, <2>5, LzxPutsRight
<1> QED
  BY <1>5, <1>6, <1>7, <1>8

\* A call begins or ends, a block, a run or a frame begins, or something fails.
LEMMA LzxEdgesOrder ==
  ASSUME stream \in Streams, stream.kind = "lzx", LzxKept, LzxOrder,
         \/ LzxEnter \/ LzxSetOutputLength \/ LzxLeftoverFails \/ LzxBadBlock \/ LzxBadMatch
         \/ LzxUnreadable \/ LzxOverrun \/ LzxBadFrame \/ LzxFrameFails \/ LzxReturn
         \/ LzxFrame \/ LzxNewBlock \/ LzxRun \/ LzxRunDone
  PROVE  LzxOrder'
<1>1. LzxFields \subseteq DOMAIN z
  BY LzxPut
<1>2. CASE \/ LzxLeftoverFails \/ LzxBadBlock \/ LzxBadMatch \/ LzxUnreadable \/ LzxOverrun
           \/ LzxBadFrame \/ LzxFrameFails
  <2>1. error' \in {"READ", "WRITE", "DECRUNCH"} /\ UNCHANGED <<stream, out>>
    BY <1>2 DEF LzxLeftoverFails, LeftoverFails, LzxBadBlock, LzxBadMatch, LzxUnreadable,
       Unreadable, LzxOverrun, LzxBadFrame, LzxFrameFails, WriteFails, Rejects, Returns
  <2> QED
    BY <2>1 DEF LzxOrder
<1>3. CASE LzxEnter
  <2>1. /\ UNCHANGED <<stream, window, posn, optr, oend, error, z, made, l, out>>
        /\ pc = "idle" /\ pc' = "leftover"
    BY <1>3 DEF LzxEnter, Enters, At, dec
  <2>2. Put' = Put
    BY <2>1 DEF Put
  <2> QED
    BY <2>1, <2>2, LzxSame
<1>4. CASE LzxSetOutputLength
  <2>1. /\ UNCHANGED <<stream, window, posn, optr, oend, error, pc, made, l, out>>
        /\ z' = [z EXCEPT !.length = stream.total]
    BY <1>4 DEF LzxSetOutputLength, call
  <2>2. Put' = Put
    BY <2>1 DEF Put
  <2>3. z'.fposn = z.fposn /\ z'.curpos = z.curpos /\ z'.in8 = z.in8 /\ z'.e8buf = z.e8buf
    BY <1>1, <2>1 DEF LzxFields
  <2> QED
    BY <2>1, <2>2, <2>3, LzxSame
<1>5. CASE LzxReturn
  <2>1. /\ UNCHANGED <<stream, window, posn, optr, oend, z, made, out>>
        /\ pc = "frame" /\ pc' = "idle"
    BY <1>5 DEF LzxReturn, Returns, At
  <2>2. Put' = Put
    BY <2>1 DEF Put
  <2>3. error = "OK"
    BY <2>1, LzxPut
  <2> QED
    BY <2>1, <2>2, <2>3, LzxSame
<1>6. CASE LzxFrame
  <2>1. /\ UNCHANGED <<stream, window, posn, optr, oend, error, made, out>>
        /\ pc = "frame" /\ pc' = "block"
        /\ z' = [z EXCEPT !.brem = 0, !.stored = FALSE, !.raw = FALSE] \/ z' = z
    BY <1>6 DEF LzxFrame, At
  <2>2. Put' = Put
    BY <2>1 DEF Put
  <2>3. z'.fposn = z.fposn /\ z'.curpos = z.curpos /\ z'.in8 = z.in8 /\ z'.e8buf = z.e8buf
    <3>1. CASE z' = [z EXCEPT !.brem = 0, !.stored = FALSE, !.raw = FALSE]
      BY <1>1, <3>1 DEF LzxFields
    <3> QED
      BY <2>1, <3>1
  <2> QED
    BY <2>1, <2>2, <2>3, LzxSame
<1>7. CASE LzxNewBlock \/ LzxRun \/ LzxRunDone
  <2>1. /\ UNCHANGED <<stream, window, posn, optr, oend, error, made, out>>
        /\ pc \in {"block", "tokens"} /\ pc' \in {"block", "tokens", "stored"}
    BY <1>7 DEF LzxNewBlock, LzxRun, LzxRunDone, At, call
  <2>2. Put' = Put
    BY <2>1 DEF Put
  <2>3. z'.fposn = z.fposn /\ z'.curpos = z.curpos /\ z'.in8 = z.in8 /\ z'.e8buf = z.e8buf
    <3>1. CASE LzxNewBlock
      <4>1. PICK b \in 1 .. stream.total - made, stored \in BOOLEAN, e8seen \in BOOLEAN :
              z' = [z EXCEPT !.brem = b, !.stored = stored, !.raw = @ \/ stored,
                             !.started = @ \/ e8seen \/ (stored /\ stream.opt.e8)]
        BY <3>1 DEF LzxNewBlock
      <4> DEFINE started == z.started \/ e8seen \/ (stored /\ stream.opt.e8)
               raw == z.raw \/ stored
      <4>2. z' = [z EXCEPT !.brem = b, !.stored = stored, !.raw = raw, !.started = started]
        BY <4>1
      <4> HIDE DEF started, raw
      <4> QED
        BY <1>1, <4>2 DEF LzxFields
    <3>2. CASE LzxRun \/ LzxRunDone
      BY <1>1, <3>2 DEF LzxRun, LzxRunDone, LzxFields
    <3> QED
      BY <1>7, <3>1, <3>2
  <2> QED
    BY <2>1, <2>2, <2>3, LzxSame
<1> QED
  BY <1>2, <1>3, <1>4, <1>5, <1>6, <1>7

\* What was left is written.
LEMMA LzxFlushOrder ==
  ASSUME stream \in Streams, stream.kind = "lzx", LzxKept, LzxOrder, LzxFlush
  PROVE  LzxOrder'
<1>1. /\ out \in Seq(Units) /\ Len(out) \in Nat /\ optr \in Nat /\ oend \in Nat /\ optr <= oend
      /\ Put \in Int /\ Size \in Nat \ {0} /\ window \in [0 .. Size - 1 -> Units]
      /\ error = "OK"
  BY LzxPut DEF LzxFlush, FlushesLeftover, At
<1>2. /\ want \in Nat /\ oend <= Size /\ (z.in8 => z.e8buf \in [0 .. oend - 1 -> Units])
  BY DEF LzxKept, LzxMemory
<1>3. /\ UNCHANGED <<stream, window, posn, oend, error, z, made>>
      /\ pc = "leftover" /\ pc' \in {"idle", "frame"}
  BY DEF LzxFlush, FlushesLeftover, At
<1>4. Size' = Size /\ Oldest' = Oldest /\ LzxFrom' = LzxFrom
  BY <1>3 DEF Size, Oldest, LzxFrom
<1>5. SentRight(out, None) /\ LzxPlaced
  BY <1>1 DEF LzxOrder
<1>6. PICK n \in Nat : n <= oend - optr /\ Writes(LzxFrom, n) /\ optr' = optr + n
  BY <1>1, <1>2 DEF LzxFlush, FlushesLeftover, Least
<1>7. Waiting(LzxFrom, optr, oend, Len(out), None)
  BY <1>3, <1>5 DEF LzxPlaced
<1>8. ASSUME NEW j \in 0 .. oend - optr - 1
      PROVE  LzxFrom[optr + j] \in Units
  BY <1>1, <1>2 DEF LzxFrom
<1>9. Ready(out, LzxFrom, optr, n, None) /\ optr \in Int
  <2>1. ASSUME NEW j \in 0 .. n - 1
        PROVE  LzxFrom[optr + j] \in Units /\ Right(LzxFrom[optr + j], Len(out) + j, None)
    <3>1. j \in 0 .. oend - optr - 1
      BY <1>1, <1>6
    <3> QED
      BY <1>7, <1>8, <3>1 DEF Waiting
  <2>2. Ready(out, LzxFrom, optr, n, None)
    BY <2>1, Zenon DEF Ready
  <2> QED
    BY <1>1, <2>2
<1>10. out' = Sent(out, LzxFrom, optr, n)
  BY <1>6 DEF Writes, Sent
<1>11. out' \in Seq(Units) /\ Len(out') = Len(out) + n /\ SentRight(out', None)
  BY <1>1, <1>5, <1>9, <1>10, SentFrom
<1>12. Waiting(LzxFrom, optr', oend, Len(out'), None)
  <2>1. ASSUME NEW j \in 0 .. oend - optr' - 1
        PROVE  Right(LzxFrom[optr' + j], Len(out') + j, None)
    <3>1. /\ n + j \in 0 .. oend - optr - 1 /\ optr' + j = optr + (n + j)
          /\ Len(out') + j = Len(out) + (n + j)
      BY <1>1, <1>6, <1>11
    <3>2. Right(LzxFrom[optr + (n + j)], Len(out) + (n + j), None)
      BY <1>7, <3>1 DEF Waiting
    <3> QED
      BY <3>1, <3>2
  <2> QED
    BY <2>1 DEF Waiting
<1>13. Decoded' = Decoded /\ Put' = Put
  <2>1. Put' = Put
    BY <1>3 DEF Put
  <2>2. Decoded' = Len(out') + (oend' - optr') /\ Decoded = Len(out) + (oend - optr)
    BY DEF Decoded
  <2> QED
    BY <1>1, <1>3, <1>6, <1>11, <2>1, <2>2
<1>14. LzxPlaced'
  BY <1>3, <1>4, <1>5, <1>12, <1>13 DEF LzxPlaced
<1> QED
  BY <1>11, <1>14 DEF LzxOrder

\* A frame is translated, and written as far as it is asked for.
LEMMA LzxFrameDoneOrder ==
  ASSUME stream \in Streams, stream.kind = "lzx", LzxKept, LzxOrder, LzxFrameDone
  PROVE  LzxOrder'
<1>1. /\ out \in Seq(Units) /\ Len(out) \in Nat /\ optr \in Nat /\ oend \in Nat /\ optr <= oend
      /\ Put \in Int /\ Size \in Nat \ {0} /\ window \in [0 .. Size - 1 -> Units]
      /\ Oldest \in Int /\ Oldest <= 0 /\ Decoded \in Int /\ LzxFields \subseteq DOMAIN z
      /\ posn \in Nat /\ z.fposn \in Nat
  BY LzxPut
<1>2. /\ pc = "block" /\ pc' = "frame" /\ Decoding /\ optr = oend /\ posn - z.fposn = l.size
      /\ posn' = Wrapped(posn) /\ UNCHANGED <<stream, window, error, l, made>>
  BY DEF LzxFrameDone, LzxFrameFull, At, Decoding
<1>3. want \in Nat /\ error = "OK"
  BY <1>2 DEF LzxKept, LzxMemory
<1>4. l.size \in Nat /\ z.fposn + l.size <= Size /\ posn = z.fposn + l.size
  BY <1>1, <1>2, LzxRoom DEF LzxKept
<1>5. Size' = Size /\ Oldest' = Oldest
  BY <1>2 DEF Size, Oldest
<1>6. /\ SentRight(out, None) /\ Laid(window, Size, posn, Put, Oldest, None)
      /\ z.fposn <= Decoded /\ Decoded = Put - (posn - z.fposn)
      /\ stream.opt.e8 => z.curpos = Decoded
  BY <1>3 DEF LzxOrder, LzxPlaced
<1>7. Decoded = Len(out) /\ Put = Len(out) + l.size
  BY <1>1, <1>2, <1>4, <1>6 DEF Decoded
<1>8. ASSUME NEW k \in 0 .. l.size - 1
      PROVE  window[z.fposn + k] = Len(out) + k
  <2>1. z.fposn + k \in 0 .. Size - 1 /\ z.fposn + k < posn
    BY <1>1, <1>4
  <2>3. UnitAt(z.fposn + k, Size, posn, Put) = Put - posn + (z.fposn + k)
    BY <2>1 DEF UnitAt
  <2>4. Put - posn + (z.fposn + k) = Len(out) + k
    <3>1. k \in Int /\ Put = Len(out) + l.size /\ posn = z.fposn + l.size /\ l.size \in Int
      BY <1>4, <1>7
    <3> QED
      BY <1>1, <3>1, SMTT(40)
  <2>2. Len(out) + k >= Oldest
    BY <1>1
  <2> QED
    BY <1>6, <2>1, <2>2, <2>3, <2>4 DEF Laid, Right, None
<1> DEFINE n == Least(want, l.size)
           in8 == z.started /\ stream.opt.e8 /\ l.size > E8MIN
           base == IF in8 THEN 0 ELSE z.fposn
           unit(k) == IF in8 /\ window[z.fposn + k] # z.curpos + k THEN JUNK
                      ELSE window[z.fposn + k]
           units == [i \in 1 .. n |-> unit(i - 1)]
           buf == [k \in 0 .. l.size - 1 |-> unit(k)]
<1>9. /\ out' = out \o units /\ optr' = base + n /\ oend' = base + l.size
      /\ z' = [z EXCEPT !.frame = @ + 1, !.fposn = Wrapped(@ + l.size), !.in8 = in8,
                        !.e8buf = IF in8 THEN buf ELSE <<>>,
                        !.curpos = IF stream.opt.e8 THEN @ + l.size ELSE @]
  BY DEF LzxFrameDone
<1>10. n \in Nat /\ n <= l.size
  BY <1>3, <1>4 DEF Least
<1>11. ASSUME NEW k \in 0 .. l.size - 1
       PROVE  unit(k) = Len(out) + k
  BY <1>6, <1>7, <1>8
<1>12. units \in [1 .. n -> Units] /\ \A i \in 1 .. n : units[i] = Len(out) + i - 1
  <2>1. ASSUME NEW i \in 1 .. n PROVE unit(i - 1) = Len(out) + i - 1
    <3>1. i - 1 \in 0 .. l.size - 1 /\ Len(out) + (i - 1) = Len(out) + i - 1
      BY <1>1, <1>4, <1>10
    <3> HIDE DEF unit
    <3> QED
      BY <1>11, <3>1
  <2>2. \A i \in 1 .. n : Len(out) + i - 1 \in Units
    BY <1>1 DEF Units
  <2> HIDE DEF unit
  <2> QED
    BY <2>1, <2>2
<1>13. \A k \in 0 .. l.size - 1 : buf[k] = Len(out) + k
  <2> HIDE DEF unit
  <2> QED
    BY <1>11
<1> HIDE DEF in8, unit, units, buf, n, base
<1>14. /\ z'.fposn = Wrapped(z.fposn + l.size) /\ z'.in8 = in8 /\ (in8 => z'.e8buf = buf)
       /\ stream.opt.e8 => z'.curpos = z.curpos + l.size
  BY <1>1, <1>9 DEF LzxFields
<1>15. out' \in Seq(Units) /\ Len(out') = Len(out) + n /\ SentRight(out', None)
  <2>1. units \in Seq(Units) /\ Len(units) = n
    BY <1>10, <1>12
  <2>2. \A i \in 1 .. Len(units) : Right(units[i], Len(out) + i - 1, None)
    BY <1>12, <2>1 DEF Right
  <2> QED
    BY <1>1, <1>6, <1>9, <2>1, <2>2, SentMany
<1>16. Waiting(LzxFrom', optr', oend', Len(out'), None)
  <2>1. ASSUME NEW j \in 0 .. oend' - optr' - 1
        PROVE  LzxFrom'[optr' + j] = Len(out') + j
    <3>1. n + j \in 0 .. l.size - 1 /\ Len(out') + j = Len(out) + (n + j)
      <4>1. base \in Int
        BY <1>1 DEF base
      <4>2. oend' - optr' = l.size - n
        BY <1>4, <1>9, <1>10, <4>1
      <4>3. j \in 0 .. l.size - n - 1
        BY <4>2
      <4> QED
        BY <1>1, <1>4, <1>10, <1>15, <4>3
    <3>2. CASE in8
      <4>1. optr' + j = n + j /\ LzxFrom' = buf
        BY <1>1, <1>9, <1>10, <1>14, <3>2 DEF base, LzxFrom
      <4> QED
        BY <1>13, <3>1, <4>1
    <3>3. CASE ~in8
      <4>1. optr' + j = z.fposn + (n + j) /\ LzxFrom' = window
        BY <1>1, <1>2, <1>9, <1>10, <1>14, <3>3 DEF base, LzxFrom
      <4> QED
        BY <1>8, <3>1, <4>1
    <3> QED
      BY <3>2, <3>3
  <2> QED
    BY <2>1 DEF Waiting, Right
<1>17. Put' = Put
  BY <1>2 DEF Put
<1>18. Decoded' = Put
  <2>1. base \in Int
    BY <1>1 DEF base
  <2>2. Decoded' = Len(out') + (oend' - optr')
    BY DEF Decoded
  <2> QED
    BY <1>1, <1>4, <1>7, <1>9, <1>10, <1>15, <2>1, <2>2, SMTT(40)
<1>19. posn' = z'.fposn /\ posn' \in Nat /\ posn' <= Put
  BY <1>1, <1>2, <1>4, <1>6, <1>7, <1>14 DEF Wrapped
<1>20. Laid(window', Size, posn', Put, Oldest, None)
  <2>1. CASE posn = Size
    BY <1>1, <1>2, <1>6, <2>1, LaidRound DEF Wrapped
  <2>2. CASE posn # Size
    BY <1>2, <1>6, <2>2 DEF Wrapped
  <2> QED
    BY <2>1, <2>2
<1>21. stream.opt.e8 => z'.curpos = Decoded'
  BY <1>1, <1>6, <1>7, <1>14, <1>18
<1>22. Decoded' = Put' - (posn' - z'.fposn) /\ z'.fposn <= posn' /\ z'.fposn <= Decoded'
  BY <1>1, <1>17, <1>18, <1>19
<1>23. LzxPlaced'
  BY <1>2, <1>5, <1>16, <1>17, <1>20, <1>21, <1>22 DEF LzxPlaced
<1> QED
  BY <1>15, <1>23 DEF LzxOrder

\* An offset that no match has is not in a stream as it should be.
LEMMA LzxStrays ==
  ASSUME LzxFields \subseteq DOMAIN z, LzxEnter \/ LzxSetOutputLength \/ LzxCallStep
  PROVE  (z.stray => z'.stray) /\ (LzxClean => LzxClean')
<1>1. CASE LzxMatch
  <2>1. PICK len \in Lengths, off \in LzxOffsets :
          /\ intact' = (intact /\ LzxIntactMatch(len, off))
          /\ z' = [z EXCEPT !.stray = @ \/ LzxStray(off)]
    BY <1>1 DEF LzxMatch
  <2>2. z'.stray = (z.stray \/ LzxStray(off))
    BY <2>1 DEF LzxFields
  <2> QED
    BY <2>1, <2>2 DEF LzxClean, LzxIntactMatch
<1>2. CASE LzxNewBlock
  <2>1. PICK b \in 1 .. stream.total - made, stored \in BOOLEAN, e8seen \in BOOLEAN :
          z' = [z EXCEPT !.brem = b, !.stored = stored, !.raw = @ \/ stored,
                         !.started = @ \/ e8seen \/ (stored /\ stream.opt.e8)]
    BY <1>2 DEF LzxNewBlock
  <2> DEFINE started == z.started \/ e8seen \/ (stored /\ stream.opt.e8)
             raw == z.raw \/ stored
  <2>2. z' = [z EXCEPT !.brem = b, !.stored = stored, !.raw = raw, !.started = started]
    BY <2>1
  <2> HIDE DEF started, raw
  <2>3. z'.stray = z.stray
    BY <2>2 DEF LzxFields
  <2>4. intact' = intact
    BY <1>2 DEF LzxNewBlock
  <2> QED
    BY <2>3, <2>4 DEF LzxClean
<1>3. CASE LzxFrameDone
  <2>1. PICK frame, fposn, in8, e8buf, curpos :
          z' = [z EXCEPT !.frame = frame, !.fposn = fposn, !.in8 = in8, !.e8buf = e8buf,
                         !.curpos = curpos]
    BY <1>3 DEF LzxFrameDone
  <2>2. z'.stray = z.stray /\ intact' = intact
    BY <1>3, <2>1 DEF LzxFields, LzxFrameDone
  <2> QED
    BY <2>2 DEF LzxClean
<1>4. CASE LzxFrame \/ LzxRun \/ LzxRunDone \/ LzxSetOutputLength
  <2>1. z'.stray = z.stray
    BY <1>4 DEF LzxFrame, LzxRun, LzxRunDone, LzxSetOutputLength, LzxFields
  <2>2. intact' => intact
    BY <1>4 DEF LzxFrame, LzxRun, LzxRunDone, LzxSetOutputLength
  <2> QED
    BY <2>1, <2>2 DEF LzxClean
<1>5. CASE \/ LzxEnter \/ LzxFlush \/ LzxLeftoverFails \/ LzxBadBlock \/ LzxLiteral
           \/ LzxBadMatch \/ LzxCopy \/ LzxStoredRun \/ LzxUnreadable \/ LzxOverrun
           \/ LzxBadFrame \/ LzxFrameFails \/ LzxReturn
  <2>1. z' = z
    BY <1>5 DEF LzxEnter, Enters, dec, LzxFlush, FlushesLeftover, LzxLeftoverFails,
       LeftoverFails, LzxBadBlock, LzxLiteral, LzxBadMatch, LzxCopy, LzxStoredRun,
       LzxUnreadable, Unreadable, LzxOverrun, LzxBadFrame, LzxFrameFails, LzxReturn, WriteFails,
       Rejects, Returns
  <2>2. intact' => intact
    BY <1>5 DEF LzxEnter, Enters, dec, LzxFlush, FlushesLeftover, LzxLeftoverFails,
       LeftoverFails, LzxBadBlock, LzxLiteral, LzxBadMatch, LzxCopy, LzxStoredRun,
       LzxUnreadable, Unreadable, LzxOverrun, LzxBadFrame, LzxFrameFails, LzxReturn, WriteFails,
       Rejects, Returns
  <2> QED
    BY <2>1, <2>2 DEF LzxClean
<1> QED
  BY <1>1, <1>2, <1>3, <1>4, <1>5 DEF LzxCallStep

LEMMA LzxOrderStep ==
  ASSUME stream \in Streams, stream.kind = "lzx", LzxKept, LzxSound,
         LzxEnter \/ LzxSetOutputLength \/ LzxCallStep
  PROVE  LzxSound'
<1>1. LzxKept' /\ stream' = stream
  BY LzxStep
<1>2. (z.stray => z'.stray) /\ LzxClean'
  BY LzxPut, LzxStrays DEF LzxSound
<1>3. ASSUME ~z'.stray PROVE LzxOrder'
  <2>1. LzxOrder
    BY <1>2, <1>3 DEF LzxSound
  <2> QED
    BY <1>1, <1>3, <2>1, LzxFrameOrder, LzxEdgesOrder, LzxFlushOrder, LzxFrameDoneOrder
    DEF LzxCallStep
<1> QED
  BY <1>2, <1>3 DEF LzxSound

-----------------------------------------------------------------------------
(* MSZIP.                                                                   *)

LEMMA ZipPut ==
  ASSUME stream \in Streams, IsZip, ZipKept, MemoryKept
  PROVE  /\ FRAME \in Nat \ {0} /\ Size = FRAME /\ stream.total \in Nat
         /\ Zeros \subseteq {JUNK} /\ made \in Int
         /\ window \in [0 .. Size - 1 -> Units] /\ out \in Seq(Units) /\ Len(out) \in Nat
         /\ posn \in 0 .. Size - 1 /\ optr \in Nat /\ oend \in Nat /\ optr <= oend
         /\ oend <= FRAME /\ z.bytes \in Nat /\ want \in Nat
         /\ {"bytes", "hurt"} \subseteq DOMAIN z
         /\ Busy => {"last", "some", "left", "off", "src"} \subseteq DOMAIN l /\ l.left \in Int
         /\ pc = "copy" => Put = made - l.left /\ Put \in Int
         /\ pc \in {"idle", "leftover", "frame", "block", "stored", "symbols", "write"} =>
              Put = made /\ Put \in Int
<1>1. FRAME \in Nat \ {0} /\ Size = FRAME /\ stream.total \in Nat /\ stream.kind # "quantum"
  BY StreamFacts DEF IsZip
<1>2. /\ window \in [0 .. Size - 1 -> Units] /\ out \in Seq(Units) /\ made \in Int
  BY DEF MemoryKept
<1>3. Len(out) \in Nat
  BY <1>2, OutLength
<1>4. /\ {"bytes", "hurt"} \subseteq DOMAIN z /\ z.bytes \in Nat /\ want \in Nat
      /\ posn \in Nat /\ posn < Size
      /\ optr \in Nat /\ oend \in Nat /\ optr <= oend /\ oend <= FRAME
      /\ Busy => {"last", "some", "left", "off", "src"} \subseteq DOMAIN l /\ l.left \in Int
  BY DEF ZipKept, InWindow
<1>5. Zeros \subseteq {JUNK}
  BY DEF Zeros
<1>6. pc = "copy" => Put = made - l.left /\ Put \in Int
  <2> SUFFICES ASSUME pc = "copy" PROVE Put = made - l.left /\ Put \in Int
    OBVIOUS
  <2>1. Put = made - l.left - 0 /\ l.left \in Int
    BY <1>1, <1>4 DEF Put, Busy
  <2> QED
    BY <1>2, <2>1
<1>7. pc \in {"idle", "leftover", "frame", "block", "stored", "symbols", "write"} =>
        Put = made /\ Put \in Int
  BY <1>2 DEF Put
<1> QED
  BY <1>1, <1>2, <1>3, <1>4, <1>5, <1>6, <1>7

\* n units more fill the frame up to its end at most.
LEMMA ZipPutsRight ==
  ASSUME stream \in Streams, IsZip, ZipKept, MemoryKept, stream' = stream,
         NEW n \in Nat \ {0}, NEW label, FlushIfNeeded(n, label),
         z.bytes = 0, posn + n <= FRAME, Put \in Int, Len(out) = Put - posn - z.bytes,
         Laid(window', Size, posn + n, Put + n, 0, Zeros)
  PROVE  /\ pc' = label /\ z'.hurt = z.hurt /\ posn' \in Nat /\ z'.bytes \in Nat
         /\ posn' = IF posn + n = Size THEN 0 ELSE posn + n
         /\ z'.bytes = 0 \/ (z'.bytes = FRAME /\ posn' = 0)
         /\ posn' # 0 => z'.bytes = 0
         /\ posn + n < FRAME => z'.bytes = 0
         /\ Len(out) = (Put + n) - posn' - z'.bytes
         /\ Laid(window', Size, posn', Put + n, 0, Zeros)
<1>1. /\ FRAME \in Nat \ {0} /\ Size = FRAME /\ posn \in 0 .. Size - 1
      /\ {"bytes", "hurt"} \subseteq DOMAIN z /\ Len(out) \in Nat
  BY ZipPut
<1>2. CASE posn + n = FRAME
  <2>1. posn' = 0
    <3>1. (posn + n) % FRAME = 0
      BY <1>1, <1>2
    <3> QED
      BY <3>1 DEF FlushIfNeeded
  <2>2. z' = [z EXCEPT !.bytes = FRAME]
    <3>1. z' = [z EXCEPT !.bytes = z.bytes + FRAME]
      BY <1>2 DEF FlushIfNeeded
    <3>2. z.bytes + FRAME = FRAME
      BY <1>1
    <3> QED
      BY <3>1, <3>2
  <2>3. z'.bytes = FRAME /\ z'.hurt = z.hurt
    BY <1>1, <2>2
  <2>4. pc' = label
    BY <1>1, <2>3 DEF FlushIfNeeded
  <2>5. Laid(window', Size, 0, Put + n, 0, Zeros)
    <3>1. Laid(window', Size, Size, Put + n, 0, Zeros) /\ Put + n \in Int /\ Size \in Nat \ {0}
      BY <1>1, <1>2
    <3> QED
      BY <3>1, LaidRound
  <2>6. Len(out) = Put + n - 0 - FRAME
    BY <1>1, <1>2
  <2> QED
    BY <1>1, <1>2, <2>1, <2>3, <2>4, <2>5, <2>6
<1>3. CASE posn + n # FRAME
  <2>1. posn' = posn + n
    <3>1. (posn + n) % FRAME = posn + n
      BY <1>1, <1>3
    <3> QED
      BY <3>1 DEF FlushIfNeeded
  <2>2. z' = z
    BY <1>3 DEF FlushIfNeeded
  <2>3. pc' = label
    BY <1>1, <2>2 DEF FlushIfNeeded
  <2>4. Len(out) = Put + n - (posn + n) - z.bytes
    BY <1>1
  <2> QED
    BY <1>1, <1>3, <2>1, <2>2, <2>3, <2>4
<1> QED
  BY <1>2, <1>3

\* What of a frame is in the window is the stream's next.
LEMMA ZipHas ==
  ASSUME stream \in Streams, IsZip, ZipKept, MemoryKept, ZipWithin, Put \in Int
  PROVE  \A p \in 0 .. (IF z.bytes = 0 THEN posn ELSE FRAME) - 1 :
            Right(window[p], Len(out) + p, Zeros)
<1>1. /\ FRAME \in Nat \ {0} /\ Size = FRAME /\ posn \in 0 .. Size - 1 /\ Len(out) \in Nat
      /\ z.bytes \in Nat
  BY ZipPut
<1>2. /\ z.bytes = 0 \/ (z.bytes = FRAME /\ posn = 0)
      /\ Len(out) = Put - posn - z.bytes /\ Laid(window, Size, posn, Put, 0, Zeros)
  BY DEF ZipWithin
<1>3. ASSUME NEW p \in 0 .. (IF z.bytes = 0 THEN posn ELSE FRAME) - 1
      PROVE  Right(window[p], Len(out) + p, Zeros)
  <2>1. p \in 0 .. Size - 1 /\ UnitAt(p, Size, posn, Put) = Len(out) + p
    <3>1. CASE z.bytes = 0
      BY <1>1, <1>2, <3>1 DEF UnitAt
    <3>2. CASE z.bytes = FRAME /\ posn = 0
      BY <1>1, <1>2, <3>2 DEF UnitAt
    <3> QED
      BY <1>2, <3>1, <3>2
  <2>2. Len(out) + p >= 0
    BY <1>1, <2>1
  <2> QED
    BY <1>2, <2>1, <2>2 DEF Laid
<1> QED
  BY <1>3

\* A unit, a run or a match is decoded.
LEMMA ZipFrameOrder ==
  ASSUME stream \in Streams, IsZip, ZipKept, ZipOrder, intact, intact',
         ZipStoredRun \/ ZipLiteral \/ ZipMatch \/ ZipCopy
  PROVE  ZipOrder'
<1>1. /\ stream' = stream /\ Size' = Size /\ FRAME' = FRAME /\ IsZip'
      /\ UNCHANGED <<optr, oend, error, out>>
      /\ Busy /\ pc \in {"stored", "symbols", "copy"}
  BY DEF ZipStoredRun, ZipLiteral, ZipMatch, ZipCopy, Size, FRAME, IsZip, ZipAt, Busy, dec
<1>2. MemoryKept /\ SentRight(out, Zeros) /\ ZipWithin /\ (stream.kind = "kwajzip" => optr = oend)
  BY <1>1 DEF ZipOrder
<1>3. /\ FRAME \in Nat \ {0} /\ Size = FRAME /\ Size \in Nat \ {0} /\ posn \in 0 .. Size - 1
      /\ Zeros \subseteq {JUNK} /\ made \in Int /\ Put \in Int
      /\ window \in [0 .. Size - 1 -> Units] /\ out \in Seq(Units) /\ Len(out) \in Nat
      /\ {"last", "some", "left", "off", "src"} \subseteq DOMAIN l /\ l.left \in Int
      /\ {"bytes", "hurt"} \subseteq DOMAIN z /\ z.bytes \in Nat
  BY <1>1, <1>2, ZipPut
<1>4. /\ Len(out) = Put - posn - z.bytes /\ Laid(window, Size, posn, Put, 0, Zeros)
  BY <1>2 DEF ZipWithin
<1>5. Lengths \subseteq Nat \ {0}
  BY LzWindowAssumption DEF LzWindowAssumption
<1>6. \* what is left to be shown
      ASSUME window' \in [0 .. Size - 1 -> Units], made' \in Int, z'.hurt = z.hurt,
             pc' \in {"stored", "symbols", "copy"}, ZipWithin'
      PROVE  ZipOrder'
  <2>1. Zeros' = Zeros
    BY <1>6 DEF Zeros
  <2>2. MemoryKept' /\ SentRight(out', Zeros')
    BY <1>1, <1>2, <1>3, <1>6, <2>1 DEF MemoryKept
  <2>3. stream'.kind = "kwajzip" => optr' = oend'
    BY <1>1, <1>2
  <2> QED
    BY <1>6, <2>2, <2>3 DEF ZipOrder
<1>7. CASE ZipLiteral
  <2>1. /\ pc = "symbols" /\ window' = [window EXCEPT ![posn] = made] /\ made' = made + 1
        /\ FlushIfNeeded(1, "symbols") /\ InFrame(1)
    BY <1>7 DEF ZipLiteral, ZipAt, Puts
  <2>2. Put = made /\ made \in Units /\ Right(made, Put, Zeros)
    BY <1>2, <1>3, <2>1, ZipPut DEF Units, Right
  <2>3. /\ window' \in [0 .. Size - 1 -> Units]
        /\ Laid(window', Size, posn + 1, Put + 1, 0, Zeros)
    BY <1>3, <1>4, <2>1, <2>2, LaidNext, 0 \in Int
  <2>4. z.bytes = 0 /\ posn + 1 <= FRAME /\ 1 \in Nat \ {0}
    BY <2>1 DEF InFrame
  <2>5. /\ pc' = "symbols" /\ z'.hurt = z.hurt /\ posn' \in Nat /\ z'.bytes \in Nat
        /\ z'.bytes = 0 \/ (z'.bytes = FRAME /\ posn' = 0)
        /\ Len(out) = (Put + 1) - posn' - z'.bytes /\ Laid(window', Size, posn', Put + 1, 0, Zeros)
    BY <1>1, <1>2, <1>3, <1>4, <2>1, <2>3, <2>4, ZipPutsRight
  <2>6. Put' = Put + 1 /\ Zeros' = Zeros
    <3>1. Put' = made'
      BY <2>5 DEF Put
    <3> QED
      BY <2>1, <2>2, <2>5, <3>1 DEF Zeros
  <2>7. ZipWithin'
    <3>1. /\ Len(out') = Put' - posn' - z'.bytes /\ Laid(window', Size', posn', Put', 0, Zeros')
          /\ z'.bytes = 0 \/ (z'.bytes = FRAME' /\ posn' = 0)
      BY <1>1, <1>3, <2>5, <2>6
    <3> QED
      BY <2>5, <3>1 DEF ZipWithin
  <2> QED
    BY <1>3, <1>6, <2>1, <2>3, <2>5, <2>7
<1>8. CASE ZipMatch
  <2>1. PICK len \in Lengths, off \in 1 .. FRAME :
          /\ intact' = (intact /\ InFrame(len) /\ off <= made)
          /\ l' = [l EXCEPT !.some = TRUE, !.left = len, !.off = off,
                            !.src = (IF off > posn THEN FRAME ELSE 0) + posn - off]
          /\ made' = made + len
    BY <1>8 DEF ZipMatch
  <2>2. /\ pc = "symbols" /\ pc' = "copy" /\ UNCHANGED <<window, posn, z>>
    BY <1>8 DEF ZipMatch, ZipAt, dec
  <2>3. /\ l'.left = len /\ l'.off = off /\ len \in Nat /\ len >= 1 /\ off \in 1 .. Size
        /\ l'.src = IF off > posn THEN Size - (off - posn) ELSE posn - off
    <3>1. l'.left = len /\ l'.off = off /\ l'.src = (IF off > posn THEN FRAME ELSE 0) + posn - off
      BY <1>3, <2>1
    <3>2. (IF off > posn THEN FRAME ELSE 0) + posn - off
            = IF off > posn THEN Size - (off - posn) ELSE posn - off
      BY <1>3, <2>1
    <3> QED
      BY <1>3, <1>5, <2>1, <3>1, <3>2
  <2>4. z.bytes = 0 /\ posn + len <= FRAME /\ off <= made
    BY <2>1 DEF InFrame
  <2>5. Put = made /\ Put' = Put
    <3>1. Put = made
      BY <1>2, <2>2, ZipPut
    <3>2. Put' = made' - l'.left - 0
      <4>1. stream'.kind # "quantum"
        BY <1>1 DEF IsZip
      <4> QED
        BY <2>2, <4>1 DEF Put
    <3> QED
      BY <1>3, <2>1, <2>3, <3>1, <3>2
  <2>6. Behind(l'.src, Size, posn, l'.off) /\ Put - l'.off >= 0
    <3>1. Behind(l'.src, Size, posn, l'.off)
      BY <1>3, <2>3, BehindOf
    <3> QED
      BY <1>3, <2>3, <2>4, <2>5, <3>1
  <2>7. Zeros' = Zeros
    BY <2>2 DEF Zeros
  <2>8. ZipWithin'
    BY <1>1, <1>4, <2>2, <2>3, <2>4, <2>5, <2>6, <2>7 DEF ZipWithin
  <2>9. made' \in Int
    BY <1>3, <2>1, <2>3
  <2> QED
    BY <1>3, <1>6, <2>2, <2>8, <2>9
<1>9. CASE ZipCopy
  <2> DEFINE label == IF l.left = 1 THEN "symbols" ELSE "copy"
  <2>1. /\ pc = "copy" /\ window' = [window EXCEPT ![posn] = Copied(window[l.src], l.off)]
        /\ l' = [l EXCEPT !.src = (@ + 1) % FRAME, !.left = @ - 1]
        /\ FlushIfNeeded(1, label) /\ made' = made
    BY <1>9 DEF ZipCopy, ZipAt, Puts
  <2>2. /\ l'.left = l.left - 1 /\ l'.off = l.off /\ l'.src = (l.src + 1) % FRAME
    BY <1>3, <2>1
  <2>3. /\ l.left >= 1 /\ Behind(l.src, Size, posn, l.off) /\ Put - l.off >= 0
        /\ z.bytes = 0 /\ posn + l.left <= FRAME
    BY <1>2, <1>3, <2>1 DEF ZipWithin
  <2>4. posn + 1 <= FRAME /\ (l.left > 1 => posn + 1 < FRAME) /\ 1 \in Nat \ {0}
    BY <1>3, <2>3
  <2>5. /\ Copied(window[l.src], l.off) \in Units
        /\ Right(Copied(window[l.src], l.off), Put, Zeros)
    BY <1>3, <1>4, <2>3, SourceRight, 0 \in Int, posn \in 0 .. Size
  <2>6. /\ window' \in [0 .. Size - 1 -> Units]
        /\ Laid(window', Size, posn + 1, Put + 1, 0, Zeros)
    BY <1>3, <1>4, <2>1, <2>5, LaidNext, 0 \in Int
  <2> HIDE DEF label
  <2>7. /\ pc' = label /\ z'.hurt = z.hurt /\ posn' \in Nat /\ z'.bytes \in Nat
        /\ posn' = IF posn + 1 = Size THEN 0 ELSE posn + 1
        /\ z'.bytes = 0 \/ (z'.bytes = FRAME /\ posn' = 0)
        /\ posn + 1 < FRAME => z'.bytes = 0
        /\ Len(out) = (Put + 1) - posn' - z'.bytes /\ Laid(window', Size, posn', Put + 1, 0, Zeros)
    BY <1>1, <1>2, <1>3, <1>4, <2>1, <2>3, <2>4, <2>6, ZipPutsRight
  <2>8. Put' = Put + 1 /\ Zeros' = Zeros
    <3>1. Put = made - l.left /\ stream'.kind # "quantum"
      BY <1>1, <1>2, <2>1, ZipPut DEF IsZip
    <3>2. CASE l.left = 1
      <4>1. Put' = made'
        BY <2>7, <3>2 DEF Put, label
      <4> QED
        BY <1>3, <2>1, <2>7, <3>1, <3>2, <4>1 DEF Zeros
    <3>3. CASE l.left # 1
      <4>1. Put' = made' - l'.left - 0
        BY <2>7, <3>1, <3>3 DEF Put, label
      <4> QED
        BY <1>3, <2>1, <2>2, <2>7, <3>1, <4>1 DEF Zeros
    <3> QED
      BY <3>2, <3>3
  <2>9. pc' = "copy" => /\ l'.left >= 1 /\ z'.bytes = 0 /\ posn' + l'.left <= FRAME
                        /\ Behind(l'.src, Size, posn', l'.off) /\ Put + 1 - l'.off >= 0
    <3> SUFFICES ASSUME l.left # 1
                 PROVE  /\ l'.left >= 1 /\ z'.bytes = 0 /\ posn' + l'.left <= FRAME
                        /\ Behind(l'.src, Size, posn', l'.off) /\ Put + 1 - l'.off >= 0
      BY <2>7 DEF label
    <3>1. l.left > 1 /\ posn' = posn + 1 /\ z'.bytes = 0
      BY <1>3, <2>3, <2>4, <2>7
    <3>2. Behind((l.src + 1) % Size, Size, posn + 1, l.off) /\ l.off \in Int
      BY <1>3, <2>3, BehindNext, SMTT(40) DEF Behind
    <3> QED
      BY <1>3, <2>2, <2>3, <3>1, <3>2
  <2>10. pc' \in {"symbols", "copy"}
    BY <2>7 DEF label
  <2>11. ZipWithin'
    <3>1. pc' # "stored" /\ (pc' = "copy" => l'.left >= 0)
      BY <1>3, <2>2, <2>3, <2>10
    <3>2. /\ Len(out') = Put' - posn' - z'.bytes /\ Laid(window', Size', posn', Put', 0, Zeros')
          /\ z'.bytes = 0 \/ (z'.bytes = FRAME' /\ posn' = 0)
      BY <1>1, <1>3, <2>7, <2>8
    <3>3. pc' = "copy" => /\ z'.bytes = 0 /\ posn' + l'.left <= FRAME' /\ Put' - l'.off >= 0
                          /\ l'.left >= 1 /\ Behind(l'.src, Size', posn', l'.off)
      <4>1. Put' = Put + 1 /\ FRAME' = FRAME /\ Size' = Size
        BY <1>1, <2>8
      <4>2. l'.off \in Int
        BY <2>1, <2>2, <2>3 DEF Behind
      <4> QED
        BY <1>3, <2>7, <2>9, <4>1, <4>2, SMTT(40)
    <3> QED
      BY <3>1, <3>2, <3>3 DEF ZipWithin
  <2> QED
    BY <1>3, <1>6, <2>1, <2>6, <2>7, <2>10, <2>11
<1>10. CASE ZipStoredRun
  <2> DEFINE n == Least(l.left, FRAME - posn)
  <2>1. /\ pc = "stored" /\ l.left > 0 /\ made' = made + n /\ FlushIfNeeded(n, "stored")
        /\ window' = [p \in DOMAIN window |->
                        IF p \in posn .. posn + n - 1 THEN made + p - posn ELSE window[p]]
        /\ l' = [l EXCEPT !.left = @ - n]
    BY <1>10 DEF ZipStoredRun, ZipAt
  <2>2. z.bytes = 0 /\ posn + l.left <= FRAME
    BY <1>2, <1>3, <2>1 DEF ZipWithin
  <2>3. n = l.left /\ n \in Nat \ {0} /\ posn + n <= FRAME
    BY <1>3, <2>1, <2>2 DEF Least
  <2> HIDE DEF n
  <2>4. l'.left = 0
    BY <1>3, <2>1, <2>3
  <2>5. Put = made
    BY <1>2, <2>1, ZipPut
  <2>6. window' \in [0 .. Size - 1 -> Units] /\ Laid(window', Size, posn + n, Put + n, 0, Zeros)
    <3>1. window' = Filled(window, posn, n, Put)
      BY <2>1, <2>5 DEF Filled
    <3>2. posn \in Nat /\ n \in Nat /\ posn + n <= Size /\ 0 \in Int
      BY <1>3, <2>3
    <3> QED
      BY <1>3, <1>4, <3>1, <3>2, LaidRun, n \in Nat
  <2>7. /\ pc' = "stored" /\ z'.hurt = z.hurt /\ posn' \in Nat /\ z'.bytes \in Nat
        /\ z'.bytes = 0 \/ (z'.bytes = FRAME /\ posn' = 0)
        /\ Len(out) = (Put + n) - posn' - z'.bytes /\ Laid(window', Size, posn', Put + n, 0, Zeros)
    BY <1>1, <1>2, <1>3, <1>4, <2>1, <2>2, <2>3, <2>6, ZipPutsRight
  <2>8. Put' = Put + n /\ Zeros' = Zeros /\ made' \in Int
    <3>1. Put' = made'
      BY <2>7 DEF Put
    <3> QED
      BY <1>3, <2>1, <2>3, <2>5, <2>7, <3>1 DEF Zeros
  <2>9. ZipWithin'
    <3>1. Len(out') = Put' - posn' - z'.bytes
      <4>1. out' = out /\ Put' = Put + n
        BY <1>1, <2>8
      <4>2. Len(out) = (Put + n) - posn' - z'.bytes
        BY <2>7
      <4> QED
        BY <4>1, <4>2
    <3>2. Laid(window', Size', posn', Put', 0, Zeros')
      BY <1>1, <2>7, <2>8
    <3>3. z'.bytes = 0 \/ (z'.bytes = FRAME' /\ posn' = 0)
      BY <1>1, <2>7
    <3> QED
      BY <2>4, <2>7, <3>1, <3>2, <3>3 DEF ZipWithin
  <2> QED
    BY <1>6, <2>6, <2>7, <2>8, <2>9
<1> QED
  BY <1>7, <1>8, <1>9, <1>10

\* A call begins or ends between two frames, or something fails.
LEMMA ZipEdgesOrder ==
  ASSUME stream \in Streams, IsZip, ZipKept, ZipOrder, intact, intact',
         \/ ZipEnter \/ KwajEnter \/ KwajReturn \/ ZipLeftoverFails \/ ZipNoFrame
         \/ KwajUnreadable \/ ZipWriteFails
  PROVE  ZipOrder'
<1>1. /\ stream' = stream /\ Size' = Size /\ Zeros' = Zeros
      /\ UNCHANGED <<window, optr, oend, z, made, out>>
  BY DEF ZipEnter, Enters, KwajEnter, KwajReturn, ZipLeftoverFails, LeftoverFails, ZipNoFrame,
     Unreadable, KwajUnreadable, ZipWriteFails, WriteFails, Returns, Size, Zeros, dec
<1>2. MemoryKept /\ SentRight(out, Zeros) /\ (stream.kind = "kwajzip" => optr = oend)
  BY DEF ZipOrder
<1>3. MemoryKept' /\ SentRight(out', Zeros') /\ (stream'.kind = "kwajzip" => optr' = oend')
  BY <1>1, <1>2 DEF MemoryKept
<1>4. CASE ZipLeftoverFails \/ ZipNoFrame \/ KwajUnreadable \/ ZipWriteFails
  <2>1. error' # "OK" /\ pc' = "idle"
    BY <1>4 DEF ZipLeftoverFails, LeftoverFails, ZipNoFrame, Unreadable, KwajUnreadable,
       ZipWriteFails, WriteFails, Returns
  <2> QED
    BY <1>3, <2>1 DEF ZipOrder, Busy
<1>5. CASE ZipEnter \/ KwajEnter \/ KwajReturn
  <2>1. error = "OK" /\ pc \in {"idle", "frame"} /\ pc' \in {"idle", "leftover", "frame"}
        /\ (pc' = "frame" => stream.kind = "kwajzip")
    BY <1>5 DEF ZipEnter, Enters, KwajEnter, KwajReturn, Returns, At, ZipKept
  <2>2. ZipBetween
    BY <2>1 DEF ZipOrder
  <2>3. Decoded' = Decoded
    BY <1>1 DEF Decoded
  <2>4. ZipBetween'
    BY <1>1, <1>2, <2>1, <2>2, <2>3 DEF ZipBetween
  <2> QED
    BY <1>3, <2>1, <2>4 DEF ZipOrder, Busy
<1> QED
  BY <1>4, <1>5

\* What was left is written.
LEMMA ZipFlushOrder ==
  ASSUME stream \in Streams, IsZip, ZipKept, ZipOrder, intact, ZipFlush
  PROVE  ZipOrder'
<1>1. /\ UNCHANGED <<stream, window, oend, error, z, made>> /\ stream.kind = "mszip"
      /\ Size' = Size /\ Zeros' = Zeros /\ pc = "leftover" /\ error = "OK"
  BY DEF ZipFlush, FlushesLeftover, At, Size, Zeros, ZipKept
<1>2. MemoryKept /\ SentRight(out, Zeros) /\ ZipBetween
  BY <1>1 DEF ZipOrder
<1>3. /\ FRAME \in Nat \ {0} /\ Size = FRAME /\ made \in Int /\ want \in Nat
      /\ window \in [0 .. Size - 1 -> Units] /\ out \in Seq(Units) /\ Len(out) \in Nat
      /\ optr \in Nat /\ oend \in Nat /\ optr <= oend /\ oend <= FRAME
  BY <1>2, ZipPut
<1>4. PICK n \in Nat : /\ n = Least(oend - optr, want)
                       /\ Writes(window, n) /\ optr' = optr + n
                       /\ pc' = IF n = want THEN "idle" ELSE "frame"
  <2>1. Least(oend - optr, want) \in Nat
    BY <1>3 DEF Least
  <2> QED
    BY <2>1 DEF ZipFlush, FlushesLeftover
<1>5. n <= oend - optr /\ (n # want => n = oend - optr)
  BY <1>3, <1>4 DEF Least
<1>6. Waiting(window, optr, oend, Len(out), Zeros)
  BY <1>2 DEF ZipBetween
<1>7. ASSUME NEW j \in 0 .. n - 1
      PROVE  window[optr + j] \in Units /\ Right(window[optr + j], Len(out) + j, Zeros)
  <2>1. j \in 0 .. oend - optr - 1 /\ optr + j \in 0 .. Size - 1
    BY <1>3, <1>5
  <2> QED
    BY <1>3, <1>6, <2>1 DEF Waiting
<1>8. Ready(out, window, optr, n, Zeros)
  BY <1>7, Zenon DEF Ready
<1>9. out' = Sent(out, window, optr, n) /\ optr \in Int
  BY <1>3, <1>4 DEF Writes, Sent
<1>10. out' \in Seq(Units) /\ Len(out') = Len(out) + n /\ SentRight(out', Zeros)
  BY <1>2, <1>3, <1>8, <1>9, SentFrom
<1>11. Waiting(window, optr', oend, Len(out'), Zeros)
  <2>1. ASSUME NEW j \in 0 .. oend - optr' - 1
        PROVE  Right(window[optr' + j], Len(out') + j, Zeros)
    <3>1. /\ n + j \in 0 .. oend - optr - 1 /\ optr' + j = optr + (n + j)
          /\ Len(out') + j = Len(out) + (n + j)
      <4>1. optr' = optr + n /\ n \in Int /\ j \in 0 .. oend - (optr + n) - 1
        BY <1>4
      <4> QED
        BY <1>3, <1>10, <4>1
    <3>2. Right(window[optr + (n + j)], Len(out) + (n + j), Zeros)
      BY <1>6, <3>1 DEF Waiting
    <3> QED
      BY <3>1, <3>2
  <2> QED
    BY <2>1 DEF Waiting
<1>12. Decoded' = Decoded
  <2>1. Decoded' = Len(out') + (oend' - optr') /\ Decoded = Len(out) + (oend - optr)
    BY DEF Decoded
  <2> QED
    BY <1>1, <1>3, <1>4, <1>10, <2>1, SMTT(40)
<1>13. pc' = "frame" => optr' = oend'
  BY <1>1, <1>3, <1>4, <1>5
<1>14. ZipBetween'
  BY <1>1, <1>2, <1>11, <1>12, <1>13 DEF ZipBetween
<1>15. MemoryKept'
  BY <1>1, <1>3, <1>10 DEF MemoryKept
<1>16. pc' \in {"idle", "frame"}
  BY <1>4
<1> QED
  BY <1>1, <1>10, <1>14, <1>15, <1>16 DEF ZipOrder, Busy

\* A frame begins, or a block of it.
LEMMA ZipBlockOrder ==
  ASSUME stream \in Streams, IsZip, ZipKept, ZipOrder, intact, intact',
         ZipFrame \/ ZipStoredBlock \/ ZipHuffmanBlock
  PROVE  ZipOrder'
<1>1. /\ stream' = stream /\ Size' = Size /\ FRAME' = FRAME
      /\ UNCHANGED <<window, optr, oend, error, made, out>>
      /\ pc \in {"frame", "block"} /\ pc' \in {"block", "stored", "symbols"}
  BY DEF ZipFrame, ZipStoredBlock, ZipHuffmanBlock, ZipAt, Size, FRAME, dec
<1>2. /\ MemoryKept /\ SentRight(out, Zeros) /\ (stream.kind = "kwajzip" => optr = oend)
      /\ error = "OK"
  BY <1>1 DEF ZipOrder, ZipKept
<1>3. /\ made \in Int /\ Put = made /\ Put' = made
      /\ {"last", "some", "left", "off", "src"} \subseteq DOMAIN l /\ l.left \in Int
      /\ {"bytes", "hurt"} \subseteq DOMAIN z /\ z.bytes \in Nat /\ Len(out) \in Nat
      /\ optr \in Nat /\ oend \in Nat
  <2>1. Put' = made'
    BY <1>1 DEF Put
  <2>2. Busy
    BY <1>1 DEF Busy
  <2> QED
    BY <1>1, <1>2, <2>1, <2>2, ZipPut
<1>4. \* what is left to be shown
      ASSUME z'.hurt = z.hurt, ZipWithin'
      PROVE  ZipOrder'
  <2>1. Zeros' = Zeros
    BY <1>4 DEF Zeros
  <2>2. MemoryKept' /\ SentRight(out', Zeros') /\ (stream'.kind = "kwajzip" => optr' = oend')
    BY <1>1, <1>2, <2>1 DEF MemoryKept
  <2> QED
    BY <1>1, <1>4, <2>2 DEF ZipOrder
<1>5. CASE ZipFrame
  <2>1. /\ pc = "frame" /\ pc' = "block" /\ made < stream.total /\ posn' = 0
        /\ z' = [z EXCEPT !.bytes = 0]
    BY <1>5 DEF ZipFrame, ZipAt
  <2>2. z'.bytes = 0 /\ z'.hurt = z.hurt
    BY <1>3, <2>1
  <2>3. optr = oend /\ made = Decoded /\ Laid(window, Size, 0, made, 0, Zeros)
    BY <1>2, <2>1 DEF ZipOrder, ZipBetween
  <2>4. made = Len(out)
    BY <1>3, <2>3 DEF Decoded
  <2>5. Zeros' = Zeros
    BY <2>2 DEF Zeros
  <2>6. Len(out') = Put' - posn' - z'.bytes
    <3>1. made = made - 0 - 0
      BY <1>3
    <3> QED
      BY <1>1, <1>3, <2>1, <2>2, <2>4, <3>1
  <2>7. Laid(window', Size', posn', Put', 0, Zeros')
    BY <1>1, <1>3, <2>1, <2>3, <2>5
  <2>8. ZipWithin'
    BY <2>1, <2>2, <2>6, <2>7 DEF ZipWithin
  <2> QED
    BY <1>4, <2>2, <2>8
<1>6. CASE ZipHuffmanBlock \/ ZipStoredBlock
  <2>1. pc = "block" /\ UNCHANGED <<posn, z>>
    BY <1>6 DEF ZipHuffmanBlock, ZipStoredBlock, ZipAt, dec
  <2>2. ZipWithin
    BY <2>1 DEF ZipOrder, Busy
  <2>3. pc' = "stored" => l'.left >= 0 /\ z.bytes = 0 /\ posn + l'.left <= FRAME
    <3> SUFFICES ASSUME pc' = "stored" PROVE l'.left >= 0 /\ z.bytes = 0 /\ posn + l'.left <= FRAME
      OBVIOUS
    <3>1. ZipStoredBlock
      BY <1>6 DEF ZipHuffmanBlock
    <3>2. PICK last \in BOOLEAN, n \in 1 .. FRAME + 1 :
            l' = [l EXCEPT !.last = last, !.left = n, !.some = TRUE] /\ InFrame(n)
      BY <3>1 DEF ZipStoredBlock
    <3>3. l'.left = n /\ n >= 0
      BY <1>3, <3>2
    <3> QED
      BY <3>2, <3>3 DEF InFrame
  <2>4. Zeros' = Zeros
    BY <2>1 DEF Zeros
  <2>5. Put' = Put
    BY <1>3
  <2>6. ZipWithin'
    BY <1>1, <2>1, <2>2, <2>3, <2>4, <2>5 DEF ZipWithin
  <2> QED
    BY <1>4, <2>1, <2>6
<1> QED
  BY <1>5, <1>6

\* The last block of a frame ends, and the frame is to be written; or another.
LEMMA ZipEndOrder ==
  ASSUME stream \in Streams, IsZip, ZipKept, ZipOrder, intact, ZipEndBlock
  PROVE  ZipOrder'
<1>1. /\ stream' = stream /\ Size' = Size /\ FRAME' = FRAME
      /\ UNCHANGED <<window, posn, optr, oend, error, l, made, out, intact>>
      /\ pc \in {"stored", "symbols"} /\ Busy
  BY DEF ZipEndBlock, ZipAt, Size, FRAME, Busy
<1>2. /\ MemoryKept /\ SentRight(out, Zeros) /\ (stream.kind = "kwajzip" => optr = oend)
      /\ ZipWithin
  BY <1>1 DEF ZipOrder
<1>3. /\ made \in Int /\ Put = made /\ FRAME \in Nat \ {0} /\ Size = FRAME
      /\ {"bytes", "hurt"} \subseteq DOMAIN z /\ z.bytes \in Nat /\ Len(out) \in Nat
      /\ posn \in 0 .. Size - 1
  BY <1>1, <1>2, ZipPut
<1>4. /\ z.bytes = 0 \/ (z.bytes = FRAME /\ posn = 0)
      /\ Len(out) = Put - posn - z.bytes /\ Laid(window, Size, posn, Put, 0, Zeros)
  BY <1>2 DEF ZipWithin
<1>5. z'.hurt = z.hurt
  BY <1>3 DEF ZipEndBlock
<1>6. Zeros' = Zeros
  BY <1>5 DEF Zeros
<1>7. MemoryKept' /\ SentRight(out', Zeros') /\ (stream'.kind = "kwajzip" => optr' = oend')
  BY <1>1, <1>2, <1>6 DEF MemoryKept
<1>8. CASE l.last
  <2>1. z' = [z EXCEPT !.bytes = z.bytes + posn]
    BY <1>8 DEF ZipEndBlock
  <2>2. z'.bytes = z.bytes + posn
    BY <1>3, <2>1
  <2>3. z'.bytes = (IF z.bytes = 0 THEN posn ELSE FRAME)
    BY <1>3, <1>4, <2>2
  <2>4. pc' = "write"
    <3>1. z'.bytes <= FRAME
      BY <1>3, <2>3
    <3>2. pc' = IF z'.bytes > FRAME THEN "too_much" ELSE "write"
      BY <1>8 DEF ZipEndBlock
    <3> QED
      BY <1>3, <2>3, <3>1, <3>2
  <2>5. ASSUME NEW p \in 0 .. z'.bytes - 1
        PROVE  Right(window'[p], Len(out') + p, Zeros')
    <3>1. Put \in Int /\ p \in 0 .. (IF z.bytes = 0 THEN posn ELSE FRAME) - 1
      BY <1>3, <2>3
    <3> HIDE <2>3
    <3>2. Right(window[p], Len(out) + p, Zeros)
      BY <1>2, <3>1, ZipHas
    <3> QED
      BY <1>1, <1>6, <3>2
  <2>6. z'.bytes = FRAME => made = Len(out) + FRAME /\ Laid(window, Size, 0, made, 0, Zeros)
    <3> SUFFICES ASSUME z'.bytes = FRAME
                 PROVE  made = Len(out) + FRAME /\ Laid(window, Size, 0, made, 0, Zeros)
      OBVIOUS
    <3>1. posn = 0 /\ z.bytes = FRAME
      BY <1>3, <1>4, <2>3
    <3>2. Laid(window, Size, 0, made, 0, Zeros)
      BY <1>3, <1>4, <3>1
    <3> QED
      BY <1>3, <1>4, <3>1, <3>2
  <2>7. ZipWhole'
    BY <1>1, <1>6, <2>5, <2>6 DEF ZipWhole
  <2> QED
    BY <1>7, <2>4, <2>7 DEF ZipOrder
<1>9. CASE ~l.last
  <2>1. z' = z /\ pc' = "block"
    BY <1>9 DEF ZipEndBlock
  <2>2. Put' = Put
    BY <1>1, <1>3, <2>1 DEF Put
  <2>3. ZipWithin'
    BY <1>1, <1>2, <1>6, <2>1, <2>2 DEF ZipWithin
  <2> QED
    BY <1>7, <2>1, <2>3 DEF ZipOrder
<1> QED
  BY <1>8, <1>9

\* inflate() fails: the end of the call, or the frame is filled up with zeros.
LEMMA ZipRepairs ==
  ASSUME stream \in Streams, IsZip, ZipKept, ZipOrder, intact, Busy,
         pc \in {"block", "symbols", "stored"}, Repairs,
         NEW e, InflateFails(e), NEW m \in Int, made' = m,
         error' = "OK" /\ m < stream.total =>
           m = IF z.bytes = 0 THEN made - posn + FRAME ELSE made
  PROVE  ZipOrder'
<1>1. /\ stream' = stream /\ Size' = Size /\ FRAME' = FRAME /\ UNCHANGED <<optr, oend, out>>
      /\ z' = [bytes |-> FRAME, hurt |-> TRUE] /\ pc' = "write"
      /\ window' = [p \in DOMAIN window |->
                      IF p < (IF z.bytes = 0 THEN posn ELSE FRAME) THEN window[p] ELSE JUNK]
  BY DEF InflateFails, Size, FRAME
<1>2. /\ MemoryKept /\ SentRight(out, Zeros) /\ (stream.kind = "kwajzip" => optr = oend)
      /\ ZipWithin
  BY DEF ZipOrder
<1>3. /\ made \in Int /\ Put = made /\ FRAME \in Nat \ {0} /\ Size = FRAME
      /\ z.bytes \in Nat /\ out \in Seq(Units) /\ Len(out) \in Nat /\ posn \in 0 .. Size - 1
      /\ window \in [0 .. Size - 1 -> Units] /\ Zeros \subseteq {JUNK}
  BY <1>2, ZipPut
<1>4. z'.bytes = FRAME /\ z'.hurt = TRUE /\ Zeros' = {JUNK}
  BY <1>1 DEF Zeros
<1>5. \A u, n : Right(u, n, Zeros) => Right(u, n, Zeros')
  BY <1>3, <1>4 DEF Right
<1>6. SentRight(out', Zeros')
  BY <1>1, <1>2, <1>5 DEF SentRight
<1>7. window' \in [0 .. Size - 1 -> Units]
  BY <1>1, <1>3 DEF Units
<1> DEFINE kept == IF z.bytes = 0 THEN posn ELSE FRAME
<1>8. \A p \in 0 .. kept - 1 : Right(window[p], Len(out) + p, Zeros)
  BY <1>2, <1>3, ZipHas
<1>9. ASSUME NEW p \in 0 .. Size - 1
      PROVE  Right(window'[p], Len(out) + p, Zeros')
  <2>1. window'[p] = IF p < kept THEN window[p] ELSE JUNK
    BY <1>1, <1>3
  <2>2. kept \in Int
    BY <1>3
  <2> HIDE DEF kept
  <2>3. CASE p < kept
    <3>1. p \in 0 .. kept - 1
      BY <2>2, <2>3
    <3>2. Right(window[p], Len(out) + p, Zeros')
      BY <1>5, <1>8, <3>1
    <3> QED
      BY <2>1, <2>3, <3>2
  <2>4. CASE ~(p < kept)
    <3>1. window'[p] \in Zeros'
      BY <1>4, <2>1, <2>4
    <3> QED
      BY <3>1 DEF Right
  <2> QED
    BY <2>3, <2>4
<1>10. ASSUME error' = "OK", m < stream.total
       PROVE  m = Len(out) + FRAME /\ Laid(window', Size, 0, m, 0, Zeros')
  <2>1. m = Len(out) + FRAME
    <3>1. z.bytes = 0 \/ (z.bytes = FRAME /\ posn = 0)
      BY <1>2 DEF ZipWithin
    <3>2. Len(out) = made - posn - z.bytes
      BY <1>2, <1>3 DEF ZipWithin
    <3>3. m = IF z.bytes = 0 THEN made - posn + FRAME ELSE made
      BY <1>10
    <3>4. CASE z.bytes = 0
      BY <1>3, <3>2, <3>3, <3>4
    <3>5. CASE z.bytes = FRAME /\ posn = 0
      BY <1>3, <3>2, <3>3, <3>5
    <3> QED
      BY <3>1, <3>4, <3>5
  <2>2. ASSUME NEW p \in 0 .. Size - 1
        PROVE  Right(window'[p], UnitAt(p, Size, 0, m), Zeros')
    <3>1. UnitAt(p, Size, 0, m) = Len(out) + p
      BY <1>3, <2>1 DEF UnitAt
    <3> QED
      BY <1>9, <3>1
  <2> QED
    BY <2>1, <2>2 DEF Laid
<1>11. ZipWhole'
  <2>1. \A p \in 0 .. z'.bytes - 1 : Right(window'[p], Len(out') + p, Zeros')
    <3>1. z'.bytes = Size /\ out' = out
      BY <1>1, <1>3, <1>4
    <3> QED
      BY <1>9, <3>1
  <2>2. error' = "OK" /\ made' < stream'.total =>
          made' = Len(out') + FRAME' /\ Laid(window', Size', 0, made', 0, Zeros')
    BY <1>1, <1>10
  <2> QED
    BY <2>1, <2>2 DEF ZipWhole
<1>12. MemoryKept' /\ (stream'.kind = "kwajzip" => optr' = oend')
  BY <1>1, <1>2, <1>3, <1>7 DEF MemoryKept
<1> QED
  BY <1>1, <1>6, <1>11, <1>12 DEF ZipOrder

LEMMA ZipDamageOrder ==
  ASSUME stream \in Streams, IsZip, ZipKept, ZipOrder, intact, intact',
         ZipTooMuch \/ ZipDamage \/ ZipUnreadable
  PROVE  ZipOrder'
<1>1. Busy /\ pc \in {"block", "symbols", "stored"}
  <2>1. ~ZipTooMuch
    BY DEF ZipTooMuch, ZipAt, ZipOrder, Busy
  <2> QED
    BY <2>1 DEF ZipDamage, ZipUnreadable, ZipAt, Busy
<1>2. ~ZipTooMuch
  BY <1>1 DEF ZipTooMuch, ZipAt
<1>3. MemoryKept /\ SentRight(out, Zeros) /\ (stream.kind = "kwajzip" => optr = oend)
  BY DEF ZipOrder
<1>4. made \in Int /\ FRAME \in Nat \ {0} /\ posn \in 0 .. Size - 1 /\ Size = FRAME
  BY <1>3, ZipPut
<1>5. CASE ZipDamage
  <2>1. /\ Repairs /\ InflateFails("DECRUNCH")
        /\ made' = IF z.bytes = 0 THEN Least(stream.total, made - posn + FRAME) ELSE made
    BY <1>5 DEF ZipDamage
  <2>2. /\ made' \in Int
        /\ made' < stream.total => made' = IF z.bytes = 0 THEN made - posn + FRAME ELSE made
    <3>1. stream.total \in Int
      BY StreamFacts
    <3> QED
      BY <1>4, <2>1, <3>1 DEF Least
  <2> QED
    BY <1>1, <2>1, <2>2, ZipRepairs
<1>6. CASE ZipUnreadable /\ Repairs
  <2>1. InflateFails("READ") /\ made' = made /\ error' # "OK"
    BY <1>6 DEF ZipUnreadable, InflateFails
  <2> QED
    BY <1>1, <1>4, <1>6, <2>1, ZipRepairs
<1>7. CASE ZipUnreadable /\ ~Repairs
  <2>1. /\ made' = made /\ error' # "OK" /\ pc' = "idle"
        /\ UNCHANGED <<stream, window, z, optr, oend, out>>
    BY <1>7 DEF ZipUnreadable, InflateFails
  <2>2. Zeros' = Zeros /\ Size' = Size
    BY <2>1 DEF Zeros, Size
  <2> QED
    BY <1>3, <2>1, <2>2 DEF ZipOrder, MemoryKept, Busy
<1> QED
  BY <1>2, <1>5, <1>6, <1>7

\* A frame is written, as far as it is asked for.
LEMMA ZipWriteOrder ==
  ASSUME stream \in Streams, IsZip, ZipKept, ZipOrder, intact, intact', ZipWrite
  PROVE  ZipOrder'
<1>1. /\ UNCHANGED <<stream, window, error, z, made>>
      /\ Size' = Size /\ FRAME' = FRAME /\ Zeros' = Zeros /\ pc = "write" /\ Busy
      /\ pc' \in {"idle", "frame"} /\ (z.bytes = FRAME \/ made >= stream.total)
  BY DEF ZipWrite, ZipAt, Size, FRAME, Zeros, Busy
<1>2. MemoryKept /\ SentRight(out, Zeros) /\ ZipWhole /\ z.bytes <= FRAME
  BY <1>1 DEF ZipOrder, ZipKept
<1>3. /\ FRAME \in Nat \ {0} /\ Size = FRAME /\ made \in Int /\ want \in Nat
      /\ window \in [0 .. Size - 1 -> Units] /\ out \in Seq(Units) /\ Len(out) \in Nat
      /\ z.bytes \in Nat /\ stream.total \in Nat
  BY <1>2, ZipPut
<1> DEFINE n == IF stream.kind = "kwajzip" THEN z.bytes ELSE Least(want, z.bytes)
<1>4. /\ out' = out \o [i \in 1 .. n |-> window[i - 1]] /\ optr' = n
      /\ want' = IF stream.kind = "kwajzip" THEN 0 ELSE want - n
      /\ oend' = IF stream.kind = "kwajzip" THEN n ELSE z.bytes
      /\ pc' = "frame" => stream.kind # "mszip" \/ want' # 0
  BY DEF ZipWrite
<1>5. /\ n \in Nat /\ n <= z.bytes
      /\ stream.kind = "kwajzip" => n = z.bytes
      /\ stream.kind # "kwajzip" /\ want # n => n = z.bytes
  BY <1>3 DEF Least
<1> HIDE DEF n
<1>6. /\ oend' = z.bytes /\ optr' = n
      /\ stream'.kind = "kwajzip" => optr' = oend'
      /\ pc' = "frame" => optr' = oend'
  <2>1. stream.kind \in {"mszip", "kwajzip"}
    BY DEF IsZip
  <2> QED
    BY <1>1, <1>3, <1>4, <1>5, <2>1
<1>7. ASSUME NEW p \in 0 .. z.bytes - 1
      PROVE  window[p] \in Units /\ Right(window[p], Len(out) + p, Zeros)
  <2>1. p \in 0 .. Size - 1
    BY <1>2, <1>3
  <2> QED
    BY <1>2, <1>3, <2>1 DEF ZipWhole
<1>8. Ready(out, window, 0, n, Zeros)
  <2>1. ASSUME NEW i \in 0 .. n - 1
        PROVE  window[0 + i] \in Units /\ Right(window[0 + i], Len(out) + i, Zeros)
    <3>1. 0 + i = i /\ i \in 0 .. z.bytes - 1
      BY <1>3, <1>5
    <3> QED
      BY <1>7, <3>1
  <2> QED
    BY <2>1, Zenon DEF Ready
<1>9. out' = Sent(out, window, 0, n)
  <2>1. \A i \in 1 .. n : 0 + i - 1 = i - 1
    BY <1>5
  <2>2. [i \in 1 .. n |-> window[0 + i - 1]] = [i \in 1 .. n |-> window[i - 1]]
    BY <2>1
  <2> QED
    BY <1>4, <2>2 DEF Sent
<1>10. out' \in Seq(Units) /\ Len(out') = Len(out) + n /\ SentRight(out', Zeros)
  BY <1>2, <1>3, <1>5, <1>8, <1>9, SentFrom, 0 \in Int
<1>11. Waiting(window, n, z.bytes, Len(out'), Zeros)
  <2>1. ASSUME NEW j \in 0 .. z.bytes - n - 1
        PROVE  Right(window[n + j], Len(out') + j, Zeros)
    <3>1. n + j \in 0 .. z.bytes - 1 /\ Len(out') + j = Len(out) + (n + j)
      BY <1>3, <1>5, <1>10
    <3> QED
      BY <1>7, <3>1
  <2> QED
    BY <2>1 DEF Waiting
<1>12. Decoded' = Len(out) + z.bytes
  <2>1. Decoded' = Len(out') + (oend' - optr')
    BY DEF Decoded
  <2> QED
    BY <1>3, <1>5, <1>6, <1>10, <2>1
<1>13. error = "OK" /\ made < stream.total => made = Decoded' /\ Laid(window, Size, 0, made, 0, Zeros)
  BY <1>1, <1>2, <1>3, <1>12 DEF ZipWhole
<1>14. error' = "OK" => ZipBetween'
  BY <1>1, <1>6, <1>11, <1>13 DEF ZipBetween
<1>15. MemoryKept'
  BY <1>1, <1>3, <1>10 DEF MemoryKept
<1> QED
  BY <1>1, <1>6, <1>10, <1>14, <1>15 DEF ZipOrder, Busy

LEMMA ZipOrderStep ==
  ASSUME stream \in Streams, IsZip, ZipKept, ZipOrder, ZipEnter \/ KwajEnter \/ ZipCallStep
  PROVE  ZipOrder'
<1> SUFFICES ASSUME intact' PROVE ZipOrder'
  BY DEF ZipOrder
<1>1. intact
  BY DEF ZipEnter, KwajEnter, ZipCallStep, Enters, ZipFlush, FlushesLeftover, ZipLeftoverFails,
     LeftoverFails, WriteFails, ZipFrame, ZipNoFrame, Unreadable, KwajReturn, KwajUnreadable,
     KwajNoHeader, ZipStoredBlock, ZipHuffmanBlock, ZipStoredRun, ZipLiteral, ZipMatch, ZipCopy,
     ZipEndBlock, ZipTooMuch, ZipDamage, ZipUnreadable, ZipWrite, ZipWriteFails
<1>2. ~KwajNoHeader
  BY DEF KwajNoHeader
<1> QED
  BY <1>1, <1>2, ZipEdgesOrder, ZipFlushOrder, ZipBlockOrder, ZipFrameOrder, ZipEndOrder,
     ZipDamageOrder, ZipWriteOrder DEF ZipCallStep

-----------------------------------------------------------------------------
(* All of them.                                                             *)

OrderInv == Inv /\ OutKept /\ RingOrder /\ LzxSound /\ QtmOrder /\ ZipOrder

LEMMA OrderInit == Init => OrderInv
<1> SUFFICES ASSUME Init PROVE OrderInv
  OBVIOUS
<1>1. Inv /\ OutKept
  BY InvInit, StreamInit
<1>2. /\ stream \in Streams /\ window = FreshWindow(stream) /\ posn = stream.start
      /\ optr = 0 /\ oend = 0 /\ error = "OK" /\ pc = "idle" /\ made = 0 /\ out = <<>> /\ due = 0
  BY DEF Init
<1>3. /\ Size \in Nat \ {0} /\ stream.start \in 0 .. Size - 1 /\ FRAME \in Nat \ {0}
      /\ stream.kind \in {"lzx", "quantum", "mszip", "kwajzip", "lzss", "lzh"}
  BY <1>2, StreamFacts
<1>4. /\ stream.kind # "lzss" => stream.start = 0
      /\ stream.kind = "lzx" => stream.opt.ref \in Nat
  BY <1>2, LzWindowAssumption DEF LzWindowAssumption
<1>5. window \in [0 .. Size - 1 -> Units]
  <2>1. \A p \in 0 .. Size - 1 : FreshWindow(stream)[p] \in Units
    BY <1>2, <1>3, <1>4 DEF FreshWindow, Units, Size
  <2>2. FreshWindow(stream) = [p \in 0 .. Size - 1 |-> FreshWindow(stream)[p]]
    BY DEF FreshWindow, Size
  <2> QED
    BY <1>2, <2>1, <2>2
<1>6. MemoryKept /\ Put = 0 /\ Len(out) = 0 /\ \A other : SentRight(out, other)
  BY <1>2, <1>5 DEF MemoryKept, Put, SentRight
<1>7. RingOrder
  <2> SUFFICES ASSUME IsRing PROVE RingOrder
    BY DEF RingOrder
  <2>1. ASSUME NEW p \in 0 .. Size - 1
        PROVE  window[p] = UnitAt(p, Size, posn, 0)
    BY <1>2, <1>3 DEF FreshWindow, UnitAt, IsRing, Size
  <2>2. Laid(window, Size, posn, Put, -Size, None)
    BY <1>6, <2>1 DEF Laid, Right
  <2> QED
    BY <1>2, <1>6, <2>2 DEF RingOrder
<1>8. LzxSound
  <2> SUFFICES ASSUME stream.kind = "lzx" PROVE LzxSound
    BY DEF LzxSound
  <2>1. z.fposn = 0 /\ z.curpos = 0 /\ ~z.in8 /\ ~z.stray
    BY <1>2 DEF Init, Fresh, LzxFresh
  <2>2. ASSUME NEW p \in 0 .. Size - 1, UnitAt(p, Size, 0, 0) >= Oldest
        PROVE  window[p] = UnitAt(p, Size, 0, 0)
    <3>1. UnitAt(p, Size, 0, 0) = p - Size
      BY <1>3 DEF UnitAt
    <3>2. p >= Size - stream.opt.ref
      BY <1>3, <1>4, <2>2, <3>1 DEF Oldest
    <3>3. window[p] = p - Size
      BY <1>2, <3>2 DEF FreshWindow, Size
    <3> QED
      BY <3>1, <3>3
  <2>3. posn = 0
    BY <1>2, <1>4
  <2>4. Laid(window, Size, posn, Put, Oldest, None)
    BY <1>6, <2>2, <2>3 DEF Laid, Right
  <2>5. Decoded = 0 /\ Waiting(LzxFrom, optr, oend, Len(out), None)
    BY <1>2, <1>6 DEF Decoded, Waiting
  <2>6. LzxPlaced
    BY <1>2, <1>6, <2>1, <2>3, <2>4, <2>5 DEF LzxPlaced
  <2> QED
    BY <1>6, <2>1, <2>6 DEF LzxOrder, LzxSound, LzxClean
<1>9. stream.kind # "lzss" => Laid(window, Size, 0, 0, 0, None) /\ Laid(window, Size, 0, 0, 0, Zeros)
  <2>1. \A p \in 0 .. Size - 1 : UnitAt(p, Size, 0, 0) < 0
    BY <1>3 DEF UnitAt
  <2>2. \A p \in 0 .. Size - 1 : ~(UnitAt(p, Size, 0, 0) >= 0)
    <3>1. \A p \in 0 .. Size - 1 : UnitAt(p, Size, 0, 0) \in Int
      BY <1>3 DEF UnitAt
    <3> QED
      BY <2>1, <3>1
  <2> QED
    BY <2>2 DEF Laid
<1>10. QtmOrder
  <2> SUFFICES ASSUME stream.kind = "quantum" PROVE QtmOrder
    BY DEF QtmOrder
  <2>1. posn = 0
    BY <1>2, <1>4
  <2>2. QtmPlaced
    BY <1>2, <1>6, <1>9, <2>1 DEF QtmPlaced
  <2> QED
    BY <1>6, <2>2 DEF QtmOrder
<1>11. ZipOrder
  <2> SUFFICES ASSUME IsZip PROVE ZipOrder
    BY DEF ZipOrder
  <2>1. Decoded = 0 /\ Waiting(window, optr, oend, Len(out), Zeros)
    BY <1>2, <1>6 DEF Decoded, Waiting
  <2>2. ZipBetween
    BY <1>2, <1>9, <2>1 DEF ZipBetween, IsZip
  <2> QED
    BY <1>2, <1>6, <2>2 DEF ZipOrder, Busy
<1> QED
  BY <1>1, <1>7, <1>8, <1>10, <1>11 DEF OrderInv

LEMMA OrderStep == OrderInv /\ [Next]_vars => OrderInv'
<1> SUFFICES ASSUME OrderInv, [Next]_vars PROVE OrderInv'
  OBVIOUS
<1>1. /\ Inv /\ OutKept /\ RingOrder /\ LzxSound /\ QtmOrder /\ ZipOrder
      /\ stream \in Streams /\ RingKept /\ QtmKept /\ ZipKept /\ LzxKept
  BY DEF OrderInv, Inv
<1>2. Inv' /\ OutKept'
  BY <1>1, InvStep, StreamStep
<1>3. CASE RingCall \/ RingCallStep
  <2>1. IsRing
    BY <1>3, KindOfStep DEF IsRing
  <2>2. RingOrder' /\ stream' = stream
    BY <1>1, <1>3, <2>1, RingOrderStep, RingStep
  <2> QED
    BY <1>2, <2>1, <2>2 DEF OrderInv, QtmOrder, ZipOrder, LzxSound, IsRing, IsZip
<1>4. CASE QtmEnter \/ QtmCallStep
  <2>1. stream.kind = "quantum"
    BY <1>4, KindOfStep
  <2>2. QtmOrder' /\ stream' = stream
    BY <1>1, <1>4, <2>1, QtmOrderStep, QtmStep
  <2> QED
    BY <1>2, <2>1, <2>2 DEF OrderInv, RingOrder, ZipOrder, LzxSound, IsRing, IsZip
<1>5. CASE ZipEnter \/ KwajEnter \/ ZipCallStep
  <2>1. IsZip
    BY <1>5, KindOfStep DEF IsZip
  <2>2. ZipOrder' /\ stream' = stream
    BY <1>1, <1>5, <2>1, ZipOrderStep, ZipStep
  <2> QED
    BY <1>2, <2>1, <2>2 DEF OrderInv, RingOrder, QtmOrder, LzxSound, IsRing, IsZip
<1>6. CASE LzxEnter \/ LzxSetOutputLength \/ LzxCallStep
  <2>1. stream.kind = "lzx"
    BY <1>6, KindOfStep
  <2>2. LzxSound' /\ stream' = stream
    BY <1>1, <1>6, <2>1, LzxOrderStep, LzxStep
  <2> QED
    BY <1>2, <2>1, <2>2 DEF OrderInv, RingOrder, QtmOrder, ZipOrder, IsRing, IsZip
<1>7. CASE UNCHANGED vars
  <2>1. UNCHANGED <<stream, window, posn, optr, oend, error, z, pc, want, l, made, intact, out, due>>
    BY <1>7 DEF vars, dec, call
  <2>2. Size' = Size /\ FRAME' = FRAME /\ IsRing' = IsRing /\ IsZip' = IsZip /\ Put' = Put
        /\ Decoded' = Decoded /\ Oldest' = Oldest /\ Zeros' = Zeros /\ LzxFrom' = LzxFrom
        /\ MemoryKept' = MemoryKept /\ Busy' = Busy
    BY <2>1 DEF Size, FRAME, IsRing, IsZip, Put, Decoded, Oldest, Zeros, LzxFrom, MemoryKept, Busy
  <2>3. RingOrder'
    BY <1>1, <2>1, <2>2 DEF RingOrder
  <2>4. LzxSound'
    <3>1. LzxOrder => LzxOrder'
      BY <2>1, <2>2 DEF LzxOrder, LzxPlaced
    <3> QED
      BY <1>1, <2>1, <3>1 DEF LzxSound, LzxClean
  <2>5. QtmOrder'
    BY <1>1, <2>1, <2>2 DEF QtmOrder, QtmPlaced
  <2>6. ZipOrder'
    BY <1>1, <2>1, <2>2 DEF ZipOrder, ZipBetween, ZipWithin, ZipWhole
  <2> QED
    BY <1>2, <2>3, <2>4, <2>5, <2>6 DEF OrderInv
<1> QED
  BY <1>3, <1>4, <1>5, <1>6, <1>7 DEF Next, CallStep

LEMMA OrderSeen == OrderInv => InOrder
<1> SUFFICES ASSUME OrderInv, NEW i \in 1 .. Len(out)
             PROVE  \/ out[i] = i - 1
                    \/ IsZip /\ z.hurt /\ out[i] = JUNK
                    \/ ~intact /\ (IsZip \/ stream.kind = "quantum")
                    \/ ~intact /\ stream.kind = "lzx" /\ z.stray
  BY DEF InOrder
<1>1. stream.kind \in {"lzx", "quantum", "mszip", "kwajzip", "lzss", "lzh"}
  BY StreamFacts DEF OrderInv, Inv
<1>2. CASE \/ IsRing \/ (stream.kind = "lzx" /\ ~z.stray)
           \/ (stream.kind = "quantum" /\ intact)
  <2>1. SentRight(out, None)
    BY <1>2 DEF OrderInv, RingOrder, LzxSound, LzxOrder, QtmOrder
  <2> QED
    BY <2>1 DEF SentRight, Right, None
<1>3. CASE IsZip /\ intact
  <2>1. SentRight(out, Zeros)
    BY <1>3 DEF OrderInv, ZipOrder
  <2> QED
    BY <1>3, <2>1 DEF SentRight, Right, Zeros
<1>4. CASE stream.kind = "lzx" /\ z.stray
  BY <1>4 DEF OrderInv, LzxSound, LzxClean
<1> QED
  BY <1>1, <1>2, <1>3, <1>4 DEF IsRing, IsZip

(* What a decoder writes is the stream, unit by unit, whatever the sizes of *)
(* windows, frames, matches and calls: LZSS and LZH for every stream, LZX   *)
(* for every stream that it lets in unless a damaged stored block set an    *)
(* offset no match has, Quantum and MSZIP as long as what they read is      *)
(* legal; in repair mode zeros stand for what was lost, and all else is in  *)
(* place.                                                                   *)
THEOREM StreamInOrder == Spec => []InOrder
<1>1. Spec => []OrderInv
  BY OrderInit, OrderStep, PTL DEF Spec
<1> QED
  BY <1>1, OrderSeen, PTL

-----------------------------------------------------------------------------
(* A stream as it should be decodes.  Nothing of it makes a decoder give up, *)
(* because what its tokens stand for is never more than there is, nor than   *)
(* the frame they are in has place for.                                      *)

\* No token so far was illegal, no read or write failed.
Fine == intact /\ faults = 0

RingIntact ==
  IsRing /\ Fine =>
    /\ error = "OK" /\ made <= stream.total
    /\ pc = "idle" /\ due = ALL => Len(out) \in stream.total - LzhTail .. stream.total

\* The first lap has each unit at the place of its number; a frame is no more
\* than there is of the stream, and its runs fill it.
LzxIntact ==
  stream.kind = "lzx" /\ Fine =>
    /\ error = "OK"
    /\ z.fposn = Decoded \/ Decoded >= Size
    /\ pc = "frame" => optr = oend \/ want = 0
    /\ Decoding => optr = oend /\ Len(out) + l.size <= stream.total
    /\ pc = "block" => posn + l.todo = z.fposn + l.size
    /\ pc \in {"tokens", "copy"} => l.this >= 0
    /\ pc = "stored" => l.this >= 1

\* A call decodes to what it was asked for, or to the end of the match there;
\* the frame ends with its last match.
QtmIntact ==
  stream.kind = "quantum" /\ Fine =>
    /\ due <= stream.total
    /\ error = "OK" \/ QtmBailed
    /\ error = "OK" =>
         /\ pc \in {"idle", "leftover", "head", "wrap", "out"} => oend = posn
         /\ pc \in {"tokens", "copy", "wrap_match", "second_part", "stop"} => z.todo >= 0
         /\ pc \in {"tokens", "copy"} => Put + (l.end - posn) <= stream.total
         /\ pc = "tokens" => l.end <= posn + z.todo
         /\ pc = "copy" => l.end <= posn + l.left + z.todo

\* A repaired frame may be longer than what the stream had left.
ZipIntact ==
  IsZip /\ Fine =>
    /\ error = "OK"
    /\ due <= stream.total /\ made <= stream.total
    /\ pc = "frame" /\ stream.kind = "mszip" => want # 0
    /\ pc \in {"idle", "leftover", "frame"} => Decoded >= made
    /\ pc = "stored" => made + l.left <= stream.total
    /\ pc = "write" => Len(out) + z.bytes >= made
    /\ stream.kind = "kwajzip" =>
         /\ pc \in {"idle", "frame"} => Decoded = made
         /\ pc = "write" => Len(out) + z.bytes = made
         /\ pc = "idle" /\ due = ALL => made = stream.total

IntactInv ==
  /\ OrderInv /\ faults \in Nat
  /\ RingIntact /\ LzxIntact /\ QtmIntact /\ ZipIntact
\* An illegal token or a failure is not forgotten.
Remembered == (faults' = faults \/ faults' = faults + 1) /\ (intact' => intact)

LEMMA FaultsRemembered ==
  ASSUME faults \in Nat, [Next]_vars
  PROVE  faults' \in Nat /\ (Fine' => Fine)
<1>1. CASE UNCHANGED vars
  BY <1>1 DEF vars, Fine
<1>2. LzxEnter \/ QtmEnter \/ ZipEnter \/ KwajEnter \/ RingCall \/ LzxSetOutputLength => Remembered
  <2>1. LzxEnter \/ QtmEnter \/ ZipEnter \/ KwajEnter \/ RingCall \/ LzxSetOutputLength =>
          (faults' = faults \/ faults' = faults + 1)
    BY Zenon DEF LzxEnter, QtmEnter, ZipEnter, Enters, KwajEnter, RingCall, LzxSetOutputLength
  <2>2. LzxEnter \/ QtmEnter \/ ZipEnter \/ KwajEnter \/ RingCall \/ LzxSetOutputLength => (intact' => intact)
    BY Zenon DEF LzxEnter, QtmEnter, ZipEnter, Enters, KwajEnter, RingCall, LzxSetOutputLength
  <2> QED
    BY <2>1, <2>2 DEF Remembered
<1>3. LzxCallStep => Remembered
  <2>1. LzxCallStep =>
          (faults' = faults \/ faults' = faults + 1)
    BY Zenon DEF LzxCallStep, LzxFlush, LzxLeftoverFails, LzxFrame, LzxNewBlock, LzxBadBlock, LzxRun,
       LzxLiteral, LzxMatch, LzxBadMatch, LzxCopy, LzxStoredRun, LzxUnreadable, LzxRunDone,
       LzxOverrun, LzxBadFrame, LzxFrameDone, LzxFrameFails, LzxReturn, Rejects,
       FlushesLeftover, LeftoverFails, WriteFails, IOFails, Unreadable
  <2>2. LzxCallStep => (intact' => intact)
    BY Zenon DEF LzxCallStep, LzxFlush, LzxLeftoverFails, LzxFrame, LzxNewBlock, LzxBadBlock, LzxRun,
       LzxLiteral, LzxMatch, LzxBadMatch, LzxCopy, LzxStoredRun, LzxUnreadable, LzxRunDone,
       LzxOverrun, LzxBadFrame, LzxFrameDone, LzxFrameFails, LzxReturn, Rejects,
       FlushesLeftover, LeftoverFails, WriteFails, IOFails, Unreadable
  <2> QED
    BY <2>1, <2>2 DEF Remembered
<1>4. QtmCallStep => Remembered
  <2>1. QtmCallStep =>
          (faults' = faults \/ faults' = faults + 1)
    BY Zenon DEF QtmCallStep, QtmFlush, QtmLeftoverFails, QtmHead, QtmEnough, QtmLiteral, QtmMatch,
       QtmCopy, QtmWrapMatch, QtmBailsOut, QtmSecondPart, QtmStop, QtmOvershot, QtmWrap, QtmKeep,
       QtmOut, QtmWriteFails, QtmUnreadable, QtmTrailerUnreadable, Rejects,
       FlushesLeftover, LeftoverFails, WriteFails, IOFails, Unreadable
  <2>2. QtmCallStep => (intact' => intact)
    BY Zenon DEF QtmCallStep, QtmFlush, QtmLeftoverFails, QtmHead, QtmEnough, QtmLiteral, QtmMatch,
       QtmCopy, QtmWrapMatch, QtmBailsOut, QtmSecondPart, QtmStop, QtmOvershot, QtmWrap, QtmKeep,
       QtmOut, QtmWriteFails, QtmUnreadable, QtmTrailerUnreadable, Rejects,
       FlushesLeftover, LeftoverFails, WriteFails, IOFails, Unreadable
  <2> QED
    BY <2>1, <2>2 DEF Remembered
<1>5. ZipCallStep => Remembered
  <2>1. ZipCallStep =>
          (faults' = faults \/ faults' = faults + 1)
    BY Zenon DEF ZipCallStep, ZipFlush, ZipLeftoverFails, ZipFrame, ZipNoFrame, KwajReturn,
       KwajUnreadable, KwajNoHeader, ZipStoredBlock, ZipHuffmanBlock, ZipStoredRun, ZipLiteral,
       ZipMatch, ZipCopy, ZipEndBlock, ZipTooMuch, ZipDamage, ZipUnreadable, ZipWrite,
       ZipWriteFails, FlushesLeftover, LeftoverFails, WriteFails, IOFails, Unreadable
  <2>2. ZipCallStep => (intact' => intact)
    BY Zenon DEF ZipCallStep, ZipFlush, ZipLeftoverFails, ZipFrame, ZipNoFrame, KwajReturn,
       KwajUnreadable, KwajNoHeader, ZipStoredBlock, ZipHuffmanBlock, ZipStoredRun, ZipLiteral,
       ZipMatch, ZipCopy, ZipEndBlock, ZipTooMuch, ZipDamage, ZipUnreadable, ZipWrite,
       ZipWriteFails, FlushesLeftover, LeftoverFails, WriteFails, IOFails, Unreadable
  <2> QED
    BY <2>1, <2>2 DEF Remembered
<1>6. RingCallStep => Remembered
  <2>1. RingCallStep =>
          (faults' = faults \/ faults' = faults + 1)
    BY Zenon DEF RingCallStep, RingLiteral, RingMatch, RingCopy, RingEnd, RingUnreadable,
       RingBadTrees, RingWriteFails, WriteFails, IOFails
  <2>2. RingCallStep => (intact' => intact)
    BY Zenon DEF RingCallStep, RingLiteral, RingMatch, RingCopy, RingEnd, RingUnreadable,
       RingBadTrees, RingWriteFails, WriteFails, IOFails
  <2> QED
    BY <2>1, <2>2 DEF Remembered
<1>7. Remembered => faults' \in Nat /\ (Fine' => Fine)
  BY DEF Remembered, Fine
<1> QED
  BY <1>1, <1>2, <1>3, <1>4, <1>5, <1>6, <1>7 DEF Next, CallStep

\* A failure is not forgotten at once.
LEMMA NotFailed ==
  ASSUME faults \in Nat, IOFails
  PROVE  ~Fine'
BY DEF IOFails, Fine

-----------------------------------------------------------------------------
(* LZSS and LZH.                                                            *)

\* What LZH looks ahead at.
LEMMA TailOf ==
  ASSUME stream \in Streams
  PROVE  LzhTail \in Nat
BY LzWindowAssumption DEF LzWindowAssumption, LzhTail

LEMMA RingIntactStep ==
  ASSUME stream \in Streams, IsRing, faults \in Nat, RingKept, RingOrder, RingIntact, OutKept,
         RingCall \/ RingCallStep, Fine' => Fine
  PROVE  RingIntact'
<1> DEFINE Ended == pc' = "idle" /\ due' = ALL =>
                      Len(out') \in stream'.total - LzhTail' .. stream'.total
<1> SUFFICES ASSUME Fine' PROVE error' = "OK" /\ made' <= stream'.total /\ Ended
  BY DEF RingIntact
<1>1. error = "OK" /\ Fine /\ made <= stream.total
  BY DEF RingIntact
<1>2. stream' = stream /\ LzhTail' = LzhTail
  BY DEF RingCall, RingCallStep, RingLiteral, RingMatch, RingCopy, RingEnd, RingUnreadable,
     RingBadTrees, RingWriteFails, WriteFails, Returns, RingPuts, LzhTail
<1>3. /\ made \in Int /\ stream.total \in Nat /\ LzhTail \in Nat /\ Len(out) \in Nat
      /\ Lengths \subseteq Nat
  BY StreamFacts, TailOf, LzWindowAssumption DEF RingOrder, MemoryKept, LzWindowAssumption
<1>4. CASE RingCall
  BY <1>1, <1>2, <1>4 DEF RingCall, dec
<1>5. CASE RingLiteral
  BY <1>1, <1>2, <1>3, <1>5 DEF RingLiteral, RingAt
<1>6. CASE RingMatch
  BY <1>1, <1>2, <1>6 DEF RingMatch, dec
<1>7. CASE RingCopy
  BY <1>1, <1>2, <1>7 DEF RingCopy, RingAt
<1>8. CASE RingEnd
  <2>1. Put = Len(out) /\ pc = "tokens"
    BY <1>8 DEF RingEnd, RingOrder, RingAt
  <2>2. made >= stream.total - LzhTail
    BY <1>8 DEF RingEnd, Fine
  <2>3. Put = made
    BY <2>1 DEF Put
  <2>4. UNCHANGED <<out, made>> /\ error' = "OK"
    BY <1>8 DEF RingEnd, Returns
  <2>5. Len(out) \in stream.total - LzhTail .. stream.total
    BY <1>1, <1>3, <2>1, <2>2, <2>3
  <2>6. Ended
    BY <1>2, <2>4, <2>5
  <2> QED
    BY <1>1, <1>2, <2>4, <2>6
<1>9. CASE RingUnreadable \/ RingWriteFails
  BY <1>9, NotFailed DEF RingUnreadable, RingWriteFails, WriteFails
<1>10. CASE RingBadTrees
  BY <1>10 DEF RingBadTrees, Fine
<1> QED
  BY <1>4, <1>5, <1>6, <1>7, <1>8, <1>9, <1>10 DEF RingCallStep

-----------------------------------------------------------------------------
(* LZX.                                                                     *)

\* A frame of s units from f on, of which n are to come, when m were made.
LEMMA FrameSum ==
  ASSUME NEW m \in Int, NEW p \in Int, NEW f \in Int, NEW s \in Int, NEW n \in Int,
         NEW sent \in Int, NEW t \in Int, p + n = f + s, sent = m - (p - f), sent + s <= t
  PROVE  m + n <= t
OBVIOUS

\* So are those of a run of it, and the rest.
LEMMA RunsSum ==
  ASSUME NEW p \in Int, NEW this \in Int, NEW todo \in Nat, NEW f \in Int, NEW s \in Int,
         NEW e \in Int, NEW len \in Int, p + this + todo = f + s, len <= this, f + s <= e
  PROVE  ~(p + len > e)
OBVIOUS

\* What is known of a frame of a stream as it should be.
LEMMA LzxIntactFacts ==
  ASSUME stream \in Streams, stream.kind = "lzx", LzxKept, LzxOrder, LzxIntact, Fine
  PROVE  /\ error = "OK" /\ LzxPlaced
         /\ Decoding => LzxRuns /\ l.size \in Nat /\ posn \in Nat /\ z.fposn \in Nat
         /\ Decoding => Decoded = Len(out) /\ Len(out) + l.size <= stream.total
         /\ stream.total \in Nat /\ made \in Nat /\ Len(out) \in Nat /\ due \in Nat
         /\ due <= stream.total /\ want \in Nat /\ due = Len(out) + want
         /\ pc \in {"tokens", "stored"} => made + l.this + l.todo <= stream.total
         /\ pc = "block" => made + l.todo <= stream.total
<1>1. error = "OK" /\ LzxPlaced
  BY DEF LzxIntact, LzxOrder
<1>2. /\ made \in Nat /\ Len(out) \in Nat /\ posn \in Nat /\ z.fposn \in Nat
      /\ optr \in Nat /\ oend \in Nat /\ stream.total \in Nat
  BY LzxPut, StreamFacts
<1>3. Decoding => LzxRuns /\ l.size \in Nat
  BY DEF LzxKept
<1>4. due \in Nat /\ due <= stream.total /\ want \in Nat /\ due = Len(out) + want
  BY DEF LzxKept, LzxMemory
<1>5. Decoding => Decoded = Len(out) /\ Len(out) + l.size <= stream.total
  BY <1>2 DEF LzxIntact, Decoded
<1>6. pc \in {"tokens", "stored"} => made + l.this + l.todo <= stream.total
  <2> SUFFICES ASSUME pc \in {"tokens", "stored"}
               PROVE  made + l.this + l.todo <= stream.total
    OBVIOUS
  <2>1. /\ posn + l.this + l.todo = z.fposn + l.size /\ l.this \in Int /\ l.todo \in Int
        /\ l.size \in Nat
    BY <1>3 DEF Decoding, LzxRuns
  <2>2. Put = made /\ Len(out) = Put - (posn - z.fposn) /\ Len(out) + l.size <= stream.total
    BY <1>1, <1>5, LzxPut DEF Decoding, LzxPlaced
  <2>3. /\ posn + (l.this + l.todo) = z.fposn + l.size /\ l.this + l.todo \in Int
        /\ Len(out) = made - (posn - z.fposn)
    BY <1>2, <2>1, <2>2
  <2> DEFINE n == l.this + l.todo
  <2>4. n \in Int /\ posn + n = z.fposn + l.size
    BY <2>3
  <2>5. made + n <= stream.total
    <3> HIDE DEF n
    <3> QED
      BY <1>2, <2>1, <2>2, <2>3, <2>4, FrameSum, SMTT(40)
  <2> QED
    BY <1>2, <2>1, <2>5
<1>7. pc = "block" => made + l.todo <= stream.total
  <2> SUFFICES ASSUME pc = "block" PROVE made + l.todo <= stream.total
    OBVIOUS
  <2>1. posn + l.todo = z.fposn + l.size /\ l.todo \in Int /\ l.size \in Nat
    BY <1>3 DEF Decoding, LzxRuns, LzxIntact
  <2>2. Put = made /\ Len(out) = Put - (posn - z.fposn) /\ Len(out) + l.size <= stream.total
    BY <1>1, <1>5, LzxPut DEF Decoding, LzxPlaced
  <2> QED
    BY <1>2, <2>1, <2>2, FrameSum, SMTT(40)
<1> QED
  BY <1>1, <1>2, <1>3, <1>4, <1>5, <1>6, <1>7

\* There is something to be read, wherever LZX reads.
LEMMA LzxReads ==
  ASSUME stream \in Streams, stream.kind = "lzx", LzxKept, LzxOrder, LzxIntact, Fine,
         faults \in Nat, LzxUnreadable
  PROVE  ~Fine'
<1>1. /\ stream.total \in Nat /\ made \in Nat /\ (Decoding => LzxRuns)
      /\ pc \in {"tokens", "stored"} => made + l.this + l.todo <= stream.total
      /\ pc = "block" => made + l.todo <= stream.total
  BY LzxIntactFacts
<1>2. made < stream.total
  <2>1. CASE At("lzx", "block") /\ l.todo > 0
    <3>1. pc = "block" /\ l.todo \in Int /\ l.todo > 0
      BY <1>1, <2>1 DEF At, Decoding, LzxRuns
    <3> QED
      BY <1>1, <3>1
  <2>2. CASE (At("lzx", "tokens") /\ l.this > 0) \/ At("lzx", "stored")
    <3>1. pc \in {"tokens", "stored"} /\ l.this \in Int /\ l.todo \in Nat /\ l.this > 0
      BY <1>1, <2>2 DEF At, Decoding, LzxRuns, LzxIntact
    <3> QED
      BY <1>1, <3>1
  <2> QED
    BY <2>1, <2>2 DEF LzxUnreadable
<1>3. IOFails
  BY <1>1, <1>2 DEF LzxUnreadable, Unreadable
<1> QED
  BY <1>3, NotFailed

\* A match as it should be is let in: in the first lap it begins in the stream
\* or in the reference data, and later the whole window is what was written.
LEMMA LzxLetsIn ==
  ASSUME stream \in Streams, stream.kind = "lzx", LzxKept, LzxOrder, LzxIntact, Fine,
         pc = "tokens", NEW len \in Nat, NEW off \in Int, LzxIntactMatch(len, off)
  PROVE  ~LzxRejectsMatch(len, off)
<1>1. /\ LzxRuns /\ Decoded = Len(out) /\ LzxPlaced /\ l.size \in Nat
      /\ posn \in Nat /\ z.fposn \in Nat /\ made \in Nat /\ Len(out) \in Nat
  BY LzxIntactFacts DEF Decoding
<1>2. /\ posn + l.this + l.todo = z.fposn + l.size /\ l.this \in Int /\ l.todo \in Nat
      /\ len <= l.this /\ off \in 1 .. Size
  BY <1>1 DEF LzxRuns, LzxIntactMatch, LzxStray
<1>3. z.fposn + l.size <= Size /\ Size \in Nat
  BY LzxRoom, LzxPut DEF Decoding
<1>4. ~(posn + len > Size)
  BY <1>1, <1>2, <1>3, RunsSum
<1>5. stream.opt.ref \in Nat
  BY LzWindowAssumption DEF LzWindowAssumption
<1>6. Len(out) = made - (posn - z.fposn) /\ off <= made + stream.opt.ref
  BY <1>1, LzxPut DEF LzxPlaced, LzxIntactMatch
<1>7. z.fposn = Len(out) \/ Len(out) >= Size
  BY <1>1 DEF LzxIntact
<1>8. ~(off > posn /\ off > Len(out) /\ off - posn > stream.opt.ref)
  <2>1. CASE Len(out) >= Size
    BY <1>1, <1>2, <1>3, <2>1
  <2>2. CASE z.fposn = Len(out)
    <3>1. made = posn
      BY <1>1, <1>6, <2>2
    <3> QED
      BY <1>1, <1>5, <1>6, <3>1
  <2> QED
    BY <1>7, <2>1, <2>2
<1>9. ~(off - posn > Size)
  BY <1>1, <1>2, <1>3
<1> QED
  BY <1>4, <1>8, <1>9 DEF LzxRejectsMatch

\* What makes LZX give up does not happen.
LEMMA LzxGoesOn ==
  ASSUME stream \in Streams, stream.kind = "lzx", LzxKept, LzxOrder, LzxIntact, Fine,
         faults \in Nat,
         \/ LzxLeftoverFails \/ LzxFrameFails \/ LzxBadBlock \/ LzxBadMatch \/ LzxUnreadable
         \/ LzxOverrun \/ LzxBadFrame
  PROVE  ~Fine'
<1>1. CASE LzxLeftoverFails \/ LzxFrameFails
  BY <1>1, NotFailed DEF LzxLeftoverFails, LeftoverFails, LzxFrameFails, WriteFails
<1>2. CASE LzxBadBlock
  BY <1>2 DEF LzxBadBlock, Fine
<1>3. CASE LzxBadMatch
  <2>1. pc = "tokens" /\ Lengths \subseteq Nat /\ Size \in Nat
    BY <1>3, LzWindowAssumption, StreamFacts DEF LzxBadMatch, At, LzWindowAssumption
  <2>2. PICK len \in Lengths, off \in LzxOffsets :
          LzxRejectsMatch(len, off) /\ intact' = (intact /\ LzxIntactMatch(len, off))
    BY <1>3 DEF LzxBadMatch
  <2>3. len \in Nat /\ off \in Int
    BY <2>1, <2>2 DEF LzxOffsets
  <2>4. ~LzxIntactMatch(len, off)
    BY <2>1, <2>2, <2>3, LzxLetsIn
  <2> QED
    BY <2>2, <2>4 DEF Fine
<1>4. CASE LzxUnreadable
  BY <1>4, LzxReads
<1>5. CASE LzxOverrun
  <2>1. pc = "tokens" /\ l.this <= 0 /\ -l.this > z.brem
    BY <1>5 DEF LzxOverrun, At
  <2>2. l.this \in Int /\ z.brem \in Nat /\ l.this >= 0
    BY <2>1 DEF LzxIntact, LzxKept, Busy
  <2> QED
    BY <2>1, <2>2
<1>6. CASE LzxBadFrame
  <2>1. pc = "block" /\ l.todo <= 0 /\ (posn - z.fposn # l.size \/ optr # oend)
    BY <1>6 DEF LzxBadFrame, LzxFrameFull, At
  <2>2. /\ LzxRuns /\ l.size \in Nat /\ posn \in Nat /\ z.fposn \in Nat
    BY <2>1, LzxIntactFacts DEF Decoding
  <2>3. l.todo \in Nat /\ optr = oend /\ posn + l.todo = z.fposn + l.size
    BY <2>1, <2>2 DEF LzxIntact, LzxRuns, Decoding
  <2> QED
    BY <2>1, <2>2, <2>3
<1> QED
  BY <1>1, <1>2, <1>3, <1>4, <1>5, <1>6

\* The k-th frame begins at d at the latest: so many are before d.
LEMMA AtLeast ==
  ASSUME NEW F \in Nat \ {0}, NEW k \in Nat, NEW d \in Nat, k * F <= d
  PROVE  d \div F >= k
<1>1. d \div F \in Nat /\ d < (d \div F) * F + F
  OBVIOUS
<1> SUFFICES ASSUME d \div F < k PROVE FALSE
  BY <1>1
<1>2. (k - d \div F - 1) * F \in Nat
  BY <1>1
<1>3. (k - d \div F - 1) * F = k * F - (d \div F) * F - F
  BY <1>1
<1> QED
  BY <1>1, <1>2, <1>3

\* A call ends when it has written what it was asked for.
LEMMA LzxHasWritten ==
  ASSUME stream \in Streams, stream.kind = "lzx", LzxKept, LzxOrder, LzxIntact, Fine, LzxReturn
  PROVE  error' = "OK"
<1>1. pc = "frame" /\ z.frame >= l.last /\ error' = IF want > 0 THEN "DECRUNCH" ELSE "OK"
  BY DEF LzxReturn, At, Returns
<1>2. /\ stream.total \in Nat /\ Len(out) \in Nat /\ due \in Nat
      /\ due <= stream.total /\ want \in Nat /\ due = Len(out) + want
  BY LzxIntactFacts
<1>3. SUFFICES ASSUME want > 0 PROVE FALSE
  BY <1>1, <1>2
<1>4. Decoded = Len(out)
  <2>1. optr = oend /\ optr \in Nat
    BY <1>1, <1>2, <1>3, LzxPut DEF LzxIntact
  <2> QED
    BY <1>2, <2>1 DEF Decoded
<1>5. WholeFrames \/ AllThere
  BY <1>1 DEF LzxKept
<1>6. FRAME \in Nat \ {0} /\ z.frame \in Nat /\ l.last = due \div FRAME + 1
  BY <1>1, StreamFacts DEF LzxKept, LastFrame, Busy
<1>7. CASE AllThere
  BY <1>2, <1>3, <1>4, <1>7 DEF AllThere
<1>8. CASE WholeFrames
  <2>1. Len(out) = z.frame * FRAME
    BY <1>4, <1>8 DEF WholeFrames
  <2>2. z.frame >= due \div FRAME + 1
    BY <1>1, <1>6
  <2>3. z.frame * FRAME > due
    <3> SUFFICES ASSUME z.frame * FRAME <= due PROVE FALSE
      BY <1>2, <1>6, <2>1
    <3>1. due \div FRAME >= z.frame
      BY <1>2, <1>6, AtLeast
    <3> QED
      BY <1>2, <1>6, <2>2, <3>1
  <2> QED
    BY <1>2, <2>1, <2>3
<1> QED
  BY <1>5, <1>7, <1>8

\* Steps within a frame.
LEMMA LzxWithinIntact ==
  ASSUME LzxIntact, Fine, stream.kind = "lzx", Decoding, Decoding',
         UNCHANGED <<stream, optr, oend, error, out>>, z'.fposn = z.fposn, l'.size = l.size,
         pc' = "block" => posn' + l'.todo = z'.fposn + l'.size,
         pc' \in {"tokens", "copy"} => l'.this >= 0,
         pc' = "stored" => l'.this >= 1
  PROVE  LzxIntact'
<1>1. Decoded' = Decoded /\ Size' = Size
  BY DEF Decoded, Size
<1>2. /\ error = "OK" /\ (z.fposn = Decoded \/ Decoded >= Size)
      /\ optr = oend /\ Len(out) + l.size <= stream.total
  BY DEF LzxIntact
<1>3. pc' # "frame"
  BY DEF Decoding
<1> QED
  BY <1>1, <1>2, <1>3 DEF LzxIntact

\* The runs of a frame fill it.
LEMMA LzxFrameIntact ==
  ASSUME stream \in Streams, stream.kind = "lzx", LzxKept, LzxKept', LzxOrder, LzxIntact, Fine,
         Fine',
         \/ LzxNewBlock \/ LzxRun \/ LzxLiteral \/ LzxMatch \/ LzxCopy \/ LzxStoredRun
         \/ LzxRunDone
  PROVE  LzxIntact'
<1>1. Decoding /\ Decoding' /\ Busy /\ stream' = stream
  BY DEF Decoding, LzxNewBlock, LzxRun, LzxLiteral, LzxMatch, LzxCopy, LzxStoredRun, LzxRunDone,
     At, call, Busy
<1>2. /\ LzxRuns /\ LzxRuns' /\ LzxFields \subseteq DOMAIN z /\ LzxLocals \subseteq DOMAIN l
      /\ posn \in Nat /\ z.fposn \in Nat /\ l.size \in Nat
  BY <1>1, LzxIntactFacts DEF LzxKept
<1>3. l.this \in Int /\ l.todo \in Nat /\ z.brem \in Nat /\ l.left \in Int
  BY <1>2 DEF LzxRuns
<1>4. CASE LzxNewBlock
  <2>1. PICK b \in 1 .. stream.total - made, stored \in BOOLEAN, e8seen \in BOOLEAN :
          z' = [z EXCEPT !.brem = b, !.stored = stored, !.raw = @ \/ stored,
                         !.started = @ \/ e8seen \/ (stored /\ stream.opt.e8)]
    BY <1>4 DEF LzxNewBlock
  <2> DEFINE started == z.started \/ e8seen \/ (stored /\ stream.opt.e8)
           raw == z.raw \/ stored
  <2>2. z' = [z EXCEPT !.brem = b, !.stored = stored, !.raw = raw, !.started = started]
    BY <2>1
  <2> HIDE DEF started, raw
  <2>3. z'.fposn = z.fposn
    BY <1>2, <2>2 DEF LzxFields
  <2>4. UNCHANGED <<stream, optr, oend, error, out, l, posn, pc>> /\ pc = "block"
    BY <1>4 DEF LzxNewBlock, call, At
  <2>5. posn + l.todo = z.fposn + l.size
    BY <2>4 DEF LzxIntact
  <2> QED
    BY <1>1, <2>3, <2>4, <2>5, LzxWithinIntact
<1>5. CASE LzxRun
  <2> DEFINE n == Least(z.brem, l.todo)
  <2>1. /\ UNCHANGED <<stream, optr, oend, error, out>> /\ l.todo > 0 /\ z.brem > 0
        /\ l' = [l EXCEPT !.this = n, !.todo = l.todo - n]
        /\ z' = [z EXCEPT !.brem = z.brem - n] /\ pc' \in {"stored", "tokens"}
    BY <1>5 DEF LzxRun
  <2>2. n >= 1
    BY <1>3, <2>1 DEF Least
  <2> HIDE DEF n
  <2>3. z'.fposn = z.fposn /\ l'.size = l.size /\ l'.this = n
    BY <1>2, <2>1 DEF LzxFields, LzxLocals
  <2>4. n \in Int
    BY <1>2, <2>3 DEF LzxRuns
  <2>5. pc' # "block" /\ l'.this >= 0 /\ l'.this >= 1
    BY <2>1, <2>2, <2>3, <2>4
  <2> QED
    BY <1>1, <2>1, <2>3, <2>5, LzxWithinIntact
<1>6. CASE LzxLiteral
  <2>1. /\ UNCHANGED <<stream, optr, oend, error, out, z>> /\ l.this > 0
        /\ l' = [l EXCEPT !.this = l.this - 1] /\ pc' = "tokens"
    BY <1>6 DEF LzxLiteral, At
  <2>2. l'.size = l.size /\ l'.this = l.this - 1
    BY <1>2, <2>1 DEF LzxLocals
  <2>3. l'.this >= 0
    BY <1>3, <2>1, <2>2
  <2> QED
    BY <1>1, <2>1, <2>2, <2>3, LzxWithinIntact
<1>7. CASE LzxMatch
  <2> DEFINE src(off) == IF off > posn THEN Size - (off - posn) ELSE posn - off
  <2>1. PICK len \in Lengths, off \in LzxOffsets :
          /\ intact' = (intact /\ LzxIntactMatch(len, off))
          /\ l' = [l EXCEPT !.left = len, !.off = off, !.this = l.this - len, !.src = src(off)]
          /\ z' = [z EXCEPT !.stray = @ \/ LzxStray(off)]
    BY <1>7 DEF LzxMatch
  <2> HIDE DEF src
  <2>2. LzxIntactMatch(len, off)
    BY <2>1 DEF Fine
  <2>3. len \in Int
    BY LzWindowAssumption DEF LzWindowAssumption
  <2>4. l'.size = l.size /\ l'.this = l.this - len
    BY <1>2, <2>1 DEF LzxLocals
  <2>5. l'.this >= 0
    BY <1>3, <2>2, <2>3, <2>4 DEF LzxIntactMatch
  <2>6. UNCHANGED <<stream, optr, oend, error, out>> /\ pc' = "copy" /\ z'.fposn = z.fposn
    BY <1>2, <1>7, <2>1 DEF LzxMatch, LzxFields
  <2> QED
    BY <1>1, <2>4, <2>5, <2>6, LzxWithinIntact
<1>8. CASE LzxCopy
  <2> DEFINE src == IF l.src + 1 = Size THEN 0 ELSE l.src + 1
  <2>1. /\ UNCHANGED <<stream, optr, oend, error, out, z>> /\ pc = "copy"
        /\ l' = [l EXCEPT !.src = src, !.left = l.left - 1] /\ pc' \in {"tokens", "copy"}
    BY <1>8 DEF LzxCopy, At
  <2> HIDE DEF src
  <2>2. l'.size = l.size /\ l'.this = l.this
    BY <1>2, <2>1 DEF LzxLocals
  <2>3. l'.this >= 0 /\ pc' # "block" /\ pc' # "stored"
    BY <2>1, <2>2 DEF LzxIntact
  <2> QED
    BY <1>1, <2>1, <2>2, <2>3, LzxWithinIntact
<1>9. CASE LzxStoredRun
  <2>1. /\ UNCHANGED <<stream, optr, oend, error, out, z>>
        /\ l' = [l EXCEPT !.this = 0] /\ pc' = "tokens"
    BY <1>9 DEF LzxStoredRun
  <2>2. l'.size = l.size /\ l'.this = 0
    BY <1>2, <2>1 DEF LzxLocals
  <2> QED
    BY <1>1, <2>1, <2>2, LzxWithinIntact
<1>10. CASE LzxRunDone
  <2>1. /\ UNCHANGED <<stream, optr, oend, error, out, l, posn>> /\ pc = "tokens" /\ pc' = "block"
        /\ l.this <= 0 /\ z' = [z EXCEPT !.brem = z.brem + l.this]
    BY <1>10 DEF LzxRunDone, At
  <2>2. z'.fposn = z.fposn
    BY <1>2, <2>1 DEF LzxFields
  <2>3. l.this >= 0 /\ posn + l.this + l.todo = z.fposn + l.size
    BY <1>2, <2>1 DEF LzxIntact, LzxRuns
  <2>4. posn + l.todo = z.fposn + l.size
    <3>1. l.this = 0
      BY <1>3, <2>1, <2>3
    <3> QED
      BY <1>2, <1>3, <2>3, <3>1
  <2> QED
    BY <1>1, <2>1, <2>2, <2>4, LzxWithinIntact
<1> QED
  BY <1>4, <1>5, <1>6, <1>7, <1>8, <1>9, <1>10

LEMMA AtMost ==
  ASSUME NEW F \in Nat \ {0}, NEW k \in Nat, NEW d \in Nat, k <= d \div F
  PROVE  k * F <= d
<1>1. d \div F \in Nat /\ (d \div F) * F <= d
  OBVIOUS
<1>2. (d \div F - k) * F \in Nat
  BY <1>1
<1>3. (d \div F - k) * F = (d \div F) * F - k * F
  BY <1>1
<1> QED
  BY <1>1, <1>2, <1>3

\* A frame begins, with as much of the stream as there is.
LEMMA LzxFrameStartIntact ==
  ASSUME stream \in Streams, stream.kind = "lzx", LzxKept, LzxKept', LzxOrder, LzxIntact, Fine,
         Fine', LzxFrame
  PROVE  LzxIntact'
<1>1. /\ pc = "frame" /\ pc' = "block" /\ z.frame < l.last
      /\ UNCHANGED <<stream, window, posn, optr, oend, error, made, out>>
      /\ z' = [z EXCEPT !.brem = 0, !.stored = FALSE, !.raw = FALSE] \/ z' = z
  BY DEF LzxFrame, At
<1> DEFINE size == IF z.length = 0 THEN FRAME ELSE Least(FRAME, z.length - Len(out))
<1>2. /\ l' = [l EXCEPT !.size = size, !.todo = z.fposn + size - posn]
      /\ z.length = 0 => stream.total - made >= FRAME
  BY DEF LzxFrame, Fine
<1>3. /\ LzxFields \subseteq DOMAIN z /\ LzxLocals \subseteq DOMAIN l
      /\ posn = z.fposn /\ posn \in Nat /\ z.length \in {0, stream.total}
      /\ Len(out) \in Nat /\ made \in Nat /\ stream.total \in Nat /\ FRAME \in Nat \ {0}
      /\ error = "OK" /\ LzxPlaced /\ Put = made /\ optr \in Nat /\ oend \in Nat
  BY <1>1, LzxIntactFacts, LzxPut, StreamFacts DEF LzxKept, Busy
<1>4. z'.fposn = z.fposn
  BY <1>1, <1>3 DEF LzxFields
<1>5. optr = oend
  <2> SUFFICES ASSUME want = 0 PROVE optr = oend
    BY <1>1 DEF LzxIntact
  <2>6. /\ l.last = due \div FRAME + 1 /\ due \in Nat /\ due = Len(out) + want
        /\ z.frame \in Nat /\ (WholeFrames \/ z.frame >= l.last)
    BY <1>1 DEF LzxKept, LzxMemory, LastFrame, Busy
  <2>1. /\ WholeFrames /\ l.last = due \div FRAME + 1 /\ due \in Nat /\ due = Len(out) + want
        /\ z.frame \in Nat
    <3>1. ~(z.frame >= l.last)
      BY <1>1, <1>3, <2>6
    <3> QED
      BY <2>6, <3>1
  <2>2. z.frame <= due \div FRAME
    BY <1>1, <1>3, <2>1
  <2>3. z.frame * FRAME <= due
    BY <1>3, <2>1, <2>2, AtMost
  <2>4. Decoded <= Len(out)
    BY <1>3, <2>1, <2>3 DEF WholeFrames
  <2>5. optr <= oend
    BY LzxPut
  <2> QED
    BY <1>3, <2>4, <2>5 DEF Decoded
<1>6. made = Len(out)
  <2>1. Decoded = Put - (posn - z.fposn)
    BY <1>3 DEF LzxPlaced
  <2>2. Decoded = Len(out)
    BY <1>3, <1>5 DEF Decoded
  <2> QED
    BY <1>3, <2>1, <2>2
<1>7. size \in Int /\ Len(out) + size <= stream.total
  BY <1>2, <1>3, <1>6 DEF Least
<1>8. Decoded' = Decoded /\ Size' = Size
  BY <1>1 DEF Decoded, Size
<1> HIDE DEF size
<1>9. l'.size = size /\ l'.todo = z.fposn + size - posn
  BY <1>2, <1>3 DEF LzxLocals
<1>10. posn' + l'.todo = z'.fposn + l'.size
  <2>1. posn + (z.fposn + size - posn) = z.fposn + size
    BY <1>3, <1>7
  <2> QED
    BY <1>1, <1>4, <1>9, <2>1
<1> QED
  BY <1>1, <1>3, <1>4, <1>5, <1>7, <1>8, <1>9, <1>10 DEF LzxIntact, Decoding

\* A frame ends: the first lap ends where the window does.
LEMMA LzxFrameDoneIntact ==
  ASSUME stream \in Streams, stream.kind = "lzx", LzxKept, LzxKept', LzxOrder, LzxOrder',
         LzxIntact, Fine, LzxFrameDone
  PROVE  LzxIntact'
<1> DEFINE n == Least(want, l.size)
           in8 == z.started /\ stream.opt.e8 /\ l.size > E8MIN
           base == IF in8 THEN 0 ELSE z.fposn
           unit(k) == IF in8 /\ window[z.fposn + k] # z.curpos + k THEN JUNK
                      ELSE window[z.fposn + k]
           e8buf == IF in8 THEN [k \in 0 .. l.size - 1 |-> unit(k)] ELSE <<>>
           curpos == IF stream.opt.e8 THEN z.curpos + l.size ELSE z.curpos
<1>1. /\ pc = "block" /\ pc' = "frame" /\ posn - z.fposn = l.size
      /\ posn' = Wrapped(posn) /\ UNCHANGED <<stream, error, made>>
      /\ want' = want - n /\ optr' = base + n /\ oend' = base + l.size
      /\ z' = [z EXCEPT !.frame = z.frame + 1, !.fposn = Wrapped(z.fposn + l.size), !.in8 = in8,
                        !.e8buf = e8buf, !.curpos = curpos]
  BY DEF LzxFrameDone, LzxFrameFull, At
<1>2. base \in Nat /\ (n = l.size \/ n = want)
  <2>1. z.fposn \in Nat
    BY LzxPut
  <2> QED
    BY <2>1 DEF Least
<1> HIDE DEF n, in8, base, unit, e8buf, curpos
<1>3. /\ LzxFields \subseteq DOMAIN z /\ error = "OK" /\ LzxPlaced /\ l.size \in Nat
      /\ want \in Nat /\ posn \in Nat /\ z.fposn \in Nat /\ Put = made /\ made \in Nat
      /\ Decoded \in Int /\ Size \in Nat \ {0}
  BY <1>1, LzxIntactFacts, LzxPut DEF Decoding
<1>4. z'.fposn = Wrapped(z.fposn + l.size)
  BY <1>1, <1>3 DEF LzxFields
<1>5. Size' = Size
  BY <1>1 DEF Size
<1>6. LzxPlaced' /\ Put' = made
  BY <1>1, <1>3 DEF LzxOrder, Put
<1>7. posn = z.fposn + l.size /\ posn' = z'.fposn
  <2>1. posn = z.fposn + l.size
    BY <1>1, <1>3
  <2> QED
    BY <1>1, <1>4, <2>1
<1>8. Decoded' = made
  <2>1. Decoded' = Put' - (posn' - z'.fposn)
    BY <1>6 DEF LzxPlaced
  <2>2. posn' \in Int /\ z'.fposn \in Int
    BY <1>3, <1>4, <1>7 DEF Wrapped
  <2> QED
    BY <1>3, <1>6, <1>7, <2>1, <2>2
<1>9. Decoded = made - (posn - z.fposn)
  BY <1>3 DEF LzxPlaced
<1>10. z'.fposn = Decoded' \/ Decoded' >= Size'
  <2>1. CASE Decoded >= Size
    BY <1>3, <1>5, <1>7, <1>8, <1>9, <2>1
  <2>2. CASE z.fposn = Decoded
    <3>1. made = z.fposn + l.size
      BY <1>3, <1>7, <1>9, <2>2
    <3> QED
      BY <1>3, <1>4, <1>5, <1>8, <3>1 DEF Wrapped
  <2> QED
    BY <2>1, <2>2 DEF LzxIntact
<1>11. optr' = oend' \/ want' = 0
  BY <1>1, <1>2, <1>3
<1> QED
  BY <1>1, <1>3, <1>10, <1>11 DEF LzxIntact, Decoding

\* What was left is written, a call begins or ends.
LEMMA LzxEdgesIntact ==
  ASSUME stream \in Streams, stream.kind = "lzx", LzxKept, LzxKept', LzxOrder, LzxOrder',
         LzxIntact, Fine,
         LzxEnter \/ LzxSetOutputLength \/ LzxFlush \/ LzxReturn
  PROVE  LzxIntact'
<1>1. error = "OK" /\ LzxFields \subseteq DOMAIN z /\ (z.fposn = Decoded \/ Decoded >= Size)
  BY LzxPut DEF LzxIntact
<1>2. CASE LzxEnter
  <2>1. UNCHANGED <<stream, optr, oend, error, z, out>> /\ pc' = "leftover"
    BY <1>2 DEF LzxEnter, Enters, dec
  <2> QED
    BY <1>1, <2>1 DEF LzxIntact, Decoding, Decoded, Size
<1>3. CASE LzxSetOutputLength
  <2>1. /\ UNCHANGED <<stream, posn, optr, oend, error, pc, want, l, out>> /\ Fine
        /\ z' = [z EXCEPT !.length = stream.total]
    BY <1>3 DEF LzxSetOutputLength, call
  <2>2. z'.fposn = z.fposn
    BY <1>1, <2>1 DEF LzxFields
  <2> QED
    BY <2>1, <2>2 DEF LzxIntact, Decoding, Decoded, Size
<1>4. CASE LzxReturn
  <2>1. UNCHANGED <<stream, optr, oend, z, out>> /\ pc' = "idle"
    BY <1>4 DEF LzxReturn, Returns
  <2>2. error' = "OK"
    BY <1>4, LzxHasWritten
  <2> QED
    BY <1>1, <2>1, <2>2 DEF LzxIntact, Decoding, Decoded, Size
<1>5. CASE LzxFlush
  <2> DEFINE i == Least(oend - optr, want)
  <2>1. /\ UNCHANGED <<stream, posn, oend, error, z, made>> /\ pc = "leftover"
        /\ want' = want - i /\ optr' = optr + i /\ pc' \in {"idle", "frame"}
        /\ pc' = "frame" => i # want
    BY <1>5 DEF LzxFlush, FlushesLeftover, Writes, At
  <2>2. optr \in Nat /\ oend \in Nat /\ Put = made /\ made \in Nat /\ posn \in Nat /\ z.fposn \in Nat
    BY <2>1, LzxPut
  <2>3. pc' = "frame" => optr' = oend'
    BY <2>1, <2>2 DEF Least
  <2>4. Decoded' = Decoded /\ Size' = Size
    <3>1. Put' = made
      BY <2>1 DEF Put
    <3>2. LzxPlaced /\ LzxPlaced'
      BY <1>1, <2>1 DEF LzxOrder
    <3> QED
      BY <2>1, <2>2, <3>1, <3>2 DEF LzxPlaced, Size
  <2> QED
    BY <1>1, <2>1, <2>3, <2>4 DEF LzxIntact, Decoding
<1> QED
  BY <1>2, <1>3, <1>4, <1>5

LEMMA LzxIntactStep ==
  ASSUME stream \in Streams, stream.kind = "lzx", stream' = stream,
         LzxKept, LzxKept', LzxSound, LzxSound', LzxIntact, faults \in Nat, Fine' => Fine,
         LzxEnter \/ LzxSetOutputLength \/ LzxCallStep
  PROVE  LzxIntact'
<1> SUFFICES ASSUME Fine' PROVE LzxIntact'
  BY DEF LzxIntact
<1>1. LzxOrder /\ LzxOrder'
  BY DEF LzxSound, LzxClean, Fine
<1> QED
  BY <1>1, LzxFrameIntact, LzxFrameStartIntact, LzxFrameDoneIntact, LzxEdgesIntact, LzxGoesOn
  DEF LzxCallStep

-----------------------------------------------------------------------------
(* Quantum.                                                                 *)

\* What is known of a call for a stream as it should be.
LEMMA QtmIntactFacts ==
  ASSUME stream \in Streams, stream.kind = "quantum", QtmKept, QtmOrder, QtmIntact, OutKept,
         Fine, error = "OK"
  PROVE  /\ QtmPlaced /\ Put \in Int /\ Len(out) \in Nat /\ stream.total \in Nat /\ made \in Int
         /\ due \in Nat /\ due <= stream.total /\ due = Len(out) + want
         /\ posn \in Nat /\ optr \in Nat /\ oend \in Nat /\ posn <= Size /\ Size \in Nat \ {0}
         /\ want \in Nat /\ z.todo \in Int /\ {"todo", "header"} \subseteq DOMAIN z
         /\ Len(out) = Put - (posn - optr)
         /\ Busy => /\ {"end", "left", "rest", "off", "src"} \subseteq DOMAIN l
                    /\ l.end \in Int /\ l.left \in Int /\ l.rest \in Nat
<1>1. MemoryKept /\ QtmPlaced
  BY DEF QtmOrder, Fine
<1>2. Len(out) \in Nat /\ made \in Int
  BY <1>1, OutLength DEF MemoryKept
<1>3. /\ posn \in Nat /\ optr \in Nat /\ oend \in Nat /\ posn <= Size
      /\ want \in Nat /\ z.todo \in Int /\ {"todo", "header"} \subseteq DOMAIN z
      /\ Busy => /\ {"end", "left", "rest", "off", "src"} \subseteq DOMAIN l
                 /\ l.end \in Int /\ l.left \in Int /\ l.rest \in Nat
  BY DEF QtmKept
<1>4. Put \in Int
  BY <1>2, <1>3 DEF Put, Busy
<1>5. due \in Nat /\ due = Len(out) + want /\ due <= stream.total
  BY DEF OutKept, Once, QtmIntact
<1> QED
  BY <1>1, <1>2, <1>3, <1>4, <1>5, StreamFacts DEF QtmPlaced

\* At the head of the loop less is made than was asked for, so there is more.
LEMMA QtmHeadHas ==
  ASSUME stream \in Streams, stream.kind = "quantum", QtmKept, QtmOrder, QtmIntact, OutKept,
         Fine, error = "OK", pc = "head"
  PROVE  made = Len(out) + QtmHave /\ QtmHave \in Int /\ QtmHave = posn - optr
<1>1. oend = posn
  BY DEF QtmIntact
<1>2. Put = made /\ Len(out) = Put - (posn - optr) /\ posn \in Nat /\ optr \in Nat /\ made \in Int
  BY QtmIntactFacts DEF Put
<1> QED
  BY <1>1, <1>2 DEF QtmHave

\* What makes Quantum give up does not happen, but for the match over the
\* window's end that comes when less is wanted.
LEMMA QtmGoesOn ==
  ASSUME stream \in Streams, stream.kind = "quantum", QtmKept, QtmOrder, QtmIntact, OutKept,
         Fine, faults \in Nat, error = "OK",
         \/ QtmLeftoverFails \/ QtmWriteFails \/ QtmUnreadable \/ QtmTrailerUnreadable
         \/ QtmOvershot
  PROVE  ~Fine'
<1>1. CASE QtmLeftoverFails \/ QtmWriteFails \/ QtmTrailerUnreadable
  BY <1>1, NotFailed DEF QtmLeftoverFails, LeftoverFails, QtmWriteFails, QtmTrailerUnreadable,
     WriteFails
<1>2. CASE QtmOvershot
  <2>1. pc \in {"tokens", "stop"} /\ z.todo < 0
    BY <1>2 DEF QtmOvershot, QtmStops, At
  <2>2. z.todo >= 0 /\ z.todo \in Int
    BY <2>1, QtmIntactFacts DEF QtmIntact
  <2> QED
    BY <2>1, <2>2
<1>3. CASE QtmUnreadable
  <2>1. stream.total \in Nat /\ made \in Int
    BY QtmIntactFacts
  <2>2. made < stream.total
    <3>1. CASE At("quantum", "head") /\ QtmHave < want
      <4>1. pc = "head" /\ QtmHave < want
        BY <3>1 DEF At
      <4>2. made = Len(out) + QtmHave /\ QtmHave \in Int
        BY <4>1, QtmHeadHas
      <4>3. Len(out) \in Nat /\ want \in Nat /\ due <= stream.total /\ due = Len(out) + want
        BY QtmIntactFacts
      <4> QED
        BY <2>1, <4>1, <4>2, <4>3
    <3>2. CASE At("quantum", "tokens") /\ posn < l.end
      <4>1. pc = "tokens" /\ posn < l.end /\ l.end \in Int /\ posn \in Nat
        BY <3>2, QtmIntactFacts DEF At, Busy
      <4>2. Put = made /\ Put + (l.end - posn) <= stream.total
        BY <4>1 DEF Put, QtmIntact
      <4> QED
        BY <2>1, <4>1, <4>2
    <3> QED
      BY <1>3, <3>1, <3>2 DEF QtmUnreadable
  <2>3. IOFails
    BY <1>3, <2>1, <2>2 DEF QtmUnreadable, Unreadable
  <2> QED
    BY <2>3, NotFailed
<1> QED
  BY <1>1, <1>2, <1>3

\* Steps of a call that are not within the loop over tokens.
LEMMA QtmOutsideIntact ==
  ASSUME QtmIntact, Fine, stream.kind = "quantum", stream' = stream, error' = "OK",
         due' = due, oend' = posn' \/ pc' \in {"second_part", "stop"}, pc' \notin {"tokens", "copy"},
         pc' \in {"wrap_match", "second_part", "stop"} => z'.todo >= 0
  PROVE  QtmIntact'
<1>1. due <= stream.total
  BY DEF QtmIntact
<1> QED
  BY <1>1 DEF QtmIntact

\* m units made at place p, n at place q, when as many were written.
LEMMA StillToCome ==
  ASSUME NEW m \in Int, NEW n \in Int, NEW p \in Int, NEW q \in Int, NEW first \in Int,
         NEW sent \in Int, NEW end \in Int, NEW t \in Int,
         sent = m - (p - first), sent = n - (q - first), m + (end - p) <= t
  PROVE  n + (end - q) <= t
OBVIOUS

\* A literal, or one unit of a match: as many units are to come as before.
LEMMA QtmUnitIntact ==
  ASSUME stream \in Streams, stream.kind = "quantum", QtmKept, QtmOrder, QtmIntact, OutKept,
         Fine, error = "OK", QtmOrder', Fine', pc \in {"tokens", "copy"},
         UNCHANGED <<stream, error, due, out, optr>>, pc' \in {"tokens", "copy", "wrap_match"},
         posn' = posn + 1, l'.end = l.end, Put' \in Int, z'.todo >= 0,
         pc' = "tokens" => l'.end <= posn' + z'.todo,
         pc' = "copy" => l'.end <= posn' + l'.left + z'.todo
  PROVE  QtmIntact'
<1>1. Len(out) = Put - (posn - optr) /\ Len(out) = Put' - (posn' - optr)
  BY QtmIntactFacts DEF QtmOrder, Fine, QtmPlaced
<1>2. /\ Put \in Int /\ posn \in Nat /\ optr \in Nat /\ Len(out) \in Nat /\ l.end \in Int
      /\ stream.total \in Nat
  BY QtmIntactFacts DEF Busy
<1>3. posn' \in Int /\ Put' \in Int
  BY <1>2
<1>4. Put + (l.end - posn) <= stream.total /\ due <= stream.total
  BY DEF QtmIntact
<1> DEFINE new == Put'
           place == posn'
<1>5. new \in Int /\ place \in Int /\ Len(out) = new - (place - optr)
  BY <1>1, <1>3
<1> HIDE DEF new, place
<1>6. new + (l.end - place) <= stream.total
  BY <1>1, <1>2, <1>4, <1>5, StillToCome, SMTT(40)
<1>7. Put' + (l.end - posn') <= stream.total
  BY <1>6 DEF new, place
<1> QED
  BY <1>4, <1>7 DEF QtmIntact

LEMMA QtmTokenIntact ==
  ASSUME stream \in Streams, stream.kind = "quantum", QtmKept, QtmOrder, QtmIntact, OutKept,
         Fine, error = "OK", QtmKept', QtmOrder', OutKept', Fine',
         QtmHead \/ QtmLiteral \/ QtmMatch \/ QtmCopy
  PROVE  QtmIntact'
<1>1. /\ Put \in Int /\ Len(out) \in Nat /\ stream.total \in Nat /\ made \in Int
      /\ due \in Nat /\ due <= stream.total /\ due = Len(out) + want
      /\ posn \in Nat /\ optr \in Nat /\ posn <= Size /\ Size \in Nat \ {0}
      /\ want \in Nat /\ z.todo \in Int /\ {"todo", "header"} \subseteq DOMAIN z
  BY QtmIntactFacts
<1>2. Busy
  BY DEF QtmHead, QtmLiteral, QtmMatch, QtmCopy, At, Busy
<1>3. /\ {"end", "left", "rest", "off", "src"} \subseteq DOMAIN l
      /\ l.end \in Int /\ l.left \in Int /\ l.rest \in Nat
  BY <1>2, QtmIntactFacts
<1>4. CASE QtmHead
  <2> DEFINE end == Least(Least(posn + want - QtmHave, posn + z.todo), Size)
  <2>1. /\ pc = "head" /\ pc' = "tokens" /\ QtmHave < want
        /\ z' = [z EXCEPT !.header = TRUE] /\ l' = [l EXCEPT !.end = end]
        /\ UNCHANGED <<stream, posn, error, made, due>>
    BY <1>4 DEF QtmHead, At
  <2>2. made = Len(out) + QtmHave /\ QtmHave \in Int
    BY <2>1, QtmHeadHas
  <2>3. end \in Int /\ end <= posn + want - QtmHave /\ end <= posn + z.todo
    BY <1>1, <2>2 DEF Least
  <2> HIDE DEF end
  <2>4. made + (end - posn) <= stream.total
    BY <1>1, <2>2, <2>3
  <2>5. z'.todo = z.todo /\ l'.end = end
    BY <1>1, <1>3, <2>1
  <2>6. z.todo >= 1 /\ Put' = made
    BY <2>1 DEF QtmKept, Put
  <2> QED
    BY <1>1, <2>1, <2>3, <2>4, <2>5, <2>6 DEF QtmIntact
<1>5. CASE QtmLiteral
  <2>1. /\ pc = "tokens" /\ pc' = "tokens" /\ posn < l.end /\ l' = l /\ posn' = posn + 1
        /\ UNCHANGED <<stream, error, due, out, optr>> /\ made' = made + 1
        /\ z' = [z EXCEPT !.todo = z.todo - 1]
    BY <1>5 DEF QtmLiteral, At
  <2>2. z'.todo = z.todo - 1 /\ Put' = made + 1
    BY <1>1, <2>1 DEF Put
  <2>3. l.end <= posn + z.todo
    BY <2>1 DEF QtmIntact
  <2>4. z'.todo >= 0 /\ l.end <= posn' + z'.todo /\ Put' \in Int
    BY <1>1, <1>3, <2>1, <2>2, <2>3, SMTT(40)
  <2> QED
    BY <2>1, <2>4, QtmUnitIntact
<1>6. CASE QtmCopy
  <2>1. /\ pc = "copy" /\ pc' \in {"tokens", "copy", "wrap_match"} /\ posn' = posn + 1
        /\ l' = [l EXCEPT !.src = (l.src + 1) % Size, !.left = l.left - 1]
        /\ UNCHANGED <<stream, error, due, out, optr, z, made>>
        /\ pc' = "tokens" => ~(l.left > 1)
    BY <1>6 DEF QtmCopy, At
  <2>2. l'.end = l.end /\ l'.left = l.left - 1 /\ l'.rest = l.rest
    BY <1>3, <2>1
  <2>3. z.todo >= 0 /\ l.end <= posn + l.left + z.todo /\ l.left >= 1
    BY <2>1 DEF QtmIntact, QtmKept
  <2>4. Put' \in Int
    BY <1>1, <1>3, <2>1, <2>2 DEF Put
  <2>5. /\ pc' = "tokens" => l.end <= posn' + z'.todo
        /\ l.end <= posn' + l'.left + z'.todo
    BY <1>1, <1>3, <2>1, <2>2, <2>3, SMTT(40)
  <2> QED
    BY <2>1, <2>2, <2>3, <2>4, <2>5, QtmUnitIntact
<1>7. CASE QtmMatch
  <2>1. PICK len \in Lengths, off \in 1 .. Size :
          /\ intact' = (intact /\ QtmIntactMatch(len, off))
          /\ LET first == IF QtmWraps(len) THEN Size - posn ELSE len IN
               l' = [l EXCEPT !.left = first, !.rest = len - first, !.off = off,
                              !.src = (posn - off) % Size]
          /\ z' = [z EXCEPT !.todo = z.todo - len]
          /\ made' = made + len
    BY <1>7 DEF QtmMatch
  <2> DEFINE first == IF QtmWraps(len) THEN Size - posn ELSE len
             src == (posn - off) % Size
  <2>2. l' = [l EXCEPT !.left = first, !.rest = len - first, !.off = off, !.src = src]
    BY <2>1
  <2>3. len \in Nat
    BY LzWindowAssumption DEF LzWindowAssumption
  <2>4. first \in Int /\ (first = len \/ first = Size - posn)
    BY <1>1, <2>3
  <2> HIDE DEF first, src
  <2>5. /\ l'.left = first /\ l'.rest = len - first /\ l'.end = l.end /\ z'.todo = z.todo - len
    BY <1>1, <1>3, <2>1, <2>2
  <2>6. /\ pc = "tokens" /\ pc' = "copy" /\ UNCHANGED <<stream, posn, error, due>>
    BY <1>7 DEF QtmMatch, At
  <2>7. /\ l.end <= Size /\ l.end <= posn + z.todo /\ made + (l.end - posn) <= stream.total
    BY <2>6 DEF QtmKept, QtmIntact, Put
  <2>8. len <= z.todo
    BY <2>1 DEF Fine, QtmIntactMatch
  <2>9. Put' = made
    <3>1. Put' = made + len - first - (len - first) \/ Put' = made' - l'.left - l'.rest
      BY <2>6 DEF Put
    <3>2. made' - l'.left - l'.rest = made
      BY <1>1, <2>1, <2>3, <2>4, <2>5
    <3>3. made + len - first - (len - first) = made
      BY <1>1, <2>3, <2>4
    <3> QED
      BY <3>1, <3>2, <3>3
  <2>10. z'.todo >= 0 /\ l'.end <= posn' + l'.left + z'.todo
    BY <1>1, <1>3, <2>3, <2>4, <2>5, <2>6, <2>7, <2>8, SMTT(40)
  <2> QED
    BY <1>1, <2>5, <2>6, <2>7, <2>9, <2>10 DEF QtmIntact
<1> QED
  BY <1>4, <1>5, <1>6, <1>7

LEMMA QtmIntactStep ==
  ASSUME stream \in Streams, stream.kind = "quantum", QtmKept, QtmOrder, QtmIntact, OutKept,
         QtmKept', QtmOrder', OutKept', faults \in Nat, Fine' => Fine, QtmEnter \/ QtmCallStep
  PROVE  QtmIntact'
<1> SUFFICES ASSUME Fine' PROVE QtmIntact'
  BY DEF QtmIntact
<1>1. error = "OK"
  <2>1. pc = "idle" => error = "OK"
    BY DEF QtmEnter, Enters, QtmCallStep, QtmFlush, FlushesLeftover, QtmLeftoverFails,
       LeftoverFails, QtmHead, QtmEnough, QtmLiteral, QtmMatch, QtmCopy, QtmWrapMatch,
       QtmBailsOut, QtmSecondPart, QtmStops, QtmStop, QtmOvershot, QtmWrap, QtmKeep, QtmOut,
       QtmWriteFails, QtmUnreadable, QtmTrailerUnreadable, At
  <2> QED
    BY <2>1 DEF QtmKept
<1>2. CASE \/ QtmLeftoverFails \/ QtmWriteFails \/ QtmUnreadable \/ QtmTrailerUnreadable
           \/ QtmOvershot
  BY <1>1, <1>2, QtmGoesOn
<1>3. CASE QtmHead \/ QtmLiteral \/ QtmMatch \/ QtmCopy
  <2>1. error' = "OK"
    BY <1>1, <1>3 DEF QtmHead, QtmLiteral, QtmMatch, QtmCopy, dec
  <2> QED
    BY <1>1, <1>3, <2>1, QtmTokenIntact
<1>4. CASE QtmBailsOut
  <2>1. pc = "wrap_match" /\ Size - optr > want /\ error' = "DECRUNCH"
        /\ UNCHANGED <<stream, posn, optr, want, due>> /\ pc' = "idle"
    BY <1>4 DEF QtmBailsOut, Rejects, Returns, At
  <2>2. posn = Size
    BY <2>1 DEF QtmKept
  <2>3. QtmBailed'
    BY <2>1, <2>2 DEF QtmBailed, Size
  <2> QED
    BY <2>1, <2>3 DEF QtmIntact
<1>5. CASE QtmEnter
  <2>1. /\ UNCHANGED <<stream, posn, oend, error, z>> /\ pc = "idle" /\ pc' = "leftover"
    BY <1>5 DEF QtmEnter, Enters, At, dec
  <2>2. due' <= stream.total
    BY <1>5 DEF QtmEnter, Enters
  <2> QED
    BY <1>1, <2>1, <2>2 DEF QtmIntact
<1>6. CASE QtmFlush \/ QtmEnough \/ QtmKeep \/ QtmOut
  <2>1. /\ UNCHANGED <<stream, posn, oend, error, due>>
        /\ pc \in {"leftover", "head", "wrap", "out"} /\ pc' \in {"idle", "head", "out"}
    BY <1>6 DEF QtmFlush, FlushesLeftover, QtmEnough, QtmKeep, QtmOut, At, dec
  <2>2. oend = posn
    BY <1>1, <2>1 DEF QtmIntact
  <2> QED
    BY <1>1, <2>1, <2>2, QtmOutsideIntact
<1>7. CASE QtmWrap
  <2>1. UNCHANGED <<stream, error, due>> /\ oend' = 0 /\ posn' = 0 /\ pc' = "head"
    BY <1>7 DEF QtmWrap
  <2> QED
    BY <1>1, <2>1, QtmOutsideIntact
<1>8. CASE QtmStop
  <2>1. UNCHANGED <<stream, error, due, posn>> /\ oend' = posn /\ pc' \in {"wrap", "head"}
    BY <1>8 DEF QtmStop
  <2> QED
    BY <1>1, <2>1, QtmOutsideIntact
<1>9. CASE QtmWrapMatch \/ QtmSecondPart
  <2>1. /\ UNCHANGED <<stream, error, due, z>> /\ pc' \in {"second_part", "stop"}
        /\ pc \in {"wrap_match", "second_part"}
    BY <1>9 DEF QtmWrapMatch, QtmSecondPart, At
  <2>2. z.todo >= 0
    BY <1>1, <2>1 DEF QtmIntact
  <2> QED
    BY <1>1, <2>1, <2>2, QtmOutsideIntact
<1> QED
  BY <1>2, <1>3, <1>4, <1>5, <1>6, <1>7, <1>8, <1>9 DEF QtmCallStep

-----------------------------------------------------------------------------
(* MSZIP.                                                                   *)

\* What is known of a frame of a stream as it should be, between two frames
\* and in one.
LEMMA ZipIntactFacts ==
  ASSUME stream \in Streams, IsZip, ZipKept, ZipOrder, ZipIntact, OutKept, Fine
  PROVE  /\ error = "OK" /\ stream.kind \in {"mszip", "kwajzip"}
         /\ FRAME \in Nat \ {0} /\ stream.total \in Nat /\ made \in Int /\ Len(out) \in Nat
         /\ made <= stream.total /\ due <= stream.total
         /\ posn \in Nat /\ optr \in Nat /\ oend \in Nat /\ optr <= oend
         /\ want \in Nat /\ z.bytes \in Nat /\ Sequence(out)
         /\ {"bytes", "hurt"} \subseteq DOMAIN z
         /\ Busy => {"last", "some", "left", "off", "src"} \subseteq DOMAIN l /\ l.left \in Int
         /\ stream.kind = "mszip" => due = Len(out) + want
         /\ pc \in {"idle", "leftover", "frame"} => ZipBetween
         /\ pc \in {"block", "stored", "symbols"} =>
              /\ Len(out) + z.bytes = made - posn
              /\ z.bytes = 0 \/ (z.bytes = FRAME /\ posn = 0)
         /\ pc # "too_much"
<1>1. error = "OK" /\ MemoryKept /\ made <= stream.total /\ due <= stream.total
  BY DEF ZipIntact, ZipOrder, Fine
<1>2. /\ FRAME \in Nat \ {0} /\ stream.total \in Nat /\ made \in Int /\ Len(out) \in Nat
      /\ posn \in Nat /\ optr \in Nat /\ oend \in Nat /\ optr <= oend
      /\ want \in Nat /\ z.bytes \in Nat /\ {"bytes", "hurt"} \subseteq DOMAIN z
      /\ Busy => {"last", "some", "left", "off", "src"} \subseteq DOMAIN l /\ l.left \in Int
      /\ pc \in {"block", "stored", "symbols"} => Put = made
  BY <1>1, ZipPut
<1>3. stream.kind \in {"mszip", "kwajzip"} /\ Sequence(out)
      /\ (stream.kind = "mszip" => due = Len(out) + want)
  BY DEF IsZip, OutKept, Once
<1>4. pc \in {"idle", "leftover", "frame"} => ZipBetween
  BY <1>1 DEF ZipOrder, Fine
<1>5. pc # "too_much" /\ (pc \in {"block", "stored", "symbols"} => ZipWithin)
  BY DEF ZipOrder, Fine, Busy
<1>6. pc \in {"block", "stored", "symbols"} =>
        /\ Len(out) + z.bytes = made - posn
        /\ z.bytes = 0 \/ (z.bytes = FRAME /\ posn = 0)
  <2> SUFFICES ASSUME pc \in {"block", "stored", "symbols"}
               PROVE  /\ Len(out) + z.bytes = made - posn
                      /\ z.bytes = 0 \/ (z.bytes = FRAME /\ posn = 0)
    OBVIOUS
  <2>1. Len(out) = Put - posn - z.bytes /\ (z.bytes = 0 \/ (z.bytes = FRAME /\ posn = 0))
    BY <1>5 DEF ZipWithin
  <2> QED
    BY <1>2, <2>1
<1> QED
  BY <1>1, <1>2, <1>3, <1>4, <1>5, <1>6

\* Between two frames so much is decoded as was made, or all there is.
LEMMA ZipHasMade ==
  ASSUME stream \in Streams, IsZip, ZipKept, ZipOrder, ZipIntact, OutKept, Fine, pc = "frame"
  PROVE  Decoded = Len(out) /\ Len(out) >= made /\ Decoded \in Int
<1>1. optr = oend /\ optr \in Nat /\ Len(out) \in Nat
  BY ZipIntactFacts DEF ZipBetween
<1>2. Decoded >= made
  BY DEF ZipIntact
<1> QED
  BY <1>1, <1>2 DEF Decoded

\* What makes MSZIP give up does not happen, or is the stream's or the system's
\* fault.
LEMMA ZipGoesOn ==
  ASSUME stream \in Streams, IsZip, ZipKept, ZipOrder, ZipIntact, OutKept, Fine, faults \in Nat,
         \/ ZipLeftoverFails \/ ZipWriteFails \/ ZipNoFrame \/ KwajUnreadable \/ KwajNoHeader
         \/ ZipTooMuch \/ ZipUnreadable
  PROVE  ~Fine'
<1>1. CASE ZipLeftoverFails \/ ZipWriteFails
  BY <1>1, NotFailed DEF ZipLeftoverFails, LeftoverFails, ZipWriteFails, WriteFails
<1>2. CASE ZipNoFrame
  <2>1. pc = "frame" /\ stream.kind = "mszip"
    BY <1>2 DEF ZipNoFrame, At
  <2>2. /\ Len(out) >= made /\ want # 0 /\ due = Len(out) + want /\ due <= stream.total
        /\ Len(out) \in Nat /\ want \in Nat /\ made \in Int /\ stream.total \in Nat
    BY <2>1, ZipHasMade, ZipIntactFacts DEF ZipIntact
  <2>3. made < stream.total
    BY <2>2
  <2>4. IOFails
    BY <1>2, <2>2, <2>3 DEF ZipNoFrame, Unreadable
  <2> QED
    BY <2>4, NotFailed
<1>3. CASE KwajUnreadable \/ KwajNoHeader
  BY <1>3, NotFailed DEF KwajUnreadable, KwajNoHeader, Fine
<1>4. CASE ZipTooMuch
  BY <1>4, ZipIntactFacts DEF ZipTooMuch, ZipAt
<1>5. CASE ZipUnreadable
  BY <1>5, NotFailed DEF ZipUnreadable, Fine
<1> QED
  BY <1>1, <1>2, <1>3, <1>4, <1>5

\* Steps within a frame.
LEMMA ZipWithinIntact ==
  ASSUME ZipIntact, Fine, IsZip, stream' = stream, UNCHANGED <<error, due>>, made' <= stream.total,
         pc' \in {"block", "stored", "symbols", "copy"},
         pc' = "stored" => made' + l'.left <= stream.total
  PROVE  ZipIntact'
<1>1. error = "OK" /\ due <= stream.total
  BY DEF ZipIntact
<1> QED
  BY <1>1 DEF ZipIntact

LEMMA ZipFrameIntact ==
  ASSUME stream \in Streams, IsZip, ZipKept, ZipKept', ZipOrder, ZipOrder', ZipIntact, OutKept,
         OutKept', Fine, Fine',
         \/ ZipFrame \/ ZipStoredBlock \/ ZipHuffmanBlock \/ ZipStoredRun \/ ZipLiteral
         \/ ZipMatch \/ ZipCopy
  PROVE  ZipIntact'
<1>1. /\ made \in Int /\ made <= stream.total /\ stream.total \in Nat
      /\ FRAME \in Nat \ {0} /\ posn \in Nat /\ posn < FRAME
      /\ Busy => {"last", "some", "left", "off", "src"} \subseteq DOMAIN l /\ l.left \in Int
  <2>1. posn < Size /\ Size = FRAME
    BY StreamFacts DEF ZipKept, InWindow
  <2> QED
    BY <2>1, ZipIntactFacts
<1>2. pc' # "too_much"
  <2>1. IsZip' /\ intact'
    BY DEF ZipFrame, ZipStoredBlock, ZipHuffmanBlock, ZipStoredRun, ZipLiteral, ZipMatch,
       ZipCopy, IsZip, Fine
  <2> QED
    BY <2>1 DEF ZipOrder, Busy
<1>3. CASE ZipFrame \/ ZipHuffmanBlock
  <2>1. UNCHANGED <<stream, error, due, made>> /\ pc' \in {"block", "symbols"}
    BY <1>3 DEF ZipFrame, ZipHuffmanBlock, dec
  <2> QED
    BY <1>1, <2>1, ZipWithinIntact
<1>4. CASE ZipStoredBlock
  <2>1. PICK last \in BOOLEAN, n \in 1 .. FRAME + 1 :
          /\ made + n <= stream.total
          /\ l' = [l EXCEPT !.last = last, !.left = n, !.some = TRUE]
    BY <1>4 DEF ZipStoredBlock
  <2>2. UNCHANGED <<stream, error, due, made>> /\ pc = "block" /\ pc' = "stored"
    BY <1>4 DEF ZipStoredBlock, ZipAt, dec
  <2>3. l'.left = n
    BY <1>1, <2>1, <2>2 DEF Busy
  <2> QED
    BY <1>1, <2>1, <2>2, <2>3, ZipWithinIntact
<1>5. CASE ZipStoredRun
  <2> DEFINE n == Least(l.left, FRAME - posn)
  <2>1. /\ UNCHANGED <<stream, error, due>> /\ pc = "stored" /\ made' = made + n
        /\ l' = [l EXCEPT !.left = l.left - n] /\ pc' \in {"stored", "too_much"} /\ l.left > 0
    BY <1>5 DEF ZipStoredRun, ZipAt, FlushIfNeeded
  <2>2. n \in Int /\ n <= l.left /\ l.left \in Int
    BY <1>1, <2>1 DEF Least, Busy
  <2> HIDE DEF n
  <2>3. l'.left = l.left - n
    BY <1>1, <2>1 DEF Busy
  <2>4. made + l.left <= stream.total
    BY <2>1 DEF ZipIntact
  <2>5. made' <= stream.total /\ made' + l'.left <= stream.total
    BY <1>1, <2>1, <2>2, <2>3, <2>4
  <2> QED
    BY <1>2, <2>1, <2>5, ZipWithinIntact
<1>6. CASE ZipLiteral
  <2>1. /\ UNCHANGED <<stream, error, due>> /\ made' = made + 1 /\ made < stream.total
        /\ pc' \in {"symbols", "too_much"}
    BY <1>6 DEF ZipLiteral, FlushIfNeeded
  <2>2. made' <= stream.total
    BY <1>1, <2>1
  <2> QED
    BY <1>2, <2>1, <2>2, ZipWithinIntact
<1>7. CASE ZipMatch
  <2>1. PICK len \in Lengths : /\ intact' => InFrame(len)
                               /\ made' = made + len
    BY <1>7 DEF ZipMatch
  <2>2. made' <= stream.total
    BY <2>1 DEF InFrame, Fine
  <2>3. UNCHANGED <<stream, error, due>> /\ pc' = "copy"
    BY <1>7 DEF ZipMatch, dec
  <2> QED
    BY <2>2, <2>3, ZipWithinIntact
<1>8. CASE ZipCopy
  <2>1. UNCHANGED <<stream, error, due, made>> /\ pc' \in {"symbols", "copy", "too_much"}
    BY <1>8 DEF ZipCopy, FlushIfNeeded
  <2> QED
    BY <1>1, <1>2, <2>1, ZipWithinIntact
<1> QED
  BY <1>3, <1>4, <1>5, <1>6, <1>7, <1>8

\* A frame is complete, or repaired.
LEMMA ZipWholeIntact ==
  ASSUME stream \in Streams, IsZip, ZipKept, ZipKept', ZipOrder, ZipOrder', ZipIntact, OutKept,
         Fine, Fine', ZipEndBlock \/ ZipDamage
  PROVE  ZipIntact'
<1>1. /\ error = "OK" /\ stream.kind \in {"mszip", "kwajzip"}
      /\ FRAME \in Nat \ {0} /\ stream.total \in Nat /\ made \in Int /\ Len(out) \in Nat
      /\ made <= stream.total /\ due <= stream.total /\ posn \in Nat /\ z.bytes \in Nat
      /\ {"bytes", "hurt"} \subseteq DOMAIN z
  BY ZipIntactFacts
<1>2. pc \in {"block", "stored", "symbols"} =>
        /\ Len(out) + z.bytes = made - posn
        /\ z.bytes = 0 \/ (z.bytes = FRAME /\ posn = 0)
  BY ZipIntactFacts
<1>3. CASE ZipEndBlock
  <2>1. /\ UNCHANGED <<stream, error, due, made, out>> /\ pc \in {"symbols", "stored"}
        /\ \/ pc' \in {"too_much", "write"} /\ z' = [z EXCEPT !.bytes = z.bytes + posn]
           \/ pc' = "block"
    BY <1>3 DEF ZipEndBlock, ZipAt
  <2>2. CASE pc' = "block"
    BY <1>1, <2>1, <2>2 DEF ZipIntact
  <2>3. CASE pc' \in {"too_much", "write"} /\ z' = [z EXCEPT !.bytes = z.bytes + posn]
    <3>1. z'.bytes = z.bytes + posn
      BY <1>1, <2>3
    <3>2. Len(out') + z'.bytes = made'
      BY <1>1, <1>2, <2>1, <3>1
    <3> QED
      BY <1>1, <2>1, <2>3, <3>2 DEF ZipIntact
  <2> QED
    BY <2>1, <2>2, <2>3
<1>4. CASE ZipDamage
  <2>1. /\ Repairs /\ InflateFails("DECRUNCH") /\ pc \in {"block", "symbols"}
        /\ made' = IF z.bytes = 0 THEN Least(stream.total, made - posn + FRAME) ELSE made
    BY <1>4 DEF ZipDamage, Fine, ZipAt
  <2>2. /\ UNCHANGED <<stream, due, out>> /\ error' = error /\ pc' = "write"
        /\ z' = [bytes |-> FRAME, hurt |-> TRUE]
    BY <2>1 DEF InflateFails
  <2>3. z'.bytes = FRAME /\ stream.kind = "mszip"
    BY <2>1, <2>2 DEF Repairs
  <2>4. made' <= stream.total /\ Len(out) + FRAME >= made'
    BY <1>1, <1>2, <2>1 DEF Least
  <2> QED
    BY <1>1, <2>2, <2>3, <2>4 DEF ZipIntact
<1> QED
  BY <1>3, <1>4

\* A frame is written; what was left is written; a call begins or ends.
LEMMA ZipEdgesIntact ==
  ASSUME stream \in Streams, IsZip, ZipKept, ZipKept', ZipOrder, ZipOrder', ZipIntact, OutKept,
         OutKept', Fine, Fine',
         ZipEnter \/ KwajEnter \/ KwajReturn \/ ZipFlush \/ ZipWrite
  PROVE  ZipIntact'
<1>1. /\ error = "OK" /\ stream.kind \in {"mszip", "kwajzip"} /\ Sequence(out)
      /\ FRAME \in Nat \ {0} /\ stream.total \in Nat /\ made \in Int /\ Len(out) \in Nat
      /\ made <= stream.total /\ due <= stream.total /\ z.bytes \in Nat
      /\ optr \in Nat /\ oend \in Nat /\ optr <= oend /\ want \in Nat
  BY ZipIntactFacts
<1>2. CASE ZipEnter
  <2>1. UNCHANGED <<stream, optr, oend, error, out, made>> /\ pc = "idle" /\ pc' = "leftover"
        /\ due' <= stream.total /\ stream.kind = "mszip"
    BY <1>2 DEF ZipEnter, Enters, At, dec
  <2>2. Decoded' = Decoded /\ Decoded >= made
    BY <2>1 DEF Decoded, ZipIntact
  <2> QED
    BY <1>1, <2>1, <2>2 DEF ZipIntact
<1>3. CASE KwajEnter
  <2>1. UNCHANGED <<stream, optr, oend, error, out, made>> /\ pc = "idle" /\ pc' = "frame"
        /\ due' = ALL /\ stream.kind = "kwajzip"
    BY <1>3 DEF KwajEnter, At, dec
  <2>2. Decoded' = Decoded /\ Decoded >= made /\ Decoded = made /\ due' <= stream.total
    BY <1>1, <2>1 DEF Decoded, ZipIntact, ALL
  <2> QED
    BY <1>1, <2>1, <2>2 DEF ZipIntact
<1>4. CASE KwajReturn
  <2>1. UNCHANGED <<stream, optr, oend, out, made, due>> /\ pc = "frame" /\ pc' = "idle"
        /\ error' = "OK" /\ stream.kind = "kwajzip" /\ made >= stream.total
    BY <1>4 DEF KwajReturn, Returns, At
  <2>2. Decoded' = Decoded /\ Decoded >= made /\ Decoded = made
    BY <2>1 DEF Decoded, ZipIntact
  <2>3. made = stream.total
    BY <1>1, <2>1
  <2> QED
    BY <1>1, <2>1, <2>2, <2>3 DEF ZipIntact
<1>5. CASE ZipFlush
  <2> DEFINE n == Least(oend - optr, want)
  <2>1. /\ UNCHANGED <<stream, oend, error, made, due>> /\ pc = "leftover"
        /\ pc' = (IF n = want THEN "idle" ELSE "frame") /\ stream.kind = "mszip"
        /\ optr' = optr + n /\ want' = want - n
    BY <1>5 DEF ZipFlush, FlushesLeftover, Writes, At
  <2>2. n \in Nat /\ n <= want
    BY <1>1 DEF Least
  <2> HIDE DEF n
  <2>3. Len(out') = Len(out) + n
    <3>1. due = Len(out) + want /\ due = Len(out') + want' /\ Len(out') \in Nat
      BY <2>1, ZipIntactFacts, SequenceOf DEF OutKept, Once, Sequence
    <3> QED
      BY <1>1, <2>1, <2>2, <3>1
  <2>4. Decoded' = Decoded /\ Decoded >= made
    <3>1. (Len(out) + n) + (oend - (optr + n)) = Len(out) + (oend - optr)
      BY <1>1, <2>2
    <3> QED
      BY <2>1, <2>3, <3>1 DEF Decoded, ZipIntact
  <2>5. pc' = "frame" => want' # 0
    BY <1>1, <2>1, <2>2
  <2> QED
    BY <1>1, <2>1, <2>4, <2>5 DEF ZipIntact
<1>6. CASE ZipWrite
  <2> DEFINE n == IF stream.kind = "kwajzip" THEN z.bytes ELSE Least(want, z.bytes)
             t == [i \in 1 .. n |-> window[i - 1]]
  <2>1. /\ UNCHANGED <<stream, error, made, due, z>> /\ pc = "write"
        /\ out' = out \o t /\ optr' = n
        /\ oend' = (IF stream.kind = "kwajzip" THEN n ELSE z.bytes)
        /\ pc' \in {"idle", "frame"} /\ (stream.kind = "mszip" /\ pc' = "frame" => want' # 0)
    BY <1>6 DEF ZipWrite, ZipAt
  <2>2. n \in Nat /\ (stream.kind = "kwajzip" => n = z.bytes) /\ t = [i \in 1 .. n |-> t[i]]
    BY <1>1 DEF Least
  <2> HIDE DEF n, t
  <2>3. Len(out') = Len(out) + n
    BY <1>1, <2>1, <2>2, Longer
  <2>4. oend' = z.bytes
    BY <2>1, <2>2
  <2>5. Decoded' = Len(out) + z.bytes
    <3>1. (Len(out) + n) + (z.bytes - n) = Len(out) + z.bytes
      BY <1>1, <2>2
    <3> QED
      BY <2>1, <2>3, <2>4, <3>1 DEF Decoded
  <2>6. Len(out) + z.bytes >= made /\ (stream.kind = "kwajzip" => Len(out) + z.bytes = made)
    BY <2>1 DEF ZipIntact
  <2>7. stream.kind = "kwajzip" => pc' = "frame"
    BY <1>1, <1>6 DEF ZipWrite
  <2> QED
    BY <1>1, <2>1, <2>5, <2>6, <2>7 DEF ZipIntact
<1> QED
  BY <1>2, <1>3, <1>4, <1>5, <1>6

LEMMA ZipIntactStep ==
  ASSUME stream \in Streams, IsZip, ZipKept, ZipKept', ZipOrder, ZipOrder', ZipIntact, OutKept,
         OutKept', faults \in Nat, Fine' => Fine, ZipEnter \/ KwajEnter \/ ZipCallStep
  PROVE  ZipIntact'
<1> SUFFICES ASSUME Fine' PROVE ZipIntact'
  BY DEF ZipIntact
<1> QED
  BY ZipFrameIntact, ZipWholeIntact, ZipEdgesIntact, ZipGoesOn DEF ZipCallStep

-----------------------------------------------------------------------------
(* All of them.                                                             *)

LEMMA IntactInit == Init => IntactInv
<1> SUFFICES ASSUME Init PROVE IntactInv
  OBVIOUS
<1>1. OrderInv
  BY OrderInit
<1>2. /\ stream \in Streams /\ posn = stream.start /\ optr = 0 /\ oend = 0 /\ error = "OK"
      /\ pc = "idle" /\ made = 0 /\ out = <<>> /\ due = 0 /\ faults = 0 /\ z = Fresh(stream)
  BY DEF Init
<1>3. stream.total \in Nat /\ (stream.kind # "lzss" => stream.start = 0)
  BY <1>2, StreamFacts, LzWindowAssumption DEF LzWindowAssumption
<1>4. Decoded = 0 /\ due # ALL /\ Len(out) = 0
  BY <1>2 DEF Decoded, ALL
<1>5. RingIntact
  BY <1>2, <1>3, <1>4 DEF RingIntact
<1>6. LzxIntact
  <2> SUFFICES ASSUME stream.kind = "lzx" PROVE LzxIntact
    BY DEF LzxIntact
  <2>1. z.fposn = 0
    BY <1>2 DEF Fresh, LzxFresh
  <2> QED
    BY <1>2, <1>4, <2>1 DEF LzxIntact, Decoding
<1>7. QtmIntact
  BY <1>2, <1>3 DEF QtmIntact
<1>8. ZipIntact
  BY <1>2, <1>3, <1>4 DEF ZipIntact
<1> QED
  BY <1>1, <1>2, <1>5, <1>6, <1>7, <1>8 DEF IntactInv

LEMMA IntactStep == IntactInv /\ [Next]_vars => IntactInv'
<1> SUFFICES ASSUME IntactInv, [Next]_vars PROVE IntactInv'
  OBVIOUS
<1>1. /\ OrderInv /\ OutKept /\ RingOrder /\ LzxSound /\ QtmOrder /\ ZipOrder
      /\ stream \in Streams /\ RingKept /\ QtmKept /\ ZipKept /\ LzxKept /\ faults \in Nat
      /\ RingIntact /\ LzxIntact /\ QtmIntact /\ ZipIntact
  BY DEF IntactInv, OrderInv, Inv
<1>2. OrderInv'
  BY <1>1, OrderStep
<1>3. /\ OutKept' /\ RingOrder' /\ LzxSound' /\ QtmOrder' /\ ZipOrder'
      /\ RingKept' /\ QtmKept' /\ ZipKept' /\ LzxKept'
  BY <1>2 DEF OrderInv, Inv
<1>4. faults' \in Nat /\ (Fine' => Fine)
  BY <1>1, FaultsRemembered
<1>5. CASE RingCall \/ RingCallStep
  <2>1. IsRing
    BY <1>5, KindOfStep DEF IsRing
  <2>2. RingIntact' /\ stream' = stream
    BY <1>1, <1>4, <1>5, <2>1, RingIntactStep, RingStep
  <2> QED
    BY <1>2, <1>4, <2>1, <2>2 DEF IntactInv, QtmIntact, ZipIntact, LzxIntact, IsRing, IsZip
<1>6. CASE QtmEnter \/ QtmCallStep
  <2>1. stream.kind = "quantum"
    BY <1>6, KindOfStep
  <2>2. QtmIntact' /\ stream' = stream
    BY <1>1, <1>3, <1>4, <1>6, <2>1, QtmIntactStep, QtmStep
  <2> QED
    BY <1>2, <1>4, <2>1, <2>2 DEF IntactInv, RingIntact, ZipIntact, LzxIntact, IsRing, IsZip
<1>7. CASE ZipEnter \/ KwajEnter \/ ZipCallStep
  <2>1. IsZip
    BY <1>7, KindOfStep DEF IsZip
  <2>2. ZipIntact' /\ stream' = stream
    BY <1>1, <1>3, <1>4, <1>7, <2>1, ZipIntactStep, ZipStep
  <2> QED
    BY <1>2, <1>4, <2>1, <2>2 DEF IntactInv, RingIntact, QtmIntact, LzxIntact, IsRing, IsZip
<1>8. CASE LzxEnter \/ LzxSetOutputLength \/ LzxCallStep
  <2>1. stream.kind = "lzx"
    BY <1>8, KindOfStep
  <2>2. LzxIntact' /\ stream' = stream
    BY <1>1, <1>3, <1>4, <1>8, <2>1, LzxIntactStep, LzxStep
  <2> QED
    BY <1>2, <1>4, <2>1, <2>2 DEF IntactInv, RingIntact, QtmIntact, ZipIntact, IsRing, IsZip
<1>9. CASE UNCHANGED vars
  <2>1. UNCHANGED <<stream, posn, optr, oend, error, z, pc, want, l, made, intact, faults, out, due>>
    BY <1>9 DEF vars, dec, call
  <2>2. Size' = Size /\ IsRing' = IsRing /\ IsZip' = IsZip /\ Put' = Put /\ Decoded' = Decoded
        /\ Fine' = Fine /\ Decoding' = Decoding /\ QtmBailed' = QtmBailed
    BY <2>1 DEF Size, IsRing, IsZip, Put, Decoded, Fine, Decoding, QtmBailed
  <2>3. RingIntact' /\ LzxIntact'
    <3>1. RingIntact'
      BY <1>1, <2>1, <2>2 DEF RingIntact, LzhTail
    <3>2. LzxIntact'
      BY <1>1, <2>1, <2>2 DEF LzxIntact
    <3> QED
      BY <3>1, <3>2
  <2>4. QtmIntact'
    BY <1>1, <2>1, <2>2 DEF QtmIntact
  <2>5. ZipIntact'
    BY <1>1, <2>1, <2>2 DEF ZipIntact
  <2> QED
    BY <1>2, <1>4, <2>3, <2>4, <2>5 DEF IntactInv
<1> QED
  BY <1>5, <1>6, <1>7, <1>8, <1>9 DEF Next, CallStep

LEMMA IntactSeen == IntactInv => IntactDecodes
<1> SUFFICES ASSUME IntactInv, Fine, ~QtmBailed
             PROVE  /\ error = "OK"
                    /\ pc = "idle" /\ due = ALL =>
                         Len(out) \in stream.total - LzhTail .. stream.total
  BY DEF IntactDecodes, Fine
<1>1. /\ OutKept /\ ZipOrder /\ stream \in Streams /\ ZipKept
      /\ RingIntact /\ LzxIntact /\ QtmIntact /\ ZipIntact
  BY DEF IntactInv, OrderInv, Inv
<1>2. stream.kind \in {"lzx", "quantum", "mszip", "kwajzip", "lzss", "lzh"}
  BY <1>1, StreamFacts
<1>3. stream.kind \in {"lzx", "quantum", "mszip"} => due # ALL
  BY <1>1 DEF OutKept, Once, ALL
<1>4. CASE IsRing
  BY <1>1, <1>4 DEF RingIntact
<1>5. CASE stream.kind = "lzx"
  BY <1>1, <1>3, <1>5 DEF LzxIntact
<1>6. CASE stream.kind = "quantum"
  BY <1>1, <1>3, <1>6 DEF QtmIntact
<1>7. CASE IsZip
  <2>1. error = "OK"
    BY <1>1, <1>7 DEF ZipIntact
  <2>2. ASSUME pc = "idle", due = ALL PROVE Len(out) = stream.total
    <3>1. stream.kind = "kwajzip"
      BY <1>3, <1>7, <2>2 DEF IsZip
    <3>2. Decoded = made /\ made = stream.total /\ optr = oend
      BY <1>1, <1>7, <2>2, <3>1 DEF ZipIntact, ZipOrder, Fine
    <3>3. optr \in Nat /\ Len(out) \in Nat
      BY <1>1, <1>7, ZipIntactFacts
    <3> QED
      BY <3>2, <3>3 DEF Decoded
  <2> QED
    BY <1>1, <2>1, <2>2, TailOf, StreamFacts
<1> QED
  BY <1>2, <1>4, <1>5, <1>6, <1>7 DEF IsRing, IsZip

(* A stream of legal tokens, of which every read and write succeeds, is      *)
(* decoded without an error, whatever the sizes and however it is asked for, *)
(* and the decoders that work until the input ends have all of it by then,   *)
(* LZH all but what it looks ahead at (kwajd.c:460); but for Quantum's       *)
(* refusal of a match over the window's end (qtmd.c:372).                    *)
THEOREM IntactStreamDecodes == Spec => []IntactDecodes
<1>1. Spec => []IntactInv
  BY IntactInit, IntactStep, PTL DEF Spec
<1> QED
  BY <1>1, IntactSeen, PTL

=============================================================================
