------------------------------ MODULE Decoders ------------------------------
(***************************************************************************)
(* A decoder of any kind and its caller, who asks for the stream piece by  *)
(* piece; what every one of them must do, and that each implements         *)
(* LzStream.                                                               *)
(***************************************************************************)
EXTENDS LzxWindow, QtmWindow, ZipWindow, LzssWindow

Fresh(s) ==
  CASE s.kind = "lzx" -> LzxFresh(s)
    [] s.kind = "quantum" -> QtmFresh
    [] s.kind \in {"mszip", "kwajzip"} -> ZipFresh
    [] OTHER -> <<>>

Init ==
  /\ stream \in Streams
  /\ window = FreshWindow(stream)
  /\ posn = stream.start
  /\ optr = 0 /\ oend = 0
  /\ error = "OK"
  /\ z = Fresh(stream)
  /\ pc = "idle" /\ want = 0 /\ l = <<>>
  /\ made = 0 /\ intact = TRUE /\ faults = 0
  /\ out = <<>> /\ due = 0

CallStep == LzxCallStep \/ QtmCallStep \/ ZipCallStep \/ RingCallStep

Next ==
  \/ LzxEnter \/ QtmEnter \/ ZipEnter \/ KwajEnter \/ RingCall
  \/ LzxSetOutputLength
  \/ CallStep

Spec == Init /\ [][Next]_vars

\* a call that was made runs on, as it is code; that another is made, or that
\* the length is told, nothing promises
FairSpec == Spec /\ WF_vars(CallStep)

-----------------------------------------------------------------------------
(* The places and sizes the decoders keep: every place they write to or     *)
(* copy from is in the window, and what waits to be written is too.        *)
TypeOK ==
  /\ LzxTypeOK /\ QtmTypeOK /\ ZipTypeOK
  /\ posn \in 0 .. Size
  /\ pc \in {"copy", "second_part"} => l.src \in 0 .. Size - 1

(* What is written is the stream: the first unit, then the second, and so  *)
(* on, across calls, laps of the window, frames and matches over any of    *)
(* their edges.  LZX notices a match that refers to data the stream never  *)
(* had (lzxd.c:620), but for an offset no match has that it was given by   *)
(* the header of a damaged stored block (lzxd.c:527); Quantum and MSZIP    *)
(* write what they find; in repair mode MSZIP loses units of a damaged     *)
(* frame but moves none.                                                   *)
InOrder ==
  \A i \in 1 .. Len(out) :
    \/ out[i] = i - 1
    \/ IsZip /\ z.hurt /\ out[i] = JUNK
    \/ ~intact /\ (IsZip \/ stream.kind = "quantum")
    \/ ~intact /\ stream.kind = "lzx" /\ z.stray

(* A stream that is as it should be decodes without an error, and a decoder *)
(* that works until the input ends has all of it by then, but for LZH: it   *)
(* looks ahead, and may end before the tokens it looks at (kwajd.c:460).    *)
(* (Quantum may give up on a match over the window's end: see QtmBailed.)   *)
IntactDecodes ==
  intact /\ faults = 0 /\ ~QtmBailed =>
    /\ error = "OK"
    /\ pc = "idle" /\ due = ALL => Len(out) \in stream.total - LzhTail .. stream.total

(* Every call returns.                                                     *)
DecodeReturns == pc # "idle" ~> pc = "idle"

Promise == INSTANCE LzStream WITH
  total <- stream.total, sent <- Len(out),
  state <- IF pc # "idle" THEN "busy" ELSE IF error = "OK" THEN "idle" ELSE "failed"

(* A call that returns OK has written just what was asked for, no call     *)
(* writes more, and a decoder that failed stays failed.                    *)
ImplementsStream == Promise!Spec

=============================================================================
