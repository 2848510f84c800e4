-------------------------- MODULE CabExtractProofs --------------------------
(***************************************************************************)
(* Theorems about CabExtract, for any folders, files, splits, buffer sizes *)
(* and number of failing I/O calls.                                        *)
(*                                                                         *)
(* There are three inductive invariants. Inv says what the block reader    *)
(* and the codecs' shared input keep whatever the sizes of the blocks.     *)
(* Full adds where in its folder's stream of units everything stands: what *)
(* has been read, given to the decoder, made and written. It needs the     *)
(* sums of the blocks' sizes, so the first lemmas below are about rows of  *)
(* numbers and what they add up to. Supplied and Undisturbed add the other *)
(* side: what there is, is enough for the frame that is being decoded, so  *)
(* that a call for an undamaged file never runs out of it.                 *)
(***************************************************************************)
EXTENDS CabExtract, SequenceTheorems, FiniteSetTheorems, WellFoundedInduction, TLAPS

\* The records have their fields.
Shape ==
  /\ {"folder", "part", "incab", "infh", "offset", "block", "outlen", "input"} \subseteq DOMAIN d
  /\ {"init", "error", "got", "junk", "eof", "frames", "made", "sent", "need", "size", "length"}
       \subseteq DOMAIN codec
  /\ {"file", "len", "phase", "want", "todo", "buf"} \subseteq DOMAIN call

Typed ==
  /\ cabs \in Nat
  /\ param \in [salvage : BOOLEAN, decompbuf : Buffers]
  /\ call.todo \in Nat /\ call.buf \in Seq(Nat) /\ call.len \in Int
  /\ d.input \in Seq(Nat)
  /\ ~IsCodec => d.offset \in Int /\ (pc # "idle" => call.want \in Int)

\* A decoder that is set up is in a segment of its folder, or past them all.
InFolder ==
  /\ pc # "idle" => codec.init
  /\ codec.init => d.folder \in Folder /\ d.part \in 0..Len(Parts[d.folder])
  /\ HandleInSegment

\* Errors reach extract()'s caller: the decoder loops run only while the codec
\* has none, and no input without an error means the end, which is one.
ErrorsKept ==
  /\ ReadErrorKept
  /\ pc \in {"frames", "read", "block", "got"} \/ ~IsCodec => codec.error = "OK"
  /\ pc = "frames" => IsCodec
  /\ pc \in {"read", "block"} => call.todo > 0
  /\ pc = "got" /\ call.buf = <<>> /\ ~param.salvage => readErr # "OK"

Inv == Shape /\ Typed /\ InFolder /\ ErrorsKept /\ InputFits

-----------------------------------------------------------------------------
(* The constants.                                                           *)

LEMMA FolderType ==
  ASSUME NEW g \in Folder
  PROVE  /\ Method[g] \in Methods /\ FirstCab[g] \in Nat
         /\ Parts[g] \in Seq(Seq(CFDATA)) /\ Len(Parts[g]) \in Nat \ {0}
         /\ NULL # g
BY CabExtractAssumption DEF CabExtractAssumption

LEMMA FileType ==
  ASSUME NEW f \in File
  PROVE  FileAt[f].folder \in Folder /\ FileAt[f].offset \in Nat /\ FileAt[f].length \in Nat
BY CabExtractAssumption DEF CabExtractAssumption

LEMMA LengthType == BLOCKMAX \in Nat \ {0} /\ LENGTHMAX \in Nat
<1>1. BLOCKMAX \in Nat \ {0} /\ FOLDERMAX \in Nat \ {0}
  BY CabExtractAssumption DEF CabExtractAssumption
<1> QED
  BY <1>1 DEF LENGTHMAX

LEMMA FileLenType ==
  ASSUME NEW f \in File
  PROVE  FileLen(f) \in Int
BY FileType, LengthType DEF FileLen

LEMMA BufferType ==
  ASSUME Typed
  PROVE  param.decompbuf \in Nat \ {0}
BY CabExtractAssumption DEF CabExtractAssumption, Typed

LEMMA LoadedType ==
  ASSUME NEW g \in Folder, cabs \in Nat
  PROVE  Loaded(g) \in Int /\ Loaded(g) <= Len(Parts[g])
BY FolderType DEF Loaded, MinOf

\* What a handle stands at is a data block.
LEMMA RecordType ==
  ASSUME Inv, codec.init, NEW r \in Records
  PROVE  r.data \in Seq(Nat)
<1>1. d.infh # NULL
  BY DEF Records
<1>2. CASE d.infh \in DOMAIN Parts[d.folder][d.part]
  <2>1. d.folder \in Folder /\ d.part \in 1..Len(Parts[d.folder])
    BY <1>1, FolderType DEF Inv, InFolder, HandleInSegment
  <2>2. Parts[d.folder][d.part] \in Seq(CFDATA)
    BY <2>1, FolderType
  <2>3. r \in CFDATA
    BY <1>1, <1>2, <2>2 DEF Records
  <2> QED
    BY <2>3 DEF CFDATA
<1>3. CASE d.infh \notin DOMAIN Parts[d.folder][d.part]
  <2>1. r \in Junk
    BY <1>1, <1>3 DEF Records
  <2>2. r.data = <<0>>
    BY <2>1 DEF Junk
  <2>3. <<0>> \in Seq(Nat)
    OBVIOUS
  <2> QED
    BY <2>2, <2>3
<1> QED
  BY <1>2, <1>3

-----------------------------------------------------------------------------
(* The invariant.                                                           *)

LEMMA InvInit == Init => Inv
<1> SUFFICES ASSUME Init PROVE Inv
  OBVIOUS
<1>1. Shape
  BY DEF Init, Shape, NewCodec
<1>2. Typed
  BY DEF Init, Typed
<1>3. InFolder
  BY DEF Init, InFolder, HandleInSegment, NewCodec
<1>4. ErrorsKept
  BY DEF Init, ErrorsKept, ReadErrorKept, NewCodec
<1>5. InputFits
  BY CabExtractAssumption DEF CabExtractAssumption, Init, InputFits
<1> QED
  BY <1>1, <1>2, <1>3, <1>4, <1>5 DEF Inv

LEMMA StartCall ==
  ASSUME Inv, NEW f \in File, Start(f)
  PROVE  /\ call'.todo \in Nat /\ call'.buf \in Seq(Nat) /\ call'.len \in Int
         /\ pc' # "idle" /\ (NeedsRestart(f) \/ d.offset \in Int) => call'.want \in Int
<1>1. CASE error' = "OPEN"
  <2>1. call' = [call EXCEPT !.file = f, !.len = 0] /\ pc' = pc /\ pc = "idle"
    BY <1>1 DEF Start, Accepted
  <2> QED
    BY <2>1 DEF Inv, Typed, Shape
<1>2. CASE error' # "OPEN"
  <2> DEFINE at == IF NeedsRestart(f) THEN 0 ELSE d.offset
             skip == FileAt[f].offset - at
  <2>1. call' = [file |-> f, len |-> FileLen(f),
                 phase |-> IF skip = 0 THEN "write" ELSE "skip",
                 want |-> IF skip = 0 THEN FileLen(f) ELSE skip,
                 todo |-> 0, buf |-> <<>>]
    BY <1>2 DEF Start
  <2>2. NeedsRestart(f) \/ d.offset \in Int => skip \in Int
    BY FileType
  <2>3. <<>> \in Seq(Nat)
    OBVIOUS
  <2> HIDE DEF skip
  <2> QED
    BY <2>1, <2>2, <2>3, FileLenType
<1> QED
  BY <1>1, <1>2

LEMMA StartInv ==
  ASSUME Inv, NEW f \in File, Start(f)
  PROVE  Inv'
<1> DEFINE g == FileAt[f].folder
<1>1. Shape'
  BY DEF Start, Inv, Shape, Restarted, NewCodec
<1>2. Loaded(g) >= 1 /\ g \in Folder
  BY FileType DEF Start, Accepted, Listed
<1>3. pc' \in {"idle", "decompress"} /\ UNCHANGED <<cabs, param>>
  BY DEF Start, Accepted
<1>4. CASE NeedsRestart(f)
  <2>1. d' = Restarted(g) /\ codec' = NewCodec(TRUE)
    BY <1>4 DEF Start
  <2>2. Typed'
    BY <1>3, <1>4, <2>1, StartCall DEF Inv, Typed, Restarted
  <2>3. InFolder'
    BY <1>2, <2>1, FolderType DEF InFolder, HandleInSegment, Restarted, NewCodec
  <2>4. ErrorsKept'
    BY <1>3, <2>1 DEF ErrorsKept, ReadErrorKept, NewCodec
  <2>5. InputFits'
    BY <2>1, CabExtractAssumption DEF CabExtractAssumption, InputFits, Restarted
  <2> QED
    BY <1>1, <2>2, <2>3, <2>4, <2>5 DEF Inv
<1>5. CASE ~NeedsRestart(f)
  <2>1. UNCHANGED <<d, codec, readErr>>
    BY <1>5 DEF Start
  <2>2. Typed'
    BY <1>3, <1>5, <2>1, StartCall DEF Inv, Typed, IsCodec
  <2>3. InFolder'
    BY <1>5, <2>1 DEF InFolder, HandleInSegment, Inv, NeedsRestart
  <2>4. ErrorsKept'
    BY <1>3, <2>1 DEF Inv, ErrorsKept, ReadErrorKept, IsCodec
  <2>5. InputFits'
    BY <1>3, <2>1 DEF Inv, InputFits
  <2> QED
    BY <1>1, <2>2, <2>3, <2>4, <2>5 DEF Inv
<1> QED
  BY <1>4, <1>5

\* A step that leaves the decompress() call, with what it must keep.
LEMMA FinishInv ==
  ASSUME Inv, pc # "idle", NEW e, NEW re, Finish(e, re), UNCHANGED <<cabs, param>>,
         DOMAIN codec' = DOMAIN codec, codec'.init = codec.init,
         codec'.error = "READ" /\ ~param.salvage => re # "OK",
         ~IsCodec => codec'.error = "OK" /\ d'.offset \in Int,
         DOMAIN d' = DOMAIN d, d'.folder = d.folder, d'.input \in Seq(Nat),
         d'.part \in 0..Len(Parts[d.folder]),
         HandleInSegment', InputFits'
  PROVE  Inv'
<1>1. /\ DOMAIN call' = DOMAIN call
      /\ call'.todo = 0 /\ call'.buf = <<>> /\ call'.len = call.len
      /\ pc' # "idle" => call'.want = call.len
  BY DEF Finish, Phase, Inv, Shape
<1>2. pc' \in {"idle", "decompress"} /\ readErr' = re
  BY DEF Finish
<1>3. Shape'
  BY <1>1 DEF Inv, Shape
<1>4. <<>> \in Seq(Nat)
  OBVIOUS
<1>5. Typed'
  BY <1>1, <1>4 DEF Inv, Typed, IsCodec
<1>6. InFolder'
  BY DEF Inv, InFolder
<1>7. ErrorsKept'
  BY <1>2 DEF ErrorsKept, ReadErrorKept, IsCodec
<1> QED
  BY <1>3, <1>5, <1>6, <1>7 DEF Inv

\* A step that goes on, and leaves alone which segment the decoder is in.
LEMMA GoOnInv ==
  ASSUME Inv, pc # "idle", pc' # "idle", UNCHANGED <<cabs, param>>,
         DOMAIN codec' = DOMAIN codec, codec'.init = codec.init,
         DOMAIN d' = DOMAIN d, d'.folder = d.folder, d'.part = d.part,
         d'.incab = d.incab, d'.infh = d.infh \/ (d.infh # NULL /\ d'.infh # NULL),
         d'.input \in Seq(Nat), InputFits', ErrorsKept',
         DOMAIN call' = DOMAIN call, call'.len = call.len,
         call'.todo \in Nat, call'.buf \in Seq(Nat),
         ~IsCodec => d'.offset \in Int /\ call'.want \in Int
  PROVE  Inv'
<1>1. Shape'
  BY DEF Inv, Shape
<1>2. Typed'
  BY DEF Inv, Typed, IsCodec
<1>3. InFolder'
  BY DEF Inv, InFolder, HandleInSegment
<1> QED
  BY <1>1, <1>2, <1>3 DEF Inv

LEMMA WriteKeeps ==
  ASSUME Inv, NEW data, NEW n, Write(data) \/ WriteFails(n)
  PROVE  /\ DOMAIN d' = DOMAIN d
         /\ d'.folder = d.folder /\ d'.part = d.part /\ d'.incab = d.incab
         /\ d'.infh = d.infh /\ d'.input = d.input
         /\ Write(data) => d'.offset = d.offset + Len(data)
BY DEF Write, WriteFails, Inv, Shape

LEMMA NonedInv ==
  ASSUME Inv, NonedRun \/ NonedWrite
  PROVE  Inv'
<1>0. /\ ~IsCodec /\ codec.init /\ codec.error = "OK"
      /\ d.part \in 0..Len(Parts[d.folder]) /\ d.offset \in Int /\ call.want \in Int
      /\ d.input \in Seq(Nat) /\ HandleInSegment /\ InputFits
  BY DEF NonedRun, NonedWrite, Inv, InFolder, ErrorsKept, Typed
<1>1. ASSUME NonedRun PROVE Inv'
  <2>1. pc = "decompress" /\ UNCHANGED <<cabs, param, d, codec>>
    BY <1>1 DEF NonedRun
  <2>2. HandleInSegment' /\ InputFits'
    BY <1>0, <2>1 DEF HandleInSegment, InputFits
  <2>3. CASE call.want > 0
    <3>1. call' = [call EXCEPT !.todo = RunLength, !.buf = <<>>] /\ pc' = "read"
      BY <1>1, <2>3 DEF NonedRun, Ask
    <3>2. RunLength \in Nat /\ RunLength > 0
      BY <1>0, <2>3, BufferType DEF RunLength, MinOf, Inv
    <3>3. /\ DOMAIN call' = DOMAIN call /\ call'.len = call.len /\ call'.want = call.want
          /\ call'.todo = RunLength /\ call'.buf = <<>>
      BY <3>1 DEF Inv, Shape
    <3>4. <<>> \in Seq(Nat)
      OBVIOUS
    <3>5. ErrorsKept'
      BY <1>0, <2>1, <3>1, <3>2, <3>3 DEF ErrorsKept, ReadErrorKept
    <3> QED
      BY <1>0, <2>1, <2>2, <3>1, <3>2, <3>3, <3>4, <3>5, GoOnInv
  <2>4. CASE ~(call.want > 0)
    <3>1. Finish("OK", readErr)
      BY <1>1, <2>4 DEF NonedRun
    <3> QED
      BY <1>0, <2>1, <2>2, <3>1, FinishInv
  <2> QED
    BY <2>3, <2>4
<1>2. ASSUME NonedWrite PROVE Inv'
  <2>1. pc = "got" /\ UNCHANGED <<cabs, param, codec>>
    BY <1>2 DEF NonedWrite
  <2>2. RunLength \in Int /\ call.buf \in Seq(Nat)
    BY <1>0, BufferType DEF RunLength, MinOf, Inv, Typed
  <2>3. CASE Finish("READ", readErr) /\ UNCHANGED d
    BY <1>0, <2>1, <2>3, FinishInv DEF HandleInSegment, InputFits
  <2>4. CASE /\ Write(call.buf) /\ call' = Phase(call.phase, call.want - Len(call.buf))
             /\ pc' = "decompress"
    <3>1. /\ DOMAIN d' = DOMAIN d
          /\ d'.folder = d.folder /\ d'.part = d.part /\ d'.incab = d.incab
          /\ d'.infh = d.infh /\ d'.input = d.input
      BY <2>4, WriteKeeps
    <3>2. /\ DOMAIN call' = DOMAIN call /\ call'.len = call.len
          /\ call'.todo = 0 /\ call'.buf = <<>> /\ pc' = "decompress"
      BY <2>4 DEF Phase, Inv, Shape
    <3>3. d'.offset \in Int /\ call'.want \in Int
      <4>1. call'.want = call.want - Len(call.buf)
        BY <2>4 DEF Phase, Inv, Shape
      <4>2. d'.offset = d.offset + Len(call.buf)
        BY <2>4, WriteKeeps
      <4> QED
        BY <1>0, <2>2, <4>1, <4>2
    <3>4. ErrorsKept'
      BY <1>0, <2>1, <2>4 DEF ErrorsKept, ReadErrorKept
    <3>5. InputFits'
      BY <1>0, <2>1, <3>1 DEF InputFits
    <3>6. call'.todo \in Nat /\ call'.buf \in Seq(Nat) /\ pc' # "idle" /\ pc # "idle"
          /\ codec'.init = codec.init /\ DOMAIN codec' = DOMAIN codec
          /\ d'.input \in Seq(Nat) /\ UNCHANGED <<cabs, param>>
      <4>1. <<>> \in Seq(Nat)
        OBVIOUS
      <4>2. call'.todo \in Nat /\ call'.buf \in Seq(Nat) /\ pc' # "idle"
        BY <3>2, <4>1
      <4>3. UNCHANGED codec /\ pc # "idle"
        BY <2>1
      <4>4. d'.input \in Seq(Nat)
        BY <1>0, <3>1
      <4> QED
        BY <2>1, <4>2, <4>3, <4>4
    <3> QED
      BY <3>1, <3>2, <3>3, <3>4, <3>5, <3>6, GoOnInv
  <2>5. CASE WriteFails(RunLength) /\ Finish("WRITE", readErr)
    <3>1. /\ DOMAIN d' = DOMAIN d
          /\ d'.folder = d.folder /\ d'.part = d.part /\ d'.incab = d.incab
          /\ d'.infh = d.infh /\ d'.input = d.input
          /\ d'.offset = d.offset + RunLength
      BY <2>5, WriteKeeps DEF WriteFails, Inv, Shape
    <3>2. HandleInSegment' /\ InputFits' /\ d'.offset \in Int
      BY <1>0, <2>1, <2>2, <3>1 DEF HandleInSegment, InputFits
    <3> QED
      BY <1>0, <2>1, <2>5, <3>1, <3>2, FinishInv
  <2> QED
    BY <1>2, <2>3, <2>4, <2>5 DEF NonedWrite
<1> QED
  BY <1>1, <1>2

LEMMA CodecInv ==
  ASSUME Inv, IsCodec,
         CodecEnter \/ FramesDone \/ BeginFrame \/ FrameInput \/ FrameFails \/ FrameOut
  PROVE  Inv'
<1>0. /\ pc \in {"decompress", "frames"} /\ UNCHANGED <<cabs, param>> /\ codec.init
      /\ d.part \in 0..Len(Parts[d.folder]) /\ d.input \in Seq(Nat)
      /\ HandleInSegment /\ InputFits
      /\ pc = "frames" => codec.error = "OK"
      /\ codec.error = "READ" /\ ~param.salvage => readErr # "OK"
  BY DEF CodecEnter, FramesDone, BeginFrame, FrameInput, FrameFails, FrameOut,
         Inv, InFolder, Typed, ErrorsKept, ReadErrorKept
<1>1. /\ DOMAIN codec' = DOMAIN codec /\ codec'.init = codec.init
      /\ codec'.error \in {codec.error, "WRITE", "DECRUNCH"}
  <2>1. CASE CodecEnter \/ FramesDone \/ BeginFrame \/ FrameInput \/ FrameFails
    BY <2>1 DEF CodecEnter, FramesDone, BeginFrame, FrameInput, FrameFails, Inv, Shape
  <2>2. CASE FrameOut
    <3>1. PICK size \in Sizes :
            \/ codec' = [codec EXCEPT !.error = "WRITE"]
            \/ codec' = [codec EXCEPT !.frames = @ + 1, !.made = @ + size,
                                      !.sent = @ + MinOf(size, call.want),
                                      !.need = 0, !.size = 0]
      BY <2>2 DEF FrameOut
    <3> QED
      BY <3>1 DEF Inv, Shape
  <2> QED
    BY <2>1, <2>2
<1>2. /\ DOMAIN d' = DOMAIN d
      /\ d'.folder = d.folder /\ d'.part = d.part /\ d'.incab = d.incab
      /\ d'.infh = d.infh /\ d'.input = d.input
  BY WriteKeeps DEF CodecEnter, FramesDone, BeginFrame, FrameInput, FrameFails, FrameOut
<1>3. HandleInSegment' /\ InputFits'
  BY <1>0, <1>1, <1>2 DEF HandleInSegment, InputFits
<1>4. ASSUME NEW e, Finish(e, readErr) PROVE Inv'
  BY <1>0, <1>1, <1>2, <1>3, <1>4, FinishInv
<1>5. CASE Ask(param.decompbuf) /\ pc = "frames" /\ UNCHANGED codec
  <2>1. /\ DOMAIN call' = DOMAIN call /\ call'.len = call.len
        /\ call'.todo = param.decompbuf /\ call'.buf = <<>> /\ pc' = "read"
        /\ readErr' = readErr
    BY <1>5 DEF Ask, Inv, Shape
  <2>2. param.decompbuf \in Nat /\ param.decompbuf > 0
    BY BufferType DEF Inv
  <2>3. <<>> \in Seq(Nat)
    OBVIOUS
  <2>4. ErrorsKept'
    BY <1>0, <1>5, <2>1, <2>2 DEF ErrorsKept, ReadErrorKept
  <2> QED
    BY <1>0, <1>1, <1>2, <1>3, <2>1, <2>2, <2>3, <2>4, GoOnInv
<1>6. CASE /\ pc' = "frames" /\ codec'.error = "OK"
           /\ call' = call \/ \E want : call' = Phase(call.phase, want)
  <2>1. /\ DOMAIN call' = DOMAIN call /\ call'.len = call.len
        /\ call'.todo \in Nat /\ call'.buf \in Seq(Nat)
    <3>1. <<>> \in Seq(Nat)
      OBVIOUS
    <3>2. CASE call' = call
      BY <3>2 DEF Inv, Typed
    <3>3. CASE \E want : call' = Phase(call.phase, want)
      <4>1. PICK want : call' = Phase(call.phase, want)
        BY <3>3
      <4>2. DOMAIN call' = DOMAIN call /\ call'.len = call.len
            /\ call'.todo = 0 /\ call'.buf = <<>>
        BY <4>1 DEF Phase, Inv, Shape
      <4> QED
        BY <3>1, <4>2
    <3> QED
      BY <1>6, <3>2, <3>3
  <2>2. ErrorsKept'
    BY <1>2, <1>6 DEF ErrorsKept, ReadErrorKept, IsCodec
  <2> QED
    BY <1>0, <1>1, <1>2, <1>3, <1>6, <2>1, <2>2, GoOnInv
<1>7. CASE CodecEnter
  BY <1>4, <1>6, <1>7 DEF CodecEnter, Inv, Shape
<1>8. CASE FramesDone
  BY <1>4, <1>8 DEF FramesDone
<1>9. CASE BeginFrame
  BY <1>0, <1>5, <1>6, <1>9 DEF BeginFrame, Inv, Shape
<1>10. CASE FrameInput
  BY <1>5, <1>10 DEF FrameInput
<1>11. CASE FrameFails
  BY <1>4, <1>11 DEF FrameFails
<1>12. CASE FrameOut
  <2>1. CASE \E e : Finish(e, readErr)
    BY <1>4, <2>1
  <2>2. PICK size \in Sizes :
          \/ /\ codec' = [codec EXCEPT !.frames = @ + 1, !.made = @ + size,
                                       !.sent = @ + MinOf(size, call.want),
                                       !.need = 0, !.size = 0]
             /\ call' = Phase(call.phase, call.want - MinOf(size, call.want)) /\ pc' = pc
          \/ \E e : Finish(e, readErr)
    BY <1>12 DEF FrameOut
  <2>3. pc = "frames"
    BY <1>12 DEF FrameOut
  <2>4. codec' = [codec EXCEPT !.frames = @ + 1, !.made = @ + size,
                               !.sent = @ + MinOf(size, call.want),
                               !.need = 0, !.size = 0]
          => codec'.error = codec.error
    BY DEF Inv, Shape
  <2> QED
    BY <1>0, <1>6, <2>1, <2>2, <2>3, <2>4
<1> QED
  BY <1>7, <1>8, <1>9, <1>10, <1>11, <1>12

LEMMA CodecReceiveInv ==
  ASSUME Inv, CodecReceive
  PROVE  Inv'
<1>0. /\ pc = "got" /\ IsCodec /\ UNCHANGED <<cabs, param, d>> /\ codec.init
      /\ d.part \in 0..Len(Parts[d.folder]) /\ d.input \in Seq(Nat)
      /\ HandleInSegment /\ InputFits /\ codec.error = "OK" /\ call.buf \in Seq(Nat)
      /\ call.buf = <<>> /\ ~param.salvage => readErr # "OK"
  BY DEF CodecReceive, Inv, InFolder, Typed, ErrorsKept, ReadErrorKept
<1>1. DOMAIN codec' = DOMAIN codec /\ codec'.init = codec.init
  BY DEF CodecReceive, Inv, Shape
<1>2. HandleInSegment' /\ InputFits'
  BY <1>0, <1>1 DEF HandleInSegment, InputFits
<1>3. CASE Finish("READ", readErr) /\ Len(call.buf) = 0
  <2>1. call.buf = <<>>
    BY <1>0, <1>3
  <2> QED
    BY <1>0, <1>1, <1>2, <1>3, <2>1, FinishInv
<1>4. CASE pc' = "frames" /\ codec'.error = "OK" /\ call' = Phase(call.phase, call.want)
  <2>1. /\ DOMAIN call' = DOMAIN call /\ call'.len = call.len
        /\ call'.todo = 0 /\ call'.buf = <<>>
    BY <1>4 DEF Phase, Inv, Shape
  <2>2. <<>> \in Seq(Nat)
    OBVIOUS
  <2>3. ErrorsKept'
    BY <1>0, <1>4 DEF ErrorsKept, ReadErrorKept, IsCodec
  <2> QED
    BY <1>0, <1>1, <1>2, <1>4, <2>1, <2>2, <2>3, GoOnInv
<1> QED
  BY <1>0, <1>3, <1>4 DEF CodecReceive, Inv, Shape

\* Taking the first n units of the input leaves the rest.
LEMMA TakeFirst ==
  ASSUME NEW s \in Seq(Nat), NEW n \in 1..Len(s)
  PROVE  /\ SubSeq(s, 1, n) \in Seq(Nat) /\ Len(SubSeq(s, 1, n)) = n
         /\ SubSeq(s, n + 1, Len(s)) \in Seq(Nat)
         /\ Len(SubSeq(s, n + 1, Len(s))) = Len(s) - n
<1>1. Len(s) \in Nat /\ n \in Nat /\ 1 <= n /\ n <= Len(s)
  OBVIOUS
<1>2. \A i \in 1..n : s[i] \in Nat
  BY <1>1
<1>3. \A i \in (n + 1)..Len(s) : s[i] \in Nat
  BY <1>1
<1>4. SubSeq(s, 1, n) \in Seq(Nat) /\ Len(SubSeq(s, 1, n)) = n
  BY <1>1, <1>2, SubSeqProperties
<1>5. /\ SubSeq(s, n + 1, Len(s)) \in Seq(Nat)
      /\ Len(SubSeq(s, n + 1, Len(s))) = Len(s) - n
  <2>1. n + 1 \in 1..(Len(s) + 1) /\ Len(s) \in (n + 1 - 1)..Len(s)
    BY <1>1
  <2> QED
    BY <1>1, <1>3, <2>1, SubSeqProperties
<1> QED
  BY <1>4, <1>5

LEMMA JoinedLength ==
  ASSUME NEW s \in Seq(Nat), NEW t \in Seq(Nat)
  PROVE  s \o t \in Seq(Nat) /\ Len(s \o t) = Len(s) + Len(t) /\ Len(s \o t) \in Nat
BY ConcatProperties

LEMMA ReadInv ==
  ASSUME Inv, ReadCopy \/ ReadNext
  PROVE  Inv'
<1>0. /\ pc = "read" /\ UNCHANGED <<cabs, param, codec>> /\ codec.init
      /\ d.part \in 0..Len(Parts[d.folder]) /\ d.input \in Seq(Nat)
      /\ HandleInSegment /\ InputFits /\ ErrorsKept /\ codec.error = "OK"
      /\ call.buf \in Seq(Nat) /\ call.todo \in Nat /\ call.todo > 0
      /\ ~IsCodec => d.offset \in Int /\ call.want \in Int
  BY DEF ReadCopy, ReadNext, Inv, InFolder, Typed, ErrorsKept
<1>1. ASSUME ReadCopy PROVE Inv'
  <2> DEFINE n == MinOf(Len(d.input), call.todo)
  <2>1. /\ n \in 1..Len(d.input) /\ n <= call.todo
    BY <1>0, <1>1 DEF ReadCopy, MinOf
  <2>2. /\ d'.input = SubSeq(d.input, n + 1, Len(d.input))
        /\ DOMAIN d' = DOMAIN d /\ d'.folder = d.folder /\ d'.part = d.part
        /\ d'.incab = d.incab /\ d'.infh = d.infh /\ d'.offset = d.offset
    BY <1>1 DEF ReadCopy, Inv, Shape
  <2>3. /\ call'.todo = call.todo - n /\ call'.buf = call.buf \o SubSeq(d.input, 1, n)
        /\ DOMAIN call' = DOMAIN call /\ call'.len = call.len /\ call'.want = call.want
    BY <1>1 DEF ReadCopy, Inv, Shape
  <2>4. pc' = (IF call.todo = n THEN "got" ELSE "read") /\ readErr' = readErr
    BY <1>1 DEF ReadCopy
  <2> HIDE DEF n
  <2>5. /\ SubSeq(d.input, 1, n) \in Seq(Nat) /\ Len(SubSeq(d.input, 1, n)) = n
        /\ d'.input \in Seq(Nat) /\ Len(d'.input) <= Len(d.input)
    <3>1. Len(d.input) \in Nat /\ n \in Nat
      BY <1>0, <2>1
    <3> QED
      BY <1>0, <2>1, <2>2, <3>1, TakeFirst
  <2>6. call'.todo \in Nat /\ call'.buf \in Seq(Nat) /\ call'.buf # <<>>
    <3>1. call'.buf \in Seq(Nat) /\ Len(call'.buf) = Len(call.buf) + n
      BY <1>0, <2>3, <2>5, JoinedLength
    <3>2. Len(call.buf) \in Nat /\ n \in Nat /\ n > 0
      BY <1>0, <2>1
    <3>3. call'.buf # <<>>
      <4>1. Len(call'.buf) # 0
        BY <3>1, <3>2
      <4> QED
        BY <4>1
    <3>4. call'.todo \in Nat
      BY <1>0, <2>1, <2>3, <3>2
    <3> QED
      BY <3>1, <3>3, <3>4
  <2>7. InputFits'
    <3>1. Len(d.input) \in Nat /\ Len(d'.input) \in Nat /\ INPUTMAX \in Nat /\ INPUTMAX_SALVAGE \in Nat
      BY <1>0, <2>5, CabExtractAssumption DEF CabExtractAssumption
    <3> QED
      BY <1>0, <2>5, <3>1 DEF InputFits
  <2>8. ErrorsKept'
    <3>1. pc' \in {"got", "read"} /\ (pc' = "read" => call'.todo > 0)
      BY <1>0, <2>1, <2>3, <2>4
    <3> QED
      BY <1>0, <2>6, <3>1 DEF ErrorsKept, ReadErrorKept
  <2>9. pc' # "idle"
    BY <2>4
  <2> QED
    BY <1>0, <2>2, <2>3, <2>5, <2>6, <2>7, <2>8, <2>9, GoOnInv
<1>2. ASSUME ReadNext PROVE Inv'
  <2>1. /\ d'.input = d.input
        /\ DOMAIN d' = DOMAIN d /\ d'.folder = d.folder /\ d'.part = d.part
        /\ d'.incab = d.incab /\ d'.infh = d.infh /\ d'.offset = d.offset
        /\ UNCHANGED call
    BY <1>2 DEF ReadNext, Inv, Shape
  <2>2. \/ pc' = "got" /\ readErr' = AtEndError
        \/ pc' = "block" /\ readErr' = readErr
    BY <1>2 DEF ReadNext
  <2>3. ErrorsKept' /\ pc' # "idle"
    BY <1>0, <2>1, <2>2 DEF ErrorsKept, ReadErrorKept, AtEndError
  <2>4. InputFits'
    BY <1>0, <2>1 DEF InputFits
  <2> QED
    BY <1>0, <2>1, <2>3, <2>4, GoOnInv
<1> QED
  BY <1>1, <1>2

-----------------------------------------------------------------------------
(* cabd_sys_read_block.                                                     *)

LEMMA BlockFailsInv ==
  ASSUME Inv, pc = "block", NEW e, e # "OK", BlockFails(e), UNCHANGED <<cabs, param>>,
         DOMAIN d' = DOMAIN d, d'.folder = d.folder, d'.offset = d.offset,
         d'.input \in Seq(Nat), d'.part \in 0..Len(Parts[d.folder]),
         d'.infh # NULL => d'.part # 0 /\ d'.incab = CabOf(d.folder, d'.part),
         InputFits'
  PROVE  Inv'
<1>1. Finish("READ", e)
  BY DEF BlockFails
<1>2. /\ DOMAIN codec' = DOMAIN codec /\ codec'.init = codec.init
      /\ ~IsCodec => codec'.error = "OK"
  BY DEF BlockFails, Inv, Shape, ErrorsKept
<1>3. HandleInSegment'
  BY DEF HandleInSegment
<1>4. ~IsCodec => d'.offset \in Int
  BY DEF Inv, Typed
<1> QED
  BY <1>1, <1>2, <1>3, <1>4, FinishInv

\* A record that is not too big fits behind the fragments before it.
LEMMA RecordFits ==
  ASSUME Inv, codec.init, NEW r \in Records, ~Oversized(r)
  PROVE  /\ d.input \o r.data \in Seq(Nat)
         /\ Len(d.input \o r.data) <= IF param.salvage THEN INPUTMAX_SALVAGE ELSE INPUTMAX
         /\ d.infh # NULL
<1>1. r.data \in Seq(Nat) /\ d.input \in Seq(Nat) /\ param.salvage \in BOOLEAN
  BY RecordType DEF Inv, Typed
<1>2. Len(d.input \o r.data) = FullLen(r) /\ FullLen(r) \in Nat
  BY <1>1, JoinedLength DEF FullLen
<1>3. INPUTMAX \in Nat /\ INPUTMAX_SALVAGE \in Nat /\ INPUTMAX <= INPUTMAX_SALVAGE
  BY CabExtractAssumption DEF CabExtractAssumption
<1>4. FullLen(r) > INPUTMAX => param.salvage /\ ~(FullLen(r) > INPUTMAX_SALVAGE)
  BY DEF Oversized
<1>5. FullLen(r) <= IF param.salvage THEN INPUTMAX_SALVAGE ELSE INPUTMAX
  BY <1>1, <1>2, <1>3, <1>4
<1> QED
  BY <1>1, <1>2, <1>5, JoinedLength DEF Records

LEMMA BlockInv ==
  ASSUME Inv, BlockUnread \/ BlockRejected \/ BlockRead \/ BlockContinues
  PROVE  Inv'
<1>0. /\ pc = "block" /\ UNCHANGED <<cabs, param>> /\ codec.init
      /\ d.folder \in Folder /\ d.part \in 0..Len(Parts[d.folder]) /\ d.input \in Seq(Nat)
      /\ InputFits /\ ErrorsKept /\ codec.error = "OK" /\ cabs \in Nat
      /\ call.buf \in Seq(Nat) /\ call.todo \in Nat /\ call.todo > 0
      /\ d.infh # NULL => d.part # 0 /\ d.incab = CabOf(d.folder, d.part)
      /\ ~IsCodec => d.offset \in Int /\ call.want \in Int
  BY DEF BlockUnread, BlockRejected, BlockRead, BlockContinues, Inv, InFolder, Typed,
         ErrorsKept, HandleInSegment
<1>1. 0 # NULL /\ \A n \in Nat : n + 1 # NULL /\ n # NULL
  BY CabExtractAssumption DEF CabExtractAssumption
<1>2. ASSUME BlockUnread \/ BlockRejected PROVE Inv'
  <2>1. /\ DOMAIN d' = DOMAIN d /\ d'.folder = d.folder /\ d'.part = d.part
        /\ d'.incab = d.incab /\ d'.input = d.input /\ d'.offset = d.offset
    BY <1>2 DEF BlockUnread, BlockRejected, Inv, Shape
  <2>2. d'.infh # NULL => d.infh # NULL
    BY <1>2 DEF BlockUnread, BlockRejected, Records, Inv, Shape
  <2>3. \E e \in {"READ", "DATAFORMAT", "CHECKSUM"} : BlockFails(e)
    BY <1>2 DEF BlockUnread, BlockRejected
  <2>4. InputFits'
    BY <1>0, <2>1 DEF InputFits
  <2> QED
    BY <1>0, <2>1, <2>2, <2>3, <2>4, BlockFailsInv
<1>3. ASSUME BlockRead PROVE Inv'
  <2>1. PICK r \in Records :
          /\ ~Oversized(r)
          /\ d' = [d EXCEPT !.input = @ \o r.data, !.outlen = @ + r.out,
                            !.infh = IF @ = 0 THEN 0 ELSE @ + 1]
          /\ BlockDone(r.out)
    BY <1>3 DEF BlockRead
  <2>2. /\ DOMAIN d' = DOMAIN d /\ d'.folder = d.folder /\ d'.part = d.part
        /\ d'.incab = d.incab /\ d'.offset = d.offset /\ d'.input = d.input \o r.data
    BY <2>1 DEF Inv, Shape
  <2>3. /\ d'.input \in Seq(Nat) /\ d.infh # NULL /\ UNCHANGED param
        /\ Len(d'.input) <= IF param.salvage THEN INPUTMAX_SALVAGE ELSE INPUTMAX
    BY <1>0, <2>1, <2>2, RecordFits
  <2>4. InputFits'
    BY <1>0, <2>3 DEF InputFits
  <2>5. /\ DOMAIN codec' = DOMAIN codec /\ codec'.init = codec.init
        /\ codec'.error = codec.error /\ pc' = "read" /\ UNCHANGED call /\ readErr' = "OK"
    BY <2>1 DEF BlockDone, Inv, Shape
  <2>6. ErrorsKept'
    BY <1>0, <2>5 DEF ErrorsKept, ReadErrorKept
  <2>7. Typed' /\ Shape'
    BY <1>0, <2>2, <2>3, <2>5 DEF Inv, Typed, Shape, IsCodec
  <2>8. InFolder'
    BY <1>0, <2>2, <2>3, <2>5 DEF Inv, InFolder, HandleInSegment
  <2> QED
    BY <2>4, <2>6, <2>7, <2>8 DEF Inv
<1>4. ASSUME BlockContinues PROVE Inv'
  <2> DEFINE next == IF d.part = 0 \/ d.part >= Loaded(d.folder) THEN 0 ELSE d.part + 1
             cabOfNext == CabOf(d.folder, next)
             moved(in) == [d EXCEPT !.input = in, !.part = next, !.infh = NULL]
  <2>1. next \in 0..Len(Parts[d.folder])
    BY <1>0, LoadedType, FolderType
  <2>2. PICK r \in Records :
          /\ ~Oversized(r)
          /\ LET in == d.input \o r.data IN
             \/ d' = moved(in) /\ BlockFails("DATAFORMAT")
             \/ /\ next # 0
                /\ \/ d' = [moved(in) EXCEPT !.incab = cabOfNext] /\ BlockFails("OPEN")
                   \/ /\ d' = [moved(in) EXCEPT !.incab = cabOfNext, !.infh = 0]
                      /\ BlockFails("SEEK")
             \/ /\ next # 0
                /\ d' = [moved(in) EXCEPT !.incab = cabOfNext, !.infh = 1]
                /\ UNCHANGED <<codec, readErr, error, call, missed, pc>>
    BY <1>4 DEF BlockContinues
  <2> HIDE DEF next
  <2>3. /\ DOMAIN d' = DOMAIN d /\ d'.folder = d.folder /\ d'.part = next
        /\ d'.offset = d.offset /\ d'.input = d.input \o r.data
        /\ d'.infh # NULL => next # 0 /\ d'.incab = cabOfNext
    BY <2>2 DEF Inv, Shape
  <2>4. /\ d'.input \in Seq(Nat) /\ UNCHANGED param
        /\ Len(d'.input) <= IF param.salvage THEN INPUTMAX_SALVAGE ELSE INPUTMAX
    <3>1. r \in Records /\ ~Oversized(r) /\ d'.input = d.input \o r.data
      BY <2>2, <2>3
    <3> QED
      BY <1>0, <3>1, RecordFits
  <2>5. InputFits'
    BY <2>4 DEF InputFits
  <2>6. d'.infh # NULL => d'.part # 0 /\ d'.incab = CabOf(d.folder, d'.part)
    BY <2>3
  <2>7. CASE \E e \in {"DATAFORMAT", "OPEN", "SEEK"} : BlockFails(e)
    BY <1>0, <2>1, <2>3, <2>4, <2>5, <2>6, <2>7, BlockFailsInv
  <2>8. CASE UNCHANGED <<codec, readErr, error, call, missed, pc>>
    <3>1. Typed' /\ Shape'
      BY <1>0, <2>3, <2>4, <2>8 DEF Inv, Typed, Shape, IsCodec
    <3>2. InFolder'
      BY <1>0, <2>1, <2>3, <2>6, <2>8 DEF Inv, InFolder, HandleInSegment
    <3>3. ErrorsKept'
      BY <1>0, <2>3, <2>8 DEF ErrorsKept, ReadErrorKept, IsCodec
    <3> QED
      BY <2>5, <3>1, <3>2, <3>3 DEF Inv
  <2> QED
    BY <2>2, <2>7, <2>8
<1> QED
  BY <1>2, <1>3, <1>4

-----------------------------------------------------------------------------
LEMMA CallInv ==
  ASSUME Inv, Join \/ \E f \in File : Refuse(f) \/ RestartFails(f)
  PROVE  Inv'
<1>0. /\ Shape /\ Typed /\ InFolder /\ ErrorsKept /\ InputFits
  BY DEF Inv
<1>1. pc = "idle" /\ pc' = "idle" /\ UNCHANGED <<param, readErr>>
  BY DEF Join, Refuse, RestartFails, Accepted
<1>2. /\ DOMAIN call' = DOMAIN call /\ call'.todo = call.todo /\ call'.buf = call.buf
      /\ call'.len \in Int
  <2>1. ASSUME NEW f, Refuse(f) \/ RestartFails(f)
        PROVE  call' = [call EXCEPT !.file = f, !.len = 0]
    BY <2>1 DEF Refuse, RestartFails
  <2>2. CASE Join
    BY <1>0, <2>2 DEF Join, Typed
  <2>3. CASE \E f \in File : Refuse(f) \/ RestartFails(f)
    <3>1. \E f : call' = [call EXCEPT !.file = f, !.len = 0]
      BY <2>1, <2>3
    <3> QED
      BY <1>0, <3>1 DEF Shape, Typed
  <2> QED
    BY <2>2, <2>3
<1>3. /\ DOMAIN d' = DOMAIN d /\ d'.folder = d.folder /\ d'.part = d.part
      /\ d'.input = d.input /\ d'.offset = d.offset /\ cabs' \in Nat
  <2>1. CASE Join
    BY <1>0, <2>1 DEF Join, Typed
  <2>2. CASE \E f \in File : Refuse(f)
    BY <1>0, <2>2 DEF Refuse, Typed
  <2>3. CASE \E f \in File : RestartFails(f)
    <3>1. PICK f \in File : RestartFails(f)
      BY <2>3
    <3>2. cabs' = cabs /\ \E c, h : d' = [d EXCEPT !.incab = c, !.infh = h]
      BY <3>1 DEF RestartFails
    <3> QED
      BY <1>0, <3>2 DEF Shape, Typed
  <2> QED
    BY <2>1, <2>2, <2>3
<1>4. UNCHANGED <<d, codec>> \/ codec' = NewCodec(FALSE)
  BY DEF Join, Refuse, RestartFails
<1>5. Shape'
  BY <1>0, <1>2, <1>3, <1>4 DEF Shape, NewCodec
<1>6. Typed'
  BY <1>0, <1>1, <1>2, <1>3 DEF Typed, IsCodec
<1>7. InFolder'
  BY <1>0, <1>1, <1>4 DEF InFolder, HandleInSegment, NewCodec
<1>8. ErrorsKept'
  BY <1>0, <1>1, <1>3, <1>4 DEF ErrorsKept, ReadErrorKept, IsCodec, NewCodec
<1>9. InputFits'
  BY <1>0, <1>1, <1>3 DEF InputFits
<1> QED
  BY <1>5, <1>6, <1>7, <1>8, <1>9 DEF Inv

LEMMA InvNext == Inv /\ [Next]_vars => Inv'
<1> SUFFICES ASSUME Inv, [Next]_vars PROVE Inv'
  OBVIOUS
<1>1. CASE Join \/ \E f \in File : Refuse(f) \/ RestartFails(f)
  BY <1>1, CallInv
<1>2. CASE \E f \in File : Start(f)
  BY <1>2, StartInv
<1>3. CASE NonedRun \/ NonedWrite
  BY <1>3, NonedInv
<1>4. CASE CodecEnter \/ FramesDone \/ BeginFrame \/ FrameInput \/ FrameFails \/ FrameOut
  <2>1. IsCodec
    BY <1>4 DEF CodecEnter, FramesDone, BeginFrame, FrameInput, FrameFails, FrameOut,
                Inv, ErrorsKept
  <2> QED
    BY <1>4, <2>1, CodecInv
<1>5. CASE CodecReceive
  BY <1>5, CodecReceiveInv
<1>6. CASE ReadCopy \/ ReadNext
  BY <1>6, ReadInv
<1>7. CASE BlockUnread \/ BlockRejected \/ BlockRead \/ BlockContinues
  BY <1>7, BlockInv
<1>8. CASE UNCHANGED vars
  BY <1>8 DEF vars, Inv, Shape, Typed, IsCodec, InFolder, HandleInSegment, ErrorsKept,
              ReadErrorKept, InputFits
<1> QED
  BY <1>1, <1>2, <1>3, <1>4, <1>5, <1>6, <1>7, <1>8 DEF Next, Steps

-----------------------------------------------------------------------------
(* Rows of numbers and what they add up to.                                 *)

LEMMA LeastNumber ==
  ASSUME NEW S \in SUBSET Nat, S # {}
  PROVE  \E k \in S : \A j \in S : k <= j
<1> DEFINE R == OpToRel(<, Nat)
<1>1. PICK k \in S : \A j \in S : ~(<<j, k>> \in R)
  BY NatLessThanWellFounded, WFMin
<1>2. R = {p \in Nat \X Nat : p[1] < p[2]}
  BY DEF OpToRel
<1>3. ASSUME NEW j \in S PROVE k <= j
  <2> HIDE DEF R
  <2>1. <<j, k>> \in Nat \X Nat /\ k \in Nat /\ j \in Nat
    OBVIOUS
  <2>2. ~(j < k)
    BY <1>1, <1>2, <2>1
  <2> QED
    BY <2>1, <2>2
<1> QED
  BY <1>3

\* What holds of 0 and of the number behind each it holds of, holds up to N.
LEMMA UpTo ==
  ASSUME NEW N \in Nat, NEW G, 0 \in G, \A n \in 0..N - 1 : n \in G => n + 1 \in G
  PROVE  0..N \subseteq G
<1> DEFINE Bad == {n \in 0..N : n \notin G}
<1>1. CASE Bad = {}
  BY <1>1
<1>2. CASE Bad # {}
  <2>1. Bad \in SUBSET Nat
    OBVIOUS
  <2>2. PICK k \in Bad : \A j \in Bad : k <= j
    BY <1>2, <2>1, LeastNumber
  <2>3. k \in 1..N /\ k \notin G
    <3>1. k # 0
      OBVIOUS
    <3> QED
      BY <3>1
  <2>4. k - 1 \in 0..N - 1 /\ k - 1 \notin Bad
    BY <2>2, <2>3
  <2>5. k - 1 \in G /\ (k - 1) + 1 = k
    BY <2>3, <2>4
  <2> QED
    BY <2>3, <2>4, <2>5
<1> QED
  BY <1>1, <1>2

\* The recursion of SumTo has a solution as far as n.
Sums(sum, s, n) == sum = [i \in 0..n |-> IF i = 0 THEN 0 ELSE sum[i - 1] + s[i]]

LEMMA SumsExist ==
  ASSUME NEW s, NEW N \in Nat
  PROVE  \E sum : Sums(sum, s, N)
<1> DEFINE G == {m \in 0..N : \E sum : Sums(sum, s, m)}
<1>1. 0 \in G
  <2>1. Sums([i \in 0..0 |-> 0], s, 0)
    BY DEF Sums
  <2> QED
    BY <2>1
<1>2. ASSUME NEW m \in 0..N - 1, m \in G PROVE m + 1 \in G
  <2>1. PICK sum : Sums(sum, s, m)
    BY <1>2
  <2> DEFINE next == [i \in 0..m + 1 |-> IF i = m + 1 THEN sum[m] + s[m + 1] ELSE sum[i]]
  <2>2. m \in Nat /\ m + 1 \in 0..N
    OBVIOUS
  <2>3. ASSUME NEW i \in 0..m + 1
        PROVE  next[i] = IF i = 0 THEN 0 ELSE next[i - 1] + s[i]
    <3>1. CASE i = m + 1
      <4>1. i # 0 /\ i - 1 = m /\ i - 1 \in 0..m + 1 /\ i - 1 # m + 1
        BY <2>2, <3>1
      <4>2. next[i] = sum[m] + s[m + 1] /\ next[i - 1] = sum[m]
        BY <3>1, <4>1
      <4> QED
        BY <3>1, <4>1, <4>2
    <3>2. CASE i # m + 1
      <4>1. i \in 0..m /\ next[i] = sum[i]
        BY <2>2, <3>2
      <4>2. sum[i] = IF i = 0 THEN 0 ELSE sum[i - 1] + s[i]
        BY <2>1, <4>1 DEF Sums
      <4>3. i # 0 => i - 1 \in 0..m + 1 /\ i - 1 # m + 1
        BY <2>2, <4>1
      <4>4. i # 0 => next[i - 1] = sum[i - 1]
        BY <4>3
      <4> HIDE DEF next
      <4> QED
        BY <4>1, <4>2, <4>4
    <3> QED
      BY <3>1, <3>2
  <2>4. Sums(next, s, m + 1)
    <3> DEFINE rhs == [i \in 0..m + 1 |-> IF i = 0 THEN 0 ELSE next[i - 1] + s[i]]
    <3>1. next = [i \in 0..m + 1 |-> next[i]]
      OBVIOUS
    <3> HIDE DEF next
    <3>2. next = rhs
      BY <2>3, <3>1
    <3> QED
      BY <3>2 DEF Sums
  <2> QED
    BY <2>2, <2>4
<1>3. 0..N \subseteq G
  <2> HIDE DEF G
  <2> QED
    BY <1>1, <1>2, UpTo
<1> QED
  BY <1>3

\* Each sum is the one before it and the next number.
LEMMA SumNext ==
  ASSUME NEW s \in Seq(Int)
  PROVE  /\ SumTo(s)[0] = 0
         /\ \A i \in 1..Len(s) : SumTo(s)[i] = SumTo(s)[i - 1] + s[i]
<1> DEFINE n == Len(s)
           o == SumTo(s)
<1>1. n \in Nat
  OBVIOUS
<1>2. PICK sum : Sums(sum, s, n)
  BY <1>1, SumsExist
<1>3. SumTo(s) = CHOOSE x : Sums(x, s, n)
  BY DEF SumTo, Sums
<1>4. Sums(SumTo(s), s, n)
  BY <1>2, <1>3
<1> HIDE DEF n
<1>5. \A i \in 0..n : o[i] = IF i = 0 THEN 0 ELSE o[i - 1] + s[i]
  <2>1. o = [i \in 0..n |-> IF i = 0 THEN 0 ELSE o[i - 1] + s[i]]
    BY <1>4 DEF Sums
  <2> HIDE DEF o
  <2> QED
    BY <2>1
<1> HIDE DEF o
<1>6. o[0] = 0
  BY <1>1, <1>5
<1>7. ASSUME NEW i \in 1..Len(s) PROVE o[i] = o[i - 1] + s[i]
  <2>1. i \in 0..n /\ i # 0
    BY <1>1 DEF n
  <2> QED
    BY <1>5, <2>1
<1> QED
  BY <1>6, <1>7 DEF o

\* A row that starts with a number and takes numbers on climbs.
LEMMA Climbs ==
  ASSUME NEW N \in Nat, NEW o, NEW a, o[0] = 0,
         \A i \in 1..N : o[i] = o[i - 1] + a[i] /\ a[i] \in Nat
  PROVE  /\ \A i \in 0..N : o[i] \in Nat
         /\ \A i, j \in 0..N : i <= j => o[i] <= o[j]
<1> DEFINE G == {i \in 0..N : o[i] \in Nat}
<1>1. 0 \in G
  OBVIOUS
<1>2. ASSUME NEW i \in 0..N - 1, i \in G PROVE i + 1 \in G
  <2>1. i + 1 \in 1..N /\ (i + 1) - 1 = i
    OBVIOUS
  <2>2. o[i + 1] = o[i] + a[i + 1] /\ a[i + 1] \in Nat
    BY <2>1
  <2> QED
    BY <1>2, <2>1, <2>2
<1>3. 0..N \subseteq G
  <2> HIDE DEF G
  <2> QED
    BY <1>1, <1>2, UpTo
<1>4. \A i \in 0..N : o[i] \in Nat
  BY <1>3
<1>5. ASSUME NEW i \in 0..N
      PROVE  \A j \in 0..N : i <= j => o[i] <= o[j]
  <2> DEFINE H == {k \in 0..N - i : o[i] <= o[i + k]}
  <2>1. 0 \in H
    <3>1. i + 0 = i /\ o[i] \in Nat /\ 0 \in 0..N - i
      BY <1>4
    <3> QED
      BY <3>1
  <2>2. ASSUME NEW k \in 0..(N - i) - 1, k \in H PROVE k + 1 \in H
    <3>1. i + (k + 1) \in 1..N /\ (i + (k + 1)) - 1 = i + k /\ i + k \in 0..N
          /\ k + 1 \in 0..N - i
      OBVIOUS
    <3>2. o[i + (k + 1)] = o[i + k] + a[i + (k + 1)] /\ a[i + (k + 1)] \in Nat
      BY <3>1
    <3>3. o[i + k] \in Nat /\ o[i] \in Nat /\ o[i] <= o[i + k]
      BY <1>4, <2>2, <3>1
    <3>4. o[i] <= o[i + (k + 1)]
      BY <3>2, <3>3
    <3> QED
      BY <3>1, <3>4
  <2>3. 0..N - i \subseteq H
    <3>1. N - i \in Nat
      OBVIOUS
    <3> HIDE DEF H
    <3> QED
      BY <2>1, <2>2, <3>1, UpTo
  <2>4. ASSUME NEW j \in 0..N, i <= j PROVE o[i] <= o[j]
    <3>1. j - i \in 0..N - i /\ i + (j - i) = j
      BY <2>4
    <3>2. j - i \in H
      BY <2>3, <3>1
    <3> QED
      BY <3>1, <3>2
  <2> QED
    BY <2>4
<1> QED
  BY <1>4, <1>5

-----------------------------------------------------------------------------
(* The records of a folder.                                                 *)

\* The recursion of FlatTo has a solution as far as n.
Cats(cat, s, n) == cat = [p \in 0..n |-> IF p = 0 THEN <<>> ELSE cat[p - 1] \o s[p]]

LEMMA CatsExist ==
  ASSUME NEW s, NEW N \in Nat
  PROVE  \E cat : Cats(cat, s, N)
<1> DEFINE G == {m \in 0..N : \E cat : Cats(cat, s, m)}
<1>1. 0 \in G
  <2>1. Cats([i \in 0..0 |-> <<>>], s, 0)
    BY DEF Cats
  <2> QED
    BY <2>1
<1>2. ASSUME NEW m \in 0..N - 1, m \in G PROVE m + 1 \in G
  <2>1. PICK cat : Cats(cat, s, m)
    BY <1>2
  <2> DEFINE next == [i \in 0..m + 1 |-> IF i = m + 1 THEN cat[m] \o s[m + 1] ELSE cat[i]]
  <2>2. m \in Nat /\ m + 1 \in 0..N
    OBVIOUS
  <2>3. ASSUME NEW i \in 0..m + 1
        PROVE  next[i] = IF i = 0 THEN <<>> ELSE next[i - 1] \o s[i]
    <3>1. CASE i = m + 1
      <4>1. i # 0 /\ i - 1 = m /\ i - 1 \in 0..m + 1 /\ i - 1 # m + 1
        BY <2>2, <3>1
      <4>2. next[i] = cat[m] \o s[m + 1] /\ next[i - 1] = cat[m]
        BY <3>1, <4>1
      <4> QED
        BY <3>1, <4>1, <4>2
    <3>2. CASE i # m + 1
      <4>1. i \in 0..m /\ next[i] = cat[i]
        BY <2>2, <3>2
      <4>2. cat[i] = IF i = 0 THEN <<>> ELSE cat[i - 1] \o s[i]
        BY <2>1, <4>1 DEF Cats
      <4>3. i # 0 => i - 1 \in 0..m + 1 /\ i - 1 # m + 1
        BY <2>2, <4>1
      <4>4. i # 0 => next[i - 1] = cat[i - 1]
        BY <4>3
      <4> HIDE DEF next
      <4> QED
        BY <4>1, <4>2, <4>4
    <3> QED
      BY <3>1, <3>2
  <2>4. Cats(next, s, m + 1)
    <3> DEFINE rhs == [i \in 0..m + 1 |-> IF i = 0 THEN <<>> ELSE next[i - 1] \o s[i]]
    <3>1. next = [i \in 0..m + 1 |-> next[i]]
      OBVIOUS
    <3> HIDE DEF next
    <3>2. next = rhs
      BY <2>3, <3>1
    <3> QED
      BY <3>2 DEF Cats
  <2> QED
    BY <2>2, <2>4
<1>3. 0..N \subseteq G
  <2> HIDE DEF G
  <2> QED
    BY <1>1, <1>2, UpTo
<1> QED
  BY <1>3

LEMMA FlatNext ==
  ASSUME NEW g \in Folder
  PROVE  /\ FlatTo(g)[0] = <<>>
         /\ \A p \in 1..Len(Parts[g]) : FlatTo(g)[p] = FlatTo(g)[p - 1] \o Parts[g][p]
<1> DEFINE n == Len(Parts[g])
           s == Parts[g]
           o == FlatTo(g)
<1>1. n \in Nat
  BY FolderType
<1>2. PICK cat : Cats(cat, s, n)
  BY <1>1, CatsExist
<1>3. FlatTo(g) = CHOOSE x : Cats(x, s, n)
  BY DEF FlatTo, Cats
<1>4. Cats(FlatTo(g), s, n)
  BY <1>2, <1>3
<1> HIDE DEF n
<1>5. \A i \in 0..n : o[i] = IF i = 0 THEN <<>> ELSE o[i - 1] \o s[i]
  <2>1. o = [i \in 0..n |-> IF i = 0 THEN <<>> ELSE o[i - 1] \o s[i]]
    BY <1>4 DEF Cats
  <2> HIDE DEF o
  <2> QED
    BY <2>1
<1> HIDE DEF o
<1>6. o[0] = <<>>
  BY <1>1, <1>5
<1>7. ASSUME NEW i \in 1..Len(Parts[g]) PROVE o[i] = o[i - 1] \o s[i]
  <2>1. i \in 0..n /\ i # 0
    BY <1>1 DEF n
  <2> QED
    BY <1>5, <2>1
<1> QED
  BY <1>6, <1>7 DEF o

\* how many records the first p parts have
Off(g, p) == Len(FlatTo(g)[p])

LEMMA PartType ==
  ASSUME NEW g \in Folder, NEW p \in 1..Len(Parts[g])
  PROVE  /\ Parts[g][p] \in Seq(CFDATA) /\ Len(Parts[g][p]) \in Nat \ {0}
         /\ \A i \in 1..Len(Parts[g][p]) :
              Parts[g][p][i].out = 0 <=> p < Len(Parts[g]) /\ i = Len(Parts[g][p])
<1>1. Parts[g] \in Seq(Seq(CFDATA))
  BY FolderType
<1>2. Parts[g][p] \in Seq(CFDATA)
  BY <1>1
<1>3. DOMAIN Parts[g] = 1..Len(Parts[g]) /\ DOMAIN Parts[g][p] = 1..Len(Parts[g][p])
  BY <1>1, <1>2
<1>4. Parts[g][p] # <<>>
  BY <1>3, LayoutAssumption DEF LayoutAssumption
<1>5. Len(Parts[g][p]) \in Nat \ {0}
  BY <1>2, <1>4, EmptySeq
<1>6. \A i \in 1..Len(Parts[g][p]) :
              Parts[g][p][i].out = 0 <=> p < Len(Parts[g]) /\ i = Len(Parts[g][p])
  BY <1>3, LayoutAssumption DEF LayoutAssumption
<1> QED
  BY <1>2, <1>5, <1>6

\* Where the elements of two sequences are in the two together.
LEMMA Placed ==
  ASSUME NEW S, NEW s \in Seq(S), NEW t \in Seq(S)
  PROVE  /\ s \o t \in Seq(S) /\ Len(s \o t) = Len(s) + Len(t)
         /\ \A i \in 1..Len(s) : (s \o t)[i] = s[i]
         /\ \A i \in 1..Len(t) : (s \o t)[Len(s) + i] = t[i]
<1>1. Len(s) \in Nat /\ Len(t) \in Nat
  OBVIOUS
<1>2. /\ s \o t \in Seq(S) /\ Len(s \o t) = Len(s) + Len(t)
      /\ \A i \in 1..Len(s) + Len(t) : (s \o t)[i] = IF i <= Len(s) THEN s[i] ELSE t[i - Len(s)]
  BY ConcatProperties
<1>3. ASSUME NEW i \in 1..Len(s) PROVE (s \o t)[i] = s[i]
  BY <1>1, <1>2
<1>4. ASSUME NEW i \in 1..Len(t) PROVE (s \o t)[Len(s) + i] = t[i]
  <2>1. Len(s) + i \in 1..Len(s) + Len(t) /\ ~(Len(s) + i <= Len(s)) /\ (Len(s) + i) - Len(s) = i
    BY <1>1
  <2> QED
    BY <1>2, <2>1
<1> QED
  BY <1>2, <1>3, <1>4

LEMMA FlatType ==
  ASSUME NEW g \in Folder
  PROVE  \A p \in 0..Len(Parts[g]) : FlatTo(g)[p] \in Seq(CFDATA) /\ Off(g, p) \in Nat
<1> DEFINE N == Len(Parts[g])
           G == {p \in 0..N : FlatTo(g)[p] \in Seq(CFDATA)}
<1>1. N \in Nat
  BY FolderType
<1>2. 0 \in G
  <2>1. <<>> \in Seq(CFDATA)
    OBVIOUS
  <2>2. FlatTo(g)[0] \in Seq(CFDATA)
    BY <2>1, FlatNext
  <2> QED
    BY <1>1, <2>2
<1>3. ASSUME NEW p \in 0..N - 1, p \in G PROVE p + 1 \in G
  <2>1. p + 1 \in 1..N /\ (p + 1) - 1 = p
    BY <1>1
  <2>2. FlatTo(g)[p + 1] = FlatTo(g)[p] \o Parts[g][p + 1]
    BY <2>1, FlatNext
  <2>3. FlatTo(g)[p] \in Seq(CFDATA) /\ Parts[g][p + 1] \in Seq(CFDATA)
    BY <1>3, <2>1, PartType
  <2>4. FlatTo(g)[p + 1] \in Seq(CFDATA)
    BY <2>2, <2>3, Placed
  <2>5. p + 1 \in 0..N
    BY <2>1
  <2> QED
    BY <2>4, <2>5
<1>4. 0..N \subseteq G
  <2> HIDE DEF G, N
  <2> QED
    BY <1>1, <1>2, <1>3, UpTo
<1> QED
  BY <1>4 DEF Off

LEMMA OffNext ==
  ASSUME NEW g \in Folder
  PROVE  /\ Off(g, 0) = 0
         /\ \A p \in 1..Len(Parts[g]) : Off(g, p) = Off(g, p - 1) + Len(Parts[g][p])
<1>1. Off(g, 0) = 0
  <2>1. Len(<<>>) = 0
    OBVIOUS
  <2> QED
    BY <2>1, FlatNext DEF Off
<1>2. ASSUME NEW p \in 1..Len(Parts[g]) PROVE Off(g, p) = Off(g, p - 1) + Len(Parts[g][p])
  <2>1. p - 1 \in 0..Len(Parts[g])
    BY FolderType
  <2>2. FlatTo(g)[p - 1] \in Seq(CFDATA) /\ Parts[g][p] \in Seq(CFDATA)
    BY <2>1, FlatType, PartType
  <2>3. FlatTo(g)[p] = FlatTo(g)[p - 1] \o Parts[g][p]
    BY FlatNext
  <2> QED
    BY <2>2, <2>3, Placed DEF Off
<1> QED
  BY <1>1, <1>2

LEMMA FlatStep ==
  ASSUME NEW g \in Folder, NEW p \in 1..Len(Parts[g])
  PROVE  /\ \A i \in 1..Off(g, p - 1) : FlatTo(g)[p][i] = FlatTo(g)[p - 1][i]
         /\ \A i \in 1..Len(Parts[g][p]) : FlatTo(g)[p][Off(g, p - 1) + i] = Parts[g][p][i]
<1> DEFINE s == FlatTo(g)[p - 1]
           t == Parts[g][p]
<1>1. p - 1 \in 0..Len(Parts[g])
  BY FolderType
<1>2. s \in Seq(CFDATA) /\ t \in Seq(CFDATA)
  BY <1>1, FlatType, PartType
<1>3. FlatTo(g)[p] = s \o t /\ Off(g, p - 1) = Len(s)
  BY FlatNext DEF Off
<1> HIDE DEF s, t
<1>4. /\ \A i \in 1..Len(s) : (s \o t)[i] = s[i]
      /\ \A i \in 1..Len(t) : (s \o t)[Len(s) + i] = t[i]
  BY <1>2, Placed
<1> DEFINE st == s \o t
<1>5. /\ \A i \in 1..Len(s) : st[i] = s[i]
      /\ \A i \in 1..Len(t) : st[Len(s) + i] = t[i]
  BY <1>4
<1>6. FlatTo(g)[p] = st
  BY <1>3
<1> HIDE DEF st
<1> QED
  BY <1>3, <1>5, <1>6 DEF s, t

\* What has been put together stays where it is when more parts follow.
LEMMA FlatPrefix ==
  ASSUME NEW g \in Folder, NEW p \in 0..Len(Parts[g])
  PROVE  /\ Off(g, p) <= Len(Flat(g))
         /\ \A i \in 1..Off(g, p) : Flat(g)[i] = FlatTo(g)[p][i]
<1> DEFINE N == Len(Parts[g])
           Pre(q) == /\ Off(g, p) <= Off(g, q)
                     /\ \A i \in 1..Off(g, p) : FlatTo(g)[q][i] = FlatTo(g)[p][i]
           G == {k \in 0..N - p : Pre(p + k)}
<1>1. N \in Nat /\ p \in 0..N /\ N - p \in Nat /\ \A q \in 0..N : Off(g, q) \in Nat
  BY FolderType, FlatType
<1>2. 0 \in G
  <2>1. p + 0 = p
    BY <1>1
  <2>2. Pre(p)
    BY <1>1
  <2> HIDE DEF Pre
  <2> QED
    BY <1>1, <2>1, <2>2
<1>3. ASSUME NEW k \in 0..(N - p) - 1, k \in G PROVE k + 1 \in G
  <2> DEFINE q == p + k
  <2>1. q + 1 \in 1..N /\ (q + 1) - 1 = q /\ q \in 0..N /\ k + 1 \in 0..N - p /\ p + (k + 1) = q + 1
    BY <1>1
  <2>2. Pre(q)
    BY <1>3
  <2> HIDE DEF q
  <2>3. /\ FlatTo(g)[q + 1] = FlatTo(g)[q] \o Parts[g][q + 1]
        /\ Off(g, q + 1) = Off(g, q) + Len(Parts[g][q + 1])
    BY <2>1, FlatNext, OffNext
  <2>4. /\ FlatTo(g)[q] \in Seq(CFDATA) /\ Parts[g][q + 1] \in Seq(CFDATA)
        /\ Len(Parts[g][q + 1]) \in Nat
    BY <2>1, FlatType, PartType
  <2>5. Off(g, p) <= Off(g, q + 1)
    BY <1>1, <2>1, <2>2, <2>3, <2>4
  <2>6. ASSUME NEW i \in 1..Off(g, p) PROVE FlatTo(g)[q + 1][i] = FlatTo(g)[p][i]
    <3>1. i \in 1..Len(FlatTo(g)[q])
      BY <1>1, <2>1, <2>2 DEF Off
    <3>2. \A j \in 1..Off(g, (q + 1) - 1) : FlatTo(g)[q + 1][j] = FlatTo(g)[(q + 1) - 1][j]
      BY <2>1, FlatStep
    <3>3. (q + 1) - 1 = q /\ i \in 1..Off(g, q)
      BY <2>1, <3>1 DEF Off
    <3>4. FlatTo(g)[q + 1][i] = FlatTo(g)[q][i]
      BY <3>2, <3>3
    <3> QED
      BY <2>2, <3>4
  <2>7. Pre(q + 1)
    BY <2>5, <2>6
  <2> HIDE DEF Pre
  <2> QED
    BY <2>1, <2>7
<1>4. 0..N - p \subseteq G
  <2> HIDE DEF G, N
  <2> QED
    BY <1>1, <1>2, <1>3, UpTo
<1>5. Pre(N)
  <2>1. N - p \in 0..N - p /\ p + (N - p) = N
    BY <1>1
  <2>2. N - p \in G
    BY <1>4, <2>1
  <2> HIDE DEF Pre
  <2> QED
    BY <2>1, <2>2
<1> QED
  BY <1>5 DEF Flat, Off

\* Record i of part p is where the parts before it end.
LEMMA FlatAt ==
  ASSUME NEW g \in Folder, NEW p \in 1..Len(Parts[g]), NEW i \in 1..Len(Parts[g][p])
  PROVE  /\ Off(g, p - 1) \in Nat /\ Off(g, p - 1) + i \in 1..Len(Flat(g))
         /\ Flat(g)[Off(g, p - 1) + i] = Parts[g][p][i]
<1>1. /\ p - 1 \in 0..Len(Parts[g]) /\ p \in 0..Len(Parts[g])
  BY FolderType
<1>2. /\ Off(g, p - 1) \in Nat /\ Off(g, p) \in Nat /\ FlatTo(g)[p - 1] \in Seq(CFDATA)
      /\ Parts[g][p] \in Seq(CFDATA) /\ Len(Parts[g][p]) \in Nat
  BY <1>1, FlatType, PartType
<1>3. /\ Off(g, p) = Off(g, p - 1) + Len(Parts[g][p])
      /\ FlatTo(g)[p] = FlatTo(g)[p - 1] \o Parts[g][p]
  BY FlatNext, OffNext
<1>4. Off(g, p - 1) + i \in 1..Off(g, p)
  BY <1>2, <1>3
<1>5. Len(Flat(g)) \in Nat /\ Off(g, p) <= Len(Flat(g))
      /\ Flat(g)[Off(g, p - 1) + i] = FlatTo(g)[p][Off(g, p - 1) + i]
  <2>1. Len(Parts[g]) \in 0..Len(Parts[g])
    BY FolderType
  <2>2. Len(Flat(g)) \in Nat
    BY <2>1, FlatType DEF Flat, Off
  <2> QED
    BY <1>1, <1>4, <2>2, FlatPrefix
<1>6. FlatTo(g)[p][Off(g, p - 1) + i] = Parts[g][p][i]
  BY FlatStep
<1> QED
  BY <1>2, <1>4, <1>5, <1>6

\* The last record of a folder is the last of its last part.
LEMMA FlatLen ==
  ASSUME NEW g \in Folder
  PROVE  /\ Flat(g) \in Seq(CFDATA) /\ Len(Flat(g)) \in Nat \ {0} /\ DOMAIN Flat(g) = 1..Len(Flat(g))
         /\ Off(g, Len(Parts[g])) = Len(Flat(g))
         /\ Flat(g)[Len(Flat(g))].out # 0
<1> DEFINE P == Len(Parts[g])
           n == Len(Parts[g][P])
<1>1. P \in 1..Len(Parts[g]) /\ P \in 0..Len(Parts[g])
  BY FolderType
<1>2. Flat(g) \in Seq(CFDATA) /\ Off(g, P) = Len(Flat(g)) /\ Len(Flat(g)) \in Nat
  BY <1>1, FlatType DEF Flat, Off
<1>3. n \in 1..n /\ n \in Nat
  BY <1>1, PartType
<1>4. /\ Off(g, P - 1) \in Nat /\ Flat(g)[Off(g, P - 1) + n] = Parts[g][P][n]
      /\ Off(g, P) = Off(g, P - 1) + n
  BY <1>1, <1>3, FlatAt, OffNext
<1>5. Parts[g][P][n].out # 0
  <2>1. ~(P < Len(Parts[g]))
    BY <1>1
  <2>2. P \in 1..Len(Parts[g]) /\ n \in 1..Len(Parts[g][P])
    BY <1>1, <1>3
  <2> HIDE DEF P, n
  <2> QED
    BY <2>1, <2>2, PartType
<1>6. Len(Flat(g)) = Off(g, P - 1) + n /\ Flat(g)[Len(Flat(g))].out # 0
  BY <1>2, <1>4, <1>5
<1>7. Len(Flat(g)) \in Nat \ {0}
  <2> HIDE DEF n
  <2> QED
    BY <1>3, <1>4, <1>6
<1>8. DOMAIN Flat(g) = 1..Len(Flat(g))
  BY <1>2
<1> QED
  BY <1>2, <1>6, <1>7, <1>8

-----------------------------------------------------------------------------
(* The blocks of a folder.                                                  *)

\* how many of the first k records end a block
Ended(g, k) == Cardinality({j \in Ends(g) : j <= k})

LEMMA EndedNext ==
  ASSUME NEW g \in Folder
  PROVE  /\ Ended(g, 0) = 0
         /\ \A k \in 1..Len(Flat(g)) :
              Ended(g, k) = Ended(g, k - 1) + (IF Flat(g)[k].out # 0 THEN 1 ELSE 0)
         /\ Ended(g, Len(Flat(g))) = Total(g)
<1> DEFINE L == Len(Flat(g))
           S(k) == {j \in Ends(g) : j <= k}
<1>1. L \in Nat /\ Ends(g) = {i \in 1..L : Flat(g)[i].out # 0}
  BY FlatLen DEF Ends
<1>2. S(0) = {}
  BY <1>1
<1>3. Ended(g, 0) = 0
  BY <1>2, FS_EmptySet DEF Ended
<1>4. ASSUME NEW k \in 0..L PROVE IsFiniteSet(S(k)) /\ Cardinality(S(k)) \in Nat
  <2>1. IsFiniteSet(1..L)
    BY <1>1, FS_Interval
  <2>2. S(k) \subseteq 1..L
    BY <1>1
  <2> QED
    BY <2>1, <2>2, FS_Subset, FS_CardinalityType
<1>5. ASSUME NEW k \in 1..L
      PROVE  Ended(g, k) = Ended(g, k - 1) + (IF Flat(g)[k].out # 0 THEN 1 ELSE 0)
  <2>1. k - 1 \in 0..L
    BY <1>1
  <2>2. CASE Flat(g)[k].out # 0
    <3>1. S(k) = S(k - 1) \cup {k} /\ k \notin S(k - 1)
      BY <1>1, <2>2
    <3> HIDE DEF S
    <3>2. Cardinality(S(k)) = Cardinality(S(k - 1)) + 1
      BY <1>4, <2>1, <3>1, FS_AddElement
    <3> QED
      BY <2>2, <3>2 DEF Ended, S
  <2>3. CASE ~(Flat(g)[k].out # 0)
    <3>1. S(k) = S(k - 1)
      BY <1>1, <2>3
    <3>2. Cardinality(S(k - 1)) \in Nat
      BY <1>4, <2>1
    <3>3. Ended(g, k) = Cardinality(S(k)) /\ Ended(g, k - 1) = Cardinality(S(k - 1))
      BY DEF Ended
    <3> HIDE DEF S
    <3>4. Ended(g, k) = Ended(g, k - 1) /\ Ended(g, k - 1) \in Nat
      BY <3>1, <3>2, <3>3
    <3> QED
      BY <2>3, <3>4
  <2> QED
    BY <2>2, <2>3
<1>6. S(L) = Ends(g)
  BY <1>1
<1>7. Ended(g, L) = Total(g)
  BY <1>6 DEF Ended, Total
<1> QED
  BY <1>3, <1>5, <1>7

LEMMA EndedClimbs ==
  ASSUME NEW g \in Folder
  PROVE  /\ \A k \in 0..Len(Flat(g)) : Ended(g, k) \in Nat
         /\ \A i, j \in 0..Len(Flat(g)) : i <= j => Ended(g, i) <= Ended(g, j)
         /\ Total(g) \in Nat \ {0}
<1> DEFINE L == Len(Flat(g))
           o == [k \in 0..L |-> Ended(g, k)]
           a == [k \in 1..L |-> IF Flat(g)[k].out # 0 THEN 1 ELSE 0]
<1>1. L \in Nat \ {0} /\ Flat(g)[L].out # 0
  BY FlatLen
<1>2. ASSUME NEW i \in 1..L PROVE o[i] = o[i - 1] + a[i] /\ a[i] \in Nat
  <2>1. i \in 0..L /\ i - 1 \in 0..L
    BY <1>1
  <2>2. a[i] = IF Flat(g)[i].out # 0 THEN 1 ELSE 0
    OBVIOUS
  <2>3. o[i] = Ended(g, i) /\ o[i - 1] = Ended(g, i - 1)
    BY <2>1
  <2> HIDE DEF o, a
  <2> QED
    BY <2>2, <2>3, EndedNext
<1>3. o[0] = 0
  BY <1>1, EndedNext
<1>4. \A k \in 0..L : o[k] = Ended(g, k)
  OBVIOUS
<1> HIDE DEF o, a
<1>5. /\ \A i \in 0..L : o[i] \in Nat
      /\ \A i, j \in 0..L : i <= j => o[i] <= o[j]
  BY <1>1, <1>2, <1>3, Climbs
<1>6. L - 1 \in 0..L /\ L \in 0..L /\ L \in 1..L
  BY <1>1
<1>7. Ended(g, L) = Ended(g, L - 1) + 1 /\ Ended(g, L - 1) \in Nat
  BY <1>1, <1>4, <1>5, <1>6, EndedNext
<1>8. Total(g) \in Nat \ {0}
  BY <1>7, EndedNext
<1> QED
  BY <1>4, <1>5, <1>8

\* The n-th end is where the count comes to n.
LEMMA EndOfIs ==
  ASSUME NEW g \in Folder, NEW n \in 1..Total(g)
  PROVE  /\ EndOf(g, n) \in 1..Len(Flat(g)) /\ Flat(g)[EndOf(g, n)].out # 0
         /\ Ended(g, EndOf(g, n)) = n
         /\ \A k \in 0..Len(Flat(g)) : k < EndOf(g, n) <=> Ended(g, k) < n
<1> DEFINE L == Len(Flat(g))
           B == {k \in 0..L : Ended(g, k) >= n}
<1>1. L \in Nat /\ Ends(g) = {i \in 1..L : Flat(g)[i].out # 0} /\ L \in 0..L
  BY FlatLen DEF Ends
<1>2. Total(g) \in Nat /\ n \in Nat /\ n >= 1 /\ n <= Total(g) /\ Ended(g, L) = Total(g)
  BY EndedClimbs, EndedNext
<1>3. L \in B /\ B \in SUBSET Nat
  BY <1>1, <1>2
<1>4. PICK k \in B : \A j \in B : k <= j
  <2> HIDE DEF B
  <2> QED
    BY <1>3, LeastNumber
<1>5. k \in 1..L /\ Flat(g)[k].out # 0 /\ Ended(g, k) = n
  <2>1. k \in 0..L /\ Ended(g, k) >= n
    BY <1>4
  <2>2. k # 0
    BY <1>2, <2>1, EndedNext
  <2>3. k \in 1..L /\ k - 1 \in 0..L /\ k - 1 < k
    BY <1>1, <2>1, <2>2
  <2>4. ~(Ended(g, k - 1) >= n)
    BY <1>4, <2>3
  <2>5. Ended(g, k - 1) \in Nat /\ Ended(g, k) \in Nat
    BY <2>1, <2>3, EndedClimbs
  <2>6. Ended(g, k) = Ended(g, k - 1) + (IF Flat(g)[k].out # 0 THEN 1 ELSE 0)
    BY <2>3, EndedNext
  <2> QED
    BY <1>2, <2>1, <2>3, <2>4, <2>5, <2>6
<1>6. k \in Ends(g) /\ Cardinality({j \in Ends(g) : j <= k}) = n
  BY <1>1, <1>5 DEF Ended
<1>7. EndOf(g, n) \in Ends(g) /\ Ended(g, EndOf(g, n)) = n
  BY <1>6 DEF EndOf, Ended
<1> DEFINE e == EndOf(g, n)
<1>8. e \in 1..L /\ Flat(g)[e].out # 0
  BY <1>1, <1>7
<1>9. ASSUME NEW i \in 0..L PROVE i < e <=> Ended(g, i) < n
  <2>1. e - 1 \in 0..L /\ e \in 0..L
    BY <1>1, <1>8
  <2>2. Ended(g, e) = Ended(g, e - 1) + 1 /\ Ended(g, e - 1) \in Nat /\ Ended(g, i) \in Nat
    BY <1>8, <2>1, EndedNext, EndedClimbs
  <2>3. CASE i < e
    <3>1. i <= e - 1
      BY <1>1, <1>8, <2>3
    <3>2. Ended(g, i) <= Ended(g, e - 1)
      BY <2>1, <3>1, EndedClimbs
    <3> QED
      BY <1>2, <1>7, <2>2, <2>3, <3>2
  <2>4. CASE ~(i < e)
    <3>1. e <= i
      BY <1>1, <1>8, <2>4
    <3>2. Ended(g, e) <= Ended(g, i)
      BY <2>1, <3>1, EndedClimbs
    <3> QED
      BY <1>2, <1>7, <2>2, <2>4, <3>2
  <2> QED
    BY <2>3, <2>4
<1> QED
  BY <1>7, <1>8, <1>9

LEMMA LastEnd ==
  ASSUME NEW g \in Folder
  PROVE  Total(g) \in 1..Total(g) /\ EndOf(g, Total(g)) = Len(Flat(g))
<1> DEFINE L == Len(Flat(g))
           T == Total(g)
<1>1. L \in Nat \ {0} /\ Flat(g)[L].out # 0 /\ T \in Nat \ {0} /\ T \in 1..T /\ Ended(g, L) = T
  BY FlatLen, EndedClimbs, EndedNext
<1> DEFINE e == EndOf(g, T)
<1>2. e \in 1..L /\ \A k \in 0..L : k < e <=> Ended(g, k) < T
  BY <1>1, EndOfIs
<1>3. L - 1 \in 0..L /\ Ended(g, L) = Ended(g, L - 1) + 1
  <2>1. L \in 1..L
    BY <1>1
  <2> QED
    BY <1>1, <2>1, EndedNext
<1>4. Ended(g, L - 1) < T
  <2>1. Ended(g, L - 1) \in Nat
    BY <1>3, EndedClimbs
  <2> QED
    BY <1>1, <1>3, <2>1
<1>5. L - 1 < e
  BY <1>2, <1>3, <1>4
<1> QED
  BY <1>1, <1>2, <1>5

\* Input and output add up record by record.
LEMMA SumsClimb ==
  ASSUME NEW g \in Folder
  PROVE  /\ InputSum(g)[0] = 0 /\ OutputSum(g)[0] = 0
         /\ \A k \in 1..Len(Flat(g)) :
              /\ InputSum(g)[k] = InputSum(g)[k - 1] + Len(Flat(g)[k].data)
              /\ OutputSum(g)[k] = OutputSum(g)[k - 1] + Flat(g)[k].out
              /\ Flat(g)[k] \in CFDATA
         /\ \A k \in 0..Len(Flat(g)) : InputSum(g)[k] \in Nat /\ OutputSum(g)[k] \in Nat
         /\ \A i, j \in 0..Len(Flat(g)) :
              i <= j => InputSum(g)[i] <= InputSum(g)[j] /\ OutputSum(g)[i] <= OutputSum(g)[j]
<1> DEFINE L == Len(Flat(g))
           a == [i \in DOMAIN Flat(g) |-> Len(Flat(g)[i].data)]
           b == [i \in DOMAIN Flat(g) |-> Flat(g)[i].out]
<1>1. Flat(g) \in Seq(CFDATA) /\ L \in Nat /\ DOMAIN Flat(g) = 1..L
  BY FlatLen
<1>2. ASSUME NEW k \in 1..L PROVE /\ Flat(g)[k] \in CFDATA
                                  /\ Len(Flat(g)[k].data) \in Nat /\ Flat(g)[k].out \in Nat
  <2>1. Flat(g)[k] \in CFDATA
    BY <1>1
  <2>2. Flat(g)[k].data \in Seq(Nat)
    BY <2>1 DEF CFDATA
  <2> QED
    BY <2>1, <2>2 DEF CFDATA
<1>3. \A k \in 1..L : a[k] = Len(Flat(g)[k].data) /\ b[k] = Flat(g)[k].out
                      /\ a[k] \in Nat /\ b[k] \in Nat
  BY <1>1, <1>2
<1>4. a \in [1..L -> Nat] /\ b \in [1..L -> Nat]
  BY <1>1, <1>2
<1>5. InputSum(g) = SumTo(a) /\ OutputSum(g) = SumTo(b)
  BY DEF InputSum, OutputSum
<1> HIDE DEF a, b
<1>6. a \in Seq(Int) /\ b \in Seq(Int) /\ Len(a) = L /\ Len(b) = L
  <2>1. a \in [1..L -> Int] /\ b \in [1..L -> Int]
    BY <1>4
  <2> HIDE DEF L
  <2> QED
    BY <1>1, <2>1
<1> DEFINE I == InputSum(g)
           O == OutputSum(g)
<1>7. /\ I[0] = 0 /\ \A i \in 1..L : I[i] = I[i - 1] + a[i]
      /\ O[0] = 0 /\ \A i \in 1..L : O[i] = O[i - 1] + b[i]
  BY <1>5, <1>6, SumNext
<1> HIDE DEF I, O, L
<1>8. /\ \A i \in 0..L : I[i] \in Nat
      /\ \A i, j \in 0..L : i <= j => I[i] <= I[j]
  BY <1>1, <1>3, <1>7, Climbs
<1>9. /\ \A i \in 0..L : O[i] \in Nat
      /\ \A i, j \in 0..L : i <= j => O[i] <= O[j]
  BY <1>1, <1>3, <1>7, Climbs
<1> QED
  BY <1>2, <1>3, <1>7, <1>8, <1>9 DEF I, O, L

\* The same block by block.
LEMMA BlocksClimb ==
  ASSUME NEW g \in Folder
  PROVE  /\ \A n \in 0..Total(g) : InputTo(g, n) \in Nat /\ OutputTo(g, n) \in Nat
         /\ InputTo(g, 0) = 0 /\ OutputTo(g, 0) = 0
         /\ \A m, n \in 0..Total(g) : m <= n =>
              InputTo(g, m) <= InputTo(g, n) /\ OutputTo(g, m) <= OutputTo(g, n)
         /\ InputTo(g, Total(g)) = InputSum(g)[Len(Flat(g))]
         /\ OutputTo(g, Total(g)) = OutputSum(g)[Len(Flat(g))]
<1> DEFINE L == Len(Flat(g))
           T == Total(g)
           e(n) == IF n = 0 THEN 0 ELSE EndOf(g, n)
<1>1. L \in Nat \ {0} /\ T \in Nat \ {0}
  BY FlatLen, EndedClimbs
<1>2. ASSUME NEW n \in 0..T
      PROVE  /\ e(n) \in 0..L
             /\ InputTo(g, n) = InputSum(g)[e(n)] /\ OutputTo(g, n) = OutputSum(g)[e(n)]
  <2>1. n # 0 => EndOf(g, n) \in 1..L
    <3>1. n # 0 => n \in 1..Total(g)
      BY <1>1
    <3> QED
      BY <3>1, EndOfIs
  <2> QED
    BY <1>1, <2>1, SumsClimb DEF InputTo, OutputTo
<1>3. ASSUME NEW m \in 0..T, NEW n \in 0..T, m <= n PROVE e(m) <= e(n)
  <2>1. CASE m = 0
    BY <1>2, <2>1
  <2>2. CASE m # 0
    <3>1. m \in 1..T /\ n \in 1..T
      BY <1>1, <1>3, <2>2
    <3>2. EndOf(g, m) \in 1..L /\ EndOf(g, n) \in 1..L /\ Ended(g, EndOf(g, n)) = n
          /\ \A k \in 0..L : k < EndOf(g, m) <=> Ended(g, k) < m
      BY <3>1, EndOfIs
    <3>3. ~(EndOf(g, n) < EndOf(g, m))
      BY <1>1, <1>3, <3>1, <3>2
    <3> QED
      BY <3>1, <3>2, <3>3
  <2> QED
    BY <2>1, <2>2
<1>4. e(T) = L /\ T \in 0..T /\ 0 \in 0..T /\ e(0) = 0
  BY <1>1, LastEnd
<1> HIDE DEF e
<1>5. \A n \in 0..T : InputTo(g, n) \in Nat /\ OutputTo(g, n) \in Nat
  BY <1>2, SumsClimb
<1>6. ASSUME NEW m \in 0..T, NEW n \in 0..T, m <= n
      PROVE  InputTo(g, m) <= InputTo(g, n) /\ OutputTo(g, m) <= OutputTo(g, n)
  BY <1>2, <1>3, <1>6, SumsClimb
<1>7. InputTo(g, 0) = 0 /\ OutputTo(g, 0) = 0
  BY <1>2, <1>4, SumsClimb
<1> QED
  BY <1>2, <1>4, <1>5, <1>6, <1>7

\* A record that ends a block is where the blocks up to it end.
LEMMA EndOfEnd ==
  ASSUME NEW g \in Folder, NEW k \in 1..Len(Flat(g)), Flat(g)[k].out # 0
  PROVE  Ended(g, k) \in 1..Total(g) /\ EndOf(g, Ended(g, k)) = k
<1> DEFINE L == Len(Flat(g))
           e == Ended(g, k)
<1>1. L \in Nat /\ k \in 0..L /\ k - 1 \in 0..L /\ L \in 0..L /\ k <= L
  BY FlatLen
<1>2. e \in Nat /\ e <= Total(g) /\ Total(g) \in Nat
  BY <1>1, EndedClimbs, EndedNext
<1>3. e = Ended(g, k - 1) + 1 /\ Ended(g, k - 1) \in Nat
  BY <1>1, EndedNext, EndedClimbs
<1>4. e \in 1..Total(g)
  BY <1>2, <1>3
<1>5. EndOf(g, e) \in 1..L /\ \A j \in 0..L : j < EndOf(g, e) <=> Ended(g, j) < e
  BY <1>4, EndOfIs
<1>6. ~(k < EndOf(g, e)) /\ k - 1 < EndOf(g, e)
  <2>1. Ended(g, k - 1) < e /\ ~(Ended(g, k) < e)
    BY <1>2, <1>3
  <2> QED
    BY <1>1, <1>5, <2>1
<1> QED
  BY <1>1, <1>4, <1>5, <1>6

-----------------------------------------------------------------------------
(* Parts and blocks.                                                        *)

LEMMA BlocksToClimbs ==
  ASSUME NEW g \in Folder
  PROVE  /\ BlocksTo(g)[0] = 0
         /\ \A p \in 1..Len(Parts[g]) : BlocksTo(g)[p] = BlocksTo(g)[p - 1] + (Len(Parts[g][p]) - 1)
         /\ \A p \in 0..Len(Parts[g]) : BlocksTo(g)[p] \in Nat
         /\ \A p, q \in 0..Len(Parts[g]) : p <= q => BlocksTo(g)[p] <= BlocksTo(g)[q]
<1> DEFINE P == Len(Parts[g])
           a == [p \in DOMAIN Parts[g] |-> Len(Parts[g][p]) - 1]
           o == BlocksTo(g)
<1>1. P \in Nat /\ DOMAIN Parts[g] = 1..P
  <2>1. Parts[g] \in Seq(Seq(CFDATA))
    BY FolderType
  <2> QED
    BY <2>1
<1>2. \A p \in 1..P : a[p] = Len(Parts[g][p]) - 1 /\ a[p] \in Nat
  BY <1>1, PartType
<1>3. a \in [1..P -> Int]
  BY <1>1, PartType
<1>4. o = SumTo(a)
  BY DEF BlocksTo
<1> HIDE DEF a, o
<1>5. a \in Seq(Int) /\ Len(a) = P
  <2> HIDE DEF P
  <2> QED
    BY <1>1, <1>3
<1>6. o[0] = 0 /\ \A p \in 1..P : o[p] = o[p - 1] + a[p]
  BY <1>4, <1>5, SumNext
<1> HIDE DEF P
<1>7. /\ \A i \in 0..P : o[i] \in Nat
      /\ \A i, j \in 0..P : i <= j => o[i] <= o[j]
  BY <1>1, <1>2, <1>6, Climbs
<1> QED
  BY <1>2, <1>6, <1>7 DEF P, o

\* Ahead of a fragment every record ends a block.
LEMMA EndedInPart ==
  ASSUME NEW g \in Folder, NEW p \in 1..Len(Parts[g]), NEW b \in Nat,
         Ended(g, Off(g, p - 1)) = b
  PROVE  \A i \in 0..Len(Parts[g][p]) - 1 : Ended(g, Off(g, p - 1) + i) = b + i
<1> DEFINE N == Len(Parts[g][p]) - 1
           k == Off(g, p - 1)
           G == {i \in 0..N : Ended(g, k + i) = b + i}
<1>1. N \in Nat /\ k \in Nat
  <2>1. p - 1 \in 0..Len(Parts[g])
    BY FolderType
  <2>2. k \in Nat
    BY <2>1, FlatType
  <2>3. N \in Nat
    <3>1. Len(Parts[g][p]) \in Nat \ {0}
      BY PartType
    <3> QED
      BY <3>1
  <2> QED
    BY <2>2, <2>3
<1>2. 0 \in G
  <2>1. k + 0 = k /\ b + 0 = b
    BY <1>1
  <2> HIDE DEF k
  <2> QED
    BY <1>1, <2>1 DEF k
<1>3. ASSUME NEW i \in 0..N - 1, i \in G PROVE i + 1 \in G
  <2>1. i + 1 \in 1..Len(Parts[g][p]) /\ i + 1 # Len(Parts[g][p]) /\ i + 1 \in 0..N
    BY <1>1
  <2> DEFINE m == i + 1
  <2>2. /\ k + m \in 1..Len(Flat(g)) /\ Flat(g)[k + m] = Parts[g][p][m]
        /\ Parts[g][p][m].out # 0
    <3>1. m \in 1..Len(Parts[g][p]) /\ m # Len(Parts[g][p])
      BY <2>1
    <3> HIDE DEF m
    <3>2. k + m \in 1..Len(Flat(g)) /\ Flat(g)[k + m] = Parts[g][p][m]
      BY <3>1, FlatAt
    <3>3. Parts[g][p][m].out # 0
      BY <3>1, PartType
    <3> QED
      BY <3>2, <3>3
  <2>3. (k + (i + 1)) - 1 = k + i
    BY <1>1
  <2> HIDE DEF k
  <2>4. Ended(g, k + (i + 1)) = Ended(g, (k + (i + 1)) - 1) + (IF Flat(g)[k + (i + 1)].out # 0 THEN 1 ELSE 0)
    BY <2>2, EndedNext
  <2>5. Ended(g, k + i) = b + i
    BY <1>3
  <2>6. Ended(g, k + (i + 1)) = b + (i + 1)
    BY <2>2, <2>3, <2>4, <2>5
  <2> QED
    BY <2>1, <2>6
<1>4. 0..N \subseteq G
  <2> HIDE DEF G, N
  <2> QED
    BY <1>1, <1>2, <1>3, UpTo
<1> QED
  BY <1>4

LEMMA EndedPart ==
  ASSUME NEW g \in Folder, NEW p \in 1..Len(Parts[g])
  PROVE  /\ \A i \in 0..Len(Parts[g][p]) - 1 : Ended(g, Off(g, p - 1) + i) = BlocksTo(g)[p - 1] + i
         /\ Ended(g, Off(g, p)) = BlocksTo(g)[p] + (IF p = Len(Parts[g]) THEN 1 ELSE 0)
<1> DEFINE P == Len(Parts[g])
           After(q) == Ended(g, Off(g, q)) = BlocksTo(g)[q] + (IF q = P THEN 1 ELSE 0)
           G == {q \in 0..P - 1 : Ended(g, Off(g, q)) = BlocksTo(g)[q]}
<1>1. P \in Nat \ {0}
  BY FolderType
<1>2. 0 \in G
  BY <1>1, OffNext, EndedNext, BlocksToClimbs
<1>3. ASSUME NEW q \in 1..P, Ended(g, Off(g, q - 1)) = BlocksTo(g)[q - 1]
      PROVE  After(q)
  <2> DEFINE n == Len(Parts[g][q])
             k == Off(g, q - 1)
             b == BlocksTo(g)[q - 1]
  <2>1. /\ n \in Nat \ {0} /\ b \in Nat /\ q - 1 \in 0..P /\ k \in Nat
        /\ BlocksTo(g)[q] = b + (n - 1) /\ Off(g, q) = k + n
    <3>1. q - 1 \in 0..P
      BY <1>1
    <3> QED
      BY <3>1, PartType, FlatType, OffNext, BlocksToClimbs
  <2>2. Ended(g, k + (n - 1)) = b + (n - 1)
    <3>1. n - 1 \in 0..n - 1
      BY <2>1
    <3> QED
      BY <1>3, <2>1, <3>1, EndedInPart
  <2>3. /\ k + n \in 1..Len(Flat(g)) /\ Flat(g)[k + n] = Parts[g][q][n]
        /\ Parts[g][q][n].out = 0 <=> q < P
    <3>1. n \in 1..Len(Parts[g][q])
      BY <2>1
    <3>2. k + n \in 1..Len(Flat(g)) /\ Flat(g)[k + n] = Parts[g][q][n]
      <4> HIDE DEF n
      <4> QED
        BY <3>1, FlatAt
    <3>3. Parts[g][q][n].out = 0 <=> q < Len(Parts[g]) /\ n = Len(Parts[g][q])
      BY <3>1, PartType
    <3> QED
      BY <3>2, <3>3
  <2> HIDE DEF n, k, b
  <2>4. (k + n) - 1 = k + (n - 1)
    BY <2>1
  <2>5. Ended(g, k + n) = Ended(g, (k + n) - 1) + (IF Flat(g)[k + n].out # 0 THEN 1 ELSE 0)
    BY <2>3, EndedNext
  <2>6. q < P <=> q # P
    BY <1>1
  <2> QED
    BY <2>1, <2>2, <2>3, <2>4, <2>5, <2>6
<1>4. ASSUME NEW q \in 0..(P - 1) - 1, q \in G PROVE q + 1 \in G
  <2>1. q + 1 \in 1..P /\ (q + 1) - 1 = q /\ q + 1 # P /\ q + 1 \in 0..P - 1
    BY <1>1
  <2>2. After(q + 1)
    BY <1>3, <1>4, <2>1
  <2>3. BlocksTo(g)[q + 1] \in Nat
    BY <2>1, BlocksToClimbs
  <2> QED
    BY <2>1, <2>2, <2>3
<1>5. 0..P - 1 \subseteq G
  <2>1. P - 1 \in Nat
    BY <1>1
  <2> HIDE DEF G, P
  <2> QED
    BY <1>2, <1>4, <2>1, UpTo
<1>6. p - 1 \in 0..P - 1 /\ p - 1 \in 0..P
  BY <1>1
<1>7. Ended(g, Off(g, p - 1)) = BlocksTo(g)[p - 1] /\ BlocksTo(g)[p - 1] \in Nat
  BY <1>5, <1>6, BlocksToClimbs
<1>8. After(p)
  BY <1>3, <1>7
<1> QED
  BY <1>7, <1>8, EndedInPart

\* The records read of folder g by a decoder that stands at record i of part p.
ReadTo(g, p, i) == Off(g, p - 1) + (i - 1)

\* i is a record of part p, or, in the last part, behind them all.
Place(g, p, i) ==
  /\ p \in 1..Len(Parts[g]) /\ i \in 1..Len(Parts[g][p]) + 1
  /\ p < Len(Parts[g]) => i <= Len(Parts[g][p])

LEMMA PlaceType ==
  ASSUME NEW g \in Folder, NEW p, NEW i, Place(g, p, i)
  PROVE  /\ ReadTo(g, p, i) \in 0..Len(Flat(g))
         /\ i <= Len(Parts[g][p]) =>
              /\ ReadTo(g, p, i) + 1 \in 1..Len(Flat(g)) /\ i \in DOMAIN Parts[g][p]
              /\ Flat(g)[ReadTo(g, p, i) + 1] = Parts[g][p][i]
              /\ ReadTo(g, p, i + 1) = ReadTo(g, p, i) + 1
              /\ Parts[g][p][i].out # 0 => Place(g, p, i + 1)
              /\ Parts[g][p][i].out = 0 =>
                   /\ p < Len(Parts[g])
                   /\ Place(g, p + 1, 1) /\ ReadTo(g, p + 1, 1) = ReadTo(g, p, i) + 1
         /\ ~(i <= Len(Parts[g][p])) =>
              p = Len(Parts[g]) /\ i = Len(Parts[g][p]) + 1 /\ ReadTo(g, p, i) = Len(Flat(g))
<1> DEFINE P == Len(Parts[g])
           n == Len(Parts[g][p])
           k == Off(g, p - 1)
<1>1. /\ p \in 1..P /\ i \in 1..n + 1 /\ (p < P => i <= n) /\ P \in Nat
      /\ p - 1 \in 0..P /\ p \in 0..P
  BY FolderType DEF Place
<1>2. /\ n \in Nat \ {0} /\ k \in Nat /\ Parts[g][p] \in Seq(CFDATA)
      /\ Off(g, p) = k + n /\ Len(Flat(g)) \in Nat /\ Off(g, P) = Len(Flat(g))
      /\ Off(g, p) <= Len(Flat(g))
  BY <1>1, PartType, FlatType, FlatLen, OffNext, FlatPrefix
<1>3. ReadTo(g, p, i) = k + (i - 1) /\ ReadTo(g, p, i + 1) = k + ((i + 1) - 1)
  BY DEF ReadTo
<1>4. CASE i <= n
  <2>1. i \in 1..n
    BY <1>1, <1>2, <1>4
  <2>2. /\ k + i \in 1..Len(Flat(g)) /\ Flat(g)[k + i] = Parts[g][p][i]
        /\ Parts[g][p][i].out = 0 <=> p < P /\ i = n
    BY <1>1, <2>1, FlatAt, PartType
  <2>3. DOMAIN Parts[g][p] = 1..n
    BY <1>2
  <2> HIDE DEF P, n, k
  <2>4. /\ ReadTo(g, p, i) \in 0..Len(Flat(g)) /\ ReadTo(g, p, i) + 1 = k + i
        /\ ReadTo(g, p, i + 1) = ReadTo(g, p, i) + 1
    BY <1>1, <1>2, <1>3, <2>1, <2>2
  <2>5. ASSUME Parts[g][p][i].out # 0 PROVE Place(g, p, i + 1)
    <3>1. i + 1 \in 1..n + 1 /\ (p < P => i + 1 <= n)
      BY <1>1, <1>2, <2>1, <2>2, <2>5
    <3> QED
      BY <1>1, <3>1 DEF Place, P, n
  <2>6. ASSUME Parts[g][p][i].out = 0
        PROVE  p < P /\ Place(g, p + 1, 1) /\ ReadTo(g, p + 1, 1) = ReadTo(g, p, i) + 1
    <3>1. p < P /\ i = n /\ p + 1 \in 1..P /\ (p + 1) - 1 = p
      BY <1>1, <2>2, <2>6
    <3>2. Len(Parts[g][p + 1]) \in Nat \ {0}
      BY <3>1, PartType DEF P
    <3>3. Place(g, p + 1, 1)
      <4>1. 1 \in 1..Len(Parts[g][p + 1]) + 1 /\ 1 <= Len(Parts[g][p + 1])
        BY <3>2
      <4> QED
        BY <3>1, <4>1 DEF Place, P
    <3>4. ReadTo(g, p + 1, 1) = Off(g, p) + (1 - 1)
      BY <3>1 DEF ReadTo
    <3>5. ReadTo(g, p + 1, 1) = ReadTo(g, p, i) + 1
      BY <1>1, <1>2, <2>4, <3>1, <3>4
    <3> QED
      BY <3>1, <3>3, <3>5
  <2>7. i <= n /\ i \in 1..n
    BY <1>4, <2>1 DEF n
  <2> QED
    BY <2>2, <2>3, <2>4, <2>5, <2>6, <2>7 DEF P, n
<1>5. CASE ~(i <= n)
  <2>1. i = n + 1 /\ p = P
    BY <1>1, <1>2, <1>5
  <2>2. ReadTo(g, p, i) = Len(Flat(g))
    <3> HIDE DEF n, k, P
    <3> QED
      BY <1>2, <1>3, <2>1
  <2>3. ReadTo(g, p, i) \in 0..Len(Flat(g))
    BY <1>2, <2>2
  <2> QED
    BY <1>5, <2>1, <2>2, <2>3
<1> QED
  BY <1>4, <1>5

\* Where the blocks that have been announced run out: in the block that is
\* the folder's last, and only when all its parts are there.
LEMMA OutOfBlocks ==
  ASSUME NEW g \in Folder, NEW p, NEW i, Place(g, p, i),
         NEW q \in 1..Len(Parts[g]), p <= q
  PROVE  /\ q = Len(Parts[g]) => 1 + BlocksTo(g)[q] = Total(g)
         /\ BlocksTo(g)[q] \in Nat /\ Ended(g, ReadTo(g, p, i)) \in Nat
         /\ Ended(g, ReadTo(g, p, i)) <= 1 + BlocksTo(g)[q]
         /\ Ended(g, ReadTo(g, p, i)) < 1 + BlocksTo(g)[q] => i <= Len(Parts[g][p])
         /\ Ended(g, ReadTo(g, p, i)) >= 1 + BlocksTo(g)[q] =>
              q = Len(Parts[g]) /\ ReadTo(g, p, i) = Len(Flat(g)) /\ ~(i <= Len(Parts[g][p]))
         /\ /\ i <= Len(Parts[g][p]) /\ Parts[g][p][i].out # 0
            /\ Ended(g, ReadTo(g, p, i)) + 1 >= 1 + BlocksTo(g)[q]
            => q = Len(Parts[g]) /\ ReadTo(g, p, i) + 1 = Len(Flat(g))
         /\ i <= Len(Parts[g][p]) /\ q = Len(Parts[g]) /\ ReadTo(g, p, i) + 1 = Len(Flat(g))
            => Ended(g, ReadTo(g, p, i)) + 1 >= 1 + BlocksTo(g)[q]
<1> DEFINE P == Len(Parts[g])
           n == Len(Parts[g][p])
           L == Len(Flat(g))
           k == ReadTo(g, p, i)
<1>1. /\ p \in 1..P /\ i \in 1..n + 1 /\ (p < P => i <= n) /\ P \in Nat
      /\ p - 1 \in 0..P /\ p \in 0..P /\ q \in 0..P /\ P \in 1..P
  BY FolderType DEF Place
<1>2. /\ n \in Nat \ {0} /\ Off(g, p - 1) \in Nat /\ Off(g, p) = Off(g, p - 1) + n
      /\ L \in Nat \ {0} /\ Off(g, P) = L
  BY <1>1, PartType, FlatType, FlatLen, OffNext
<1>3. /\ BlocksTo(g)[q] \in Nat /\ BlocksTo(g)[p] \in Nat /\ BlocksTo(g)[p - 1] \in Nat
      /\ BlocksTo(g)[p] <= BlocksTo(g)[q]
      /\ BlocksTo(g)[p] = BlocksTo(g)[p - 1] + (n - 1)
  BY <1>1, BlocksToClimbs
<1>4. q = P => 1 + BlocksTo(g)[q] = Total(g)
  <2>1. Ended(g, Off(g, P)) = BlocksTo(g)[P] + 1
    BY <1>1, EndedPart
  <2>2. Ended(g, L) = Total(g)
    BY EndedNext
  <2> HIDE DEF P
  <2> QED
    BY <1>2, <1>3, <2>1, <2>2
<1>5. CASE i <= n
  <2>1. Ended(g, k) = BlocksTo(g)[p - 1] + (i - 1)
    <3>1. i - 1 \in 0..n - 1
      BY <1>1, <1>2, <1>5
    <3> QED
      BY <1>1, <3>1, EndedPart DEF ReadTo
  <2>2. Parts[g][p][i].out = 0 <=> p < P /\ i = n
    <3>1. i \in 1..n
      BY <1>1, <1>2, <1>5
    <3> QED
      BY <1>1, <3>1, PartType
  <2>3. k = Off(g, p - 1) + (i - 1)
    BY DEF ReadTo
  <2>4. k + 1 = L => Ended(g, k) + 1 >= Total(g)
    <3>1. ASSUME k + 1 = L PROVE Ended(g, k) + 1 >= Total(g)
      <4>1. L \in 1..L /\ L - 1 = k /\ L - 1 \in 0..L
        <5>1. k \in Int
          BY <1>1, <1>2, <2>3
        <5> HIDE DEF k, L
        <5> QED
          BY <1>2, <3>1, <5>1
      <4>2. Ended(g, L) = Ended(g, L - 1) + (IF Flat(g)[L].out # 0 THEN 1 ELSE 0)
        BY <4>1, EndedNext
      <4>3. Ended(g, L) = Total(g) /\ Flat(g)[L].out # 0
        BY EndedNext, FlatLen
      <4>4. Ended(g, L - 1) \in Nat
        BY <4>1, EndedClimbs
      <4> QED
        BY <4>1, <4>2, <4>3, <4>4
    <3> QED
      BY <3>1
  <2> HIDE DEF P, n, L, k
  <2>5. Ended(g, k) \in Nat /\ Ended(g, k) <= BlocksTo(g)[p]
    BY <1>1, <1>2, <1>3, <1>5, <2>1
  <2>6. Parts[g][p][i].out # 0 /\ Ended(g, k) + 1 >= 1 + BlocksTo(g)[q] => q = P /\ k + 1 = L
    <3>1. ASSUME Parts[g][p][i].out # 0, Ended(g, k) + 1 >= 1 + BlocksTo(g)[q]
          PROVE  q = P /\ k + 1 = L
      <4>1. i = n
        BY <1>1, <1>2, <1>3, <1>5, <2>1, <3>1
      <4>2. p = P
        BY <1>1, <2>2, <3>1, <4>1
      <4>3. q = P
        BY <1>1, <4>2
      <4>4. Off(g, p) = L
        BY <1>2, <4>2
      <4>5. k + 1 = Off(g, p - 1) + n
        BY <1>2, <2>3, <4>1
      <4>6. k + 1 = L
        BY <1>2, <4>4, <4>5
      <4> QED
        BY <4>3, <4>6
    <3> QED
      BY <3>1
  <2>7. k + 1 = L /\ q = P => Ended(g, k) + 1 >= 1 + BlocksTo(g)[q]
    BY <1>4, <2>4
  <2>8. ~(Ended(g, k) >= 1 + BlocksTo(g)[q]) /\ Ended(g, k) <= 1 + BlocksTo(g)[q]
    BY <1>3, <2>5
  <2> QED
    BY <1>3, <1>4, <1>5, <2>5, <2>6, <2>7, <2>8 DEF P, n, L, k
<1>6. CASE ~(i <= n)
  <2>1. p = P /\ q = P /\ k = L
    BY <1>1, <1>6, PlaceType
  <2>2. Ended(g, k) = 1 + BlocksTo(g)[q] /\ Ended(g, k) \in Nat
    <3>1. Ended(g, L) = Total(g) /\ Total(g) \in Nat
      BY EndedNext, EndedClimbs
    <3> HIDE DEF k, L
    <3> QED
      BY <1>4, <2>1, <3>1
  <2> HIDE DEF k, L, n, P
  <2>3. /\ Ended(g, k) <= 1 + BlocksTo(g)[q] /\ ~(Ended(g, k) < 1 + BlocksTo(g)[q])
    BY <1>3, <2>2
  <2> QED
    BY <1>3, <1>4, <1>6, <2>1, <2>2, <2>3 DEF k, L, n, P
<1> QED
  BY <1>5, <1>6

-----------------------------------------------------------------------------
(* The second invariant: where the decoder is and what it has written.     *)

\* The decoder is set up, and since then nothing has failed in it.
Good == codec.init /\ (IF IsCodec THEN codec.error = "OK" ELSE ~missed)

\* how many records of the folder have been read, and whether a read is damaged
Here == ReadTo(d.folder, d.part, d.infh)
Undamaged == ~param.salvage \/ \A i \in DOMAIN Flat(d.folder) : Flat(d.folder)[i].sum

\* the units that the decompressor has been given
Taken == IF IsCodec THEN codec.got - (IF codec.eof THEN 1 ELSE 0) ELSE d.offset

Reading == pc \in {"read", "block", "got"}
Asked == IF IsCodec THEN param.decompbuf ELSE RunLength

\* The data blocks are read in order, and what was read of them was given to
\* the decompressor, is on its way to it or is left for the next time.
InStream ==
  /\ codec.init => Loaded(d.folder) >= 1
  /\ ~Reading => call.buf = <<>>
  /\ Good =>
       /\ d.part <= Loaded(d.folder) /\ Place(d.folder, d.part, d.infh)
       /\ IF pc = "block"
            THEN /\ d.block = Ended(d.folder, Here) + 1
                 /\ d.infh <= Len(Parts[d.folder][d.part])
                 /\ Len(d.input) = InputSum(d.folder)[Here] - InputTo(d.folder, d.block - 1)
            ELSE /\ \/ d.block = Ended(d.folder, Here)
                    \/ Here = Len(Flat(d.folder)) /\ d.block = Ended(d.folder, Here) + 1
                 /\ Here # 0 => Flat(d.folder)[Here].out # 0
       /\ d.outlen = OutputSum(d.folder)[Here]
       /\ Taken + Len(call.buf) + Len(d.input) = InputSum(d.folder)[Here]
       /\ Reading => Len(call.buf) + call.todo = Asked
       /\ pc = "got" /\ call.todo > 0 => Here = Len(Flat(d.folder)) /\ d.input = <<>>

\* Stored data are in their place, and there is no damage but in salvage mode.
UnitsRight ==
  Good =>
    /\ Undamaged => /\ ~codec.junk
                    /\ \A j \in DOMAIN call.buf : call.buf[j] # 0
                    /\ \A j \in DOMAIN d.input : d.input[j] # 0
    /\ ~IsCodec =>
         /\ \A j \in DOMAIN call.buf : call.buf[j] \in {0, d.offset + j}
         /\ \A j \in DOMAIN d.input : d.input[j] \in {0, d.offset + Len(call.buf) + j}

\* A codec makes no more than the blocks that it has the input of, one frame
\* after the other, and writes it in that order; MSZIP makes what it likes once
\* it has been given damaged data.
InStep ==
  Good /\ IsCodec =>
    /\ d.offset = codec.sent /\ codec.sent <= codec.made
    /\ ~Damaged => codec.made <= Yield(d.folder, codec.frames)
    /\ codec.length \in {0, OutputTo(d.folder, Total(d.folder))}
    /\ IsLzx /\ Here = Len(Flat(d.folder)) => codec.length = OutputTo(d.folder, Total(d.folder))
    /\ codec.eof => Here = Len(Flat(d.folder))
    /\ codec.need > 0 /\ codec.need <= InputTo(d.folder, Total(d.folder)) + 1 =>
         codec.size <= Yield(d.folder, codec.frames + 1) - Yield(d.folder, codec.frames)
    /\ IsLzx => codec.made <= codec.frames * BLOCKMAX /\ codec.size <= BLOCKMAX
    /\ Reading => codec.sent = codec.made
    /\ pc = "frames" =>
         codec.sent = codec.made \/ (call.want = 0 /\ codec.need = 0 /\ ~WantsFrame)

\* The call under way has the file it was given, and so much of it is left.
Progress ==
  pc # "idle" =>
    /\ call.file \in File /\ d.folder = FileAt[call.file].folder
    /\ FileAt[call.file].offset <= LENGTHMAX /\ (TooLong(call.file) => param.salvage)
    /\ call.len = FileLen(call.file)
    /\ call.phase = "skip" => /\ out = <<>>
                              /\ Good => d.offset + call.want = FileAt[call.file].offset
    /\ call.phase = "write" /\ Good =>
         /\ d.offset = FileAt[call.file].offset + Len(out)
         /\ Len(out) + call.want = call.len

\* What has been written is in its place, and exact but in salvage mode.
OutExact ==
  call.file # NULL /\ ~param.salvage /\ ~(Method[FileAt[call.file].folder] = "none" /\ missed) =>
    \A i \in DOMAIN out : out[i] = FileAt[call.file].offset + i

Full ==
  /\ Inv /\ TypeOK
  /\ InStream /\ UnitsRight /\ InStep
  /\ Progress /\ OutputInPlace /\ OutExact /\ ExactOrError

-----------------------------------------------------------------------------
LEMMA Ranges ==
  /\ \A a, b \in Int : MinOf(a, b) \in {a, b} /\ MinOf(a, b) <= a /\ MinOf(a, b) <= b
  /\ 0 # NULL /\ \A n \in Nat : n # NULL
BY CabExtractAssumption DEF MinOf, CabExtractAssumption

LEMMA LoadedRange ==
  ASSUME Full, codec.init
  PROVE  /\ d.folder \in Folder /\ Loaded(d.folder) \in 1..Len(Parts[d.folder])
         /\ NumBlocks(d.folder) = 1 + BlocksTo(d.folder)[Loaded(d.folder)]
         /\ NumBlocks(d.folder) \in Nat
<1>1. d.folder \in Folder /\ cabs \in Nat /\ Loaded(d.folder) >= 1
  BY DEF Full, Inv, InFolder, Typed, InStream
<1>2. Loaded(d.folder) \in Int /\ Loaded(d.folder) <= Len(Parts[d.folder])
      /\ Len(Parts[d.folder]) \in Nat
  BY <1>1, LoadedType, FolderType
<1>3. Loaded(d.folder) \in 1..Len(Parts[d.folder]) /\ Loaded(d.folder) \in 0..Len(Parts[d.folder])
  BY <1>1, <1>2
<1>4. BlocksTo(d.folder)[Loaded(d.folder)] \in Nat
  BY <1>1, <1>3, BlocksToClimbs
<1> QED
  BY <1>1, <1>3, <1>4 DEF NumBlocks

\* Where a decoder is that nothing has gone wrong in.
LEMMA Standing ==
  ASSUME Full, Good
  PROVE  /\ d.folder \in Folder /\ d.part \in 1..Len(Parts[d.folder]) /\ d.part <= Loaded(d.folder)
         /\ Place(d.folder, d.part, d.infh) /\ d.infh \in Nat \ {0} /\ d.infh # NULL
         /\ Here \in 0..Len(Flat(d.folder)) /\ Len(Flat(d.folder)) \in Nat
         /\ InputSum(d.folder)[Here] \in Nat /\ OutputSum(d.folder)[Here] \in Nat
         /\ Ended(d.folder, Here) \in Nat
<1>1. d.folder \in Folder /\ d.part <= Loaded(d.folder) /\ Place(d.folder, d.part, d.infh)
  BY LoadedRange DEF Full, Good, InStream
<1>2. d.part \in 1..Len(Parts[d.folder]) /\ d.infh \in 1..Len(Parts[d.folder][d.part]) + 1
  BY <1>1 DEF Place
<1>3. d.infh \in Nat \ {0}
  BY <1>2
<1>4. Here \in 0..Len(Flat(d.folder)) /\ Len(Flat(d.folder)) \in Nat
  BY <1>1, PlaceType, FlatLen DEF Here
<1> QED
  BY <1>1, <1>2, <1>3, <1>4, Ranges, SumsClimb, EndedClimbs

\* The record that a block is read from.
LEMMA NextRecord ==
  ASSUME Full, Good, pc = "block", NEW r \in Records
  PROVE  /\ r = Parts[d.folder][d.part][d.infh] /\ Here + 1 \in 1..Len(Flat(d.folder))
         /\ d.infh <= Len(Parts[d.folder][d.part])
         /\ r = Flat(d.folder)[Here + 1] /\ r \in CFDATA
         /\ InputSum(d.folder)[Here + 1] = InputSum(d.folder)[Here] + Len(r.data)
         /\ OutputSum(d.folder)[Here + 1] = OutputSum(d.folder)[Here] + r.out
         /\ Ended(d.folder, Here + 1) = Ended(d.folder, Here) + (IF r.out # 0 THEN 1 ELSE 0)
<1>1. Place(d.folder, d.part, d.infh) /\ d.infh <= Len(Parts[d.folder][d.part])
      /\ d.folder \in Folder /\ d.infh # NULL /\ Here \in 0..Len(Flat(d.folder))
  BY Standing DEF Full, InStream
<1>2. /\ Here + 1 \in 1..Len(Flat(d.folder)) /\ d.infh \in DOMAIN Parts[d.folder][d.part]
      /\ Flat(d.folder)[Here + 1] = Parts[d.folder][d.part][d.infh]
  BY <1>1, PlaceType DEF Here
<1>3. r = Parts[d.folder][d.part][d.infh]
  BY <1>1, <1>2 DEF Records
<1>4. (Here + 1) - 1 = Here
  BY <1>1
<1> DEFINE k == Here + 1
<1>5. /\ InputSum(d.folder)[k] = InputSum(d.folder)[k - 1] + Len(Flat(d.folder)[k].data)
      /\ OutputSum(d.folder)[k] = OutputSum(d.folder)[k - 1] + Flat(d.folder)[k].out
      /\ Flat(d.folder)[k] \in CFDATA
      /\ Ended(d.folder, k) = Ended(d.folder, k - 1) + (IF Flat(d.folder)[k].out # 0 THEN 1 ELSE 0)
  BY <1>1, <1>2, SumsClimb, EndedNext
<1>6. k - 1 = Here /\ Flat(d.folder)[k] = r
  BY <1>2, <1>3, <1>4
<1> HIDE DEF k
<1> QED
  BY <1>1, <1>2, <1>3, <1>5, <1>6 DEF k

\* What a record holds is not damaged unless its checksum says so, and in
\* place if it is stored.
LEMMA RecordUnits ==
  ASSUME NEW g \in Folder, NEW k \in 1..Len(Flat(g)), NEW j \in DOMAIN Flat(g)[k].data
  PROVE  /\ Flat(g)[k].sum => Flat(g)[k].data[j] # 0
         /\ Method[g] = "none" => Flat(g)[k].data[j] \in {0, InputSum(g)[k - 1] + j}
<1>1. k \in DOMAIN Flat(g)
  BY FlatLen
<1> QED
  BY <1>1, LayoutAssumption DEF LayoutAssumption

-----------------------------------------------------------------------------
(* Types.                                                                   *)

LEMMA PhaseType ==
  ASSUME TypeOK, NEW phase \in {"skip", "write"}, NEW want \in Nat
  PROVE  Phase(phase, want) \in Call
<1>1. <<>> \in Seq(Nat) /\ 0 \in Nat
  OBVIOUS
<1> QED
  BY <1>1 DEF TypeOK, Call, Phase

LEMMA FinishType ==
  ASSUME TypeOK, NEW e \in Errors, NEW re \in Errors \ {"WRITE"}, Finish(e, re)
  PROVE  /\ readErr' \in Errors \ {"WRITE"} /\ error' \in Errors /\ missed' \in BOOLEAN
         /\ call' \in Call /\ pc' \in {"idle", "decompress"}
<1>1. call.phase \in {"skip", "write"} /\ call.len \in Nat
  BY DEF TypeOK, Call
<1>2. call' \in {Phase("write", call.len), Phase(call.phase, 0)} /\ pc' \in {"idle", "decompress"}
  BY DEF Finish
<1>3. call' \in Call
  BY <1>1, <1>2, PhaseType
<1>4. Mapped(e, re) \in Errors
  BY DEF Mapped
<1>5. missed' = (missed \/ e = "READ") /\ readErr' = re /\ error' = Mapped(e, re)
  BY DEF Finish
<1>6. missed' \in BOOLEAN
  BY <1>5
<1> QED
  BY <1>2, <1>3, <1>4, <1>5, <1>6

LEMMA FaultType ==
  ASSUME TypeOK, Fault \/ NoFault \/ UNCHANGED <<faults, clean>>
  PROVE  faults' \in 0..MaxFaults /\ clean' \in BOOLEAN
<1>1. MaxFaults \in Nat /\ faults \in 0..MaxFaults
  BY CabExtractAssumption DEF CabExtractAssumption, TypeOK
<1>2. CASE Fault
  <2>1. faults < MaxFaults /\ faults' = faults + 1 /\ clean' = FALSE
    BY <1>2 DEF Fault
  <2>2. faults' \in 0..MaxFaults
    BY <1>1, <2>1
  <2> QED
    BY <2>1, <2>2
<1>3. CASE UNCHANGED <<faults, clean>>
  BY <1>3 DEF TypeOK
<1> QED
  BY <1>2, <1>3 DEF NoFault

LEMMA AskType ==
  ASSUME TypeOK, NEW n \in Nat, Ask(n)
  PROVE  /\ readErr' \in Errors \ {"WRITE"} /\ error' \in Errors /\ missed' \in BOOLEAN
         /\ call' \in Call /\ pc' = "read"
<1>1. <<>> \in Seq(Nat)
  OBVIOUS
<1>2. call' = [call EXCEPT !.todo = n, !.buf = <<>>] /\ call \in Call
  BY DEF Ask, TypeOK
<1>3. call' \in Call
  BY <1>1, <1>2 DEF Call
<1> QED
  BY <1>3 DEF Ask, TypeOK

LEMMA WriteType ==
  ASSUME TypeOK, NEW data \in Seq(Nat), Write(data)
  PROVE  d' \in State /\ out' \in Seq(Nat)
<1>1. Len(data) \in Nat /\ d \in State /\ out \in Seq(Nat)
  BY DEF TypeOK
<1>2. out \o data \in Seq(Nat)
  BY <1>1, ConcatProperties
<1>3. d' = [d EXCEPT !.offset = @ + Len(data)] /\ d.offset + Len(data) \in Nat
  BY <1>1 DEF Write, State
<1> QED
  BY <1>1, <1>2, <1>3 DEF Write, State

LEMMA WriteFailsType ==
  ASSUME TypeOK, NEW n \in Nat, WriteFails(n)
  PROVE  d' \in State /\ out' \in Seq(Nat)
<1>1. d \in State /\ d' = [d EXCEPT !.offset = @ + n] /\ out' = out
  BY DEF TypeOK, WriteFails
<1>2. d.offset + n \in Nat
  BY <1>1 DEF State
<1> QED
  BY <1>1, <1>2 DEF State, TypeOK

LEMMA JoinType ==
  ASSUME TypeOK, Join
  PROVE  TypeOK'
BY CabExtractAssumption DEF CabExtractAssumption, TypeOK, Join

\* "TooLong" files are cut so that they end at the limit.
LEMMA AcceptedType ==
  ASSUME TypeOK, NEW f \in File, Accepted(f)
  PROVE  FileLen(f) \in Nat
BY FileType, LengthType DEF Accepted, FileLen

LEMMA RefuseType ==
  ASSUME TypeOK, NEW f \in File, Refuse(f)
  PROVE  TypeOK'
<1>1. call' \in Call
  BY DEF Refuse, TypeOK, Call
<1>2. <<>> \in Seq(Nat) /\ error' \in Errors
  BY DEF Refuse, Errors
<1> QED
  BY <1>1, <1>2 DEF Refuse, TypeOK

LEMMA NewCodecType ==
  ASSUME NEW on \in BOOLEAN
  PROVE  NewCodec(on) \in Codec
BY DEF NewCodec, Codec, Errors

LEMMA CabOfType ==
  ASSUME NEW g \in Folder, NEW p \in Nat \ {0}
  PROVE  CabOf(g, p) \in Nat
BY CabExtractAssumption DEF CabExtractAssumption, CabOf

LEMMA RestartFailsType ==
  ASSUME TypeOK, NEW f \in File, RestartFails(f)
  PROVE  TypeOK'
<1>1. call' = [call EXCEPT !.file = f, !.len = 0] /\ call \in Call
  BY DEF RestartFails, TypeOK
<1>2. call' \in Call
  BY <1>1 DEF Call
<1>3. CabOf(FileAt[f].folder, 1) \in Nat
  BY FileType, CabOfType
<1>4. \E c \in Nat : \E h \in {0, NULL} : d' = [d EXCEPT !.incab = c, !.infh = h]
  BY <1>3 DEF RestartFails
<1>5. d' \in State
  <2>1. PICK c \in Nat, h \in {0, NULL} : d' = [d EXCEPT !.incab = c, !.infh = h]
    BY <1>4
  <2>2. d \in State /\ h \in Nat \cup {NULL}
    BY DEF TypeOK
  <2> QED
    BY <2>1, <2>2 DEF State
<1>6. error' \in Errors /\ <<>> \in Seq(Nat) /\ codec' \in Codec
  <2>1. NewCodec(FALSE) \in Codec
    BY NewCodecType
  <2>2. codec' = NewCodec(FALSE)
    BY DEF RestartFails
  <2>3. error' \in Errors
    BY DEF RestartFails, Errors
  <2>4. <<>> \in Seq(Nat)
    OBVIOUS
  <2> QED
    BY <2>1, <2>2, <2>3, <2>4
<1>7. faults' \in 0..MaxFaults /\ clean' \in BOOLEAN
  BY FaultType DEF RestartFails
<1> QED
  BY <1>2, <1>5, <1>6, <1>7 DEF RestartFails, TypeOK

LEMMA StartType ==
  ASSUME TypeOK, NEW f \in File, Start(f)
  PROVE  TypeOK'
<1> DEFINE g == FileAt[f].folder
           at == IF NeedsRestart(f) THEN 0 ELSE d.offset
           skip == FileAt[f].offset - at
<1>0. Accepted(f)
  BY DEF Start
<1>1. g \in Folder /\ CabOf(g, 1) \in Nat /\ <<>> \in Seq(Nat) /\ FileLen(f) \in Nat
  BY <1>0, FileType, CabOfType, AcceptedType
<1>2. Restarted(g) \in State
  BY <1>1 DEF Restarted, State
<1>3. /\ d' \in State /\ codec' \in Codec /\ readErr' \in Errors \ {"WRITE"}
      /\ missed' \in BOOLEAN
  BY <1>2, NewCodecType DEF Start, TypeOK, Errors
<1>4. skip \in Nat
  <2>1. FileAt[f].offset \in Nat /\ d.offset \in Nat
    BY FileType DEF TypeOK, State
  <2>2. ~NeedsRestart(f) => ~(d.offset > FileAt[f].offset)
    BY DEF NeedsRestart
  <2> QED
    BY <2>1, <2>2
<1>5. call' \in Call
  <2>1. call' = [call EXCEPT !.file = f, !.len = 0]
        \/ call' = [file |-> f, len |-> FileLen(f),
                    phase |-> IF skip = 0 THEN "write" ELSE "skip",
                    want |-> IF skip = 0 THEN FileLen(f) ELSE skip,
                    todo |-> 0, buf |-> <<>>]
    BY DEF Start
  <2> HIDE DEF skip
  <2>2. CASE call' = [call EXCEPT !.file = f, !.len = 0]
    BY <2>2 DEF TypeOK, Call
  <2>3. (IF skip = 0 THEN "write" ELSE "skip") \in {"skip", "write"}
        /\ (IF skip = 0 THEN FileLen(f) ELSE skip) \in Nat /\ 0 \in Nat /\ f \in File \cup {NULL}
    BY <1>1, <1>4
  <2>4. CASE call' # [call EXCEPT !.file = f, !.len = 0]
    <3> DEFINE ph == IF skip = 0 THEN "write" ELSE "skip"
               w == IF skip = 0 THEN FileLen(f) ELSE skip
    <3>1. call' = [file |-> f, len |-> FileLen(f), phase |-> ph, want |-> w,
                   todo |-> 0, buf |-> <<>>]
      BY <2>1, <2>4
    <3>2. ph \in {"skip", "write"} /\ w \in Nat
      BY <2>3
    <3> HIDE DEF ph, w
    <3> QED
      BY <1>1, <3>1, <3>2 DEF Call
  <2> QED
    BY <2>2, <2>4
<1>6. faults' \in 0..MaxFaults /\ clean' \in BOOLEAN
  <2>1. (faults' = faults /\ clean' \in BOOLEAN) \/ Fault
    BY DEF Start
  <2> QED
    BY <2>1, FaultType DEF TypeOK
<1>7. error' \in Errors /\ pc' \in {"idle", "decompress"}
  BY <1>0 DEF Start, Errors, Accepted
<1>8. out' \in Seq(Nat) /\ UNCHANGED <<cabs, param>>
  BY <1>1 DEF Start
<1> QED
  BY <1>3, <1>5, <1>6, <1>7, <1>8 DEF TypeOK

LEMMA Bounds ==
  ASSUME Full, codec.init
  PROVE  /\ d.folder \in Folder /\ Total(d.folder) \in Nat \ {0}
         /\ \A n \in Nat : Yield(d.folder, n) \in Nat
                           /\ Yield(d.folder, n) <= OutputTo(d.folder, Total(d.folder))
         /\ \A m, n \in Nat : m <= n => Yield(d.folder, m) <= Yield(d.folder, n)
         /\ OutputTo(d.folder, Total(d.folder)) \in Nat
         /\ InputTo(d.folder, Total(d.folder)) \in Nat
<1> DEFINE g == d.folder
           T == Total(g)
<1>1. g \in Folder
  BY LoadedRange
<1>2. T \in Nat \ {0}
  BY <1>1, EndedClimbs
<1> HIDE DEF T
<1>3. \A n \in Nat : MinOf(n, T) \in 0..T
  BY <1>2 DEF MinOf
<1>4. \A m, n \in Nat : m <= n => MinOf(m, T) <= MinOf(n, T)
  BY <1>2 DEF MinOf
<1>5. /\ \A n \in 0..T : InputTo(g, n) \in Nat /\ OutputTo(g, n) \in Nat
      /\ \A m, n \in 0..T : m <= n => OutputTo(g, m) <= OutputTo(g, n)
  BY <1>1, BlocksClimb DEF T
<1>6. T \in 0..T
  BY <1>2
<1>7. \A n \in Nat : Yield(g, n) = OutputTo(g, MinOf(n, T))
  BY DEF Yield, T
<1>8. ASSUME NEW n \in Nat PROVE Yield(g, n) \in Nat /\ Yield(g, n) <= OutputTo(g, T)
  <2>1. MinOf(n, T) \in 0..T /\ MinOf(n, T) <= T
    BY <1>2, <1>3
  <2> QED
    BY <1>5, <1>6, <1>7, <2>1
<1>9. ASSUME NEW m \in Nat, NEW n \in Nat, m <= n PROVE Yield(g, m) <= Yield(g, n)
  BY <1>3, <1>4, <1>5, <1>7, <1>9
<1> QED
  BY <1>1, <1>2, <1>5, <1>6, <1>8, <1>9 DEF T

\* What a codec's output may be.
LEMMA SpanType ==
  ASSUME Full, Good, IsCodec, NEW at \in Nat, NEW n \in Nat, NEW data \in Span(at, n)
  PROVE  /\ data \in Seq(Nat) /\ Len(data) = n
         /\ ~Damaged => \A j \in DOMAIN data : data[j] \in {0, at + j}
         /\ ~codec.junk => \A j \in DOMAIN data : data[j] = at + j
<1>1. CASE data = [i \in 1..n |-> at + i]
  <2>1. \A i \in 1..n : at + i \in Nat
    OBVIOUS
  <2>2. data \in Seq(Nat) /\ Len(data) = n /\ DOMAIN data = 1..n
    BY <1>1, <2>1
  <2> QED
    BY <1>1, <2>2
<1>2. CASE data = [i \in 1..n |-> 0] /\ codec.junk
  <2>1. data \in Seq(Nat) /\ Len(data) = n /\ DOMAIN data = 1..n
    BY <1>2
  <2> QED
    BY <1>2, <2>1
<1>3. CASE data = Source(n) /\ Damaged
  <2> DEFINE y == Yield(d.folder, codec.frames)
             from(i) == IF Leftover < y + i THEN y - Leftover + i ELSE 0
  <2>1. y \in Nat /\ Leftover \in Int
    <3>1. codec.frames \in Nat /\ codec.made \in Nat /\ codec.sent \in Nat
      BY DEF Full, TypeOK, Codec
    <3> QED
      BY <3>1, Bounds DEF Good, Leftover
  <2>2. data = [i \in 1..n |-> from(i)]
    BY <1>3 DEF Source
  <2> HIDE DEF y
  <2>3. \A i \in 1..n : from(i) \in Nat
    BY <2>1
  <2> HIDE DEF from
  <2>4. data \in Seq(Nat) /\ Len(data) = n
    BY <2>2, <2>3
  <2> QED
    BY <1>3, <2>4 DEF Damaged
<1> QED
  BY <1>1, <1>2, <1>3 DEF Span

\* The next frame: as much as the folder's next block, unless that is unknown.
LEMMA FrameType ==
  ASSUME Full, Good, IsCodec, NEW n \in Nat \ {0}, NEW ahead \in {0, 1}
  PROVE  FrameSize(n) \in Nat /\ FrameNeed(n, ahead) \in Nat
<1> DEFINE g == d.folder
           T == Total(g)
<1>1. g \in Folder /\ T \in Nat \ {0} /\ BLOCKMAX \in Nat
  BY Bounds, LengthType DEF Good
<1>2. \A i \in 0..T : InputTo(g, i) \in Nat /\ OutputTo(g, i) \in Nat
  BY <1>1, BlocksClimb
<1>3. \A i, j \in 0..T : i <= j => OutputTo(g, i) <= OutputTo(g, j)
  BY <1>1, BlocksClimb
<1>4. ASSUME IsLzx PROVE codec.length = 0 \/ codec.length - codec.sent \in Nat
  <2>1. /\ codec.length \in {0, OutputTo(g, T)} /\ codec.sent <= codec.made
        /\ codec.made <= Yield(g, codec.frames)
    BY <1>4 DEF Full, InStep, Damaged
  <2>2. codec.frames \in Nat /\ codec.sent \in Nat /\ codec.made \in Nat
    BY DEF Full, TypeOK, Codec
  <2>3. Yield(g, codec.frames) \in Nat /\ Yield(g, codec.frames) <= OutputTo(g, T)
        /\ OutputTo(g, T) \in Nat
    BY <2>2, Bounds DEF Good
  <2> HIDE DEF T
  <2> QED
    BY <2>1, <2>2, <2>3
<1>5. n <= T => OutputTo(g, n) - OutputTo(g, n - 1) \in Nat
  <2>1. n <= T => n \in 0..T /\ n - 1 \in 0..T /\ n - 1 <= n
    BY <1>1
  <2> QED
    BY <1>2, <1>3, <2>1
<1>6. FrameSize(n) \in Nat
  <2>1. CASE IsLzx
    BY <1>1, <1>4, <2>1 DEF FrameSize, MinOf
  <2>2. CASE ~IsLzx /\ n > T
    BY <1>1, <2>2 DEF FrameSize
  <2>3. CASE ~IsLzx /\ ~(n > T)
    <3>1. n <= T
      BY <1>1, <2>3
    <3> QED
      BY <1>5, <2>3, <3>1 DEF FrameSize
  <2> QED
    BY <2>1, <2>2, <2>3
<1>7. FrameNeed(n, ahead) \in Nat
  <2>1. MinOf(n, T) \in 0..T /\ T \in 0..T
    BY <1>1 DEF MinOf
  <2>2. InputTo(g, MinOf(n, T)) \in Nat /\ InputTo(g, T) \in Nat
    BY <1>2, <2>1
  <2>3. FrameNeed(n, ahead) \in {InputTo(g, T) + 2, InputTo(g, MinOf(n, T)),
                                 InputTo(g, MinOf(n, T)) + ahead}
    BY DEF FrameNeed
  <2> HIDE DEF T
  <2> QED
    BY <2>2, <2>3
<1> QED
  BY <1>6, <1>7

LEMMA NonedType ==
  ASSUME Full, NonedRun \/ NonedWrite
  PROVE  TypeOK'
<1>0. TypeOK /\ param.decompbuf \in Nat \ {0} /\ call.want \in Nat /\ call.buf \in Seq(Nat)
      /\ readErr \in Errors \ {"WRITE"} /\ call.phase \in {"skip", "write"}
  BY BufferType DEF Full, Inv, TypeOK, Call
<1>1. RunLength \in Nat /\ RunLength <= call.want
  BY <1>0 DEF RunLength, MinOf
<1>2. {"OK", "READ", "WRITE"} \subseteq Errors
  BY DEF Errors
<1>3. UNCHANGED <<cabs, param, codec>>
  BY DEF NonedRun, NonedWrite
<1>4. faults' \in 0..MaxFaults /\ clean' \in BOOLEAN
  BY <1>0, FaultType DEF NonedRun, NonedWrite, WriteFails
<1>5. d' \in State /\ out' \in Seq(Nat)
  <2>1. CASE UNCHANGED <<d, out>>
    BY <1>0, <2>1 DEF TypeOK
  <2>2. CASE Write(call.buf)
    BY <1>0, <2>2, WriteType
  <2>3. CASE WriteFails(RunLength)
    BY <1>0, <1>1, <2>3, WriteFailsType
  <2> QED
    BY <2>1, <2>2, <2>3 DEF NonedRun, NonedWrite
<1>6. /\ readErr' \in Errors \ {"WRITE"} /\ error' \in Errors /\ missed' \in BOOLEAN
      /\ call' \in Call /\ pc' \in {"idle", "decompress", "read"}
  <2>1. CASE Ask(RunLength)
    BY <1>0, <1>1, <2>1, AskType
  <2>2. CASE \E e \in {"OK", "READ", "WRITE"} : Finish(e, readErr)
    BY <1>0, <1>2, <2>2, FinishType
  <2>3. CASE /\ Len(call.buf) = RunLength
             /\ call' = Phase(call.phase, call.want - Len(call.buf))
             /\ pc' = "decompress" /\ UNCHANGED <<readErr, error, missed>>
    <3>1. call.want - Len(call.buf) \in Nat
      BY <1>0, <1>1, <2>3
    <3> QED
      BY <1>0, <2>3, <3>1, PhaseType DEF TypeOK
  <2> QED
    BY <2>1, <2>2, <2>3 DEF NonedRun, NonedWrite
<1> QED
  BY <1>0, <1>3, <1>4, <1>5, <1>6 DEF TypeOK

LEMMA CodecType ==
  ASSUME Full, IsCodec,
         CodecEnter \/ FramesDone \/ BeginFrame \/ FrameInput \/ FrameFails \/ FrameOut
  PROVE  TypeOK'
<1> DEFINE i == MinOf(Leftover, call.want)
           J(size) == MinOf(size, call.want)
<1>0. /\ TypeOK /\ param.decompbuf \in Nat \ {0} /\ call.want \in Nat /\ codec \in Codec
      /\ readErr \in Errors \ {"WRITE"} /\ call.phase \in {"skip", "write"}
      /\ codec.error \in Errors /\ codec.size \in Nat /\ codec.sent \in Nat
      /\ codec.made \in Nat /\ codec.frames \in Nat
  BY BufferType DEF Full, Inv, TypeOK, Call, Codec
<1>1. codec.init /\ (pc = "frames" \/ codec.error = "OK" => Good)
  BY DEF Full, Inv, InFolder, ErrorsKept, Good, CodecEnter, FramesDone, BeginFrame, FrameInput,
         FrameFails, FrameOut
<1>2. Good => Leftover \in Nat /\ i \in Nat /\ call.want - i \in Nat
  <2>1. Good => codec.sent <= codec.made
    BY DEF Full, InStep
  <2> QED
    BY <1>0, <2>1 DEF Leftover, MinOf
<1>3. \A size \in Sizes : size \in Nat /\ J(size) \in Nat /\ call.want - J(size) \in Nat
  <2>1. Sizes \subseteq Nat
    BY <1>0, LengthType DEF Sizes
  <2> QED
    BY <1>0, <2>1 DEF MinOf
<1>4. {"OK", "READ", "WRITE", "DECRUNCH"} \subseteq Errors
  BY DEF Errors
<1>5. UNCHANGED <<cabs, param>>
  BY DEF CodecEnter, FramesDone, BeginFrame, FrameInput, FrameFails, FrameOut
<1>6. faults' \in 0..MaxFaults /\ clean' \in BOOLEAN
  <2>1. Fault \/ NoFault \/ UNCHANGED <<faults, clean>>
    BY DEF CodecEnter, FramesDone, BeginFrame, FrameInput, FrameFails, FrameOut, WriteFails
  <2> QED
    BY <1>0, <2>1, FaultType
<1>7. d' \in State /\ out' \in Seq(Nat)
  <2>1. CASE UNCHANGED <<d, out>>
    BY <1>0, <2>1 DEF TypeOK
  <2>2. CASE Good /\ \E data \in Span(codec.sent, i) : Write(data)
    BY <1>0, <1>2, <2>2, SpanType, WriteType
  <2>3. CASE Good /\ \E size \in Sizes : \E data \in Span(codec.made, J(size)) : Write(data)
    <3>1. PICK size \in Sizes : \E data \in Span(codec.made, J(size)) : Write(data)
      BY <2>3
    <3>2. J(size) \in Nat
      BY <1>3
    <3> QED
      BY <1>0, <2>3, <3>1, <3>2, SpanType, WriteType
  <2>4. CASE (Good /\ WriteFails(i)) \/ \E size \in Sizes : WriteFails(J(size))
    BY <1>0, <1>2, <1>3, <2>4, WriteFailsType
  <2> QED
    BY <1>1, <2>1, <2>2, <2>3, <2>4
       DEF CodecEnter, FramesDone, BeginFrame, FrameInput, FrameFails, FrameOut
<1>8. /\ readErr' \in Errors \ {"WRITE"} /\ error' \in Errors /\ missed' \in BOOLEAN
      /\ call' \in Call /\ pc' \in {"idle", "decompress", "frames", "read"}
  <2>1. CASE Ask(param.decompbuf)
    BY <1>0, <2>1, AskType
  <2>2. CASE \E e \in Errors : Finish(e, readErr)
    BY <1>0, <2>2, FinishType
  <2>3. CASE /\ call' = call \/ (Good /\ call' = Phase(call.phase, call.want - i))
                \/ \E size \in Sizes : call' = Phase(call.phase, call.want - J(size))
             /\ pc' = "frames" /\ UNCHANGED <<readErr, error, missed>>
    <3>1. call' \in Call
      BY <1>0, <1>2, <1>3, <2>3, PhaseType DEF TypeOK
    <3> QED
      BY <1>0, <2>3, <3>1 DEF TypeOK
  <2> QED
    BY <1>0, <1>1, <1>4, <2>1, <2>2, <2>3
       DEF CodecEnter, FramesDone, BeginFrame, FrameInput, FrameFails, FrameOut
<1>9. codec' \in Codec
  <2>1. CASE UNCHANGED codec
    BY <1>0, <2>1
  <2>2. CASE \E e \in {"WRITE", "DECRUNCH"} : codec' = [codec EXCEPT !.error = e]
    <3>1. PICK e \in {"WRITE", "DECRUNCH"} : codec' = [codec EXCEPT !.error = e]
      BY <2>2
    <3> QED
      BY <1>0, <1>4, <3>1 DEF Codec
  <2>3. CASE Good /\ codec' = [codec EXCEPT !.sent = @ + i]
    <3>1. codec.sent + i \in Nat
      BY <1>0, <1>2, <2>3
    <3> QED
      BY <1>0, <2>3, <3>1 DEF Codec
  <2>4. CASE BeginFrame
    <3>1. codec.frames + 1 \in Nat \ {0} /\ Good
      BY <1>0, <1>1, <2>4 DEF BeginFrame
    <3>2. PICK ahead \in {0, 1} :
            UNCHANGED codec \/
            codec' = [codec EXCEPT !.need = FrameNeed(codec.frames + 1, ahead),
                                   !.size = FrameSize(codec.frames + 1)]
      BY <2>4 DEF BeginFrame
    <3>3. FrameSize(codec.frames + 1) \in Nat /\ FrameNeed(codec.frames + 1, ahead) \in Nat
      BY <3>1, FrameType DEF Full
    <3> QED
      BY <1>0, <3>2, <3>3 DEF Codec
  <2>5. CASE \E size \in Sizes :
               codec' = [codec EXCEPT !.frames = @ + 1, !.made = @ + size, !.sent = @ + J(size),
                                      !.need = 0, !.size = 0]
    <3>1. PICK size \in Sizes :
               codec' = [codec EXCEPT !.frames = @ + 1, !.made = @ + size, !.sent = @ + J(size),
                                      !.need = 0, !.size = 0]
      BY <2>5
    <3>2. codec.frames + 1 \in Nat /\ codec.made + size \in Nat /\ codec.sent + J(size) \in Nat
      BY <1>0, <1>3
    <3> HIDE DEF J
    <3> QED
      BY <1>0, <3>1, <3>2 DEF Codec
  <2> QED
    BY <1>1, <2>1, <2>2, <2>3, <2>4, <2>5
       DEF CodecEnter, FramesDone, BeginFrame, FrameInput, FrameFails, FrameOut
<1> QED
  BY <1>0, <1>5, <1>6, <1>7, <1>8, <1>9 DEF TypeOK

LEMMA ReceiveType ==
  ASSUME Full, CodecReceive
  PROVE  TypeOK'
<1> DEFINE got == Len(call.buf)
<1>0. /\ TypeOK /\ call.want \in Nat /\ codec \in Codec /\ call.buf \in Seq(Nat)
      /\ readErr \in Errors \ {"WRITE"} /\ call.phase \in {"skip", "write"}
      /\ codec.got \in Nat /\ codec.junk \in BOOLEAN
  BY DEF Full, TypeOK, Call, Codec
<1>1. got \in Nat /\ codec.got + got \in Nat /\ codec.got + 1 \in Nat /\ "READ" \in Errors
  BY <1>0 DEF Errors
<1>2. codec' \in Codec
  <2>1. CASE codec' = [codec EXCEPT !.got = @ + got,
                                    !.junk = @ \/ \E i \in 1..got : call.buf[i] = 0]
    <3> DEFINE b == codec.junk \/ \E i \in 1..got : call.buf[i] = 0
    <3>1. codec' = [codec EXCEPT !.got = codec.got + got, !.junk = b] /\ b \in BOOLEAN
      BY <1>0, <2>1
    <3> HIDE DEF b, got
    <3> QED
      BY <1>0, <1>1, <3>1 DEF Codec
  <2>2. CASE codec' = [codec EXCEPT !.got = @ + 1, !.eof = TRUE]
    BY <1>0, <1>1, <2>2 DEF Codec
  <2>3. CASE codec' = [codec EXCEPT !.error = "READ"]
    BY <1>0, <1>1, <2>3 DEF Codec
  <2> QED
    BY <2>1, <2>2, <2>3 DEF CodecReceive
<1>3. /\ readErr' \in Errors \ {"WRITE"} /\ error' \in Errors /\ missed' \in BOOLEAN
      /\ call' \in Call /\ pc' \in {"idle", "decompress", "frames"}
  <2>1. CASE Finish("READ", readErr)
    BY <1>0, <1>1, <2>1, FinishType
  <2>2. CASE /\ call' = Phase(call.phase, call.want) /\ pc' = "frames"
             /\ UNCHANGED <<readErr, error, missed>>
    BY <1>0, <2>2, PhaseType DEF TypeOK
  <2> QED
    BY <2>1, <2>2 DEF CodecReceive
<1> QED
  BY <1>0, <1>2, <1>3 DEF CodecReceive, TypeOK

LEMMA ReadType ==
  ASSUME Full, ReadCopy \/ ReadNext
  PROVE  TypeOK'
<1>0. /\ TypeOK /\ call \in Call /\ d \in State /\ d.input \in Seq(Nat) /\ call.buf \in Seq(Nat)
      /\ call.todo \in Nat /\ call.todo > 0 /\ codec.init /\ d.block \in Nat
  BY DEF Full, Inv, InFolder, ErrorsKept, TypeOK, Call, State, ReadCopy, ReadNext
<1>1. CASE ReadCopy
  <2> DEFINE n == MinOf(Len(d.input), call.todo)
  <2>1. n \in 1..Len(d.input) /\ call.todo - n \in Nat
    BY <1>0, <1>1 DEF ReadCopy, MinOf
  <2>2. /\ call' = [call EXCEPT !.todo = @ - n, !.buf = @ \o SubSeq(d.input, 1, n)]
        /\ d' = [d EXCEPT !.input = SubSeq(@, n + 1, Len(@))]
        /\ pc' \in {"got", "read"}
        /\ UNCHANGED <<cabs, param, codec, readErr, error, out, faults, missed, clean>>
    BY <1>1 DEF ReadCopy
  <2> HIDE DEF n
  <2>3. SubSeq(d.input, 1, n) \in Seq(Nat) /\ SubSeq(d.input, n + 1, Len(d.input)) \in Seq(Nat)
    BY <1>0, <2>1, TakeFirst
  <2>4. call.buf \o SubSeq(d.input, 1, n) \in Seq(Nat)
    BY <1>0, <2>3, JoinedLength
  <2>5. d' \in State
    BY <1>0, <2>2, <2>3 DEF State
  <2>6. call' \in Call
    BY <1>0, <2>1, <2>2, <2>4 DEF Call
  <2> QED
    BY <1>0, <2>2, <2>5, <2>6 DEF TypeOK
<1>2. CASE ReadNext
  <2>1. NumBlocks(d.folder) \in Nat
    BY <1>0, LoadedRange
  <2>2. MinOf(d.block, NumBlocks(d.folder)) + 1 \in Nat
    BY <1>0, <2>1 DEF MinOf
  <2>3. d' \in State
    BY <1>0, <1>2, <2>2 DEF ReadNext, State
  <2>4. readErr' \in Errors \ {"WRITE"} /\ pc' \in {"got", "block"}
    BY <1>0, <1>2 DEF ReadNext, AtEndError, TypeOK, Errors
  <2> QED
    BY <1>0, <1>2, <2>3, <2>4 DEF ReadNext, TypeOK
<1> QED
  BY <1>1, <1>2

LEMMA RecordFields ==
  ASSUME Inv, codec.init, NEW r \in Records
  PROVE  r \in CFDATA /\ r.data \in Seq(Nat) /\ r.out \in Nat
<1>1. d.infh # NULL
  BY DEF Records
<1>2. r \in CFDATA
  <2>1. CASE d.infh \in DOMAIN Parts[d.folder][d.part]
    <3>1. d.folder \in Folder /\ d.part \in 1..Len(Parts[d.folder])
      BY <1>1, FolderType DEF Inv, InFolder, HandleInSegment
    <3>2. Parts[d.folder][d.part] \in Seq(CFDATA)
      BY <3>1, FolderType
    <3> QED
      BY <1>1, <2>1, <3>2 DEF Records
  <2>2. CASE d.infh \notin DOMAIN Parts[d.folder][d.part]
    <3>1. r \in Junk
      BY <1>1, <2>2 DEF Records
    <3>2. <<0>> \in Seq(Nat)
      OBVIOUS
    <3>3. /\ [data |-> <<0>>, out |-> 1, sum |-> TRUE] \in CFDATA
          /\ [data |-> <<0>>, out |-> 0, sum |-> TRUE] \in CFDATA
          /\ [data |-> <<0>>, out |-> 1, sum |-> FALSE] \in CFDATA
      BY <3>2 DEF CFDATA
    <3> QED
      BY <3>1, <3>3 DEF Junk
  <2> QED
    BY <2>1, <2>2
<1> QED
  BY <1>2 DEF CFDATA

LEMMA BlockFailsType ==
  ASSUME TypeOK, NEW e \in Errors \ {"WRITE"}, BlockFails(e)
  PROVE  /\ readErr' \in Errors \ {"WRITE"} /\ error' \in Errors /\ missed' \in BOOLEAN
         /\ call' \in Call /\ pc' \in {"idle", "decompress"} /\ codec' \in Codec
<1>1. "READ" \in Errors
  BY DEF Errors
<1>2. Finish("READ", e)
  BY DEF BlockFails
<1>3. codec' \in Codec
  BY <1>1 DEF BlockFails, TypeOK, Codec
<1> QED
  BY <1>1, <1>2, <1>3, FinishType

LEMMA BlockType ==
  ASSUME Full, BlockUnread \/ BlockRejected \/ BlockRead \/ BlockContinues
  PROVE  TypeOK'
<1>0. /\ TypeOK /\ Inv /\ codec.init /\ pc = "block" /\ d \in State /\ codec \in Codec
      /\ d.input \in Seq(Nat) /\ d.outlen \in Nat /\ d.part \in Nat /\ d.infh \in Nat \cup {NULL}
      /\ d.folder \in Folder /\ param.salvage \in BOOLEAN
  BY DEF Full, Inv, InFolder, TypeOK, State, BlockUnread, BlockRejected, BlockRead, BlockContinues
<1>1. UNCHANGED <<cabs, param, out>>
  BY DEF BlockUnread, BlockRejected, BlockRead, BlockContinues
<1>2. faults' \in 0..MaxFaults /\ clean' \in BOOLEAN
  <2>1. Fault \/ NoFault \/ UNCHANGED <<faults, clean>>
    BY DEF BlockUnread, BlockRejected, BlockRead, BlockContinues
  <2> QED
    BY <1>0, <2>1, FaultType
<1>3. {"READ", "DATAFORMAT", "CHECKSUM", "OPEN", "SEEK", "OK"} \subseteq Errors \ {"WRITE"}
  BY DEF Errors
<1>4. CASE \E e \in Errors \ {"WRITE"} : BlockFails(e)
  <2>1. PICK e \in Errors \ {"WRITE"} : BlockFails(e)
    BY <1>4
  <2>2. /\ readErr' \in Errors \ {"WRITE"} /\ error' \in Errors /\ missed' \in BOOLEAN
        /\ call' \in Call /\ pc' \in {"idle", "decompress"} /\ codec' \in Codec
    BY <1>0, <2>1, BlockFailsType
  <2>3. d' \in State
    <3>1. CASE UNCHANGED d \/ d' = [d EXCEPT !.infh = 0]
      BY <1>0, <3>1 DEF State
    <3>2. CASE d' = [d EXCEPT !.infh = IF @ = 0 THEN 0 ELSE @ + 1] /\ d.infh # NULL
      <4>1. (IF d.infh = 0 THEN 0 ELSE d.infh + 1) \in Nat
        BY <1>0, <3>2
      <4> QED
        BY <1>0, <3>2, <4>1 DEF State
    <3>3. CASE BlockContinues
      <4> DEFINE next == IF d.part = 0 \/ d.part >= Loaded(d.folder) THEN 0 ELSE d.part + 1
                 moved(in) == [d EXCEPT !.input = in, !.part = next, !.infh = NULL]
      <4>1. next \in Nat /\ (next # 0 => CabOf(d.folder, next) \in Nat)
        BY <1>0, CabOfType
      <4>2. PICK r \in Records :
              \/ d' = moved(d.input \o r.data)
              \/ next # 0 /\ d' = [moved(d.input \o r.data) EXCEPT !.incab = CabOf(d.folder, next)]
              \/ /\ next # 0 /\ \E h \in {0, 1} :
                    d' = [moved(d.input \o r.data) EXCEPT !.incab = CabOf(d.folder, next), !.infh = h]
        BY <3>3 DEF BlockContinues
      <4> HIDE DEF next
      <4>3. d.input \o r.data \in Seq(Nat)
        BY <1>0, <4>2, RecordFields, JoinedLength
      <4>4. moved(d.input \o r.data) \in State
        BY <1>0, <4>1, <4>3 DEF State
      <4> HIDE DEF moved
      <4>5. CASE d' = moved(d.input \o r.data)
        BY <4>4, <4>5
      <4>6. CASE next # 0 /\ d' = [moved(d.input \o r.data) EXCEPT !.incab = CabOf(d.folder, next)]
        BY <4>1, <4>4, <4>6 DEF State
      <4>7. CASE next # 0 /\ \E h \in {0, 1} :
                    d' = [moved(d.input \o r.data) EXCEPT !.incab = CabOf(d.folder, next), !.infh = h]
        <5>1. PICK h \in {0, 1} :
                d' = [moved(d.input \o r.data) EXCEPT !.incab = CabOf(d.folder, next), !.infh = h]
          BY <4>7
        <5>2. h \in Nat
          OBVIOUS
        <5> QED
          BY <4>1, <4>4, <4>7, <5>1, <5>2 DEF State
      <4> QED
        BY <4>2, <4>5, <4>6, <4>7
    <3> QED
      <4>1. BlockRead => readErr' = "OK" /\ pc' = "read"
        BY DEF BlockRead, BlockDone
      <4>2. ~BlockRead
        BY <2>2, <4>1
      <4> QED
        BY <3>1, <3>2, <3>3, <4>2 DEF BlockUnread, BlockRejected, Records
  <2> QED
    BY <1>0, <1>1, <1>2, <2>2, <2>3 DEF TypeOK
<1>5. CASE BlockRead
  <2>1. PICK r \in Records :
          /\ d' = [d EXCEPT !.input = @ \o r.data, !.outlen = @ + r.out,
                            !.infh = IF @ = 0 THEN 0 ELSE @ + 1]
          /\ BlockDone(r.out)
    BY <1>5 DEF BlockRead
  <2>2. d.input \o r.data \in Seq(Nat) /\ d.outlen + r.out \in Nat /\ d.infh # NULL
    BY <1>0, <2>1, RecordFields, JoinedLength DEF Records
  <2>3. (IF d.infh = 0 THEN 0 ELSE d.infh + 1) \in Nat
    BY <1>0, <2>2
  <2>4. d' \in State
    BY <1>0, <2>1, <2>2, <2>3 DEF State
  <2>5. codec' \in Codec
    <3>1. codec' = codec \/ codec' = [codec EXCEPT !.length = d.outlen + r.out]
      BY <2>1 DEF BlockDone
    <3> QED
      BY <1>0, <2>2, <3>1 DEF Codec
  <2>6. readErr' = "OK" /\ pc' = "read" /\ UNCHANGED <<error, call, missed>>
    BY <2>1 DEF BlockDone
  <2> QED
    BY <1>0, <1>1, <1>2, <1>3, <2>4, <2>5, <2>6 DEF TypeOK
<1>6. CASE /\ BlockContinues
           /\ UNCHANGED <<codec, readErr, error, call, missed, pc>>
           /\ \E r \in Records : \E next \in Nat \ {0} :
                d' = [d EXCEPT !.input = d.input \o r.data, !.part = next,
                               !.incab = CabOf(d.folder, next), !.infh = 1]
  <2>1. PICK r \in Records, next \in Nat \ {0} :
          d' = [d EXCEPT !.input = d.input \o r.data, !.part = next,
                         !.incab = CabOf(d.folder, next), !.infh = 1]
    BY <1>6
  <2>2. d.input \o r.data \in Seq(Nat) /\ CabOf(d.folder, next) \in Nat
    BY <1>0, <2>1, RecordFields, JoinedLength, CabOfType
  <2>3. d' \in State
    BY <1>0, <2>1, <2>2 DEF State
  <2> QED
    BY <1>0, <1>1, <1>2, <1>6, <2>3 DEF TypeOK
<1> QED
  <2>1. (BlockUnread \/ BlockRejected) => \E e \in Errors \ {"WRITE"} : BlockFails(e)
    BY <1>3 DEF BlockUnread, BlockRejected
  <2>2. ASSUME BlockContinues, ~\E e \in Errors \ {"WRITE"} : BlockFails(e)
        PROVE  /\ UNCHANGED <<codec, readErr, error, call, missed, pc>>
               /\ \E r \in Records : \E next \in Nat \ {0} :
                    d' = [d EXCEPT !.input = d.input \o r.data, !.part = next,
                                   !.incab = CabOf(d.folder, next), !.infh = 1]
    <3> DEFINE next == IF d.part = 0 \/ d.part >= Loaded(d.folder) THEN 0 ELSE d.part + 1
               moved(in) == [d EXCEPT !.input = in, !.part = next, !.infh = NULL]
    <3>1. next \in Nat
      BY <1>0
    <3>2. PICK r \in Records :
            /\ next # 0
            /\ d' = [moved(d.input \o r.data) EXCEPT !.incab = CabOf(d.folder, next), !.infh = 1]
            /\ UNCHANGED <<codec, readErr, error, call, missed, pc>>
      BY <1>3, <2>2 DEF BlockContinues
    <3> HIDE DEF next
    <3>3. d' = [d EXCEPT !.input = d.input \o r.data, !.part = next,
                         !.incab = CabOf(d.folder, next), !.infh = 1]
      BY <3>2
    <3> QED
      BY <3>1, <3>2, <3>3
  <2> QED
    BY <1>4, <1>5, <1>6, <2>1, <2>2

LEMMA TypeNext ==
  ASSUME Full, [Next]_vars
  PROVE  TypeOK'
<1>0. TypeOK /\ Inv
  BY DEF Full
<1>1. CASE Join
  BY <1>0, <1>1, JoinType
<1>2. CASE \E f \in File : Refuse(f) \/ RestartFails(f) \/ Start(f)
  BY <1>0, <1>2, RefuseType, RestartFailsType, StartType
<1>3. CASE NonedRun \/ NonedWrite
  BY <1>3, NonedType
<1>4. CASE CodecEnter \/ FramesDone \/ BeginFrame \/ FrameInput \/ FrameFails \/ FrameOut
  <2>1. IsCodec
    BY <1>4 DEF CodecEnter, FramesDone, BeginFrame, FrameInput, FrameFails, FrameOut,
                Full, Inv, ErrorsKept
  <2> QED
    BY <1>4, <2>1, CodecType
<1>5. CASE CodecReceive
  BY <1>5, ReceiveType
<1>6. CASE ReadCopy \/ ReadNext
  BY <1>6, ReadType
<1>7. CASE BlockUnread \/ BlockRejected \/ BlockRead \/ BlockContinues
  BY <1>7, BlockType
<1>8. CASE UNCHANGED vars
  BY <1>0, <1>8 DEF vars, TypeOK
<1> QED
  BY <1>1, <1>2, <1>3, <1>4, <1>5, <1>6, <1>7, <1>8 DEF Next, Steps

-----------------------------------------------------------------------------
(* What the parts of a step keep.                                           *)

LEMMA FinishCall ==
  ASSUME Full, NEW e, NEW re, Finish(e, re)
  PROVE  /\ call'.file = call.file /\ call'.len = call.len
         /\ call'.buf = <<>> /\ call'.todo = 0
         /\ error' = Mapped(e, re) /\ missed' = (missed \/ e = "READ")
         /\ \/ /\ call.phase = "skip" /\ Mapped(e, re) = "OK" /\ pc' = "decompress"
               /\ call'.phase = "write" /\ call'.want = call.len
            \/ /\ ~(call.phase = "skip" /\ Mapped(e, re) = "OK") /\ pc' = "idle"
               /\ call'.phase = call.phase /\ call'.want = 0
BY DEF Finish, Phase, Full, Inv, Shape

LEMMA FileLenIs ==
  ASSUME NEW f \in File, FileAt[f].offset <= LENGTHMAX
  PROVE  /\ FileLen(f) \in Nat /\ FileLen(f) <= FileAt[f].length
         /\ ~TooLong(f) => FileLen(f) = FileAt[f].length
BY FileType, LengthType DEF FileLen, TooLong

\* A read of a stored folder has failed: nothing is promised any more.
LEMMA LostKeeps ==
  ASSUME Full, pc # "idle", Inv', TypeOK', ~IsCodec, missed', UNCHANGED <<cabs, param>>,
         d'.folder = d.folder, codec'.init = codec.init,
         call'.file = call.file, call'.len = call.len,
         ~Reading' => call'.buf = <<>>,
         pc' # "idle" /\ call'.phase = "skip" => out' = <<>>
  PROVE  Full'
<1>1. ~Good' /\ Method[d.folder] = "none"
  BY DEF Good, IsCodec
<1>2. call.file \in File /\ d.folder = FileAt[call.file].folder
  BY DEF Full, Progress
<1>3. InStream'
  BY <1>1 DEF Full, InStream, Loaded
<1>4. UnitsRight' /\ InStep'
  BY <1>1 DEF UnitsRight, InStep
<1>5. Progress'
  BY <1>1 DEF Full, Progress, TooLong, FileLen
<1>6. OutputInPlace' /\ OutExact' /\ ExactOrError'
  BY <1>1, <1>2 DEF OutputInPlace, OutExact, ExactOrError
<1> QED
  BY <1>3, <1>4, <1>5, <1>6 DEF Full

\* A codec has failed: it writes no more, and does not say OK.
LEMMA BrokenKeeps ==
  ASSUME Full, pc # "idle", Inv', TypeOK', IsCodec, codec'.error # "OK",
         UNCHANGED <<cabs, param, out>>,
         d'.folder = d.folder, codec'.init = codec.init, codec.junk => codec'.junk,
         NEW e, NEW re, Finish(e, re), param.salvage \/ Mapped(e, re) # "OK"
  PROVE  Full'
<1>1. ~Good' /\ Method[d.folder] # "none"
  BY DEF Good, IsCodec
<1>2. call.file \in File /\ d.folder = FileAt[call.file].folder
  BY DEF Full, Progress
<1>3. InStream'
  BY <1>1, FinishCall DEF Full, InStream, Loaded
<1>4. UnitsRight' /\ InStep'
  BY <1>1 DEF UnitsRight, InStep
<1>5. Progress'
  BY <1>1, FinishCall DEF Full, Progress, TooLong, FileLen
<1>6. OutputInPlace'
  BY <1>1, <1>2, FinishCall DEF Full, OutputInPlace, Content
<1>7. OutExact'
  BY <1>1, <1>2, FinishCall DEF Full, OutExact
<1>8. ExactOrError'
  BY FinishCall DEF ExactOrError
<1> QED
  BY <1>3, <1>4, <1>5, <1>6, <1>7, <1>8 DEF Full

\* The decompressor takes what it has been given, and the stream stands still.
LEMMA StreamKept ==
  ASSUME Full, TypeOK', Good, Good', UNCHANGED <<cabs, param>>, pc \notin {"read", "block"},
         d'.folder = d.folder, d'.part = d.part, d'.infh = d.infh,
         d'.block = d.block, d'.outlen = d.outlen, d'.input = d.input,
         call'.buf = <<>>, Taken' = Taken + Len(call.buf),
         pc' \in {"idle", "decompress", "frames", "read"},
         pc' = "read" => call'.todo = Asked',
         Undamaged => ~codec'.junk
  PROVE  InStream' /\ UnitsRight'
<1>1. Len(<<>>) = 0 /\ DOMAIN <<>> = {}
  OBVIOUS
<1>2. Here' = Here /\ (Undamaged' <=> Undamaged) /\ Loaded(d.folder)' = Loaded(d.folder)
  BY DEF Here, Undamaged, Loaded
<1>3. codec.init /\ codec'.init
  BY DEF Good
<1>4. /\ call.buf \in Seq(Nat) /\ d.input \in Seq(Nat) /\ d.offset \in Nat /\ codec.got \in Nat
      /\ d'.offset \in Nat /\ codec'.got \in Nat /\ call'.todo \in Nat
  BY DEF Full, TypeOK, State, Call, Codec
<1>5. Taken \in Int /\ Len(call.buf) \in Nat /\ Len(d.input) \in Nat
  BY <1>4 DEF Taken
<1>6. InputSum(d.folder)[Here] \in Nat
  BY Standing
<1>7. Taken' + Len(call'.buf) + Len(d'.input) = InputSum(d.folder)[Here]
  <2>1. Taken + Len(call.buf) + Len(d.input) = InputSum(d.folder)[Here]
    BY DEF Full, InStream
  <2>2. Len(call'.buf) = 0 /\ Len(d'.input) = Len(d.input)
    BY <1>1
  <2>3. Taken' = Taken + Len(call.buf) /\ Taken' \in Int
    BY <1>5
  <2>4. \A a, b, c \in Int : (a + b) + 0 + c = a + b + c
    OBVIOUS
  <2>5. Taken' + 0 + Len(d.input) = Taken + Len(call.buf) + Len(d.input)
    BY <1>5, <2>3, <2>4
  <2> QED
    BY <2>1, <2>2, <2>5
<1>8. InStream'
  <2>1. Reading' => Len(call'.buf) + call'.todo = Asked'
    BY <1>1, <1>4 DEF Reading
  <2> HIDE DEF Here, Taken, Asked
  <2> QED
    BY <1>2, <1>3, <1>7, <2>1 DEF Full, InStream
<1>9. UnitsRight'
  <2>1. Undamaged' => ~codec'.junk /\ \A j \in DOMAIN d'.input : d'.input[j] # 0
    BY <1>2 DEF Full, UnitsRight
  <2>2. ASSUME ~IsCodec', NEW j \in DOMAIN d'.input
        PROVE  d'.input[j] \in {0, d'.offset + Len(call'.buf) + j}
    <3>1. ~IsCodec /\ d.input[j] \in {0, d.offset + Len(call.buf) + j} /\ j \in Nat
      BY <1>4, <2>2 DEF Full, UnitsRight, IsCodec
    <3>2. d'.offset = d.offset + Len(call.buf)
      BY <2>2, <3>1 DEF Taken
    <3>3. d'.offset + Len(call'.buf) + j = d.offset + Len(call.buf) + j
      BY <1>1, <1>4, <1>5, <3>1, <3>2
    <3> QED
      BY <3>1, <3>3
  <2>3. DOMAIN call'.buf = {}
    BY <1>1
  <2> HIDE DEF Undamaged
  <2> QED
    BY <2>1, <2>2, <2>3 DEF UnitsRight
<1> QED
  BY <1>8, <1>9

\* A step that writes nothing and goes on.
LEMMA Quiet ==
  ASSUME Full, Good, pc # "idle", pc' # "idle", UNCHANGED <<param, out, missed>>,
         d'.folder = d.folder, d'.offset = d.offset, codec.junk => codec'.junk,
         call'.file = call.file, call'.len = call.len, call'.phase = call.phase,
         call'.want = call.want
  PROVE  Progress' /\ OutputInPlace' /\ OutExact' /\ ExactOrError'
<1>1. Progress'
  BY DEF Full, Progress, TooLong, FileLen
<1>2. OutputInPlace' /\ OutExact'
  BY DEF Full, OutputInPlace, OutExact, Content
<1>3. ExactOrError'
  BY DEF ExactOrError, Returned
<1> QED
  BY <1>1, <1>2, <1>3

\* Data in its place is written where it belongs.
LEMMA Written ==
  ASSUME Full, Good, pc # "idle", NEW data \in Seq(Nat), Write(data), Len(data) <= call.want,
         ~(Method[d.folder] = "mszip" /\ codec.junk) =>
           \A j \in DOMAIN data : data[j] \in {0, d.offset + j},
         ~param.salvage => \A j \in DOMAIN data : data[j] = d.offset + j,
         call'.file = call.file, codec'.junk = codec.junk, UNCHANGED <<param, missed>>
  PROVE  /\ d'.offset = d.offset + Len(data)
         /\ call.phase = "skip" =>
              /\ out' = <<>>
              /\ d'.offset + (call.want - Len(data)) = FileAt[call.file].offset
         /\ call.phase = "write" =>
              /\ d'.offset = FileAt[call.file].offset + Len(out')
              /\ Len(out') + (call.want - Len(data)) = call.len
         /\ OutputInPlace' /\ OutExact'
<1> DEFINE f == call.file
           n == Len(data)
<1>1. /\ f \in File /\ d.folder = FileAt[f].folder /\ call.len = FileLen(f)
      /\ FileAt[f].offset <= LENGTHMAX
      /\ call.phase = "skip" => out = <<>> /\ d.offset + call.want = FileAt[f].offset
      /\ call.phase = "write" =>
           d.offset = FileAt[f].offset + Len(out) /\ Len(out) + call.want = call.len
  BY DEF Full, Progress
<1>2. /\ out \in Seq(Nat) /\ d.offset \in Nat /\ call.want \in Nat /\ n \in Nat
      /\ Len(out) \in Nat /\ call.phase \in {"skip", "write"}
  BY DEF Full, TypeOK, State, Call
<1>3. /\ FileAt[f].offset \in Nat /\ FileAt[f].length \in Nat
      /\ FileLen(f) \in Nat /\ FileLen(f) <= FileAt[f].length
  BY <1>1, FileType, FileLenIs
<1>4. d'.offset = d.offset + n
  BY DEF Write, Full, Inv, Shape
<1>5. ~(Method[FileAt[f].folder] = "none" /\ missed)
  BY <1>1 DEF Good, IsCodec
<1>6. f # NULL
  BY <1>1, CabExtractAssumption DEF CabExtractAssumption
<1>7. CASE call.phase = "skip"
  <2>1. out' = <<>>
    BY <1>1, <1>7 DEF Write
  <2>2. Len(<<>>) = 0 /\ DOMAIN <<>> = {}
    OBVIOUS
  <2>3. OutputInPlace' /\ OutExact'
    BY <1>3, <2>1, <2>2 DEF OutputInPlace, OutExact
  <2>4. d'.offset + (call.want - n) = FileAt[f].offset
    BY <1>1, <1>2, <1>3, <1>4, <1>7
  <2> QED
    BY <1>4, <1>7, <2>1, <2>3, <2>4
<1>8. CASE call.phase = "write"
  <2>1. out' = out \o data
    BY <1>8 DEF Write
  <2>2. /\ Len(out') = Len(out) + n
        /\ \A i \in 1..Len(out) : out'[i] = out[i]
        /\ \A i \in 1..n : out'[Len(out) + i] = data[i]
        /\ out' \in Seq(Nat)
    BY <1>2, <2>1, Placed
  <2>3. Len(out') <= FileAt[f].length /\ Len(out') + (call.want - n) = call.len
        /\ d'.offset = FileAt[f].offset + Len(out')
    <3>1. Len(out') = Len(out) + n /\ n <= call.want
      BY <2>2
    <3>2. /\ d.offset = FileAt[f].offset + Len(out) /\ Len(out) + call.want = call.len
          /\ call.len <= FileAt[f].length
      BY <1>1, <1>3, <1>8
    <3>3. /\ Len(out) \in Nat /\ n \in Nat /\ call.want \in Nat /\ d.offset \in Nat
          /\ FileAt[f].offset \in Nat /\ FileAt[f].length \in Nat /\ call.len \in Nat
          /\ d'.offset = d.offset + n
      BY <1>1, <1>2, <1>3, <1>4
    <3> DEFINE before == Len(out)
               after == Len(out')
               want == call.want
               start == FileAt[f].offset
               limit == FileAt[f].length
               all == call.len
               at == d.offset
               at2 == d'.offset
    <3>4. /\ after = before + n /\ n <= want
          /\ at = start + before /\ before + want = all /\ all <= limit
          /\ before \in Nat /\ n \in Nat /\ want \in Nat /\ at \in Nat
          /\ start \in Nat /\ limit \in Nat /\ all \in Nat /\ at2 = at + n
      BY <3>1, <3>2, <3>3
    <3> HIDE DEF n, before, after, want, start, limit, all, at, at2
    <3>5. after <= limit /\ after + (want - n) = all /\ at2 = start + after
      BY <3>4
    <3> QED
      BY <3>5 DEF before, after, want, start, limit, all, at, at2
  <2>4. ASSUME NEW i \in DOMAIN out'
        PROVE  /\ ~(Method[d.folder] = "mszip" /\ codec.junk) =>
                    out'[i] \in {0, FileAt[f].offset + i}
               /\ Content(f)[i] = FileAt[f].offset + i
               /\ ~param.salvage => out'[i] = FileAt[f].offset + i
    <3>1. i \in 1..Len(out) + n /\ i \in 1..FileAt[f].length
      BY <1>2, <1>3, <2>2, <2>3
    <3>2. Content(f)[i] = FileAt[f].offset + i
      BY <3>1 DEF Content
    <3>3. CASE i \in 1..Len(out)
      <4>1. i \in DOMAIN out
        BY <1>2, <3>3
      <4>2. ~(Method[d.folder] = "mszip" /\ codec.junk) => out[i] \in {0, FileAt[f].offset + i}
        BY <1>1, <1>5, <1>6, <3>2, <4>1 DEF Full, OutputInPlace
      <4>3. ~param.salvage => out[i] = FileAt[f].offset + i
        BY <1>5, <1>6, <4>1 DEF Full, OutExact
      <4> QED
        BY <2>2, <3>2, <3>3, <4>2, <4>3
    <3>4. CASE i \notin 1..Len(out)
      <4> DEFINE j == i - Len(out)
      <4>1. j \in 1..n /\ i = Len(out) + j
        BY <1>2, <3>1, <3>4
      <4>2. j \in DOMAIN data /\ d.offset + j = FileAt[f].offset + i
        BY <1>1, <1>2, <1>3, <1>8, <4>1
      <4> HIDE DEF j
      <4>3. out'[i] = data[j]
        BY <2>2, <4>1
      <4>4. /\ ~(Method[d.folder] = "mszip" /\ codec.junk) => data[j] \in {0, d.offset + j}
            /\ ~param.salvage => data[j] = d.offset + j
        BY <4>2
      <4> QED
        BY <3>2, <4>2, <4>3, <4>4
    <3> QED
      BY <3>3, <3>4
  <2>5. OutputInPlace' /\ OutExact'
    BY <1>1, <2>3, <2>4 DEF OutputInPlace, OutExact
  <2> QED
    BY <1>4, <1>8, <2>3, <2>5
<1> QED
  BY <1>2, <1>7, <1>8

\* decompress() has delivered all that it was asked for.
LEMMA Returning ==
  ASSUME Full, Good, pc # "idle", TypeOK', NEW re, Finish("OK", re), UNCHANGED param,
         d'.folder = d.folder, OutputInPlace', OutExact',
         call.phase = "skip" => out' = <<>> /\ d'.offset = FileAt[call.file].offset,
         call.phase = "write" =>
           d'.offset = FileAt[call.file].offset + Len(out') /\ Len(out') = call.len
  PROVE  Progress' /\ ExactOrError'
<1> DEFINE f == call.file
<1>1. /\ f \in File /\ d.folder = FileAt[f].folder /\ call.len = FileLen(f)
      /\ FileAt[f].offset <= LENGTHMAX /\ (TooLong(f) => param.salvage)
      /\ call.phase \in {"skip", "write"} /\ call.len \in Nat
  BY DEF Full, Progress, TypeOK, Call
<1>2. "OK" # "READ" /\ Mapped("OK", re) = "OK"
  BY DEF Mapped
<1>3. /\ call'.file = f /\ call'.len = call.len /\ error' = "OK" /\ missed' = missed
      /\ \/ /\ call.phase = "skip" /\ pc' = "decompress"
            /\ call'.phase = "write" /\ call'.want = call.len
         \/ call.phase = "write" /\ pc' = "idle"
  <2>1. missed \in BOOLEAN
    BY DEF Full, TypeOK
  <2>2. missed' = missed
    BY <1>2, <2>1, FinishCall
  <2> QED
    BY <1>1, <1>2, <2>2, FinishCall
<1>4. FileAt[f].offset \in Nat /\ Len(<<>>) = 0 /\ FileAt[f].length \in Nat
      /\ (~TooLong(f) => FileLen(f) = FileAt[f].length)
  BY <1>1, FileType, FileLenIs
<1>5. Progress'
  <2>1. ASSUME pc' # "idle" PROVE Progress'
    <3>1. call.phase = "skip" /\ call'.phase = "write" /\ call'.want = call.len
          /\ out' = <<>> /\ d'.offset = FileAt[f].offset
      BY <1>3, <2>1
    <3>2. /\ d'.offset = FileAt[f].offset + Len(out')
          /\ Len(out') + call'.want = call'.len
      BY <1>1, <1>3, <1>4, <3>1
    <3> QED
      BY <1>1, <1>3, <3>1, <3>2 DEF Progress, TooLong, FileLen
  <2> QED
    BY <2>1 DEF Progress
<1>6. ExactOrError'
  <2>1. ASSUME pc' = "idle", ~param.salvage PROVE out' = Content(f)
    <3>1. Len(out') = FileAt[f].length /\ out' \in Seq(Nat)
      BY <1>1, <1>3, <1>4, <2>1 DEF TypeOK
    <3>2. f # NULL /\ ~(Method[FileAt[f].folder] = "none" /\ missed')
      BY <1>1, <1>3, CabExtractAssumption DEF CabExtractAssumption, Good, IsCodec
    <3>3. \A i \in DOMAIN out' : out'[i] = FileAt[f].offset + i
      BY <1>3, <2>1, <3>2 DEF OutExact
    <3>4. DOMAIN out' = 1..FileAt[f].length
      BY <3>1
    <3> QED
      BY <3>1, <3>3, <3>4 DEF Content
  <2> QED
    BY <1>3, <2>1 DEF ExactOrError, Returned, Content
<1> QED
  BY <1>5, <1>6

-----------------------------------------------------------------------------
(* noned_decompress.                                                        *)

LEMMA NonedFull ==
  ASSUME Full, Inv', TypeOK', NonedRun \/ NonedWrite
  PROVE  Full'
<1> DEFINE f == call.file
<1>0. /\ ~IsCodec /\ ~IsCodec' /\ pc # "idle" /\ pc \notin {"read", "block"}
      /\ UNCHANGED <<cabs, param, codec>> /\ codec.init
      /\ call.buf \in Seq(Nat) /\ d.offset \in Nat /\ call.want \in Nat /\ missed \in BOOLEAN
      /\ call.phase \in {"skip", "write"} /\ param.decompbuf \in Nat \ {0}
      /\ call.len \in Nat /\ missed' \in BOOLEAN
  <2>1. IsCodec' <=> IsCodec
    BY DEF NonedRun, NonedWrite, Write, WriteFails, Full, Inv, Shape, IsCodec
  <2>2. param.decompbuf \in Nat \ {0}
    BY BufferType DEF Full, Inv
  <2>3. call.buf \in Seq(Nat) /\ d.offset \in Nat /\ call.want \in Nat /\ missed \in BOOLEAN
        /\ call.phase \in {"skip", "write"} /\ call.len \in Nat /\ missed' \in BOOLEAN
    BY DEF Full, TypeOK, State, Call
  <2> QED
    BY <2>1, <2>2, <2>3 DEF NonedRun, NonedWrite, Full, Inv, InFolder
<1>1. /\ d'.folder = d.folder /\ d'.part = d.part /\ d'.infh = d.infh
      /\ d'.block = d.block /\ d'.outlen = d.outlen /\ d'.input = d.input
  BY DEF NonedRun, NonedWrite, Write, WriteFails, Full, Inv, Shape
<1>2. /\ call'.file = call.file /\ call'.len = call.len /\ call'.buf = <<>>
      /\ pc' \in {"idle", "decompress", "read"}
      /\ missed => missed'
      /\ pc' # "idle" /\ call'.phase = "skip" => call.phase = "skip" /\ out' = out
  <2>1. CASE \E e, re : Finish(e, re)
    BY <2>1, FinishCall
  <2>2. CASE Ask(RunLength) /\ out' = out
    BY <2>2 DEF Ask, Full, Inv, Shape
  <2>3. CASE /\ Write(call.buf) /\ call' = Phase(call.phase, call.want - Len(call.buf))
             /\ pc' = "decompress" /\ missed' = missed
    BY <2>3 DEF Phase, Write, Full, Inv, Shape
  <2> QED
    BY <2>1, <2>2, <2>3 DEF NonedRun, NonedWrite
<1>3. Reading' <=> pc' = "read"
  BY <1>2 DEF Reading
<1>4. CASE missed'
  <2>1. pc' # "idle" /\ call'.phase = "skip" => out' = <<>>
    BY <1>0, <1>2 DEF Full, Progress
  <2> QED
    BY <1>0, <1>1, <1>2, <1>4, <2>1, LostKeeps
<1>5. CASE ~missed'
  <2>0. Good /\ Good' /\ ~missed /\ missed' = missed
    BY <1>0, <1>2, <1>5 DEF Good
  <2>1. /\ f \in File /\ call.len = FileLen(f) /\ Len(call.buf) \in Nat /\ Len(<<>>) = 0
        /\ FileAt[f].offset \in Nat
    BY <1>0, FileType DEF Full, Progress
  <2>2. InStep'
    BY <1>0 DEF InStep
  <2>3. ASSUME d'.offset = d.offset + Len(call.buf), pc' = "read" => call'.todo = Asked'
        PROVE  InStream' /\ UnitsRight'
    <3>1. Taken' = Taken + Len(call.buf)
      BY <1>0, <2>3 DEF Taken
    <3>2. Undamaged => ~codec'.junk
      BY <1>0, <2>0 DEF Full, UnitsRight
    <3> QED
      BY <1>0, <1>1, <1>2, <2>0, <2>3, <3>1, <3>2, StreamKept
  <2>4. CASE NonedRun /\ call.want > 0
    <3>1. /\ pc' = "read" /\ call'.todo = RunLength /\ call'.want = call.want
          /\ call'.phase = call.phase /\ UNCHANGED <<d, out>>
      BY <2>4 DEF NonedRun, Ask, Full, Inv, Shape
    <3>2. call.buf = <<>>
      BY <2>4 DEF Full, InStream, NonedRun, Reading
    <3>3. d'.offset = d.offset + Len(call.buf) /\ call'.todo = Asked'
      BY <1>0, <2>1, <3>1, <3>2 DEF Asked, RunLength
    <3>4. Progress' /\ OutputInPlace' /\ OutExact' /\ ExactOrError'
      BY <1>0, <1>2, <2>0, <3>1, Quiet
    <3> QED
      BY <2>2, <2>3, <3>3, <3>4 DEF Full
  <2>5. CASE NonedRun /\ ~(call.want > 0)
    <3>1. Finish("OK", readErr) /\ UNCHANGED <<d, out>> /\ call.want = 0 /\ pc = "decompress"
      BY <1>0, <2>5 DEF NonedRun
    <3>2. call.buf = <<>> /\ d'.offset = d.offset + Len(call.buf)
      <4>1. call.buf = <<>>
        BY <3>1 DEF Full, InStream, Reading
      <4> QED
        BY <1>0, <2>1, <3>1, <4>1
    <3>3. pc' # "read"
      BY <3>1, FinishCall
    <3>4. OutputInPlace' /\ OutExact'
      BY <1>0, <1>2, <2>0, <3>1 DEF Full, OutputInPlace, OutExact, Content
    <3>5. /\ call.phase = "skip" => out' = <<>> /\ d'.offset = FileAt[f].offset
          /\ call.phase = "write" => d'.offset = FileAt[f].offset + Len(out') /\ Len(out') = call.len
      <4>1. Len(out) \in Nat
        BY DEF Full, TypeOK
      <4> QED
        BY <1>0, <2>0, <2>1, <3>1, <4>1 DEF Full, Progress
    <3>6. Progress' /\ ExactOrError'
      BY <1>0, <1>1, <2>0, <3>1, <3>4, <3>5, Returning
    <3> QED
      BY <2>2, <2>3, <3>2, <3>3, <3>4, <3>6 DEF Full
  <2>6. CASE NonedWrite
    <3>1. RunLength <= call.want /\ pc = "got"
      BY <1>0, <2>6 DEF RunLength, MinOf, NonedWrite
    <3>2. Len(call.buf) = RunLength
      <4>1. ASSUME Finish("READ", readErr) PROVE missed'
        BY <4>1 DEF Finish
      <4> QED
        BY <1>5, <2>6, <4>1 DEF NonedWrite
    <3>3. CASE /\ Write(call.buf) /\ call' = Phase(call.phase, call.want - Len(call.buf))
               /\ pc' = "decompress"
      <4>1. /\ \A j \in DOMAIN call.buf : call.buf[j] \in {0, d.offset + j}
            /\ ~param.salvage => \A j \in DOMAIN call.buf : call.buf[j] = d.offset + j
        BY <1>0, <2>0 DEF Full, UnitsRight, Undamaged
      <4>2. /\ d'.offset = d.offset + Len(call.buf)
            /\ call.phase = "skip" =>
                 /\ out' = <<>>
                 /\ d'.offset + (call.want - Len(call.buf)) = FileAt[f].offset
            /\ call.phase = "write" =>
                 /\ d'.offset = FileAt[f].offset + Len(out')
                 /\ Len(out') + (call.want - Len(call.buf)) = call.len
            /\ OutputInPlace' /\ OutExact'
        BY <1>0, <1>2, <2>0, <3>1, <3>2, <3>3, <4>1, Written
      <4>3. call'.phase = call.phase /\ call'.want = call.want - Len(call.buf)
        BY <3>3 DEF Phase, Full, Inv, Shape
      <4>4. Progress'
        BY <1>0, <1>1, <1>2, <4>2, <4>3 DEF Full, Progress, TooLong, FileLen
      <4>5. ExactOrError'
        BY <3>3 DEF ExactOrError, Returned
      <4> QED
        BY <2>2, <2>3, <3>3, <4>2, <4>4, <4>5 DEF Full
    <3>4. CASE WriteFails(RunLength) /\ Finish("WRITE", readErr)
      <4>1. d'.offset = d.offset + Len(call.buf) /\ out' = out
        BY <3>2, <3>4 DEF WriteFails, Full, Inv, Shape
      <4>2. error' = "WRITE" /\ pc' = "idle"
        BY <3>4, FinishCall DEF Mapped
      <4>3. OutputInPlace' /\ OutExact'
        BY <1>0, <1>2, <2>0, <4>1 DEF Full, OutputInPlace, OutExact, Content
      <4>4. Progress' /\ ExactOrError'
        BY <4>2 DEF Progress, ExactOrError
      <4> QED
        BY <2>2, <2>3, <4>1, <4>2, <4>3, <4>4 DEF Full
    <3> QED
      <4>1. ~Finish("READ", readErr)
        BY <1>5 DEF Finish
      <4> QED
        BY <2>6, <3>3, <3>4, <4>1 DEF NonedWrite
  <2> QED
    BY <2>4, <2>5, <2>6
<1> QED
  BY <1>4, <1>5

-----------------------------------------------------------------------------
(* mszipd_decompress, lzxd_decompress.                                      *)

CodecStep == CodecEnter \/ FramesDone \/ BeginFrame \/ FrameInput \/ FrameFails \/ FrameOut
             \/ CodecReceive

LEMMA CodecAt ==
  ASSUME Full, TypeOK', CodecStep
  PROVE  /\ codec.junk => codec'.junk
         /\ IsCodec /\ IsCodec' /\ codec.init /\ codec'.init
         /\ pc \in {"decompress", "frames", "got"}
         /\ UNCHANGED <<cabs, param>>
         /\ d'.folder = d.folder /\ d'.part = d.part /\ d'.infh = d.infh
         /\ d'.block = d.block /\ d'.outlen = d.outlen /\ d'.input = d.input
         /\ codec.error = "OK" => Good
         /\ codec'.error = "OK" => Good'
         /\ pc # "got" => call.buf = <<>>
         /\ pc # "decompress" => codec.error = "OK"
         /\ call.file \in File /\ d.folder = FileAt[call.file].folder
         /\ FileAt[call.file].offset \in Nat
<1>1. IsCodec /\ codec.init /\ pc \in {"decompress", "frames", "got"}
  BY DEF CodecStep, CodecEnter, FramesDone, BeginFrame, FrameInput, FrameFails, FrameOut,
         CodecReceive, Full, Inv, InFolder, ErrorsKept
<1>2. /\ UNCHANGED <<cabs, param>> /\ codec'.init = codec.init
  BY DEF CodecStep, CodecEnter, FramesDone, BeginFrame, FrameInput, FrameFails, FrameOut,
         CodecReceive, Full, Inv, Shape
<1>3. UNCHANGED d \/ \E n : d' = [d EXCEPT !.offset = n]
  BY DEF CodecStep, CodecEnter, FramesDone, BeginFrame, FrameInput, FrameFails, FrameOut,
         CodecReceive, Write, WriteFails
<1>4. /\ d'.folder = d.folder /\ d'.part = d.part /\ d'.infh = d.infh
      /\ d'.block = d.block /\ d'.outlen = d.outlen /\ d'.input = d.input
  BY <1>3 DEF Full, Inv, Shape
<1>5. IsCodec'
  BY <1>1, <1>4 DEF IsCodec
<1>6. (codec.error = "OK" => Good) /\ (codec'.error = "OK" => Good')
  BY <1>1, <1>2, <1>5 DEF Good
<1>7. (pc # "got" => call.buf = <<>>) /\ (pc # "decompress" => codec.error = "OK")
  BY <1>1 DEF Full, Inv, ErrorsKept, InStream, Reading
<1>8. call.file \in File /\ d.folder = FileAt[call.file].folder /\ FileAt[call.file].offset \in Nat
  BY <1>1, FileType DEF Full, Progress
<1>9. codec.junk => codec'.junk
  <2>1. CASE FrameOut
    <3>1. PICK size \in Sizes :
            \/ codec' = [codec EXCEPT !.error = "WRITE"]
            \/ codec' = [codec EXCEPT !.frames = @ + 1, !.made = @ + size,
                                      !.sent = @ + MinOf(size, call.want),
                                      !.need = 0, !.size = 0]
      BY <2>1 DEF FrameOut
    <3> QED
      BY <3>1 DEF Full, Inv, Shape
  <2>2. CASE ~FrameOut
    BY <2>2 DEF CodecStep, CodecEnter, FramesDone, BeginFrame, FrameInput, FrameFails,
                CodecReceive, Full, Inv, Shape
  <2> QED
    BY <2>1, <2>2
<1> QED
  BY <1>1, <1>2, <1>4, <1>5, <1>6, <1>7, <1>8, <1>9

\* What a codec is asked to account for.
LEMMA CodecNumbers ==
  ASSUME Full
  PROVE  /\ codec.got \in Nat /\ codec.frames \in Nat /\ codec.made \in Nat /\ codec.sent \in Nat
         /\ codec.need \in Nat /\ codec.size \in Nat /\ codec.length \in Nat
         /\ codec.eof \in BOOLEAN /\ codec.junk \in BOOLEAN
         /\ call.want \in Nat /\ call.todo \in Nat /\ call.buf \in Seq(Nat) /\ Len(call.buf) \in Nat
         /\ d.offset \in Nat /\ Len(d.input) \in Nat /\ Len(out) \in Nat /\ call.len \in Nat
         /\ call.phase \in {"skip", "write"} /\ param.decompbuf \in Nat \ {0}
         /\ BLOCKMAX \in Nat \ {0} /\ param.salvage \in BOOLEAN
<1>1. param.decompbuf \in Nat \ {0} /\ BLOCKMAX \in Nat \ {0}
  BY BufferType, LengthType DEF Full, Inv
<1>2. codec \in Codec /\ call \in Call /\ d \in State /\ out \in Seq(Nat)
      /\ param.salvage \in BOOLEAN
  BY DEF Full, TypeOK
<1>3. /\ codec.got \in Nat /\ codec.frames \in Nat /\ codec.made \in Nat /\ codec.sent \in Nat
      /\ codec.need \in Nat /\ codec.size \in Nat /\ codec.length \in Nat
      /\ codec.eof \in BOOLEAN /\ codec.junk \in BOOLEAN
  BY <1>2 DEF Codec
<1>4. /\ call.want \in Nat /\ call.todo \in Nat /\ call.buf \in Seq(Nat)
      /\ call.len \in Nat /\ call.phase \in {"skip", "write"}
  BY <1>2 DEF Call
<1>5. d.offset \in Nat /\ d.input \in Seq(Nat)
  BY <1>2 DEF State
<1>6. \A s \in Seq(Nat) : Len(s) \in Nat
  OBVIOUS
<1> QED
  BY <1>1, <1>2, <1>3, <1>4, <1>5, <1>6

\* A frame's input is the whole folder's, or one unit beyond it, at most.
LEMMA GotAtMost ==
  ASSUME Full, Good, IsCodec
  PROVE  codec.got <= InputTo(d.folder, Total(d.folder)) + 1
<1> DEFINE g == d.folder
           L == Len(Flat(g))
<1>1. /\ g \in Folder /\ Here \in 0..L /\ L \in Nat /\ InputSum(g)[Here] \in Nat
  BY Standing
<1>2. L \in 0..L
  BY <1>1
<1>3. InputSum(g)[Here] <= InputSum(g)[L] /\ InputSum(g)[L] = InputTo(g, Total(g))
      /\ InputSum(g)[L] \in Nat
  BY <1>1, <1>2, SumsClimb, BlocksClimb
<1>4. Taken + Len(call.buf) + Len(d.input) = InputSum(g)[Here]
  BY DEF Full, InStream
<1>5. codec.got \in Nat /\ Len(call.buf) \in Nat /\ Len(d.input) \in Nat
  BY CodecNumbers
<1>6. Taken \in {codec.got, codec.got - 1}
  BY <1>5 DEF Taken
<1> HIDE DEF L
<1>7. Taken <= InputSum(g)[Here]
  BY <1>1, <1>4, <1>5, <1>6
<1> QED
  BY <1>1, <1>3, <1>5, <1>6, <1>7

LEMMA Quotients ==
  ASSUME NEW a \in Nat, NEW b \in Nat \ {0}, NEW m \in Nat
  PROVE  /\ a \div b \in Nat /\ b * (a \div b) <= a /\ a < b * (a \div b) + b
         /\ a < m * b => a \div b + 1 <= m
         /\ (m + 1) * b = m * b + b /\ m * b \in Nat
<1> DEFINE q == a \div b
<1>1. q \in Nat /\ b * q <= a /\ a < b * q + b
  BY Z3
<1>2. (m + 1) * b = m * b + b /\ m * b \in Nat
  BY Z3
<1>3. ASSUME a < m * b, ~(q + 1 <= m) PROVE FALSE
  <2>1. m <= q /\ q - m \in Nat
    BY <1>1, <1>3
  <2>2. b * (q - m) \in Nat /\ b * (q - m) = b * q - b * m /\ b * m = m * b
    BY <1>1, <2>1, Z3
  <2> QED
    BY <1>1, <1>2, <1>3, <2>2
<1> QED
  BY <1>1, <1>2, <1>3

LEMMA CodecBreaks ==
  ASSUME Full, Inv', TypeOK', CodecStep, codec'.error # "OK"
  PROVE  Full'
<1>1. /\ IsCodec /\ UNCHANGED <<cabs, param>> /\ d'.folder = d.folder /\ codec'.init = codec.init
      /\ pc # "idle"
  BY CodecAt
<1>2. \E e : Finish(e, readErr) /\ (param.salvage \/ Mapped(e, readErr) # "OK") /\ out' = out
  <2>1. CASE codec.error # "OK" /\ Finish(codec.error, readErr) /\ out' = out
    <3>1. codec.error = "READ" /\ ~param.salvage => readErr # "OK"
      BY DEF Full, Inv, ErrorsKept, ReadErrorKept
    <3> QED
      BY <2>1, <3>1 DEF Mapped
  <2>2. CASE \E e \in {"WRITE", "DECRUNCH"} : Finish(e, readErr) /\ out' = out
    BY <2>2 DEF Mapped
  <2>3. CASE CodecReceive /\ Finish("READ", readErr) /\ Len(call.buf) = 0
    <3>1. call.buf = <<>>
      BY <2>3, CodecNumbers
    <3>2. param.salvage \/ readErr # "OK"
      BY <2>3, <3>1 DEF CodecReceive, Full, Inv, ErrorsKept
    <3> QED
      BY <2>3, <3>2 DEF Mapped, CodecReceive
  <2> QED
    <3>1. CASE CodecEnter
      BY <2>1, <2>2, <3>1 DEF CodecEnter, WriteFails, Full, Inv, Shape
    <3>2. CASE FramesDone \/ FrameFails \/ FrameOut
      BY <1>1, <2>2, <3>2, CodecAt DEF FramesDone, FrameFails, FrameOut, WriteFails, Full, Inv, Shape
    <3>3. CASE BeginFrame \/ FrameInput
      BY <1>1, <3>3, CodecAt DEF BeginFrame, FrameInput, Full, Inv, Shape
    <3>4. CASE CodecReceive
      BY <1>1, <2>3, <3>4, CodecAt DEF CodecReceive, Full, Inv, Shape
    <3> QED
      BY <3>1, <3>2, <3>3, <3>4 DEF CodecStep
<1>3. codec.junk => codec'.junk
  BY CodecAt
<1> QED
  BY <1>1, <1>2, <1>3, BrokenKeeps

\* The stream where a codec takes what it was given.
LEMMA CodecStream ==
  ASSUME Full, TypeOK', CodecStep, Good, Good', call'.buf = <<>>,
         pc' \in {"idle", "decompress", "frames", "read"},
         pc' = "read" => call'.todo = param.decompbuf,
         Taken' = Taken + Len(call.buf), Undamaged => ~codec'.junk
  PROVE  InStream' /\ UnitsRight'
<1>1. pc' = "read" => call'.todo = Asked'
  BY CodecAt DEF Asked
<1> QED
  BY <1>1, CodecAt, StreamKept

\* Data of the codec's is in its place, and right but in salvage mode.
LEMMA SpanRight ==
  ASSUME Full, Good, IsCodec, NEW n \in Nat, NEW data \in Span(codec.sent, n)
  PROVE  /\ data \in Seq(Nat) /\ Len(data) = n
         /\ ~(Method[d.folder] = "mszip" /\ codec.junk) =>
              \A j \in DOMAIN data : data[j] \in {0, d.offset + j}
         /\ ~param.salvage => \A j \in DOMAIN data : data[j] = d.offset + j
<1>1. codec.sent \in Nat /\ d.offset = codec.sent
  BY CodecNumbers DEF Full, InStep
<1>2. /\ data \in Seq(Nat) /\ Len(data) = n
      /\ ~Damaged => \A j \in DOMAIN data : data[j] \in {0, codec.sent + j}
      /\ ~codec.junk => \A j \in DOMAIN data : data[j] = codec.sent + j
  BY <1>1, SpanType
<1>3. ~param.salvage => ~codec.junk
  BY DEF Full, UnitsRight, Undamaged
<1>4. Damaged => Method[d.folder] = "mszip" /\ codec.junk
  <2>1. d.folder \in Folder
    BY Bounds DEF Good
  <2> QED
    BY <2>1, FolderType DEF Damaged, IsLzx, IsCodec, Methods
<1> QED
  BY <1>1, <1>2, <1>3, <1>4

LEMMA EnterFull ==
  ASSUME Full, Inv', TypeOK', CodecEnter, codec'.error = "OK"
  PROVE  Full'
<1> DEFINE i == MinOf(Leftover, call.want)
           f == call.file
<1>0. /\ CodecStep /\ codec.error = "OK" /\ Good /\ Good' /\ IsCodec /\ IsCodec' /\ pc = "decompress"
      /\ call.buf = <<>> /\ Len(call.buf) = 0
  <2>1. CodecStep
    BY DEF CodecStep
  <2>2. codec.error = "OK"
    BY DEF CodecEnter, Full, Inv, Shape
  <2>3. Len(<<>>) = 0
    OBVIOUS
  <2> QED
    BY <2>1, <2>2, <2>3, CodecAt DEF CodecEnter
<1>1. /\ codec.sent <= codec.made /\ d.offset = codec.sent
  BY <1>0 DEF Full, InStep
<1>2. i \in Nat /\ i <= call.want /\ codec.sent + i <= codec.made
      /\ (i # call.want => codec.sent + i = codec.made)
  BY <1>1, CodecNumbers DEF Leftover, MinOf
<1> HIDE DEF i
<1>3. PICK data \in Span(codec.sent, i) : Write(data)
  BY <1>0 DEF CodecEnter, Full, Inv, Shape, i
<1>4. codec' = [codec EXCEPT !.sent = @ + i]
      /\ IF i = call.want
           THEN Finish("OK", readErr)
           ELSE /\ call' = Phase(call.phase, call.want - i) /\ pc' = "frames" /\ missed' = missed
  BY <1>0 DEF CodecEnter, Full, Inv, Shape, i
<1>5. /\ codec'.sent = codec.sent + i
      /\ codec'.got = codec.got /\ codec'.eof = codec.eof /\ codec'.junk = codec.junk
      /\ codec'.made = codec.made /\ codec'.frames = codec.frames
      /\ codec'.need = codec.need /\ codec'.size = codec.size /\ codec'.length = codec.length
  BY <1>4 DEF Full, Inv, Shape
<1>6. call'.file = f /\ call'.len = call.len /\ call'.buf = <<>> /\ missed' = missed
  <2>1. CASE i = call.want
    <3>1. Finish("OK", readErr) /\ missed \in BOOLEAN
      BY <1>4, <2>1 DEF Full, TypeOK
    <3> QED
      BY <3>1, FinishCall
  <2>2. CASE i # call.want
    BY <1>4, <2>2 DEF Phase, Full, Inv, Shape
  <2> QED
    BY <2>1, <2>2
<1>7. pc' \in {"idle", "decompress", "frames"} /\ (i # call.want <=> pc' = "frames")
  BY <1>4, FinishCall
<1>8. InStream' /\ UnitsRight'
  <2>1. Taken' = Taken + Len(call.buf)
    BY <1>0, <1>5, CodecNumbers DEF Taken
  <2>2. Undamaged => ~codec'.junk
    BY <1>0, <1>5 DEF Full, UnitsRight
  <2> QED
    BY <1>0, <1>6, <1>7, <2>1, <2>2, CodecStream
<1>9. /\ data \in Seq(Nat) /\ Len(data) = i
      /\ ~(Method[d.folder] = "mszip" /\ codec.junk) =>
           \A j \in DOMAIN data : data[j] \in {0, d.offset + j}
      /\ ~param.salvage => \A j \in DOMAIN data : data[j] = d.offset + j
  BY <1>0, <1>2, SpanRight
<1>10. /\ d'.offset = d.offset + i
       /\ call.phase = "skip" =>
            out' = <<>> /\ d'.offset + (call.want - i) = FileAt[f].offset
       /\ call.phase = "write" =>
            /\ d'.offset = FileAt[f].offset + Len(out')
            /\ Len(out') + (call.want - i) = call.len
       /\ OutputInPlace' /\ OutExact'
  BY <1>0, <1>2, <1>3, <1>5, <1>6, <1>9, CodecAt, Written
<1>11. InStep'
  <2>1. Here' = Here /\ d'.folder = d.folder /\ IsLzx' = IsLzx
    BY <1>0, CodecAt DEF Here, IsLzx
  <2>2. d'.offset = codec'.sent /\ codec'.sent <= codec'.made
    BY <1>1, <1>2, <1>5, <1>10
  <2>3. pc' = "frames" => codec'.sent = codec'.made
    BY <1>2, <1>5, <1>7
  <2> QED
    BY <1>0, <1>5, <1>7, <2>1, <2>2, <2>3 DEF Full, InStep, Reading, Damaged
<1>12. Progress' /\ ExactOrError'
  <2>1. CASE i = call.want
    <3>1. Finish("OK", readErr) /\ call.want - i = 0
      BY <1>2, <1>4, <2>1
    <3>2. d'.offset + (call.want - i) = d'.offset /\ Len(out') + (call.want - i) = Len(out')
      BY <3>1 DEF TypeOK, State
    <3> QED
      BY <1>0, <1>10, <3>1, <3>2, CodecAt, Returning
  <2>2. CASE i # call.want
    <3>1. call' = Phase(call.phase, call.want - i) /\ pc' = "frames"
      BY <1>4, <2>2
    <3>2. call'.phase = call.phase /\ call'.want = call.want - i
      BY <3>1 DEF Phase, Full, Inv, Shape
    <3>3. Progress'
      BY <1>0, <1>6, <1>10, <3>2, CodecAt DEF Full, Progress, TooLong, FileLen
    <3> QED
      BY <3>1, <3>3 DEF ExactOrError, Returned
  <2> QED
    BY <2>1, <2>2
<1> QED
  BY <1>8, <1>10, <1>11, <1>12 DEF Full

LEMMA DoneFull ==
  ASSUME Full, Inv', TypeOK', FramesDone, codec'.error = "OK"
  PROVE  Full'
<1> DEFINE f == call.file
<1>0. /\ CodecStep /\ Good /\ Good' /\ IsCodec /\ IsCodec' /\ pc = "frames"
      /\ call.buf = <<>> /\ Len(call.buf) = 0
  <2>1. CodecStep
    BY DEF CodecStep
  <2>2. Len(<<>>) = 0
    OBVIOUS
  <2> QED
    BY <2>1, <2>2, CodecAt DEF FramesDone
<1>1. UNCHANGED <<codec, d, out>> /\ Finish("OK", readErr) /\ call.want = 0
  BY CodecNumbers DEF FramesDone, Full, Inv, Shape
<1>2. /\ call'.buf = <<>> /\ pc' \in {"idle", "decompress"} /\ call'.file = f
      /\ missed' = missed
  <2>1. missed \in BOOLEAN
    BY DEF Full, TypeOK
  <2> QED
    BY <1>1, <2>1, FinishCall
<1>3. InStream' /\ UnitsRight'
  <2>1. Taken' = Taken + Len(call.buf)
    BY <1>0, <1>1, CodecNumbers DEF Taken
  <2>2. Undamaged => ~codec'.junk
    BY <1>0, <1>1 DEF Full, UnitsRight
  <2> QED
    BY <1>0, <1>2, <2>1, <2>2, CodecStream
<1>4. InStep'
  BY <1>0, <1>1, <1>2 DEF Full, InStep, Reading, Here, IsLzx, Damaged
<1>5. OutputInPlace' /\ OutExact'
  BY <1>0, <1>1, <1>2, CodecAt DEF Full, OutputInPlace, OutExact, Content
<1>6. /\ call.phase = "skip" => out' = <<>> /\ d'.offset = FileAt[f].offset
      /\ call.phase = "write" => d'.offset = FileAt[f].offset + Len(out') /\ Len(out') = call.len
  BY <1>0, <1>1, CodecAt, CodecNumbers DEF Full, Progress
<1>7. Progress' /\ ExactOrError'
  BY <1>0, <1>1, <1>5, <1>6, CodecAt, Returning
<1> QED
  BY <1>3, <1>4, <1>5, <1>7 DEF Full

\* The decompressor begins a frame, or asks for more input.
LEMMA AskFull ==
  ASSUME Full, Inv', TypeOK', BeginFrame \/ FrameInput
  PROVE  Full'
<1>0. /\ CodecStep /\ Good /\ IsCodec /\ IsCodec' /\ pc = "frames"
      /\ call.buf = <<>> /\ Len(call.buf) = 0 /\ codec.error = "OK"
  <2>1. CodecStep
    BY DEF CodecStep
  <2>2. Len(<<>>) = 0
    OBVIOUS
  <2> QED
    BY <2>1, <2>2, CodecAt DEF BeginFrame, FrameInput
<1>1. UNCHANGED <<d, out, missed>>
  BY DEF BeginFrame, FrameInput, Ask
<1>2. codec.sent = codec.made
  <2>1. (codec.need = 0 /\ WantsFrame) \/ codec.need > 0
    BY CodecNumbers DEF BeginFrame, FrameInput
  <2> QED
    BY <1>0, <2>1, CodecNumbers DEF Full, InStep
<1>3. /\ codec'.got = codec.got /\ codec'.eof = codec.eof /\ codec'.junk = codec.junk
      /\ codec'.made = codec.made /\ codec'.frames = codec.frames /\ codec'.sent = codec.sent
      /\ codec'.length = codec.length /\ codec'.error = codec.error
  BY DEF BeginFrame, FrameInput, Full, Inv, Shape
<1>4. /\ \/ UNCHANGED call /\ pc' = "frames"
         \/ Ask(param.decompbuf) /\ UNCHANGED codec
  BY <1>0 DEF BeginFrame, FrameInput
<1>5. /\ call'.buf = <<>> /\ pc' \in {"frames", "read"}
      /\ (pc' = "read" => call'.todo = param.decompbuf)
      /\ call'.file = call.file /\ call'.len = call.len /\ call'.phase = call.phase
      /\ call'.want = call.want
  BY <1>0, <1>4 DEF Ask, Full, Inv, Shape
<1>6. Good'
  BY <1>0, <1>3, CodecAt
<1>7. InStream' /\ UnitsRight'
  <2>1. Taken' = Taken + Len(call.buf)
    BY <1>0, <1>3, CodecNumbers DEF Taken
  <2>2. Undamaged => ~codec'.junk
    BY <1>0, <1>3 DEF Full, UnitsRight
  <2> QED
    BY <1>0, <1>5, <1>6, <2>1, <2>2, CodecStream
<1>8. InStep'
  <2> DEFINE g == d.folder
             n == codec.frames + 1
             diff == Yield(g, n) - Yield(g, codec.frames)
  <2>1. /\ codec'.need > 0 /\ codec'.need <= InputTo(g, Total(g)) + 1 => codec'.size <= diff
        /\ IsLzx => codec'.size <= BLOCKMAX
    <3>1. CASE UNCHANGED codec
      BY <1>0, <3>1 DEF Full, InStep
    <3>2. CASE codec' # codec
      <4>1. PICK ahead \in {0, 1} :
              codec' = [codec EXCEPT !.need = FrameNeed(n, ahead), !.size = FrameSize(n)]
        BY <3>2 DEF BeginFrame, FrameInput
      <4>2. codec'.need = FrameNeed(n, ahead) /\ codec'.size = FrameSize(n)
        BY <4>1 DEF Full, Inv, Shape
      <4>3. codec.frames \in Nat /\ n \in Nat \ {0} /\ n - 1 = codec.frames
        <5>1. codec.frames \in Nat
          BY CodecNumbers
        <5> QED
          BY <5>1
      <4>4. diff = OutputTo(g, MinOf(n, Total(g))) - OutputTo(g, MinOf(n - 1, Total(g)))
        BY <4>3 DEF Yield
      <4>5. FrameSize(n) > diff => FrameNeed(n, ahead) = InputTo(g, Total(g)) + 2
        BY <4>4 DEF FrameNeed
      <4>6. FrameSize(n) \in Nat /\ diff \in Int /\ InputTo(g, Total(g)) \in Nat
        <5> HIDE DEF n
        <5>0. (\A m \in Nat : Yield(g, m) \in Nat) /\ InputTo(g, Total(g)) \in Nat
          BY <1>0, Bounds DEF Good
        <5>1. Yield(g, n) \in Nat /\ Yield(g, codec.frames) \in Nat /\ InputTo(g, Total(g)) \in Nat
          BY <4>3, <5>0
        <5>2. FrameSize(n) \in Nat
          BY <1>0, <4>3, FrameType
        <5> QED
          BY <5>1, <5>2
      <4>7. IsLzx => FrameSize(n) <= BLOCKMAX
        <5>1. codec.length # 0 => codec.length - codec.sent \in Int
          BY CodecNumbers
        <5> QED
          BY <5>1, LengthType DEF FrameSize, MinOf
      <4> HIDE DEF diff, n
      <4> QED
        BY <4>2, <4>5, <4>6, <4>7
    <3> QED
      BY <3>1, <3>2
  <2> HIDE DEF diff
  <2>3. Here' = Here /\ d'.folder = d.folder /\ IsLzx' = IsLzx
    BY <1>1 DEF Here, IsLzx
  <2>4. codec'.need > 0 /\ codec'.need <= InputTo(d'.folder, Total(d'.folder)) + 1 =>
          codec'.size <= Yield(d'.folder, codec'.frames + 1) - Yield(d'.folder, codec'.frames)
    BY <1>3, <2>1, <2>3 DEF diff
  <2> QED
    BY <1>0, <1>1, <1>2, <1>3, <2>1, <2>3, <2>4 DEF Full, InStep, Damaged
<1>9. Progress' /\ OutputInPlace' /\ OutExact' /\ ExactOrError'
  BY <1>0, <1>1, <1>5, CodecAt, Quiet
<1> QED
  BY <1>7, <1>8, <1>9 DEF Full

\* "write a frame": what is made of it is what its block holds.
LEMMA FrameOutFull ==
  ASSUME Full, Inv', TypeOK', FrameOut, codec'.error = "OK"
  PROVE  Full'
<1>a. PICK size \in Sizes :
        LET i == MinOf(size, call.want) IN
        \/ /\ \E data \in Span(codec.made, i) : Write(data)
           /\ codec' = [codec EXCEPT !.frames = @ + 1, !.made = @ + size, !.sent = @ + i,
                                     !.need = 0, !.size = 0]
           /\ call' = Phase(call.phase, call.want - i)
           /\ pc' = "frames" /\ missed' = missed
        \/ codec' = [codec EXCEPT !.error = "WRITE"]
  BY DEF FrameOut
<1>b. size \in Nat /\ (~Damaged => size = codec.size)
  BY CodecNumbers DEF Sizes
<1> DEFINE i == MinOf(size, call.want)
           f == call.file
           g == d.folder
           n == codec.frames
<1>0. /\ CodecStep /\ Good /\ Good' /\ IsCodec /\ IsCodec' /\ pc = "frames"
      /\ call.buf = <<>> /\ Len(call.buf) = 0
      /\ codec.need > 0 /\ (~Damaged => codec.need <= codec.got)
  <2>1. CodecStep
    BY DEF CodecStep
  <2>2. Len(<<>>) = 0
    OBVIOUS
  <2> QED
    BY <2>1, <2>2, CodecAt DEF FrameOut, Decodable
<1>1. codec.sent = codec.made /\ d.offset = codec.sent
  BY <1>0, CodecNumbers DEF Full, InStep
<1>2. i \in Nat /\ i <= call.want /\ i <= size /\ (i # size => i = call.want)
  BY <1>b, CodecNumbers DEF MinOf
<1>c. codec' # [codec EXCEPT !.error = "WRITE"]
  BY DEF Full, Inv, Shape
<1>3. PICK data \in Span(codec.sent, i) : Write(data)
  BY <1>a, <1>c, <1>1
<1>4. /\ codec' = [codec EXCEPT !.frames = @ + 1, !.made = @ + size, !.sent = @ + i,
                                !.need = 0, !.size = 0]
      /\ call' = Phase(call.phase, call.want - i)
      /\ pc' = "frames" /\ missed' = missed
  BY <1>a, <1>c
<1> HIDE DEF i
<1>5. /\ codec'.sent = codec.sent + i
      /\ codec'.got = codec.got /\ codec'.eof = codec.eof /\ codec'.junk = codec.junk
      /\ codec'.made = codec.made + size /\ codec'.frames = n + 1
      /\ codec'.need = 0 /\ codec'.size = 0 /\ codec'.length = codec.length
  BY <1>4 DEF Full, Inv, Shape
<1>6. /\ call'.file = f /\ call'.len = call.len /\ call'.buf = <<>>
      /\ call'.phase = call.phase /\ call'.want = call.want - i
  BY <1>4 DEF Phase, Full, Inv, Shape
<1>7. InStream' /\ UnitsRight'
  <2>1. Taken' = Taken + Len(call.buf)
    BY <1>0, <1>5, CodecNumbers DEF Taken
  <2>2. Undamaged => ~codec'.junk
    BY <1>0, <1>5 DEF Full, UnitsRight
  <2> QED
    BY <1>0, <1>4, <1>6, <2>1, <2>2, CodecStream
<1>8. /\ data \in Seq(Nat) /\ Len(data) = i
      /\ ~(Method[d.folder] = "mszip" /\ codec.junk) =>
           \A j \in DOMAIN data : data[j] \in {0, d.offset + j}
      /\ ~param.salvage => \A j \in DOMAIN data : data[j] = d.offset + j
  BY <1>0, <1>2, SpanRight
<1>9. /\ d'.offset = d.offset + i
      /\ call.phase = "skip" =>
           out' = <<>> /\ d'.offset + (call.want - i) = FileAt[f].offset
      /\ call.phase = "write" =>
           /\ d'.offset = FileAt[f].offset + Len(out')
           /\ Len(out') + (call.want - i) = call.len
      /\ OutputInPlace' /\ OutExact'
  BY <1>0, <1>2, <1>3, <1>4, <1>5, <1>6, <1>8, CodecAt, Written
<1>10. Progress' /\ ExactOrError'
  <2>1. Progress'
    BY <1>0, <1>4, <1>6, <1>9, CodecAt DEF Full, Progress, TooLong, FileLen
  <2> QED
    BY <1>4, <2>1 DEF ExactOrError, Returned
<1>11. InStep'
  <2>1. Here' = Here /\ d'.folder = d.folder /\ IsLzx' = IsLzx
    BY <1>0, CodecAt DEF Here, IsLzx
  <2>2. d'.offset = codec'.sent /\ codec'.sent <= codec'.made
    BY <1>b, <1>1, <1>2, <1>5, <1>9, CodecNumbers
  <2>3. ASSUME ~Damaged' PROVE codec'.made <= Yield(g, n + 1)
    <3>0. ~Damaged /\ size = codec.size
      BY <1>b, <1>5, <2>1, <2>3 DEF Damaged
    <3>1. codec.size <= Yield(g, n + 1) - Yield(g, n) /\ codec.made <= Yield(g, n)
      <4>1. codec.got <= InputTo(g, Total(g)) + 1 /\ InputTo(g, Total(g)) \in Nat
        BY <1>0, GotAtMost, Bounds DEF Good
      <4>2. codec.need <= InputTo(g, Total(g)) + 1
        BY <1>0, <3>0, <4>1, CodecNumbers
      <4> QED
        BY <1>0, <3>0, <4>2 DEF Full, InStep
    <3>2. n \in Nat /\ n + 1 \in Nat /\ codec.size \in Nat /\ codec.made \in Nat
      BY CodecNumbers
    <3>3. Yield(g, n) \in Nat /\ Yield(g, n + 1) \in Nat
      BY <1>0, <3>2, Bounds DEF Good
    <3> QED
      BY <1>5, <3>0, <3>1, <3>2, <3>3
  <2>4. ASSUME IsLzx
        PROVE  /\ codec'.made <= codec'.frames * BLOCKMAX
               /\ codec'.sent < codec'.made => codec'.sent \div BLOCKMAX + 1 <= codec'.frames
    <3>1. codec.made <= n * BLOCKMAX /\ size <= BLOCKMAX
      BY <1>b, <1>0, <2>4 DEF Full, InStep, Damaged
    <3>2. /\ n \in Nat /\ codec.made \in Nat /\ size \in Nat /\ BLOCKMAX \in Nat \ {0}
          /\ codec'.sent \in Nat /\ codec'.frames \in Nat /\ codec'.made \in Nat
      BY <1>b, CodecNumbers DEF TypeOK, Codec
    <3>3. (n + 1) * BLOCKMAX = n * BLOCKMAX + BLOCKMAX /\ n * BLOCKMAX \in Nat
      BY <3>2, Quotients
    <3>4. codec'.made <= codec'.frames * BLOCKMAX /\ codec'.frames * BLOCKMAX \in Nat
      BY <1>5, <3>1, <3>2, <3>3
    <3>5. codec'.sent < codec'.made => codec'.sent < codec'.frames * BLOCKMAX
      BY <3>2, <3>4
    <3> QED
      BY <3>2, <3>4, <3>5, Quotients
  <2>5. codec'.sent = codec'.made
        \/ (call'.want = 0 /\ codec'.need = 0 /\ ~WantsFrame')
    <3>1. CASE i = size
      BY <1>1, <1>5, <3>1
    <3>2. CASE i # size
      <4>1. call'.want = 0 /\ codec'.sent < codec'.made
        BY <1>b, <1>1, <1>2, <1>5, <1>6, <3>2, CodecNumbers
      <4>2. codec'.sent + call'.want = codec'.sent /\ codec'.sent \in Nat /\ codec'.frames \in Nat
        BY <4>1 DEF TypeOK, Codec
      <4>3. IsLzx => ~(codec'.frames < codec'.sent \div BLOCKMAX + 1)
        <5>1. codec'.sent \div BLOCKMAX \in Nat
          BY <4>2, CodecNumbers, Quotients
        <5> QED
          BY <2>4, <4>1, <4>2, <5>1
      <4>4. ~WantsFrame'
        BY <2>1, <4>1, <4>2, <4>3 DEF WantsFrame
      <4> QED
        BY <1>5, <4>1, <4>4
    <3> QED
      BY <3>1, <3>2
  <2> QED
    <3>1. 0 <= BLOCKMAX /\ ~(0 > 0)
      BY CodecNumbers
    <3> QED
      BY <1>0, <1>4, <1>5, <2>1, <2>2, <2>3, <2>4, <2>5, <3>1 DEF Full, InStep, Reading
<1> QED
  BY <1>7, <1>9, <1>10, <1>11 DEF Full

LEMMA ReceiveFull ==
  ASSUME Full, Inv', TypeOK', CodecReceive, codec'.error = "OK"
  PROVE  Full'
<1> DEFINE got == Len(call.buf)
<1>0. /\ CodecStep /\ Good /\ Good' /\ IsCodec /\ IsCodec' /\ pc = "got" /\ UNCHANGED <<d, out>>
  <2>1. CodecStep
    BY DEF CodecStep
  <2> QED
    BY <2>1, CodecAt DEF CodecReceive
<1>1. /\ pc' = "frames" /\ missed' = missed /\ call' = Phase(call.phase, call.want)
      /\ \/ /\ got > 0
            /\ codec' = [codec EXCEPT !.got = @ + got,
                                      !.junk = @ \/ \E i \in 1..got : call.buf[i] = 0]
         \/ got = 0 /\ ~codec.eof /\ codec' = [codec EXCEPT !.got = @ + 1, !.eof = TRUE]
  BY <1>0 DEF CodecReceive, Full, Inv, Shape
<1>2. /\ call'.file = call.file /\ call'.len = call.len /\ call'.buf = <<>>
      /\ call'.phase = call.phase /\ call'.want = call.want
  BY <1>1 DEF Phase, Full, Inv, Shape
<1>3. /\ codec'.sent = codec.sent /\ codec'.made = codec.made /\ codec'.frames = codec.frames
      /\ codec'.need = codec.need /\ codec'.size = codec.size /\ codec'.length = codec.length
      /\ \/ codec'.got = codec.got + got /\ codec'.eof = codec.eof
         \/ /\ got = 0 /\ ~codec.eof
            /\ codec'.got = codec.got + 1 /\ codec'.eof
  BY <1>1 DEF Full, Inv, Shape
<1>4. Undamaged => ~codec'.junk
  <2>1. codec'.junk => codec.junk \/ \E i \in 1..got : call.buf[i] = 0
    BY <1>1 DEF Full, Inv, Shape
  <2>2. DOMAIN call.buf = 1..got
    BY CodecNumbers
  <2> QED
    BY <1>0, <2>1, <2>2 DEF Full, UnitsRight
<1>5. Taken' = Taken + got
  <2>1. CASE codec'.got = codec.got + got /\ codec'.eof = codec.eof
    BY <1>0, <2>1, CodecNumbers DEF Taken
  <2>2. CASE got = 0 /\ ~codec.eof /\ codec'.got = codec.got + 1 /\ codec'.eof
    BY <1>0, <2>2, CodecNumbers DEF Taken
  <2> QED
    BY <1>3, <2>1, <2>2
<1>6. InStream' /\ UnitsRight'
  BY <1>0, <1>1, <1>2, <1>4, <1>5, CodecStream
<1>7. InStep'
  <2>1. Here' = Here /\ d'.folder = d.folder /\ IsLzx' = IsLzx
    BY <1>0 DEF Here, IsLzx
  <2>2. codec'.eof => Here = Len(Flat(d.folder))
    <3>1. CASE codec'.eof = codec.eof
      BY <1>0, <3>1 DEF Full, InStep
    <3>2. CASE got = 0
      <4>1. got + call.todo = param.decompbuf
        BY <1>0 DEF Full, InStream, Reading, Asked
      <4>2. call.todo > 0
        BY <3>2, <4>1, CodecNumbers
      <4> QED
        BY <1>0, <4>2 DEF Full, InStream
    <3> QED
      BY <1>3, <3>1, <3>2
  <2>3. codec.sent = codec.made
    BY <1>0 DEF Full, InStep, Reading
  <2> QED
    BY <1>0, <1>1, <1>3, <2>1, <2>2, <2>3, CodecAt DEF Full, InStep, Reading, Damaged
<1>8. Progress' /\ OutputInPlace' /\ OutExact' /\ ExactOrError'
  BY <1>0, <1>1, <1>2, CodecAt, Quiet
<1> QED
  BY <1>6, <1>7, <1>8 DEF Full

LEMMA CodecFull ==
  ASSUME Full, Inv', TypeOK', CodecStep
  PROVE  Full'
<1>1. CASE codec'.error # "OK"
  BY <1>1, CodecBreaks
<1>2. CASE codec'.error = "OK"
  <2>1. ~FrameFails
    BY <1>2 DEF FrameFails, Full, Inv, Shape
  <2> QED
    BY <1>2, <2>1, EnterFull, DoneFull, AskFull, FrameOutFull, ReceiveFull DEF CodecStep
<1> QED
  BY <1>1, <1>2

-----------------------------------------------------------------------------
(* cabd_sys_read and cabd_sys_read_block.                                   *)

ReadStep == ReadCopy \/ ReadNext \/ BlockUnread \/ BlockRejected \/ BlockRead \/ BlockContinues

\* Where a block ends, so does what the blocks up to it hold.
LEMMA EndAt ==
  ASSUME NEW g \in Folder, NEW k \in 0..Len(Flat(g)), k # 0 => Flat(g)[k].out # 0
  PROVE  InputSum(g)[k] = InputTo(g, Ended(g, k)) /\ Ended(g, k) \in 0..Total(g)
<1>1. Total(g) \in Nat /\ Len(Flat(g)) \in Nat
  BY FlatLen, EndedClimbs
<1>2. CASE k = 0
  <2>1. Ended(g, k) = 0
    BY <1>2, EndedNext
  <2> QED
    BY <1>1, <1>2, <2>1, SumsClimb DEF InputTo
<1>3. CASE k # 0
  <2>1. k \in 1..Len(Flat(g))
    BY <1>1, <1>3
  <2>2. Ended(g, k) \in 1..Total(g) /\ EndOf(g, Ended(g, k)) = k
    BY <1>3, <2>1, EndOfEnd
  <2> QED
    BY <1>1, <2>2 DEF InputTo
<1> QED
  BY <1>2, <1>3

LEMMA ReadAt ==
  ASSUME Full, ReadStep
  PROVE  /\ pc \in {"read", "block"} /\ codec.init /\ codec'.init /\ codec.error = "OK"
         /\ (IsCodec \/ ~missed <=> Good) /\ (IsCodec' <=> IsCodec)
         /\ UNCHANGED <<cabs, param, out>> /\ d'.folder = d.folder /\ d'.offset = d.offset
         /\ codec'.junk = codec.junk
         /\ missed => missed'
         /\ call'.file = call.file /\ call'.len = call.len
         /\ ~Reading' => call'.buf = <<>>
         /\ pc' # "idle" /\ call'.phase = "skip" => call.phase = "skip"
<1>1. pc \in {"read", "block"} /\ UNCHANGED <<cabs, param, out>>
  BY DEF ReadStep, ReadCopy, ReadNext, BlockUnread, BlockRejected, BlockRead, BlockContinues
<1>2. codec.init /\ codec.error = "OK"
  BY <1>1 DEF Full, Inv, InFolder, ErrorsKept
<1>3. /\ d'.folder = d.folder /\ d'.offset = d.offset
  <2>1. CASE ReadCopy \/ ReadNext \/ BlockUnread \/ BlockRejected \/ BlockRead
    BY <2>1 DEF ReadCopy, ReadNext, BlockUnread, BlockRejected, BlockRead, Full, Inv, Shape
  <2>2. CASE BlockContinues
    BY <2>2 DEF BlockContinues, Full, Inv, Shape
  <2> QED
    BY <2>1, <2>2 DEF ReadStep
<1>4. \/ \E e : BlockFails(e)
      \/ UNCHANGED missed /\ codec'.init = codec.init /\ pc' \in {"read", "block", "got"}
         /\ call'.file = call.file /\ call'.len = call.len /\ call'.phase = call.phase
  <2>1. CASE ReadCopy \/ ReadNext \/ BlockUnread \/ BlockRejected
    BY <2>1 DEF ReadCopy, ReadNext, BlockUnread, BlockRejected, Full, Inv, Shape
  <2>2. CASE BlockRead
    BY <2>2 DEF BlockRead, BlockDone, Full, Inv, Shape
  <2>3. CASE BlockContinues
    BY <2>3 DEF BlockContinues
  <2> QED
    BY <2>1, <2>2, <2>3 DEF ReadStep
<1>7. codec'.junk = codec.junk
  <2>1. CASE \E e : BlockFails(e)
    BY <2>1 DEF BlockFails, Full, Inv, Shape
  <2>2. CASE BlockRead
    BY <2>2 DEF BlockRead, BlockDone, Full, Inv, Shape
  <2>3. CASE ReadCopy \/ ReadNext \/ BlockUnread \/ BlockRejected
    BY <2>1, <2>3 DEF ReadCopy, ReadNext, BlockUnread, BlockRejected
  <2>4. CASE BlockContinues
    BY <2>1, <2>4 DEF BlockContinues
  <2> QED
    BY <2>2, <2>3, <2>4 DEF ReadStep
<1>5. CASE \E e : BlockFails(e)
  <2>1. codec'.init = codec.init /\ \E e : Finish("READ", e)
    BY <1>5 DEF BlockFails, Full, Inv, Shape
  <2>2. /\ call'.file = call.file /\ call'.len = call.len /\ call'.buf = <<>> /\ missed'
        /\ pc' # "idle" => call'.phase = "write"
    BY <2>1, FinishCall
  <2> QED
    BY <1>1, <1>2, <1>3, <1>7, <2>1, <2>2 DEF Good, IsCodec
<1>6. CASE UNCHANGED missed /\ codec'.init = codec.init /\ pc' \in {"read", "block", "got"}
         /\ call'.file = call.file /\ call'.len = call.len /\ call'.phase = call.phase
  BY <1>1, <1>2, <1>3, <1>6, <1>7 DEF Good, IsCodec, Reading
<1> QED
  BY <1>4, <1>5, <1>6

LEMMA ReadFails ==
  ASSUME Full, Inv', TypeOK', ReadStep, (~IsCodec /\ missed') \/ \E e : e # "OK" /\ BlockFails(e)
  PROVE  Full'
<1>1. CASE ~IsCodec /\ missed'
  <2>1. pc' # "idle" /\ call'.phase = "skip" => out' = <<>>
    BY ReadAt DEF Full, Progress
  <2>2. pc # "idle" /\ codec'.init = codec.init
    <3>1. codec'.init \in BOOLEAN /\ codec.init \in BOOLEAN
      BY DEF Full, TypeOK, Codec
    <3> QED
      BY <3>1, ReadAt
  <2> QED
    BY <1>1, <2>1, <2>2, ReadAt, LostKeeps
<1>2. CASE IsCodec /\ \E e : e # "OK" /\ BlockFails(e)
  <2>1. PICK e : e # "OK" /\ BlockFails(e)
    BY <1>2
  <2>2. Finish("READ", e) /\ codec'.error = "READ" /\ codec'.init = codec.init
    BY <1>2, <2>1 DEF BlockFails, Full, Inv, Shape
  <2>3. Mapped("READ", e) # "OK"
    BY <2>1 DEF Mapped
  <2>4. codec.junk => codec'.junk
    BY ReadAt
  <2>5. /\ pc # "idle" /\ UNCHANGED <<cabs, param, out>> /\ d'.folder = d.folder
    BY ReadAt
  <2> QED
    BY <1>2, <2>2, <2>3, <2>4, <2>5, BrokenKeeps
<1>3. ASSUME NEW e, BlockFails(e) PROVE missed'
  BY <1>3 DEF BlockFails, Finish
<1> QED
  BY <1>1, <1>2, <1>3

\* Some of the input goes to the decompressor's buffer.
LEMMA CopyFull ==
  ASSUME Full, Inv', TypeOK', ReadCopy, Good
  PROVE  Full'
<1> DEFINE n == MinOf(Len(d.input), call.todo)
           b == Len(call.buf)
           m == Len(d.input)
<1>0. /\ ReadStep /\ pc = "read" /\ d.input \in Seq(Nat) /\ call.buf \in Seq(Nat)
      /\ call.todo \in Nat /\ call.todo > 0 /\ d.offset \in Nat
  BY DEF ReadStep, ReadCopy, Full, Inv, ErrorsKept, TypeOK, State, Call
<1>1. n \in 1..m /\ n <= call.todo /\ m \in Nat /\ b \in Nat /\ n \in Nat
  BY <1>0 DEF ReadCopy, MinOf
<1>2. /\ d'.input = SubSeq(d.input, n + 1, m)
      /\ d'.part = d.part /\ d'.infh = d.infh /\ d'.block = d.block /\ d'.outlen = d.outlen
      /\ call'.todo = call.todo - n /\ call'.buf = call.buf \o SubSeq(d.input, 1, n)
      /\ call'.want = call.want /\ call'.phase = call.phase
      /\ pc' = (IF call.todo = n THEN "got" ELSE "read")
      /\ UNCHANGED <<codec, missed>>
  BY DEF ReadCopy, Full, Inv, Shape
<1> HIDE DEF n
<1>3. /\ SubSeq(d.input, 1, n) \in Seq(Nat) /\ Len(SubSeq(d.input, 1, n)) = n
      /\ d'.input \in Seq(Nat) /\ Len(d'.input) = m - n
  BY <1>0, <1>1, <1>2, TakeFirst
<1>4. /\ \A k \in 1..n : SubSeq(d.input, 1, n)[k] = d.input[k]
      /\ \A k \in 1..m - n : d'.input[k] = d.input[n + k]
  BY <1>0, <1>1, <1>2
<1>5. /\ Len(call'.buf) = b + n /\ call'.buf \in Seq(Nat)
      /\ \A k \in 1..b : call'.buf[k] = call.buf[k]
      /\ \A k \in 1..n : call'.buf[b + k] = d.input[k]
  <2> DEFINE t == SubSeq(d.input, 1, n)
  <2>1. t \in Seq(Nat) /\ Len(t) = n /\ \A k \in 1..n : t[k] = d.input[k]
    BY <1>3, <1>4
  <2> HIDE DEF t
  <2>2. /\ call.buf \o t \in Seq(Nat) /\ Len(call.buf \o t) = Len(call.buf) + Len(t)
        /\ \A k \in 1..Len(call.buf) : (call.buf \o t)[k] = call.buf[k]
        /\ \A k \in 1..Len(t) : (call.buf \o t)[Len(call.buf) + k] = t[k]
    <3>1. call.buf \in Seq(Nat) /\ t \in Seq(Nat)
      BY <1>0, <2>1
    <3> QED
      BY <3>1, Placed
  <2>3. call'.buf = call.buf \o t
    BY <1>2 DEF t
  <2> QED
    BY <2>1, <2>2, <2>3
<1>6. Good' /\ Here' = Here /\ d'.folder = d.folder /\ Loaded(d.folder)' = Loaded(d.folder)
      /\ (IsCodec' <=> IsCodec) /\ Taken' = Taken /\ Asked' = Asked /\ (Undamaged' <=> Undamaged)
  BY <1>0, <1>2, ReadAt DEF Good, Here, Taken, Asked, Undamaged, Loaded, RunLength, IsCodec
<1>7. InStream'
  <2>1. Taken' + Len(call'.buf) + Len(d'.input) = InputSum(d.folder)[Here]
    <3>1. Taken + b + m = InputSum(d.folder)[Here]
      BY DEF Full, InStream
    <3>2. Taken \in Int
      BY CodecNumbers DEF Taken
    <3>3. Taken + (b + n) + (m - n) = Taken + b + m
      <4> HIDE DEF b, m
      <4>1. \A t \in Int : t + (b + n) + (m - n) = t + b + m
        BY <1>1
      <4> QED
        BY <3>2, <4>1
    <3> QED
      BY <1>3, <1>5, <1>6, <3>1, <3>3
  <2>2. Len(call'.buf) + call'.todo = Asked'
    <3>1. b + call.todo = Asked
      BY <1>0 DEF Full, InStream, Reading
    <3>2. (b + n) + (call.todo - n) = b + call.todo
      BY <1>0, <1>1
    <3> QED
      BY <1>2, <1>5, <1>6, <3>1, <3>2
  <2>3. pc' \in {"got", "read"} /\ (pc' = "got" => ~(call'.todo > 0))
    BY <1>0, <1>1, <1>2
  <2>4. (codec.init => Loaded(d.folder) >= 1)'
    BY <1>2, <1>6 DEF Full, InStream
  <2> QED
    BY <1>0, <1>2, <1>6, <2>1, <2>2, <2>3, <2>4, ReadAt DEF Full, InStream, Reading
<1>8. UnitsRight'
  <2>1. ASSUME NEW j \in DOMAIN call'.buf
        PROVE  \/ j \in DOMAIN call.buf /\ call'.buf[j] = call.buf[j]
               \/ \E k \in DOMAIN d.input :
                    j = b + k /\ call'.buf[j] = d.input[k]
    <3>1. j \in 1..b + n
      BY <1>5
    <3>2. CASE j \in 1..b
      BY <1>0, <1>5, <3>2
    <3>3. CASE j \notin 1..b
      <4> DEFINE k == j - b
      <4>1. k \in 1..n /\ j = b + k
        BY <1>1, <3>1, <3>3
      <4>2. k \in DOMAIN d.input
        BY <1>0, <1>1, <4>1
      <4> HIDE DEF k
      <4> QED
        BY <1>5, <4>1, <4>2
    <3> QED
      BY <3>2, <3>3
  <2>2. ASSUME NEW j \in DOMAIN d'.input
        PROVE  n + j \in DOMAIN d.input /\ d'.input[j] = d.input[n + j] /\ j \in Nat
    <3>1. j \in 1..m - n
      BY <1>3
    <3>2. n + j \in 1..m
      BY <1>1, <3>1
    <3> QED
      BY <1>0, <1>4, <3>1, <3>2
  <2>3. Undamaged => /\ \A j \in DOMAIN call.buf : call.buf[j] # 0
                     /\ \A j \in DOMAIN d.input : d.input[j] # 0
                     /\ ~codec.junk
    BY DEF Full, UnitsRight
  <2>4. ~IsCodec =>
          /\ \A j \in DOMAIN call.buf : call.buf[j] \in {0, d.offset + j}
          /\ \A j \in DOMAIN d.input : d.input[j] \in {0, d.offset + b + j}
    BY DEF Full, UnitsRight
  <2>5. Undamaged' => /\ \A j \in DOMAIN call'.buf : call'.buf[j] # 0
                      /\ \A j \in DOMAIN d'.input : d'.input[j] # 0
                      /\ ~codec'.junk
    BY <1>2, <1>6, <2>1, <2>2, <2>3
  <2>6. ASSUME ~IsCodec', NEW j \in DOMAIN call'.buf PROVE call'.buf[j] \in {0, d'.offset + j}
    <3>1. ASSUME NEW k \in DOMAIN d.input, j = b + k, call'.buf[j] = d.input[k]
          PROVE  call'.buf[j] \in {0, d'.offset + j}
      <4>1. d.input[k] \in {0, d.offset + b + k} /\ k \in Nat
        BY <1>0, <1>6, <2>4, <2>6
      <4>2. d.offset + b + k = d.offset + j
        BY <1>0, <1>1, <3>1, <4>1
      <4> QED
        BY <1>0, <3>1, <4>1, <4>2, ReadAt
    <3> QED
      BY <1>0, <1>6, <2>1, <2>4, <2>6, <3>1, ReadAt
  <2>7. ASSUME ~IsCodec', NEW j \in DOMAIN d'.input
        PROVE  d'.input[j] \in {0, d'.offset + Len(call'.buf) + j}
    <3>1. d.input[n + j] \in {0, d.offset + b + (n + j)} /\ j \in Nat
      BY <1>6, <2>2, <2>4, <2>7
    <3>2. d.offset + b + (n + j) = d.offset + (b + n) + j
      BY <1>0, <1>1, <3>1
    <3> QED
      BY <1>0, <1>5, <2>2, <3>1, <3>2, ReadAt
  <2> QED
    BY <2>5, <2>6, <2>7 DEF UnitsRight
<1>9. InStep'
  <2>1. pc' \in {"got", "read"} /\ IsLzx' = IsLzx
    BY <1>2, <1>6 DEF IsLzx
  <2>2. d'.offset = d.offset
    BY <1>0, ReadAt
  <2> QED
    BY <1>0, <1>2, <1>6, <2>1, <2>2, ReadAt DEF Full, InStep, Reading, Damaged
<1>10. Progress' /\ OutputInPlace' /\ OutExact' /\ ExactOrError'
  BY <1>0, <1>2, ReadAt, Quiet
<1> QED
  BY <1>7, <1>8, <1>9, <1>10 DEF Full

\* The folder's parts that a decoder may still go through.
LEMMA Ahead ==
  ASSUME Full, Good
  PROVE  /\ Loaded(d.folder) \in 1..Len(Parts[d.folder]) /\ d.part <= Loaded(d.folder)
         /\ NumBlocks(d.folder) \in Nat
         /\ Ended(d.folder, Here) <= NumBlocks(d.folder)
         /\ Ended(d.folder, Here) < NumBlocks(d.folder) => d.infh <= Len(Parts[d.folder][d.part])
         /\ Ended(d.folder, Here) >= NumBlocks(d.folder) =>
              Here = Len(Flat(d.folder)) /\ ~(d.infh <= Len(Parts[d.folder][d.part]))
         /\ Here = Len(Flat(d.folder)) => ~(d.infh <= Len(Parts[d.folder][d.part]))
         /\ d.infh <= Len(Parts[d.folder][d.part]) /\ Parts[d.folder][d.part][d.infh].out # 0 =>
              (Ended(d.folder, Here) + 1 >= NumBlocks(d.folder) <=> Here + 1 = Len(Flat(d.folder)))
<1> DEFINE g == d.folder
           p == d.part
           i == d.infh
           q == Loaded(d.folder)
           L == Len(Flat(d.folder))
<1>1. g \in Folder /\ p \in 1..Len(Parts[g]) /\ p <= q /\ Place(g, p, i) /\ L \in Nat
      /\ Here \in 0..L /\ Here = ReadTo(g, p, i)
  BY Standing DEF Here
<1>2. q \in 1..Len(Parts[g]) /\ NumBlocks(g) = 1 + BlocksTo(g)[q] /\ NumBlocks(g) \in Nat
  BY LoadedRange DEF Good
<1> HIDE DEF g, p, i, q, L
<1>3. /\ q = Len(Parts[g]) => 1 + BlocksTo(g)[q] = Total(g)
      /\ Ended(g, Here) <= 1 + BlocksTo(g)[q]
      /\ Ended(g, Here) < 1 + BlocksTo(g)[q] => i <= Len(Parts[g][p])
      /\ Ended(g, Here) >= 1 + BlocksTo(g)[q] =>
           q = Len(Parts[g]) /\ Here = Len(Flat(g)) /\ ~(i <= Len(Parts[g][p]))
      /\ /\ i <= Len(Parts[g][p]) /\ Parts[g][p][i].out # 0
         /\ Ended(g, Here) + 1 >= 1 + BlocksTo(g)[q]
         => q = Len(Parts[g]) /\ Here + 1 = Len(Flat(g))
      /\ i <= Len(Parts[g][p]) /\ q = Len(Parts[g]) /\ Here + 1 = Len(Flat(g))
         => Ended(g, Here) + 1 >= 1 + BlocksTo(g)[q]
  BY <1>1, <1>2, OutOfBlocks
<1>4. Here = Len(Flat(g)) => ~(i <= Len(Parts[g][p]))
  <2>1. i <= Len(Parts[g][p]) => Here + 1 \in 1..Len(Flat(g))
    BY <1>1, PlaceType
  <2> QED
    BY <1>1, <2>1 DEF L, g
<1>5. ASSUME i <= Len(Parts[g][p]), Parts[g][p][i].out # 0, Here + 1 = Len(Flat(g))
      PROVE  q = Len(Parts[g])
  <2>1. Place(g, p, i + 1) /\ ReadTo(g, p, i + 1) = Len(Flat(g))
    BY <1>1, <1>5, PlaceType
  <2>2. ~(i + 1 <= Len(Parts[g][p]))
    <3>1. i + 1 <= Len(Parts[g][p]) => ReadTo(g, p, i + 1) + 1 \in 1..Len(Flat(g))
      BY <1>1, <2>1, PlaceType
    <3> QED
      BY <1>1, <2>1, <3>1 DEF L, g
  <2>3. p = Len(Parts[g])
    BY <1>1, <2>1, <2>2, PlaceType
  <2> QED
    BY <1>1, <1>2, <2>3
<1> QED
  BY <1>1, <1>2, <1>3, <1>4, <1>5 DEF g, p, i, q, L

\* "check if we're out of input blocks, advance block counter"
LEMMA NextFull ==
  ASSUME Full, Inv', TypeOK', ReadNext, Good
  PROVE  Full'
<1> DEFINE g == d.folder
           e == Ended(g, Here)
           N == NumBlocks(g)
           L == Len(Flat(g))
<1>0. /\ ReadStep /\ pc = "read" /\ d.input = <<>> /\ Len(d.input) = 0
      /\ d.block \in Nat /\ Len(<<>>) = 0
  <2>1. Len(<<>>) = 0
    OBVIOUS
  <2> QED
    BY <2>1 DEF ReadStep, ReadNext, Full, TypeOK, State
<1>1. /\ d'.block = MinOf(d.block, N) + 1
      /\ d'.part = d.part /\ d'.infh = d.infh /\ d'.outlen = d.outlen /\ d'.input = d.input
      /\ UNCHANGED <<codec, call, missed, error>>
      /\ pc' = (IF d.block >= N THEN "got" ELSE "block")
  BY DEF ReadNext, Full, Inv, Shape
<1>2. /\ N \in Nat /\ e \in Nat /\ e <= N
      /\ e < N => d.infh <= Len(Parts[g][d.part])
      /\ e >= N => Here = L /\ ~(d.infh <= Len(Parts[g][d.part]))
      /\ Here = L => ~(d.infh <= Len(Parts[g][d.part]))
  BY Ahead, Standing
<1>3. /\ d.block = e \/ (Here = L /\ d.block = e + 1)
      /\ Here # 0 => Flat(g)[Here].out # 0
  BY <1>0 DEF Full, InStream
<1>4. Good' /\ Here' = Here /\ d'.folder = g /\ Loaded(d.folder)' = Loaded(d.folder)
      /\ (IsCodec' <=> IsCodec) /\ Taken' = Taken /\ Asked' = Asked /\ (Undamaged' <=> Undamaged)
  BY <1>0, <1>1, ReadAt DEF Good, Here, Taken, Asked, Undamaged, Loaded, RunLength, IsCodec
<1>5. InStream'
  <2>1. (codec.init => Loaded(d.folder) >= 1)'
    BY <1>1, <1>4 DEF Full, InStream
  <2>2. /\ d'.part <= Loaded(d.folder)' /\ Place(d'.folder, d'.part, d'.infh)
        /\ d'.outlen = OutputSum(g)[Here]
        /\ Taken' + Len(call'.buf) + Len(d'.input) = InputSum(g)[Here]
        /\ Len(call'.buf) + call'.todo = Asked'
    BY <1>0, <1>1, <1>4 DEF Full, InStream, Reading
  <2>3. CASE d.block >= N
    <3>1. Here = L /\ e = N
      BY <1>0, <1>2, <1>3, <2>3
    <3>2. d'.block = e + 1
      BY <1>0, <1>1, <1>2, <2>3, <3>1 DEF MinOf
    <3>3. pc' = "got"
      BY <1>1, <2>3
    <3> HIDE DEF e, L
    <3> QED
      BY <1>0, <1>1, <1>3, <1>4, <2>1, <2>2, <3>1, <3>2, <3>3 DEF InStream, Reading, e, L
  <2>4. CASE ~(d.block >= N)
    <3>1. d.block = e /\ e < N /\ d'.block = e + 1 /\ d'.block - 1 = e
      BY <1>0, <1>1, <1>2, <1>3, <2>4 DEF MinOf
    <3>2. InputSum(g)[Here] = InputTo(g, e) /\ InputSum(g)[Here] \in Nat
      BY <1>3, Standing, EndAt
    <3>3. Len(d'.input) = InputSum(g)[Here] - InputTo(g, d'.block - 1)
      BY <1>0, <1>1, <3>1, <3>2
    <3>4. pc' = "block"
      BY <1>1, <2>4
    <3> QED
      BY <1>1, <1>2, <1>4, <2>1, <2>2, <3>1, <3>3, <3>4 DEF InStream, Reading
  <2> QED
    BY <2>3, <2>4
<1>6. UnitsRight'
  BY <1>1, <1>4, <1>0, ReadAt DEF Full, UnitsRight
<1>7. pc' \in {"got", "block"} /\ IsLzx' = IsLzx /\ d'.offset = d.offset
  BY <1>0, <1>1, <1>4, ReadAt DEF IsLzx
<1>8. InStep'
  BY <1>0, <1>1, <1>4, <1>7, ReadAt DEF Full, InStep, Reading, Damaged
<1>9. Progress' /\ OutputInPlace' /\ OutExact' /\ ExactOrError'
  BY <1>0, <1>1, <1>7, ReadAt, Quiet
<1> QED
  BY <1>5, <1>6, <1>8, <1>9 DEF Full

\* A record's data goes behind what is there of its block.
LEMMA RecordUnitsRight ==
  ASSUME Full, Good, pc = "block", NEW r \in Records, r.sum \/ param.salvage,
         d'.input = d.input \o r.data, d'.offset = d.offset, d'.folder = d.folder,
         UNCHANGED <<call, param>>, codec'.junk = codec.junk
  PROVE  /\ UnitsRight' /\ d'.input \in Seq(Nat)
         /\ Len(d'.input) = Len(d.input) + Len(r.data) /\ Len(r.data) \in Nat
<1> DEFINE g == d.folder
           b == Len(call.buf)
           m == Len(d.input)
<1>1. /\ r.data \in Seq(Nat) /\ d.input \in Seq(Nat) /\ call.buf \in Seq(Nat)
      /\ d.offset \in Nat /\ codec.init
  BY RecordFields DEF Full, TypeOK, State, Call, Good
<1>2. /\ d'.input \in Seq(Nat) /\ Len(d'.input) = m + Len(r.data)
      /\ \A i \in 1..m : d'.input[i] = d.input[i]
      /\ \A i \in 1..Len(r.data) : d'.input[m + i] = r.data[i]
  <2> DEFINE u == d.input
             t == r.data
  <2>1. u \in Seq(Nat) /\ t \in Seq(Nat) /\ d'.input = u \o t
    BY <1>1
  <2> HIDE DEF u, t
  <2>2. /\ u \o t \in Seq(Nat) /\ Len(u \o t) = Len(u) + Len(t)
        /\ \A i \in 1..Len(u) : (u \o t)[i] = u[i]
        /\ \A i \in 1..Len(t) : (u \o t)[Len(u) + i] = t[i]
    BY <2>1, Placed
  <2> QED
    BY <2>1, <2>2 DEF u, t
<1>3. m \in Nat /\ b \in Nat /\ Len(r.data) \in Nat
  BY <1>1
<1>4. /\ g \in Folder /\ Here + 1 \in 1..Len(Flat(g)) /\ r = Flat(g)[Here + 1]
      /\ Here \in 0..Len(Flat(g)) /\ (Here + 1) - 1 = Here
  BY NextRecord, Standing
<1>5. ASSUME NEW k \in 1..Len(r.data)
      PROVE  /\ r.sum => r.data[k] # 0
             /\ Method[g] = "none" => r.data[k] \in {0, InputSum(g)[Here] + k}
  <2> DEFINE h == Here + 1
  <2>1. h \in 1..Len(Flat(g)) /\ k \in DOMAIN Flat(g)[h].data /\ h - 1 = Here /\ r = Flat(g)[h]
    BY <1>1, <1>4
  <2> HIDE DEF h
  <2>2. /\ Flat(g)[h].sum => Flat(g)[h].data[k] # 0
        /\ Method[g] = "none" => Flat(g)[h].data[k] \in {0, InputSum(g)[h - 1] + k}
    BY <1>4, <2>1, RecordUnits
  <2> QED
    BY <2>1, <2>2
<1>6. Undamaged => r.sum
  BY <1>4 DEF Undamaged
<1>7. ASSUME NEW j \in DOMAIN d'.input
      PROVE  \/ j \in DOMAIN d.input /\ d'.input[j] = d.input[j]
             \/ \E k \in 1..Len(r.data) : j = m + k /\ d'.input[j] = r.data[k]
  <2> DEFINE w == Len(r.data)
  <2>1. j \in 1..m + w
    <3>1. j \in 1..Len(d'.input)
      <4>1. \A u \in Seq(Nat) : DOMAIN u = 1..Len(u)
        OBVIOUS
      <4>2. d'.input \in Seq(Nat)
        BY <1>2
      <4> QED
        BY <4>1, <4>2
    <3> QED
      BY <1>2, <3>1
  <2>2. CASE j \in 1..m
    BY <1>1, <1>2, <2>2
  <2>3. CASE j \notin 1..m
    <3> DEFINE k == j - m
    <3>1. k \in 1..w /\ j = m + k
      <4> HIDE DEF m, w
      <4>1. m \in Nat /\ w \in Nat
        BY <1>3 DEF w
      <4> QED
        BY <2>1, <2>3, <4>1
    <3> HIDE DEF k
    <3> QED
      BY <1>2, <3>1
  <2> QED
    BY <2>2, <2>3
<1>8. Undamaged' => Undamaged
  BY DEF Undamaged
<1>9. (IsCodec' <=> IsCodec) /\ (~IsCodec => Method[g] = "none")
  BY DEF IsCodec
<1>10. Undamaged => /\ ~codec.junk
                    /\ \A j \in DOMAIN call.buf : call.buf[j] # 0
                    /\ \A j \in DOMAIN d'.input : d'.input[j] # 0
  <2>1. Undamaged => /\ ~codec.junk
                     /\ \A j \in DOMAIN call.buf : call.buf[j] # 0
                     /\ \A j \in DOMAIN d.input : d.input[j] # 0
    BY DEF Full, UnitsRight
  <2>2. ASSUME Undamaged, NEW j \in DOMAIN d'.input PROVE d'.input[j] # 0
    <3>1. CASE j \in DOMAIN d.input /\ d'.input[j] = d.input[j]
      BY <2>1, <2>2, <3>1
    <3>2. CASE \E k \in 1..Len(r.data) : j = m + k /\ d'.input[j] = r.data[k]
      <4>1. PICK k \in 1..Len(r.data) : j = m + k /\ d'.input[j] = r.data[k]
        BY <3>2
      <4>2. r.data[k] # 0
        BY <1>5, <1>6, <2>2, <4>1
      <4> QED
        BY <4>1, <4>2
    <3> QED
      BY <1>7, <3>1, <3>2
  <2> QED
    BY <2>1, <2>2
<1>11. ASSUME ~IsCodec
       PROVE  /\ \A j \in DOMAIN call.buf : call.buf[j] \in {0, d.offset + j}
              /\ \A j \in DOMAIN d'.input : d'.input[j] \in {0, d.offset + b + j}
  <2>1. /\ \A j \in DOMAIN call.buf : call.buf[j] \in {0, d.offset + j}
        /\ \A j \in DOMAIN d.input : d.input[j] \in {0, d.offset + b + j}
    BY <1>11 DEF Full, UnitsRight
  <2>2. ASSUME NEW j \in DOMAIN d'.input, NEW k \in 1..Len(r.data), j = m + k,
               d'.input[j] = r.data[k]
        PROVE  d'.input[j] \in {0, d.offset + b + j}
    <3>1. r.data[k] \in {0, InputSum(g)[Here] + k}
      BY <1>5, <1>9, <1>11
    <3>2. d.offset + b + m = InputSum(g)[Here]
      BY <1>11 DEF Full, InStream, Taken
    <3>3. InputSum(g)[Here] + k = d.offset + b + j
      <4> HIDE DEF b, m
      <4> QED
        BY <1>1, <1>3, <2>2, <3>2
    <3> QED
      BY <2>2, <3>1, <3>3
  <2> QED
    BY <1>7, <2>1, <2>2
<1>12. UnitsRight'
  <2>1. Undamaged' => /\ ~codec'.junk
                      /\ \A j \in DOMAIN call'.buf : call'.buf[j] # 0
                      /\ \A j \in DOMAIN d'.input : d'.input[j] # 0
    BY <1>8, <1>10
  <2>2. ~IsCodec' => /\ \A j \in DOMAIN call'.buf : call'.buf[j] \in {0, d'.offset + j}
                     /\ \A j \in DOMAIN d'.input : d'.input[j] \in {0, d'.offset + Len(call'.buf) + j}
    BY <1>9, <1>11
  <2> QED
    BY <2>1, <2>2 DEF UnitsRight
<1> QED
  BY <1>2, <1>3, <1>12

\* The record is taken; with it the block is complete.
LEMMA RecordFull ==
  ASSUME Full, Inv', TypeOK', BlockRead, Good
  PROVE  Full'
<1> DEFINE g == d.folder
           e == Ended(g, Here)
           L == Len(Flat(g))
           N == NumBlocks(g)
<1>0. ReadStep /\ pc = "block"
  BY DEF ReadStep, BlockRead
<1>1. PICK r \in Records :
        /\ r.sum \/ param.salvage
        /\ r.out # 0
        /\ d' = [d EXCEPT !.input = @ \o r.data, !.outlen = @ + r.out,
                          !.infh = IF @ = 0 THEN 0 ELSE @ + 1]
        /\ BlockDone(r.out)
  BY DEF BlockRead
<1>2. /\ r = Parts[g][d.part][d.infh] /\ Here + 1 \in 1..L /\ d.infh <= Len(Parts[g][d.part])
      /\ r = Flat(g)[Here + 1]
      /\ InputSum(g)[Here + 1] = InputSum(g)[Here] + Len(r.data)
      /\ OutputSum(g)[Here + 1] = OutputSum(g)[Here] + r.out
      /\ Ended(g, Here + 1) = e + 1
  BY <1>0, <1>1, NextRecord
<1>3. /\ g \in Folder /\ d.infh \in Nat \ {0} /\ e \in Nat /\ Here \in 0..L /\ L \in Nat
      /\ Place(g, d.part, d.infh) /\ InputSum(g)[Here] \in Nat /\ d.part <= Loaded(g)
  BY Standing
<1>4. /\ d'.part = d.part /\ d'.infh = d.infh + 1 /\ d'.block = d.block /\ d'.offset = d.offset
      /\ d'.outlen = d.outlen + r.out /\ d'.input = d.input \o r.data /\ d'.folder = g
      /\ pc' = "read" /\ UNCHANGED <<call, missed, cabs, param>>
  BY <1>1, <1>3 DEF BlockDone, BlockRead, Full, Inv, Shape
<1>5. /\ codec'.init = codec.init /\ codec'.error = codec.error /\ codec'.got = codec.got
      /\ codec'.junk = codec.junk /\ codec'.eof = codec.eof /\ codec'.frames = codec.frames
      /\ codec'.made = codec.made /\ codec'.sent = codec.sent /\ codec'.need = codec.need
      /\ codec'.size = codec.size
      /\ codec'.length = IF IsLzx /\ d'.block >= N THEN d.outlen + r.out ELSE codec.length
  BY <1>1, <1>4 DEF BlockDone, Full, Inv, Shape
<1>6. Place(g, d.part, d.infh + 1) /\ Here' = Here + 1
  BY <1>1, <1>2, <1>3, <1>4, PlaceType DEF Here
<1>7. Good' /\ (IsCodec' <=> IsCodec) /\ Taken' = Taken /\ Asked' = Asked
      /\ Loaded(d.folder)' = Loaded(d.folder)
  BY <1>4, <1>5 DEF Good, IsCodec, Taken, Asked, RunLength, Loaded
<1>8. /\ UnitsRight' /\ Len(d'.input) = Len(d.input) + Len(r.data) /\ Len(r.data) \in Nat
  BY <1>0, <1>1, <1>4, <1>5, RecordUnitsRight
<1>9. d.block = e + 1 /\ d.outlen = OutputSum(g)[Here]
  BY <1>0 DEF Full, InStream
<1>10. InStream'
  <2>1. (codec.init => Loaded(d.folder) >= 1)'
    BY <1>5, <1>7 DEF Full, InStream
  <2>2. Taken' + Len(call'.buf) + Len(d'.input) = InputSum(g)[Here + 1]
    <3>1. Taken + Len(call.buf) + Len(d.input) = InputSum(g)[Here]
      BY DEF Full, InStream
    <3>2. Taken \in Int /\ Len(call.buf) \in Nat /\ Len(d.input) \in Nat
      BY CodecNumbers DEF Taken
    <3>3. Taken + Len(call.buf) + (Len(d.input) + Len(r.data))
            = (Taken + Len(call.buf) + Len(d.input)) + Len(r.data)
      <4> DEFINE w == Taken
                 x == Len(call.buf)
                 y == Len(d.input)
                 z == Len(r.data)
      <4>1. w \in Int /\ x \in Int /\ y \in Int /\ z \in Int
        BY <1>8, <3>2
      <4>2. w + x + (y + z) = (w + x + y) + z
        <5> HIDE DEF w, x, y, z
        <5> QED
          BY <4>1
      <4> QED
        BY <4>2
    <3> QED
      BY <1>2, <1>4, <1>7, <1>8, <3>1, <3>3
  <2>3. Len(call'.buf) + call'.todo = Asked'
    BY <1>0, <1>4, <1>7 DEF Full, InStream, Reading
  <2>4. d'.outlen = OutputSum(g)[Here + 1]
    BY <1>2, <1>4, <1>9
  <2>5. d'.block = Ended(g, Here + 1) /\ Flat(g)[Here + 1].out # 0
    BY <1>1, <1>2, <1>4, <1>9
  <2> HIDE DEF e, L, N
  <2> QED
    BY <1>3, <1>4, <1>6, <1>7, <2>1, <2>2, <2>3, <2>4, <2>5 DEF InStream, Reading
<1>11. InStep'
  <2>1. IsLzx' = IsLzx
    BY <1>4 DEF IsLzx
  <2>2. e + 1 >= N <=> Here + 1 = L
    BY <1>1, <1>2, Ahead
  <2>3. IsCodec => ~codec.eof
    <3>1. IsCodec /\ codec.eof => Here = L
      BY DEF Full, InStep
    <3> QED
      BY <1>2, <1>3, <3>1
  <2>4. IsCodec => /\ codec'.length \in {0, OutputTo(g, Total(g))}
                   /\ IsLzx /\ Here + 1 = L => codec'.length = OutputTo(g, Total(g))
    <3>1. Here + 1 = L => d.outlen + r.out = OutputTo(g, Total(g))
      BY <1>2, <1>3, <1>9, BlocksClimb
    <3>2. IsCodec => codec.length \in {0, OutputTo(g, Total(g))}
      BY DEF Full, InStep
    <3> QED
      BY <1>4, <1>5, <1>9, <2>2, <3>1, <3>2
  <2> HIDE DEF e, L, N
  <2> QED
    BY <1>0, <1>4, <1>5, <1>6, <1>7, <2>1, <2>3, <2>4 DEF Full, InStep, Reading, L, Damaged
<1>12. Progress' /\ OutputInPlace' /\ OutExact' /\ ExactOrError'
  BY <1>0, <1>4, <1>5, ReadAt, Quiet
<1> QED
  BY <1>8, <1>10, <1>11, <1>12 DEF Full

\* The record is a fragment, and the next part is there.
LEMMA FragmentFull ==
  ASSUME Full, Inv', TypeOK', BlockContinues, ~\E e : e # "OK" /\ BlockFails(e), Good
  PROVE  Full'
<1> DEFINE g == d.folder
           e == Ended(g, Here)
           L == Len(Flat(g))
<1>0. ReadStep /\ pc = "block"
  BY DEF ReadStep, BlockContinues
<1>3. /\ g \in Folder /\ d.infh \in Nat \ {0} /\ e \in Nat /\ Here \in 0..L /\ L \in Nat
      /\ Place(g, d.part, d.infh) /\ InputSum(g)[Here] \in Nat /\ d.part <= Loaded(g)
      /\ d.part \in 1..Len(Parts[g])
  BY Standing
<1>1. PICK r \in Records :
        /\ r.sum \/ param.salvage
        /\ r.out = 0
        /\ ~(d.part >= Loaded(g))
        /\ d'.input = d.input \o r.data /\ d'.part = d.part + 1 /\ d'.infh = 1
        /\ d'.block = d.block /\ d'.offset = d.offset /\ d'.outlen = d.outlen /\ d'.folder = g
        /\ UNCHANGED <<codec, readErr, error, call, missed, pc>>
  <2> DEFINE next == IF d.part = 0 \/ d.part >= Loaded(d.folder) THEN 0 ELSE d.part + 1
             moved(in) == [d EXCEPT !.input = in, !.part = next, !.infh = NULL]
  <2>1. PICK r \in Records :
          /\ r.sum \/ param.salvage
          /\ r.out = 0
          /\ next # 0
          /\ d' = [moved(d.input \o r.data) EXCEPT !.incab = CabOf(d.folder, next), !.infh = 1]
          /\ UNCHANGED <<codec, readErr, error, call, missed, pc>>
    BY DEF BlockContinues
  <2>2. next = d.part + 1 /\ ~(d.part >= Loaded(g))
    BY <2>1
  <2> HIDE DEF next
  <2>3. /\ d'.input = d.input \o r.data /\ d'.part = next /\ d'.infh = 1
        /\ d'.block = d.block /\ d'.offset = d.offset /\ d'.outlen = d.outlen /\ d'.folder = g
    BY <2>1 DEF Full, Inv, Shape
  <2> QED
    BY <2>1, <2>2, <2>3
<1>2. /\ r = Parts[g][d.part][d.infh] /\ Here + 1 \in 1..L /\ d.infh <= Len(Parts[g][d.part])
      /\ r = Flat(g)[Here + 1]
      /\ InputSum(g)[Here + 1] = InputSum(g)[Here] + Len(r.data)
      /\ OutputSum(g)[Here + 1] = OutputSum(g)[Here] + 0
      /\ Ended(g, Here + 1) = e + 0
  BY <1>0, <1>1, NextRecord
<1>4. UNCHANGED <<cabs, param>>
  BY DEF BlockContinues
<1>6. Place(g, d.part + 1, 1) /\ Here' = Here + 1 /\ d.part + 1 \in 1..Len(Parts[g])
  <2>1. d.part < Len(Parts[g]) /\ Place(g, d.part + 1, 1) /\ ReadTo(g, d.part + 1, 1) = Here + 1
    BY <1>1, <1>2, <1>3, PlaceType DEF Here
  <2> QED
    BY <1>1, <1>3, <2>1 DEF Here
<1>7. Good' /\ (IsCodec' <=> IsCodec) /\ Taken' = Taken /\ Asked' = Asked
      /\ Loaded(d.folder)' = Loaded(d.folder)
  BY <1>1, <1>4 DEF Good, IsCodec, Taken, Asked, RunLength, Loaded
<1>8. /\ UnitsRight' /\ Len(d'.input) = Len(d.input) + Len(r.data) /\ Len(r.data) \in Nat
  BY <1>0, <1>1, <1>4, RecordUnitsRight
<1>9. d.block = e + 1 /\ d.outlen = OutputSum(g)[Here]
      /\ Len(d.input) = InputSum(g)[Here] - InputTo(g, d.block - 1)
  BY <1>0 DEF Full, InStream
<1>10. InStream'
  <2>1. (codec.init => Loaded(d.folder) >= 1)'
    BY <1>1, <1>7 DEF Full, InStream
  <2>2. Taken' + Len(call'.buf) + Len(d'.input) = InputSum(g)[Here + 1]
    <3>1. Taken + Len(call.buf) + Len(d.input) = InputSum(g)[Here]
      BY DEF Full, InStream
    <3>2. Taken \in Int /\ Len(call.buf) \in Nat /\ Len(d.input) \in Nat
      BY CodecNumbers DEF Taken
    <3>3. Taken + Len(call.buf) + (Len(d.input) + Len(r.data))
            = (Taken + Len(call.buf) + Len(d.input)) + Len(r.data)
      <4> DEFINE w == Taken
                 x == Len(call.buf)
                 y == Len(d.input)
                 z == Len(r.data)
      <4>1. w \in Int /\ x \in Int /\ y \in Int /\ z \in Int
        BY <1>8, <3>2
      <4>2. w + x + (y + z) = (w + x + y) + z
        <5> HIDE DEF w, x, y, z
        <5> QED
          BY <4>1
      <4> QED
        BY <4>2
    <3> QED
      BY <1>1, <1>2, <1>7, <1>8, <3>1, <3>3
  <2>3. Len(call'.buf) + call'.todo = Asked'
    BY <1>0, <1>1, <1>7 DEF Full, InStream, Reading
  <2>4. d'.outlen = OutputSum(g)[Here + 1]
    BY <1>1, <1>2, <1>3, <1>9, Standing
  <2>5. d'.block = Ended(g, Here + 1) + 1
    BY <1>1, <1>2, <1>3, <1>9
  <2>6. Len(d'.input) = InputSum(g)[Here + 1] - InputTo(g, d'.block - 1)
    <3>1. d.block - 1 = e
      BY <1>3, <1>9
    <3>2. InputTo(g, e) \in Nat
      <4>1. e \in 0..Total(g)
        <5>1. L \in 0..L
          BY <1>3
        <5> QED
          BY <1>3, <5>1, EndedClimbs, EndedNext
      <4> QED
        BY <1>3, <4>1, BlocksClimb
    <3>3. Len(d.input) = InputSum(g)[Here] - InputTo(g, e)
      BY <1>9, <3>1
    <3>4. \A w, x, y \in Int : (w - x) + y = (w + y) - x
      OBVIOUS
    <3>5. (InputSum(g)[Here] - InputTo(g, e)) + Len(r.data)
            = (InputSum(g)[Here] + Len(r.data)) - InputTo(g, e)
      BY <1>3, <1>8, <3>2, <3>4
    <3> QED
      BY <1>1, <1>2, <1>8, <3>1, <3>3, <3>5
  <2>7. d.part + 1 <= Loaded(g)
    <3>1. Loaded(g) \in Nat /\ d.part \in Nat
      BY <1>3, Ahead
    <3> QED
      BY <1>1, <3>1
  <2>8. 1 <= Len(Parts[g][d.part + 1])
    <3> DEFINE p == d.part + 1
    <3>1. p \in 1..Len(Parts[g])
      BY <1>6
    <3> HIDE DEF p
    <3>2. Len(Parts[g][p]) \in Nat \ {0}
      BY <1>3, <3>1, PartType
    <3> QED
      BY <3>2 DEF p
  <2> HIDE DEF e, L
  <2> QED
    BY <1>0, <1>1, <1>6, <1>7, <2>1, <2>2, <2>3, <2>4, <2>5, <2>6, <2>7, <2>8
       DEF InStream, Reading
<1>11. InStep'
  <2>1. IsLzx' = IsLzx
    BY <1>1 DEF IsLzx
  <2>2. Here + 1 # L
    BY <1>1, <1>2, <1>3, FlatLen
  <2>3. IsCodec => ~codec.eof
    <3>1. IsCodec /\ codec.eof => Here = L
      BY DEF Full, InStep
    <3> QED
      BY <1>2, <1>3, <3>1
  <2> HIDE DEF e
  <2> QED
    BY <1>0, <1>1, <1>6, <1>7, <2>1, <2>2, <2>3, ReadAt DEF Full, InStep, Reading, Damaged
<1>12. Progress' /\ OutputInPlace' /\ OutExact' /\ ExactOrError'
  BY <1>0, <1>1, <1>4, ReadAt, Quiet
<1> QED
  BY <1>8, <1>10, <1>11, <1>12 DEF Full

LEMMA ReadFull ==
  ASSUME Full, Inv', TypeOK', ReadStep
  PROVE  Full'
<1>1. CASE (~IsCodec /\ missed') \/ \E e : e # "OK" /\ BlockFails(e)
  BY <1>1, ReadFails
<1>2. CASE ~((~IsCodec /\ missed') \/ \E e : e # "OK" /\ BlockFails(e))
  <2>1. Good
    BY <1>2, ReadAt
  <2>2. ~BlockUnread /\ ~BlockRejected
    <3>1. "READ" # "OK" /\ "DATAFORMAT" # "OK" /\ "CHECKSUM" # "OK"
      OBVIOUS
    <3> QED
      BY <1>2, <3>1 DEF BlockUnread, BlockRejected
  <2> QED
    BY <1>2, <2>1, <2>2, CopyFull, NextFull, RecordFull, FragmentFull DEF ReadStep
<1> QED
  BY <1>1, <1>2

-----------------------------------------------------------------------------
(* Between decompress() calls.                                              *)

LEMMA FullInit == Init => Full
<1> SUFFICES ASSUME Init PROVE Full
  OBVIOUS
<1>1. Inv
  BY InvInit
<1>2. <<>> \in Seq(Nat) /\ Len(<<>>) = 0 /\ DOMAIN <<>> = {}
  OBVIOUS
<1>3. TypeOK
  <2>1. 1 \in 1..Cabs /\ 0 \in 0..MaxFaults
    BY CabExtractAssumption DEF CabExtractAssumption
  <2>2. d \in State
    BY <1>2 DEF Init, State
  <2>3. codec \in Codec
    BY NewCodecType DEF Init
  <2>4. call \in Call
    BY <1>2 DEF Init, Call
  <2>5. "OK" \in Errors /\ "OK" # "WRITE"
    BY DEF Errors
  <2> QED
    BY <1>2, <2>1, <2>2, <2>3, <2>4, <2>5 DEF Init, TypeOK
<1>4. ~codec.init /\ pc = "idle" /\ call.file = NULL /\ call.buf = <<>>
  BY DEF Init, NewCodec
<1>5. InStream /\ UnitsRight /\ InStep /\ Progress
  BY <1>4 DEF InStream, UnitsRight, InStep, Progress, Good
<1>6. OutputInPlace /\ OutExact /\ ExactOrError
  BY <1>4 DEF OutputInPlace, OutExact, ExactOrError, Returned
<1> QED
  BY <1>1, <1>3, <1>5, <1>6 DEF Full

\* A call that comes to nothing before the first decompress(), or append().
LEMMA IdleFull ==
  ASSUME Full, Inv', TypeOK', pc = "idle", pc' = "idle", UNCHANGED <<param, missed>>,
         call'.buf = call.buf,
         codec.init => Loaded(d.folder)' >= Loaded(d.folder),
         ~codec'.init \/ UNCHANGED <<d, codec>>,
         \/ UNCHANGED <<codec, call, out, error>>
         \/ call'.file \in File /\ out' = <<>> /\ error' # "OK"
  PROVE  Full'
<1>1. call'.buf = <<>> /\ ~Reading'
  BY DEF Full, InStream, Reading
<1>2. ASSUME UNCHANGED <<d, codec>>, codec.init
      PROVE  Loaded(d.folder)' >= 1 /\ (d.part <= Loaded(d.folder) => d.part <= Loaded(d.folder)')
  <2>1. Loaded(d.folder) \in Nat /\ d.folder \in Folder /\ Loaded(d.folder) >= 1
    BY <1>2, LoadedRange
  <2>2. d.folder \in Folder /\ cabs' \in Nat
    BY <2>1 DEF Inv, Typed
  <2>3. Loaded(d.folder)' \in Int
    <3>1. FirstCab[d.folder] \in Nat /\ Len(Parts[d.folder]) \in Nat
      BY <2>1, FolderType
    <3> QED
      BY <1>2, <2>2, <3>1 DEF Loaded, MinOf
  <2>4. d.part \in Nat
    BY DEF Full, TypeOK, State
  <2> QED
    BY <1>2, <2>1, <2>3, <2>4
<1>3. InStream'
  <2>1. CASE ~codec'.init
    BY <1>1, <2>1 DEF InStream, Good
  <2>2. CASE codec'.init /\ UNCHANGED <<d, codec>>
    <3>1. Good' => Good
      BY <2>2 DEF Good, IsCodec
    <3>2. (codec.init => Loaded(d.folder) >= 1)'
      BY <1>2, <2>2
    <3>3. Good' => d'.part <= Loaded(d.folder)'
      BY <1>2, <2>2, <3>1 DEF Full, InStream
    <3>4. Here' = Here /\ Taken' = Taken
      BY <2>2 DEF Here, Taken, IsCodec
    <3> QED
      BY <1>1, <2>2, <3>1, <3>2, <3>3, <3>4 DEF Full, InStream, Reading
  <2> QED
    BY <2>1, <2>2
<1>4. UnitsRight' /\ InStep'
  <2>1. CASE ~codec'.init
    BY <2>1 DEF UnitsRight, InStep, Good
  <2>2. CASE UNCHANGED <<d, codec>>
    <3>1. (Good' <=> Good) /\ (IsCodec' <=> IsCodec) /\ (Undamaged' <=> Undamaged)
          /\ Here' = Here /\ (IsLzx' <=> IsLzx)
      BY <2>2 DEF Good, IsCodec, Undamaged, Here, IsLzx
    <3>2. UnitsRight'
      BY <2>2, <3>1 DEF Full, UnitsRight
    <3>3. InStep'
      BY <1>1, <2>2, <3>1 DEF Full, InStep, Damaged
    <3> QED
      BY <3>2, <3>3
  <2> QED
    BY <2>1, <2>2
<1>5. Progress'
  BY DEF Progress
<1>6. OutputInPlace' /\ OutExact' /\ ExactOrError'
  <2>1. CASE UNCHANGED <<codec, call, out, error>>
    BY <2>1 DEF Full, OutputInPlace, OutExact, ExactOrError, Returned, Content
  <2>2. CASE call'.file \in File /\ out' = <<>> /\ error' # "OK"
    <3>1. Len(<<>>) = 0 /\ DOMAIN <<>> = {}
      OBVIOUS
    <3>2. FileAt[call'.file].length \in Nat
      BY <2>2, FileType
    <3> QED
      BY <2>2, <3>1, <3>2 DEF OutputInPlace, OutExact, ExactOrError
  <2> QED
    BY <2>1, <2>2
<1> QED
  BY <1>3, <1>4, <1>5, <1>6 DEF Full

LEMMA CallFull ==
  ASSUME Full, Inv', TypeOK', Join \/ \E f \in File : Refuse(f) \/ RestartFails(f)
  PROVE  Full'
<1>1. pc = "idle" /\ pc' = "idle" /\ UNCHANGED <<param, missed>>
  BY DEF Join, Refuse, RestartFails, Accepted
<1>2. ~codec'.init \/ UNCHANGED <<d, codec>>
  <2>1. CASE \E f \in File : RestartFails(f)
    <3>1. codec' = NewCodec(FALSE)
      BY <2>1 DEF RestartFails
    <3> QED
      BY <3>1 DEF NewCodec
  <2>2. CASE Join
    BY <2>2 DEF Join
  <2>3. CASE \E f \in File : Refuse(f)
    BY <2>3 DEF Refuse
  <2> QED
    BY <2>1, <2>2, <2>3
<1>3. codec.init => Loaded(d.folder)' >= Loaded(d.folder)
  <2>1. ASSUME codec.init, UNCHANGED <<d, codec>> PROVE Loaded(d.folder)' >= Loaded(d.folder)
    <3>1. d.folder \in Folder /\ cabs \in Nat /\ cabs' \in {cabs, cabs + 1}
      BY <2>1, LoadedRange DEF Full, Inv, Typed, Join, Refuse, RestartFails
    <3>2. FirstCab[d.folder] \in Nat /\ Len(Parts[d.folder]) \in Nat
      BY <3>1, FolderType
    <3> QED
      BY <2>1, <3>1, <3>2 DEF Loaded, MinOf
  <2>2. ASSUME codec.init, \E f \in File : RestartFails(f)
        PROVE  Loaded(d.folder)' >= Loaded(d.folder)
    <3>1. cabs' = cabs /\ d'.folder = d.folder
      <4>1. cabs' = cabs /\ \E c, h : d' = [d EXCEPT !.incab = c, !.infh = h]
        BY <2>2 DEF RestartFails
      <4> QED
        BY <4>1 DEF Full, Inv, Shape
    <3>2. Loaded(d.folder)' = Loaded(d.folder) /\ Loaded(d.folder) \in Nat
      BY <2>2, <3>1, LoadedRange DEF Loaded
    <3> QED
      BY <3>2
  <2> QED
    BY <2>1, <2>2 DEF Join, Refuse
<1>4. call'.buf = call.buf
      /\ (UNCHANGED <<codec, call, out, error>>
          \/ (call'.file \in File /\ out' = <<>> /\ error' # "OK"))
  BY DEF Join, Refuse, RestartFails, Full, Inv, Shape
<1> QED
  BY <1>1, <1>2, <1>3, <1>4, IdleFull

\* A folder's stream begins before its first record.
LEMMA AtStart ==
  ASSUME NEW g \in Folder
  PROVE  /\ Place(g, 1, 1) /\ ReadTo(g, 1, 1) = 0 /\ Ended(g, 0) = 0
         /\ OutputSum(g)[0] = 0 /\ InputSum(g)[0] = 0 /\ Len(Flat(g)) # 0
<1>1. Len(Parts[g]) \in Nat \ {0} /\ 1 \in 1..Len(Parts[g])
  BY FolderType
<1>2. Len(Parts[g][1]) \in Nat \ {0}
  BY <1>1, PartType
<1>3. Off(g, 0) = 0 /\ 1 - 1 = 0
  BY OffNext
<1>4. ReadTo(g, 1, 1) = 0
  BY <1>3 DEF ReadTo
<1>5. Place(g, 1, 1)
  BY <1>1, <1>2 DEF Place
<1> QED
  BY <1>4, <1>5, EndedNext, SumsClimb, FlatLen

LEMMA StartFull ==
  ASSUME Full, Inv', TypeOK', NEW f \in File, Start(f)
  PROVE  Full'
<1> DEFINE g == FileAt[f].folder
           at == IF NeedsRestart(f) THEN 0 ELSE d.offset
           skip == FileAt[f].offset - at
           begun == /\ call' = [file |-> f, len |-> FileLen(f),
                                phase |-> IF skip = 0 THEN "write" ELSE "skip",
                                want |-> IF skip = 0 THEN FileLen(f) ELSE skip,
                                todo |-> 0, buf |-> <<>>]
                    /\ pc' = IF FileLen(f) = 0 THEN "idle" ELSE "decompress"
                    /\ error' = "OK"
<1>0. /\ g \in Folder /\ FileAt[f].offset \in Nat /\ FileAt[f].length \in Nat
      /\ pc = "idle" /\ Loaded(g) >= 1 /\ FileAt[f].offset <= LENGTHMAX
      /\ TooLong(f) => param.salvage
      /\ UNCHANGED <<cabs, param>> /\ out' = <<>> /\ f # NULL
      /\ Len(<<>>) = 0 /\ DOMAIN <<>> = {}
  <2>1. Len(<<>>) = 0 /\ DOMAIN <<>> = {}
    OBVIOUS
  <2> QED
    BY <2>1, FileType, CabExtractAssumption DEF CabExtractAssumption, Start, Accepted, Listed
<1>1. FileLen(f) \in Nat /\ (~TooLong(f) => FileLen(f) = FileAt[f].length)
  BY <1>0, FileLenIs
<1>2. begun \/ (pc' = "idle" /\ error' = "OPEN" /\ call' = [call EXCEPT !.file = f, !.len = 0])
  BY <1>0 DEF Start
<1>3. call.buf = <<>>
  BY <1>0 DEF Full, InStream, Reading
<1>4. call'.file = f /\ call'.buf = <<>> /\ pc' \in {"idle", "decompress"} /\ ~Reading'
      /\ (pc' # "idle" => begun)
  <2>1. CASE begun
    BY <2>1 DEF Reading
  <2>2. CASE pc' = "idle" /\ call' = [call EXCEPT !.file = f, !.len = 0]
    BY <1>3, <2>2 DEF Full, Inv, Shape, Reading
  <2> QED
    BY <1>2, <2>1, <2>2
<1>5. /\ d'.folder = g /\ codec'.init /\ d'.offset = at /\ at \in Nat
      /\ InStream' /\ UnitsRight' /\ InStep'
  <2>1. CASE NeedsRestart(f)
    <3>1. d' = Restarted(g) /\ codec' = NewCodec(TRUE) /\ missed' = FALSE /\ at = 0
      BY <2>1 DEF Start
    <3>2. /\ d'.folder = g /\ d'.part = 1 /\ d'.infh = 1 /\ d'.offset = 0 /\ d'.block = 0
          /\ d'.outlen = 0 /\ d'.input = <<>>
      BY <3>1 DEF Restarted
    <3>3. /\ codec'.init /\ codec'.got = 0 /\ ~codec'.eof /\ ~codec'.junk /\ codec'.sent = 0
          /\ codec'.made = 0 /\ codec'.frames = 0 /\ codec'.length = 0 /\ codec'.need = 0
          /\ codec'.size = 0
      BY <3>1 DEF NewCodec
    <3>4. /\ Place(g, 1, 1) /\ ReadTo(g, 1, 1) = 0 /\ Ended(g, 0) = 0
          /\ OutputSum(g)[0] = 0 /\ InputSum(g)[0] = 0 /\ Len(Flat(g)) # 0
      BY <1>0, AtStart
    <3>5. Here' = 0 /\ Taken' = 0 /\ Loaded(d.folder)' = Loaded(g)
      <4>1. Loaded(d.folder)' = Loaded(g)
        BY <1>0, <3>2 DEF Loaded
      <4>2. Here' = ReadTo(d'.folder, d'.part, d'.infh)
        BY DEF Here
      <4>3. Here' = 0
        BY <3>2, <3>4, <4>2
      <4>4. Taken' = 0
        <5>1. Taken' = IF IsCodec' THEN codec'.got - (IF codec'.eof THEN 1 ELSE 0)
                                   ELSE d'.offset
          BY DEF Taken
        <5>2. (IF codec'.eof THEN 1 ELSE 0) = 0 /\ 0 - 0 = 0
          BY <3>3
        <5>3. codec'.got - (IF codec'.eof THEN 1 ELSE 0) = 0
          BY <3>3, <5>2
        <5> QED
          BY <3>2, <5>1, <5>3
      <4> QED
        BY <4>1, <4>3, <4>4
    <3>6. InStream'
      BY <1>0, <1>4, <3>2, <3>4, <3>5 DEF InStream, Reading
    <3>7. UnitsRight'
      BY <1>0, <1>4, <3>2, <3>3 DEF UnitsRight
    <3>8. InStep'
      <4>1. Yield(g, 0) = 0
        <5>1. Total(g) \in Nat /\ OutputTo(g, 0) = 0
          BY <1>0, EndedClimbs, BlocksClimb
        <5> QED
          BY <5>1 DEF Yield, MinOf
      <4>2. 0 <= 0 * BLOCKMAX /\ 0 <= BLOCKMAX
        BY LengthType
      <4> QED
        BY <1>4, <3>2, <3>3, <3>4, <3>5, <4>1, <4>2 DEF InStep, Reading
    <3>9. at \in Nat /\ d'.offset = at
      BY <3>1, <3>2
    <3> HIDE DEF at, g
    <3> QED
      BY <3>2, <3>3, <3>6, <3>7, <3>8, <3>9
  <2>2. CASE ~NeedsRestart(f)
    <3>1. UNCHANGED <<d, codec, missed>> /\ d.folder = g /\ codec.init /\ at = d.offset
      BY <2>2 DEF Start, NeedsRestart
    <3>2. at \in Nat
      BY <3>1 DEF Full, TypeOK, State
    <3>3. (Good' <=> Good) /\ (IsCodec' <=> IsCodec) /\ Taken' = Taken /\ Here' = Here
          /\ (IsLzx' <=> IsLzx) /\ Loaded(d.folder)' = Loaded(g)
      BY <1>0, <3>1 DEF Good, IsCodec, Taken, Here, IsLzx, Loaded
    <3>4. CASE Good
      <4>1. Taken' = Taken + Len(call.buf)
        <5>1. Taken \in Int
          BY CodecNumbers DEF Taken
        <5> QED
          BY <1>0, <1>3, <3>3, <5>1
      <4>2. Undamaged => ~codec'.junk
        BY <3>1, <3>4 DEF Full, UnitsRight
      <4>3. InStream' /\ UnitsRight'
        BY <1>0, <1>4, <3>1, <3>3, <3>4, <4>1, <4>2, StreamKept
      <4>4. InStep'
        BY <1>4, <3>1, <3>3 DEF Full, InStep, Reading, Damaged
      <4> QED
        BY <3>1, <3>2, <4>3, <4>4
    <3>5. CASE ~Good
      BY <1>0, <1>4, <3>1, <3>2, <3>3, <3>5 DEF InStream, UnitsRight, InStep
    <3> QED
      BY <3>4, <3>5
  <2> QED
    BY <2>1, <2>2
<1>6. Progress'
  <2>1. ASSUME pc' # "idle" PROVE Progress'
    <3>1. begun
      BY <1>4, <2>1
    <3>2. CASE skip = 0
      <4>1. /\ call'.file = f /\ call'.len = FileLen(f) /\ call'.phase = "write"
            /\ call'.want = FileLen(f)
        BY <3>1, <3>2
      <4>2. at = FileAt[f].offset + 0 /\ 0 + FileLen(f) = FileLen(f)
        <5> HIDE DEF at
        <5> QED
          BY <1>0, <1>1, <1>5, <3>2
      <4> HIDE DEF at, skip
      <4> QED
        BY <1>0, <1>5, <4>1, <4>2 DEF Progress, TooLong, FileLen
    <3>3. CASE skip # 0
      <4>1. /\ call'.file = f /\ call'.len = FileLen(f) /\ call'.phase = "skip"
            /\ call'.want = skip
        BY <3>1, <3>3
      <4>2. at + skip = FileAt[f].offset
        <5> HIDE DEF at
        <5> QED
          BY <1>0, <1>5
      <4> HIDE DEF at, skip
      <4> QED
        BY <1>0, <1>5, <4>1, <4>2 DEF Progress, TooLong, FileLen
    <3> QED
      BY <3>2, <3>3
  <2> QED
    BY <2>1 DEF Progress
<1>7. OutputInPlace' /\ OutExact'
  BY <1>0, <1>4 DEF OutputInPlace, OutExact
<1>8. ExactOrError'
  <2>1. ASSUME pc' = "idle", error' = "OK", ~param.salvage PROVE out' = Content(f)
    <3>1. FileLen(f) = 0 /\ ~TooLong(f)
      BY <1>0, <1>2, <2>1
    <3>2. FileAt[f].length = 0
      BY <1>1, <3>1
    <3>3. <<>> = [i \in 1..0 |-> FileAt[f].offset + i]
      OBVIOUS
    <3> QED
      BY <1>0, <3>2, <3>3 DEF Content
  <2> QED
    BY <1>0, <1>4, <2>1 DEF ExactOrError, Returned, Content
<1> QED
  BY <1>5, <1>6, <1>7, <1>8 DEF Full

LEMMA FullNext == Full /\ [Next]_vars => Full'
<1> SUFFICES ASSUME Full, [Next]_vars PROVE Full'
  OBVIOUS
<1>0. Inv' /\ TypeOK'
  BY InvNext, TypeNext DEF Full
<1>1. CASE Join \/ \E f \in File : Refuse(f) \/ RestartFails(f)
  BY <1>0, <1>1, CallFull
<1>2. CASE \E f \in File : Start(f)
  BY <1>0, <1>2, StartFull
<1>3. CASE NonedRun \/ NonedWrite
  BY <1>0, <1>3, NonedFull
<1>4. CASE CodecStep
  BY <1>0, <1>4, CodecFull
<1>5. CASE ReadStep
  BY <1>0, <1>5, ReadFull
<1>6. CASE UNCHANGED vars
  <2>1. UNCHANGED <<cabs, param, d, codec, readErr, error, call, out, pc, missed>>
    BY <1>6 DEF vars
  <2>2. (Good' <=> Good) /\ (IsCodec' <=> IsCodec) /\ Taken' = Taken /\ Here' = Here
        /\ (IsLzx' <=> IsLzx) /\ Loaded(d.folder)' = Loaded(d.folder) /\ (Reading' <=> Reading)
        /\ Asked' = Asked /\ (Undamaged' <=> Undamaged) /\ (WantsFrame' <=> WantsFrame)
    BY <2>1 DEF Good, IsCodec, Taken, Here, IsLzx, Loaded, Reading, Asked, RunLength, Undamaged,
                WantsFrame
  <2>3. InStream'
    <3>1. (codec.init => Loaded(d.folder) >= 1)'
      BY <2>1, <2>2 DEF Full, InStream
    <3>2. Good' => d'.part <= Loaded(d.folder)'
      BY <2>1, <2>2 DEF Full, InStream
    <3> QED
      BY <2>1, <2>2, <3>1, <3>2 DEF Full, InStream
  <2>4. UnitsRight'
    BY <2>1, <2>2 DEF Full, UnitsRight
  <2>5. InStep'
    BY <2>1, <2>2 DEF Full, InStep, Damaged
  <2>6. Progress'
    BY <2>1, <2>2 DEF Full, Progress, TooLong, FileLen
  <2>7. OutputInPlace' /\ OutExact' /\ ExactOrError'
    BY <2>1 DEF Full, OutputInPlace, OutExact, ExactOrError, Returned, Content
  <2> QED
    BY <1>0, <2>3, <2>4, <2>5, <2>6, <2>7 DEF Full
<1> QED
  BY <1>1, <1>2, <1>3, <1>4, <1>5, <1>6 DEF Next, Steps, CodecStep, ReadStep

-----------------------------------------------------------------------------
(* What an undamaged folder holds.                                          *)

\* What Intact asks of a folder, apart from having been joined.
Sound(g) ==
  /\ \A i \in DOMAIN Flat(g) : Flat(g)[i].sum /\ Flat(g)[i].out <= BLOCKMAX
  /\ \A n \in 1..Total(g) : InputTo(g, n) - InputTo(g, n - 1) <= INPUTMAX
  /\ Method[g] = "lzx" => \A n \in 0..Total(g) - 1 : OutputTo(g, n) = n * BLOCKMAX
  /\ Method[g] = "none" => InputTo(g, Total(g)) = OutputTo(g, Total(g))

LEMMA OutAt ==
  ASSUME NEW g \in Folder
  PROVE  \A k \in 0..Len(Flat(g)) : OutputSum(g)[k] = OutputTo(g, Ended(g, k))
<1> DEFINE L == Len(Flat(g))
           G == {k \in 0..L : OutputSum(g)[k] = OutputTo(g, Ended(g, k))}
<1>1. L \in Nat
  BY FlatLen
<1>2. 0 \in G
  BY <1>1, SumsClimb, EndedNext, BlocksClimb
<1>3. ASSUME NEW n \in 0..L - 1, n \in G PROVE n + 1 \in G
  <2> DEFINE k == n + 1
  <2>1. k \in 1..L /\ k \in 0..L /\ k - 1 = n
    BY <1>1
  <2> HIDE DEF k
  <2>2. /\ OutputSum(g)[k] = OutputSum(g)[n] + Flat(g)[k].out
        /\ Ended(g, k) = Ended(g, n) + (IF Flat(g)[k].out # 0 THEN 1 ELSE 0)
        /\ OutputSum(g)[n] = OutputTo(g, Ended(g, n))
        /\ OutputSum(g)[n] \in Nat /\ Ended(g, n) \in Nat
    <3>1. n \in 0..L
      BY <1>1
    <3> QED
      BY <1>3, <2>1, <3>1, SumsClimb, EndedNext, EndedClimbs
  <2>3. CASE Flat(g)[k].out = 0
    <3>1. OutputSum(g)[k] = OutputSum(g)[n] /\ Ended(g, k) = Ended(g, n)
      BY <2>2, <2>3
    <3>2. OutputSum(g)[k] = OutputTo(g, Ended(g, k))
      BY <2>2, <3>1
    <3> QED
      BY <2>1, <3>2 DEF k
  <2>4. CASE Flat(g)[k].out # 0
    <3>1. Ended(g, k) \in 1..Total(g) /\ EndOf(g, Ended(g, k)) = k
      BY <2>1, <2>4, EndOfEnd
    <3>2. OutputSum(g)[k] = OutputTo(g, Ended(g, k))
      BY <3>1, EndedClimbs DEF OutputTo
    <3> QED
      BY <2>1, <3>2 DEF k
  <2> QED
    BY <2>3, <2>4
<1>4. 0..L \subseteq G
  <2> HIDE DEF G, L
  <2> QED
    BY <1>1, <1>2, <1>3, UpTo
<1> QED
  BY <1>4

\* A block's output is that of the record it ends with.
LEMMA BlockOut ==
  ASSUME NEW g \in Folder, NEW n \in 1..Total(g)
  PROVE  \E k \in DOMAIN Flat(g) : OutputTo(g, n) = OutputTo(g, n - 1) + Flat(g)[k].out
<1> DEFINE k == EndOf(g, n)
           L == Len(Flat(g))
<1>1. k \in 1..L /\ Flat(g)[k].out # 0 /\ Ended(g, k) = n /\ n \in Nat /\ L \in Nat
      /\ DOMAIN Flat(g) = 1..L
  BY EndOfIs, FlatLen, EndedClimbs
<1>2. k - 1 \in 0..L /\ k \in 0..L
  BY <1>1
<1> HIDE DEF k, L
<1>3. Ended(g, k) = Ended(g, k - 1) + 1 /\ Ended(g, k - 1) \in Nat
  BY <1>1, <1>2, EndedNext, EndedClimbs DEF L
<1>4. Ended(g, k - 1) = n - 1
  BY <1>1, <1>3
<1>5. OutputSum(g)[k] = OutputTo(g, n) /\ OutputSum(g)[k - 1] = OutputTo(g, n - 1)
  BY <1>1, <1>2, <1>4, OutAt DEF L
<1> QED
  BY <1>1, <1>5, SumsClimb DEF L

LEMMA SoundBlocks ==
  ASSUME NEW g \in Folder, Sound(g)
  PROVE  /\ \A n \in 1..Total(g) : OutputTo(g, n) - OutputTo(g, n - 1) <= BLOCKMAX
         /\ \A n \in 0..Total(g) : OutputTo(g, n) <= n * BLOCKMAX
<1> DEFINE T == Total(g)
<1>1. T \in Nat \ {0} /\ BLOCKMAX \in Nat \ {0}
  BY EndedClimbs, LengthType
<1>2. ASSUME NEW n \in 1..T
      PROVE  /\ OutputTo(g, n) - OutputTo(g, n - 1) <= BLOCKMAX
             /\ OutputTo(g, n) \in Nat /\ OutputTo(g, n - 1) \in Nat
  <2>1. OutputTo(g, n) \in Nat /\ OutputTo(g, n - 1) \in Nat
    <3>1. n \in 0..T /\ n - 1 \in 0..T
      BY <1>1
    <3> QED
      BY <3>1, BlocksClimb
  <2>2. PICK k \in DOMAIN Flat(g) : OutputTo(g, n) = OutputTo(g, n - 1) + Flat(g)[k].out
    BY <1>2, BlockOut
  <2>3. Flat(g)[k].out <= BLOCKMAX /\ Flat(g)[k].out \in Nat
    BY <2>2, FlatLen, SumsClimb DEF Sound, CFDATA
  <2> QED
    BY <1>1, <2>1, <2>2, <2>3
<1> DEFINE G == {n \in 0..T : OutputTo(g, n) <= n * BLOCKMAX}
<1>3. 0 \in G
  BY <1>1, BlocksClimb
<1>4. ASSUME NEW n \in 0..T - 1, n \in G PROVE n + 1 \in G
  <2>1. n + 1 \in 1..T /\ (n + 1) - 1 = n /\ n + 1 \in 0..T /\ n \in Nat
    BY <1>1
  <2>2. OutputTo(g, n + 1) - OutputTo(g, n) <= BLOCKMAX
        /\ OutputTo(g, n + 1) \in Nat /\ OutputTo(g, n) \in Nat
    BY <1>2, <2>1
  <2>3. (n + 1) * BLOCKMAX = n * BLOCKMAX + BLOCKMAX /\ n * BLOCKMAX \in Nat
    BY <1>1, <2>1, Quotients
  <2>4. OutputTo(g, n) <= n * BLOCKMAX
    BY <1>4
  <2>5. OutputTo(g, n + 1) <= (n + 1) * BLOCKMAX
    BY <1>1, <2>2, <2>3, <2>4
  <2> QED
    BY <2>1, <2>5
<1>5. 0..T \subseteq G
  <2> HIDE DEF G, T
  <2> QED
    BY <1>1, <1>3, <1>4, UpTo
<1> QED
  BY <1>2, <1>5

\* What a frame is to yield.
LEMMA SoundYield ==
  ASSUME NEW g \in Folder, Sound(g), NEW n \in Nat
  PROVE  /\ n < Total(g) => Yield(g, n + 1) - Yield(g, n) = OutputTo(g, n + 1) - OutputTo(g, n)
         /\ n >= Total(g) => Yield(g, n) = OutputTo(g, Total(g)) /\ Yield(g, n + 1) = Yield(g, n)
         /\ Yield(g, n + 1) - Yield(g, n) <= BLOCKMAX
         /\ Yield(g, n) \in Nat /\ Yield(g, n + 1) \in Nat
         /\ Yield(g, n + 1) <= OutputTo(g, Total(g)) /\ OutputTo(g, Total(g)) \in Nat
         /\ Method[g] = "lzx" /\ n < Total(g) => Yield(g, n) = n * BLOCKMAX
         /\ Method[g] = "lzx" /\ n + 1 < Total(g) => Yield(g, n + 1) - Yield(g, n) = BLOCKMAX
<1> DEFINE T == Total(g)
<1>1. T \in Nat \ {0} /\ BLOCKMAX \in Nat \ {0} /\ T \in 0..T
  BY EndedClimbs, LengthType
<1>2. \A i \in 0..T : OutputTo(g, i) \in Nat /\ OutputTo(g, i) <= OutputTo(g, T)
  BY <1>1, BlocksClimb
<1>3. CASE n < T
  <2>1. n \in 0..T /\ n + 1 \in 1..T /\ n + 1 \in 0..T /\ (n + 1) - 1 = n /\ n \in 0..T - 1
    BY <1>1, <1>3
  <2>2. Yield(g, n) = OutputTo(g, n) /\ Yield(g, n + 1) = OutputTo(g, n + 1)
    BY <1>1, <2>1 DEF Yield, MinOf
  <2>3. OutputTo(g, n + 1) - OutputTo(g, n) <= BLOCKMAX
    BY <2>1, SoundBlocks
  <2>4. Method[g] = "lzx" => OutputTo(g, n) = n * BLOCKMAX
    BY <2>1 DEF Sound
  <2>5. Method[g] = "lzx" /\ n + 1 < T => OutputTo(g, n + 1) - OutputTo(g, n) = BLOCKMAX
    <3>1. ASSUME Method[g] = "lzx", n + 1 < T PROVE OutputTo(g, n + 1) = (n + 1) * BLOCKMAX
      <4>1. n + 1 \in 0..T - 1
        BY <1>1, <2>1, <3>1
      <4> QED
        BY <3>1, <4>1 DEF Sound
    <3>2. (n + 1) * BLOCKMAX = n * BLOCKMAX + BLOCKMAX /\ n * BLOCKMAX \in Nat
      BY <1>1, Quotients
    <3> QED
      BY <1>1, <2>4, <3>1, <3>2
  <2> HIDE DEF T
  <2> QED
    BY <1>1, <1>2, <1>3, <2>1, <2>2, <2>3, <2>4, <2>5 DEF T
<1>4. CASE n >= T
  <2>1. MinOf(n, T) = T /\ MinOf(n + 1, T) = T
    BY <1>1, <1>4 DEF MinOf
  <2>2. Yield(g, n) = OutputTo(g, T) /\ Yield(g, n + 1) = OutputTo(g, T)
    BY <2>1 DEF Yield
  <2> QED
    BY <1>1, <1>2, <1>4, <2>2
<1> QED
  BY <1>1, <1>3, <1>4

-----------------------------------------------------------------------------
(* The third invariant: what there is, is enough.                           *)

\* A codec that nothing has failed in has made all of the frames it has decoded,
\* the frame it has begun is no shorter than its block and wants the input of it
\* at least.  Input came in whole buffers, up to the stream's end, and none of it
\* was damaged.
Supplied ==
  Good /\ IsCodec /\ ~codec.junk =>
    /\ Sound(d.folder) =>
         /\ codec.made = Yield(d.folder, codec.frames)
         /\ codec.need > 0 =>
              codec.size >= Yield(d.folder, codec.frames + 1) - Yield(d.folder, codec.frames)
    /\ InputTo(d.folder, MinOf(codec.frames, Total(d.folder))) <= codec.got
    /\ codec.need > 0 =>
         InputTo(d.folder, MinOf(codec.frames + 1, Total(d.folder))) <= codec.need
    /\ Here # Len(Flat(d.folder)) => codec.got % param.decompbuf = 0
    /\ pc \in {"idle", "decompress"} => codec.need = 0
    /\ Reading => codec.need > codec.got \/ codec.got = 0

LEMMA Rests ==
  /\ \A b \in Nat \ {0} : 0 % b = 0
  /\ \A a \in Nat : \A b \in Nat \ {0} : a % b = 0 => (a + b) % b = 0
<1>1. \A b \in Nat \ {0} : 0 % b = 0
  BY Z3
<1>2. ASSUME NEW a \in Nat, NEW b \in Nat \ {0}, a % b = 0 PROVE (a + b) % b = 0
  <2> DEFINE q == a \div b
  <2>1. q \in Nat /\ a = b * q + (a % b)
    BY Z3
  <2> HIDE DEF q
  <2>2. a = b * q
    BY <1>2, <2>1
  <2>3. a + b = (q + 1) * b
    BY <2>1, <2>2, Z3
  <2>4. q + 1 \in Nat /\ \A m \in Nat : (m * b) % b = 0
    BY <2>1, SMT
  <2> QED
    BY <2>3, <2>4
<1> QED
  BY <1>1, <1>2

\* Before LZX begins the last frame it has met the end of the data, unless its
\* buffers end just where the last block begins.
LEMMA SizeKnown ==
  ASSUME Full, Supplied, Good, ~codec.junk, IsLzx, pc = "frames", HeaderRead, SizeInTime(d.folder),
         codec.frames + 1 >= Total(d.folder)
  PROVE  codec.length = OutputTo(d.folder, Total(d.folder)) /\ codec.length # 0
<1> DEFINE g == d.folder
           T == Total(g)
           L == Len(Flat(g))
<1>1. IsCodec /\ Method[g] = "lzx" /\ codec.got > 0
  BY DEF IsLzx, IsCodec, HeaderRead
<1>2. /\ g \in Folder /\ T \in Nat \ {0} /\ L \in Nat \ {0} /\ Here \in 0..L
      /\ L \in 0..L /\ L \in 1..L /\ L - 1 \in 0..L
  BY Standing, EndedClimbs, FlatLen
<1>3. codec.got \in Nat /\ codec.frames \in Nat /\ Len(call.buf) \in Nat /\ Len(d.input) \in Nat
      /\ param.decompbuf \in Nat \ {0} /\ codec.eof \in BOOLEAN
  BY CodecNumbers
<1> HIDE DEF g, T, L
<1>4. ASSUME Here # L PROVE FALSE
  <2>1. ~codec.eof /\ codec.got % param.decompbuf = 0
    BY <1>1, <1>4 DEF Full, InStep, Supplied, g, L
  <2>2. /\ InputTo(g, T - 1) \in Nat /\ InputTo(g, 0) = 0
        /\ \A m \in 0..T : m <= T - 1 => InputTo(g, m) <= InputTo(g, T - 1)
        /\ \A m \in 0..T : m >= T - 1 => InputTo(g, m) >= InputTo(g, T - 1)
        /\ \A m \in 0..T : InputTo(g, m) \in Nat
    <3>1. T - 1 \in 0..T
      BY <1>2
    <3> QED
      BY <1>2, <3>1, BlocksClimb DEF T
  <2>3. codec.got >= InputTo(g, T - 1)
    <3>1. MinOf(codec.frames, T) \in 0..T /\ MinOf(codec.frames, T) >= T - 1
      BY <1>2, <1>3 DEF MinOf, T, g
    <3>2. InputTo(g, MinOf(codec.frames, T)) <= codec.got
      BY <1>1 DEF Supplied, g, T
    <3> QED
      BY <1>3, <2>2, <3>1, <3>2
  <2>4. codec.got > InputTo(g, T - 1)
    <3>1. CASE T > 1
      <4>1. InputTo(g, T - 1) % param.decompbuf # 0
        BY <1>1, <3>1 DEF SizeInTime, g, T
      <4>2. codec.got # InputTo(g, T - 1)
        BY <2>1, <4>1
      <4> QED
        BY <1>3, <2>2, <2>3, <4>2
    <3>2. CASE T = 1
      <4>1. T - 1 = 0
        BY <3>2
      <4> QED
        BY <1>1, <2>2, <4>1
    <3> QED
      BY <1>2, <3>1, <3>2
  <2>5. InputSum(g)[Here] > InputTo(g, T - 1)
    <3>1. Taken = codec.got
      BY <1>1, <1>3, <2>1 DEF Taken
    <3>2. Taken + Len(call.buf) + Len(d.input) = InputSum(g)[Here]
      BY DEF Full, InStream, g
    <3> QED
      BY <1>3, <2>2, <2>4, <3>1, <3>2
  <2>6. Here # 0 => Flat(g)[Here].out # 0
    BY DEF Full, InStream, g
  <2>7. InputSum(g)[Here] = InputTo(g, Ended(g, Here)) /\ Ended(g, Here) \in 0..T
    BY <1>2, <2>6, EndAt DEF T, L
  <2>8. Ended(g, Here) = T /\ Here # 0
    <3>1. ~(Ended(g, Here) <= T - 1)
      BY <1>2, <2>2, <2>5, <2>7
    <3>2. Here # 0
      BY <1>2, <2>2, <2>5, SumsClimb
    <3> QED
      BY <1>2, <2>7, <3>1, <3>2
  <2>9. EndOf(g, T) = Here /\ EndOf(g, T) = L
    <3>1. Here \in 1..L
      BY <1>2, <2>8
    <3> QED
      BY <1>2, <2>6, <2>8, <3>1, EndOfEnd, LastEnd DEF T, L
  <2> QED
    BY <1>4, <2>9
<1>5. codec.length = OutputTo(g, T)
  BY <1>1, <1>4 DEF Full, InStep, g, L, T
<1>6. OutputTo(g, T) # 0
  <2>1. OutputTo(g, T) = OutputSum(g)[L] /\ OutputSum(g)[L] = OutputSum(g)[L - 1] + Flat(g)[L].out
    BY <1>2, BlocksClimb, SumsClimb DEF T, L
  <2>2. OutputSum(g)[L - 1] \in Nat /\ Flat(g)[L].out \in Nat \ {0}
    BY <1>2, SumsClimb, FlatLen DEF L, CFDATA
  <2> QED
    BY <2>1, <2>2
<1> QED
  BY <1>5, <1>6 DEF g, T

\* The size of the next frame, and the input that it wants.
LEMMA FrameEnough ==
  ASSUME Full, Supplied, Good, ~codec.junk, IsCodec, pc = "frames", codec.need = 0, WantsFrame,
         Sound(d.folder)
  PROVE  FrameSize(codec.frames + 1) >= Yield(d.folder, codec.frames + 1) - Yield(d.folder, codec.frames)
<1> DEFINE g == d.folder
           T == Total(g)
           n == codec.frames
<1>1. g \in Folder /\ T \in Nat \ {0} /\ n \in Nat /\ BLOCKMAX \in Nat \ {0}
      /\ codec.sent \in Nat /\ codec.length \in Nat /\ (n + 1) - 1 = n
  <2>1. g \in Folder /\ T \in Nat \ {0}
    BY Standing, EndedClimbs
  <2>2. n \in Nat /\ BLOCKMAX \in Nat \ {0} /\ codec.sent \in Nat /\ codec.length \in Nat
    BY CodecNumbers
  <2> QED
    BY <2>1, <2>2
<1>2. /\ n < T => Yield(g, n + 1) - Yield(g, n) = OutputTo(g, n + 1) - OutputTo(g, n)
      /\ n >= T => Yield(g, n + 1) = Yield(g, n)
      /\ Yield(g, n + 1) - Yield(g, n) <= BLOCKMAX
      /\ Yield(g, n) \in Nat /\ Yield(g, n + 1) \in Nat
      /\ Yield(g, n + 1) <= OutputTo(g, T) /\ OutputTo(g, T) \in Nat
  BY <1>1, SoundYield
<1>3. codec.sent = Yield(g, n) /\ codec.length \in {0, OutputTo(g, T)}
  BY DEF Full, InStep, Supplied
<1> HIDE DEF T, n, g
<1>4. CASE ~IsLzx
  <2>1. FrameSize(n + 1) = IF n + 1 > T THEN BLOCKMAX ELSE OutputTo(g, n + 1) - OutputTo(g, n)
    BY <1>1, <1>4 DEF FrameSize, T, g
  <2> QED
    BY <1>1, <1>2, <2>1 DEF g, n
<1>5. CASE IsLzx
  <2>1. FrameSize(n + 1) = IF codec.length = 0 THEN BLOCKMAX
                           ELSE MinOf(BLOCKMAX, codec.length - codec.sent)
    BY <1>5 DEF FrameSize
  <2> QED
    BY <1>1, <1>2, <1>3, <2>1 DEF MinOf, g, n
<1> QED
  BY <1>4, <1>5

LEMMA NeedEnough ==
  ASSUME Full, Good, IsCodec, NEW n \in Nat \ {0}, NEW ahead \in {0, 1}
  PROVE  /\ FrameNeed(n, ahead) >= InputTo(d.folder, MinOf(n, Total(d.folder)))
         /\ FrameSize(n) <= Yield(d.folder, n) - Yield(d.folder, n - 1) =>
              FrameNeed(n, ahead) <= InputTo(d.folder, Total(d.folder)) + 1
         /\ InputTo(d.folder, MinOf(n, Total(d.folder))) \in Nat
         /\ InputTo(d.folder, Total(d.folder)) \in Nat
<1> DEFINE g == d.folder
           T == Total(g)
           last == MinOf(n, T)
<1>1. g \in Folder /\ T \in Nat \ {0}
  BY Standing, EndedClimbs
<1>2. last \in 0..T /\ T \in 0..T /\ last <= T
  BY <1>1 DEF MinOf
<1>3. InputTo(g, last) \in Nat /\ InputTo(g, T) \in Nat /\ InputTo(g, last) <= InputTo(g, T)
  BY <1>1, <1>2, BlocksClimb
<1>4. FrameNeed(n, ahead) =
        IF FrameSize(n) > Yield(g, n) - Yield(g, n - 1) THEN InputTo(g, T) + 2
        ELSE IF n > T THEN InputTo(g, last) ELSE InputTo(g, last) + ahead
  BY DEF FrameNeed, Yield
<1>5. FrameSize(n) <= Yield(g, n) - Yield(g, n - 1) => ~(FrameSize(n) > Yield(g, n) - Yield(g, n - 1))
  <2>1. Yield(g, n) \in Nat /\ Yield(g, n - 1) \in Nat
    <3>1. n - 1 \in Nat /\ n \in Nat
      OBVIOUS
    <3> QED
      BY <3>1, Bounds DEF Good
  <2>2. FrameSize(n) \in Nat
    BY FrameType
  <2> QED
    BY <2>1, <2>2
<1> HIDE DEF last, T, g
<1> QED
  BY <1>3, <1>4, <1>5 DEF g, T, last

LEMMA EnterSupplied ==
  ASSUME Full, TypeOK', Supplied, CodecEnter, codec'.error = "OK"
  PROVE  Supplied'
<1> SUFFICES ASSUME ~codec'.junk PROVE Supplied'
  BY DEF Supplied
<1>0. ~codec.junk /\ ~Damaged
  BY CodecAt DEF CodecStep, Damaged
<1>1. CodecStep
  BY DEF CodecStep
<1>2. /\ Good /\ Good' /\ IsCodec /\ d'.folder = d.folder /\ Here' = Here /\ UNCHANGED param
      /\ pc = "decompress" /\ codec.need = 0
  <2>1. codec.error = "OK" /\ pc = "decompress"
    BY DEF CodecEnter, Full, Inv, Shape
  <2> QED
    BY <1>0, <1>1, <2>1, CodecAt DEF Here, Supplied
<1>3. /\ codec'.got = codec.got /\ codec'.frames = codec.frames /\ codec'.made = codec.made
      /\ codec'.need = codec.need /\ codec'.size = codec.size
  BY <1>2 DEF CodecEnter, Full, Inv, Shape
<1>4. ~Reading'
  <2>1. pc' = "frames" \/ \E e : Finish(e, readErr)
    BY DEF CodecEnter
  <2>2. pc' \in {"idle", "decompress", "frames"}
    BY <2>1, FinishCall
  <2> QED
    BY <2>2 DEF Reading
<1> QED
  BY <1>0, <1>2, <1>3, <1>4 DEF Supplied

LEMMA DoneSupplied ==
  ASSUME Full, TypeOK', Supplied, FramesDone \/ FrameInput, codec'.error = "OK"
  PROVE  Supplied'
<1> SUFFICES ASSUME ~codec'.junk PROVE Supplied'
  BY DEF Supplied
<1>0. ~codec.junk /\ ~Damaged
  BY CodecAt DEF CodecStep, Damaged
<1>1. CodecStep
  BY DEF CodecStep
<1>2. /\ Good /\ Good' /\ IsCodec /\ d'.folder = d.folder /\ Here' = Here /\ UNCHANGED param
      /\ pc = "frames"
  <2>1. pc = "frames"
    BY DEF FramesDone, FrameInput
  <2> QED
    BY <1>1, <2>1, CodecAt DEF Here
<1>3. UNCHANGED codec
  BY DEF FramesDone, FrameInput, Full, Inv, Shape
<1>4. CASE FramesDone
  <2>1. codec.need = 0
    BY <1>4 DEF FramesDone
  <2>2. pc' \in {"idle", "decompress"}
    BY <1>4, FinishCall DEF FramesDone
  <2> QED
    BY <1>0, <1>2, <1>3, <2>1, <2>2 DEF Supplied, Reading
<1>5. CASE FrameInput
  <2>1. codec.need > codec.got /\ pc' = "read"
    BY <1>0, <1>5 DEF FrameInput, Ask
  <2> QED
    BY <1>0, <1>2, <1>3, <2>1 DEF Supplied
<1> QED
  BY <1>4, <1>5

LEMMA BeginSupplied ==
  ASSUME Full, TypeOK', Supplied, BeginFrame
  PROVE  Supplied'
<1> SUFFICES ASSUME ~codec'.junk PROVE Supplied'
  BY DEF Supplied
<1>0. ~codec.junk /\ ~Damaged
  BY CodecAt DEF CodecStep, Damaged
<1>1. CodecStep
  BY DEF CodecStep
<1>2. /\ pc = "frames" /\ codec.need = 0 /\ WantsFrame
      /\ Good /\ IsCodec /\ d'.folder = d.folder /\ Here' = Here /\ UNCHANGED param
      /\ codec.frames \in Nat /\ codec.got \in Nat
  BY <1>1, CodecAt, CodecNumbers DEF BeginFrame, Here
<1>3. CASE ~HeaderRead /\ UNCHANGED codec /\ pc' = "read"
  <2>1. codec.got = 0
    BY <1>2, <1>3 DEF HeaderRead
  <2>2. Good'
    BY <1>1, <1>2, <1>3, CodecAt DEF Good
  <2> QED
    BY <1>0, <1>2, <1>3, <2>1, <2>2 DEF Supplied
<1>4. ASSUME HeaderRead, pc' = pc,
             NEW ahead \in {0, 1},
             codec' = [codec EXCEPT !.need = FrameNeed(codec.frames + 1, ahead),
                                    !.size = FrameSize(codec.frames + 1)]
      PROVE  Supplied'
  <2>1. /\ codec'.got = codec.got /\ codec'.frames = codec.frames /\ codec'.made = codec.made
        /\ codec'.need = FrameNeed(codec.frames + 1, ahead)
        /\ codec'.size = FrameSize(codec.frames + 1)
    BY <1>4 DEF Full, Inv, Shape
  <2>2. codec.frames + 1 \in Nat \ {0}
    BY <1>2
  <2>3. FrameNeed(codec.frames + 1, ahead) >= InputTo(d.folder, MinOf(codec.frames + 1, Total(d.folder)))
        /\ FrameNeed(codec.frames + 1, ahead) \in Nat
        /\ InputTo(d.folder, MinOf(codec.frames + 1, Total(d.folder))) \in Nat
    BY <1>2, <1>4, <2>2, NeedEnough, FrameType
  <2>4. Sound(d.folder) => FrameSize(codec.frames + 1) >= Yield(d.folder, codec.frames + 1) - Yield(d.folder, codec.frames)
    BY <1>0, <1>2, FrameEnough
  <2>5. InputTo(d.folder, MinOf(codec.frames + 1, Total(d.folder))) <= codec'.need
    BY <2>1, <2>3
  <2>6. ~Reading' /\ pc' = "frames"
    BY <1>2, <1>4 DEF Reading
  <2> QED
    BY <1>0, <1>2, <2>1, <2>4, <2>5, <2>6 DEF Supplied
<1> QED
  BY <1>3, <1>4 DEF BeginFrame, Ask

LEMMA OutSupplied ==
  ASSUME Full, TypeOK', Supplied, FrameOut, codec'.error = "OK"
  PROVE  Supplied'
<1> DEFINE g == d.folder
           n == codec.frames
           T == Total(g)
<1> SUFFICES ASSUME ~codec'.junk PROVE Supplied'
  BY DEF Supplied
<1>0. ~codec.junk /\ ~Damaged
  BY CodecAt DEF CodecStep, Damaged
<1>1. CodecStep
  BY DEF CodecStep
<1>2. /\ Good /\ Good' /\ IsCodec /\ d'.folder = g /\ Here' = Here /\ UNCHANGED param
      /\ pc = "frames" /\ codec.need > 0 /\ codec.need <= codec.got
  <2>1. pc = "frames" /\ codec.need > 0 /\ codec.need <= codec.got
    BY <1>0 DEF FrameOut, Decodable
  <2> QED
    BY <1>1, <2>1, CodecAt DEF Here
<1>3. /\ codec'.got = codec.got /\ codec'.frames = n + 1 /\ codec'.made = codec.made + codec.size
      /\ codec'.need = 0 /\ pc' = "frames"
  <2>1. PICK size \in Sizes :
          \/ codec' = [codec EXCEPT !.error = "WRITE"]
          \/ /\ codec' = [codec EXCEPT !.frames = @ + 1, !.made = @ + size,
                                       !.sent = @ + MinOf(size, call.want),
                                       !.need = 0, !.size = 0]
             /\ pc' = pc
    BY DEF FrameOut
  <2>2. size = codec.size
    BY <1>0 DEF Sizes
  <2> QED
    BY <1>2, <2>1, <2>2 DEF Full, Inv, Shape
<1>4. /\ n \in Nat /\ n + 1 \in Nat /\ codec.made \in Nat /\ codec.size \in Nat
      /\ codec.need \in Nat /\ codec.got \in Nat
  BY CodecNumbers
<1>5. /\ g \in Folder /\ InputTo(g, T) \in Nat
      /\ Yield(g, n) \in Nat /\ Yield(g, n + 1) \in Nat
  BY <1>2, <1>4, Bounds DEF Good
<1>6. InputTo(g, MinOf(n + 1, T)) <= codec'.got
  <2>1. InputTo(g, MinOf(n + 1, T)) <= codec.need
    BY <1>0, <1>2 DEF Supplied
  <2>2. InputTo(g, MinOf(n + 1, T)) \in Nat
    <3>1. MinOf(n + 1, T) \in 0..T
      BY <1>4, <1>5, EndedClimbs DEF MinOf
    <3> QED
      BY <1>5, <3>1, BlocksClimb
  <2> QED
    BY <1>2, <1>3, <1>4, <2>1, <2>2
<1>7. Sound(g) => codec'.made = Yield(g, n + 1)
  <2>1. codec.size <= Yield(g, n + 1) - Yield(g, n)
    <3>1. codec.need <= InputTo(g, T) + 1
      BY <1>2, <1>4, <1>5, GotAtMost
    <3> QED
      BY <1>2, <3>1 DEF Full, InStep
  <2>2. ASSUME Sound(g) PROVE codec'.made = Yield(g, n + 1)
    <3>1. codec.size >= Yield(g, n + 1) - Yield(g, n) /\ codec.made = Yield(g, n)
      BY <1>0, <1>2, <2>2 DEF Supplied
    <3> QED
      BY <1>3, <1>4, <1>5, <2>1, <3>1
  <2> QED
    BY <2>2
<1>8. ~Reading'
  BY <1>3 DEF Reading
<1>9. ~(codec'.need > 0)
  BY <1>3
<1> QED
  BY <1>0, <1>2, <1>3, <1>6, <1>7, <1>8, <1>9 DEF Supplied

LEMMA ReceiveSupplied ==
  ASSUME Full, TypeOK', Supplied, CodecReceive, codec'.error = "OK"
  PROVE  Supplied'
<1> DEFINE g == d.folder
           n == Len(call.buf)
           b == param.decompbuf
<1> SUFFICES ASSUME ~codec'.junk PROVE Supplied'
  BY DEF Supplied
<1>0. ~codec.junk /\ ~Damaged
  BY CodecAt DEF CodecStep, Damaged
<1>1. CodecStep
  BY DEF CodecStep
<1>2. /\ Good /\ Good' /\ IsCodec /\ d'.folder = g /\ Here' = Here /\ UNCHANGED param
      /\ pc = "got"
  <2>1. pc = "got"
    BY DEF CodecReceive
  <2> QED
    BY <1>1, <2>1, CodecAt DEF Here
<1>3. /\ codec'.frames = codec.frames /\ codec'.made = codec.made
      /\ codec'.need = codec.need /\ codec'.size = codec.size /\ pc' = "frames"
      /\ codec'.got \in {codec.got + n, codec.got + 1}
      /\ n > 0 => codec'.got = codec.got + n
  <2>1. CASE /\ n > 0 /\ pc' = "frames"
             /\ codec' = [codec EXCEPT !.got = @ + n,
                                       !.junk = @ \/ \E i \in 1..n : call.buf[i] = 0]
    BY <2>1 DEF Full, Inv, Shape
  <2>2. CASE n = 0 /\ pc' = "frames" /\ codec' = [codec EXCEPT !.got = @ + 1, !.eof = TRUE]
    BY <2>2 DEF Full, Inv, Shape
  <2>3. CASE codec' = [codec EXCEPT !.error = "READ"]
    BY <2>3 DEF Full, Inv, Shape
  <2> QED
    BY <2>1, <2>2, <2>3 DEF CodecReceive
<1>4. /\ codec.got \in Nat /\ n \in Nat /\ b \in Nat \ {0} /\ call.todo \in Nat
  BY CodecNumbers
<1>5. n + call.todo = b /\ (call.todo > 0 => Here = Len(Flat(g)))
  BY <1>2 DEF Full, InStream, Reading, Asked
<1>6. Here' # Len(Flat(g)) => codec'.got % b = 0
  <2>1. ASSUME Here # Len(Flat(g)) PROVE codec'.got = codec.got + b /\ codec.got % b = 0
    <3>1. n = b /\ n > 0
      BY <1>4, <1>5, <2>1
    <3> QED
      BY <1>0, <1>2, <1>3, <2>1, <3>1 DEF Supplied
  <2> HIDE DEF b
  <2> QED
    BY <1>2, <1>4, <2>1, Rests
<1>7. InputTo(g, MinOf(codec.frames, Total(g))) <= codec'.got
  <2>1. InputTo(g, MinOf(codec.frames, Total(g))) <= codec.got
    BY <1>0, <1>2 DEF Supplied
  <2>2. InputTo(g, MinOf(codec.frames, Total(g))) \in Nat
    <3>1. g \in Folder /\ codec.frames \in Nat
      BY <1>2, CodecNumbers, Standing
    <3>2. MinOf(codec.frames, Total(g)) \in 0..Total(g)
      BY <3>1, EndedClimbs DEF MinOf
    <3> QED
      BY <3>1, <3>2, BlocksClimb
  <2>3. codec'.got >= codec.got /\ codec'.got \in Nat
    BY <1>3, <1>4
  <2> QED
    BY <1>4, <2>1, <2>2, <2>3
<1>8. ~Reading'
  BY <1>3 DEF Reading
<1> QED
  BY <1>0, <1>2, <1>3, <1>6, <1>7, <1>8 DEF Supplied

LEMMA ReadSupplied ==
  ASSUME Full, TypeOK', Supplied, ReadStep
  PROVE  Supplied'
<1> SUFFICES ASSUME Good', IsCodec', ~codec'.junk PROVE Supplied'
  BY DEF Supplied
<1>0. ~codec.junk
  BY ReadAt
<1>1. /\ Good /\ IsCodec /\ d'.folder = d.folder /\ UNCHANGED param /\ Reading
      /\ pc \in {"read", "block"}
  BY ReadAt DEF Reading
<1>2. codec'.error = "OK"
  BY DEF Good
<1>3. /\ codec'.got = codec.got /\ codec'.frames = codec.frames /\ codec'.made = codec.made
      /\ codec'.need = codec.need /\ codec'.size = codec.size /\ pc' \in {"read", "block", "got"}
  <2>1. CASE ReadCopy \/ ReadNext
    BY <2>1 DEF ReadCopy, ReadNext
  <2>2. CASE BlockRead
    BY <2>2 DEF BlockRead, BlockDone, Full, Inv, Shape
  <2>3. ~\E e : BlockFails(e)
    BY <1>1, <1>2 DEF BlockFails, Full, Inv, Shape
  <2>4. CASE BlockContinues
    BY <1>1, <2>3, <2>4 DEF BlockContinues
  <2> QED
    BY <2>1, <2>2, <2>3, <2>4 DEF ReadStep, BlockUnread, BlockRejected
<1>4. Here' # Len(Flat(d.folder)) => codec'.got % param.decompbuf = 0
  <2>1. CASE pc = "read"
    <3>1. d'.part = d.part /\ d'.infh = d.infh
      BY <2>1 DEF ReadStep, ReadCopy, ReadNext, BlockUnread, BlockRejected, BlockRead,
                  BlockContinues, Full, Inv, Shape
    <3> QED
      BY <1>0, <1>1, <1>3, <3>1 DEF Supplied, Here
  <2>2. CASE pc = "block"
    <3>1. Here # Len(Flat(d.folder))
      <4>1. d.infh <= Len(Parts[d.folder][d.part])
        BY <1>1, <2>2 DEF Full, InStream
      <4> QED
        BY <1>1, <4>1, Ahead
    <3> QED
      BY <1>0, <1>1, <1>3, <3>1 DEF Supplied
  <2> QED
    BY <1>1, <2>1, <2>2
<1>5. pc' \notin {"idle", "decompress"}
  BY <1>3
<1> QED
  BY <1>0, <1>1, <1>3, <1>4, <1>5 DEF Supplied

LEMMA StartSupplied ==
  ASSUME Full, TypeOK', Supplied, NEW f \in File, Start(f)
  PROVE  Supplied'
<1> DEFINE g == FileAt[f].folder
<1>1. g \in Folder /\ pc' \in {"idle", "decompress"} /\ pc = "idle" /\ UNCHANGED param
  BY FileType DEF Start, Accepted
<1>2. ~Reading'
  BY <1>1 DEF Reading
<1>3. CASE NeedsRestart(f)
  <2>1. d'.folder = g
    BY <1>3 DEF Start, Restarted
  <2>2. codec'.got = 0 /\ codec'.need = 0 /\ codec'.made = 0 /\ codec'.frames = 0
    <3>1. codec' = NewCodec(TRUE)
      BY <1>3 DEF Start
    <3> QED
      BY <3>1 DEF NewCodec
  <2>3. Yield(g, 0) = 0 /\ InputTo(g, MinOf(0, Total(g))) = 0
    <3>1. MinOf(0, Total(g)) = 0
      BY <1>1, EndedClimbs DEF MinOf
    <3> QED
      BY <1>1, <3>1, BlocksClimb DEF Yield
  <2>4. 0 % param.decompbuf = 0
    BY CodecNumbers, Rests
  <2>5. InputTo(g, MinOf(0, Total(g))) <= 0 /\ ~(codec'.need > 0)
    BY <2>2, <2>3
  <2> HIDE DEF g
  <2> QED
    BY <1>1, <1>2, <2>1, <2>2, <2>3, <2>4, <2>5 DEF Supplied
<1>4. CASE ~NeedsRestart(f)
  <2>1. UNCHANGED <<d, codec, missed>>
    BY <1>4 DEF Start
  <2>2. (Good' <=> Good) /\ (IsCodec' <=> IsCodec) /\ Here' = Here
    BY <2>1 DEF Good, IsCodec, Here
  <2> QED
    BY <1>1, <1>2, <2>1, <2>2 DEF Supplied
<1> QED
  BY <1>3, <1>4

LEMMA SuppliedNext ==
  ASSUME Full, Full', Supplied, [Next]_vars
  PROVE  Supplied'
<1>0. TypeOK'
  BY DEF Full
<1>1. CASE Join \/ \E f \in File : Refuse(f) \/ RestartFails(f)
  <2>1. pc' = "idle" /\ pc = "idle" /\ UNCHANGED <<param, missed>>
    BY <1>1 DEF Join, Refuse, RestartFails, Accepted
  <2>2. CASE UNCHANGED <<d, codec>>
    <3>1. (Good' <=> Good) /\ (IsCodec' <=> IsCodec) /\ Here' = Here /\ ~Reading'
      BY <2>1, <2>2 DEF Good, IsCodec, Here, Reading
    <3> QED
      BY <2>1, <2>2, <3>1 DEF Supplied
  <2>3. CASE ~codec'.init
    BY <2>3 DEF Supplied, Good
  <2>4. UNCHANGED <<d, codec>> \/ ~codec'.init
    <3>1. CASE \E f \in File : RestartFails(f)
      <4>1. codec' = NewCodec(FALSE)
        BY <3>1 DEF RestartFails
      <4> QED
        BY <4>1 DEF NewCodec
    <3>2. CASE Join
      BY <3>2 DEF Join
    <3>3. CASE \E f \in File : Refuse(f)
      BY <3>3 DEF Refuse
    <3> QED
      BY <1>1, <3>1, <3>2, <3>3
  <2> QED
    BY <2>2, <2>3, <2>4
<1>2. CASE \E f \in File : Start(f)
  BY <1>0, <1>2, StartSupplied
<1>3. CASE NonedRun \/ NonedWrite
  <2>1. ~IsCodec'
    BY <1>3 DEF NonedRun, NonedWrite, Write, WriteFails, Full, Inv, Shape, IsCodec
  <2> QED
    BY <2>1 DEF Supplied
<1>4. CASE CodecStep
  <2>1. CASE codec'.error # "OK"
    <3>1. IsCodec'
      BY <1>0, <1>4, CodecAt
    <3> QED
      BY <2>1, <3>1 DEF Supplied, Good
  <2>2. CASE codec'.error = "OK"
    <3>1. ~FrameFails
      BY <2>2 DEF FrameFails, Full, Inv, Shape
    <3> QED
      BY <1>0, <1>4, <2>2, <3>1, EnterSupplied, DoneSupplied, BeginSupplied, OutSupplied,
         ReceiveSupplied DEF CodecStep
  <2> QED
    BY <2>1, <2>2
<1>5. CASE ReadStep
  BY <1>0, <1>5, ReadSupplied
<1>6. CASE UNCHANGED vars
  <2>1. UNCHANGED <<d, codec, pc, param, missed>>
    BY <1>6 DEF vars
  <2>2. (Good' <=> Good) /\ (IsCodec' <=> IsCodec) /\ Here' = Here /\ (Reading' <=> Reading)
    BY <2>1 DEF Good, IsCodec, Here, Reading
  <2> QED
    BY <2>1, <2>2 DEF Supplied
<1> QED
  BY <1>1, <1>2, <1>3, <1>4, <1>5, <1>6 DEF Next, Steps, CodecStep, ReadStep

-----------------------------------------------------------------------------
(* A call for an intact file in which nothing fails.                        *)

Running == pc # "idle" /\ clean /\ ~missed /\ Intact(call.file) /\ SizeInTime(d.folder)

\* The decoder has not failed before, and the frame it has begun wants no more
\* than the stream has, and the bit buffer's look behind it.
Undisturbed ==
  Running => /\ Good
             /\ IsCodec => codec.need <= InputTo(d.folder, Total(d.folder)) + 1

\* What a step of such a call does.
Calm ==
  /\ pc' = "idle" => error' = "OK"
  /\ ~missed'
  /\ IsCodec => codec'.error = "OK" /\ codec'.need <= InputTo(d.folder, Total(d.folder)) + 1

LEMMA IntactIs ==
  ASSUME NEW f \in File, Intact(f)
  PROVE  /\ Sound(FileAt[f].folder)
         /\ Loaded(FileAt[f].folder) = Len(Parts[FileAt[f].folder])
         /\ FileAt[f].offset + FileAt[f].length
              <= OutputTo(FileAt[f].folder, Total(FileAt[f].folder))
BY DEF Intact, Sound

\* All that is still wanted is in the folder.
LEMMA Room ==
  ASSUME Full, Undisturbed, Running
  PROVE  /\ Good /\ Sound(d.folder) /\ Loaded(d.folder) = Len(Parts[d.folder]) /\ Undamaged
         /\ ~codec.junk
         /\ d.offset + call.want <= OutputTo(d.folder, Total(d.folder))
         /\ OutputTo(d.folder, Total(d.folder)) \in Nat
         /\ InputTo(d.folder, Total(d.folder)) \in Nat
<1> DEFINE f == call.file
           g == d.folder
           all == OutputTo(g, Total(g))
<1>1. /\ f \in File /\ g = FileAt[f].folder /\ FileAt[f].offset <= LENGTHMAX
      /\ call.len = FileLen(f)
      /\ call.phase = "skip" => d.offset + call.want = FileAt[f].offset
      /\ call.phase = "write" =>
           d.offset = FileAt[f].offset + Len(out) /\ Len(out) + call.want = call.len
      /\ Good
  BY DEF Full, Progress, Running, Undisturbed
<1>2. Sound(g) /\ Loaded(g) = Len(Parts[g]) /\ FileAt[f].offset + FileAt[f].length <= all
  BY <1>1, IntactIs DEF Running
<1>3. /\ FileLen(f) \in Nat /\ FileLen(f) <= FileAt[f].length
      /\ FileAt[f].offset \in Nat /\ FileAt[f].length \in Nat
  BY <1>1, FileLenIs, FileType
<1>4. call.phase \in {"skip", "write"} /\ d.offset \in Nat /\ call.want \in Nat /\ Len(out) \in Nat
  BY CodecNumbers
<1>5. all \in Nat /\ InputTo(g, Total(g)) \in Nat
  BY <1>1, Bounds DEF Good
<1> HIDE DEF all
<1>6. d.offset + call.want <= all
  <2> DEFINE o == FileAt[f].offset
             l == FileAt[f].length
             k == FileLen(f)
             w == call.want
             n == Len(out)
             at == d.offset
  <2>1. /\ o \in Nat /\ l \in Nat /\ k \in Nat /\ w \in Nat /\ n \in Nat /\ at \in Nat
        /\ all \in Nat /\ k <= l /\ o + l <= all
        /\ \/ at + w = o
           \/ at = o + n /\ n + w = k
    BY <1>1, <1>2, <1>3, <1>4, <1>5
  <2> HIDE DEF o, l, k, w, n, at
  <2>2. at + w <= all
    BY <2>1
  <2> QED
    BY <2>2 DEF at, w
<1>7. Undamaged
  BY <1>2 DEF Undamaged, Sound
<1>8. ~codec.junk
  BY <1>1, <1>7 DEF Full, UnitsRight
<1> QED
  BY <1>1, <1>2, <1>5, <1>6, <1>7, <1>8 DEF all

LEMMA Ending ==
  ASSUME ~missed
  PROVE  /\ Finish("OK", readErr) => ~missed' /\ error' = "OK"
         /\ pc' = "frames" /\ missed' = missed => ~missed' /\ pc' # "idle"
<1>1. "OK" # "READ" /\ Mapped("OK", readErr) = "OK"
  BY DEF Mapped
<1>2. Finish("OK", readErr) => (missed' = (missed \/ "OK" = "READ")) /\ error' = "OK"
  BY <1>1 DEF Finish
<1>3. ASSUME Finish("OK", readErr) PROVE ~missed'
  <2>1. ~(missed \/ "OK" = "READ")
    BY <1>1
  <2> QED
    BY <1>2, <1>3, <2>1
<1>4. ASSUME pc' = "frames", missed' = missed PROVE ~missed' /\ pc' # "idle"
  <2>1. ~missed'
    BY <1>4
  <2>2. pc' # "idle"
    BY <1>4
  <2> QED
    BY <2>1, <2>2
<1> QED
  BY <1>2, <1>3, <1>4

LEMMA NonedCalm ==
  ASSUME Full, Undisturbed, Running, clean', NonedRun \/ NonedWrite
  PROVE  Calm
<1>1. ~IsCodec /\ ~missed /\ Good
  BY Room DEF NonedRun, NonedWrite, Running
<1>2. ASSUME NEW e, e # "READ", Finish(e, readErr) PROVE ~missed' /\ error' = e
  BY <1>1, <1>2 DEF Finish, Mapped
<1>3. CASE NonedRun
  <2>1. "OK" # "READ"
    OBVIOUS
  <2> QED
    BY <1>1, <1>2, <1>3, <2>1 DEF NonedRun, Ask, Calm
<1>4. CASE NonedWrite
  <2>1. Len(call.buf) = RunLength
    <3> DEFINE g == d.folder
               n == Len(call.buf)
               L == Len(Flat(g))
               run == RunLength
    <3>1. n + call.todo = run /\ (call.todo > 0 => Here = L /\ d.input = <<>>)
      BY <1>1, <1>4 DEF NonedWrite, Full, InStream, Reading, Asked
    <3>2. n \in Nat /\ call.todo \in Nat /\ d.offset \in Nat /\ call.want \in Nat
          /\ Len(d.input) \in Nat /\ param.decompbuf \in Nat
      BY CodecNumbers
    <3>3. run <= call.want /\ run \in Nat
      BY <3>2 DEF RunLength, MinOf
    <3>4. d.offset + n + Len(d.input) = InputSum(g)[Here]
      BY <1>1 DEF Full, InStream, Taken
    <3>5. InputSum(g)[L] = InputTo(g, Total(g)) /\ InputTo(g, Total(g)) = OutputTo(g, Total(g))
      <4>1. g \in Folder
        BY <1>1, Standing
      <4>2. Method[g] = "none"
        BY <1>1 DEF IsCodec
      <4> QED
        BY <4>1, <4>2, BlocksClimb, Room DEF Sound
    <3>6. d.offset + call.want <= OutputTo(g, Total(g)) /\ OutputTo(g, Total(g)) \in Nat
      BY Room
    <3> HIDE DEF n, L, run, g
    <3>7. CASE call.todo > 0
      <4>1. Len(d.input) = 0
        BY <3>1, <3>7
      <4>2. d.offset + n = OutputTo(g, Total(g))
        BY <3>1, <3>2, <3>4, <3>5, <3>7, <4>1
      <4> QED
        BY <3>1, <3>2, <3>3, <3>6, <3>7, <4>2
    <3> QED
      BY <3>1, <3>2, <3>3, <3>7 DEF n, run
  <2>2. ~Fault
    BY DEF Fault
  <2>3. pc' = "decompress" /\ missed' = missed
    BY <1>4, <2>1, <2>2 DEF NonedWrite, WriteFails
  <2> QED
    BY <1>1, <2>3 DEF Calm
<1> QED
  BY <1>3, <1>4

LEMMA EnterCalm ==
  ASSUME Full, Supplied, Undisturbed, Running, clean', CodecEnter
  PROVE  Calm
<1>1. Good /\ IsCodec /\ codec.error = "OK" /\ ~Fault /\ ~missed
  BY Room DEF CodecEnter, Good, Fault, Running
<1>2. codec' = [codec EXCEPT !.sent = @ + MinOf(Leftover, call.want)]
      /\ (Finish("OK", readErr) \/ (pc' = "frames" /\ missed' = missed))
  BY <1>1 DEF CodecEnter, WriteFails
<1>3. codec'.error = "OK" /\ codec'.need = codec.need
  BY <1>1, <1>2 DEF Full, Inv, Shape
<1>4. codec.need <= InputTo(d.folder, Total(d.folder)) + 1
  BY <1>1 DEF Undisturbed
<1>5. ~missed' /\ (pc' = "idle" => error' = "OK")
  BY <1>1, <1>2, Ending
<1> QED
  BY <1>3, <1>4, <1>5 DEF Calm

\* In the loop over frames of such a call.
LEMMA Looping ==
  ASSUME Full, Supplied, Undisturbed, Running, IsCodec, pc = "frames"
  PROVE  /\ codec.made = Yield(d.folder, codec.frames) /\ codec.sent <= codec.made
         /\ d.offset = codec.sent
         /\ codec.sent = codec.made \/ (call.want = 0 /\ codec.need = 0 /\ ~WantsFrame)
         /\ codec.sent + call.want <= OutputTo(d.folder, Total(d.folder))
         /\ codec.sent \in Nat /\ call.want \in Nat /\ codec.frames \in Nat
         /\ codec.made \in Nat
<1>1. /\ Good /\ Sound(d.folder) /\ ~codec.junk
      /\ d.offset + call.want <= OutputTo(d.folder, Total(d.folder))
  BY Room
<1> QED
  BY <1>1, CodecNumbers DEF Full, InStep, Supplied

LEMMA DoneCalm ==
  ASSUME Full, Supplied, Undisturbed, Running, IsCodec, FramesDone
  PROVE  Calm
<1> DEFINE g == d.folder
           T == Total(g)
           n == codec.frames
           all == OutputTo(g, T)
<1>1. pc = "frames" /\ codec.need = 0 /\ ~WantsFrame /\ ~missed
  BY DEF FramesDone, Running
<1>2. /\ codec.made = Yield(g, n) /\ (codec.sent = codec.made \/ call.want = 0)
      /\ codec.sent + call.want <= all
      /\ codec.sent \in Nat /\ call.want \in Nat /\ n \in Nat /\ codec.made \in Nat
  BY <1>1, Looping
<1>3. g \in Folder /\ T \in Nat /\ BLOCKMAX \in Nat \ {0} /\ Good /\ Sound(g) /\ all \in Nat
  <2>1. Good /\ Sound(g) /\ all \in Nat
    BY Room
  <2> QED
    BY <2>1, Standing, EndedClimbs, LengthType
<1>4. call.want = 0
  <2>1. CASE ~IsLzx
    BY <1>1, <1>2, <2>1 DEF WantsFrame
  <2>2. CASE IsLzx
    <3> SUFFICES ASSUME call.want > 0 PROVE FALSE
      BY <1>2
    <3> DEFINE a == codec.sent + call.want
    <3>1. a \in Nat /\ codec.sent < a /\ a <= all
      BY <1>2
    <3>2. ~(n < a \div BLOCKMAX + 1)
      BY <1>1, <2>2 DEF WantsFrame
    <3> HIDE DEF a, all
    <3>3. a < n * BLOCKMAX /\ n * BLOCKMAX \in Nat
      <4>1. /\ a \div BLOCKMAX \in Nat /\ a < BLOCKMAX * (a \div BLOCKMAX) + BLOCKMAX
            /\ n * BLOCKMAX \in Nat
        BY <1>2, <1>3, <3>1, Quotients
      <4> DEFINE q == a \div BLOCKMAX
      <4>2. q + 1 <= n /\ q \in Nat
        BY <1>2, <3>2, <4>1
      <4> HIDE DEF q
      <4>3. BLOCKMAX * q + BLOCKMAX <= n * BLOCKMAX
        <5>1. n - (q + 1) \in Nat
          BY <1>2, <4>2
        <5>2. n * BLOCKMAX = BLOCKMAX * q + BLOCKMAX + BLOCKMAX * (n - (q + 1))
              /\ BLOCKMAX * (n - (q + 1)) \in Nat /\ BLOCKMAX * q \in Nat
          BY <1>2, <1>3, <4>2, <5>1, Z3
        <5> HIDE DEF n
        <5> QED
          BY <1>3, <5>2
      <4>4. BLOCKMAX * q \in Nat
        BY <1>3, <4>2, Z3
      <4> QED
        BY <1>3, <3>1, <4>1, <4>3, <4>4 DEF q
    <3>4. codec.sent = Yield(g, n)
      BY <1>2
    <3>5. Method[g] = "lzx"
      BY <2>2 DEF IsLzx
    <3>6. /\ n < T => Yield(g, n) = n * BLOCKMAX
          /\ n >= T => Yield(g, n) = all
      BY <1>2, <1>3, <3>5, SoundYield DEF all
    <3> HIDE DEF n, T
    <3> QED
      BY <1>2, <1>3, <3>1, <3>3, <3>4, <3>6
  <2> QED
    BY <2>1, <2>2
<1>5. codec' = codec /\ Finish("OK", readErr)
  BY <1>2, <1>4 DEF FramesDone
<1>6. ~missed' /\ (pc' = "idle" => error' = "OK")
  BY <1>1, <1>5, Ending
<1>7. codec.error = "OK"
  BY <1>3 DEF Good
<1> QED
  BY <1>1, <1>3, <1>5, <1>6, <1>7, Room DEF Calm

LEMMA BeginCalm ==
  ASSUME Full, Supplied, Undisturbed, Running, IsCodec, BeginFrame
  PROVE  Calm
<1> DEFINE g == d.folder
           T == Total(g)
           n == codec.frames
           all == OutputTo(g, T)
<1>1. pc = "frames" /\ codec.need = 0 /\ WantsFrame /\ ~missed /\ SizeInTime(g)
  BY DEF BeginFrame, Running
<1>2. /\ codec.made = Yield(g, n) /\ codec.sent = codec.made
      /\ codec.sent + call.want <= all
      /\ codec.sent \in Nat /\ call.want \in Nat /\ n \in Nat
  BY <1>1, Looping
<1>3. g \in Folder /\ T \in Nat /\ BLOCKMAX \in Nat \ {0} /\ Good /\ Sound(g) /\ all \in Nat
      /\ InputTo(g, T) \in Nat /\ codec.error = "OK" /\ ~codec.junk
  <2>1. Good /\ Sound(g) /\ all \in Nat /\ InputTo(g, T) \in Nat /\ ~codec.junk
    BY Room
  <2> QED
    BY <2>1, Standing, EndedClimbs, LengthType DEF Good
<1>4. CASE ~HeaderRead /\ UNCHANGED codec /\ Ask(param.decompbuf)
  <2>1. pc' = "read" /\ missed' = missed
    BY <1>4 DEF Ask
  <2> QED
    BY <1>1, <1>3, <1>4, <2>1 DEF Calm
<1>5. ASSUME HeaderRead PROVE FrameSize(n + 1) <= Yield(g, n + 1) - Yield(g, n)
  <2>1. /\ n < T => Yield(g, n + 1) - Yield(g, n) = OutputTo(g, n + 1) - OutputTo(g, n)
        /\ n >= T => Yield(g, n) = all /\ Yield(g, n + 1) = Yield(g, n)
        /\ Yield(g, n + 1) - Yield(g, n) <= BLOCKMAX
        /\ Yield(g, n) \in Nat /\ Yield(g, n + 1) \in Nat
        /\ Yield(g, n + 1) <= all
        /\ Method[g] = "lzx" /\ n + 1 < T => Yield(g, n + 1) - Yield(g, n) = BLOCKMAX
    BY <1>2, <1>3, SoundYield DEF all
  <2>2. (n + 1) - 1 = n /\ (~(n + 1 < T) => n + 1 >= T)
    BY <1>2, <1>3
  <2>3. CASE ~IsLzx
    <3>1. FrameSize(n + 1) = IF n + 1 > T THEN BLOCKMAX ELSE OutputTo(g, n + 1) - OutputTo(g, n)
      BY <2>2, <2>3 DEF FrameSize
    <3>2. call.want > 0
      BY <1>1, <2>3 DEF WantsFrame
    <3> HIDE DEF all, n, T, g
    <3>3. n < T
      BY <1>2, <1>3, <2>1, <3>2
    <3> QED
      BY <1>2, <1>3, <2>1, <3>1, <3>3
  <2>4. CASE IsLzx
    <3>1. FrameSize(n + 1) = IF codec.length = 0 THEN BLOCKMAX
                             ELSE MinOf(BLOCKMAX, codec.length - codec.sent)
      BY <2>4 DEF FrameSize
    <3>2. Method[g] = "lzx"
      BY <2>4 DEF IsLzx
    <3>3. codec.length \in Nat
      BY CodecNumbers
    <3>4. n + 1 >= T => codec.length = all /\ codec.length # 0
      BY <1>1, <1>3, <1>5, <2>4, SizeKnown
    <3>5. n + 1 >= T => Yield(g, n + 1) = all
      <4>1. ASSUME n + 1 = T PROVE Yield(g, n + 1) = all
        <5>1. MinOf(n + 1, T) = T
          BY <1>3, <4>1 DEF MinOf
        <5> QED
          BY <5>1 DEF Yield
      <4> QED
        BY <1>2, <1>3, <2>1, <4>1
    <3> HIDE DEF all, n, T, g
    <3> QED
      BY <1>2, <1>3, <2>1, <2>2, <3>1, <3>2, <3>3, <3>4, <3>5 DEF MinOf
  <2> QED
    BY <2>3, <2>4
<1>6. ASSUME HeaderRead, NEW ahead \in {0, 1}, pc' = pc, missed' = missed,
             codec' = [codec EXCEPT !.need = FrameNeed(n + 1, ahead), !.size = FrameSize(n + 1)]
      PROVE  Calm
  <2>1. codec'.error = codec.error /\ codec'.need = FrameNeed(n + 1, ahead)
    BY <1>6 DEF Full, Inv, Shape
  <2>2. n + 1 \in Nat \ {0} /\ (n + 1) - 1 = n
    BY <1>2
  <2>3. FrameSize(n + 1) <= Yield(g, n + 1) - Yield(g, (n + 1) - 1)
    BY <1>5, <1>6, <2>2
  <2>4. FrameNeed(n + 1, ahead) <= InputTo(g, T) + 1
    BY <1>3, <2>2, <2>3, NeedEnough
  <2> QED
    BY <1>1, <1>3, <1>6, <2>1, <2>4 DEF Calm
<1> QED
  BY <1>4, <1>6 DEF BeginFrame

LEMMA FramesCalm ==
  ASSUME Full, Supplied, Undisturbed, Running, clean', IsCodec,
         FrameInput \/ FrameFails \/ FrameOut
  PROVE  Calm
<1>1. Good /\ Undamaged /\ ~missed /\ codec.error = "OK" /\ ~Fault
      /\ codec.need <= InputTo(d.folder, Total(d.folder)) + 1
      /\ InputTo(d.folder, Total(d.folder)) \in Nat
  BY Room DEF Good, Fault, Running, Undisturbed
<1>2. CASE FrameInput
  <2>1. pc' = "read" /\ missed' = missed /\ UNCHANGED codec
    BY <1>2 DEF FrameInput, Ask
  <2> QED
    BY <1>1, <2>1 DEF Calm
<1>3. CASE FrameFails
  BY <1>1, <1>3 DEF FrameFails, Full, UnitsRight
<1>4. CASE FrameOut
  <2>1. PICK size \in Sizes :
          /\ codec' = [codec EXCEPT !.frames = @ + 1, !.made = @ + size,
                                    !.sent = @ + MinOf(size, call.want),
                                    !.need = 0, !.size = 0]
          /\ pc' = pc /\ missed' = missed /\ pc = "frames"
    BY <1>1, <1>4 DEF FrameOut, WriteFails
  <2>2. codec'.error = codec.error /\ codec'.need = 0
    BY <2>1 DEF Full, Inv, Shape
  <2> QED
    BY <1>1, <2>1, <2>2 DEF Calm
<1> QED
  BY <1>2, <1>3, <1>4

LEMMA ReceiveCalm ==
  ASSUME Full, Supplied, Undisturbed, Running, CodecReceive
  PROVE  Calm
<1> DEFINE g == d.folder
           n == Len(call.buf)
           L == Len(Flat(g))
           most == InputTo(g, Total(g))
<1>1. /\ Good /\ ~missed /\ codec.error = "OK" /\ IsCodec /\ pc = "got" /\ ~codec.junk
      /\ codec.need <= most + 1 /\ most \in Nat /\ g \in Folder
  <2>1. Good /\ IsCodec /\ pc = "got" /\ ~missed /\ most \in Nat /\ ~codec.junk
    BY Room DEF CodecReceive, Running
  <2> QED
    BY <2>1, Standing DEF Good, Undisturbed
<1>2. /\ codec.got \in Nat /\ codec.need \in Nat /\ n \in Nat /\ call.todo \in Nat
      /\ param.decompbuf \in Nat \ {0} /\ Len(d.input) \in Nat
  BY CodecNumbers
<1>3. ASSUME n = 0, codec.eof PROVE FALSE
  <2>1. n + call.todo = param.decompbuf /\ (call.todo > 0 => Here = L /\ d.input = <<>>)
    BY <1>1 DEF Full, InStream, Reading, Asked
  <2>2. Here = L /\ Len(d.input) = 0
    BY <1>2, <1>3, <2>1
  <2>3. Taken = codec.got - 1
    BY <1>1, <1>3 DEF Taken
  <2>4. Taken + n + Len(d.input) = InputSum(g)[Here]
    BY <1>1 DEF Full, InStream
  <2>5. InputSum(g)[L] = most
    BY <1>1, BlocksClimb
  <2> HIDE DEF n, L, most
  <2>6. codec.got = most + 1
    BY <1>1, <1>2, <1>3, <2>2, <2>3, <2>4, <2>5
  <2>7. codec.need > codec.got \/ codec.got = 0
    BY <1>1 DEF Supplied, Reading
  <2> QED
    BY <1>1, <1>2, <2>6, <2>7
<1>4. /\ codec'.error = codec.error /\ codec'.need = codec.need
      /\ pc' = "frames" /\ missed' = missed
  <2>1. CASE /\ pc' = "frames" /\ missed' = missed
             /\ codec' = [codec EXCEPT !.got = @ + n,
                                       !.junk = @ \/ \E i \in 1..n : call.buf[i] = 0]
    BY <2>1 DEF Full, Inv, Shape
  <2>2. CASE /\ pc' = "frames" /\ missed' = missed
             /\ codec' = [codec EXCEPT !.got = @ + 1, !.eof = TRUE]
    BY <2>2 DEF Full, Inv, Shape
  <2> QED
    BY <1>3, <2>1, <2>2 DEF CodecReceive
<1> QED
  BY <1>1, <1>4 DEF Calm

\* The record that comes next is accepted, and if it is a fragment there is
\* a part for it to go on in.
LEMMA NextFits ==
  ASSUME Full, Undisturbed, Running, pc = "block", NEW r \in Records
  PROVE  /\ ~Oversized(r) /\ r.sum
         /\ r.out = 0 => d.part # 0 /\ ~(d.part >= Loaded(d.folder))
<1> DEFINE g == d.folder
           k == Here + 1
           b == d.block
<1>1. Good /\ Sound(g) /\ Loaded(g) = Len(Parts[g])
  BY Room
<1>2. /\ r = Parts[g][d.part][d.infh] /\ k \in 1..Len(Flat(g))
      /\ d.infh <= Len(Parts[g][d.part]) /\ r = Flat(g)[k] /\ r \in CFDATA
      /\ InputSum(g)[k] = InputSum(g)[Here] + Len(r.data)
  BY <1>1, NextRecord
<1>3. /\ g \in Folder /\ Here \in 0..Len(Flat(g)) /\ Len(Flat(g)) \in Nat
      /\ d.part \in 1..Len(Parts[g]) /\ Len(Parts[g]) \in Nat /\ Place(g, d.part, d.infh)
      /\ DOMAIN Flat(g) = 1..Len(Flat(g))
  <2>1. g \in Folder /\ Place(g, d.part, d.infh)
    BY <1>1, Standing
  <2> QED
    BY <1>1, <2>1, Standing, FolderType, FlatLen
<1>4. b = Ended(g, Here) + 1 /\ Len(d.input) = InputSum(g)[Here] - InputTo(g, b - 1)
  BY <1>1 DEF Full, InStream
<1>5. Ended(g, Here) \in Nat /\ Ended(g, Here) < Total(g) /\ Total(g) \in Nat
  <2>1. Total(g) = Ended(g, Len(Flat(g))) /\ Total(g) \in Nat /\ Ended(g, Here) \in Nat
    BY <1>3, EndedNext, EndedClimbs
  <2>2. Loaded(g) \in 1..Len(Parts[g]) /\ d.part <= Loaded(g)
        /\ (Ended(g, Here) >= NumBlocks(g) => ~(d.infh <= Len(Parts[g][d.part])))
    BY <1>1, Ahead
  <2>3. NumBlocks(g) = Total(g) /\ NumBlocks(g) \in Nat
    <3>1. NumBlocks(g) = 1 + BlocksTo(g)[Len(Parts[g])] /\ NumBlocks(g) \in Nat
      BY <1>1, LoadedRange DEF Good
    <3>2. Len(Parts[g]) \in 1..Len(Parts[g]) /\ d.part <= Len(Parts[g])
      BY <1>3
    <3>3. 1 + BlocksTo(g)[Len(Parts[g])] = Total(g)
      BY <1>3, <3>2, OutOfBlocks
    <3> QED
      BY <3>1, <3>3
  <2> HIDE DEF g
  <2> QED
    BY <1>2, <2>1, <2>2, <2>3
<1> HIDE DEF k, b
<1>6. b \in 1..Total(g) /\ b - 1 = Ended(g, Here) /\ b \in 0..Total(g) /\ b - 1 \in 0..Total(g)
  BY <1>4, <1>5
<1>7. InputSum(g)[k] <= InputTo(g, b)
  <2>1. EndOf(g, b) \in 1..Len(Flat(g)) /\ Here < EndOf(g, b)
    <3>1. Ended(g, Here) < b
      BY <1>5, <1>6
    <3> QED
      BY <1>3, <1>6, <3>1, EndOfIs
  <2>2. k <= EndOf(g, b) /\ k \in 0..Len(Flat(g)) /\ EndOf(g, b) \in 0..Len(Flat(g))
    BY <1>2, <1>3, <2>1 DEF k
  <2>3. InputTo(g, b) = InputSum(g)[EndOf(g, b)]
    BY <1>6 DEF InputTo
  <2> QED
    BY <1>3, <2>2, <2>3, SumsClimb
<1>8. FullLen(r) <= INPUTMAX
  <2>1. InputTo(g, b) - InputTo(g, b - 1) <= INPUTMAX
    BY <1>1, <1>6 DEF Sound
  <2>2. InputTo(g, b) \in Nat /\ InputTo(g, b - 1) \in Nat /\ InputSum(g)[Here] \in Nat
        /\ InputSum(g)[k] \in Nat /\ Len(r.data) \in Nat /\ INPUTMAX \in Nat
    <3>1. InputTo(g, b) \in Nat /\ InputTo(g, b - 1) \in Nat
      BY <1>3, <1>6, BlocksClimb
    <3>2. InputSum(g)[Here] \in Nat /\ InputSum(g)[k] \in Nat
      <4>1. k \in 0..Len(Flat(g))
        BY <1>2, <1>3
      <4> QED
        BY <1>3, <4>1, SumsClimb
    <3>3. Len(r.data) \in Nat /\ INPUTMAX \in Nat
      BY <1>2, CabExtractAssumption DEF CFDATA, CabExtractAssumption
    <3> QED
      BY <3>1, <3>2, <3>3
  <2>3. FullLen(r) = Len(d.input) + Len(r.data)
    BY DEF FullLen
  <2> DEFINE i == Len(d.input)
             l == Len(r.data)
             at == InputTo(g, b - 1)
             to == InputTo(g, b)
             h == InputSum(g)[Here]
             s == InputSum(g)[k]
  <2>4. i = h - at /\ s = h + l /\ s <= to /\ to - at <= INPUTMAX
    BY <1>2, <1>4, <1>7, <2>1
  <2>5. at \in Nat /\ to \in Nat /\ h \in Nat /\ s \in Nat /\ l \in Nat /\ INPUTMAX \in Nat
    BY <2>2
  <2> HIDE DEF i, l, at, to, h, s
  <2>6. i + l <= INPUTMAX
    BY <2>4, <2>5
  <2> QED
    BY <2>3, <2>6 DEF i, l
<1>9. r.sum /\ r.out <= BLOCKMAX
  BY <1>1, <1>2, <1>3 DEF Sound
<1>10. ~Oversized(r)
  <2>1. FullLen(r) \in Int /\ INPUTMAX \in Int /\ r.out \in Nat /\ BLOCKMAX \in Nat
    <3>1. Len(d.input) \in Nat
      BY CodecNumbers
    <3>2. Len(r.data) \in Nat /\ r.out \in Nat
      BY <1>2 DEF CFDATA
    <3>3. INPUTMAX \in Nat /\ BLOCKMAX \in Nat
      BY CabExtractAssumption DEF CabExtractAssumption
    <3> QED
      BY <3>1, <3>2, <3>3 DEF FullLen
  <2>2. ~(FullLen(r) > INPUTMAX) /\ ~(r.out > BLOCKMAX)
    BY <1>8, <1>9, <2>1
  <2> QED
    BY <2>2 DEF Oversized
<1>11. r.out = 0 => d.part # 0 /\ ~(d.part >= Loaded(g))
  <2>1. ASSUME r.out = 0 PROVE d.part < Len(Parts[g])
    <3> HIDE DEF g
    <3>1. Parts[g][d.part][d.infh].out = 0
      BY <1>2, <2>1
    <3> QED
      BY <1>2, <1>3, <3>1, PlaceType
  <2>2. d.part < Len(Parts[g]) => d.part # 0 /\ ~(d.part >= Loaded(g))
    <3> DEFINE n == Len(Parts[g])
               p == d.part
    <3>1. p \in 1..n /\ n \in Nat /\ Loaded(g) = n
      BY <1>1, <1>3
    <3> HIDE DEF n, p
    <3> QED
      BY <3>1 DEF n, p
  <2> QED
    BY <2>1, <2>2
<1> QED
  BY <1>9, <1>10, <1>11

LEMMA ReadCalm ==
  ASSUME Full, Supplied, Undisturbed, Running, clean', ReadStep
  PROVE  Calm
<1>1. /\ Good /\ ~missed /\ ~Fault /\ codec.error = "OK"
      /\ IsCodec => codec.need <= InputTo(d.folder, Total(d.folder)) + 1
      /\ d.infh \in Nat \ {0} /\ d.infh # NULL
  <2>1. Good /\ ~missed /\ ~Fault /\ codec.error = "OK"
    BY Room, ReadAt DEF Fault, Running
  <2> QED
    BY <2>1, Standing DEF Undisturbed
<1>2. ASSUME pc' \in {"read", "block", "got"}, missed' = missed,
             codec'.error = codec.error, codec'.need = codec.need
      PROVE  Calm
  BY <1>1, <1>2 DEF Calm
<1>3. CASE ReadCopy \/ ReadNext
  <2>1. pc' \in {"read", "block", "got"} /\ missed' = missed /\ codec' = codec
    BY <1>3 DEF ReadCopy, ReadNext
  <2> QED
    BY <1>2, <2>1
<1>4. CASE BlockUnread
  BY <1>1, <1>4 DEF BlockUnread
<1>5. CASE BlockRejected
  BY <1>5, NextFits DEF BlockRejected
<1>6. CASE BlockRead
  <2>1. \E n : BlockDone(n)
    BY <1>6 DEF BlockRead
  <2>2. /\ pc' = "read" /\ missed' = missed
        /\ codec'.error = codec.error /\ codec'.need = codec.need
    BY <2>1 DEF BlockDone, Full, Inv, Shape
  <2> QED
    BY <1>2, <2>2
<1>7. CASE BlockContinues
  <2>1. pc' = pc /\ pc = "block" /\ missed' = missed /\ codec' = codec
    <3>1. pc = "block"
      BY <1>7 DEF BlockContinues
    <3> DEFINE next == IF d.part = 0 \/ d.part >= Loaded(d.folder) THEN 0 ELSE d.part + 1
    <3>2. PICK r \in Records : /\ r.out = 0
                               /\ \/ next = 0
                                  \/ Fault
                                  \/ UNCHANGED <<codec, readErr, error, call, missed, pc>>
      BY <1>7 DEF BlockContinues
    <3>3. d.part # 0 /\ ~(d.part >= Loaded(d.folder)) /\ d.part \in Nat
      BY <3>1, <3>2, NextFits DEF Full, TypeOK, State
    <3>4. next # 0
      BY <3>3
    <3> QED
      BY <1>1, <3>1, <3>2, <3>4
  <2> QED
    BY <1>2, <2>1
<1> QED
  BY <1>3, <1>4, <1>5, <1>6, <1>7 DEF ReadStep

LEMMA StepCalm ==
  ASSUME Full, Supplied, Undisturbed, Running, clean', TypeOK', Steps
  PROVE  Calm
<1>1. CASE NonedRun \/ NonedWrite
  BY <1>1, NonedCalm
<1>2. CASE CodecStep
  BY <1>2, CodecAt, EnterCalm, DoneCalm, BeginCalm, FramesCalm, ReceiveCalm DEF CodecStep
<1>3. CASE ReadStep
  BY <1>3, ReadCalm
<1> QED
  BY <1>1, <1>2, <1>3 DEF Steps, CodecStep, ReadStep

\* No step makes up for what went wrong before it.
LEMMA StepsKeep ==
  ASSUME Full, TypeOK', Steps
  PROVE  /\ pc # "idle" /\ UNCHANGED <<cabs, param>> /\ call'.file = call.file
         /\ d'.folder = d.folder /\ codec'.init
         /\ (clean' => clean) /\ (missed => missed')
<1>0. Shape /\ (pc # "idle" => codec.init)
  BY DEF Full, Inv, InFolder
<1>1. ASSUME NEW p, NEW w PROVE Phase(p, w).file = call.file
  BY <1>0 DEF Phase, Shape
<1>2. ASSUME NEW e, NEW re, Finish(e, re)
      PROVE  call'.file = call.file /\ (missed => missed')
  <2>1. call'.file = call.file
    BY <1>1, <1>2 DEF Finish
  <2>2. missed' = (missed \/ e = "READ")
    BY <1>2 DEF Finish
  <2> QED
    BY <2>1, <2>2
<1>3. ASSUME NEW n, Ask(n) PROVE call'.file = call.file /\ (missed => missed')
  BY <1>0, <1>3 DEF Ask, Shape
<1>4. (Fault => ~clean') /\ (NoFault => clean' = clean)
  BY DEF Fault, NoFault
<1>5. CASE NonedRun
  <2>1. call'.file = call.file /\ (missed => missed')
    BY <1>2, <1>3, <1>5 DEF NonedRun
  <2> QED
    BY <1>0, <1>5, <2>1 DEF NonedRun
<1>6. CASE NonedWrite
  <2>1. call'.file = call.file /\ (missed => missed')
    BY <1>1, <1>2, <1>6 DEF NonedWrite
  <2>2. clean' => clean
    BY <1>4, <1>6 DEF NonedWrite, WriteFails
  <2>3. d'.folder = d.folder
    BY <1>0, <1>6 DEF NonedWrite, Write, WriteFails, Shape
  <2> QED
    BY <1>0, <1>6, <2>1, <2>2, <2>3 DEF NonedWrite
<1>7. CASE CodecStep
  <2>1. /\ UNCHANGED <<cabs, param>> /\ d'.folder = d.folder /\ codec'.init
        /\ pc \in {"decompress", "frames", "got"}
    BY <1>7, CodecAt
  <2>2. CASE CodecEnter
    <3>1. call'.file = call.file /\ (missed => missed')
      BY <1>1, <1>2, <2>2 DEF CodecEnter
    <3>2. clean' => clean
      BY <1>4, <2>2 DEF CodecEnter, WriteFails
    <3> QED
      BY <2>1, <3>1, <3>2
  <2>3. CASE FramesDone \/ FrameFails
    <3>1. call'.file = call.file /\ (missed => missed')
      BY <1>2, <2>3 DEF FramesDone, FrameFails
    <3>2. clean' = clean
      BY <2>3 DEF FramesDone, FrameFails
    <3> QED
      BY <2>1, <3>1, <3>2
  <2>4. CASE BeginFrame \/ FrameInput
    <3>1. call'.file = call.file /\ (missed => missed')
      BY <1>3, <2>4 DEF BeginFrame, FrameInput
    <3>2. clean' = clean
      BY <2>4 DEF BeginFrame, FrameInput
    <3> QED
      BY <2>1, <3>1, <3>2
  <2>5. CASE FrameOut
    <3>1. call'.file = call.file /\ (missed => missed')
      BY <1>1, <1>2, <2>5 DEF FrameOut
    <3>2. clean' => clean
      BY <1>4, <2>5 DEF FrameOut, WriteFails
    <3> QED
      BY <2>1, <3>1, <3>2
  <2>6. CASE CodecReceive
    <3>1. call'.file = call.file /\ (missed => missed')
      BY <1>1, <1>2, <2>6 DEF CodecReceive
    <3>2. clean' = clean
      BY <2>6 DEF CodecReceive
    <3> QED
      BY <2>1, <3>1, <3>2
  <2> QED
    BY <1>7, <2>2, <2>3, <2>4, <2>5, <2>6 DEF CodecStep
<1>8. CASE ReadStep
  <2>1. /\ UNCHANGED <<cabs, param>> /\ d'.folder = d.folder /\ codec'.init
        /\ pc \in {"read", "block"} /\ call'.file = call.file /\ (missed => missed')
    BY <1>8, ReadAt
  <2>2. clean' => clean
    BY <1>4, <1>8 DEF ReadStep, ReadCopy, ReadNext, BlockUnread, BlockRejected, BlockRead,
                      BlockContinues
  <2> QED
    BY <2>1, <2>2
<1> QED
  BY <1>5, <1>6, <1>7, <1>8 DEF Steps, CodecStep, ReadStep

LEMMA UndisturbedNext ==
  ASSUME Full, Full', Supplied, Undisturbed, [Next]_vars
  PROVE  Undisturbed'
<1> SUFFICES ASSUME Running'
             PROVE  Good' /\ (IsCodec' =>
                      codec'.need <= InputTo(d'.folder, Total(d'.folder)) + 1)
  BY DEF Undisturbed
<1>0. TypeOK' /\ pc' # "idle" /\ clean' /\ ~missed'
  BY DEF Full, Running
<1>1. CASE \E f \in File : Start(f)
  <2> DEFINE g == d'.folder
  <2>1. PICK f \in File : Start(f)
    BY <1>1
  <2>2. codec'.init /\ codec'.need \in Nat /\ InputTo(g, Total(g)) \in Nat
    <3>1. codec'.init
      BY <1>0 DEF Full, Inv, InFolder
    <3>2. g \in Folder
      BY <3>1 DEF Full, Inv, InFolder
    <3>3. Total(g) \in 0..Total(g)
      BY <3>2, EndedClimbs
    <3> QED
      BY <1>0, <3>1, <3>2, <3>3, BlocksClimb DEF TypeOK, Codec
  <2>3. codec'.error = "OK" /\ (IsCodec' => codec'.need = 0)
    <3>1. CASE NeedsRestart(f)
      <4>1. codec' = NewCodec(TRUE)
        BY <2>1, <3>1 DEF Start
      <4> QED
        BY <4>1 DEF NewCodec
    <3>2. CASE ~NeedsRestart(f)
      <4>1. UNCHANGED <<d, codec, missed>> /\ pc = "idle"
        BY <2>1, <3>2 DEF Start, Accepted
      <4>2. codec.error = "OK"
        BY <1>0, <2>1, <3>2 DEF Start, Fault
      <4>3. Good /\ (IsCodec' <=> IsCodec)
        BY <1>0, <2>2, <4>1, <4>2 DEF Good, IsCodec
      <4>4. ~codec'.junk
        <5>1. call'.file \in File /\ d'.folder = FileAt[call'.file].folder
          BY <1>0 DEF Full, Progress
        <5>2. \A i \in DOMAIN Flat(d'.folder) : Flat(d'.folder)[i].sum
          BY <5>1 DEF Running, Intact
        <5>3. Undamaged'
          BY <5>2 DEF Undamaged
        <5>4. Good'
          BY <1>0, <2>2, <4>1, <4>2 DEF Good
        <5> QED
          BY <5>3, <5>4 DEF Full, UnitsRight
      <4> QED
        BY <4>1, <4>2, <4>3, <4>4 DEF Supplied
    <3> QED
      BY <3>1, <3>2
  <2>4. Good'
    BY <1>0, <2>2, <2>3 DEF Good
  <2> HIDE DEF g
  <2>5. IsCodec' => codec'.need <= InputTo(g, Total(g)) + 1
    BY <2>2, <2>3
  <2> QED
    BY <2>4, <2>5 DEF g
<1>2. CASE Steps
  <2>1. /\ UNCHANGED <<cabs, param>> /\ call'.file = call.file /\ d'.folder = d.folder
        /\ codec'.init /\ pc # "idle" /\ clean /\ ~missed
    BY <1>0, <1>2, StepsKeep
  <2>2. Running
    <3>1. Intact(call.file) /\ SizeInTime(d.folder)
      BY <2>1 DEF Running, Intact, Loaded, SizeInTime
    <3> QED
      BY <2>1, <3>1 DEF Running
  <2>3. Calm
    BY <1>0, <1>2, <2>2, StepCalm
  <2>4. IsCodec' <=> IsCodec
    BY <2>1 DEF IsCodec
  <2> QED
    BY <1>0, <2>1, <2>3, <2>4 DEF Calm, Good
<1>3. CASE Join \/ \E f \in File : Refuse(f) \/ RestartFails(f)
  <2>1. pc' = "idle"
    BY <1>3 DEF Join, Refuse, RestartFails, Accepted
  <2> QED
    BY <1>0, <2>1
<1>4. CASE UNCHANGED vars
  <2>1. UNCHANGED <<cabs, param, d, codec, call, pc, missed, clean>>
    BY <1>4 DEF vars
  <2>2. Running /\ (Good' <=> Good) /\ (IsCodec' <=> IsCodec)
    BY <2>1 DEF Running, Intact, Loaded, SizeInTime, Good, IsCodec
  <2> QED
    BY <2>1, <2>2 DEF Undisturbed
<1> QED
  BY <1>1, <1>2, <1>3, <1>4 DEF Next

\* What cabd_extract demands of a file before it starts holds of one in a folder
\* that is whole.
LEMMA IntactWelcome ==
  ASSUME NEW f \in File, Intact(f)
  PROVE  /\ ~(FileAt[f].offset > LENGTHMAX) /\ ~TooLong(f) /\ ~BeyondBlocks(f)
<1> DEFINE g == FileAt[f].folder
           T == Total(g)
           all == OutputTo(g, T)
           o == FileAt[f].offset
           l == FileAt[f].length
<1>1. g \in Folder /\ o \in Nat /\ l \in Nat /\ T \in Nat \ {0} /\ T \in 0..T
      /\ BLOCKMAX \in Nat \ {0} /\ FOLDERMAX \in Nat \ {0}
  <2>1. g \in Folder /\ o \in Nat /\ l \in Nat
    BY FileType
  <2> HIDE DEF g, o, l
  <2>2. T \in Nat \ {0}
    BY <2>1, EndedClimbs
  <2>3. BLOCKMAX \in Nat \ {0} /\ FOLDERMAX \in Nat \ {0}
    BY CabExtractAssumption DEF CabExtractAssumption
  <2> HIDE DEF T
  <2> QED
    BY <2>1, <2>2, <2>3
<1>2. Sound(g) /\ Loaded(g) = Len(Parts[g]) /\ o + l <= all
  BY IntactIs
<1>3. all <= T * BLOCKMAX /\ all \in Nat
  BY <1>1, <1>2, SoundBlocks, BlocksClimb
<1>4. T = 1 + BlocksTo(g)[Len(Parts[g])]
  <2>1. Len(Parts[g]) \in 1..Len(Parts[g]) /\ 1 <= Len(Parts[g])
    BY <1>1, FolderType
  <2>2. Place(g, 1, 1)
    BY <1>1, AtStart
  <2> HIDE DEF g, T
  <2> QED
    BY <1>1, <2>1, <2>2, OutOfBlocks DEF T
<1>5. NumBlocks(g) = T /\ T <= FOLDERMAX
  BY <1>1, <1>2, <1>4, LayoutAssumption DEF LayoutAssumption, NumBlocks
<1>6. T * BLOCKMAX <= LENGTHMAX /\ T * BLOCKMAX \in Nat
  <2> HIDE DEF T
  <2>1. FOLDERMAX - T \in Nat
    BY <1>1, <1>5
  <2>2. BLOCKMAX * FOLDERMAX = T * BLOCKMAX + BLOCKMAX * (FOLDERMAX - T)
        /\ BLOCKMAX * (FOLDERMAX - T) \in Nat /\ T * BLOCKMAX \in Nat
    BY <1>1, <2>1, Z3
  <2> HIDE DEF LENGTHMAX
  <2>3. LENGTHMAX = T * BLOCKMAX + BLOCKMAX * (FOLDERMAX - T)
    BY <2>2 DEF LENGTHMAX
  <2> QED
    BY <2>2, <2>3
<1> DEFINE most == T * BLOCKMAX
<1> HIDE DEF all, T, o, l
<1>7. o + l <= most /\ most \in Nat /\ most <= LENGTHMAX /\ LENGTHMAX \in Nat
  <2>1. LENGTHMAX \in Nat
    BY LengthType
  <2>2. most \in Nat /\ most <= LENGTHMAX /\ all <= most
    BY <1>3, <1>6
  <2> HIDE DEF most
  <2> QED
    BY <1>1, <1>2, <1>3, <2>1, <2>2
<1> HIDE DEF most
<1>8. ~(o > LENGTHMAX) /\ ~TooLong(f)
  <2>1. ~(o > LENGTHMAX) /\ ~(o + l > LENGTHMAX)
    BY <1>1, <1>7
  <2> QED
    BY <2>1 DEF TooLong, o, l
<1>9. ~BeyondBlocks(f)
  <2>1. FileLen(f) = l
    BY <1>8 DEF FileLen, l
  <2>2. ~(o + FileLen(f) > most)
    BY <1>1, <1>7, <2>1
  <2> QED
    BY <1>5, <2>2 DEF BeyondBlocks, most, o
<1> QED
  BY <1>8, <1>9 DEF o

LEMMA IntactReturns ==
  ASSUME Full, Full', Supplied, Undisturbed, [Next]_vars,
         NEW f \in File, Returns(f), Intact(f), SizeInTime(FileAt[f].folder), ~missed
  PROVE  error' = "OK"
<1>1. pc' = "idle" /\ call'.file = f /\ clean' /\ <<pc', call'>> # <<pc, call>>
  BY DEF Returns
<1>2. CASE Join \/ UNCHANGED vars
  BY <1>1, <1>2 DEF Join, vars
<1>3. ASSUME NEW h \in File, Refuse(h) PROVE FALSE
  <2>1. h = f
    BY <1>1, <1>3 DEF Refuse, Full, Inv, Shape
  <2> QED
    BY <1>3, <2>1, IntactWelcome DEF Refuse
<1>4. ASSUME NEW h \in File, RestartFails(h) PROVE FALSE
  BY <1>1, <1>4 DEF RestartFails, Fault
<1>5. ASSUME NEW h \in File, Start(h) PROVE error' = "OK"
  BY <1>1, <1>5 DEF Start, Fault
<1>6. CASE Steps
  <2>1. /\ UNCHANGED <<cabs, param>> /\ call'.file = call.file /\ pc # "idle" /\ clean
    BY <1>1, <1>6, StepsKeep DEF Full
  <2>2. d.folder = FileAt[call.file].folder /\ call.file = f
    BY <1>1, <2>1 DEF Full, Progress
  <2>3. Running
    BY <2>1, <2>2 DEF Running
  <2>4. Calm
    BY <1>1, <1>6, <2>3, StepCalm DEF Full
  <2> QED
    BY <1>1, <2>4 DEF Calm
<1> QED
  BY <1>2, <1>3, <1>4, <1>5, <1>6 DEF Next

-----------------------------------------------------------------------------
(* The theorems.                                                            *)

\* A codec that has failed with MSPACK_ERR_READ always finds in read_error what
\* cabd_extract is to return instead, so a failed extract() cannot come back
\* as MSPACK_ERR_OK.
THEOREM ReadErrorStays == Spec => []ReadErrorKept
<1>1. Inv => ReadErrorKept
  BY DEF Inv, ErrorsKept
<1> QED
  BY <1>1, InvInit, InvNext, PTL DEF Spec

\* A decoder that is set up reads from the cabinet of the segment it is in,
\* after any failure, restart or crossing of cabinets; with no segment left it
\* has no handle.
THEOREM HandleStaysInSegment == Spec => []HandleInSegment
<1>1. Inv => HandleInSegment
  BY DEF Inv, InFolder
<1> QED
  BY <1>1, InvInit, InvNext, PTL DEF Spec

\* A block put together from fragments in several cabinets never runs over
\* self->d->input, in either mode.
THEOREM InputAlwaysFits == Spec => []InputFits
<1>1. Inv => InputFits
  BY DEF Inv
<1> QED
  BY <1>1, InvInit, InvNext, PTL DEF Spec

\* What is written is right, for any folders, files, order of calls and failing
\* I/O: a block read entire is a block of the folder at its place, a decoder
\* makes bytes only from the units that belong to them, so a file's bytes are
\* its own, each in its place, and MSPACK_ERR_OK means that all are there.
THEOREM OutputStaysRight == Spec => []OutputRight
<1>1. Full => OutputRight
  BY DEF Full, OutputRight
<1> QED
  BY <1>1, FullInit, FullNext, PTL DEF Spec

\* A file in a folder that is complete and undamaged is extracted whenever no
\* I/O call fails, at whatever place in the folder earlier calls have left the
\* decoder: no frame asks for more input than its blocks hold, the size of a
\* short last frame is known in time, and the stream runs out for none.
THEOREM IntactFilesExtract == Spec => IntactExtracts
<1> DEFINE I == Full /\ Supplied /\ Undisturbed
<1>1. Init => I
  <2> SUFFICES ASSUME Init PROVE Supplied /\ Undisturbed
    BY FullInit
  <2>1. ~codec.init /\ pc = "idle"
    BY DEF Init, NewCodec
  <2> QED
    BY <2>1 DEF Supplied, Good, Undisturbed, Running
<1>2. I /\ [Next]_vars => I'
  BY FullNext, SuppliedNext, UndisturbedNext
<1>3. /\ I /\ I' /\ [Next]_vars
      => [\A f \in File : Returns(f) /\ Intact(f) /\ SizeInTime(FileAt[f].folder) /\ ~missed
            => error' = "OK"]_vars
  BY IntactReturns
<1> QED
  BY <1>1, <1>2, <1>3, PTL DEF Spec, IntactExtracts
=============================================================================
