----------------------------- MODULE CabExtract -----------------------------
(***************************************************************************)
(* cabd_extract and what it drives: the decompressor kept in self->d from  *)
(* one call to the next, the stream of data blocks that cabd_sys_read and  *)
(* cabd_sys_read_block serve it from the parts of a cabinet set, and the   *)
(* errors on their way back.  Calls interleave with append(), and opening, *)
(* seeking, reading and writing may fail.                                  *)
(*                                                                         *)
(* Abstracted: a unit of data is the number of its place in the stream, 0  *)
(* is a unit of damaged data.  MSZIP and LZX are what they ask of the      *)
(* stream: frame n needs the compressed data of block n, perhaps a bit     *)
(* more, and yields that block's output; once MSZIP has been given damaged *)
(* data, a frame yields as much as inflate makes of it.  Quantum and       *)
(* FIXMSZIP are left out, and so is merge_prev, which CabSets models: the  *)
(* first part of every folder here is there.                               *)
(***************************************************************************)
EXTENDS Integers, Sequences, FiniteSets

CONSTANTS
  Folder, File,
  Method,      \* [Folder -> Methods]
  FirstCab,    \* [Folder -> Nat]: the cabinet with the folder's first part
  Parts,       \* [Folder -> Seq(Seq(CFDATA))]: its data blocks, part by part
  FileAt,      \* [File -> [folder, offset, length]]
  Cabs,        \* how many cabinets the set has
  BLOCKMAX, INPUTMAX, INPUTMAX_SALVAGE, FOLDERMAX,
  Buffers,     \* the values of MSCABD_PARAM_DECOMPBUF
  MaxFaults,   \* bound: I/O calls that fail
  NULL

Methods == {"none", "mszip", "lzx"}
CFDATA  == [data : Seq(Nat), out : Nat, sum : BOOLEAN]
LENGTHMAX == BLOCKMAX * FOLDERMAX

ASSUME CabExtractAssumption ==
  /\ Method \in [Folder -> Methods]
  /\ Cabs \in Nat \ {0}
  /\ FirstCab \in [Folder -> 1..Cabs]
  /\ Parts \in [Folder -> Seq(Seq(CFDATA))]
  /\ \A g \in Folder : FirstCab[g] + Len(Parts[g]) - 1 \in FirstCab[g]..Cabs
  /\ FileAt \in [File -> [folder : Folder, offset : Nat, length : Nat]]
  /\ BLOCKMAX \in Nat \ {0} /\ FOLDERMAX \in Nat \ {0} /\ Buffers \subseteq Nat \ {0}
  /\ INPUTMAX \in Nat /\ INPUTMAX_SALVAGE \in Nat /\ INPUTMAX <= INPUTMAX_SALVAGE
  /\ MaxFaults \in Nat
  /\ NULL \notin Folder /\ NULL \notin File /\ NULL \notin Nat

VARIABLES
  cabs,     \* how many cabinets of the set have been joined so far
  param,    \* the parameters SALVAGE and DECOMPBUF, set when it was created
  d,        \* self->d, apart from the decompressor's own state
  codec,    \* self->d->state
  readErr,  \* self->read_error
  error,    \* self->error, what the last extract() returned
  call,     \* the locals of the extract() under way or last done
  out,      \* what it has written to its output file
  pc,       \* where it is
  faults,   \* I/O calls that have failed
  missed,   \* history: since the decoder was set up a read has failed
  clean     \* history: the last extract() met no failing I/O call, old or new

vars == <<cabs, param, d, codec, readErr, error, call, out, pc, faults, missed, clean>>

Errors == {"OK", "OPEN", "READ", "WRITE", "SEEK", "DATAFORMAT", "CHECKSUM", "DECRUNCH"}

\* infh is NULL or the number of the block it stands at; 0: somewhere else.
\* part is d->data, 0 for NULL; block stops counting at one past the end.
State == [folder : Folder \cup {NULL}, part : Nat, incab : Nat, infh : Nat \cup {NULL},
          offset : Nat, block : Nat, outlen : Nat, input : Seq(Nat)]

\* got: units of input received; frames, made: frames and output decoded, sent:
\* output written (o_end and o_ptr); need, size: input wanted for and size of the
\* frame begun, need = 0 if none; length: what lzxd_set_output_length said.
Codec == [init : BOOLEAN, error : Errors, got : Nat, junk : BOOLEAN, eof : BOOLEAN,
          frames : Nat, made : Nat, sent : Nat, need : Nat, size : Nat, length : Nat]

Call == [file : File \cup {NULL}, len : Nat, phase : {"skip", "write"}, want : Nat,
         todo : Nat, buf : Seq(Nat)]

TypeOK ==
  /\ cabs \in 1..Cabs
  /\ param \in [salvage : BOOLEAN, decompbuf : Buffers]
  /\ d \in State
  /\ codec \in Codec
  /\ readErr \in Errors \ {"WRITE"}
  /\ error \in Errors
  /\ call \in Call
  /\ out \in Seq(Nat)
  /\ pc \in {"idle", "decompress", "frames", "read", "block", "got"}
  /\ faults \in 0..MaxFaults
  /\ missed \in BOOLEAN /\ clean \in BOOLEAN

NewCodec(on) == [init |-> on, error |-> "OK", got |-> 0, junk |-> FALSE, eof |-> FALSE,
                 frames |-> 0, made |-> 0, sent |-> 0, need |-> 0, size |-> 0, length |-> 0]

Init ==
  /\ cabs = 1
  /\ param \in [salvage : BOOLEAN, decompbuf : Buffers]
  /\ d = [folder |-> NULL, part |-> 0, incab |-> 0, infh |-> NULL,
          offset |-> 0, block |-> 0, outlen |-> 0, input |-> <<>>]
  /\ codec = NewCodec(FALSE)
  /\ readErr = "OK" /\ error = "OK"
  /\ call = [file |-> NULL, len |-> 0, phase |-> "skip", want |-> 0,
             todo |-> 0, buf |-> <<>>]
  /\ out = <<>>
  /\ pc = "idle"
  /\ faults = 0 /\ missed = FALSE /\ clean = TRUE

MinOf(a, b) == IF a <= b THEN a ELSE b

-----------------------------------------------------------------------------
(* Folders and their parts.                                                 *)

\* the parts of folder g that have been joined
Loaded(g) == MinOf(Len(Parts[g]), cabs - FirstCab[g] + 1)

\* what the first i of a row of numbers add up to, for every i
SumTo(s) ==
  LET sum[i \in 0..Len(s)] == IF i = 0 THEN 0 ELSE sum[i - 1] + s[i]
  IN  sum

\* the blocks that the joined parts' headers announce, as cabd_merge adds them
BlocksTo(g) == SumTo([p \in DOMAIN Parts[g] |-> Len(Parts[g][p]) - 1])
NumBlocks(g) == 1 + BlocksTo(g)[Loaded(g)]

CabOf(g, p) == FirstCab[g] + p - 1

\* all the records of a folder in order; a block ends with one whose out # 0
FlatTo(g) ==
  LET cat[p \in 0..Len(Parts[g])] == IF p = 0 THEN <<>> ELSE cat[p - 1] \o Parts[g][p]
  IN  cat
Flat(g) == FlatTo(g)[Len(Parts[g])]

\* input and output of the first n blocks, and how many blocks there are
InputSum(g) == SumTo([i \in DOMAIN Flat(g) |-> Len(Flat(g)[i].data)])
OutputSum(g) == SumTo([i \in DOMAIN Flat(g) |-> Flat(g)[i].out])
Ends(g) == {i \in DOMAIN Flat(g) : Flat(g)[i].out # 0}
EndOf(g, n) == CHOOSE i \in Ends(g) : Cardinality({j \in Ends(g) : j <= i}) = n
InputTo(g, n) == IF n = 0 THEN 0 ELSE InputSum(g)[EndOf(g, n)]
OutputTo(g, n) == IF n = 0 THEN 0 ELSE OutputSum(g)[EndOf(g, n)]
Total(g) == Cardinality(Ends(g))

\* the output of the first n blocks, for any n
Yield(g, n) == OutputTo(g, MinOf(n, Total(g)))

\* A folder is laid out as the format has it: in every part but the last a
\* fragment comes last and only there, and no folder has more blocks than
\* can_merge lets it grow to.  A unit is 0 only where the checksum tells, and a
\* stored unit is in its place; what the codecs take is their own business.
LayoutAssumption ==
  \A g \in Folder :
    /\ \A p \in DOMAIN Parts[g] :
         /\ Parts[g][p] # <<>>
         /\ \A i \in DOMAIN Parts[g][p] :
              Parts[g][p][i].out = 0 <=> p < Len(Parts[g]) /\ i = Len(Parts[g][p])
    /\ 1 + BlocksTo(g)[Len(Parts[g])] <= FOLDERMAX
    /\ \A i \in DOMAIN Flat(g) : \A j \in DOMAIN Flat(g)[i].data :
         /\ Flat(g)[i].sum => Flat(g)[i].data[j] # 0
         /\ Method[g] = "none" => Flat(g)[i].data[j] \in {0, InputSum(g)[i - 1] + j}
ASSUME LayoutAssumption

Fault == faults < MaxFaults /\ faults' = faults + 1 /\ clean' = FALSE
NoFault == UNCHANGED <<faults, clean>>

-----------------------------------------------------------------------------
(* append(): the next cabinet of the set is joined.                         *)

Join ==
  /\ pc = "idle" /\ cabs < Cabs
  /\ cabs' = cabs + 1
  /\ UNCHANGED <<param, d, codec, readErr, error, call, out, pc, faults, missed, clean>>

-----------------------------------------------------------------------------
(* cabd_extract up to the first decompress() call.                          *)

Listed(f) == Loaded(FileAt[f].folder) >= 1

TooLong(f) == FileAt[f].offset + FileAt[f].length > LENGTHMAX

\* "in salvage mode reduce file length so it fits 2GB limit"
FileLen(f) == IF TooLong(f) THEN LENGTHMAX - FileAt[f].offset ELSE FileAt[f].length

\* "if file goes beyond what can be decoded"
BeyondBlocks(f) ==
  ~param.salvage /\ FileAt[f].offset + FileLen(f) > NumBlocks(FileAt[f].folder) * BLOCKMAX

Refuse(f) ==
  /\ pc = "idle" /\ Listed(f)
  /\ \/ /\ FileAt[f].offset > LENGTHMAX \/ (TooLong(f) /\ ~param.salvage)
        /\ error' = "DATAFORMAT"
     \/ /\ FileAt[f].offset <= LENGTHMAX /\ (TooLong(f) => param.salvage)
        /\ BeyondBlocks(f)
        /\ error' = "DECRUNCH"
  /\ call' = [call EXCEPT !.file = f, !.len = 0]
  /\ out' = <<>> /\ clean' = TRUE
  /\ UNCHANGED <<cabs, param, d, codec, readErr, pc, faults, missed>>

\* Mutant: the decoder can go back.
NeedsRestartFolderOnly(f) == d.folder # FileAt[f].folder \/ ~codec.init

\* "do we need to change folder or reset the current folder?"
NeedsRestart(f) ==
  d.folder # FileAt[f].folder \/ d.offset > FileAt[f].offset \/ ~codec.init

Accepted(f) ==
  /\ pc = "idle" /\ Listed(f)
  /\ FileAt[f].offset <= LENGTHMAX
  /\ TooLong(f) => param.salvage
  /\ ~BeyondBlocks(f)

\* Mutant: self->d->incab is left as it was.
RestartedSameCab(g) ==
  [folder |-> g, part |-> 1, incab |-> d.incab, infh |-> 1,
   offset |-> 0, block |-> 0, outlen |-> 0, input |-> <<>>]

Restarted(g) ==
  [folder |-> g, part |-> 1, incab |-> CabOf(g, 1), infh |-> 1,
   offset |-> 0, block |-> 0, outlen |-> 0, input |-> <<>>]

\* The old decompressor is gone; the cabinet does not open, or the seek fails.
RestartFails(f) ==
  LET first == CabOf(FileAt[f].folder, 1)
      reopen == d.infh = NULL \/ d.incab # first
  IN
  /\ Accepted(f) /\ NeedsRestart(f)
  /\ Fault
  /\ \/ reopen /\ error' = "OPEN" /\ d' = [d EXCEPT !.incab = first, !.infh = NULL]
     \/ error' = "SEEK" /\ d' = [d EXCEPT !.incab = first, !.infh = 0]
  /\ codec' = NewCodec(FALSE)
  /\ call' = [call EXCEPT !.file = f, !.len = 0]
  /\ out' = <<>>
  /\ UNCHANGED <<cabs, param, readErr, pc, missed>>

\* The decompressor is ready; the output file opens or not.
Start(f) ==
  LET g == FileAt[f].folder
      at == IF NeedsRestart(f) THEN 0 ELSE d.offset
      skip == FileAt[f].offset - at
  IN
  /\ Accepted(f)
  /\ IF NeedsRestart(f)
       THEN d' = Restarted(g) /\ codec' = NewCodec(TRUE)
            /\ readErr' = "OK" /\ missed' = FALSE
       ELSE UNCHANGED <<d, codec, readErr, missed>>
  /\ out' = <<>>
  /\ \/ /\ faults' = faults
        /\ clean' = (NeedsRestart(f) \/ codec.error = "OK")
        /\ error' = "OK"
        /\ call' = [file |-> f, len |-> FileLen(f),
                    phase |-> IF skip = 0 THEN "write" ELSE "skip",
                    want |-> IF skip = 0 THEN FileLen(f) ELSE skip,
                    todo |-> 0, buf |-> <<>>]
        /\ pc' = IF FileLen(f) = 0 THEN "idle" ELSE "decompress"
     \/ /\ Fault
        /\ error' = "OPEN"
        /\ call' = [call EXCEPT !.file = f, !.len = 0]
        /\ UNCHANGED pc
  /\ UNCHANGED <<cabs, param>>

-----------------------------------------------------------------------------
(* The ends of a decompress() call and of extract().                        *)

Phase(phase, want) ==
  [call EXCEPT !.phase = phase, !.want = want, !.todo = 0, !.buf = <<>>]

\* "if cabd_sys_read() has an error, it will set self->read_error and pass back
\* MSPACK_ERR_READ"
Mapped(e, re) == IF e = "READ" THEN re ELSE e

\* decompress() returns e and self->read_error is re.  After the first of two
\* calls "if getting to the correct offset was error free, unpack file".
Finish(e, re) ==
  LET m == Mapped(e, re)
  IN
  /\ readErr' = re
  /\ missed' = (missed \/ e = "READ")
  /\ error' = m
  /\ IF call.phase = "skip" /\ m = "OK"
       THEN call' = Phase("write", call.len) /\ pc' = "decompress"
       ELSE call' = Phase(call.phase, 0) /\ pc' = "idle"

\* cabd_sys_write with `data'
Write(data) ==
  /\ d' = [d EXCEPT !.offset = @ + Len(data)]
  /\ out' = IF call.phase = "write" THEN out \o data ELSE out

\* cabd_sys_write fails, with its offset already moved on.
WriteFails(n) ==
  /\ call.phase = "write" /\ Fault
  /\ d' = [d EXCEPT !.offset = @ + n]
  /\ UNCHANGED out

IsCodec == Method[d.folder] # "none"

\* The decompressor asks cabd_sys_read for n units.
Ask(n) ==
  /\ call' = [call EXCEPT !.todo = n, !.buf = <<>>]
  /\ pc' = "read"
  /\ UNCHANGED <<readErr, error, missed>>

-----------------------------------------------------------------------------
(* noned_decompress.                                                        *)

\* Mutant: one less.
RunLengthShort == MinOf(param.decompbuf, call.want) - 1

RunLength == MinOf(param.decompbuf, call.want)

NonedRun ==
  /\ pc = "decompress" /\ ~IsCodec
  /\ IF call.want > 0 THEN Ask(RunLength) ELSE Finish("OK", readErr)
  /\ UNCHANGED <<cabs, param, d, codec, out, faults, clean>>

\* cabd_sys_read has returned `run' units, and they are written; or fewer.
NonedWrite ==
  LET run == RunLength
  IN
  /\ pc = "got" /\ ~IsCodec
  /\ \/ /\ Len(call.buf) # run
        /\ Finish("READ", readErr)
        /\ NoFault /\ UNCHANGED <<d, out>>
     \/ /\ Len(call.buf) = run
        /\ NoFault
        /\ Write(call.buf)
        /\ call' = Phase(call.phase, call.want - Len(call.buf))
        /\ pc' = "decompress"
        /\ UNCHANGED <<readErr, error, missed>>
     \/ Len(call.buf) = run /\ WriteFails(run) /\ Finish("WRITE", readErr)
  /\ UNCHANGED <<cabs, param, codec>>

-----------------------------------------------------------------------------
(* mszipd_decompress, lzxd_decompress.                                      *)

IsLzx == Method[d.folder] = "lzx"

\* Mutant: what the last call has left is forgotten.
LeftoverLost == 0

Leftover == codec.made - codec.sent

\* MSZIP that has been given damaged data: "inflate a block" stops where the
\* data say so, and nothing compares what it made with the block's size.
Damaged == codec.junk /\ ~IsLzx

\* Where the next n units come from in the folder, whatever was made before.
Source(n) ==
  [i \in 1..n |-> IF Leftover < Yield(d.folder, codec.frames) + i
                    THEN Yield(d.folder, codec.frames) - Leftover + i ELSE 0]

\* What n units of output from position at on may be: once the input is
\* damaged they may be wrong, and right ones may come out in the wrong place.
Span(at, n) ==
  {[i \in 1..n |-> at + i]} \cup (IF codec.junk THEN {[i \in 1..n |-> 0]} ELSE {})
    \cup (IF Damaged THEN {Source(n)} ELSE {})

\* "easy answers", and "flush out any stored-up bytes before we begin"
CodecEnter ==
  LET i == MinOf(Leftover, call.want)
  IN
  /\ pc = "decompress" /\ IsCodec
  /\ \/ /\ codec.error # "OK" /\ Finish(codec.error, readErr)
        /\ NoFault /\ UNCHANGED <<d, codec, out>>
     \/ /\ codec.error = "OK"
        /\ \/ /\ NoFault /\ \E data \in Span(codec.sent, i) : Write(data)
              /\ codec' = [codec EXCEPT !.sent = @ + i]
              /\ IF i = call.want
                   THEN Finish("OK", readErr)
                   ELSE /\ call' = Phase(call.phase, call.want - i)
                        /\ pc' = "frames"
                        /\ UNCHANGED <<readErr, error, missed>>
           \/ /\ i > 0 /\ WriteFails(i) /\ Finish("WRITE", readErr)
              /\ codec' = [codec EXCEPT !.error = "WRITE"]
  /\ UNCHANGED <<cabs, param>>

\* "while (lzx->frame < end_frame)", "while (out_bytes > 0)"
WantsFrame ==
  IF IsLzx THEN codec.frames < (codec.sent + call.want) \div BLOCKMAX + 1 ELSE call.want > 0

\* The loop is done: "bytes left to output".
FramesDone ==
  /\ pc = "frames" /\ codec.need = 0 /\ ~WantsFrame
  /\ IF call.want > 0
       THEN codec' = [codec EXCEPT !.error = "DECRUNCH"] /\ Finish("DECRUNCH", readErr)
       ELSE UNCHANGED codec /\ Finish("OK", readErr)
  /\ UNCHANGED <<cabs, param, d, out, faults, clean>>

\* LZX reads the Intel header before it works out the size of the first frame.
HeaderRead == IsLzx => codec.got > 0

\* Mutant: every frame is a full one.
FrameSizeFull(n) == BLOCKMAX

\* "all frames are 32k except the final frame which is 32kb or less. this can
\* only be calculated when lzx->length has been filled in"; MSZIP learns the
\* size from the data.
FrameSize(n) ==
  IF ~IsLzx THEN IF n > Total(d.folder) THEN BLOCKMAX
                 ELSE OutputTo(d.folder, n) - OutputTo(d.folder, n - 1)
  ELSE IF codec.length = 0 THEN BLOCKMAX
  ELSE MinOf(BLOCKMAX, codec.length - codec.sent)

\* A frame longer than what is left of the stream asks for more than there is;
\* `ahead' is the bit buffer's look at the next word.
FrameNeed(n, ahead) ==
  LET g == d.folder
      last == MinOf(n, Total(g))
  IN  IF FrameSize(n) > OutputTo(g, last) - OutputTo(g, MinOf(n - 1, Total(g)))
        THEN InputTo(g, Total(g)) + 2
      ELSE IF n > Total(g) THEN InputTo(g, last) ELSE InputTo(g, last) + ahead

BeginFrame ==
  /\ pc = "frames" /\ codec.need = 0 /\ WantsFrame
  /\ \/ HeaderRead /\ \E ahead \in {0, 1} :
          /\ codec' = [codec EXCEPT !.need = FrameNeed(codec.frames + 1, ahead),
                                    !.size = FrameSize(codec.frames + 1)]
          /\ UNCHANGED <<call, pc, readErr, error, missed>>
     \/ ~HeaderRead /\ UNCHANGED codec /\ Ask(param.decompbuf)
  /\ UNCHANGED <<cabs, param, d, out, faults, clean>>

\* "READ_IF_NEEDED": a damaged block may go on where a sound one ends.
FrameInput ==
  /\ pc = "frames" /\ (codec.need > codec.got \/ (codec.need > 0 /\ Damaged))
  /\ Ask(param.decompbuf)
  /\ UNCHANGED <<cabs, param, d, codec, out, faults, clean>>

\* Damaged input decodes to something or to nothing.
FrameFails ==
  /\ pc = "frames" /\ codec.need > 0 /\ codec.junk
  /\ codec' = [codec EXCEPT !.error = "DECRUNCH"]
  /\ Finish("DECRUNCH", readErr)
  /\ UNCHANGED <<cabs, param, d, out, faults, clean>>

\* The frame can be decoded; a damaged one may end early, but takes some input.
Decodable ==
  codec.need > 0 /\ (codec.need <= codec.got \/ (Damaged /\ codec.frames < codec.got))

\* zip->bytes_output, lzx's frame_size
Sizes == {codec.size} \cup (IF Damaged THEN 0..BLOCKMAX ELSE {})

\* "write a frame"
FrameOut ==
  /\ pc = "frames" /\ Decodable
  /\ \E size \in Sizes :
       LET i == MinOf(size, call.want) IN
       \/ /\ NoFault
          /\ \E data \in Span(codec.made, i) : Write(data)
          /\ codec' = [codec EXCEPT !.frames = @ + 1, !.made = @ + size, !.sent = @ + i,
                                    !.need = 0, !.size = 0]
          /\ call' = Phase(call.phase, call.want - i)
          /\ UNCHANGED <<pc, readErr, error, missed>>
       \/ /\ i > 0 /\ WriteFails(i) /\ Finish("WRITE", readErr)
          /\ codec' = [codec EXCEPT !.error = "WRITE"]
  /\ UNCHANGED <<cabs, param>>

\* read_input: cabd_sys_read gave some input, or the end of it.
CodecReceive ==
  LET got == Len(call.buf)
      ok(c) == codec' = c /\ pc' = "frames" /\ UNCHANGED <<readErr, error, missed>>
  IN
  /\ pc = "got" /\ IsCodec
  /\ \/ got > 0 /\ ok([codec EXCEPT !.got = @ + got,
                                    !.junk = @ \/ \E i \in 1..got : call.buf[i] = 0])
        /\ call' = Phase(call.phase, call.want)
     \/ got = 0 /\ ~codec.eof /\ ok([codec EXCEPT !.got = @ + 1, !.eof = TRUE])
        /\ call' = Phase(call.phase, call.want)
     \/ got = 0 /\ codec.eof /\ codec' = [codec EXCEPT !.error = "READ"]
        /\ Finish("READ", readErr)
  /\ UNCHANGED <<cabs, param, d, out, faults, clean>>

-----------------------------------------------------------------------------
(* cabd_sys_read.                                                           *)

\* "copy as many input bytes available as possible"
ReadCopy ==
  LET n == MinOf(Len(d.input), call.todo)
  IN
  /\ pc = "read" /\ d.input # <<>>
  /\ call' = [call EXCEPT !.todo = @ - n, !.buf = @ \o SubSeq(d.input, 1, n)]
  /\ d' = [d EXCEPT !.input = SubSeq(@, n + 1, Len(@))]
  /\ pc' = IF call.todo = n THEN "got" ELSE "read"
  /\ UNCHANGED <<cabs, param, codec, readErr, error, out, faults, missed, clean>>

\* Mutant: running out of blocks is not recorded.
AtEndErrorKept == readErr

AtEndError == IF param.salvage THEN readErr ELSE "DATAFORMAT"

\* "check if we're out of input blocks, advance block counter"
ReadNext ==
  LET blocks == NumBlocks(d.folder)
  IN
  /\ pc = "read" /\ d.input = <<>>
  /\ d' = [d EXCEPT !.block = MinOf(@, blocks) + 1]
  /\ IF d.block >= blocks
       THEN pc' = "got" /\ readErr' = AtEndError
       ELSE pc' = "block" /\ UNCHANGED readErr
  /\ UNCHANGED <<cabs, param, codec, error, call, out, faults, missed, clean>>

\* cabd_sys_read_block has returned e: cabd_sys_read returns -1, which is a read
\* error for the decompressor.
BlockFails(e) ==
  /\ codec' = IF IsCodec THEN [codec EXCEPT !.error = "READ"] ELSE codec
  /\ Finish("READ", e)

\* "is this the last block?"
BlockDone(n) ==
  /\ readErr' = "OK"
  /\ codec' = IF IsLzx /\ d.block >= NumBlocks(d.folder)
                THEN [codec EXCEPT !.length = d.outlen + n] ELSE codec
  /\ pc' = "read"
  /\ UNCHANGED <<error, call, missed>>

-----------------------------------------------------------------------------
(* cabd_sys_read_block: one turn of its loop per step.                      *)

\* What the handle may stand at: a record of the part, or, after a read or a
\* seek that failed, bytes that only look like one.
Junk == {[data |-> <<0>>, out |-> 1, sum |-> TRUE],
         [data |-> <<0>>, out |-> 0, sum |-> TRUE],
         [data |-> <<0>>, out |-> 1, sum |-> FALSE]}

Records ==
  IF d.infh = NULL THEN {}
  ELSE IF d.infh \in DOMAIN Parts[d.folder][d.part] THEN {Parts[d.folder][d.part][d.infh]}
  ELSE Junk

\* Mutant: a split block's earlier fragment is not counted.
FullLenPart(r) == Len(r.data)

\* "include cab-spanning blocks"
FullLen(r) == Len(d.input) + Len(r.data)

Oversized(r) ==
  \/ FullLen(r) > INPUTMAX /\ (~param.salvage \/ FullLen(r) > INPUTMAX_SALVAGE)
  \/ r.out > BLOCKMAX /\ ~param.salvage

\* The handle is gone, or the read of the header or of the data fails.
BlockUnread ==
  /\ pc = "block"
  /\ \/ d.infh = NULL /\ NoFault /\ UNCHANGED d
     \/ d.infh = 0 /\ NoFault /\ UNCHANGED d
     \/ d.infh # NULL /\ Fault /\ d' = [d EXCEPT !.infh = 0]
  /\ BlockFails("READ")
  /\ UNCHANGED <<cabs, param, out>>

BlockRejected ==
  /\ pc = "block"
  /\ \E r \in Records :
       \/ Oversized(r) /\ BlockFails("DATAFORMAT") /\ d' = [d EXCEPT !.infh = 0]
       \/ /\ ~Oversized(r) /\ ~r.sum /\ ~param.salvage
          /\ BlockFails("CHECKSUM")
          /\ d' = [d EXCEPT !.infh = IF @ = 0 THEN 0 ELSE @ + 1]
  /\ UNCHANGED <<cabs, param, out, faults, clean>>

\* The record is taken; with it the block is complete.
BlockRead ==
  /\ pc = "block"
  /\ \E r \in Records :
       /\ ~Oversized(r) /\ (r.sum \/ param.salvage) /\ r.out # 0
       /\ d' = [d EXCEPT !.input = @ \o r.data, !.outlen = @ + r.out,
                         !.infh = IF @ = 0 THEN 0 ELSE @ + 1]
       /\ BlockDone(r.out)
  /\ UNCHANGED <<cabs, param, out, faults, clean>>

\* The record is a fragment: "advance to next cabinet".
BlockContinues ==
  LET next == IF d.part = 0 \/ d.part >= Loaded(d.folder) THEN 0 ELSE d.part + 1
      cabOfNext == CabOf(d.folder, next)
      moved(in) == [d EXCEPT !.input = in, !.part = next, !.infh = NULL]
  IN
  /\ pc = "block"
  /\ \E r \in Records :
       /\ ~Oversized(r) /\ (r.sum \/ param.salvage) /\ r.out = 0
       /\ LET in == d.input \o r.data IN
          \/ next = 0 /\ NoFault /\ d' = moved(in) /\ BlockFails("DATAFORMAT")
          \/ /\ next # 0 /\ Fault
             /\ \/ d' = [moved(in) EXCEPT !.incab = cabOfNext] /\ BlockFails("OPEN")
                \/ /\ d' = [moved(in) EXCEPT !.incab = cabOfNext, !.infh = 0]
                   /\ BlockFails("SEEK")
          \/ /\ next # 0 /\ NoFault
             /\ d' = [moved(in) EXCEPT !.incab = cabOfNext, !.infh = 1]
             /\ UNCHANGED <<codec, readErr, error, call, missed, pc>>
  /\ UNCHANGED <<cabs, param, out>>

-----------------------------------------------------------------------------
Steps ==
  \/ NonedRun \/ NonedWrite
  \/ CodecEnter \/ FramesDone \/ BeginFrame \/ FrameInput \/ FrameFails \/ FrameOut
  \/ CodecReceive
  \/ ReadCopy \/ ReadNext
  \/ BlockUnread \/ BlockRejected \/ BlockRead \/ BlockContinues

Next ==
  \/ Join
  \/ \E f \in File : Refuse(f) \/ RestartFails(f) \/ Start(f)
  \/ Steps

Spec == Init /\ [][Next]_vars

\* extract() is a plain call: it goes on by itself until it returns.
FairSpec == Spec /\ WF_vars(Steps)
-----------------------------------------------------------------------------
(* Properties.                                                              *)

Returned == pc = "idle" /\ call.file # NULL
Content(f) == [i \in 1..FileAt[f].length |-> FileAt[f].offset + i]

\* MSPACK_ERR_OK means that the output is the file, whatever was extracted
\* before, in whatever order, and whatever failed on the way, with one
\* exception: an uncompressed folder in which a read has failed.
ExactOrError ==
  Returned /\ error = "OK" /\ ~param.salvage =>
    \/ Method[FileAt[call.file].folder] = "none" /\ missed
    \/ out = Content(call.file)

\* The same without the exception.
OkMeansExact == Returned /\ error = "OK" /\ ~param.salvage => out = Content(call.file)

\* No more is ever written than the file is long, and nothing out of its place:
\* a call that fails leaves the beginning of the file, and salvage passes on
\* damaged data or loses the end.  Salvage shifts nothing either, until it has
\* given MSZIP damaged data, whose blocks it does not check for their size.
OutputInPlace ==
  call.file # NULL /\ ~(Method[FileAt[call.file].folder] = "none" /\ missed) =>
    /\ Len(out) <= FileAt[call.file].length
    /\ ~(Method[FileAt[call.file].folder] = "mszip" /\ codec.junk) =>
         \A i \in DOMAIN out : out[i] \in {0, Content(call.file)[i]}

\* The two together, in states that are well-typed: what a caller can rely on in
\* the file that extract() leaves behind.
OutputRight == TypeOK /\ ExactOrError /\ OutputInPlace

\* f's folder is joined and undamaged, and holds all of f.
Intact(f) ==
  LET g == FileAt[f].folder
  IN  /\ Loaded(g) = Len(Parts[g])
      /\ \A i \in DOMAIN Flat(g) : Flat(g)[i].sum /\ Flat(g)[i].out <= BLOCKMAX
      /\ \A n \in 1..Total(g) : InputTo(g, n) - InputTo(g, n - 1) <= INPUTMAX
      /\ Method[g] = "lzx" => \A n \in 0..Total(g) - 1 : OutputTo(g, n) = n * BLOCKMAX
      /\ Method[g] = "none" => InputTo(g, Total(g)) = OutputTo(g, Total(g))
      /\ FileAt[f].offset + FileAt[f].length <= OutputTo(g, Total(g))

\* LZX knows the size of a short last frame in time only if a read for an
\* earlier one has run into the last block.
SizeInTime(g) ==
  Method[g] = "lzx" /\ Total(g) > 1 => InputTo(g, Total(g) - 1) % param.decompbuf # 0

\* extract() returns from f, and no I/O call has failed
Returns(f) ==
  pc' = "idle" /\ call'.file = f /\ clean' /\ <<pc', call'>> # <<pc, call>>

\* A file whose folder is complete and undamaged is extracted, at whatever
\* place in the folder earlier calls have left the decoder.
IntactExtracts ==
  [][\A f \in File :
       Returns(f) /\ Intact(f) /\ SizeInTime(FileAt[f].folder) /\ ~missed
         => error' = "OK"]_vars

\* The same for every buffer size.
AnyBufferExtracts ==
  [][\A f \in File : Returns(f) /\ Intact(f) /\ ~missed => error' = "OK"]_vars

\* However a split block's fragments add up, they fit in self->d->input.
InputFits == Len(d.input) <= IF param.salvage THEN INPUTMAX_SALVAGE ELSE INPUTMAX

\* A decoder reads from the cabinet its data segment is in, and has no handle
\* once the segments have run out.
HandleInSegment ==
  codec.init /\ d.infh # NULL => d.part # 0 /\ d.incab = CabOf(d.folder, d.part)

\* A decoder that keeps returning MSPACK_ERR_READ has a read_error to be
\* replaced by: its failure never turns into MSPACK_ERR_OK.
ReadErrorKept == codec.error = "READ" /\ ~param.salvage => readErr # "OK"

\* Every extract() returns.
ExtractReturns == pc # "idle" ~> pc = "idle"
=============================================================================
