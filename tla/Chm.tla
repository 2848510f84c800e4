-------------------------------- MODULE Chm --------------------------------
(***************************************************************************)
(* chmd_extract of chmd.c: help files opened and closed in any order, the  *)
(* decoder state that self->d keeps from one call to the next, the system  *)
(* files that tell where decoding can start, the LZX stream that is        *)
(* entered at a reset point or continued, and I/O and allocations that     *)
(* fail anywhere.                                                          *)
(*                                                                         *)
(* Abstracted: a unit of a section is the number of its place in it, 0 is  *)
(* a unit of damaged data.  The compressed stream is what LZX asks of it:  *)
(* how many units the frames before each frame's end take.  What fast_find *)
(* does to find a system file is in ChmFind.                               *)
(***************************************************************************)
EXTENDS Integers, Sequences, FiniteSets

CONSTANTS
  Helpfile,    \* the addresses of mschmd_headers
  Image,       \* [name -> help file on disk]
  Opens,       \* [Helpfile -> the names that are opened as it]
  FRAME,       \* LZX_FRAME_SIZE
  BUFFER,      \* the decoder's input buffer of 4096 bytes
  MaxFaults,   \* bound: calls to mspack_system that fail
  AWAY, NULL

SysFile == {"content", "control", "rtable", "spaninfo"}
Images == DOMAIN Image

\* has: the system files in the directory.  control: what ControlData is good
\* for.  rtable: whether it is in section 0, the uncompressed length and the
\* offsets of the frames that it states; an empty one is unusable.  span: the
\* length in SpanInfo, 0 if that is unusable.  frames: where the frames really
\* end in the compressed stream; bad: those that are damaged.  behind, header: how
\* much of the disk's file is behind the stream and how much of it, as the Intel
\* header of one more reset interval, is read.  interval is in frames.
Disk ==
  [has : SUBSET SysFile, control : {"OK", "SIGNATURE", "DATAFORMAT"}, interval : Nat \ {0},
   rtable : [sec0 : BOOLEAN, length : Nat, offsets : Seq(Nat)], span : Nat,
   frames : Seq(Nat), bad : SUBSET Nat, behind : Nat, header : {1, 3},
   files : SUBSET [section : {0, 1}, offset : Nat, length : Nat]]

ASSUME ChmAssumption ==
  /\ \A img \in Images :
       /\ Image[img] \in Disk
       /\ \A i, j \in DOMAIN Image[img].frames : i <= j => Image[img].frames[i] <= Image[img].frames[j]
  /\ Opens \in [Helpfile -> SUBSET Images]
  /\ FRAME \in Nat \ {0} /\ BUFFER \in Nat \ {0} /\ MaxFaults \in Nat
  /\ NULL \notin Helpfile /\ NULL \notin Images /\ AWAY \notin Nat
  /\ NULL \notin [image : Images, loaded : SUBSET SysFile]
  /\ NULL \notin [section : {0, 1}, offset : Nat, length : Nat]

VARIABLES
  chm,     \* the open help files: NULL, or the name and the system files found
  d,       \* self->d: chm (NULL: there is none), offset, inoffset, infh
  codec,   \* self->d->state
  pos,     \* where infh stands in the compressed stream, or AWAY from it
  error,   \* self->error
  call,    \* the arguments and locals of the extract() under way or last done
  out,     \* what it has written to its output file
  pc,
  faults,
  clean    \* history: nothing has failed in this call

vars == <<chm, d, codec, pos, error, call, out, pc, faults, clean>>

Errors == {"OK", "OPEN", "READ", "WRITE", "SEEK", "NOMEMORY", "SIGNATURE", "DATAFORMAT", "DECRUNCH"}
Files == UNION {Image[img].files : img \in Images}

Decompress == [chm : Helpfile \cup {NULL}, offset : Nat, inoffset : Nat \cup {AWAY},
               infh : Images \cup {NULL}]

\* entry: the frame it was started at; got: units of input it has been given since,
\* all in order unless junk; eof: one was made up; frames, made: frames and output
\* decoded, sent: output written; need, size: for the frame begun, need = 0 if none.
Codec == [on : BOOLEAN, entry : Nat, length : Nat, got : Nat, junk : BOOLEAN, eof : BOOLEAN,
          frames : Nat, made : Nat, sent : Nat, need : Nat, size : Nat]

\* entry, length, offset: the locals of chmd_init_decomp
Call == [chm : Helpfile \cup {NULL}, image : Images \cup {NULL}, file : Files \cup {NULL},
         want : Nat, writing : BOOLEAN, entry : Nat, length : Nat, offset : Nat]

TypeOK ==
  /\ chm \in [Helpfile -> [image : Images, loaded : SUBSET SysFile] \cup {NULL}]
  /\ d \in Decompress /\ codec \in Codec
  /\ pos \in Nat \cup {AWAY} /\ error \in Errors
  /\ call \in Call
  /\ out \in Seq(Nat)
  /\ pc \in {"idle", "copy", "content", "control", "controldata", "rtable", "rtabledata",
             "spaninfo", "spandata", "init", "seek", "decompress", "frames"}
  /\ faults \in 0..MaxFaults /\ clean \in BOOLEAN

NoCodec == [on |-> FALSE, entry |-> 0, length |-> 0, got |-> 0, junk |-> FALSE, eof |-> FALSE,
            frames |-> 0, made |-> 0, sent |-> 0, need |-> 0, size |-> 0]
NoState == [chm |-> NULL, offset |-> 0, inoffset |-> 0, infh |-> NULL]
NoCall == [chm |-> NULL, image |-> NULL, file |-> NULL, want |-> 0, writing |-> FALSE,
           entry |-> 0, length |-> 0, offset |-> 0]

Init ==
  /\ chm = [c \in Helpfile |-> NULL]
  /\ d = NoState /\ codec = NoCodec /\ pos = AWAY
  /\ error = "OK" /\ call = NoCall /\ out = <<>> /\ pc = "idle"
  /\ faults = 0 /\ clean = TRUE

MinOf(a, b) == IF a <= b THEN a ELSE b

Fault == faults < MaxFaults /\ faults' = faults + 1 /\ clean' = FALSE
NoFault == UNCHANGED <<faults, clean>>
Begins == faults' = faults /\ clean' = TRUE

\* the help file on disk that the call is about
disk == Image[call.image]

-----------------------------------------------------------------------------
(* chmd_open, chmd_fast_open and chmd_close.                                *)

\* chmd_read_headers has filled in the system files only if "entire".
Open(c, img) ==
  /\ pc = "idle" /\ chm[c] = NULL
  /\ \E loaded \in {{}, Image[img].has} :
       chm' = [chm EXCEPT ![c] = [image |-> img, loaded |-> loaded]]
  /\ error' = "OK" /\ call' = NoCall /\ out' = <<>>
  /\ UNCHANGED <<d, codec, pos, pc, faults, clean>>

OpenFails(c) ==
  /\ pc = "idle" /\ chm[c] = NULL
  /\ Fault /\ error' \in {"OPEN", "NOMEMORY", "READ", "SEEK"}
  /\ call' = NoCall /\ out' = <<>>
  /\ UNCHANGED <<chm, d, codec, pos, pc>>

\* "if this CHM was being decompressed, free decompression state"
Dropped(c) ==
  IF d.chm = c THEN d' = NoState /\ codec' = NoCodec /\ pos' = AWAY
               ELSE UNCHANGED <<d, codec, pos>>

Close(c) ==
  /\ pc = "idle" /\ chm[c] # NULL
  /\ chm' = [chm EXCEPT ![c] = NULL]
  /\ Dropped(c)
  /\ error' = "OK" /\ call' = NoCall /\ out' = <<>>
  /\ UNCHANGED <<pc, faults, clean>>

-----------------------------------------------------------------------------
(* chmd_extract.                                                            *)

\* "return self->error"
Return(e) == pc' = "idle" /\ error' = e

\* Mutants: the input file stays open; an advanced decoder goes on.
ReopensNever(c) == d.chm = NULL \/ d.infh = NULL

BacktracksNever(c, f) == ~codec.on

\* "open input chm file if not open, or the open one is a different chm"
Reopens(c) == d.chm = NULL \/ d.infh = NULL \/ d.chm # c

\* "if it is not yet initialised, or we have advanced too far and have to backtrack"
Restarts(c, f) == ~codec.on \/ f.offset < d.offset

\* chmd_extract up to its switch.  inoffset is not set before it is used.
Start(c, f) ==
  LET img == chm[c].image
      opened(name) == [chm |-> c, offset |-> 0, inoffset |-> d.inoffset, infh |-> name]
      input(name) == IF Reopens(c) THEN d' = opened(name) /\ pos' = AWAY
                                   ELSE UNCHANGED <<d, pos>>
      kept == codec' = IF Reopens(c) THEN NoCodec ELSE codec
      fresh == Reopens(c) \/ Restarts(c, f)
  IN
  /\ pc = "idle" /\ chm[c] # NULL /\ f \in Image[img].files
  /\ call' = [NoCall EXCEPT !.chm = c, !.image = img, !.file = f] /\ out' = <<>>
  /\ \/ d.chm = NULL /\ Fault /\ Return("NOMEMORY") /\ UNCHANGED <<d, codec, pos>>
     \/ Reopens(c) /\ Fault /\ Return("OPEN") /\ input(NULL) /\ kept
     \/ Fault /\ Return("OPEN") /\ input(img) /\ kept
     \/ /\ Begins /\ input(img)
        /\ \/ f.length = 0 /\ Return("OK") /\ kept
           \/ f.length > 0 /\ f.section = 0 /\ pc' = "copy" /\ error' = "OK" /\ kept
           \/ /\ f.length > 0 /\ f.section = 1 /\ error' = "OK"
              /\ IF fresh THEN pc' = "content" /\ codec' = NoCodec
                          ELSE pc' = "seek" /\ UNCHANGED codec
  /\ UNCHANGED chm

\* the file as it should be
Expected == [i \in 1..call.file.length |-> call.file.offset + i]

\* n units from place `from' of the section; damaged ones may be right all the same
Units(from, n, junk) ==
  {[i \in 1..n |-> from + i]} \cup
    IF junk \/ d.infh # call.image THEN {[i \in 1..n |-> 0]} ELSE {}

\* "simple seek + copy"
Copy ==
  /\ pc = "copy"
  /\ pos' = AWAY
  /\ \E data \in Units(call.file.offset, call.file.length, FALSE) :
       \/ NoFault /\ out' = data /\ Return("OK")
       \/ Fault /\ out' = <<>> /\ Return("SEEK")
       \/ /\ Fault /\ \E e \in {"READ", "WRITE"} : Return(e)
          /\ \E m \in 0..Len(data) - 1 : out' = SubSeq(data, 1, m)
  /\ UNCHANGED <<chm, d, codec, call>>

-----------------------------------------------------------------------------
(* chmd_init_decomp, which ends at a `break' when it has failed.            *)

Goto(x) == pc' = x /\ UNCHANGED error

\* find_sys_file(x) returns r and leaves e in self->error.  fast_find sets it in all
\* cases but one, find_sys_file in none.
Find(x, r, e) ==
  \/ /\ x \in chm[call.chm].loaded
     /\ r = "OK" /\ e = error /\ NoFault /\ UNCHANGED chm
  \/ /\ x \notin chm[call.chm].loaded /\ x \in disk.has
     /\ r = "OK" /\ e = "OK" /\ NoFault
     /\ chm' = [chm EXCEPT ![call.chm].loaded = @ \cup {x}]
  \/ /\ x \notin chm[call.chm].loaded /\ x \notin disk.has
     /\ r = "DATAFORMAT" /\ e = "OK" /\ NoFault /\ UNCHANGED chm
  \/ /\ x \notin chm[call.chm].loaded /\ Fault /\ UNCHANGED chm
     /\ \/ r = "DATAFORMAT" /\ e \in {error, "NOMEMORY", "SEEK", "READ", "DATAFORMAT"}
        \/ x \in disk.has /\ r = "NOMEMORY" /\ e = "OK"

\* what read_sys_file leaves in self->error when it fails on a section 0 file
ReadErrors == {"NOMEMORY", "SEEK", "READ"}

InitContent ==
  /\ pc = "content"
  /\ \E r, e \in Errors : Find("content", r, e)
                            /\ IF r = "OK" THEN pc' = "control" /\ error' = e ELSE Return(r)
  /\ UNCHANGED <<d, codec, pos, call, out>>

InitControl ==
  /\ pc = "control"
  /\ \E r, e \in Errors : Find("control", r, e)
                            /\ IF r = "OK" THEN pc' = "controldata" /\ error' = e ELSE Return(r)
  /\ UNCHANGED <<d, codec, pos, call, out>>

ReadControl ==
  /\ pc = "controldata" /\ pos' = AWAY
  /\ \/ NoFault /\ (IF disk.control = "OK" THEN Goto("rtable") ELSE Return(disk.control))
     \/ Fault /\ \E e \in ReadErrors : Return(e)
  /\ UNCHANGED <<chm, d, codec, call, out>>

\* "if we can't read the reset table entry, just start from the beginning"
FindTable ==
  /\ pc = "rtable"
  /\ \E r, e \in Errors :
       Find("rtable", r, e) /\ error' = e
         /\ pc' = IF r = "OK" THEN "rtabledata" ELSE "spaninfo"
  /\ UNCHANGED <<d, codec, pos, call, out>>

\* Mutant: the length is taken as it is.
PaddedNot(length) == length

\* "the uncompressed data is always padded out from the given uncompressed length
\* up to the next reset interval", which is a power of two
Padded(length) ==
  LET reset == disk.interval * FRAME IN ((length + reset - 1) \div reset) * reset

\* read_reset_table: the error of a table that cannot be read stays in self->error.
ReadTable ==
  LET entry == (call.file.offset \div (disk.interval * FRAME)) * disk.interval
      offsets == disk.rtable.offsets
  IN
  /\ pc = "rtabledata"
  /\ \/ ~disk.rtable.sec0 /\ NoFault /\ pc' = "spaninfo" /\ error' = "DATAFORMAT"
        /\ UNCHANGED <<pos, call>>
     \/ /\ disk.rtable.sec0 /\ Fault /\ pos' = AWAY
        /\ pc' = "spaninfo" /\ error' \in ReadErrors /\ UNCHANGED call
     \/ /\ disk.rtable.sec0 /\ NoFault /\ pos' = AWAY
        /\ IF entry < Len(offsets)
             THEN /\ Goto("init")
                  /\ call' = [call EXCEPT !.entry = entry, !.offset = offsets[entry + 1],
                                          !.length = Padded(disk.rtable.length)]
             ELSE Goto("spaninfo") /\ UNCHANGED call
  /\ UNCHANGED <<chm, d, codec, out>>

FindSpanInfo ==
  /\ pc = "spaninfo"
  /\ \E r, e \in Errors :
       Find("spaninfo", r, e)
         /\ IF r = "OK" THEN pc' = "spandata" /\ error' = e ELSE Return("DATAFORMAT")
  /\ UNCHANGED <<d, codec, pos, call, out>>

ReadSpanInfo ==
  /\ pc = "spandata" /\ pos' = AWAY
  /\ \/ Fault /\ (\E e \in ReadErrors : Return(e)) /\ UNCHANGED call
     \/ NoFault /\ disk.span = 0 /\ Return("DATAFORMAT") /\ UNCHANGED call
     \/ /\ NoFault /\ disk.span > 0 /\ Goto("init")
        /\ call' = [call EXCEPT !.entry = 0, !.offset = 0, !.length = disk.span]
  /\ UNCHANGED <<chm, d, codec, out>>

\* where n frames of a stream end
EndOf(frames, n) == IF n = 0 \/ frames = <<>> THEN 0 ELSE frames[MinOf(n, Len(frames))]
InputTo(n) == EndOf(disk.frames, n)

\* "initialise LZX stream"; "return self->error", which may be older than this.
InitStream ==
  LET length == call.length - call.entry * FRAME IN
  /\ pc = "init"
  /\ d' = [d EXCEPT !.offset = call.entry * FRAME, !.inoffset = call.offset]
  /\ \/ length < 0 /\ NoFault /\ Return("NOMEMORY") /\ UNCHANGED codec
     \/ Fault /\ Return("NOMEMORY") /\ UNCHANGED codec
     \/ /\ length >= 0 /\ NoFault
        /\ codec' = [NoCodec EXCEPT !.on = TRUE, !.entry = call.entry, !.length = length,
                                    !.junk = call.offset # InputTo(call.entry)]
        /\ Goto(IF error = "OK" THEN "seek" ELSE "idle")
  /\ call' = [call EXCEPT !.entry = 0, !.offset = 0, !.length = 0]
  /\ UNCHANGED <<chm, pos, out>>

-----------------------------------------------------------------------------
(* The rest of chmd_extract, and lzxd_decompress.                           *)

Phase(writing, want) == [call EXCEPT !.writing = writing, !.want = want]

\* "seek to input data", "get to correct offset"; to 0 bytes further is to it.
Seek ==
  LET bytes == call.file.offset - d.offset IN
  /\ pc = "seek"
  /\ \/ Fault /\ Return("SEEK") /\ pos' = AWAY /\ UNCHANGED call
     \/ /\ NoFault /\ pos' = d.inoffset /\ Goto("decompress")
        /\ call' = IF bytes # 0 THEN Phase(FALSE, bytes) ELSE Phase(TRUE, call.file.length)
  /\ UNCHANGED <<chm, d, codec, out>>

\* Mutant: the place in the stream is not saved.
SavedNot(dd, p) == dd

\* "save offset in input source stream"
Saved(dd, p) == [dd EXCEPT !.inoffset = p]

\* lzxd_decompress has failed: "the LZX decompressor is now useless".
Useless(e, dd, p) == d' = Saved(dd, p) /\ codec' = NoCodec /\ Return(e) /\ UNCHANGED call

\* lzxd_decompress has returned MSPACK_ERR_OK: for the units before the file, or
\* for the file.
Done(dd, cc) ==
  /\ codec' = cc
  /\ IF call.writing
       THEN d' = Saved(dd, pos) /\ Return("OK") /\ call' = Phase(TRUE, 0)
       ELSE d' = dd /\ Goto("decompress") /\ call' = Phase(TRUE, call.file.length)

\* chmd_sys_write
Write(data) == out' = IF call.writing THEN out \o data ELSE out
Advanced(n) == [d EXCEPT !.offset = @ + n]

\* A write of n units has failed, perhaps after some of them.
WriteFails(data) ==
  /\ call.writing /\ Fault
  /\ \E m \in 0..Len(data) - 1 : out' = out \o SubSeq(data, 1, m)
  /\ Useless("WRITE", Advanced(Len(data)), pos)

\* the place in section 1 of a place in the decoder's output
Place(n) == codec.entry * FRAME + n

\* "flush out any stored-up bytes before we begin"
Enter ==
  LET i == MinOf(codec.made - codec.sent, call.want) IN
  /\ pc = "decompress"
  /\ \E data \in Units(Place(codec.sent), i, codec.junk) :
       \/ /\ NoFault /\ Write(data)
          /\ IF i = call.want
               THEN Done(Advanced(i), [codec EXCEPT !.sent = @ + i])
               ELSE /\ d' = Advanced(i) /\ codec' = [codec EXCEPT !.sent = @ + i]
                    /\ call' = Phase(call.writing, call.want - i) /\ Goto("frames")
       \/ i > 0 /\ WriteFails(data)
  /\ UNCHANGED <<chm, pos>>

\* "while (lzx->frame < end_frame)"
WantsFrame == codec.frames < (codec.sent + call.want) \div FRAME + 1

\* "bytes left to output"
FramesDone ==
  /\ pc = "frames" /\ codec.need = 0 /\ ~WantsFrame
  /\ IF call.want > 0 THEN Useless("DECRUNCH", d, pos) ELSE Done(d, codec)
  /\ UNCHANGED <<chm, pos, out, faults, clean>>

Frame == codec.entry + codec.frames
AtReset == codec.frames % disk.interval = 0

\* "all frames are 32k except the final frame which is 32kb or less"
FrameSize == IF codec.length = 0 THEN FRAME ELSE MinOf(FRAME, codec.length - codec.sent)

\* The Intel header of the interval behind the stream is what lies there.
Header == IF Frame >= Len(disk.frames) /\ disk.behind > 0 THEN disk.header ELSE 1

\* How much of the stream has been asked for when the frame is decoded: all of the
\* frame, or some of it if it is cut short, and perhaps the next word; behind the
\* end only the header.  Damaged data ask for anything.
FrameNeeds ==
  LET next == InputTo(Frame + 1)
      all == InputTo(Len(disk.frames))
      upto == IF codec.junk THEN 1..all + disk.behind + 2
              ELSE IF FrameSize = 0
                THEN {InputTo(Frame) + IF AtReset THEN Header ELSE 0}
              ELSE IF Frame >= Len(disk.frames) THEN all + 1..all + disk.behind + 2
              ELSE IF FrameSize < FRAME THEN InputTo(Frame) + 1..next + 1
              ELSE {next, next + 1}
  IN  {u - InputTo(codec.entry) : u \in upto}

BeginFrame ==
  /\ pc = "frames" /\ codec.need = 0 /\ WantsFrame
  /\ \E need \in FrameNeeds :
       codec' = [codec EXCEPT !.need = IF need < 1 THEN 1 ELSE need, !.size = FrameSize,
                   !.junk = @ \/ Frame \in disk.bad \/ (FrameSize > 0 /\ Frame >= Len(disk.frames))]
  /\ UNCHANGED <<chm, d, pos, error, call, out, pc, faults, clean>>

\* read_input
Input ==
  LET all == InputTo(Len(disk.frames)) + disk.behind
      n == IF pos = AWAY THEN BUFFER ELSE IF pos > all THEN 0 ELSE MinOf(BUFFER, all - pos)
      inOrder == pos = InputTo(codec.entry) + codec.got
  IN
  /\ pc = "frames" /\ codec.need > codec.got
  /\ \/ /\ n > 0 /\ NoFault
        /\ codec' = [codec EXCEPT !.got = @ + n, !.junk = @ \/ ~inOrder]
        /\ pos' = IF pos = AWAY THEN AWAY ELSE pos + n
        /\ UNCHANGED <<d, call, pc, error>>
     \/ /\ n = 0 /\ ~codec.eof /\ NoFault
        /\ codec' = [codec EXCEPT !.got = @ + 1, !.eof = TRUE]
        /\ UNCHANGED <<d, pos, call, pc, error>>
     \/ n = 0 /\ codec.eof /\ NoFault /\ Useless("READ", d, pos) /\ UNCHANGED pos
     \/ Fault /\ Useless("READ", d, AWAY) /\ pos' = AWAY
  /\ UNCHANGED <<chm, out>>

\* Damaged data, and a match over the end of a frame that is cut short
FrameFails ==
  /\ pc = "frames" /\ codec.need > 0
  /\ codec.junk \/ (codec.size < FRAME /\ codec.size > 0)
  /\ Useless("DECRUNCH", d, pos)
  /\ UNCHANGED <<chm, pos, out, faults, clean>>

\* "write a frame"
FrameOut ==
  LET i == MinOf(codec.size, call.want) IN
  /\ pc = "frames" /\ codec.need > 0 /\ codec.need <= codec.got
  /\ \E data \in Units(Place(codec.made), i, codec.junk) :
       \/ /\ NoFault /\ Write(data)
          /\ d' = Advanced(i)
          /\ codec' = [codec EXCEPT !.frames = @ + 1, !.made = @ + codec.size, !.sent = @ + i,
                                    !.need = 0, !.size = 0]
          /\ call' = Phase(call.writing, call.want - i)
          /\ UNCHANGED <<pc, error>>
       \/ i > 0 /\ WriteFails(data)
  /\ UNCHANGED <<chm, pos>>
-----------------------------------------------------------------------------
Steps ==
  \/ Copy \/ InitContent \/ InitControl \/ ReadControl \/ FindTable \/ ReadTable
  \/ FindSpanInfo \/ ReadSpanInfo \/ InitStream
  \/ Seek \/ Enter \/ FramesDone \/ BeginFrame \/ Input \/ FrameFails \/ FrameOut

Next ==
  \/ \E c \in Helpfile : \/ \E img \in Opens[c] : Open(c, img)
                         \/ OpenFails(c) \/ Close(c)
                         \/ \E f \in Files : Start(c, f)
  \/ Steps

Spec == Init /\ [][Next]_vars
-----------------------------------------------------------------------------
(* Properties.                                                              *)

Returned == pc = "idle" /\ call.file # NULL

Total == Len(disk.frames) * FRAME

\* The file is in the stream, of which nothing is damaged, and the reset table does
\* not lie about offsets.
Sound(f) ==
  /\ f.section = 1 => f.offset + f.length <= Total
  /\ disk.bad = {}
  /\ \A n \in DOMAIN disk.rtable.offsets : disk.rtable.offsets[n] = InputTo(n - 1)

\* What is written is at every moment the beginning of the file that was asked for,
\* whatever was extracted before, from this help file or another, and whatever
\* failed; and MSPACK_ERR_OK means all of it.
OutputInPlace ==
  /\ TypeOK
  /\ call.file # NULL /\ Sound(call.file) =>
       /\ Len(out) <= call.file.length /\ out = SubSeq(Expected, 1, Len(out))
       /\ pc = "idle" /\ error = "OK" => out = Expected

\* A help file that has all it takes: system files that can be read and tell the
\* true length of the stream, each of them (a decoder that was set up from SpanInfo
\* because the reset table could not be read stays), and behind it no half of an
\* Intel header.  What the reset table says is padded to a whole interval, so the
\* stream has to be.
Usable(img) ==
  LET dk == Image[img]
      total == Len(dk.frames) * FRAME
      hasTable == "rtable" \in dk.has /\ dk.rtable.offsets # <<>>
  IN
  /\ {"content", "control"} \subseteq dk.has /\ dk.control = "OK"
  /\ ~(dk.behind = 1 /\ dk.header = 3)
  /\ "rtable" \in dk.has => dk.rtable.sec0
  /\ hasTable => /\ Len(dk.rtable.offsets) = Len(dk.frames)
                 /\ Len(dk.frames) % dk.interval = 0
                 /\ dk.rtable.length \in total - dk.interval * FRAME + 1..total
  /\ ~hasTable => "spaninfo" \in dk.has /\ dk.span = total
  /\ "spaninfo" \in dk.has => dk.span \in {0, total}

Intact(f) == f.section = 0 \/ (Sound(f) /\ Usable(call.image))

\* An intact file is extracted whenever nothing fails in the call, whatever was
\* extracted before and whatever failed then.
IntactExtracts == Returned /\ clean /\ Intact(call.file) => error = "OK"

\* The decoder's state belongs to a help file that is open, and its handle is on
\* the file of that one.
DecoderOwned ==
  /\ d.chm # NULL => chm[d.chm] # NULL /\ d.infh \in {NULL, chm[d.chm].image}
  /\ codec.on => d.infh # NULL

\* Also between two calls the saved place in the input is where the decoder's input
\* goes on, and d->offset is where its output does.
DecoderInStep ==
  /\ DecoderOwned
  /\ pc = "idle" /\ codec.on =>
    /\ d.offset = codec.entry * FRAME + codec.sent
    /\ ~codec.junk => d.inoffset + (IF codec.eof THEN 1 ELSE 0)
                        = EndOf(Image[d.infh].frames, codec.entry) + codec.got
=============================================================================
