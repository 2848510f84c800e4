------------------------------ MODULE ChmProofs ------------------------------
(***************************************************************************)
(* The decoder that chmd_extract keeps from call to call belongs to an     *)
(* open help file, and the place saved with it is where its input and its  *)
(* output go on; and what is written for a file that is sound is that      *)
(* file: for any help files, any number of them open at once, any size of  *)
(* frames and of the buffer and any number of failures; and an intact file *)
(* is extracted whenever nothing fails in the call.                        *)
(***************************************************************************)
EXTENDS Chm, TLAPS

\* The types of what the invariant calculates with.
Headers == [Helpfile -> [image : Images, loaded : SUBSET SysFile] \cup {NULL}]
States == [chm : Helpfile \cup {NULL}, offset : Int, inoffset : Nat \cup {AWAY},
           infh : Images \cup {NULL}]
Codecs == [on : BOOLEAN, entry : Nat, length : Int, got : Int, junk : BOOLEAN, eof : BOOLEAN,
           frames : Nat, made : Int, sent : Int, need : Int, size : Int]
Calls == [chm : Helpfile \cup {NULL}, image : Images \cup {NULL}, file : Files \cup {NULL},
          want : Int, writing : BOOLEAN, entry : Nat, length : Int, offset : Nat]

Typed ==
  /\ chm \in Headers /\ d \in States /\ codec \in Codecs
  /\ call \in Calls /\ pos \in Nat \cup {AWAY}

\* The call under way has its help file open, and its handle.
InCall ==
  pc # "idle" =>
    /\ call.chm \in Helpfile /\ d.chm = call.chm /\ call.file \in Files
    /\ chm[call.chm] # NULL
    /\ call.image = chm[call.chm].image /\ d.infh = call.image

Decoding == pc \in {"decompress", "frames"}

\* The decoder is set up before it is used and only then.
DecoderUp ==
  /\ pc \in {"seek", "decompress", "frames"} => codec.on
  /\ pc \in {"content", "control", "controldata", "rtable", "rtabledata",
             "spaninfo", "spandata", "init"} => ~codec.on

\* Where the input of the decoder goes on: at the handle's place while it decodes,
\* else at the saved one.
At == IF Decoding THEN pos ELSE d.inoffset

InStep ==
  codec.on =>
    /\ d.offset = codec.entry * FRAME + codec.sent
    /\ At \in Nat
    /\ ~codec.junk => At + (IF codec.eof THEN 1 ELSE 0)
                        = EndOf(Image[d.infh].frames, codec.entry) + codec.got

Inv == Typed /\ InCall /\ DecoderUp /\ DecoderOwned /\ InStep
-----------------------------------------------------------------------------
LEMMA DiskType ==
  ASSUME NEW img \in Images
  PROVE  /\ Image[img].frames \in Seq(Nat) /\ Image[img].behind \in Nat
         /\ Image[img].rtable.offsets \in Seq(Nat) /\ Image[img].rtable.length \in Nat
         /\ Image[img].span \in Nat /\ Image[img].interval \in Nat \ {0}
         /\ Image[img].has \subseteq SysFile
         /\ \A f \in Image[img].files : f \in Files
  BY ChmAssumption DEF Disk, Files

LEMMA FilesType ==
  ASSUME NEW f \in Files
  PROVE  f.offset \in Nat /\ f.length \in Nat /\ f # NULL
  BY ChmAssumption DEF Disk, Files

\* Frames end at a place in the stream.
LEMMA EndOfType ==
  ASSUME NEW frames \in Seq(Nat), NEW k \in Nat
  PROVE  EndOf(frames, k) \in Nat
  BY DEF EndOf, MinOf

\* Looking for a system file leaves every help file open that is, and the same one.
LEMMA FindKeeps ==
  ASSUME Typed, InCall, pc # "idle", NEW sys \in SysFile, NEW r, NEW e, Find(sys, r, e)
  PROVE  /\ chm' \in Headers
         /\ \A c \in Helpfile : /\ chm'[c] = NULL <=> chm[c] = NULL
                                /\ chm[c] # NULL => chm'[c].image = chm[c].image
<1>1. CASE UNCHANGED chm
  BY <1>1 DEF Typed
<1>2. CASE chm' = [chm EXCEPT ![call.chm].loaded = @ \cup {sys}]
  <2>1. chm[call.chm] \in [image : Images, loaded : SUBSET SysFile]
    BY DEF Typed, Headers, InCall
  <2>2. [chm[call.chm] EXCEPT !.loaded = @ \cup {sys}] \in [image : Images, loaded : SUBSET SysFile]
    BY <2>1
  <2>3. [chm[call.chm] EXCEPT !.loaded = @ \cup {sys}] # NULL
    BY <2>2, ChmAssumption
  <2> QED BY <1>2, <2>1, <2>2, <2>3 DEF Typed, Headers, InCall
<1> QED BY <1>1, <1>2 DEF Find

\* The next state of a call whose steps change neither decoder nor handle.
LEMMA Untouched ==
  ASSUME Inv, UNCHANGED <<d, codec, call, chm>>, pos' \in Nat \cup {AWAY},
         pc # "idle", ~Decoding, ~Decoding', pc' # "idle" => DecoderUp'
  PROVE  Inv'
  BY DEF Inv, Typed, InCall, DecoderUp, DecoderOwned, InStep, At, Decoding
-----------------------------------------------------------------------------
LEMMA FreshTyped ==
  /\ NoCodec \in Codecs /\ ~NoCodec.on
  /\ NoState \in States /\ NoState.chm = NULL
  /\ NoCall \in Calls
  BY DEF NoCodec, Codecs, NoState, States, NoCall, Calls

LEMMA InitInv == Init => Inv
  BY FreshTyped
     DEF Init, Inv, Typed, Headers, InCall, DecoderUp, DecoderOwned, InStep

\* Opening and closing: another help file's state, or that of the one that is closed.
LEMMA OpenClose ==
  ASSUME Inv, NEW c \in Helpfile,
         \/ \E img \in Opens[c] : Open(c, img)
         \/ OpenFails(c) \/ Close(c)
  PROVE  Inv'
<1> USE FreshTyped DEF Inv, InStep, At, Decoding
<1>1. ASSUME NEW img \in Opens[c], Open(c, img)
      PROVE  Inv'
  <2>1. chm' \in Headers
    <3>1. img \in Images /\ {} \subseteq SysFile
      BY ChmAssumption
    <3>2. Image[img].has \subseteq SysFile
      BY <3>1, DiskType
    <3>3. PICK loaded \in {{}, Image[img].has} :
            chm' = [chm EXCEPT ![c] = [image |-> img, loaded |-> loaded]]
      BY <1>1 DEF Open
    <3>4. [image |-> img, loaded |-> loaded] \in [image : Images, loaded : SUBSET SysFile]
      BY <3>1, <3>2, <3>3
    <3> QED BY <3>3, <3>4 DEF Typed, Headers
  <2>2. Typed'
    BY <1>1, <2>1 DEF Open, Typed
  <2>3. DecoderOwned'
    BY <1>1 DEF Open, DecoderOwned, Typed, Headers, States
  <2> QED BY <1>1, <2>2, <2>3 DEF Open, InCall, DecoderUp
<1>2. CASE OpenFails(c)
  BY <1>2 DEF OpenFails, Typed, InCall, DecoderUp, DecoderOwned
<1>3. CASE Close(c)
  <2>1. chm' \in Headers
    BY <1>3 DEF Close, Typed, Headers
  <2>2. CASE d.chm = c
    BY <1>3, <2>1, <2>2 DEF Close, Dropped, Typed, InCall, DecoderUp, DecoderOwned
  <2>3. CASE d.chm # c
    <3>1. DecoderOwned'
      BY <1>3, <2>3 DEF Close, Dropped, DecoderOwned, Typed, Headers, States
    <3> QED BY <1>3, <2>1, <2>3, <3>1 DEF Close, Dropped, Typed, InCall, DecoderUp
  <2> QED BY <2>2, <2>3
<1> QED BY <1>1, <1>2, <1>3

LEMMA StartInv ==
  ASSUME Inv, NEW c \in Helpfile, NEW f \in Files, Start(c, f)
  PROVE  Inv'
<1> DEFINE img == chm[c].image
           opened(name) == [chm |-> c, offset |-> 0, inoffset |-> d.inoffset, infh |-> name]
<1>1. chm[c] \in [image : Images, loaded : SUBSET SysFile]
  BY DEF Inv, Typed, Headers, Start
<1>2. img \in Images
  BY <1>1
<1>3. /\ chm' = chm /\ chm[c] # NULL /\ pc = "idle"
      /\ call' = [NoCall EXCEPT !.chm = c, !.image = img, !.file = f]
  BY DEF Start
<1>4. call' \in Calls /\ call'.chm = c /\ call'.image = img /\ call'.file = f
  <2>1. call' = [chm |-> c, image |-> img, file |-> f, want |-> 0, writing |-> FALSE,
                 entry |-> 0, length |-> 0, offset |-> 0]
    BY <1>3 DEF NoCall
  <2> HIDE DEF img
  <2> QED BY <1>2, <2>1 DEF Calls
<1>5. CASE Reopens(c)
  <2>1. \/ UNCHANGED <<d, codec, pos>> /\ pc' = "idle"
        \/ codec' = NoCodec /\ pos' = AWAY /\ d' = opened(NULL) /\ pc' = "idle"
        \/ /\ codec' = NoCodec /\ pos' = AWAY /\ d' = opened(img)
           /\ pc' \in {"idle", "copy", "content"}
    BY <1>5 DEF Start, Return
  <2>2. opened(NULL) \in States /\ opened(img) \in States
    <3> HIDE DEF img
    <3> QED BY <1>2 DEF Inv, Typed, States
  <2>3. Typed'
    BY <1>3, <1>4, <2>1, <2>2, FreshTyped DEF Inv, Typed
  <2>4. CASE UNCHANGED <<d, codec, pos>> /\ pc' = "idle"
    BY <1>3, <2>3, <2>4 DEF Inv, InCall, DecoderUp, DecoderOwned, InStep, At, Decoding
  <2>5. ASSUME NEW name \in {NULL, img}, codec' = NoCodec, d' = opened(name),
               \/ pc' = "idle"
               \/ name = img /\ pc' \in {"copy", "content"}
        PROVE  Inv'
    <3>1. ~codec'.on /\ d'.chm = c /\ d'.infh = name
      BY <2>5, FreshTyped
    <3> HIDE DEF img, opened
    <3>2. InCall'
      BY <1>3, <1>4, <2>5, <3>1 DEF InCall, img
    <3>3. DecoderOwned'
      BY <1>3, <2>5, <3>1 DEF DecoderOwned, img
    <3> QED BY <2>3, <2>5, <3>1, <3>2, <3>3 DEF Inv, DecoderUp, InStep
  <2> QED BY <2>1, <2>4, <2>5
<1>6. CASE ~Reopens(c)
  <2>1. d.chm = c /\ d.infh = img
    BY <1>3, <1>6 DEF Reopens, Inv, DecoderOwned
  <2>2. /\ UNCHANGED <<d, pos>>
        /\ \/ codec' = codec /\ pc' \in {"idle", "copy"}
           \/ codec' = codec /\ pc' = "seek" /\ codec.on
           \/ codec' = NoCodec /\ pc' = "content"
    <3>1. d.chm # NULL
      BY <1>6 DEF Reopens
    <3> QED BY <1>6, <3>1 DEF Start, Return, Restarts
  <2>3. Typed'
    BY <1>3, <1>4, <2>2, FreshTyped DEF Inv, Typed
  <2>4. InCall'
    BY <1>3, <1>4, <2>1, <2>2 DEF InCall
  <2>5. DecoderOwned'
    BY <1>3, <2>2, FreshTyped DEF Inv, DecoderOwned
  <2> QED BY <1>3, <2>2, <2>3, <2>4, <2>5, FreshTyped DEF Inv, DecoderUp, InStep, At, Decoding
<1> QED BY <1>5, <1>6
-----------------------------------------------------------------------------
(* Setting up a decoder.                                                    *)

LEMMA CopyInv == ASSUME Inv, Copy PROVE Inv'
<1>1. UNCHANGED <<chm, d, codec, call>> /\ pos' = AWAY /\ pc = "copy" /\ pc' = "idle"
  BY DEF Copy, Return
<1> QED BY <1>1 DEF Inv, Typed, InCall, DecoderUp, DecoderOwned, InStep, At, Decoding

\* chmd_init_decomp up to the decoder: there is none yet.
LEMMA BeforeInit ==
  ASSUME Inv, UNCHANGED <<d, codec>>, chm' \in Headers, call' \in Calls, pos' \in Nat \cup {AWAY},
         \A c \in Helpfile : /\ chm'[c] = NULL <=> chm[c] = NULL
                             /\ chm[c] # NULL => chm'[c].image = chm[c].image,
         call'.chm = call.chm, call'.image = call.image, call'.file = call.file,
         pc \in {"content", "control", "controldata", "rtable", "rtabledata", "spaninfo", "spandata"},
         pc' \in {"idle", "control", "controldata", "rtable", "rtabledata", "spaninfo", "spandata", "init"}
  PROVE  Inv'
<1>1. ~codec.on /\ pc # "idle"
  BY DEF Inv, DecoderUp
<1>2. InCall'
  BY <1>1 DEF Inv, InCall
<1>3. DecoderOwned'
  BY <1>1 DEF Inv, InCall, DecoderOwned
<1> QED BY <1>1, <1>2, <1>3 DEF Inv, Typed, DecoderUp, InStep

LEMMA FindInv ==
  ASSUME Inv, InitContent \/ InitControl \/ FindTable \/ FindSpanInfo
  PROVE  Inv'
<1>0. PICK sys \in SysFile : \E r, e : Find(sys, r, e)
  BY DEF InitContent, InitControl, FindTable, FindSpanInfo, SysFile
<1>1. PICK r, e : Find(sys, r, e)
  BY <1>0
<1>2. /\ UNCHANGED <<d, codec, pos, call>>
      /\ pc \in {"content", "control", "rtable", "spaninfo"}
      /\ pc' \in {"idle", "control", "controldata", "rtabledata", "spaninfo", "spandata"}
  BY DEF InitContent, InitControl, FindTable, FindSpanInfo, Return
<1>3. pc # "idle"
  BY <1>2
<1> QED BY <1>1, <1>2, <1>3, FindKeeps, BeforeInit DEF Inv, Typed

\* The locals of chmd_init_decomp.
LEMMA EntryType ==
  ASSUME call \in Calls, NEW en \in Nat, NEW of \in Nat, NEW le \in Int
  PROVE  /\ [call EXCEPT !.entry = en, !.offset = of, !.length = le] \in Calls
         /\ [call EXCEPT !.entry = en, !.offset = of, !.length = le].chm = call.chm
         /\ [call EXCEPT !.entry = en, !.offset = of, !.length = le].image = call.image
         /\ [call EXCEPT !.entry = en, !.offset = of, !.length = le].file = call.file
  BY DEF Calls

LEMMA ReadInv ==
  ASSUME Inv, ReadControl \/ ReadTable \/ ReadSpanInfo
  PROVE  Inv'
<1>1. /\ UNCHANGED <<d, codec, chm>> /\ pos' \in {pos, AWAY}
      /\ pc \in {"controldata", "rtabledata", "spandata"}
      /\ pc' \in {"idle", "rtable", "spaninfo", "init"}
  BY DEF ReadControl, ReadTable, ReadSpanInfo, Return, Goto
<1>2. call.image \in Images /\ call.file \in Files /\ disk.interval \in Nat \ {0}
  <2>1. call.chm \in Helpfile /\ chm[call.chm] # NULL /\ call.image = chm[call.chm].image
        /\ call.file \in Files
    BY <1>1 DEF Inv, InCall
  <2> QED BY <2>1, DiskType DEF Inv, Typed, Headers, disk
<1>3. ASSUME NEW en \in Nat, NEW of \in Nat, NEW le \in Int,
             call' \in {call, [call EXCEPT !.entry = en, !.offset = of, !.length = le]}
      PROVE  /\ call' \in Calls
             /\ call'.chm = call.chm /\ call'.image = call.image /\ call'.file = call.file
  <2>1. CASE call' = call
    BY <2>1 DEF Inv, Typed
  <2>2. CASE call' = [call EXCEPT !.entry = en, !.offset = of, !.length = le]
    BY <2>2, EntryType DEF Inv, Typed
  <2> QED BY <1>3, <2>1, <2>2
<1>4. /\ call' \in Calls
      /\ call'.chm = call.chm /\ call'.image = call.image /\ call'.file = call.file
  <2>1. CASE ReadTable
    <3> DEFINE reset == disk.interval * FRAME
               entry == (call.file.offset \div reset) * disk.interval
    <3>1. reset \in Nat \ {0}
      BY <1>2, ChmAssumption
    <3>2. entry \in Nat
      <4>1. call.file.offset \in Nat
        BY <1>2, FilesType
      <4> HIDE DEF reset
      <4>2. call.file.offset \div reset \in Nat
        BY <3>1, <4>1
      <4> QED BY <1>2, <4>2
    <3>3. Padded(disk.rtable.length) \in Int
      <4>1. disk.rtable.length \in Nat
        BY <1>2, DiskType DEF disk
      <4>2. Padded(disk.rtable.length) = ((disk.rtable.length + reset - 1) \div reset) * reset
        BY DEF Padded
      <4> HIDE DEF reset
      <4>3. (disk.rtable.length + reset - 1) \div reset \in Int
        BY <3>1, <4>1
      <4> QED BY <3>1, <4>2, <4>3
    <3>4. entry < Len(disk.rtable.offsets) => disk.rtable.offsets[entry + 1] \in Nat
      <4>1. disk.rtable.offsets \in Seq(Nat)
        BY <1>2, DiskType DEF disk
      <4> HIDE DEF entry
      <4> QED BY <3>2, <4>1
    <3>5. \/ call' = call
          \/ /\ entry < Len(disk.rtable.offsets)
             /\ call' = [call EXCEPT !.entry = entry, !.offset = disk.rtable.offsets[entry + 1],
                                     !.length = Padded(disk.rtable.length)]
      BY <2>1 DEF ReadTable
    <3> HIDE DEF entry
    <3>6. CASE call' = call
      BY <3>2, <3>6, <1>3
    <3>7. CASE call' # call
      <4> DEFINE of == disk.rtable.offsets[entry + 1]
                 le == Padded(disk.rtable.length)
      <4>1. of \in Nat /\ le \in Int
            /\ call' = [call EXCEPT !.entry = entry, !.offset = of, !.length = le]
        BY <3>3, <3>4, <3>5, <3>7
      <4> HIDE DEF of, le
      <4> QED BY <3>2, <4>1, <1>3
    <3> QED BY <3>6, <3>7
  <2>2. CASE ReadControl \/ ReadSpanInfo
    <3>1. disk.span \in Nat
      BY <1>2, DiskType DEF disk
    <3>2. \/ call' = call
          \/ call' = [call EXCEPT !.entry = 0, !.offset = 0, !.length = disk.span]
      BY <2>2 DEF ReadControl, ReadSpanInfo
    <3> DEFINE le == disk.span
    <3> HIDE DEF le
    <3>3. le \in Int /\ call' \in {call, [call EXCEPT !.entry = 0, !.offset = 0, !.length = le]}
      BY <3>1, <3>2 DEF le
    <3> QED BY <1>3, <3>3
  <2> QED BY <2>1, <2>2
<1> QED BY <1>1, <1>4, BeforeInit DEF Inv, Typed

\* "initialise LZX stream"
LEMMA InitStreamInv == ASSUME Inv, InitStream PROVE Inv'
<1>1. /\ pc = "init" /\ pc' \in {"idle", "seek"} /\ UNCHANGED <<chm, pos>>
      /\ d' = [d EXCEPT !.offset = call.entry * FRAME, !.inoffset = call.offset]
      /\ call' = [call EXCEPT !.entry = 0, !.offset = 0, !.length = 0]
  BY DEF InitStream, Return, Goto
<1>2. /\ call.entry \in Nat /\ call.offset \in Nat /\ call.length \in Int /\ FRAME \in Nat
      /\ call.image \in Images /\ d.infh = call.image /\ call.image # NULL
  <2>1. call.chm \in Helpfile /\ chm[call.chm] # NULL /\ call.image = chm[call.chm].image
    BY <1>1 DEF Inv, InCall
  <2> QED BY <1>1, <2>1, ChmAssumption DEF Inv, InCall, Typed, Headers, Calls
<1>3. /\ d' \in States /\ d'.offset = call.entry * FRAME /\ d'.inoffset = call.offset
      /\ d'.chm = d.chm /\ d'.infh = d.infh
  <2>1. call.entry * FRAME \in Int
    BY <1>2
  <2> QED BY <1>1, <1>2, <2>1 DEF Inv, Typed, States
<1>4. call' \in Calls /\ call'.chm = call.chm /\ call'.image = call.image /\ call'.file = call.file
  <2>1. call \in Calls /\ 0 \in Nat /\ 0 \in Int
    BY DEF Inv, Typed
  <2> QED BY <1>1, <2>1, EntryType
<1>5. InCall'
  BY <1>1, <1>3, <1>4 DEF Inv, InCall
<1>6. CASE codec' = codec /\ pc' = "idle"
  <2>1. ~codec.on
    BY <1>1 DEF Inv, DecoderUp
  <2>2. DecoderOwned'
    BY <1>1, <1>3, <1>6, <2>1 DEF Inv, DecoderOwned
  <2> QED BY <1>1, <1>3, <1>4, <1>5, <1>6, <2>1, <2>2 DEF Inv, Typed, DecoderUp, InStep
<1>7. ASSUME NEW length \in Int,
             codec' = [NoCodec EXCEPT !.on = TRUE, !.entry = call.entry, !.length = length,
                                      !.junk = call.offset # InputTo(call.entry)]
      PROVE  Inv'
  <2>1. codec' = [on |-> TRUE, entry |-> call.entry, length |-> length, got |-> 0,
                  junk |-> call.offset # InputTo(call.entry), eof |-> FALSE, frames |-> 0,
                  made |-> 0, sent |-> 0, need |-> 0, size |-> 0]
    BY <1>7 DEF NoCodec
  <2>2. codec' \in Codecs
    BY <1>2, <2>1 DEF Codecs
  <2>3. DecoderOwned'
    BY <1>1, <1>2, <1>3 DEF Inv, DecoderOwned
  <2>4. d'.offset = codec'.entry * FRAME + codec'.sent
    BY <1>2, <1>3, <2>1
  <2>5. codec'.junk \/ d'.inoffset = EndOf(Image[d'.infh].frames, codec'.entry)
    BY <1>2, <1>3, <2>1 DEF InputTo, disk
  <2>6. At' = d'.inoffset /\ At' \in Nat
    BY <1>1, <1>2, <1>3 DEF At, Decoding
  <2>7. InStep'
    BY <1>2, <1>3, <2>1, <2>4, <2>5, <2>6 DEF InStep
  <2> QED BY <1>1, <1>3, <1>4, <1>5, <2>1, <2>2, <2>3, <2>7 DEF Inv, Typed, DecoderUp
<1>8. \/ codec' = codec /\ pc' = "idle"
      \/ codec' = [NoCodec EXCEPT !.on = TRUE, !.entry = call.entry,
                                  !.length = call.length - call.entry * FRAME,
                                  !.junk = call.offset # InputTo(call.entry)]
  BY DEF InitStream, Return
<1>9. call.length - call.entry * FRAME \in Int
  BY <1>2
<1> QED BY <1>6, <1>7, <1>8, <1>9
-----------------------------------------------------------------------------
(* The rest of chmd_extract, and lzxd_decompress.                           *)

\* A step of a call that has a decoder and changes neither help files nor handle.
LEMMA InDecoder ==
  ASSUME Inv, UNCHANGED chm, pc \in {"seek", "decompress", "frames"},
         pc' \in {"idle", "decompress", "frames"},
         d' \in States, d'.chm = d.chm, d'.infh = d.infh,
         codec' \in Codecs, codec'.on => codec'.entry = codec.entry,
         call' \in Calls, call'.chm = call.chm, call'.image = call.image, call'.file = call.file,
         pos' \in Nat \cup {AWAY}, pc' # "idle" => codec'.on,
         InStep'
  PROVE  Inv'
<1>1. InCall'
  BY DEF Inv, InCall
<1>2. d.infh # NULL /\ d.chm # NULL
  BY ChmAssumption DEF Inv, InCall, DecoderOwned, DecoderUp
<1>3. DecoderOwned'
  BY <1>2 DEF Inv, DecoderOwned
<1> QED BY <1>1, <1>3 DEF Inv, Typed, DecoderUp

\* "the LZX decompressor is now useless"
LEMMA UselessInv ==
  ASSUME Inv, pc \in {"decompress", "frames"}, UNCHANGED chm, pos' \in Nat \cup {AWAY},
         NEW dd \in States, dd.chm = d.chm, dd.infh = d.infh, NEW e,
         NEW p \in Nat \cup {AWAY}, Useless(e, dd, p)
  PROVE  Inv'
<1>1. d' \in States /\ d'.chm = d.chm /\ d'.infh = d.infh
  BY DEF Useless, Saved, States
<1>2. codec' = NoCodec /\ pc' = "idle" /\ call' = call
  BY DEF Useless, Return
<1>3. codec' \in Codecs /\ ~codec'.on
  BY <1>2, FreshTyped
<1> QED BY <1>1, <1>2, <1>3, InDecoder DEF InStep, Inv, Typed

\* d->offset counts what is written.
LEMMA AdvancedType ==
  ASSUME d \in States, NEW n \in Int
  PROVE  /\ Advanced(n) \in States /\ Advanced(n).offset = d.offset + n
         /\ Advanced(n).chm = d.chm /\ Advanced(n).infh = d.infh
         /\ Advanced(n).inoffset = d.inoffset
  BY DEF Advanced, States

LEMMA PhaseType ==
  ASSUME call \in Calls, NEW w \in BOOLEAN, NEW n \in Int
  PROVE  /\ Phase(w, n) \in Calls /\ Phase(w, n).chm = call.chm
         /\ Phase(w, n).image = call.image /\ Phase(w, n).file = call.file
  BY DEF Phase, Calls

LEMMA SeekInv == ASSUME Inv, Seek PROVE Inv'
<1>1. /\ pc = "seek" /\ UNCHANGED <<chm, d, codec>>
      /\ \/ pc' = "idle" /\ pos' = AWAY /\ call' = call
         \/ /\ pos' = d.inoffset /\ pc' = "decompress"
            /\ \/ call' = Phase(FALSE, call.file.offset - d.offset)
               \/ call' = Phase(TRUE, call.file.length)
  BY DEF Seek, Return, Goto
<1>2. call.file.offset - d.offset \in Int /\ call.file.length \in Int
  BY <1>1, FilesType DEF Inv, InCall, Typed, States
<1>3. call' \in Calls /\ call'.chm = call.chm /\ call'.image = call.image /\ call'.file = call.file
  BY <1>1, <1>2, PhaseType DEF Inv, Typed
<1>4. codec.on
  BY <1>1 DEF Inv, DecoderUp
<1>5. At' = d.inoffset /\ At = d.inoffset
  BY <1>1 DEF At, Decoding
<1>6. InStep'
  BY <1>1, <1>5 DEF Inv, InStep
<1>7. pos' \in Nat \cup {AWAY}
  BY <1>1 DEF Inv, Typed, States
<1> QED BY <1>1, <1>3, <1>4, <1>6, <1>7, InDecoder DEF Inv, Typed

\* lzxd_decompress sends n units, which may be all that is wanted.
LEMMA Sends ==
  ASSUME Inv, Decoding, UNCHANGED <<chm, pos>>, NEW n \in Int,
         NEW cc \in Codecs, cc.on, cc.entry = codec.entry, cc.got = codec.got,
         cc.eof = codec.eof, cc.junk = codec.junk, cc.sent = codec.sent + n,
         \/ Done(Advanced(n), cc)
         \/ /\ d' = Advanced(n) /\ codec' = cc /\ pc' = "frames"
            /\ call' = Phase(call.writing, call.want - n)
  PROVE  Inv'
<1>1. codec.on /\ pos \in Nat /\ d \in States /\ call \in Calls /\ call.file \in Files
  BY DEF Inv, DecoderUp, Decoding, InStep, At, Typed, InCall
<1>2. /\ Advanced(n) \in States /\ Advanced(n).offset = d.offset + n
      /\ Advanced(n).chm = d.chm /\ Advanced(n).infh = d.infh
  BY <1>1, AdvancedType
<1>3. /\ Saved(Advanced(n), pos) \in States /\ Saved(Advanced(n), pos).offset = d.offset + n
      /\ Saved(Advanced(n), pos).inoffset = pos
      /\ Saved(Advanced(n), pos).chm = d.chm /\ Saved(Advanced(n), pos).infh = d.infh
  <2> DEFINE a == Advanced(n)
  <2> HIDE DEF a
  <2> SUFFICES /\ Saved(a, pos) \in States /\ Saved(a, pos).offset = d.offset + n
               /\ Saved(a, pos).inoffset = pos
               /\ Saved(a, pos).chm = d.chm /\ Saved(a, pos).infh = d.infh
    BY DEF a
  <2>1. a \in States /\ a.offset = d.offset + n /\ a.chm = d.chm /\ a.infh = d.infh
    BY <1>2 DEF a
  <2> QED BY <1>1, <2>1 DEF Saved, States
<1>4. \/ d' = Saved(Advanced(n), pos) /\ pc' = "idle"
      \/ d' = Advanced(n) /\ pc' \in {"decompress", "frames"}
  BY DEF Done, Return, Goto
<1>5. codec' = cc
  BY DEF Done
<1>6. call' \in Calls /\ call'.chm = call.chm /\ call'.image = call.image /\ call'.file = call.file
  <2>1. \/ call' = Phase(TRUE, 0) \/ call' = Phase(TRUE, call.file.length)
        \/ call' = Phase(call.writing, call.want - n)
    BY DEF Done
  <2>2. call.file.length \in Int /\ call.want - n \in Int /\ call.writing \in BOOLEAN
    BY <1>1, FilesType DEF Calls
  <2> DEFINE length == call.file.length
             rest == call.want - n
             writing == call.writing
  <2>3. length \in Int /\ rest \in Int /\ writing \in BOOLEAN
    BY <2>2
  <2>4. call' = Phase(TRUE, 0) \/ call' = Phase(TRUE, length) \/ call' = Phase(writing, rest)
    BY <2>1
  <2> HIDE DEF length, rest, writing
  <2>5. ASSUME NEW w \in BOOLEAN, NEW m \in Int, call' = Phase(w, m)
        PROVE  /\ call' \in Calls
               /\ call'.chm = call.chm /\ call'.image = call.image /\ call'.file = call.file
    BY <1>1, <2>5, PhaseType
  <2>6. CASE call' = Phase(TRUE, 0)
    <3>1. TRUE \in BOOLEAN /\ 0 \in Int
      OBVIOUS
    <3> QED BY <2>5, <2>6, <3>1
  <2>7. CASE call' = Phase(TRUE, length)
    BY <2>3, <2>5, <2>7
  <2>8. CASE call' = Phase(writing, rest)
    BY <2>3, <2>5, <2>8
  <2> QED BY <2>4, <2>6, <2>7, <2>8
<1>7. /\ d' \in States /\ d'.offset = d.offset + n /\ d'.chm = d.chm /\ d'.infh = d.infh
      /\ At' = pos /\ At = pos
  BY <1>2, <1>3, <1>4 DEF At, Decoding
<1>8. d'.offset = cc.entry * FRAME + cc.sent
  <2>1. codec.entry * FRAME \in Int /\ codec.sent \in Int
    BY ChmAssumption DEF Inv, Typed, Codecs
  <2>2. d.offset = codec.entry * FRAME + codec.sent
    BY <1>1 DEF Inv, InStep
  <2> QED BY <1>7, <2>1, <2>2
<1>9. InStep'
  BY <1>1, <1>5, <1>7, <1>8 DEF Inv, InStep
<1> QED BY <1>1, <1>4, <1>5, <1>6, <1>7, <1>9, InDecoder DEF Decoding, Inv, Typed
\* A step of the decoder whose write fails, or that finds the data damaged.
LEMMA WriteFailsInv ==
  ASSUME Inv, Decoding, UNCHANGED <<chm, pos>>, NEW data, Len(data) \in Int, WriteFails(data)
  PROVE  Inv'
<1>1. d \in States /\ pos \in Nat \cup {AWAY}
  BY DEF Inv, Typed
<1>2. Useless("WRITE", Advanced(Len(data)), pos)
  BY DEF WriteFails
<1> DEFINE dd == Advanced(Len(data))
<1>3. dd \in States /\ dd.chm = d.chm /\ dd.infh = d.infh
  BY <1>1, AdvancedType
<1> HIDE DEF dd
<1>4. Useless("WRITE", dd, pos)
  BY <1>2 DEF dd
<1> QED BY <1>1, <1>3, <1>4, UselessInv DEF Decoding

LEMMA UnitsLen ==
  ASSUME NEW from \in Int, NEW n \in Int, n > 0, NEW junk, NEW data \in Units(from, n, junk)
  PROVE  Len(data) = n
<1>1. n \in Nat
  OBVIOUS
<1>2. data = [i \in 1..n |-> from + i] \/ data = [i \in 1..n |-> 0]
  BY DEF Units
<1> QED BY <1>1, <1>2

\* "flush out any stored-up bytes before we begin"
LEMMA EnterInv == ASSUME Inv, Enter PROVE Inv'
<1> DEFINE i == MinOf(codec.made - codec.sent, call.want)
<1>1. i \in Int /\ codec \in Codecs
  BY DEF MinOf, Inv, Typed, Codecs, Calls
<1>2. UNCHANGED <<chm, pos>> /\ Decoding /\ codec.on
  BY DEF Enter, Decoding, Inv, DecoderUp
<1>3. PICK data \in Units(Place(codec.sent), i, codec.junk) :
        \/ IF i = call.want
             THEN Done(Advanced(i), [codec EXCEPT !.sent = @ + i])
             ELSE /\ d' = Advanced(i) /\ codec' = [codec EXCEPT !.sent = @ + i]
                  /\ call' = Phase(call.writing, call.want - i) /\ pc' = "frames"
        \/ i > 0 /\ WriteFails(data)
  BY DEF Enter, Goto
<1>4. CASE i > 0 /\ WriteFails(data)
  <2>1. Place(codec.sent) \in Int
    BY <1>1, ChmAssumption DEF Place, Codecs
  <2>2. Len(data) \in Int
    BY <1>1, <1>3, <1>4, <2>1, UnitsLen
  <2> QED BY <1>2, <1>4, <2>2, WriteFailsInv
<1>5. CASE ~(i > 0 /\ WriteFails(data))
  <2> DEFINE cc == [codec EXCEPT !.sent = @ + i]
  <2> HIDE DEF i
  <2>1. /\ cc \in Codecs /\ cc.on /\ cc.entry = codec.entry /\ cc.got = codec.got
        /\ cc.eof = codec.eof /\ cc.junk = codec.junk /\ cc.sent = codec.sent + i
    BY <1>1, <1>2 DEF Codecs
  <2>2. \/ Done(Advanced(i), cc)
        \/ /\ d' = Advanced(i) /\ codec' = cc /\ pc' = "frames"
           /\ call' = Phase(call.writing, call.want - i)
    BY <1>3, <1>5 DEF i
  <2> HIDE DEF cc
  <2> QED BY <1>1, <1>2, <2>1, <2>2, Sends
<1> QED BY <1>4, <1>5

\* A frame is counted.
LEMMA FrameType ==
  ASSUME codec \in Codecs, NEW f \in Nat, NEW m \in Int, NEW n \in Int
  PROVE  LET cc == [codec EXCEPT !.frames = f, !.made = m, !.sent = n, !.need = 0, !.size = 0]
         IN  /\ cc \in Codecs /\ cc.on = codec.on /\ cc.entry = codec.entry
             /\ cc.got = codec.got /\ cc.eof = codec.eof /\ cc.junk = codec.junk
             /\ cc.sent = n
<1> DEFINE cc == [codec EXCEPT !.frames = f, !.made = m, !.sent = n, !.need = 0, !.size = 0]
<1>1. DOMAIN cc = DOMAIN codec
  OBVIOUS
<1>2. /\ cc.on = codec.on /\ cc.entry = codec.entry /\ cc.length = codec.length
  BY DEF Codecs
<1>3. cc.got = codec.got /\ cc.eof = codec.eof /\ cc.junk = codec.junk
  BY DEF Codecs
<1>4. cc.frames = f /\ cc.made = m /\ cc.sent = n
  BY DEF Codecs
<1>5. cc.need = 0 /\ cc.size = 0
  BY DEF Codecs
<1>6. cc \in Codecs
  <2>1. cc = [x \in DOMAIN codec |-> cc[x]]
    BY <1>1
  <2> HIDE DEF cc
  <2> QED BY <1>1, <1>2, <1>3, <1>4, <1>5, <2>1 DEF Codecs
<1> QED BY <1>2, <1>3, <1>4, <1>6

\* "write a frame"
LEMMA FrameOutInv == ASSUME Inv, FrameOut PROVE Inv'
<1> DEFINE i == MinOf(codec.size, call.want)
           cc == [codec EXCEPT !.frames = @ + 1, !.made = @ + codec.size, !.sent = @ + i,
                               !.need = 0, !.size = 0]
<1>1. i \in Int /\ codec \in Codecs
  BY DEF MinOf, Inv, Typed, Codecs, Calls
<1>2. UNCHANGED <<chm, pos>> /\ Decoding /\ codec.on
  BY DEF FrameOut, Decoding, Inv, DecoderUp
<1>3. PICK data \in Units(Place(codec.made), i, codec.junk) :
        \/ /\ d' = Advanced(i) /\ codec' = cc /\ pc' = "frames"
           /\ call' = Phase(call.writing, call.want - i)
        \/ i > 0 /\ WriteFails(data)
  BY DEF FrameOut
<1>4. CASE i > 0 /\ WriteFails(data)
  <2>1. Place(codec.made) \in Int
    BY <1>1, ChmAssumption DEF Place, Codecs
  <2>2. Len(data) \in Int
    BY <1>1, <1>3, <1>4, <2>1, UnitsLen
  <2> QED BY <1>2, <1>4, <2>2, WriteFailsInv
<1>5. CASE ~(i > 0 /\ WriteFails(data))
  <2> HIDE DEF i
  <2>1. /\ cc \in Codecs /\ cc.on /\ cc.entry = codec.entry /\ cc.got = codec.got
        /\ cc.eof = codec.eof /\ cc.junk = codec.junk /\ cc.sent = codec.sent + i
    <3> DEFINE f == codec.frames + 1
               m == codec.made + codec.size
               n == codec.sent + i
    <3>1. f \in Nat /\ m \in Int /\ n \in Int
      BY <1>1 DEF Codecs
    <3>2. n = codec.sent + i /\ cc = [codec EXCEPT !.frames = f, !.made = m, !.sent = n,
                                                  !.need = 0, !.size = 0]
      BY DEF Codecs
    <3> HIDE DEF f, m, n, cc
    <3>3. LET c2 == [codec EXCEPT !.frames = f, !.made = m, !.sent = n, !.need = 0, !.size = 0]
          IN  /\ c2 \in Codecs /\ c2.on = codec.on /\ c2.entry = codec.entry
              /\ c2.got = codec.got /\ c2.eof = codec.eof /\ c2.junk = codec.junk
              /\ c2.sent = n
      BY <1>1, <3>1, FrameType, ZenonT(60)
    <3> QED BY <1>2, <3>2, <3>3
  <2>2. /\ d' = Advanced(i) /\ codec' = cc /\ pc' = "frames"
        /\ call' = Phase(call.writing, call.want - i)
    BY <1>3, <1>5 DEF i
  <2> HIDE DEF cc
  <2> QED BY <1>1, <1>2, <2>1, <2>2, Sends
<1> QED BY <1>4, <1>5

LEMMA FramesDoneInv == ASSUME Inv, FramesDone PROVE Inv'
<1>1. /\ UNCHANGED <<chm, pos>> /\ Decoding /\ codec.on /\ d \in States
      /\ codec \in Codecs /\ pos \in Nat \cup {AWAY}
  BY DEF FramesDone, Decoding, Inv, DecoderUp, Typed
<1>2. CASE Useless("DECRUNCH", d, pos)
  BY <1>1, <1>2, UselessInv DEF Decoding
<1>3. CASE Done(d, codec)
  <2>1. Advanced(0) = d
    BY <1>1 DEF Advanced, States
  <2>2. codec.sent = codec.sent + 0 /\ 0 \in Int
    BY <1>1 DEF Codecs
  <2> QED BY <1>1, <1>3, <2>1, <2>2, Sends
<1> QED BY <1>2, <1>3 DEF FramesDone
LEMMA FrameFailsInv == ASSUME Inv, FrameFails PROVE Inv'
<1>1. /\ UNCHANGED <<chm, pos>> /\ pc = "frames" /\ d \in States /\ pos \in Nat \cup {AWAY}
      /\ Useless("DECRUNCH", d, pos)
  BY DEF FrameFails, Inv, Typed
<1> QED BY <1>1, UselessInv

LEMMA BeginFrameInv == ASSUME Inv, BeginFrame PROVE Inv'
<1> DEFINE over == codec.junk \/ Frame \in disk.bad \/ (FrameSize > 0 /\ Frame >= Len(disk.frames))
<1>1. /\ UNCHANGED <<chm, d, pos, call, pc>> /\ pc = "frames" /\ codec.on
      /\ d \in States /\ codec \in Codecs /\ call \in Calls /\ pos \in Nat
  BY DEF BeginFrame, Inv, Typed, DecoderUp, InStep, At, Decoding
<1>2. PICK need \in FrameNeeds :
        codec' = [codec EXCEPT !.need = IF need < 1 THEN 1 ELSE need, !.size = FrameSize,
                               !.junk = over]
  BY DEF BeginFrame
<1>3. /\ InputTo(Frame) \in Int /\ InputTo(Frame + 1) \in Int
      /\ InputTo(Len(disk.frames)) \in Int /\ disk.behind \in Int /\ InputTo(codec.entry) \in Int
  <2>1. call.image \in Images
    BY <1>1 DEF Inv, InCall, Typed, Headers
  <2>2. disk.frames \in Seq(Nat) /\ disk.behind \in Nat
    BY <2>1, DiskType DEF disk
  <2>3. Len(disk.frames) \in Nat /\ codec.entry \in Nat /\ Frame \in Nat /\ Frame + 1 \in Nat
    BY <1>1, <2>2 DEF Codecs, Frame
  <2>4. ASSUME NEW k \in Nat PROVE InputTo(k) \in Int
    BY <2>2, EndOfType DEF InputTo
  <2> QED BY <2>2, <2>3, <2>4
<1>4. need \in Int
  <2>1. Header \in Int
    BY <1>1, ChmAssumption DEF Header, Disk, disk, Inv, InCall, Typed, Headers
  <2> QED BY <1>2, <1>3, <2>1 DEF FrameNeeds
<1>5. FrameSize \in Int
  BY <1>1, ChmAssumption DEF FrameSize, MinOf, Codecs
<1>6. /\ codec' \in Codecs /\ codec'.on /\ codec'.entry = codec.entry /\ codec'.got = codec.got
      /\ codec'.eof = codec.eof /\ codec'.sent = codec.sent /\ codec'.junk = over
  <2> DEFINE s == FrameSize
             n == IF need < 1 THEN 1 ELSE need
  <2>1. n \in Int /\ s \in Int /\ over \in BOOLEAN
    BY <1>1, <1>4, <1>5 DEF Codecs
  <2>2. codec' = [codec EXCEPT !.need = n, !.size = s, !.junk = over]
    BY <1>2
  <2> HIDE DEF n, s, over
  <2> QED BY <1>1, <2>1, <2>2 DEF Codecs
<1>7. InStep'
  <2>1. codec'.junk \/ ~codec.junk
    BY <1>6
  <2> HIDE DEF over
  <2> QED BY <1>1, <1>6, <2>1 DEF Inv, InStep, At, Decoding
<1> HIDE DEF over
<1> QED BY <1>1, <1>6, <1>7, InDecoder

\* read_input: what is read where the handle stands is the next of the input.
LEMMA InputInv == ASSUME Inv, Input PROVE Inv'
<1> DEFINE all == InputTo(Len(disk.frames)) + disk.behind
           n == IF pos > all THEN 0 ELSE MinOf(BUFFER, all - pos)
           inOrder == pos = InputTo(codec.entry) + codec.got
<1>1. /\ UNCHANGED chm /\ pc = "frames" /\ codec.on /\ d \in States /\ codec \in Codecs
      /\ call \in Calls /\ pos \in Nat /\ pos # AWAY
  BY ChmAssumption DEF Input, Inv, Typed, DecoderUp, InStep, At, Decoding
<1>2. call.image \in Images /\ d.infh = call.image
  BY <1>1 DEF Inv, InCall, Typed, Headers
<1>3. all \in Int /\ InputTo(codec.entry) \in Int
  <2>1. /\ disk.frames \in Seq(Nat) /\ disk.behind \in Nat
    BY <1>2, DiskType DEF disk
  <2>2. Len(disk.frames) \in Nat /\ codec.entry \in Nat
    BY <1>1, <2>1 DEF Codecs
  <2>3. ASSUME NEW k \in Nat PROVE InputTo(k) \in Int
    BY <2>1, EndOfType DEF InputTo
  <2>4. InputTo(Len(disk.frames)) \in Int /\ InputTo(codec.entry) \in Int
    BY <2>2, <2>3
  <2> QED BY <2>1, <2>4
<1>4. n \in Int
  BY <1>1, <1>3, ChmAssumption DEF MinOf
<1>5. \/ /\ n > 0 /\ codec' = [codec EXCEPT !.got = @ + n, !.junk = @ \/ ~inOrder]
         /\ pos' = pos + n /\ UNCHANGED <<d, call, pc>>
      \/ /\ n = 0 /\ ~codec.eof /\ codec' = [codec EXCEPT !.got = @ + 1, !.eof = TRUE]
         /\ UNCHANGED <<d, pos, call, pc>>
      \/ Useless("READ", d, pos) /\ UNCHANGED pos
      \/ Useless("READ", d, AWAY) /\ pos' = AWAY
  BY <1>1 DEF Input
<1> HIDE DEF n, all
<1>6. CASE n > 0 /\ codec' = [codec EXCEPT !.got = @ + n, !.junk = @ \/ ~inOrder]
           /\ pos' = pos + n /\ UNCHANGED <<d, call, pc>>
  <2> DEFINE g == codec.got + n
             j == codec.junk \/ ~inOrder
  <2>1. g \in Int /\ j \in BOOLEAN /\ pos + n \in Nat
    BY <1>1, <1>4, <1>6 DEF Codecs
  <2>2. codec' = [codec EXCEPT !.got = g, !.junk = j]
    BY <1>1, <1>6
  <2>3. ~j => pos + n = InputTo(codec.entry) + g /\ ~codec.eof
    <3>1. SUFFICES ASSUME ~j PROVE pos + n = InputTo(codec.entry) + g /\ ~codec.eof
      OBVIOUS
    <3>2. pos = InputTo(codec.entry) + codec.got /\ ~codec.junk
      BY <3>1
    <3>3. pos + (IF codec.eof THEN 1 ELSE 0) = InputTo(codec.entry) + codec.got
      BY <1>1, <1>2, <3>2 DEF Inv, InStep, At, Decoding, InputTo, disk
    <3> QED BY <1>1, <1>3, <1>4, <3>2, <3>3 DEF Codecs
  <2> HIDE DEF g, j, inOrder
  <2>4. /\ codec' \in Codecs /\ codec'.on /\ codec'.entry = codec.entry /\ codec'.got = g
        /\ codec'.eof = codec.eof /\ codec'.sent = codec.sent /\ codec'.junk = j
    BY <1>1, <2>1, <2>2 DEF Codecs
  <2>5. InStep'
    <3>1. d'.offset = codec'.entry * FRAME + codec'.sent
      BY <1>1, <1>6, <2>4 DEF Inv, InStep
    <3>2. At' = pos + n
      BY <1>1, <1>6 DEF At, Decoding
    <3>3. EndOf(Image[d'.infh].frames, codec'.entry) = InputTo(codec.entry)
      BY <1>2, <1>6, <2>4 DEF InputTo, disk
    <3>4. ~codec'.junk => At' + (IF codec'.eof THEN 1 ELSE 0) = InputTo(codec.entry) + codec'.got
      BY <2>1, <2>3, <2>4, <3>2
    <3> QED BY <2>1, <3>1, <3>2, <3>3, <3>4 DEF InStep
  <2> QED BY <1>1, <1>6, <2>1, <2>4, <2>5, InDecoder
<1>7. CASE n = 0 /\ ~codec.eof /\ codec' = [codec EXCEPT !.got = @ + 1, !.eof = TRUE]
           /\ UNCHANGED <<d, pos, call, pc>>
  <2> HIDE DEF inOrder
  <2> DEFINE g == codec.got + 1
  <2>0. g \in Int /\ codec' = [codec EXCEPT !.got = g, !.eof = TRUE]
    BY <1>1, <1>7 DEF Codecs
  <2> HIDE DEF g
  <2>1. /\ codec' \in Codecs /\ codec'.on /\ codec'.entry = codec.entry
        /\ codec'.got = g /\ codec'.eof /\ codec'.sent = codec.sent
        /\ codec'.junk = codec.junk
    BY <1>1, <2>0 DEF Codecs
  <2>2. ~codec.junk => pos = InputTo(codec.entry) + codec.got
    BY <1>1, <1>2, <1>7 DEF Inv, InStep, At, Decoding, InputTo, disk
  <2>3. ~codec'.junk => pos + 1 = InputTo(codec.entry) + codec'.got
    BY <1>1, <1>3, <2>1, <2>2 DEF Codecs, g
  <2>4. InStep'
    BY <1>1, <1>2, <1>7, <2>1, <2>3 DEF Inv, InStep, At, Decoding, InputTo, disk
  <2> QED BY <1>1, <1>7, <2>1, <2>4, InDecoder
<1>8. CASE Useless("READ", d, pos) /\ UNCHANGED pos
  BY <1>1, <1>8, UselessInv
<1>9. CASE Useless("READ", d, AWAY) /\ pos' = AWAY
  BY <1>1, <1>9, UselessInv
<1> QED BY <1>5, <1>6, <1>7, <1>8, <1>9
-----------------------------------------------------------------------------
LEMMA NextInv == Inv /\ [Next]_vars => Inv'
<1> SUFFICES ASSUME Inv, [Next]_vars PROVE Inv'
  OBVIOUS
<1>1. CASE UNCHANGED vars
  BY <1>1 DEF vars, Inv, Typed, InCall, DecoderUp, DecoderOwned, InStep, At, Decoding
<1>2. CASE Steps
  BY <1>2, CopyInv, FindInv, ReadInv, InitStreamInv, SeekInv, EnterInv, FramesDoneInv,
     BeginFrameInv, InputInv, FrameFailsInv, FrameOutInv
     DEF Steps
<1>3. ASSUME NEW c \in Helpfile,
             \/ \E img \in Opens[c] : Open(c, img)
             \/ OpenFails(c) \/ Close(c)
             \/ \E f \in Files : Start(c, f)
      PROVE  Inv'
  BY <1>3, OpenClose, StartInv
<1> QED BY <1>1, <1>2, <1>3 DEF Next

\* Whatever is opened, extracted and closed in any order, and whatever fails: the
\* decoder that self->d keeps belongs to a help file that is open and reads that
\* one's file; between two calls d->offset is where its output goes on, and
\* d->inoffset, unless the data are damaged, where its input does.
THEOREM DecoderStaysInStep == Spec => []DecoderInStep
<1>1. Inv => DecoderInStep
  BY DEF Inv, DecoderInStep, InStep, At, Decoding
<1> QED BY <1>1, InitInv, NextInv, PTL DEF Spec
-----------------------------------------------------------------------------
(* What is written.  Where the output goes on is known from Inv; that it is *)
(* the right data takes more: a decoder whose data were damaged, or who ran *)
(* over the end of the stream, is past everything a sound file has, and     *)
(* what is stored up in the decoder is just what was decoded and not sent.  *)

\* Nothing is damaged in the help file and the reset table is true.
Good(img) ==
  /\ Image[img].bad = {}
  /\ \A n \in DOMAIN Image[img].rtable.offsets :
       Image[img].rtable.offsets[n] = EndOf(Image[img].frames, n - 1)

\* where section 1 ends, and its compressed stream
End(img) == Len(Image[img].frames) * FRAME
StreamEnd(img) == EndOf(Image[img].frames, Len(Image[img].frames)) + Image[img].behind

Natural ==
  /\ d.offset \in Nat /\ call.want \in Nat /\ call.length \in Nat
  /\ codec.length \in Nat /\ codec.got \in Nat /\ codec.made \in Nat /\ codec.sent \in Nat
  /\ codec.need \in Nat /\ codec.size \in Nat

Plain ==
  /\ out \in Seq(Nat) /\ error \in Errors
  /\ pc \in {"idle", "copy", "content", "control", "controldata", "rtable", "rtabledata",
             "spaninfo", "spandata", "init", "seek", "decompress", "frames"}
  /\ faults \in 0..MaxFaults /\ clean \in BOOLEAN

\* Frames are whole but for the last, and none is decoded before the one before
\* it has been sent.
Counted ==
  codec.on =>
    /\ codec.sent <= codec.made /\ codec.made <= codec.frames * FRAME
    /\ codec.length = 0 \/ codec.made < codec.length => codec.made = codec.frames * FRAME
    /\ codec.length > 0 => codec.made <= codec.length
    /\ codec.need > 0 => pc = "frames" /\ codec.made = codec.sent /\ codec.size = FrameSize
    /\ pc = "frames" => codec.made = codec.sent \/ call.want = 0

\* A decoder has lost its way only behind the end.
Undamaged ==
  codec.on =>
    /\ codec.eof => At >= StreamEnd(d.infh)
    /\ codec.junk /\ Good(d.infh) => d.offset >= End(d.infh)

\* What the call is about to do leads to the file's beginning or end.
Asked ==
  /\ pc = "init" => /\ call.entry * FRAME <= call.file.offset
                    /\ Good(call.image) => call.offset = EndOf(Image[call.image].frames, call.entry)
  /\ pc = "seek" => d.offset <= call.file.offset
  /\ pc \notin {"idle", "copy"} => call.file.section = 1
  /\ Decoding /\ call.writing => /\ d.offset = call.file.offset + Len(out)
                                 /\ Len(out) + call.want = call.file.length
  /\ Decoding /\ ~call.writing => out = <<>> /\ d.offset + call.want = call.file.offset
  /\ pc # "idle" /\ ~Decoding => out = <<>>

BeginningOf(s, f) == Len(s) <= f.length /\ \A i \in 1..Len(s) : s[i] = f.offset + i

OutKept ==
  call.file # NULL =>
    /\ Sound(call.file) => BeginningOf(out, call.file)
    /\ pc = "idle" /\ error = "OK" => Len(out) = call.file.length

Right == Natural /\ Plain /\ Counted /\ Undamaged /\ Asked /\ OutKept
-----------------------------------------------------------------------------
(* Data.                                                                    *)

LEMMA UnitsType ==
  ASSUME NEW from \in Nat, NEW n \in Nat, NEW junk, NEW data \in Units(from, n, junk)
  PROVE  /\ data \in Seq(Nat) /\ Len(data) = n
         /\ ~junk /\ d.infh = call.image => \A i \in 1..n : data[i] = from + i
<1>1. \/ data = [i \in 1..n |-> from + i]
      \/ data = [i \in 1..n |-> 0] /\ (junk \/ d.infh # call.image)
  BY DEF Units
<1>2. CASE data = [i \in 1..n |-> from + i]
  BY <1>2
<1>3. CASE data = [i \in 1..n |-> 0] /\ (junk \/ d.infh # call.image)
  BY <1>3
<1> QED BY <1>1, <1>2, <1>3

LEMMA Piece ==
  ASSUME NEW s \in Seq(Nat), NEW m \in 0..Len(s)
  PROVE  /\ SubSeq(s, 1, m) \in Seq(Nat) /\ Len(SubSeq(s, 1, m)) = m
         /\ \A i \in 1..m : SubSeq(s, 1, m)[i] = s[i]
  OBVIOUS

LEMMA Behind ==
  ASSUME NEW s \in Seq(Nat), NEW t \in Seq(Nat)
  PROVE  /\ s \o t \in Seq(Nat) /\ Len(s \o t) = Len(s) + Len(t)
         /\ \A i \in 1..Len(s) : (s \o t)[i] = s[i]
         /\ \A i \in Len(s) + 1..Len(s) + Len(t) : (s \o t)[i] = t[i - Len(s)]
  OBVIOUS

\* What goes on where the output stands is right.
LEMMA GoesOn ==
  ASSUME NEW f \in Files, NEW s \in Seq(Nat), NEW t \in Seq(Nat),
         BeginningOf(s, f), Len(s) + Len(t) <= f.length,
         \A i \in 1..Len(t) : t[i] = f.offset + Len(s) + i
  PROVE  BeginningOf(s \o t, f)
<1>1. f.offset \in Nat /\ f.length \in Nat /\ Len(s) \in Nat /\ Len(t) \in Nat
  BY FilesType
<1>2. Len(s \o t) = Len(s) + Len(t)
  BY Behind
<1>3. ASSUME NEW i \in 1..Len(s \o t) PROVE (s \o t)[i] = f.offset + i
  <2>1. CASE i <= Len(s)
    BY <1>1, <1>2, <2>1, Behind DEF BeginningOf
  <2>2. CASE i > Len(s)
    <3>1. i \in Len(s) + 1..Len(s) + Len(t) /\ i - Len(s) \in 1..Len(t)
      BY <1>1, <1>2, <2>2
    <3>2. (s \o t)[i] = t[i - Len(s)]
      BY <3>1, Behind
    <3>3. t[i - Len(s)] = f.offset + Len(s) + (i - Len(s))
      BY <3>1
    <3> QED BY <1>1, <3>1, <3>2, <3>3
  <2> QED BY <1>1, <1>2, <2>1, <2>2
<1> QED BY <1>1, <1>2, <1>3 DEF BeginningOf
-----------------------------------------------------------------------------
(* Arithmetic.                                                              *)

LEMMA InNat ==
  ASSUME NEW a \in Nat, NEW b \in Nat
  PROVE  a * b \in Nat
  OBVIOUS

LEMMA Quotient ==
  ASSUME NEW a \in Nat, NEW b \in Nat \ {0}
  PROVE  a \div b \in Nat /\ (a \div b) * b <= a
<1>1. a \div b \in Int /\ a % b \in 0..b - 1 /\ a = b * (a \div b) + (a % b)
  OBVIOUS
<1>2. a \div b \in Nat
  OBVIOUS
<1>3. (a \div b) * b = b * (a \div b) /\ b * (a \div b) \in Int
  BY <1>1
<1> QED BY <1>1, <1>2, <1>3

\* More frames are no shorter.
LEMMA Longer ==
  ASSUME NEW a \in Nat, NEW b \in Nat, a <= b
  PROVE  a * FRAME <= b * FRAME
<1>1. FRAME \in Nat
  BY ChmAssumption
<1>2. (b - a) * FRAME \in Nat
  <2>1. b - a \in Nat
    OBVIOUS
  <2> QED BY <1>1, <2>1, InNat
<1>3. (b - a) * FRAME = b * FRAME - a * FRAME /\ a * FRAME \in Nat /\ b * FRAME \in Nat
  BY <1>1
<1> QED BY <1>2, <1>3

LEMMA Together ==
  ASSUME NEW a \in Nat, NEW b \in Nat
  PROVE  (a + b) * FRAME = a * FRAME + b * FRAME /\ a * FRAME \in Nat /\ 1 * FRAME = FRAME
  BY ChmAssumption

LEMMA PaddedType ==
  ASSUME NEW length \in Nat, disk.interval \in Nat \ {0}
  PROVE  Padded(length) \in Nat
<1> DEFINE reset == disk.interval * FRAME
<1>1. reset \in Nat \ {0}
  BY ChmAssumption
<1>2. Padded(length) = ((length + reset - 1) \div reset) * reset
  BY DEF Padded
<1> HIDE DEF reset
<1>3. length + reset - 1 \in Nat
  BY <1>1
<1>4. (length + reset - 1) \div reset \in Nat
  BY <1>1, <1>3, Quotient
<1> QED BY <1>1, <1>2, <1>4, InNat
-----------------------------------------------------------------------------
(* Steps of a kind.                                                         *)

LEMMA FaultType ==
  ASSUME Right, Fault \/ NoFault \/ Begins
  PROVE  faults' \in 0..MaxFaults /\ clean' \in BOOLEAN
<1>1. faults \in 0..MaxFaults /\ clean \in BOOLEAN /\ MaxFaults \in Nat
  BY ChmAssumption DEF Right, Plain
<1>2. clean' \in BOOLEAN
  BY <1>1, Zenon DEF Fault, NoFault, Begins
<1>3. faults' \in 0..MaxFaults
  <2>1. faults' = faults \/ (faults < MaxFaults /\ faults' = faults + 1)
    BY DEF Fault, NoFault, Begins
  <2> QED BY <1>1, <2>1
<1> QED BY <1>2, <1>3

\* Sound(call.file) is about the disk only.
LEMMA SoundStays ==
  ASSUME call'.image = call.image, call'.file = call.file
  PROVE  Sound(call.file)' <=> Sound(call.file)
  BY DEF Sound, Total, InputTo, disk

LEMMA SoundGood ==
  ASSUME Sound(call.file)
  PROVE  /\ Good(call.image)
         /\ call.file.section = 1 => call.file.offset + call.file.length <= End(call.image)
  BY DEF Sound, Total, InputTo, disk, Good, End

\* A call ends, and there is no decoder or it is as it was.
LEMMA EndsRight ==
  ASSUME Right, pc' = "idle", ~Decoding, Natural', Plain', OutKept',
         ~codec'.on \/ UNCHANGED <<d, codec>>
  PROVE  Right'
<1>1. Counted' /\ Undamaged'
  BY DEF Right, Counted, Undamaged, At, Decoding, FrameSize
<1>2. Asked'
  BY DEF Asked, Decoding
<1> QED BY <1>1, <1>2 DEF Right

\* "the LZX decompressor is now useless"
LEMMA UselessRight ==
  ASSUME Inv, Right, NEW dd \in States, dd.offset \in Nat, NEW p, NEW e \in Errors \ {"OK"},
         Useless(e, dd, p), out' \in Seq(Nat),
         Sound(call.file) => BeginningOf(out', call.file),
         faults' \in 0..MaxFaults /\ clean' \in BOOLEAN
  PROVE  Right'
<1>1. /\ codec' = NoCodec /\ pc' = "idle" /\ error' = e /\ call' = call
      /\ d' = [dd EXCEPT !.inoffset = p]
  BY DEF Useless, Saved, Return
<1>2. d'.offset = dd.offset
  BY <1>1 DEF States
<1>3. Natural' /\ Plain' /\ ~codec'.on
  BY <1>1, <1>2 DEF Right, Natural, Plain, NoCodec
<1>4. OutKept'
  BY <1>1, SoundStays DEF OutKept, BeginningOf
<1> QED BY <1>1, <1>3, <1>4 DEF Right, Counted, Undamaged, Asked, Decoding

LEMMA NothingLeft ==
  ASSUME NEW n \in Nat, NEW want \in Nat, NEW at \in Nat, NEW end \in Nat, NEW e \in Nat,
         n <= want, at + want <= e, e <= end, at >= end
  PROVE  n = 0
  OBVIOUS

\* lzxd_decompress sends n units of what was asked for.
LEMMA SendsRight ==
  ASSUME Inv, Right, Decoding, UNCHANGED pos, NEW n \in Nat, n <= call.want,
         NEW data \in Units(d.offset, n, codec.junk), NoFault, Write(data),
         NEW cc \in Codecs, cc.on, cc.entry = codec.entry, cc.eof = codec.eof,
         cc.junk = codec.junk, cc.length = codec.length, cc.got \in Nat, cc.size \in Nat,
         cc.need = 0, cc.sent = codec.sent + n, cc.made \in Nat,
         cc.sent <= cc.made, cc.made <= cc.frames * FRAME,
         cc.length = 0 \/ cc.made < cc.length => cc.made = cc.frames * FRAME,
         cc.length > 0 => cc.made <= cc.length,
         cc.made = cc.sent \/ n = call.want,
         \/ n = call.want /\ Done(Advanced(n), cc)
         \/ /\ d' = Advanced(n) /\ codec' = cc /\ pc' = "frames" /\ UNCHANGED error
            /\ call' = Phase(call.writing, call.want - n)
  PROVE  Right'
<1> DEFINE f == call.file
<1>1. /\ codec.on /\ pos \in Nat /\ d \in States /\ call \in Calls /\ f \in Files
      /\ call.image = d.infh /\ d.offset \in Nat /\ out \in Seq(Nat) /\ call.want \in Nat
      /\ codec.sent \in Nat /\ error \in Errors /\ call.writing \in BOOLEAN
  BY DEF Inv, Right, Natural, Plain, DecoderUp, Decoding, InStep, At, Typed, InCall, Calls
<1>2. /\ f.offset \in Nat /\ f.length \in Nat /\ f # NULL /\ f.section = 1
      /\ Sound(f) => BeginningOf(out, f)
      /\ call.writing => d.offset = f.offset + Len(out) /\ Len(out) + call.want = f.length
      /\ ~call.writing => out = <<>> /\ d.offset + call.want = f.offset
  BY <1>1, FilesType DEF Right, Asked, Decoding, OutKept
<1>3. /\ data \in Seq(Nat) /\ Len(data) = n
      /\ ~codec.junk => \A i \in 1..n : data[i] = d.offset + i
  BY <1>1, UnitsType
<1>4. Len(out) \in Nat
  BY <1>1
<1>5. Sound(f) /\ codec.junk => n = 0
  <2> SUFFICES ASSUME Sound(f), codec.junk PROVE n = 0
    OBVIOUS
  <2>1. Good(d.infh) /\ f.offset + f.length <= End(d.infh)
    BY <1>1, <1>2, SoundGood
  <2>2. d.offset >= End(d.infh)
    BY <1>1, <2>1 DEF Right, Undamaged
  <2>3. End(d.infh) \in Nat
    <3>1. Len(Image[d.infh].frames) \in Nat
      <4>1. d.infh \in Images
        BY <1>1, <1>2 DEF Inv, InCall, Typed, Headers, Decoding
      <4> QED BY <4>1, DiskType
    <3> QED BY <3>1, Together DEF End
  <2>4. d.offset + call.want <= f.offset + f.length
    BY <1>1, <1>2, <1>4, SMTT(40)
  <2>5. /\ call.want \in Nat /\ d.offset \in Nat /\ f.offset + f.length \in Nat
    <3>1. call.want \in Nat /\ d.offset \in Nat
      BY <1>1
    <3>2. f.offset \in Nat /\ f.length \in Nat
      BY <1>2
    <3> HIDE DEF f
    <3> QED BY <3>1, <3>2
  <2> HIDE DEF f
  <2> QED BY <2>1, <2>2, <2>3, <2>4, <2>5, NothingLeft
<1>6. /\ out' \in Seq(Nat) /\ Len(out') = IF call.writing THEN Len(out) + n ELSE 0
      /\ Sound(f) => BeginningOf(out', f)
      /\ ~call.writing => out' = <<>>
  <2>1. CASE ~call.writing
    BY <1>1, <1>2, <2>1 DEF Write
  <2>2. CASE call.writing
    <3>1. out' = out \o data
      BY <2>2 DEF Write
    <3>2. Sound(f) => \A i \in 1..Len(data) : data[i] = f.offset + Len(out) + i
      BY <1>2, <1>3, <1>4, <1>5, <2>2
    <3>3. Len(out) + Len(data) <= f.length
      BY <1>1, <1>2, <1>3, <1>4, <2>2
    <3> HIDE DEF f
    <3>4. Sound(f) => BeginningOf(out \o data, f)
      BY <1>1, <1>2, <1>3, <3>2, <3>3, GoesOn
    <3> QED BY <1>1, <1>3, <2>2, <3>1, <3>4, Behind
  <2> QED BY <2>1, <2>2
<1>7. /\ Advanced(n) \in States /\ Advanced(n).offset = d.offset + n
      /\ Advanced(n).infh = d.infh
  BY <1>1, AdvancedType
<1>8. /\ Saved(Advanced(n), pos).offset = d.offset + n /\ Saved(Advanced(n), pos).infh = d.infh
      /\ Saved(Advanced(n), pos).inoffset = pos
  <2> DEFINE a == Advanced(n)
  <2>1. a \in States /\ a.offset = d.offset + n /\ a.infh = d.infh
    BY <1>7
  <2> HIDE DEF a
  <2>2. /\ Saved(a, pos).offset = d.offset + n /\ Saved(a, pos).infh = d.infh
        /\ Saved(a, pos).inoffset = pos
    BY <2>1 DEF Saved, States
  <2> QED BY <2>2 DEF a
<1>9. /\ codec' = cc /\ pc' \in {"idle", "decompress", "frames"}
      /\ pc' = "frames" => call' = Phase(call.writing, call.want - n) /\ error' = error
      /\ pc' = "decompress" => ~call.writing /\ n = call.want /\ call' = Phase(TRUE, f.length)
                               /\ error' = error
      /\ pc' = "idle" => call.writing /\ n = call.want /\ call' = Phase(TRUE, 0) /\ error' = "OK"
      /\ d' = IF pc' = "idle" THEN Saved(Advanced(n), pos) ELSE Advanced(n)
  BY DEF Done, Return, Goto
<1>10. /\ d'.offset = d.offset + n /\ d'.infh = d.infh /\ At' = pos /\ At = pos
  BY <1>7, <1>8, <1>9 DEF At, Decoding
<1>11. /\ call'.image = call.image /\ call'.file = f /\ call'.length = call.length
       /\ pc' = "frames" => call'.want = call.want - n /\ call'.writing = call.writing
       /\ pc' = "decompress" => call'.want = f.length /\ call'.writing
       /\ pc' = "idle" => call'.want = 0
  BY <1>1, <1>9 DEF Phase, Calls
<1>12. Natural'
  <2>1. call'.want \in Nat
    BY <1>1, <1>2, <1>9, <1>11
  <2>2. d.offset \in Nat /\ codec.sent \in Nat /\ codec.length \in Nat
    BY DEF Right, Natural
  <2>3. d'.offset \in Nat /\ codec'.sent \in Nat /\ codec'.length \in Nat
    BY <1>9, <1>10, <2>2
  <2> QED BY <1>9, <1>11, <2>1, <2>3 DEF Right, Natural
<1>13. Plain'
  BY <1>6, <1>9 DEF Right, Plain, NoFault, Errors
<1>14. Counted'
  BY <1>1, <1>9, <1>11 DEF Counted
<1>15. Undamaged'
  <2>1. codec'.eof => At' >= StreamEnd(d'.infh)
    BY <1>1, <1>9, <1>10 DEF Right, Undamaged, StreamEnd
  <2>2. codec'.junk /\ Good(d'.infh) => d'.offset >= End(d'.infh)
    <3>1. End(d.infh) \in Nat
      <4>1. d.infh \in Images
        BY <1>1, <1>2 DEF Inv, InCall, Typed, Headers, Decoding
      <4>2. Len(Image[d.infh].frames) \in Nat
        BY <4>1, DiskType
      <4> QED BY <4>2, Together DEF End
    <3>2. codec.junk /\ Good(d.infh) => d.offset >= End(d.infh)
      BY <1>1 DEF Right, Undamaged
    <3> QED BY <1>1, <1>9, <1>10, <3>1, <3>2
  <2> QED BY <2>1, <2>2 DEF Undamaged, StreamEnd, Good, End
<1>16. Asked'
  <2>1. CASE pc' = "idle"
    BY <2>1 DEF Asked, Decoding
  <2>2. CASE pc' = "decompress"
    <3>1. /\ call'.writing /\ out' = <<>> /\ call'.want = f.length /\ Len(out') = 0
      BY <1>6, <1>9, <1>11, <2>2
    <3>2. d'.offset = f.offset
      BY <1>2, <1>9, <1>10, <2>2
    <3>3. d'.offset = f.offset + Len(out') /\ Len(out') + call'.want = f.length
      BY <1>2, <3>1, <3>2
    <3> QED BY <1>2, <1>11, <2>2, <3>1, <3>3 DEF Asked, Decoding
  <2>3. CASE pc' = "frames"
    <3>1. call'.want = call.want - n /\ call'.writing = call.writing /\ d'.offset = d.offset + n
      BY <1>10, <1>11, <2>3
    <3>2. CASE call.writing
      <4>1. Len(out') = Len(out) + n
        BY <1>6, <3>2
      <4>2. d'.offset = f.offset + Len(out') /\ Len(out') + call'.want = f.length
        <5>1. /\ call.want \in Nat /\ d.offset = f.offset + Len(out)
              /\ Len(out) + call.want = f.length
          BY <1>1, <1>2, <3>2
        <5> HIDE DEF f
        <5> QED BY <1>2, <1>4, <3>1, <4>1, <5>1
      <4> QED BY <1>2, <1>11, <2>3, <3>1, <3>2, <4>2 DEF Asked, Decoding
    <3>3. CASE ~call.writing
      <4>1. out' = <<>> /\ d'.offset + call'.want = f.offset
        BY <1>2, <1>6, <3>1, <3>3, d.offset \in Nat /\ call.want \in Nat DEF Right, Natural
      <4> QED BY <1>2, <1>11, <2>3, <3>1, <3>3, <4>1 DEF Asked, Decoding
    <3> QED BY <3>2, <3>3
  <2> QED BY <1>9, <2>1, <2>2, <2>3
<1>17. OutKept'
  <2>1. Sound(f)' <=> Sound(f)
    BY <1>11, SoundStays
  <2>2. pc' = "idle" => Len(out') = f.length
    BY <1>1, <1>2, <1>4, <1>6, <1>9
  <2> QED BY <1>6, <1>11, <2>1, <2>2 DEF OutKept, BeginningOf
<1> QED BY <1>12, <1>13, <1>14, <1>15, <1>16, <1>17 DEF Right

\* A write fails, after some of it perhaps.
LEMMA WriteFailsRight ==
  ASSUME Inv, Right, Decoding, NEW n \in Nat, n <= call.want,
         NEW data \in Units(d.offset, n, codec.junk), WriteFails(data)
  PROVE  Right'
<1> DEFINE f == call.file
<1>1. /\ codec.on /\ d \in States /\ f \in Files /\ call.image = d.infh
      /\ d.offset \in Nat /\ out \in Seq(Nat) /\ call.want \in Nat
      /\ Len(out) \in Nat
  BY DEF Inv, Right, Natural, Plain, DecoderUp, Decoding, Typed, InCall
<1>2. /\ f.offset \in Nat /\ f.length \in Nat /\ f # NULL /\ f.section = 1 /\ call.writing
      /\ Sound(f) => BeginningOf(out, f)
      /\ d.offset = f.offset + Len(out) /\ Len(out) + call.want = f.length
  BY <1>1, FilesType DEF Right, Asked, Decoding, OutKept, WriteFails
<1>3. /\ data \in Seq(Nat) /\ Len(data) = n
      /\ ~codec.junk => \A i \in 1..n : data[i] = d.offset + i
  BY <1>1, UnitsType
<1>4. PICK m \in 0..Len(data) - 1 : out' = out \o SubSeq(data, 1, m)
  BY DEF WriteFails
<1>5. ~(Sound(f) /\ codec.junk)
  <2> SUFFICES ASSUME Sound(f), codec.junk PROVE FALSE
    OBVIOUS
  <2>1. Good(d.infh) /\ f.offset + f.length <= End(d.infh)
    BY <1>1, <1>2, SoundGood
  <2>2. d.offset >= End(d.infh)
    BY <1>1, <2>1 DEF Right, Undamaged
  <2>3. End(d.infh) \in Nat
    <3>1. d.infh \in Images
      BY <1>1, <1>2 DEF Inv, InCall, Typed, Headers, Decoding
    <3>2. Len(Image[d.infh].frames) \in Nat
      BY <3>1, DiskType
    <3> QED BY <3>2, Together DEF End
  <2> QED BY <1>1, <1>2, <1>3, <1>4, <2>1, <2>2, <2>3, SMTT(40)
<1> DEFINE t == SubSeq(data, 1, m)
<1>6. t \in Seq(Nat) /\ Len(t) = m /\ \A i \in 1..m : t[i] = data[i]
  <2>1. m \in 0..Len(data)
    BY <1>3, <1>4
  <2> QED BY <1>3, <2>1, Piece
<1> HIDE DEF t
<1>7. out' \in Seq(Nat) /\ (Sound(f) => BeginningOf(out', f))
  <2>1. out' = out \o t
    BY <1>4 DEF t
  <2>2. Sound(f) => \A i \in 1..Len(t) : t[i] = f.offset + Len(out) + i
    BY <1>1, <1>2, <1>3, <1>4, <1>5, <1>6
  <2>3. Len(out) + Len(t) <= f.length
    BY <1>1, <1>2, <1>3, <1>4, <1>6
  <2> HIDE DEF f
  <2> QED BY <1>1, <1>2, <1>6, <2>1, <2>2, <2>3, GoesOn, Behind
<1>8. /\ Advanced(n) \in States /\ Advanced(n).offset \in Nat
      /\ Useless("WRITE", Advanced(n), pos)
  <2>1. Advanced(n) \in States /\ Advanced(n).offset = d.offset + n
    BY <1>1, AdvancedType
  <2>2. d.offset + n \in Nat
    BY <1>1
  <2> QED BY <1>3, <2>1, <2>2 DEF WriteFails
<1>9. faults' \in 0..MaxFaults /\ clean' \in BOOLEAN
  BY FaultType DEF WriteFails
<1>10. "WRITE" \in Errors \ {"OK"}
  BY DEF Errors
<1> DEFINE dd == Advanced(n)
           e == "WRITE"
<1>11. dd \in States /\ dd.offset \in Nat /\ e \in Errors \ {"OK"} /\ Useless(e, dd, pos)
  BY <1>8, <1>10
<1> HIDE DEF dd, e
<1> QED BY <1>7, <1>9, <1>11, UselessRight
-----------------------------------------------------------------------------
(* Each step.                                                               *)

LEMMA FreshNumbers ==
  /\ NoCodec.length = 0 /\ NoCodec.got = 0 /\ NoCodec.made = 0 /\ NoCodec.sent = 0
  /\ NoCodec.need = 0 /\ NoCodec.size = 0 /\ NoState.offset = 0
  /\ NoCall.want = 0 /\ NoCall.length = 0 /\ NoCall.file = NULL
  /\ ~NoCodec.on
  BY DEF NoCodec, NoState, NoCall

LEMMA InitRight == Init => Right
<1> SUFFICES ASSUME Init PROVE Right
  OBVIOUS
<1>1. Natural /\ ~codec.on /\ pc = "idle" /\ call.file = NULL
  BY FreshNumbers DEF Init, Natural
<1>2. Plain
  BY ChmAssumption DEF Init, Plain, Errors
<1> QED BY <1>1, <1>2 DEF Right, Counted, Undamaged, Asked, OutKept, Decoding

LEMMA OpenCloseRight ==
  ASSUME Right, NEW c \in Helpfile,
         \/ \E img \in Opens[c] : Open(c, img)
         \/ OpenFails(c) \/ Close(c)
  PROVE  Right'
<1>1. /\ pc = "idle" /\ pc' = "idle" /\ call' = NoCall /\ out' = <<>>
      /\ UNCHANGED <<d, codec>> \/ (d' = NoState /\ codec' = NoCodec)
      /\ error' \in Errors /\ (Fault \/ NoFault)
  BY DEF Open, OpenFails, Close, Dropped, Errors, NoFault
<1>2. faults' \in 0..MaxFaults /\ clean' \in BOOLEAN
  BY <1>1, FaultType
<1>3. Natural' /\ OutKept' /\ (~codec'.on \/ UNCHANGED <<d, codec>>)
  BY <1>1, FreshNumbers DEF Right, Natural, OutKept
<1>4. Plain'
  BY <1>1, <1>2 DEF Plain
<1> QED BY <1>1, <1>3, <1>4, EndsRight DEF Decoding

LEMMA StartRight ==
  ASSUME Inv, Right, NEW c \in Helpfile, NEW f \in Files, Start(c, f)
  PROVE  Right'
<1> DEFINE opened(name) == [chm |-> c, offset |-> 0, inoffset |-> d.inoffset, infh |-> name]
<1>1. /\ pc = "idle" /\ out' = <<>>
      /\ call' = [NoCall EXCEPT !.chm = c, !.image = chm[c].image, !.file = f]
      /\ \/ UNCHANGED <<d, codec, pos>>
         \/ UNCHANGED <<d, pos>> /\ codec' = NoCodec
         \/ codec' = NoCodec /\ \E name : d' = opened(name)
      /\ \/ pc' = "idle" /\ error' \in Errors \ {"OK"}
         \/ pc' = "idle" /\ error' = "OK" /\ f.length = 0
         \/ pc' \in {"copy", "content", "seek"} /\ error' = "OK"
      /\ Fault \/ Begins
  BY DEF Start, Return, Errors
<1>2. /\ pc' = "content" => f.section = 1
      /\ pc' = "seek" => f.section = 1 /\ UNCHANGED <<d, codec, pos>> /\ f.offset >= d.offset
  <2>1. ASSUME pc' = "content" PROVE f.section = 1
    BY <2>1 DEF Start, Return
  <2>2. ASSUME pc' = "seek"
        PROVE  f.section = 1 /\ UNCHANGED <<d, codec, pos>> /\ f.offset >= d.offset
    <3>1. f.section = 1 /\ ~Reopens(c) /\ ~Restarts(c, f) /\ codec' = codec
      BY <2>2 DEF Start, Return
    <3>2. UNCHANGED <<d, pos>>
      BY <2>2, <3>1 DEF Start, Return
    <3>3. f.offset \in Nat /\ d.offset \in Nat
      BY FilesType DEF Right, Natural
    <3> QED BY <3>1, <3>2, <3>3 DEF Restarts
  <2> QED BY <2>1, <2>2
<1>3. call'.file = f /\ call'.want = 0 /\ call'.length = 0
  BY <1>1 DEF NoCall
<1>4. f.offset \in Nat /\ f.length \in Nat
  BY FilesType
<1>5. d'.offset \in {0, d.offset} /\ (~codec'.on \/ UNCHANGED <<d, codec, pos>>)
  BY <1>1, FreshNumbers
<1>6. Natural'
  BY <1>1, <1>3, <1>5, FreshNumbers DEF Right, Natural
<1>7. Plain'
  <2>1. faults' \in 0..MaxFaults /\ clean' \in BOOLEAN
    BY <1>1, FaultType
  <2> QED BY <1>1, <2>1 DEF Plain, Errors
<1>8. OutKept'
  BY <1>1, <1>3, <1>4 DEF OutKept, BeginningOf
<1>9. Counted' /\ Undamaged'
  BY <1>1, <1>5 DEF Right, Counted, Undamaged, At, Decoding, StreamEnd, FrameSize
<1>10. Asked'
  BY <1>1, <1>2, <1>3 DEF Asked, Decoding
<1> QED BY <1>6, <1>7, <1>8, <1>9, <1>10 DEF Right

LEMMA CopyRight == ASSUME Inv, Right, Copy PROVE Right'
<1> DEFINE f == call.file
<1>1. f \in Files /\ f.offset \in Nat /\ f.length \in Nat /\ f # NULL /\ d.infh = call.image
  BY FilesType DEF Copy, Inv, InCall
<1>2. PICK data \in Units(f.offset, f.length, FALSE) :
        \/ NoFault /\ out' = data /\ pc' = "idle" /\ error' = "OK"
        \/ Fault /\ out' = <<>> /\ pc' = "idle" /\ error' = "SEEK"
        \/ /\ Fault /\ pc' = "idle" /\ error' \in {"READ", "WRITE"}
           /\ \E m \in 0..Len(data) - 1 : out' = SubSeq(data, 1, m)
  BY DEF Copy, Return
<1>3. /\ data \in Seq(Nat) /\ Len(data) = f.length
      /\ \A i \in 1..f.length : data[i] = f.offset + i
  <2> DEFINE junk == FALSE
  <2>1. data \in Units(f.offset, f.length, junk) /\ ~junk
    BY <1>2
  <2> HIDE DEF junk, f
  <2> QED BY <1>1, <2>1, UnitsType
<1>4. /\ pc = "copy" /\ UNCHANGED <<d, codec, call>>
  BY DEF Copy
<1>5. out' \in Seq(Nat) /\ BeginningOf(out', f)
  <2>1. CASE out' = data
    BY <1>1, <1>3, <2>1 DEF BeginningOf
  <2>2. CASE out' = <<>>
    BY <1>1, <2>2 DEF BeginningOf
  <2>3. ASSUME NEW m \in 0..Len(data) - 1, out' = SubSeq(data, 1, m)
        PROVE  out' \in Seq(Nat) /\ BeginningOf(out', f)
    <3>1. m \in 0..Len(data)
      BY <1>3
    <3>2. out' \in Seq(Nat) /\ Len(out') = m /\ \A i \in 1..m : out'[i] = data[i]
      BY <1>3, <2>3, <3>1, Piece
    <3> QED BY <1>1, <1>3, <2>3, <3>2 DEF BeginningOf
  <2> QED BY <1>2, <2>1, <2>2, <2>3
<1>6. Plain'
  <2>1. faults' \in 0..MaxFaults /\ clean' \in BOOLEAN
    BY <1>2, FaultType
  <2> QED BY <1>2, <1>5, <2>1 DEF Plain, Errors
<1>7. OutKept'
  BY <1>2, <1>3, <1>4, <1>5 DEF OutKept, BeginningOf
<1>8. Natural'
  BY <1>4 DEF Right, Natural
<1>9. pc' = "idle" /\ ~Decoding /\ UNCHANGED <<d, codec>>
  BY <1>2, <1>4 DEF Decoding
<1> QED BY <1>6, <1>7, <1>8, <1>9, EndsRight

\* chmd_init_decomp up to the decoder.
LEMMA BeforeRight ==
  ASSUME Right, ~codec.on, UNCHANGED <<d, codec, out>>,
         pc \in {"content", "control", "controldata", "rtable", "rtabledata", "spaninfo", "spandata"},
         pc' \in {"idle", "control", "controldata", "rtable", "rtabledata", "spaninfo", "spandata", "init"},
         error' \in Errors, pc' = "idle" => error' # "OK", Fault \/ NoFault,
         call'.file = call.file, call'.image = call.image,
         call'.want = call.want, call'.length \in Nat,
         pc' = "init" => /\ call'.entry * FRAME <= call.file.offset
                         /\ Good(call.image) =>
                              call'.offset = EndOf(Image[call.image].frames, call'.entry)
  PROVE  Right'
<1>1. Natural' /\ Counted' /\ Undamaged'
  BY DEF Right, Natural, Counted, Undamaged
<1>2. Plain'
  BY FaultType DEF Right, Plain
<1>3. OutKept'
  BY SoundStays DEF Right, OutKept, BeginningOf
<1>4. Asked'
  BY DEF Right, Asked, Decoding, Good
<1> QED BY <1>1, <1>2, <1>3, <1>4 DEF Right

LEMMA FindRight ==
  ASSUME Inv, Right, InitContent \/ InitControl \/ FindTable \/ FindSpanInfo
  PROVE  Right'
<1>1. PICK x \in SysFile, r \in Errors, e \in Errors :
        /\ Find(x, r, e) /\ error' \in {r, e, "DATAFORMAT"}
        /\ pc' = "idle" => error' # "OK"
  BY DEF InitContent, InitControl, FindTable, FindSpanInfo, Return, SysFile
<1>2. /\ UNCHANGED <<d, codec, pos, call, out>>
      /\ pc \in {"content", "control", "rtable", "spaninfo"}
      /\ pc' \in {"idle", "control", "controldata", "rtabledata", "spaninfo", "spandata"}
  BY DEF InitContent, InitControl, FindTable, FindSpanInfo, Return
<1>3. (Fault \/ NoFault) /\ error' \in Errors
  BY <1>1 DEF Find, Errors
<1>4. ~codec.on /\ call.length \in Nat
  BY <1>2 DEF Inv, DecoderUp, Right, Natural
<1> QED BY <1>1, <1>2, <1>3, <1>4, BeforeRight

LEMMA ReadRight ==
  ASSUME Inv, Right, ReadControl \/ ReadTable \/ ReadSpanInfo
  PROVE  Right'
<1>1. /\ UNCHANGED <<d, codec, out>>
      /\ pc \in {"controldata", "rtabledata", "spandata"}
      /\ pc' \in {"idle", "rtable", "spaninfo", "init"}
      /\ Fault \/ NoFault
  BY DEF ReadControl, ReadTable, ReadSpanInfo, Return, Goto
<1>2. /\ call.image \in Images /\ call.file \in Files /\ call \in Calls
      /\ call.file.offset \in Nat /\ disk = Image[call.image]
  <2>1. call.chm \in Helpfile /\ chm[call.chm] # NULL /\ call.image = chm[call.chm].image
        /\ call.file \in Files
    BY <1>1 DEF Inv, InCall
  <2> QED BY <2>1, FilesType DEF Inv, Typed, Headers, disk
<1>3. disk.interval \in Nat \ {0} /\ disk.rtable.length \in Nat /\ disk.span \in Nat
  BY <1>2, DiskType
<1>4. error \in Errors /\ ~codec.on /\ call.length \in Nat
  BY <1>1 DEF Right, Plain, Natural, Inv, DecoderUp
<1>5. error' \in Errors /\ (pc' = "idle" => error' # "OK")
  <2>1. CASE ReadControl
    <3>1. disk.control \in {"OK", "SIGNATURE", "DATAFORMAT"}
      BY <1>2, ChmAssumption DEF Disk
    <3> QED BY <1>4, <2>1, <3>1 DEF ReadControl, Return, Goto, ReadErrors, Errors
  <2>2. CASE ReadTable
    BY <1>4, <2>2 DEF ReadTable, Goto, ReadErrors, Errors
  <2>3. CASE ReadSpanInfo
    BY <1>4, <2>3 DEF ReadSpanInfo, Return, Goto, ReadErrors, Errors
  <2> QED BY <2>1, <2>2, <2>3
<1>6. ASSUME NEW entry \in Nat, NEW offset, NEW length \in Nat,
             call' = [call EXCEPT !.entry = entry, !.offset = offset, !.length = length],
             entry * FRAME <= call.file.offset,
             Good(call.image) => offset = EndOf(Image[call.image].frames, entry)
      PROVE  Right'
  <2>1. /\ call'.file = call.file /\ call'.image = call.image /\ call'.want = call.want
        /\ call'.entry = entry /\ call'.offset = offset /\ call'.length = length
    BY <1>2, <1>6 DEF Calls
  <2> QED BY <1>1, <1>4, <1>5, <1>6, <2>1, BeforeRight
<1>7. CASE call' = call /\ pc' # "init"
  BY <1>1, <1>4, <1>5, <1>7, BeforeRight
<1>8. CASE ReadSpanInfo /\ pc' = "init"
  <2> DEFINE length == disk.span
  <2>1. call' = [call EXCEPT !.entry = 0, !.offset = 0, !.length = length] /\ length \in Nat
    BY <1>3, <1>8 DEF ReadSpanInfo, Return
  <2>2. 0 * FRAME <= call.file.offset /\ EndOf(Image[call.image].frames, 0) = 0
    BY <1>2, ChmAssumption DEF EndOf
  <2> HIDE DEF length
  <2> QED BY <1>6, <2>1, <2>2
<1>9. CASE ReadTable /\ pc' = "init"
  <2> DEFINE reset == disk.interval * FRAME
             q == call.file.offset \div reset
             entry == q * disk.interval
             offset == disk.rtable.offsets[entry + 1]
             length == Padded(disk.rtable.length)
  <2>1. /\ entry < Len(disk.rtable.offsets)
        /\ call' = [call EXCEPT !.entry = entry, !.offset = offset, !.length = length]
    BY <1>9 DEF ReadTable, Goto
  <2>2. length \in Nat
    BY <1>3, PaddedType
  <2>3. reset \in Nat \ {0}
    BY <1>3, ChmAssumption
  <2>4. q \in Nat /\ q * reset <= call.file.offset
    <3> HIDE DEF reset
    <3> QED BY <1>2, <2>3, Quotient
  <2>5. entry \in Nat
    <3> HIDE DEF q
    <3> QED BY <1>3, <2>4, InNat
  <2>6. entry * FRAME = q * reset
    <3> HIDE DEF q
    <3>1. \A i, k, n \in Nat : (i * k) * n = i * (k * n)
      OBVIOUS
    <3> QED BY <1>3, <2>4, <3>1, ChmAssumption
  <2>7. Good(call.image) => offset = EndOf(Image[call.image].frames, entry)
    <3> HIDE DEF entry
    <3>1. disk.rtable.offsets \in Seq(Nat)
      BY <1>2, DiskType
    <3>2. entry + 1 \in DOMAIN disk.rtable.offsets /\ (entry + 1) - 1 = entry
      BY <2>1, <2>5, <3>1
    <3> QED BY <1>2, <3>2 DEF Good
  <2>8. entry * FRAME <= call.file.offset
    BY <2>4, <2>6
  <2> HIDE DEF q, entry, offset, length
  <2> QED BY <1>6, <2>1, <2>2, <2>5, <2>7, <2>8
<1>10. \/ call' = call /\ pc' # "init"
       \/ ReadSpanInfo /\ pc' = "init"
       \/ ReadTable /\ pc' = "init"
  BY DEF ReadControl, ReadTable, ReadSpanInfo, Return, Goto
<1> QED BY <1>7, <1>8, <1>9, <1>10

LEMMA InitStreamRight == ASSUME Inv, Inv', Right, InitStream PROVE Right'
<1> DEFINE length == call.length - call.entry * FRAME
<1>1. /\ pc = "init" /\ out' = out /\ (Fault \/ NoFault)
      /\ d' = [d EXCEPT !.offset = call.entry * FRAME, !.inoffset = call.offset]
      /\ call' = [call EXCEPT !.entry = 0, !.offset = 0, !.length = 0]
      /\ \/ pc' = "idle" /\ error' = "NOMEMORY" /\ codec' = codec
         \/ /\ length >= 0 /\ error' = error
            /\ pc' = IF error = "OK" THEN "seek" ELSE "idle"
            /\ codec' = [NoCodec EXCEPT !.on = TRUE, !.entry = call.entry, !.length = length,
                                        !.junk = call.offset # InputTo(call.entry)]
  BY DEF InitStream, Return, Goto
<1>2. /\ call.entry \in Nat /\ call.length \in Nat /\ d.infh = call.image /\ ~codec.on
      /\ call \in Calls /\ d \in States /\ call.file \in Files
  BY <1>1 DEF Inv, InCall, Typed, Calls, DecoderUp, Right, Natural
<1>3. call.entry * FRAME \in Nat
  BY <1>2, Together
<1>4. d'.offset = call.entry * FRAME /\ d'.infh = d.infh
  BY <1>1, <1>2 DEF States
<1>5. call'.file = call.file /\ call'.image = call.image /\ call'.want = call.want
      /\ call'.length = 0
  BY <1>1, <1>2 DEF Calls
<1>6. Plain'
  <2>1. faults' \in 0..MaxFaults /\ clean' \in BOOLEAN
    BY <1>1, FaultType
  <2> QED BY <1>1, <2>1 DEF Right, Plain, Errors
<1>7. /\ out = <<>> /\ call.file.section = 1 /\ call.entry * FRAME <= call.file.offset
      /\ Good(call.image) => call.offset = InputTo(call.entry)
  BY <1>1 DEF Right, Asked, Decoding, InputTo, disk
<1>8. OutKept'
  <2>1. pc' = "idle" => error' # "OK"
    BY <1>1
  <2>2. out' = <<>> /\ call.file.length \in Nat
    BY <1>1, <1>2, <1>7, FilesType
  <2> QED BY <1>5, <2>1, <2>2 DEF OutKept, BeginningOf
<1>9. Asked'
  BY <1>1, <1>4, <1>5, <1>7 DEF Asked, Decoding
<1>10. CASE codec' = codec
  <2>1. Natural'
    BY <1>3, <1>4, <1>5, <1>10 DEF Right, Natural
  <2> QED BY <1>2, <1>6, <1>8, <1>9, <1>10, <2>1 DEF Right, Counted, Undamaged
<1>11. ASSUME length >= 0,
              codec' = [NoCodec EXCEPT !.on = TRUE, !.entry = call.entry, !.length = length,
                                       !.junk = call.offset # InputTo(call.entry)]
       PROVE  Right'
  <2>1. codec' = [on |-> TRUE, entry |-> call.entry, length |-> length, got |-> 0,
                  junk |-> call.offset # InputTo(call.entry), eof |-> FALSE, frames |-> 0,
                  made |-> 0, sent |-> 0, need |-> 0, size |-> 0]
    BY <1>11 DEF NoCodec
  <2>2. length \in Nat
    BY <1>2, <1>3, <1>11
  <2>3. Natural'
    BY <1>3, <1>4, <1>5, <2>1, <2>2 DEF Right, Natural
  <2>4. Undamaged'
    BY <1>2, <1>4, <1>7, <2>1 DEF Undamaged, Good
  <2>5. Counted'
    <3>1. 0 * FRAME = 0
      BY ChmAssumption
    <3>2. pc' # "frames"
      BY <1>1
    <3> HIDE DEF length
    <3> QED BY <2>1, <2>2, <3>1, <3>2 DEF Counted
  <2> QED BY <1>6, <1>8, <1>9, <2>3, <2>4, <2>5 DEF Right
<1> QED BY <1>1, <1>10, <1>11

LEMMA SeekRight == ASSUME Inv, Right, Seek PROVE Right'
<1> DEFINE bytes == call.file.offset - d.offset
<1>1. /\ pc = "seek" /\ UNCHANGED <<chm, d, codec, out>> /\ (Fault \/ NoFault)
      /\ \/ pc' = "idle" /\ error' = "SEEK" /\ call' = call
         \/ /\ pos' = d.inoffset /\ pc' = "decompress" /\ error' = error
            /\ \/ bytes # 0 /\ call' = Phase(FALSE, bytes)
               \/ bytes = 0 /\ call' = Phase(TRUE, call.file.length)
  BY DEF Seek, Return, Goto
<1>2. /\ call.file \in Files /\ call \in Calls /\ call.file.section = 1 /\ out = <<>>
      /\ d.offset <= call.file.offset /\ d.offset \in Nat
      /\ call.file.offset \in Nat /\ call.file.length \in Nat
  BY <1>1, FilesType DEF Inv, InCall, Typed, Right, Natural, Asked, Decoding
<1>3. bytes \in Nat
  BY <1>2
<1>4. Plain'
  <2>1. faults' \in 0..MaxFaults /\ clean' \in BOOLEAN
    BY <1>1, FaultType
  <2> QED BY <1>1, <2>1 DEF Right, Plain, Errors
<1>5. /\ call'.file = call.file /\ call'.image = call.image /\ call'.length = call.length
      /\ \/ call'.want = call.want /\ pc' = "idle"
         \/ call'.want = bytes /\ ~call'.writing
         \/ call'.want = call.file.length /\ call'.writing /\ bytes = 0
  BY <1>1, <1>2 DEF Phase, Calls
<1>6. Natural'
  BY <1>1, <1>2, <1>3, <1>5 DEF Right, Natural
<1>7. OutKept'
  <2>1. pc' = "idle" => error' # "OK"
    BY <1>1
  <2>2. out' = <<>> /\ call.file.length \in Nat /\ call'.file = call.file
    BY <1>1, <1>2, <1>5
  <2> QED BY <2>1, <2>2 DEF OutKept, BeginningOf
<1>8. Counted' /\ Undamaged'
  BY <1>1 DEF Right, Counted, Undamaged, At, Decoding, StreamEnd, FrameSize
<1>9. Asked'
  <2>1. CASE pc' = "idle"
    BY <2>1 DEF Asked, Decoding
  <2>2. CASE pc' = "decompress" /\ call'.want = bytes /\ ~call'.writing
    <3>1. d'.offset + call'.want = call.file.offset /\ out' = <<>>
      BY <1>1, <1>2, <2>2
    <3>2. pc' = "decompress" /\ ~call'.writing /\ call'.file = call.file /\ call'.file.section = 1
      BY <1>2, <1>5, <2>2
    <3>3. Decoding' /\ pc' # "init" /\ pc' # "seek" /\ d'.offset + call'.want = call'.file.offset
      BY <3>1, <3>2 DEF Decoding
    <3> QED BY <3>1, <3>2, <3>3, Zenon DEF Asked
  <2>3. CASE pc' = "decompress" /\ call'.want = call.file.length /\ call'.writing /\ bytes = 0
    <3>1. out' = <<>> /\ Len(out') = 0 /\ d'.offset = call.file.offset
      BY <1>1, <1>2, <2>3
    <3>2. /\ d'.offset = call.file.offset + Len(out')
          /\ Len(out') + call'.want = call.file.length
      BY <1>2, <2>3, <3>1
    <3> QED BY <1>2, <1>5, <2>3, <3>1, <3>2 DEF Asked, Decoding
  <2> QED BY <1>1, <1>5, <2>1, <2>2, <2>3
<1> QED BY <1>4, <1>6, <1>7, <1>8, <1>9 DEF Right

\* "flush out any stored-up bytes before we begin"
LEMMA EnterRight == ASSUME Inv, Right, Enter PROVE Right'
<1> DEFINE i == MinOf(codec.made - codec.sent, call.want)
           cc == [codec EXCEPT !.sent = @ + i]
<1>1. /\ Decoding /\ codec.on /\ codec \in Codecs /\ UNCHANGED pos /\ pc = "decompress"
  BY DEF Enter, Decoding, Inv, DecoderUp, Typed
<1>2. /\ codec.made \in Nat /\ codec.sent \in Nat /\ call.want \in Nat /\ codec.size \in Nat
      /\ codec.got \in Nat /\ codec.length \in Nat /\ codec.need = 0
      /\ codec.sent <= codec.made /\ codec.made <= codec.frames * FRAME
      /\ codec.length = 0 \/ codec.made < codec.length => codec.made = codec.frames * FRAME
      /\ codec.length > 0 => codec.made <= codec.length
  BY <1>1 DEF Right, Natural, Counted
<1>3. i \in Nat /\ i <= call.want /\ codec.sent + i <= codec.made
      /\ (i # call.want => codec.sent + i = codec.made)
  BY <1>2 DEF MinOf
<1>4. Place(codec.sent) = d.offset
  BY <1>1 DEF Inv, InStep, Place
<1>5. PICK data \in Units(d.offset, i, codec.junk) :
        \/ /\ NoFault /\ Write(data)
           /\ \/ i = call.want /\ Done(Advanced(i), cc)
              \/ /\ i # call.want /\ d' = Advanced(i) /\ codec' = cc
                 /\ call' = Phase(call.writing, call.want - i)
                 /\ pc' = "frames" /\ UNCHANGED error
        \/ i > 0 /\ WriteFails(data)
  BY <1>4 DEF Enter, Goto
<1> HIDE DEF i
<1>6. CASE WriteFails(data)
  BY <1>1, <1>3, <1>6, WriteFailsRight
<1>7. CASE ~WriteFails(data)
  <2>1. /\ cc \in Codecs /\ cc.on /\ cc.entry = codec.entry /\ cc.eof = codec.eof
        /\ cc.junk = codec.junk /\ cc.length = codec.length /\ cc.got = codec.got
        /\ cc.size = codec.size /\ cc.need = codec.need /\ cc.sent = codec.sent + i
        /\ cc.made = codec.made /\ cc.frames = codec.frames
    BY <1>1, <1>3 DEF Codecs
  <2> HIDE DEF cc
  <2> QED BY <1>1, <1>2, <1>3, <1>5, <1>7, <2>1, SendsRight
<1> QED BY <1>6, <1>7

LEMMA FramesDoneRight == ASSUME Inv, Right, FramesDone PROVE Right'
<1>1. /\ UNCHANGED <<pos, out>> /\ NoFault /\ Decoding /\ codec.on /\ codec.need = 0
      /\ d \in States /\ codec \in Codecs /\ d.offset \in Nat /\ call.want \in Nat
      /\ out \in Seq(Nat) /\ pc = "frames" /\ codec.sent \in Nat /\ call.file \in Files
  BY DEF FramesDone, NoFault, Decoding, Inv, InCall, DecoderUp, Typed, Right, Natural, Plain
<1>2. CASE call.want > 0
  <2>1. Useless("DECRUNCH", d, pos)
    BY <1>2 DEF FramesDone
  <2>2. "DECRUNCH" \in Errors \ {"OK"}
    BY DEF Errors
  <2>3. faults' \in 0..MaxFaults /\ clean' \in BOOLEAN
    BY <1>1, FaultType
  <2>4. Sound(call.file) => BeginningOf(out', call.file)
    BY <1>1, FilesType DEF Right, OutKept
  <2> DEFINE e == "DECRUNCH"
  <2> HIDE DEF e
  <2>5. e \in Errors \ {"OK"} /\ Useless(e, d, pos)
    BY <2>1, <2>2 DEF e
  <2> QED BY <1>1, <2>3, <2>4, <2>5, UselessRight
<1>3. CASE ~(call.want > 0)
  <2>1. call.want = 0 /\ Done(d, codec)
    BY <1>1, <1>3 DEF FramesDone
  <2>2. Advanced(0) = d
    BY <1>1 DEF Advanced, States
  <2> DEFINE data == [i \in 1..0 |-> d.offset + i]
             n == 0
  <2>3. data \in Units(d.offset, n, codec.junk) /\ Write(data)
    BY <1>1 DEF Units, Write
  <2>4. n \in Nat /\ n = call.want /\ Done(Advanced(n), codec) /\ codec.sent = codec.sent + n
    BY <1>1, <2>1, <2>2
  <2> HIDE DEF data, n
  <2>5. /\ codec.got \in Nat /\ codec.size \in Nat /\ codec.made \in Nat
        /\ codec.sent <= codec.made /\ codec.made <= codec.frames * FRAME
        /\ codec.length = 0 \/ codec.made < codec.length => codec.made = codec.frames * FRAME
        /\ codec.length > 0 => codec.made <= codec.length
    BY <1>1 DEF Right, Natural, Counted
  <2> QED BY <1>1, <2>3, <2>4, <2>5, SendsRight, SMTT(40)
<1> QED BY <1>2, <1>3

\* Input that cannot be read, and damaged data.
LEMMA GivesUpRight ==
  ASSUME Inv, Right, pc = "frames", NEW e \in {"READ", "DECRUNCH"}, NEW p, Useless(e, d, p),
         UNCHANGED out, Fault \/ NoFault
  PROVE  Right'
<1>1. /\ d \in States /\ d.offset \in Nat /\ out' \in Seq(Nat) /\ call.file \in Files
      /\ e \in Errors \ {"OK"}
  BY DEF Inv, InCall, Typed, Right, Natural, Plain, Errors
<1>2. Sound(call.file) => BeginningOf(out', call.file)
  BY <1>1, FilesType DEF Right, OutKept
<1>3. faults' \in 0..MaxFaults /\ clean' \in BOOLEAN
  BY FaultType
<1> QED BY <1>1, <1>2, <1>3, UselessRight

LEMMA BeginFrameRight == ASSUME Inv, Inv', Right, BeginFrame PROVE Right'
<1> DEFINE over == codec.junk \/ Frame \in disk.bad \/ (FrameSize > 0 /\ Frame >= Len(disk.frames))
<1>1. /\ UNCHANGED <<chm, d, pos, error, call, out, pc, faults, clean>> /\ pc = "frames"
      /\ codec.on /\ codec.need = 0 /\ WantsFrame /\ codec \in Codecs
      /\ d.infh = call.image /\ call.image \in Images /\ codec.entry \in Nat /\ codec.frames \in Nat
  BY DEF BeginFrame, Inv, InCall, Typed, Headers, DecoderUp, Codecs
<1>2. PICK need \in FrameNeeds :
        codec' = [codec EXCEPT !.need = IF need < 1 THEN 1 ELSE need, !.size = FrameSize,
                               !.junk = over]
  BY DEF BeginFrame
<1>3. /\ codec'.on /\ codec'.entry = codec.entry /\ codec'.eof = codec.eof
      /\ codec'.length = codec.length /\ codec'.got = codec.got /\ codec'.made = codec.made
      /\ codec'.sent = codec.sent /\ codec'.frames = codec.frames /\ codec'.size = FrameSize
      /\ codec'.junk = over /\ codec'.need = IF need < 1 THEN 1 ELSE need
  <2> DEFINE s == FrameSize
             n == IF need < 1 THEN 1 ELSE need
  <2>1. codec' = [codec EXCEPT !.need = n, !.size = s, !.junk = over]
    BY <1>2
  <2> HIDE DEF s, n, over
  <2>2. /\ codec'.on /\ codec'.entry = codec.entry /\ codec'.eof = codec.eof
        /\ codec'.length = codec.length /\ codec'.got = codec.got /\ codec'.made = codec.made
        /\ codec'.sent = codec.sent /\ codec'.frames = codec.frames /\ codec'.size = s
        /\ codec'.junk = over /\ codec'.need = n
    BY <1>1, <2>1 DEF Codecs
  <2> QED BY <2>2 DEF s, n
<1>4. codec'.need \in Nat
  <2>1. codec'.need \in Int
    BY DEF Inv, Typed, Codecs
  <2>2. need \in Int \/ codec'.need = 1
    BY <1>3, <2>1
  <2> QED BY <1>3, <2>1, <2>2
<1>5. /\ codec.made \in Nat /\ codec.sent \in Nat /\ codec.length \in Nat /\ call.want \in Nat
      /\ codec.sent <= codec.made /\ codec.made <= codec.frames * FRAME
      /\ codec.length = 0 \/ codec.made < codec.length => codec.made = codec.frames * FRAME
      /\ codec.length > 0 => codec.made <= codec.length
      /\ codec.made = codec.sent \/ call.want = 0
      /\ FRAME \in Nat \ {0}
  BY <1>1, ChmAssumption DEF Right, Natural, Counted
\* the frame before has been sent
<1>6. codec.made = codec.sent
  <2> SUFFICES ASSUME codec.made # codec.sent PROVE FALSE
    OBVIOUS
  <2> DEFINE q == codec.sent \div FRAME
  <2>1. call.want = 0 /\ codec.sent + 0 = codec.sent
    BY <1>5
  <2>2. codec.frames < q + 1
    BY <1>1, <2>1 DEF WantsFrame
  <2>3. q \in Nat /\ q * FRAME <= codec.sent
    BY <1>5, Quotient
  <2> HIDE DEF q
  <2>4. codec.frames <= q
    BY <1>1, <2>2, <2>3
  <2>5. codec.frames * FRAME <= q * FRAME
    BY <1>1, <2>3, <2>4, Longer
  <2>6. codec.frames * FRAME \in Nat /\ q * FRAME \in Nat
    BY <1>1, <1>5, <2>3, InNat
  <2> QED BY <1>5, <2>3, <2>5, <2>6
<1>7. FrameSize \in Nat
  <2>1. codec.length # 0 => codec.length - codec.sent \in Nat
    BY <1>5, <1>6
  <2> QED BY <1>5, <2>1 DEF FrameSize, MinOf
<1>8. Natural'
  BY <1>1, <1>3, <1>4, <1>5, <1>7 DEF Right, Natural
<1>9. Plain' /\ OutKept' /\ Asked'
  <2>1. OutKept'
    BY <1>1, SoundStays DEF Right, OutKept, BeginningOf
  <2> QED BY <1>1, <2>1 DEF Right, Plain, Asked, Decoding, Good
<1>10. Counted'
  <2>1. FrameSize' = FrameSize
    BY <1>3 DEF FrameSize
  <2> QED BY <1>1, <1>3, <1>5, <1>6, <2>1 DEF Counted
<1>11. ASSUME FrameSize > 0, Frame >= Len(disk.frames) PROVE d.offset >= End(d.infh)
  <2>1. codec.length = 0 \/ codec.made < codec.length
    BY <1>5, <1>6, <1>11 DEF FrameSize, MinOf
  <2>2. codec.sent = codec.frames * FRAME
    BY <1>5, <1>6, <2>1
  <2>3. d.offset = (codec.entry + codec.frames) * FRAME
    <3>1. d.offset = codec.entry * FRAME + codec.sent
      BY <1>1 DEF Inv, InStep
    <3>2. (codec.entry + codec.frames) * FRAME = codec.entry * FRAME + codec.frames * FRAME
      BY <1>1, Together
    <3> QED BY <2>2, <3>1, <3>2
  <2>4. Len(Image[d.infh].frames) \in Nat
    BY <1>1, DiskType
  <2>5. Len(Image[d.infh].frames) <= codec.entry + codec.frames
    BY <1>1, <1>11, <2>4 DEF Frame, disk
  <2>6. codec.entry + codec.frames \in Nat
    BY <1>1
  <2>7. End(d.infh) <= (codec.entry + codec.frames) * FRAME
    BY <2>4, <2>5, <2>6, Longer DEF End
  <2>8. End(d.infh) \in Nat /\ (codec.entry + codec.frames) * FRAME \in Nat
    BY <1>5, <2>4, <2>6, InNat DEF End
  <2> QED BY <2>3, <2>7, <2>8
<1>12. Undamaged'
  <2>1. Good(d.infh) => ~(Frame \in disk.bad)
    BY <1>1 DEF Good, disk
  <2>2. Good(d.infh) /\ over => d.offset >= End(d.infh)
    BY <1>1, <1>11, <2>1 DEF Right, Undamaged
  <2>3. codec.eof => At >= StreamEnd(d.infh)
    BY <1>1 DEF Right, Undamaged
  <2> HIDE DEF over
  <2>4. Good(d.infh)' <=> Good(d.infh)
    BY <1>1 DEF Good
  <2> QED BY <1>1, <1>3, <2>2, <2>3, <2>4 DEF Undamaged, StreamEnd, End, At, Decoding
<1> QED BY <1>8, <1>9, <1>10, <1>12 DEF Right

\* read_input: of a sound stream each unit is given in its turn.
LEMMA InputRight == ASSUME Inv, Right, Input PROVE Right'
<1> DEFINE all == InputTo(Len(disk.frames)) + disk.behind
           n == IF pos > all THEN 0 ELSE MinOf(BUFFER, all - pos)
           inOrder == pos = InputTo(codec.entry) + codec.got
<1>1. /\ UNCHANGED <<chm, out>> /\ pc = "frames" /\ codec.on /\ d \in States /\ codec \in Codecs
      /\ pos \in Nat /\ pos # AWAY /\ d.infh = call.image /\ call.image \in Images
  BY ChmAssumption DEF Input, Inv, InCall, Headers, Typed, DecoderUp, InStep, At, Decoding
<1>2. all \in Nat /\ all = StreamEnd(d.infh)
  <2>1. disk.frames \in Seq(Nat) /\ disk.behind \in Nat
    BY <1>1, DiskType DEF disk
  <2>2. InputTo(Len(disk.frames)) \in Nat
    BY <2>1, EndOfType DEF InputTo
  <2> QED BY <1>1, <2>1, <2>2 DEF StreamEnd, InputTo, disk
<1>3. n \in Nat /\ (n = 0 => pos >= all) /\ (pos >= all => n = 0)
  BY <1>1, <1>2, ChmAssumption DEF MinOf
<1>4. \/ /\ n > 0 /\ NoFault /\ codec' = [codec EXCEPT !.got = @ + n, !.junk = @ \/ ~inOrder]
         /\ pos' = pos + n /\ UNCHANGED <<d, call, pc, error>>
      \/ /\ n = 0 /\ NoFault /\ codec' = [codec EXCEPT !.got = @ + 1, !.eof = TRUE]
         /\ UNCHANGED <<d, pos, call, pc, error>>
      \/ NoFault /\ Useless("READ", d, pos)
      \/ Fault /\ Useless("READ", d, AWAY)
  BY <1>1 DEF Input
<1> HIDE DEF n, all
<1>5. CASE NoFault /\ Useless("READ", d, pos)
  BY <1>1, <1>5, GivesUpRight
<1>6. CASE Fault /\ Useless("READ", d, AWAY)
  BY <1>1, <1>6, GivesUpRight
<1>7. ASSUME NEW k \in Nat, NoFault, UNCHANGED <<d, call, pc, error>>,
             codec'.got = codec.got + k,
             codec'.on, codec'.entry = codec.entry, codec'.length = codec.length,
             codec'.frames = codec.frames, codec'.made = codec.made, codec'.sent = codec.sent,
             codec'.need = codec.need, codec'.size = codec.size,
             codec'.eof => pos' >= StreamEnd(d.infh), codec'.junk => codec.junk
      PROVE  Right'
  <2>1. codec.got + k \in Nat
    BY <1>7 DEF Right, Natural
  <2>2. Natural'
    BY <1>7, <2>1 DEF Right, Natural
  <2>3. Plain'
    BY <1>1, <1>7 DEF Right, Plain, NoFault
  <2>4. OutKept' /\ Asked'
    <3>1. OutKept'
      BY <1>1, <1>7, SoundStays DEF Right, OutKept, BeginningOf
    <3> QED BY <1>1, <1>7, <3>1 DEF Right, Asked, Decoding, Good
  <2>5. Counted'
    BY <1>1, <1>7 DEF Right, Counted, FrameSize
  <2>6. Undamaged'
    <3>1. At' = pos' /\ d'.infh = d.infh /\ d'.offset = d.offset
      BY <1>1, <1>7 DEF At, Decoding
    <3>2. codec.junk /\ Good(d.infh) => d.offset >= End(d.infh)
      BY <1>1 DEF Right, Undamaged
    <3> QED BY <1>7, <3>1, <3>2 DEF Undamaged, StreamEnd, End, Good
  <2> QED BY <2>2, <2>3, <2>4, <2>5, <2>6 DEF Right
<1>8. CASE /\ n > 0 /\ NoFault /\ codec' = [codec EXCEPT !.got = @ + n, !.junk = @ \/ ~inOrder]
           /\ pos' = pos + n /\ UNCHANGED <<d, call, pc, error>>
  <2>1. ~codec.eof
    <3>1. codec.eof => pos >= all
      BY <1>1, <1>2 DEF Right, Undamaged, At, Decoding
    <3> QED BY <1>3, <1>8, <3>1
  <2>2. codec.junk \/ inOrder
    <3> SUFFICES ASSUME ~codec.junk PROVE inOrder
      OBVIOUS
    <3>1. pos + 0 = InputTo(codec.entry) + codec.got
      BY <1>1, <2>1 DEF Inv, InStep, At, Decoding, InputTo, disk
    <3> QED BY <1>1, <3>1
  <2>3. /\ codec'.got = codec.got + n /\ codec'.eof = codec.eof
        /\ codec'.junk = (codec.junk \/ ~inOrder)
        /\ codec'.on /\ codec'.entry = codec.entry /\ codec'.length = codec.length
        /\ codec'.frames = codec.frames /\ codec'.made = codec.made /\ codec'.sent = codec.sent
        /\ codec'.need = codec.need /\ codec'.size = codec.size
    <3> HIDE DEF inOrder
    <3> QED BY <1>1, <1>8 DEF Codecs
  <2>4. ~codec'.eof /\ (codec'.junk => codec.junk)
    BY <2>1, <2>2, <2>3
  <2> QED BY <1>3, <1>7, <1>8, <2>3, <2>4
<1>9. CASE /\ n = 0 /\ NoFault /\ codec' = [codec EXCEPT !.got = @ + 1, !.eof = TRUE]
           /\ UNCHANGED <<d, pos, call, pc, error>>
  <2> DEFINE k == 1
  <2>1. /\ codec'.got = codec.got + k /\ codec'.junk = codec.junk
        /\ codec'.on /\ codec'.entry = codec.entry /\ codec'.length = codec.length
        /\ codec'.frames = codec.frames /\ codec'.made = codec.made /\ codec'.sent = codec.sent
        /\ codec'.need = codec.need /\ codec'.size = codec.size
    BY <1>1, <1>9 DEF Codecs
  <2>2. k \in Nat /\ pos' >= StreamEnd(d.infh)
    BY <1>2, <1>3, <1>9
  <2> HIDE DEF k
  <2> QED BY <1>7, <1>9, <2>1, <2>2
<1> QED BY <1>4, <1>5, <1>6, <1>8, <1>9

LEMMA FrameFailsRight == ASSUME Inv, Right, FrameFails PROVE Right'
<1>1. /\ pc = "frames" /\ UNCHANGED out /\ NoFault /\ Useless("DECRUNCH", d, pos)
  BY DEF FrameFails, NoFault
<1> QED BY <1>1, GivesUpRight

\* "write a frame"
LEMMA FrameOutRight == ASSUME Inv, Right, FrameOut PROVE Right'
<1> DEFINE i == MinOf(codec.size, call.want)
           cc == [codec EXCEPT !.frames = @ + 1, !.made = @ + codec.size, !.sent = @ + i,
                               !.need = 0, !.size = 0]
<1>1. /\ pc = "frames" /\ Decoding /\ codec.on /\ codec \in Codecs /\ UNCHANGED pos
      /\ codec.need > 0
  BY DEF FrameOut, Decoding, Inv, DecoderUp, Typed
<1>2. /\ codec.made \in Nat /\ codec.sent \in Nat /\ call.want \in Nat /\ codec.size \in Nat
      /\ codec.got \in Nat /\ codec.length \in Nat /\ codec.frames \in Nat
      /\ codec.made <= codec.frames * FRAME
      /\ codec.length = 0 \/ codec.made < codec.length => codec.made = codec.frames * FRAME
      /\ codec.length > 0 => codec.made <= codec.length
      /\ codec.made = codec.sent /\ codec.size = FrameSize
      /\ FRAME \in Nat \ {0}
  BY <1>1, ChmAssumption DEF Right, Natural, Counted, Codecs
<1>3. i \in Nat /\ i <= call.want /\ i <= codec.size /\ (i # call.want => i = codec.size)
  BY <1>2 DEF MinOf
<1>4. Place(codec.made) = d.offset
  BY <1>1, <1>2 DEF Inv, InStep, Place
<1>5. PICK data \in Units(d.offset, i, codec.junk) :
        \/ /\ NoFault /\ Write(data) /\ d' = Advanced(i) /\ codec' = cc /\ pc' = "frames"
           /\ UNCHANGED error /\ call' = Phase(call.writing, call.want - i)
        \/ i > 0 /\ WriteFails(data)
  BY <1>1, <1>4 DEF FrameOut
<1> HIDE DEF i
<1>6. CASE WriteFails(data)
  BY <1>1, <1>3, <1>6, WriteFailsRight
<1>7. CASE ~WriteFails(data)
  <2> DEFINE f == codec.frames + 1
             m == codec.made + codec.size
             n == codec.sent + i
  <2>1. /\ cc \in Codecs /\ cc.on /\ cc.entry = codec.entry /\ cc.eof = codec.eof
        /\ cc.junk = codec.junk /\ cc.got = codec.got /\ cc.sent = n
    <3>1. f \in Nat /\ m \in Int /\ n \in Int
      BY <1>2, <1>3
    <3>2. cc = [codec EXCEPT !.frames = f, !.made = m, !.sent = n, !.need = 0, !.size = 0]
      BY <1>1 DEF Codecs
    <3> HIDE DEF f, m, n, cc
    <3>3. LET c2 == [codec EXCEPT !.frames = f, !.made = m, !.sent = n, !.need = 0, !.size = 0]
          IN  /\ c2 \in Codecs /\ c2.on = codec.on /\ c2.entry = codec.entry
              /\ c2.got = codec.got /\ c2.eof = codec.eof /\ c2.junk = codec.junk
              /\ c2.sent = n
      BY <1>1, <3>1, FrameType, ZenonT(60)
    <3> QED BY <1>1, <3>2, <3>3
  <2>2. cc.made = m /\ cc.frames = f /\ cc.need = 0 /\ cc.size = 0 /\ cc.length = codec.length
    <3>1. cc.made = m /\ cc.frames = f
      BY <1>1 DEF Codecs
    <3>2. cc.need = 0 /\ cc.size = 0 /\ cc.length = codec.length
      BY <1>1 DEF Codecs
    <3> QED BY <3>1, <3>2
  <2> HIDE DEF cc
  <2>3. f * FRAME = codec.frames * FRAME + FRAME /\ codec.frames * FRAME \in Nat
    <3>1. f * FRAME = codec.frames * FRAME + 1 * FRAME /\ 1 * FRAME = FRAME
          /\ codec.frames * FRAME \in Nat
      BY <1>2, 1 \in Nat, Together
    <3> QED BY <3>1
  <2>4. /\ codec.size <= FRAME
        /\ codec.length = 0 => codec.size = FRAME
        /\ codec.length > 0 => /\ codec.size <= codec.length - codec.made
                               /\ codec.size = FRAME \/ codec.size = codec.length - codec.made
    BY <1>2 DEF FrameSize, MinOf
  <2> DEFINE whole == codec.frames * FRAME
  <2> HIDE DEF whole
  <2>5. whole \in Nat /\ codec.made <= whole
        /\ (codec.length = 0 \/ codec.made < codec.length => codec.made = whole)
        /\ f * FRAME = whole + FRAME
    BY <1>2, <2>3 DEF whole
  <2>6. n <= m /\ m <= f * FRAME /\ (m = n \/ i = call.want) /\ m \in Nat
    BY <1>2, <1>3, <2>4, <2>5
  <2>7. codec.length = 0 \/ m < codec.length => m = f * FRAME
    BY <1>2, <2>4, <2>5
  <2>8. codec.length > 0 => m <= codec.length
    BY <1>2, <2>4
  <2> HIDE DEF f, m
  <2>9. /\ cc.got \in Nat /\ cc.size \in Nat /\ cc.made \in Nat /\ cc.sent <= cc.made
        /\ cc.made <= cc.frames * FRAME /\ (cc.made = cc.sent \/ i = call.want)
        /\ cc.length = 0 \/ cc.made < cc.length => cc.made = cc.frames * FRAME
        /\ cc.length > 0 => cc.made <= cc.length
    BY <1>2, <2>1, <2>2, <2>6, <2>7, <2>8
  <2> QED BY <1>1, <1>3, <1>5, <1>7, <2>1, <2>2, <2>9, SendsRight
<1> QED BY <1>6, <1>7
-----------------------------------------------------------------------------
LEMMA NextRight == Inv /\ Inv' /\ Right /\ [Next]_vars => Right'
<1> SUFFICES ASSUME Inv, Inv', Right, [Next]_vars PROVE Right'
  OBVIOUS
<1>1. CASE UNCHANGED vars
  BY <1>1 DEF vars, Right, Natural, Plain, Counted, Undamaged, Asked, OutKept, At, Decoding,
     FrameSize, Sound, Total, InputTo, disk, BeginningOf
<1>2. CASE Steps
  BY <1>2, CopyRight, FindRight, ReadRight, InitStreamRight, SeekRight, EnterRight,
     FramesDoneRight, BeginFrameRight, InputRight, FrameFailsRight, FrameOutRight
     DEF Steps
<1>3. ASSUME NEW c \in Helpfile,
             \/ \E img \in Opens[c] : Open(c, img)
             \/ OpenFails(c) \/ Close(c)
             \/ \E f \in Files : Start(c, f)
      PROVE  Right'
  BY <1>3, OpenCloseRight, StartRight
<1> QED BY <1>1, <1>2, <1>3 DEF Next

LEMMA RightTyped == ASSUME Inv, Right PROVE TypeOK
<1>1. codec \in Codec
  BY DEF Inv, Typed, Codecs, Right, Natural, Codec
<1>2. call \in Call
  BY DEF Inv, Typed, Calls, Right, Natural, Call
<1>3. d \in Decompress
  BY DEF Inv, Typed, States, Right, Natural, Decompress
<1> QED BY <1>1, <1>2, <1>3 DEF TypeOK, Inv, Typed, Headers, Right, Plain

LEMMA RightPlaced == Inv /\ Right => OutputInPlace
<1> SUFFICES ASSUME Inv, Right PROVE OutputInPlace
  OBVIOUS
<1>1. TypeOK
  BY RightTyped
<1>2. ASSUME call.file # NULL, Sound(call.file)
      PROVE  /\ Len(out) <= call.file.length /\ out = SubSeq(Expected, 1, Len(out))
             /\ pc = "idle" /\ error = "OK" => out = Expected
  <2>1. call.file \in Files
    BY <1>2 DEF Inv, Typed, Calls
  <2>2. call.file.offset \in Nat /\ call.file.length \in Nat
    BY <2>1, FilesType
  <2>3. /\ out \in Seq(Nat) /\ Len(out) <= call.file.length
        /\ \A i \in 1..Len(out) : out[i] = call.file.offset + i
        /\ pc = "idle" /\ error = "OK" => Len(out) = call.file.length
    BY <1>2 DEF Right, Plain, OutKept, BeginningOf
  <2>4. /\ Expected \in Seq(Nat) /\ Len(Expected) = call.file.length
        /\ \A i \in 1..call.file.length : Expected[i] = call.file.offset + i
    BY <2>2 DEF Expected
  <2>5. /\ SubSeq(Expected, 1, Len(out)) \in Seq(Nat)
        /\ Len(SubSeq(Expected, 1, Len(out))) = Len(out)
        /\ \A i \in 1..Len(out) : SubSeq(Expected, 1, Len(out))[i] = Expected[i]
    BY <2>2, <2>3, <2>4, Piece
  <2>6. out = SubSeq(Expected, 1, Len(out))
    BY <2>2, <2>3, <2>4, <2>5
  <2>7. Len(out) = call.file.length => out = Expected
    <3>1. out = [i \in 1..Len(out) |-> out[i]]
      BY <2>3
    <3> QED BY <2>3, <3>1 DEF Expected
  <2> QED BY <2>3, <2>6, <2>7
<1> QED BY <1>1, <1>2 DEF OutputInPlace

\* A sound file comes out as it should, from its beginning on and all of it if
\* chmd_extract says so: whatever was extracted before, from whatever help file,
\* wherever the decoder stood, and whatever fails in the call.
THEOREM ExtractsInPlace == Spec => []OutputInPlace
<1>1. Inv /\ Inv' /\ Right /\ [Next]_vars => Right'
  BY NextRight
<1>2. Spec => []Inv
  BY InitInv, NextInv, PTL DEF Spec
<1>3. Spec => []Right
  BY <1>1, <1>2, InitRight, PTL DEF Spec
<1> QED BY <1>2, <1>3, RightPlaced, PTL
-----------------------------------------------------------------------------
(* That an intact file comes out.  Whatever was extracted before, and       *)
(* whatever failed then, a decoder that is kept was set up with the true    *)
(* length of the stream, so that its frames are those of the stream and     *)
(* each has its input.                                                      *)

\* A help file whose section 1 can be extracted.
Fit(img) == Good(img) /\ Usable(img) /\ Image[img].frames # <<>>

HasTable(img) == "rtable" \in Image[img].has /\ Image[img].rtable.offsets # <<>>

\* A system file that was found is there.
Found ==
  /\ \A c \in Helpfile : chm[c] # NULL => chm[c].loaded \subseteq Image[chm[c].image].has
  /\ pc = "rtabledata" => "rtable" \in disk.has
  /\ pc = "spandata" => "spaninfo" \in disk.has

\* The decoder is entered within the stream and goes to its end.
Entered(img, entry, length) ==
  entry < Len(Image[img].frames) /\ length = End(img) - entry * FRAME

\* A frame is whole, or the empty one behind the end, and what it needs is there.
Supplied(img, entry, need, size) ==
  need > 0 => /\ size \in {0, FRAME}
              /\ EndOf(Image[img].frames, entry) + need <= StreamEnd(img) + 1

LengthTrue ==
  /\ pc = "init" /\ Fit(call.image) =>
       Entered(call.image, call.entry, call.length - call.entry * FRAME)
  /\ codec.on /\ Fit(d.infh) =>
       /\ ~codec.junk /\ Entered(d.infh, codec.entry, codec.length)
       /\ Supplied(d.infh, codec.entry, codec.need, codec.size)

\* In a call that nothing disturbs there is no error, and SpanInfo is not looked
\* for but when there is no reset table.
Unfailing ==
  clean /\ call.file # NULL /\ Intact(call.file) =>
    error = "OK" /\ (pc \in {"spaninfo", "spandata"} => ~HasTable(call.image))

Works ==
  /\ Found /\ LengthTrue /\ Unfailing
  /\ pc # "idle" => call.file.length > 0
-----------------------------------------------------------------------------
LEMMA EndsAscend ==
  ASSUME NEW img \in Images, NEW a \in Nat, NEW b \in Nat, a <= b
  PROVE  EndOf(Image[img].frames, a) <= EndOf(Image[img].frames, b)
<1> DEFINE s == Image[img].frames
<1>1. s \in Seq(Nat) /\ \A i, j \in DOMAIN s : i <= j => s[i] <= s[j]
  BY DiskType, ChmAssumption
<1> HIDE DEF s
<1>2. EndOf(s, a) <= EndOf(s, b)
  BY <1>1 DEF EndOf, MinOf
<1> QED BY <1>2 DEF s

\* Places that lie before a multiple of the frame size are in a frame before it.
LEMMA Shorter ==
  ASSUME NEW a \in Nat, NEW b \in Nat, a * FRAME < b * FRAME
  PROVE  a < b
<1>1. b <= a => b * FRAME <= a * FRAME
  BY Longer
<1>2. a * FRAME \in Nat /\ b * FRAME \in Nat
  BY ChmAssumption, InNat
<1> QED BY <1>1, <1>2

\* The disk's facts that are about the stream.
LEMMA StreamType ==
  ASSUME NEW img \in Images
  PROVE  /\ Len(Image[img].frames) \in Nat /\ End(img) \in Nat
         /\ StreamEnd(img) \in Nat
         /\ Image[img].frames # <<>> => Len(Image[img].frames) > 0
<1>1. Image[img].frames \in Seq(Nat) /\ Image[img].behind \in Nat
  BY DiskType
<1>2. EndOf(Image[img].frames, Len(Image[img].frames)) \in Nat
  BY <1>1, EndOfType
<1> QED BY <1>1, <1>2, ChmAssumption, InNat DEF End, StreamEnd

LEMMA IntactStays ==
  ASSUME call'.image = call.image, call'.file = call.file
  PROVE  /\ Intact(call.file)' <=> Intact(call.file)
         /\ Fit(call.image)' <=> Fit(call.image)
  BY SoundStays DEF Intact, Fit, Good, Usable

LEMMA FitOf ==
  ASSUME Inv, Right, Intact(call.file), pc \notin {"idle", "copy"}, call.file.length > 0
  PROVE  /\ Fit(call.image) /\ Usable(call.image) /\ call.image \in Images
         /\ call.file.offset + call.file.length <= End(call.image)
<1>1. call.file.section = 1 /\ call.file \in Files /\ call.image \in Images
  BY DEF Right, Asked, Inv, InCall, Typed, Headers
<1>2. Sound(call.file) /\ Usable(call.image)
  BY <1>1 DEF Intact
<1>3. Good(call.image) /\ call.file.offset + call.file.length <= End(call.image)
  BY <1>1, <1>2, SoundGood
<1>4. Image[call.image].frames # <<>>
  <2> SUFFICES ASSUME Image[call.image].frames = <<>> PROVE FALSE
    OBVIOUS
  <2>1. Len(Image[call.image].frames) = 0
    OBVIOUS
  <2>2. End(call.image) = 0
    BY <2>1, ChmAssumption DEF End
  <2> QED BY <1>1, <1>3, <2>2, FilesType
<1> QED BY <1>1, <1>2, <1>3, <1>4 DEF Fit

\* A call that ends: there is no decoder or it is as it was.
LEMMA EndsWorks ==
  ASSUME Works, pc' = "idle", Found', ~codec'.on \/ UNCHANGED <<d, codec>>, Unfailing'
  PROVE  Works'
<1>1. LengthTrue'
  BY DEF Works, LengthTrue, Fit, Good, Usable, Entered, Supplied, End, StreamEnd
<1> QED BY <1>1 DEF Works

LEMMA FaultUnfailing ==
  ASSUME Fault
  PROVE  Unfailing'
  BY DEF Fault, Unfailing

LEMMA FoundStays ==
  ASSUME Found, UNCHANGED <<chm>>, pc' \notin {"rtabledata", "spandata"}
  PROVE  Found'
  BY DEF Found

\* A step of chmd_init_decomp up to the decoder.
LEMMA BeforeWorks ==
  ASSUME Works, ~codec'.on, pc # "idle", call'.file = call.file, Found', Unfailing',
         pc' = "init" /\ Fit(call.image)' =>
           Entered(call'.image, call'.entry, call'.length - call'.entry * FRAME)
  PROVE  Works'
<1>1. Entered(call.image, call.entry, call.length - call.entry * FRAME)' <=>
        Entered(call'.image, call'.entry, call'.length - call'.entry * FRAME)
  BY DEF Entered, End
<1>2. LengthTrue'
  BY <1>1 DEF LengthTrue
<1> QED BY <1>2 DEF Works

LEMMA InitWorks == Init => Works
<1> SUFFICES ASSUME Init PROVE Works
  OBVIOUS
<1>1. ~codec.on /\ pc = "idle" /\ call.file = NULL /\ \A c \in Helpfile : chm[c] = NULL
  BY FreshNumbers DEF Init
<1> QED BY <1>1 DEF Works, Found, LengthTrue, Unfailing

LEMMA OpenCloseWorks ==
  ASSUME Inv, Works, NEW c \in Helpfile,
         \/ \E img \in Opens[c] : Open(c, img)
         \/ OpenFails(c) \/ Close(c)
  PROVE  Works'
<1>1. /\ pc' = "idle" /\ call' = NoCall
      /\ UNCHANGED <<d, codec>> \/ codec' = NoCodec
  BY DEF Open, OpenFails, Close, Dropped
<1>2. Unfailing' /\ (~codec'.on \/ UNCHANGED <<d, codec>>)
  BY <1>1, FreshNumbers DEF Unfailing
<1>3. Found'
  <2>1. CASE OpenFails(c) \/ Close(c)
    BY <1>1, <2>1 DEF OpenFails, Close, Works, Found, Inv, Typed, Headers
  <2>2. ASSUME NEW img \in Opens[c], Open(c, img) PROVE Found'
    <3>1. PICK loaded \in {{}, Image[img].has} :
            chm' = [chm EXCEPT ![c] = [image |-> img, loaded |-> loaded]]
      BY <2>2 DEF Open
    <3>2. chm'[c].image = img /\ chm'[c].loaded \subseteq Image[img].has
      BY <3>1 DEF Inv, Typed, Headers
    <3>3. \A b \in Helpfile : b # c => chm'[b] = chm[b]
      BY <3>1 DEF Inv, Typed, Headers
    <3> QED BY <1>1, <3>2, <3>3 DEF Works, Found
  <2> QED BY <2>1, <2>2
<1> QED BY <1>1, <1>2, <1>3, EndsWorks

LEMMA StartWorks ==
  ASSUME Inv, Works, NEW c \in Helpfile, NEW f \in Files, Start(c, f)
  PROVE  Works'
<1> DEFINE opened(name) == [chm |-> c, offset |-> 0, inoffset |-> d.inoffset, infh |-> name]
<1>1. /\ pc = "idle" /\ chm' = chm
      /\ call' = [NoCall EXCEPT !.chm = c, !.image = chm[c].image, !.file = f]
      /\ \/ UNCHANGED <<d, codec>>
         \/ codec' = NoCodec
      /\ pc' \in {"idle", "copy", "content", "seek"}
      /\ Fault \/ error' = "OK"
      /\ pc' # "idle" => f.length > 0
  BY DEF Start, Return
<1>2. call'.file = f
  BY <1>1 DEF NoCall
<1>3. Unfailing'
  BY <1>1, FaultUnfailing DEF Unfailing
<1>4. Found'
  BY <1>1 DEF Works, Found
<1>5. LengthTrue'
  BY <1>1, FreshNumbers
     DEF Works, LengthTrue, Fit, Good, Usable, Entered, Supplied, End, StreamEnd
<1> QED BY <1>1, <1>2, <1>3, <1>4, <1>5 DEF Works

LEMMA CopyWorks == ASSUME Inv, Works, Copy PROVE Works'
<1>1. /\ UNCHANGED <<chm, d, codec, call>> /\ pc' = "idle" /\ pc = "copy"
      /\ Fault \/ error' = "OK"
  BY DEF Copy, Return
<1>2. Unfailing'
  BY <1>1, FaultUnfailing DEF Unfailing
<1> QED BY <1>1, <1>2, EndsWorks, FoundStays DEF Works
-----------------------------------------------------------------------------
(* Setting up a decoder.                                                    *)

\* What find_sys_file says when nothing fails.
LEMMA FindSays ==
  ASSUME Inv, Works, pc # "idle", NEW x \in SysFile, NEW r, NEW e, Find(x, r, e), clean'
  PROVE  clean /\ (r = "OK" <=> x \in disk.has) /\ e \in {error, "OK"}
<1>1. chm[call.chm].loaded \subseteq disk.has
  BY DEF Inv, InCall, Works, Found, disk
<1>2. ~Fault
  BY DEF Fault
<1> QED BY <1>1, <1>2 DEF Find, NoFault

\* A system file that is found is there, also in a call that something disturbs.
LEMMA FindFinds ==
  ASSUME Inv, Works, pc # "idle", NEW x \in SysFile, NEW r, NEW e, Find(x, r, e)
  PROVE  /\ r = "OK" => x \in disk.has
         /\ \A c \in Helpfile : chm'[c] # NULL => chm'[c].loaded \subseteq Image[chm'[c].image].has
<1>1. call.chm \in Helpfile /\ chm[call.chm] # NULL /\ call.image = chm[call.chm].image
      /\ chm[call.chm].loaded \subseteq disk.has
      /\ chm[call.chm] \in [image : Images, loaded : SUBSET SysFile]
  BY DEF Inv, InCall, Works, Found, disk, Typed, Headers
<1>2. CASE UNCHANGED chm
  BY <1>1, <1>2 DEF Find, Works, Found
<1>3. CASE x \in disk.has /\ chm' = [chm EXCEPT ![call.chm].loaded = @ \cup {x}]
  <2>1. chm' = [chm EXCEPT ![call.chm] = [chm[call.chm] EXCEPT !.loaded = @ \cup {x}]]
    BY <1>3
  <2>2. /\ [chm[call.chm] EXCEPT !.loaded = @ \cup {x}].loaded = chm[call.chm].loaded \cup {x}
        /\ [chm[call.chm] EXCEPT !.loaded = @ \cup {x}].image = call.image
    BY <1>1
  <2>3. chm'[call.chm].loaded = chm[call.chm].loaded \cup {x} /\ chm'[call.chm].image = call.image
    BY <1>1, <2>1, <2>2 DEF Inv, Typed, Headers
  <2>4. \A b \in Helpfile : b # call.chm => chm'[b] = chm[b]
    BY <2>1 DEF Inv, Typed, Headers
  <2> QED BY <1>1, <1>3, <2>3, <2>4 DEF Works, Found, disk
<1> QED BY <1>2, <1>3 DEF Find

LEMMA FindWorks ==
  ASSUME Inv, Right, Works, InitContent \/ InitControl \/ FindTable \/ FindSpanInfo
  PROVE  Works'
<1>1. PICK x \in SysFile, r \in Errors, e \in Errors :
        /\ Find(x, r, e)
        /\ \/ InitContent /\ x = "content" /\ (IF r = "OK" THEN pc' = "control" /\ error' = e ELSE Return(r))
           \/ InitControl /\ x = "control" /\ (IF r = "OK" THEN pc' = "controldata" /\ error' = e ELSE Return(r))
           \/ /\ FindTable /\ x = "rtable" /\ error' = e
              /\ pc' = IF r = "OK" THEN "rtabledata" ELSE "spaninfo"
           \/ /\ FindSpanInfo /\ x = "spaninfo"
              /\ (IF r = "OK" THEN pc' = "spandata" /\ error' = e ELSE Return("DATAFORMAT"))
  BY DEF InitContent, InitControl, FindTable, FindSpanInfo, SysFile
<1>2. /\ UNCHANGED <<d, codec, call>>
      /\ pc \in {"content", "control", "rtable", "spaninfo"}
      /\ pc' \in {"idle", "control", "controldata", "rtabledata", "spaninfo", "spandata"}
      /\ ~codec'.on
  BY DEF InitContent, InitControl, FindTable, FindSpanInfo, Return, Inv, DecoderUp
<1>3. /\ r = "OK" => x \in disk.has
      /\ \A c \in Helpfile : chm'[c] # NULL => chm'[c].loaded \subseteq Image[chm'[c].image].has
  BY <1>1, <1>2, FindFinds
<1>4. /\ pc' = "rtabledata" => x = "rtable" /\ r = "OK"
      /\ pc' = "spandata" => x = "spaninfo" /\ r = "OK"
  BY <1>1 DEF Return
<1>5. Found'
  BY <1>2, <1>3, <1>4 DEF Found, disk
<1>6. Unfailing'
  <2> SUFFICES ASSUME clean', call.file # NULL, Intact(call.file)
               PROVE  error' = "OK" /\ (pc' \in {"spaninfo", "spandata"} => ~HasTable(call.image))
    BY <1>2, IntactStays DEF Unfailing, HasTable
  <2>1. clean /\ (r = "OK" <=> x \in disk.has) /\ e \in {error, "OK"}
    BY <1>1, <1>2, FindSays
  <2>2. error = "OK" /\ (pc \in {"spaninfo", "spandata"} => ~HasTable(call.image))
    BY <2>1 DEF Works, Unfailing
  <2>3. call.file.length > 0
    BY <1>2 DEF Works
  <2>4. Usable(call.image) /\ disk = Image[call.image]
    BY <1>2, <2>3, FitOf DEF disk
  <2>5. CASE x = "content" \/ x = "control"
    <3>1. r = "OK"
      BY <2>1, <2>4, <2>5 DEF Usable
    <3> QED BY <1>1, <2>1, <2>2, <2>5, <3>1
  <2>6. CASE x = "rtable"
    BY <1>1, <2>1, <2>2, <2>4, <2>6 DEF HasTable
  <2>7. CASE x = "spaninfo"
    <3>1. ~HasTable(call.image)
      BY <1>1, <2>2, <2>7 DEF FindSpanInfo
    <3>2. r = "OK"
      BY <2>1, <2>4, <2>7, <3>1 DEF Usable, HasTable
    <3> QED BY <1>1, <2>1, <2>2, <2>7, <3>1, <3>2
  <2> QED BY <1>1, <2>5, <2>6, <2>7
<1> QED BY <1>2, <1>5, <1>6, BeforeWorks

LEMMA Multiples ==
  ASSUME NEW a \in Nat, NEW b \in Nat, NEW m \in Nat, a <= b
  PROVE  a * m <= b * m
<1>1. b - a \in Nat /\ (b - a) * m \in Nat
  BY InNat
<1>2. (b - a) * m = b * m - a * m /\ a * m \in Nat /\ b * m \in Nat
  OBVIOUS
<1> QED BY <1>1, <1>2

LEMMA QuotientIs ==
  ASSUME NEW a \in Nat, NEW b \in Nat \ {0}, NEW q \in Nat, q * b <= a, a < q * b + b
  PROVE  a \div b = q
<1> DEFINE p == a \div b
<1>1. p \in Nat /\ p * b <= a
  BY Quotient
<1>2. a < p * b + b
  <2>1. a % b \in 0..b - 1 /\ a = b * (a \div b) + (a % b)
    OBVIOUS
  <2>2. p * b = b * (a \div b) /\ p * b \in Nat
    BY <1>1
  <2> QED BY <2>1, <2>2
<1> HIDE DEF p
<1>3. /\ (p + 1) * b = p * b + b /\ (q + 1) * b = q * b + b
      /\ p * b \in Nat /\ q * b \in Nat
  BY <1>1
<1>4. ~(p < q)
  <2>1. p < q => (p + 1) * b <= q * b
    BY <1>1, Multiples
  <2> QED BY <1>1, <1>2, <1>3, <2>1
<1>5. ~(q < p)
  <2>1. q < p => (q + 1) * b <= p * b
    BY <1>1, Multiples
  <2> QED BY <1>1, <1>3, <2>1
<1>6. p = q
  BY <1>1, <1>4, <1>5
<1> QED BY <1>6 DEF p

\* The length of the reset table is padded to that of the stream.
LEMMA PaddedIsEnd ==
  ASSUME call.image \in Images, Fit(call.image), HasTable(call.image)
  PROVE  Padded(disk.rtable.length) = End(call.image)
<1> DEFINE frames == Len(Image[call.image].frames)
           interval == disk.interval
           length == disk.rtable.length
           reset == interval * FRAME
           q == frames \div interval
<1>1. frames \in Nat /\ interval \in Nat \ {0} /\ FRAME \in Nat \ {0} /\ length \in Nat
  BY DiskType, StreamType, ChmAssumption DEF disk
<1>2. /\ Padded(length) = ((length + reset - 1) \div reset) * reset
      /\ End(call.image) = frames * FRAME
      /\ frames % interval = 0 /\ length \in frames * FRAME - reset + 1..frames * FRAME
  BY DEF Padded, End, Fit, Usable, HasTable, disk
<1> HIDE DEF frames, interval, length
<1>3. reset \in Nat \ {0}
  BY <1>1
<1>4. q \in Nat /\ frames = q * interval
  BY <1>1, <1>2, Quotient
<1> HIDE DEF q
<1>5. frames * FRAME = q * reset
  <2>1. \A i, k, n \in Nat : (i * k) * n = i * (k * n)
    OBVIOUS
  <2> QED BY <1>1, <1>4, <2>1
<1>6. q * reset \in Nat
  BY <1>3, <1>4, InNat
<1> HIDE DEF reset
<1>7. /\ length + reset - 1 \in Nat /\ q * reset <= length + reset - 1
      /\ length + reset - 1 < q * reset + reset
  BY <1>1, <1>2, <1>3, <1>5, <1>6
<1>8. (length + reset - 1) \div reset = q
  BY <1>3, <1>4, <1>7, QuotientIs
<1> QED BY <1>2, <1>5, <1>8 DEF length

LEMMA ReadWorks ==
  ASSUME Inv, Inv', Right, Right', Works, ReadControl \/ ReadTable \/ ReadSpanInfo
  PROVE  Works'
<1>1. /\ UNCHANGED <<d, codec, chm>>
      /\ pc \in {"controldata", "rtabledata", "spandata"}
      /\ pc' \in {"idle", "rtable", "spaninfo", "init"}
      /\ Fault \/ NoFault
  BY DEF ReadControl, ReadTable, ReadSpanInfo, Return, Goto
<1>2. /\ call.image \in Images /\ call.file \in Files /\ call \in Calls /\ ~codec'.on
      /\ call.file.offset \in Nat /\ disk = Image[call.image] /\ call.file.length > 0
  <2>1. call.chm \in Helpfile /\ chm[call.chm] # NULL /\ call.image = chm[call.chm].image
        /\ call.file \in Files
    BY <1>1 DEF Inv, InCall
  <2> QED BY <1>1, <2>1, FilesType DEF Inv, Typed, Headers, disk, DecoderUp, Works
<1>3. /\ Image[call.image].span \in Nat /\ Image[call.image].rtable.offsets \in Seq(Nat)
      /\ Len(Image[call.image].frames) \in Nat /\ End(call.image) \in Nat
      /\ Image[call.image].frames # <<>> => Len(Image[call.image].frames) > 0
  BY <1>2, DiskType, StreamType
<1>4. Found'
  BY <1>1, FoundStays DEF Works
<1>5. /\ call'.file = call.file /\ call'.image = call.image
      /\ \/ call' = call /\ pc' # "init"
         \/ /\ ReadSpanInfo /\ pc' = "init"
            /\ call'.entry = 0 /\ call'.length = disk.span /\ disk.span > 0
         \/ /\ ReadTable /\ pc' = "init" /\ call'.length = Padded(disk.rtable.length)
            /\ call'.entry < Len(disk.rtable.offsets)
  <2>1. CASE ReadControl
    BY <2>1 DEF ReadControl, Return, Goto
  <2>2. CASE ReadSpanInfo
    BY <1>2, <2>2 DEF ReadSpanInfo, Return, Goto, Calls
  <2>3. CASE ReadTable
    <3> DEFINE entry == (call.file.offset \div (disk.interval * FRAME)) * disk.interval
               offset == disk.rtable.offsets[entry + 1]
               length == Padded(disk.rtable.length)
    <3>1. \/ call' = call /\ pc' # "init"
          \/ /\ pc' = "init" /\ entry < Len(disk.rtable.offsets)
             /\ call' = [call EXCEPT !.entry = entry, !.offset = offset, !.length = length]
      BY <2>3 DEF ReadTable, Goto
    <3> HIDE DEF entry, offset
    <3>2. CASE call' = call /\ pc' # "init"
      BY <3>2
    <3>3. CASE pc' = "init"
      <4>1. entry < Len(disk.rtable.offsets)
        BY <3>1, <3>3
      <4> HIDE DEF length
      <4>2. /\ call'.file = call.file /\ call'.image = call.image
            /\ call'.entry = entry /\ call'.length = length
        BY <1>2, <3>1, <3>3 DEF Calls
      <4> QED BY <2>3, <3>3, <4>1, <4>2 DEF length
    <3> QED BY <3>1, <3>2, <3>3
  <2> QED BY <2>1, <2>2, <2>3
\* the decoder will be entered within the stream, with its length
<1>6. ASSUME pc' = "init", Fit(call.image)
      PROVE  Entered(call.image, call'.entry, call'.length - call'.entry * FRAME)
  <2>1. CASE ReadSpanInfo
    <3>1. disk.span = End(call.image)
      BY <1>2, <1>3, <1>5, <1>6, <2>1 DEF ReadSpanInfo, ReadTable, Works, Found, Fit, Usable, End
    <3>2. call'.entry = 0 /\ call'.length = End(call.image)
      BY <1>5, <1>6, <2>1, <3>1 DEF ReadSpanInfo, ReadTable
    <3>3. Len(Image[call.image].frames) > 0
      BY <1>3, <1>6 DEF Fit
    <3> QED BY <1>3, <3>2, <3>3, ChmAssumption DEF Entered
  <2>2. CASE ReadTable
    <3>1. call'.entry < Len(disk.rtable.offsets) /\ call'.length = Padded(disk.rtable.length)
      BY <1>5, <1>6, <2>2 DEF ReadSpanInfo, ReadTable
    <3>2. HasTable(call.image)
      <4>1. "rtable" \in disk.has
        BY <2>2 DEF ReadTable, Works, Found
      <4>2. call'.entry \in Nat
        BY DEF Inv, Typed, Calls
      <4>3. disk.rtable.offsets # <<>>
        BY <3>1, <4>2
      <4> QED BY <1>2, <4>1, <4>3 DEF HasTable
    <3>3. Len(disk.rtable.offsets) = Len(Image[call.image].frames)
      BY <1>2, <1>6, <3>2 DEF Fit, Usable, HasTable
    <3>4. call'.length = End(call.image)
      BY <1>2, <1>6, <3>1, <3>2, PaddedIsEnd
    <3> QED BY <3>1, <3>3, <3>4 DEF Entered
  <2> QED BY <1>5, <1>6, <2>1, <2>2
<1>7. Unfailing'
  <2> SUFFICES ASSUME clean', call.file # NULL, Intact(call.file)
               PROVE  error' = "OK" /\ (pc' \in {"spaninfo", "spandata"} => ~HasTable(call.image))
    BY <1>5, IntactStays DEF Unfailing, HasTable
  <2>1. NoFault /\ ~Fault /\ clean
    BY <1>1 DEF Fault, NoFault
  <2>2. error = "OK" /\ (pc \in {"spaninfo", "spandata"} => ~HasTable(call.image))
    BY <2>1 DEF Works, Unfailing
  <2>3. /\ Fit(call.image) /\ Usable(call.image)
        /\ call.file.offset + call.file.length <= End(call.image)
    BY <1>1, <1>2, FitOf
  <2>4. CASE ReadControl
    BY <1>2, <2>1, <2>2, <2>3, <2>4 DEF ReadControl, Goto, Usable
  <2>5. CASE ReadSpanInfo
    <3>1. disk.span = End(call.image) /\ End(call.image) > 0
      <4>1. End(call.image) > 0
        BY <1>2, <1>3, <2>3, FilesType
      <4>2. ~HasTable(call.image)
        BY <2>2, <2>5 DEF ReadSpanInfo
      <4> QED BY <1>2, <2>3, <4>1, <4>2 DEF Usable, HasTable, End
    <3> QED BY <2>1, <2>2, <2>5, <3>1 DEF ReadSpanInfo, Goto
  <2>6. CASE ReadTable
    <3>1. disk.rtable.sec0
      BY <1>2, <2>3, <2>6 DEF ReadTable, Works, Found, Usable
    <3> DEFINE reset == disk.interval * FRAME
               q == call.file.offset \div reset
               entry == q * disk.interval
    <3>2. /\ error' = error
          /\ pc' = "spaninfo" => ~(entry < Len(disk.rtable.offsets))
      BY <2>1, <2>6, <3>1 DEF ReadTable, Goto
    <3>3. HasTable(call.image) => entry < Len(disk.rtable.offsets)
      <4> SUFFICES ASSUME HasTable(call.image) PROVE entry < Len(Image[call.image].frames)
        BY <1>2, <2>3 DEF Usable, HasTable
      <4>0. disk.interval \in Nat \ {0} /\ FRAME \in Nat \ {0}
        BY <1>2, DiskType, ChmAssumption
      <4>1. reset \in Nat \ {0}
        BY <4>0
      <4>2. q \in Nat /\ q * reset <= call.file.offset
        <5> HIDE DEF reset
        <5> QED BY <1>2, <4>1, Quotient
      <4>3. entry * FRAME = q * reset /\ entry \in Nat
        <5> HIDE DEF q
        <5>1. \A i, k, n \in Nat : (i * k) * n = i * (k * n)
          OBVIOUS
        <5> QED BY <4>0, <4>2, <5>1, InNat
      <4>4. q * reset \in Nat
        BY <4>1, <4>2, InNat
      <4> HIDE DEF entry, q, reset
      <4>5. entry * FRAME < Len(Image[call.image].frames) * FRAME
        BY <1>2, <1>3, <2>3, <4>2, <4>3, <4>4, FilesType DEF End
      <4> QED BY <1>3, <4>3, <4>5, Shorter
    <3> HIDE DEF entry
    <3> QED BY <1>1, <2>2, <3>2, <3>3
  <2> QED BY <2>4, <2>5, <2>6
<1>8. pc' = "init" /\ Fit(call.image)' =>
        Entered(call'.image, call'.entry, call'.length - call'.entry * FRAME)
  BY <1>5, <1>6, IntactStays
<1>9. pc # "idle"
  BY <1>1
<1> QED BY <1>2, <1>4, <1>5, <1>7, <1>8, <1>9, BeforeWorks

LEMMA InitStreamWorks == ASSUME Inv, Inv', Right, Works, InitStream PROVE Works'
<1> DEFINE length == call.length - call.entry * FRAME
<1>1. /\ pc = "init" /\ UNCHANGED chm
      /\ call' = [call EXCEPT !.entry = 0, !.offset = 0, !.length = 0]
      /\ d' = [d EXCEPT !.offset = call.entry * FRAME, !.inoffset = call.offset]
      /\ \/ pc' = "idle" /\ error' = "NOMEMORY" /\ codec' = codec /\ (Fault \/ length < 0)
         \/ /\ NoFault /\ error' = error
            /\ pc' = IF error = "OK" THEN "seek" ELSE "idle"
            /\ codec' = [NoCodec EXCEPT !.on = TRUE, !.entry = call.entry, !.length = length,
                                        !.junk = call.offset # InputTo(call.entry)]
  BY DEF InitStream, Return, Goto
<1>2. /\ call.entry \in Nat /\ call.length \in Nat /\ d.infh = call.image /\ ~codec.on
      /\ call \in Calls /\ d \in States /\ call.file \in Files /\ call.image \in Images
      /\ call.file.length > 0
  BY <1>1 DEF Inv, InCall, Typed, Headers, Calls, DecoderUp, Right, Natural, Works
<1>3. call'.file = call.file /\ call'.image = call.image /\ d'.infh = d.infh
  BY <1>1, <1>2 DEF Calls, States
<1>4. Fit(call.image) => Entered(call.image, call.entry, length)
  BY <1>1 DEF Works, LengthTrue
<1>5. Fit(call.image) => length > 0 /\ call.offset = InputTo(call.entry)
  <2> SUFFICES ASSUME Fit(call.image)
               PROVE  length > 0 /\ call.offset = InputTo(call.entry)
    OBVIOUS
  <2>1. call.entry < Len(Image[call.image].frames) /\ length = End(call.image) - call.entry * FRAME
    BY <1>4 DEF Entered
  <2>2. (call.entry + 1) * FRAME <= End(call.image)
    BY <1>2, <2>1, Longer, StreamType DEF End
  <2>3. (call.entry + 1) * FRAME = call.entry * FRAME + FRAME /\ call.entry * FRAME \in Nat
        /\ FRAME \in Nat \ {0}
    BY <1>2, 1 \in Nat, Together, ChmAssumption
  <2>4. End(call.image) \in Nat
    BY <1>2, StreamType
  <2>5. call.offset = InputTo(call.entry)
    BY <1>1 DEF Right, Asked, Fit, InputTo, disk
  <2> HIDE DEF length
  <2> QED BY <2>1, <2>2, <2>3, <2>4, <2>5
<1>6. Found'
  BY <1>1, FoundStays DEF Works
<1>7. Unfailing'
  <2> SUFFICES ASSUME clean', call.file # NULL, Intact(call.file)
               PROVE  error' = "OK" /\ pc' \notin {"spaninfo", "spandata"}
    BY <1>3, IntactStays DEF Unfailing
  <2>1. Fit(call.image) /\ ~Fault
    BY <1>1, <1>2, FitOf DEF Fault
  <2>2. clean
    BY <1>1, <2>1 DEF InitStream, NoFault
  <2>3. error = "OK"
    BY <2>2 DEF Works, Unfailing
  <2>4. ~(length < 0)
    <3>1. length > 0
      BY <1>5, <2>1
    <3>2. length \in Int
      BY <1>2, InNat, ChmAssumption
    <3> HIDE DEF length
    <3> QED BY <3>1, <3>2
  <2> QED BY <1>1, <2>1, <2>3, <2>4
<1>8. LengthTrue'
  <2>1. pc' # "init"
    BY <1>1
  <2>2. CASE codec' = codec
    BY <1>2, <2>1, <2>2 DEF LengthTrue
  <2>3. CASE codec' = [NoCodec EXCEPT !.on = TRUE, !.entry = call.entry, !.length = length,
                                      !.junk = call.offset # InputTo(call.entry)]
    <3>1. codec' = [on |-> TRUE, entry |-> call.entry, length |-> length, got |-> 0,
                    junk |-> call.offset # InputTo(call.entry), eof |-> FALSE, frames |-> 0,
                    made |-> 0, sent |-> 0, need |-> 0, size |-> 0]
      BY <2>3 DEF NoCodec
    <3>2. codec'.entry = call.entry /\ codec'.length = length /\ codec'.need = 0
          /\ codec'.junk = (call.offset # InputTo(call.entry))
      BY <3>1
    <3>3. Fit(d.infh)' <=> Fit(call.image)
      BY <1>2, <1>3 DEF Fit, Good, Usable
    <3> HIDE DEF length
    <3>4. ASSUME Fit(d.infh)'
          PROVE  /\ ~codec'.junk /\ Entered(d'.infh, codec'.entry, codec'.length)
                 /\ Supplied(d'.infh, codec'.entry, codec'.need, codec'.size)
      <4>1. Entered(call.image, call.entry, length) /\ ~codec'.junk /\ codec'.need = 0
        BY <1>4, <1>5, <3>2, <3>3, <3>4
      <4>2. d'.infh = call.image /\ codec'.entry = call.entry /\ codec'.length = length
        BY <1>2, <1>3, <3>2
      <4> QED BY <4>1, <4>2 DEF Supplied
    <3> QED BY <2>1, <3>4 DEF LengthTrue, Entered, Supplied, End, StreamEnd
  <2> QED BY <1>1, <2>2, <2>3
<1> QED BY <1>2, <1>3, <1>6, <1>7, <1>8 DEF Works
-----------------------------------------------------------------------------
(* The rest of chmd_extract, and lzxd_decompress.                           *)

\* A step that goes on with the decoder as it was but for what it has been given,
\* made and sent.
LEMMA GoesOnWorks ==
  ASSUME Works, UNCHANGED <<chm, error>>, NoFault,
         pc' \notin {"rtabledata", "spandata", "spaninfo", "init"}, pc # "idle",
         call'.file = call.file, call'.image = call.image, d'.infh = d.infh,
         codec.on, codec'.entry = codec.entry, codec'.length = codec.length,
         Fit(d.infh) => /\ ~codec'.junk
                        /\ Supplied(d.infh, codec.entry, codec'.need, codec'.size)
  PROVE  Works'
<1>1. Found'
  BY FoundStays DEF Works
<1>2. LengthTrue'
  <2>1. Fit(d.infh) => Entered(d.infh, codec.entry, codec.length)
    BY DEF Works, LengthTrue
  <2>2. Fit(d.infh)' <=> Fit(d.infh)
    BY DEF Fit, Good, Usable
  <2>3. Entered(d.infh, codec.entry, codec.length)' <=> Entered(d.infh, codec.entry, codec.length)
    BY DEF Entered, End
  <2>4. Supplied(d.infh, codec.entry, codec.need, codec.size)' <=>
          Supplied(d.infh, codec.entry, codec'.need, codec'.size)
    BY DEF Supplied, StreamEnd
  <2> QED BY <2>1, <2>2, <2>3, <2>4 DEF LengthTrue
<1>3. Unfailing'
  BY IntactStays DEF Works, Unfailing, NoFault
<1> QED BY <1>1, <1>2, <1>3 DEF Works

\* A call that has failed because something was disturbed.
LEMMA UselessWorks ==
  ASSUME Works, NEW e, NEW dd, NEW p, Useless(e, dd, p), UNCHANGED chm,
         Fault \/ (NoFault /\ ~(clean /\ Intact(call.file)))
  PROVE  Works'
<1>1. /\ codec' = NoCodec /\ pc' = "idle" /\ call' = call /\ ~codec'.on
  BY FreshNumbers DEF Useless, Return
<1>2. Unfailing'
  BY <1>1, FaultUnfailing, IntactStays DEF Unfailing, NoFault
<1> QED BY <1>1, <1>2, EndsWorks, FoundStays DEF Works

LEMMA SeekWorks == ASSUME Inv, Right, Works, Seek PROVE Works'
<1>1. /\ pc = "seek" /\ UNCHANGED <<chm, d, codec>> /\ codec.on
      /\ \/ pc' = "idle" /\ Fault /\ call' = call
         \/ /\ pc' = "decompress" /\ error' = error /\ NoFault
            /\ call' = Phase(FALSE, call.file.offset - d.offset) \/ call' = Phase(TRUE, call.file.length)
  BY DEF Seek, Return, Goto, Inv, DecoderUp
<1>2. call'.file = call.file /\ call'.image = call.image
  BY <1>1 DEF Phase, Inv, Typed, Calls
<1>3. CASE pc' = "idle"
  BY <1>1, <1>3, EndsWorks, FoundStays, FaultUnfailing DEF Works
<1>4. CASE pc' = "decompress"
  <2>1. Fit(d.infh) => ~codec'.junk /\ Supplied(d.infh, codec.entry, codec'.need, codec'.size)
    BY <1>1 DEF Works, LengthTrue
  <2> QED BY <1>1, <1>2, <1>4, <2>1, GoesOnWorks
<1> QED BY <1>1, <1>3, <1>4

\* Units are handed out, and the call goes on or is done.
LEMMA SendsWorks ==
  ASSUME Inv, Works, Decoding, UNCHANGED chm, NoFault, NEW n \in Nat,
         NEW cc, cc.entry = codec.entry, cc.length = codec.length, cc.junk = codec.junk,
         cc.need = 0,
         \/ Done(Advanced(n), cc) /\ n = call.want
         \/ /\ d' = Advanced(n) /\ codec' = cc /\ pc' = "frames" /\ UNCHANGED error
            /\ call' = Phase(call.writing, call.want - n)
  PROVE  Works'
<1>1. /\ codec.on /\ d \in States /\ call \in Calls /\ pc # "idle"
  BY DEF Inv, Typed, DecoderUp, Decoding
<1>2. Advanced(n).infh = d.infh /\ Saved(Advanced(n), pos).infh = d.infh
  BY <1>1 DEF Advanced, Saved, States
<1>3. /\ call'.file = call.file /\ call'.image = call.image /\ d'.infh = d.infh
      /\ codec' = cc /\ pc' \in {"idle", "frames", "decompress"}
      /\ error' = error \/ error' = "OK"
  BY <1>1, <1>2 DEF Done, Phase, Return, Goto, Calls
<1>4. Fit(d.infh) => ~codec'.junk /\ Supplied(d.infh, codec.entry, codec'.need, codec'.size)
  BY <1>1, <1>3 DEF Works, LengthTrue, Supplied
<1>5. CASE error' = error
  BY <1>1, <1>3, <1>4, <1>5, GoesOnWorks
<1>6. CASE error' = "OK"
  <2>1. Unfailing'
    BY <1>3, <1>6 DEF Unfailing
  <2>2. LengthTrue'
    <3>1. Fit(d.infh) => Entered(d.infh, codec.entry, codec.length)
      BY <1>1 DEF Works, LengthTrue
    <3>2. Fit(d.infh)' <=> Fit(d.infh)
      BY <1>3 DEF Fit, Good, Usable
    <3> QED BY <1>3, <1>4, <3>1, <3>2 DEF LengthTrue, Entered, Supplied, End, StreamEnd
  <2> QED BY <1>1, <1>3, <2>1, <2>2, FoundStays DEF Works
<1> QED BY <1>3, <1>5, <1>6

LEMMA EnterWorks == ASSUME Inv, Right, Works, Enter PROVE Works'
<1> DEFINE i == MinOf(codec.made - codec.sent, call.want)
           cc == [codec EXCEPT !.sent = @ + i]
<1>1. /\ Decoding /\ codec \in Codecs /\ pc = "decompress" /\ UNCHANGED chm /\ codec.on
  BY DEF Enter, Decoding, Inv, Typed, DecoderUp
<1>2. /\ codec.made \in Nat /\ codec.sent \in Nat /\ call.want \in Nat /\ codec.need = 0
      /\ codec.sent <= codec.made
  BY <1>1 DEF Right, Natural, Counted
<1>3. i \in Nat
  BY <1>2 DEF MinOf
<1>4. PICK data :
        \/ /\ NoFault
           /\ \/ i = call.want /\ Done(Advanced(i), cc)
              \/ /\ d' = Advanced(i) /\ codec' = cc
                 /\ call' = Phase(call.writing, call.want - i)
                 /\ pc' = "frames" /\ UNCHANGED error
        \/ WriteFails(data)
  BY DEF Enter, Goto
<1> HIDE DEF i
<1>5. CASE WriteFails(data)
  BY <1>1, <1>5, UselessWorks DEF WriteFails
<1>6. CASE ~WriteFails(data)
  <2>1. cc.entry = codec.entry /\ cc.length = codec.length /\ cc.junk = codec.junk /\ cc.need = 0
    BY <1>1, <1>2 DEF Codecs
  <2> HIDE DEF cc
  <2> QED BY <1>1, <1>3, <1>4, <1>6, <2>1, SendsWorks
<1> QED BY <1>5, <1>6

\* "write a frame"
LEMMA FrameOutWorks == ASSUME Inv, Right, Works, FrameOut PROVE Works'
<1> DEFINE i == MinOf(codec.size, call.want)
           cc == [codec EXCEPT !.frames = @ + 1, !.made = @ + codec.size, !.sent = @ + i,
                               !.need = 0, !.size = 0]
<1>1. /\ Decoding /\ codec \in Codecs /\ pc = "frames" /\ UNCHANGED chm
  BY DEF FrameOut, Decoding, Inv, Typed
<1>2. codec.size \in Nat /\ call.want \in Nat
  BY DEF Right, Natural
<1>3. i \in Nat
  BY <1>2 DEF MinOf
<1>4. PICK data :
        \/ /\ NoFault /\ d' = Advanced(i) /\ codec' = cc /\ pc' = "frames"
           /\ UNCHANGED error /\ call' = Phase(call.writing, call.want - i)
        \/ WriteFails(data)
  BY <1>1 DEF FrameOut
<1> HIDE DEF i
<1>5. CASE WriteFails(data)
  BY <1>1, <1>5, UselessWorks DEF WriteFails
<1>6. CASE ~WriteFails(data)
  <2>1. cc.entry = codec.entry /\ cc.length = codec.length /\ cc.junk = codec.junk /\ cc.need = 0
    <3>1. cc.need = 0 /\ cc.entry = codec.entry
      BY <1>1 DEF Codecs
    <3>2. cc.length = codec.length /\ cc.junk = codec.junk
      BY <1>1 DEF Codecs
    <3> QED BY <3>1, <3>2
  <2> HIDE DEF cc
  <2> QED BY <1>1, <1>3, <1>4, <1>6, <2>1, SendsWorks
<1> QED BY <1>5, <1>6

LEMMA EndsBounded ==
  ASSUME NEW img \in Images, NEW n \in Nat
  PROVE  EndOf(Image[img].frames, n) <= EndOf(Image[img].frames, Len(Image[img].frames))
<1>1. Image[img].frames \in Seq(Nat) /\ Len(Image[img].frames) \in Nat
  BY DiskType
<1>2. CASE n <= Len(Image[img].frames)
  BY <1>1, <1>2, EndsAscend
<1>3. CASE n > Len(Image[img].frames)
  <2>1. EndOf(Image[img].frames, n) = EndOf(Image[img].frames, Len(Image[img].frames))
    BY <1>1, <1>3 DEF EndOf, MinOf
  <2> QED BY <1>1, <2>1, EndOfType
<1> QED BY <1>1, <1>2, <1>3

\* What is known of the decoder of a help file that is fit.
LEMMA FitDecoder ==
  ASSUME Inv, Right, Works, codec.on, Fit(d.infh)
  PROVE  /\ d.infh \in Images /\ ~codec.junk
         /\ codec.entry \in Nat /\ codec.frames \in Nat /\ codec.made \in Nat
         /\ codec.sent \in Nat /\ codec.length \in Nat /\ codec.entry * FRAME \in Nat
         /\ codec.frames * FRAME \in Nat /\ FRAME \in Nat \ {0}
         /\ codec.entry < Len(Image[d.infh].frames)
         /\ codec.length = End(d.infh) - codec.entry * FRAME /\ codec.length > 0
         /\ codec.made < codec.length => codec.made = codec.frames * FRAME
         /\ codec.made <= codec.length
         /\ d.offset = codec.entry * FRAME + codec.sent
<1>1. /\ d.infh \in Images /\ codec.entry \in Nat /\ codec.frames \in Nat
      /\ codec.made \in Nat /\ codec.sent \in Nat /\ codec.length \in Nat
      /\ d.offset = codec.entry * FRAME + codec.sent
  BY DEF Inv, Typed, States, Codecs, DecoderOwned, InStep, Right, Natural
<1>2. /\ ~codec.junk /\ codec.entry < Len(Image[d.infh].frames)
      /\ codec.length = End(d.infh) - codec.entry * FRAME
  BY DEF Works, LengthTrue, Entered
<1>3. /\ codec.entry * FRAME \in Nat /\ codec.frames * FRAME \in Nat /\ FRAME \in Nat \ {0}
  BY <1>1, InNat, ChmAssumption
<1>4. codec.length > 0
  <2>1. (codec.entry + 1) * FRAME <= End(d.infh)
    BY <1>1, <1>2, Longer, StreamType DEF End
  <2>2. (codec.entry + 1) * FRAME = codec.entry * FRAME + FRAME
    BY <1>1, <1>3, 1 \in Nat, Together
  <2>3. End(d.infh) \in Nat
    BY <1>1, StreamType
  <2> QED BY <1>2, <1>3, <2>1, <2>2, <2>3
<1>5. /\ codec.made < codec.length => codec.made = codec.frames * FRAME
      /\ codec.made <= codec.length
  BY <1>1, <1>4 DEF Right, Counted
<1> QED BY <1>1, <1>2, <1>3, <1>4, <1>5

\* The frame that is begun is a whole one of the stream, or the empty one behind it.
LEMMA NextFrame ==
  ASSUME Inv, Right, Works, codec.on, Fit(d.infh), codec.made = codec.sent
  PROVE  \/ FrameSize = 0
         \/ FrameSize = FRAME /\ Frame < Len(Image[d.infh].frames)
<1> DEFINE L == Len(Image[d.infh].frames)
<1>0. /\ d.infh \in Images /\ codec.entry \in Nat /\ codec.frames \in Nat /\ codec.made \in Nat
      /\ codec.sent \in Nat /\ codec.length \in Nat /\ codec.entry * FRAME \in Nat
      /\ codec.frames * FRAME \in Nat /\ FRAME \in Nat \ {0}
      /\ codec.length = End(d.infh) - codec.entry * FRAME /\ codec.length > 0
      /\ codec.made < codec.length => codec.made = codec.frames * FRAME
      /\ codec.made <= codec.length
  BY FitDecoder
<1>1. L \in Nat /\ End(d.infh) = L * FRAME /\ L * FRAME \in Nat
  BY <1>0, StreamType DEF End
<1>2. CASE codec.made = codec.length
  BY <1>2, <1>0 DEF FrameSize, MinOf
<1>3. CASE codec.made < codec.length
  <2>1. codec.made = codec.frames * FRAME
    BY <1>3, <1>0
  <2>2. (codec.entry + codec.frames) * FRAME = codec.entry * FRAME + codec.frames * FRAME
        /\ codec.entry + codec.frames \in Nat
    <3>1. codec.entry + codec.frames \in Nat
      BY <1>0
    <3> QED BY <1>0, <3>1, Together
  <2>3. (codec.entry + codec.frames) * FRAME < L * FRAME
    <3> HIDE DEF L
    <3>1. codec.frames * FRAME < L * FRAME - codec.entry * FRAME
      BY <1>0, <1>1, <1>3, <2>1
    <3> QED BY <1>0, <1>1, <2>2, <3>1
  <2> HIDE DEF L
  <2>4. codec.entry + codec.frames < L
    BY <1>1, <2>2, <2>3, Shorter
  <2> DEFINE k == codec.entry + codec.frames
  <2>5. k \in Nat /\ k + 1 <= L
    BY <1>1, <2>2, <2>4
  <2>6. (k + 1) * FRAME <= L * FRAME /\ (k + 1) * FRAME = k * FRAME + FRAME
    <3> HIDE DEF k
    <3>1. k + 1 \in Nat
      BY <2>5
    <3>2. (k + 1) * FRAME <= L * FRAME
      BY <1>1, <2>5, <3>1, Longer
    <3>3. (k + 1) * FRAME = k * FRAME + 1 * FRAME /\ 1 * FRAME = FRAME
      BY <2>5, Together
    <3> QED BY <3>2, <3>3
  <2>7. k * FRAME = codec.entry * FRAME + codec.sent
    BY <2>1, <2>2
  <2> HIDE DEF k
  <2>8. codec.length - codec.sent >= FRAME
    BY <1>1, <2>6, <2>7, <1>0
  <2> QED BY <2>4, <2>8, <1>0 DEF FrameSize, MinOf, Frame, L
<1> QED BY <1>2, <1>3, <1>0

LEMMA BeginFrameWorks == ASSUME Inv, Inv', Right, Right', Works, BeginFrame PROVE Works'
<1> DEFINE over == codec.junk \/ Frame \in disk.bad \/ (FrameSize > 0 /\ Frame >= Len(disk.frames))
           img == d.infh
<1>1. /\ UNCHANGED <<chm, d, error, call, pc>> /\ NoFault /\ pc = "frames"
      /\ codec.on /\ codec \in Codecs /\ img = call.image /\ disk = Image[img]
  BY DEF BeginFrame, NoFault, Inv, InCall, Typed, DecoderUp, disk
<1>2. PICK need \in FrameNeeds :
        codec' = [codec EXCEPT !.need = IF need < 1 THEN 1 ELSE need, !.size = FrameSize,
                               !.junk = over]
  BY DEF BeginFrame
<1>3. /\ codec'.on /\ codec'.entry = codec.entry /\ codec'.length = codec.length
      /\ codec'.made = codec.made /\ codec'.sent = codec.sent /\ codec'.size = FrameSize
      /\ codec'.junk = over /\ codec'.need = IF need < 1 THEN 1 ELSE need
  <2> DEFINE s == FrameSize
             n == IF need < 1 THEN 1 ELSE need
  <2>1. codec' = [codec EXCEPT !.need = n, !.size = s, !.junk = over]
    BY <1>2
  <2> HIDE DEF s, n, over
  <2>2. /\ codec'.on /\ codec'.entry = codec.entry /\ codec'.length = codec.length
        /\ codec'.made = codec.made /\ codec'.sent = codec.sent /\ codec'.size = s
        /\ codec'.junk = over /\ codec'.need = n
    BY <1>1, <2>1 DEF Codecs
  <2> QED BY <2>2 DEF s, n
<1>4. codec'.need \in Nat /\ codec'.need > 0 /\ codec.made = codec.sent
  <2>1. codec'.need \in Nat
    BY DEF Right, Natural
  <2>2. codec'.need > 0
    <3>1. need < 1 \/ (codec'.need = need /\ ~(need < 1))
      BY <1>3
    <3> QED BY <1>3, <2>1, <3>1
  <2> QED BY <1>3, <2>1, <2>2 DEF Right, Counted
<1>5. ASSUME Fit(img)
      PROVE  ~codec'.junk /\ Supplied(img, codec.entry, codec'.need, codec'.size)
  <2> DEFINE all == EndOf(Image[img].frames, Len(Image[img].frames))
             first == EndOf(Image[img].frames, codec.entry)
  <2>1. \/ FrameSize = 0
        \/ FrameSize = FRAME /\ Frame < Len(Image[img].frames)
    BY <1>1, <1>4, <1>5, NextFrame
  <2>2. ~codec.junk /\ FRAME \in Nat \ {0} /\ img \in Images /\ codec.entry \in Nat /\ Frame \in Nat
        /\ Len(Image[img].frames) \in Nat
    <3>1. /\ ~codec.junk /\ FRAME \in Nat \ {0} /\ img \in Images /\ codec.entry \in Nat
          /\ codec.frames \in Nat
      BY <1>1, <1>5, FitDecoder
    <3> QED BY <3>1, StreamType DEF Frame
  <2>3. ~codec'.junk
    <3>1. ~(Frame \in disk.bad)
      BY <1>1, <1>5 DEF Fit, Good
    <3>2. ~(FrameSize > 0 /\ Frame >= Len(disk.frames))
      BY <1>1, <2>1, <2>2
    <3> QED BY <1>3, <2>2, <3>1, <3>2
  <2>4. /\ first \in Nat /\ all \in Nat /\ first <= all
        /\ Image[img].behind \in Nat /\ StreamEnd(img) = all + Image[img].behind
    BY <2>2, DiskType, EndOfType, EndsBounded DEF StreamEnd
  <2>5. first + need <= StreamEnd(img) + 1
    <3>1. CASE FrameSize = 0
      <4>1. need = (InputTo(Frame) + (IF AtReset THEN Header ELSE 0)) - InputTo(codec.entry)
        <5>1. ~codec.junk
          BY <2>2
        <5>2. FrameNeeds = {u - InputTo(codec.entry) :
                 u \in {InputTo(Frame) + IF AtReset THEN Header ELSE 0}}
          BY <3>1, <5>1, Zenon DEF FrameNeeds
        <5>3. need \in FrameNeeds
          BY <1>2
        <5> QED BY <5>2, <5>3
      <4>2. InputTo(Frame) \in Nat /\ InputTo(Frame) <= all
        BY <1>1, <2>2, DiskType, EndOfType, EndsBounded DEF InputTo
      <4>3. Header \in Nat /\ Header <= Image[img].behind + 1
        <5>1. Image[img].header \in {1, 3} /\ ~(Image[img].behind = 1 /\ Image[img].header = 3)
          BY <1>5, <2>2, ChmAssumption DEF Disk, Fit, Usable
        <5> QED BY <1>1, <2>4, <5>1 DEF Header
      <4> DEFINE h == IF AtReset THEN Header ELSE 0
      <4>4. h \in Nat /\ h <= Image[img].behind + 1
        BY <2>4, <4>3
      <4>5. need = (InputTo(Frame) + h) - first
        BY <1>1, <4>1 DEF InputTo
      <4> HIDE DEF h, first, all
      <4> QED BY <2>4, <4>2, <4>4, <4>5
    <3>2. CASE FrameSize = FRAME /\ Frame < Len(Image[img].frames)
      <4>1. \/ need = InputTo(Frame + 1) - InputTo(codec.entry)
            \/ need = (InputTo(Frame + 1) + 1) - InputTo(codec.entry)
        <5>1. ~(FrameSize = 0) /\ ~(Frame >= Len(disk.frames)) /\ ~(FrameSize < FRAME)
          <6>1. disk.frames = Image[img].frames
            BY <1>1
          <6> HIDE DEF img
          <6> QED BY <2>2, <3>2, <6>1
        <5>2. ~codec.junk
          BY <2>2
        <5>3. FrameNeeds = {u - InputTo(codec.entry) : u \in {InputTo(Frame + 1), InputTo(Frame + 1) + 1}}
          BY <5>1, <5>2, Zenon DEF FrameNeeds
        <5>4. need \in FrameNeeds
          BY <1>2
        <5> QED BY <5>3, <5>4
      <4>2. InputTo(Frame + 1) \in Nat /\ InputTo(Frame + 1) <= all
        BY <1>1, <2>2, DiskType, EndOfType, EndsBounded DEF InputTo
      <4>3. InputTo(codec.entry) = first
        BY <1>1 DEF InputTo
      <4> HIDE DEF first, all
      <4> QED BY <2>4, <4>1, <4>2, <4>3
    <3> QED BY <2>1, <3>1, <3>2
  <2>6. first + codec'.need <= StreamEnd(img) + 1
    BY <1>3, <2>4, <2>5
  <2>7. codec'.size \in {0, FRAME}
    BY <1>3, <2>1
  <2> QED BY <2>3, <2>6, <2>7 DEF Supplied
<1>6. pc' \notin {"rtabledata", "spandata", "spaninfo", "init"} /\ pc # "idle"
  BY <1>1
<1> HIDE DEF over
<1> QED BY <1>1, <1>3, <1>5, <1>6, GoesOnWorks

\* read_input
LEMMA InputWorks == ASSUME Inv, Right, Works, Input PROVE Works'
<1> DEFINE all == InputTo(Len(disk.frames)) + disk.behind
           n == IF pos > all THEN 0 ELSE MinOf(BUFFER, all - pos)
           inOrder == pos = InputTo(codec.entry) + codec.got
<1>1. /\ UNCHANGED chm /\ pc = "frames" /\ codec.on /\ d \in States /\ codec \in Codecs
      /\ pos \in Nat /\ pos # AWAY /\ d.infh = call.image /\ call.image \in Images
      /\ codec.got \in Nat /\ codec.need \in Nat /\ codec.need > codec.got
      /\ call.file.length > 0
  BY ChmAssumption
     DEF Input, Inv, InCall, Headers, Typed, DecoderUp, InStep, At, Decoding, Right, Natural, Works
<1>2. all \in Nat /\ all = StreamEnd(d.infh)
  <2>1. disk.frames \in Seq(Nat) /\ disk.behind \in Nat
    BY <1>1, DiskType DEF disk
  <2>2. InputTo(Len(disk.frames)) \in Nat
    BY <2>1, EndOfType DEF InputTo
  <2> QED BY <1>1, <2>1, <2>2 DEF StreamEnd, InputTo, disk
<1>3. n \in Nat /\ (n = 0 => pos >= all) /\ (pos >= all => n = 0)
  BY <1>1, <1>2, ChmAssumption DEF MinOf
<1>4. \/ /\ n > 0 /\ NoFault /\ codec' = [codec EXCEPT !.got = @ + n, !.junk = @ \/ ~inOrder]
         /\ UNCHANGED <<d, call, pc, error>>
      \/ /\ NoFault /\ codec' = [codec EXCEPT !.got = @ + 1, !.eof = TRUE]
         /\ UNCHANGED <<d, call, pc, error>>
      \/ n = 0 /\ codec.eof /\ NoFault /\ Useless("READ", d, pos)
      \/ Fault /\ Useless("READ", d, AWAY)
  BY <1>1 DEF Input
<1> HIDE DEF n, all
<1>5. pc \notin {"rtabledata", "spandata", "spaninfo", "init", "idle", "copy"}
  BY <1>1
<1>6. Fit(d.infh) => ~codec.junk /\ Supplied(d.infh, codec.entry, codec.need, codec.size)
  BY <1>1 DEF Works, LengthTrue
<1>7. CASE n = 0 /\ codec.eof /\ NoFault /\ Useless("READ", d, pos)
  <2>1. ASSUME clean, Intact(call.file) PROVE FALSE
    <3>1. Fit(d.infh) /\ codec.entry \in Nat
      BY <1>1, <1>5, <2>1, FitOf DEF Codecs
    <3> DEFINE first == EndOf(Image[d.infh].frames, codec.entry)
    <3>2. first \in Nat /\ pos + 1 = first + codec.got
      BY <1>1, <1>6, <1>7, <3>1, DiskType, EndOfType DEF Inv, InStep, At, Decoding
    <3>3. first + codec.need <= StreamEnd(d.infh) + 1
      BY <1>1, <1>6, <3>1 DEF Supplied
    <3> HIDE DEF first
    <3> QED BY <1>1, <1>2, <1>3, <1>7, <3>2, <3>3
  <2> QED BY <1>1, <1>7, <2>1, UselessWorks
<1>8. CASE Fault /\ Useless("READ", d, AWAY)
  BY <1>1, <1>8, UselessWorks
<1>9. CASE /\ n > 0 /\ NoFault /\ codec' = [codec EXCEPT !.got = @ + n, !.junk = @ \/ ~inOrder]
           /\ UNCHANGED <<d, call, pc, error>>
  <2>1. ~codec.eof
    <3>1. codec.eof => pos >= all
      BY <1>1, <1>2 DEF Right, Undamaged, At, Decoding
    <3> QED BY <1>3, <1>9, <3>1
  <2>2. codec.junk \/ inOrder
    <3> SUFFICES ASSUME ~codec.junk PROVE inOrder
      OBVIOUS
    <3>1. pos + 0 = InputTo(codec.entry) + codec.got
      BY <1>1, <2>1 DEF Inv, InStep, At, Decoding, InputTo, disk
    <3> QED BY <1>1, <3>1
  <2>3. /\ codec'.junk = (codec.junk \/ ~inOrder) /\ codec'.entry = codec.entry
        /\ codec'.length = codec.length /\ codec'.need = codec.need /\ codec'.size = codec.size
    <3> HIDE DEF inOrder
    <3> QED BY <1>1, <1>9 DEF Codecs
  <2>4. Fit(d.infh) => ~codec'.junk /\ Supplied(d.infh, codec.entry, codec'.need, codec'.size)
    BY <1>6, <2>2, <2>3
  <2> QED BY <1>1, <1>5, <1>9, <2>3, <2>4, GoesOnWorks
<1>10. CASE /\ NoFault /\ codec' = [codec EXCEPT !.got = @ + 1, !.eof = TRUE]
            /\ UNCHANGED <<d, call, pc, error>>
  <2>1. /\ codec'.junk = codec.junk /\ codec'.entry = codec.entry
        /\ codec'.length = codec.length /\ codec'.need = codec.need /\ codec'.size = codec.size
    BY <1>1, <1>10 DEF Codecs
  <2>2. Fit(d.infh) => ~codec'.junk /\ Supplied(d.infh, codec.entry, codec'.need, codec'.size)
    BY <1>6, <2>1
  <2> QED BY <1>1, <1>5, <1>10, <2>1, <2>2, GoesOnWorks
<1> QED BY <1>4, <1>7, <1>8, <1>9, <1>10

\* Nothing is wrong with a frame of an intact file.
LEMMA FrameFailsWorks == ASSUME Inv, Right, Works, FrameFails PROVE Works'
<1>1. /\ pc = "frames" /\ UNCHANGED chm /\ NoFault /\ Useless("DECRUNCH", d, pos)
      /\ codec.on /\ d.infh = call.image /\ codec.need > 0
      /\ codec.junk \/ (codec.size < FRAME /\ codec.size > 0)
  BY DEF FrameFails, NoFault, Inv, InCall, DecoderUp
<1>2. ASSUME clean, Intact(call.file) PROVE FALSE
  <2>1. call.file.length > 0
    BY <1>1 DEF Works
  <2>2. Fit(d.infh)
    BY <1>1, <1>2, <2>1, FitOf
  <2>3. ~codec.junk /\ codec.size \in {0, FRAME}
    BY <1>1, <2>2 DEF Works, LengthTrue, Supplied
  <2> QED BY <1>1, <2>3, ChmAssumption
<1> QED BY <1>1, <1>2, UselessWorks

\* When all the frames that are wanted are decoded, so is what is wanted.
LEMMA FramesDoneWorks == ASSUME Inv, Right, Works, FramesDone PROVE Works'
<1>1. /\ pc = "frames" /\ UNCHANGED chm /\ NoFault /\ Decoding /\ codec.on /\ codec.need = 0
      /\ ~WantsFrame /\ call.want \in Nat /\ d \in States /\ d.infh = call.image
      /\ call.file \in Files /\ d.offset \in Nat /\ call.file.length > 0
  BY DEF FramesDone, NoFault, Decoding, Inv, InCall, DecoderUp, Typed, Right, Natural, Works
<1>2. CASE call.want > 0
  <2>1. Useless("DECRUNCH", d, pos)
    BY <1>2 DEF FramesDone
  <2>2. ASSUME clean, Intact(call.file) PROVE FALSE
    <3>1. Fit(d.infh) /\ call.file.offset + call.file.length <= End(d.infh)
      BY <1>1, <2>2, FitOf
    <3>2. d.offset + call.want <= End(d.infh)
      <4>1. /\ call.writing => d.offset = call.file.offset + Len(out)
                                /\ Len(out) + call.want = call.file.length
            /\ ~call.writing => d.offset + call.want = call.file.offset
            /\ out \in Seq(Nat)
        BY <1>1 DEF Right, Asked, Plain
      <4>2. call.file.offset \in Nat /\ call.file.length \in Nat /\ Len(out) \in Nat
            /\ End(d.infh) \in Nat
        BY <1>1, <3>1, <4>1, FilesType, FitDecoder, StreamType, SMTT(40)
      <4>3. CASE call.writing
        BY <1>1, <3>1, <4>1, <4>2, <4>3
      <4>4. CASE ~call.writing
        BY <1>1, <3>1, <4>1, <4>2, <4>4
      <4> QED BY <4>3, <4>4
    <3>3. codec.made = codec.sent
      BY <1>1, <1>2 DEF Right, Counted
    <3>0. /\ codec.frames \in Nat /\ codec.made \in Nat /\ codec.sent \in Nat
          /\ codec.length \in Nat /\ codec.entry * FRAME \in Nat /\ codec.frames * FRAME \in Nat
          /\ FRAME \in Nat \ {0} /\ codec.length = End(d.infh) - codec.entry * FRAME
          /\ codec.made < codec.length => codec.made = codec.frames * FRAME
          /\ d.offset = codec.entry * FRAME + codec.sent /\ d.infh \in Images
      BY <1>1, <3>1, FitDecoder
    <3> DEFINE t == codec.sent + call.want
               q == t \div FRAME
    <3>4. t \in Nat /\ t <= codec.length
      BY <1>1, <3>0, <3>2, StreamType, SMTT(40)
    <3>5. codec.sent = codec.frames * FRAME
      BY <1>1, <1>2, <3>1, <3>3, <3>4, <3>0
    <3>6. q + 1 <= codec.frames
      <4>1. ~(codec.frames < q + 1)
        BY <1>1 DEF WantsFrame
      <4>2. q \in Nat
        <5> HIDE DEF t
        <5> QED BY <1>1, <3>1, <3>4, <3>0, Quotient
      <4> HIDE DEF q
      <4> QED BY <1>1, <3>1, <4>1, <4>2, <3>0
    <3>7. t < (q + 1) * FRAME
      <4>1. FRAME \in Nat \ {0}
        BY ChmAssumption
      <4> HIDE DEF t
      <4>2. t % FRAME \in 0..FRAME - 1 /\ t = FRAME * (t \div FRAME) + (t % FRAME)
        BY <3>4, <4>1
      <4>3. q \in Nat
        BY <3>4, <4>1, Quotient
      <4>4. (q + 1) * FRAME = q * FRAME + FRAME /\ q * FRAME = FRAME * q /\ q * FRAME \in Nat
        <5> HIDE DEF q
        <5> QED BY <4>1, <4>3
      <4> QED BY <3>4, <4>1, <4>2, <4>4
    <3>8. q \in Nat
      <4> HIDE DEF t
      <4> QED BY <3>4, ChmAssumption, Quotient
    <3> HIDE DEF q
    <3>9. (q + 1) * FRAME <= codec.frames * FRAME /\ (q + 1) * FRAME \in Nat
      <4>1. q + 1 \in Nat
        BY <3>8
      <4> QED BY <3>0, <3>6, <4>1, Longer, InNat
    <3> QED BY <1>1, <1>2, <3>1, <3>5, <3>7, <3>9, <3>0
  <2> QED BY <1>1, <2>1, <2>2, UselessWorks
<1>3. CASE ~(call.want > 0)
  <2>1. call.want = 0 /\ Done(d, codec)
    BY <1>1, <1>3 DEF FramesDone
  <2>2. Advanced(0) = d
    BY <1>1 DEF Advanced, States
  <2> DEFINE n == 0
  <2>3. n \in Nat /\ Done(Advanced(n), codec) /\ n = call.want
    BY <2>1, <2>2
  <2> HIDE DEF n
  <2> QED BY <1>1, <2>3, SendsWorks
<1> QED BY <1>2, <1>3
-----------------------------------------------------------------------------
LEMMA NextWorks == Inv /\ Inv' /\ Right /\ Right' /\ Works /\ [Next]_vars => Works'
<1> SUFFICES ASSUME Inv, Inv', Right, Right', Works, [Next]_vars PROVE Works'
  OBVIOUS
<1>1. CASE UNCHANGED vars
  <2>1. UNCHANGED <<chm, d, codec, call, pc, error, clean>>
    BY <1>1 DEF vars
  <2>2. Found' /\ Unfailing'
    BY <2>1, IntactStays DEF Works, Found, Unfailing, disk
  <2>3. LengthTrue'
    BY <2>1 DEF Works, LengthTrue, Fit, Good, Usable, Entered, Supplied, End, StreamEnd
  <2> QED BY <2>1, <2>2, <2>3 DEF Works
<1>2. CASE Steps
  BY <1>2, CopyWorks, FindWorks, ReadWorks, InitStreamWorks, SeekWorks, EnterWorks,
     FramesDoneWorks, BeginFrameWorks, InputWorks, FrameFailsWorks, FrameOutWorks
     DEF Steps
<1>3. ASSUME NEW c \in Helpfile,
             \/ \E img \in Opens[c] : Open(c, img)
             \/ OpenFails(c) \/ Close(c)
             \/ \E f \in Files : Start(c, f)
      PROVE  Works'
  BY <1>3, OpenCloseWorks, StartWorks
<1> QED BY <1>1, <1>2, <1>3 DEF Next

\* An intact file of a help file that has all it takes is extracted whenever nothing
\* fails in the call: whatever was extracted before, also from other help files,
\* whatever failed then, and wherever that left the decoder.
THEOREM IntactFilesExtract == Spec => []IntactExtracts
<1>1. Inv /\ Inv' /\ Right /\ [Next]_vars => Right'
  BY NextRight
<1>2. Inv /\ Inv' /\ Right /\ Right' /\ Works /\ [Next]_vars => Works'
  BY NextWorks
<1>3. Works => IntactExtracts
  BY DEF Works, Unfailing, IntactExtracts, Returned
<1>4. Spec => []Inv
  BY InitInv, NextInv, PTL DEF Spec
<1>5. Spec => []Right
  BY <1>1, <1>4, InitRight, PTL DEF Spec
<1>6. Spec => []Works
  BY <1>2, <1>4, <1>5, InitWorks, PTL DEF Spec
<1> QED BY <1>3, <1>6, PTL
=============================================================================
