----------------------------- MODULE SingleFile -----------------------------
(***************************************************************************)
(* A decompressor for single files, SZDD, KWAJ or OAB, and a caller who    *)
(* opens, extracts, closes and decompresses in any order.                  *)
(***************************************************************************)
EXTENDS SzddFile, KwajFile, OabFile

-----------------------------------------------------------------------------
(* Where things are.                                                       *)

\* where each of a row of pieces begins, and behind the last of them
Offsets(sizes) ==
  LET at[i \in 1 .. Len(sizes) + 1] == IF i = 1 THEN 0 ELSE at[i - 1] + sizes[i - 1]
  IN  at

\* where a KWAJ file has the optional header `label`
KwajSize(f, label) ==
  IF label = "signature" THEN 14
  ELSE IF label = "names" \/ label \notin f.flags THEN 0
  ELSE CASE label = "length" -> 4
         [] label = "unknown1" -> 2
         [] label = "unknown2" -> 2 + f.unknown2
         [] label = "name" -> f.name + 1
         [] label = "ext" -> f.ext + 1
         [] label = "extra" -> 2 + f.extra
KwajSizes(f) == [i \in 1 .. 8 |-> KwajSize(f, Fields[i])]
KwajStart(f, label) == Offsets(KwajSizes(f))[CHOOSE i \in 1 .. 9 : Fields[i] = label]

KwajWhole(f) ==
  /\ "name" \in f.flags => f.name <= 8
  /\ "ext" \in f.flags => f.ext <= 3
  /\ KwajStart(f, "opened") < f.len

\* where an OAB file has its n-th block, what the blocks before used of the
\* base, and what they make
OabStart(f, n) == HEAD + Offsets([i \in DOMAIN f.blocks |-> HEAD + f.blocks[i].csize])[n]
BaseUsed(f, n) == Offsets([i \in DOMAIN f.blocks |-> f.blocks[i].ssize])[n]
Decoded(f, n) == Offsets([i \in DOMAIN f.blocks |-> f.blocks[i].dsize])[n]

\* What it is for a file to be as it should be.
SzddSound(f) == f.sig /\ (f.normal => f.mode) /\ (IF f.normal THEN 14 ELSE 12) <= f.len

KwajSound(f) ==
  f.sig /\ KwajWhole(f) /\ f.data <= f.len /\ f.method # "unknown"

OabSound(f) ==
  LET n == Len(f.blocks) + 1 IN
  /\ f.sig
  /\ \A i \in DOMAIN f.blocks :
       /\ f.blocks[i].good
       /\ f.blocks[i].dsize <= BlockMaxOf(f)
       /\ IF f.form = "patch" THEN f.blocks[i].ssize <= Least(BlockMaxOf(f), WINDOWMAX)
          ELSE f.blocks[i].stored => f.blocks[i].dsize = f.blocks[i].csize
  /\ f.target = Decoded(f, n)
  /\ OabStart(f, n) <= f.len

\* a base is the right one for all patches that are as they should be
SoundAssumption ==
  \A f \in Files : f.sound =>
    /\ f.form = "szdd" => SzddSound(f)
    /\ f.form = "kwaj" => KwajSound(f)
    /\ f.form \in {"oab", "patch"} => OabSound(f)
    /\ f.form = "patch" =>
         \A b \in Bases : b.right => BaseUsed(f, Len(f.blocks) + 1) <= b.len
ASSUME SoundAssumption

-----------------------------------------------------------------------------
Init ==
  /\ kind \in {"szdd", "kwaj", "oab"}
  /\ error = "OK" /\ ret = "OK"
  /\ headers = <<>> /\ opens = 0
  /\ handles = <<>> /\ heap = {}
  /\ pc = "idle" /\ l = <<>> /\ out = 0
  /\ failed = FALSE /\ faults = 0

Step ==
  \/ OpenInput \/ AllocHeader \/ Opened
  \/ SzddSignature \/ SzddLength \/ KwajHeaders
  \/ SeekData \/ OpenOutput \/ Unpack \/ UnpackRead \/ UnpackWrite \/ UnpackDamaged
  \/ EndExtract \/ CloseWhole
  \/ OabStep

Next == OpenCall \/ ExtractCall \/ CloseCall \/ OabCall \/ Step

Spec == Init /\ [][Next]_vars

\* a call that was made runs on; that one is made nothing promises
FairSpec == Spec /\ WF_vars(Step)

-----------------------------------------------------------------------------
Texts == {"name", "extra"} \X (1 .. MaxOpens)

(* Whatever fails, and wherever: when a call has returned, the handles that *)
(* are open and the memory that is allocated are those of the caller's      *)
(* headers, but for the texts of KWAJ headers, which nobody frees           *)
(* (kwajd.c:141, 116), and a header has its texts as long as it is there.   *)
CleanExit ==
  pc = "idle" =>
    /\ DOMAIN handles = {<<"in", n>> : n \in DOMAIN headers}
    /\ heap \ Texts = {HeaderOf(n) : n \in DOMAIN headers}
    /\ \A n \in DOMAIN headers :
         /\ headers[n].name > 0 => <<"name", n>> \in heap
         /\ headers[n].extra > 0 => <<"extra", n>> \in heap

(* A call in which the caller's system failed says so, and last_error()     *)
(* says what the call said (mspack.h: "the error code set by the most       *)
(* recently called method"), also behind the close() within decompress().   *)
ErrorReported ==
  pc = "idle" =>
    /\ failed => ret # "OK"
    /\ kind # "oab" => error = ret

-----------------------------------------------------------------------------
(* Each field is read where it is: the optional headers of KWAJ behind      *)
(* strings of any length, OAB's blocks behind streams that read ahead or    *)
(* leave padding, and a patch's part of the base.  And names keep to the 13 *)
(* bytes that were allocated.                                               *)
HeaderInStep ==
  /\ kind = "kwaj" /\ pc \in {Fields[i] : i \in 1 .. 9} /\ (pc = "opened" => error = "OK") =>
       /\ l.top <= 12
       /\ KwajWhole(l.file) => handles[In].pos = KwajStart(l.file, pc)
  /\ OabAt("block") =>
       /\ handles[In].pos = OabStart(l.file, l.block + 1)
       /\ l.patch => handles[Base].pos = BaseUsed(l.file, l.block + 1)

(* MSPACK_ERR_OK of an OAB call means that all of the target was written,   *)
(* and that every LZX block was checked.                                    *)
OkMeansWhole ==
  OabAt("out") /\ l.error = "OK" =>
    /\ out = l.file.target
    /\ \A i \in 1 .. l.block :
         (l.patch \/ ~l.file.blocks[i].stored) =>
           l.file.blocks[i].good /\ (l.patch => l.base.right)

(* A file that is as it should be, and for a patch the base it was made     *)
(* from, is opened, extracted and decompressed: its name and extra text are *)
(* those it has, and all of its data comes out.                             *)
Intact ==
  /\ pc # "idle" /\ ~failed /\ l.file.sound
  /\ kind = "oab" => l.patch = (l.file.form = "patch") /\ (l.patch => l.base.right)

IntactWorks ==
  Intact =>
    IF kind = "oab" THEN l.error = "OK"
    ELSE /\ pc \in {"opened", "unpacked", "close"} => error = "OK"
         /\ pc \in {"unpacked", "close"} => out = l.file.len - DataOffset(l.file)
         /\ pc = "opened" /\ kind = "kwaj" =>
              /\ l.fn = (IF "name" \in l.file.flags THEN l.file.name ELSE 0)
                          + (IF "ext" \in l.file.flags THEN 1 + l.file.ext ELSE 0)
              /\ l.extra = IF "extra" \in l.file.flags THEN l.file.extra ELSE 0

\* the file ends within the padding of a block
InMissingPadding == OabAt("padding") /\ l.available > 0 /\ Got(In, 1) = 0

(* Every call returns, except that of a file that was cut off within        *)
(* padding (oabd.c:217).                                                    *)
CallsEnd == pc # "idle" ~> pc = "idle" \/ InMissingPadding

=============================================================================
