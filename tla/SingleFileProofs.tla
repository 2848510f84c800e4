-------------------------- MODULE SingleFileProofs --------------------------
(***************************************************************************)
(* Whatever files there are and whichever calls to mspack_system fail,     *)
(* every call of a decompressor of single files gives back what it opened  *)
(* and allocated, and reports the failure.                                 *)
(*                                                                         *)
(* The invariant follows a call through its labels: what is open and       *)
(* allocated beyond the headers' own, and what the error is once something *)
(* failed.                                                                 *)
(***************************************************************************)
EXTENDS SingleFile, WellFoundedInduction, TLAPS

Headers == {"signature", "length", "unknown1", "unknown2", "names", "name", "ext", "extra"}
Opening == {"open", "alloc header", "opened"} \cup Headers
Unpacking == {"unpack", "read", "write", "unpacked"}
Extracting == {"seek", "open output", "close"} \cup Unpacking
OabLabels ==
  {"oab open", "oab header", "open base", "oab output", "oab alloc", "block", "stored",
   "init lzx", "reference", "lzx", "free lzx", "padding", "out"}

Inputs == {<<"in", n>> : n \in DOMAIN headers}
HeaderBlocks == {HeaderOf(n) : n \in DOMAIN headers}

\* Where a call is, and whose header it is about.
Control ==
  /\ kind \in {"szdd", "kwaj", "oab"}
  /\ pc \in {"idle"} \cup (IF kind = "oab" THEN OabLabels ELSE Opening \cup Extracting)
  /\ opens \in 0 .. MaxOpens /\ DOMAIN headers \subseteq 1 .. opens
  /\ kind = "oab" => DOMAIN headers = {}
  /\ pc \in OabLabels => {"n", "error"} \subseteq DOMAIN l /\ l.n = 0
  /\ pc \in Opening \cup Extracting =>
       /\ {"n", "file", "whole", "got", "fn", "top", "extra"} \subseteq DOMAIN l
       /\ l.n \in 1 .. opens
       /\ l.n \in DOMAIN headers <=> pc \in Extracting /\ ~l.whole
  /\ pc = "close" => l.whole

\* Handles beyond those of headers are open only within a call.
HandlesKept ==
  /\ Inputs \subseteq DOMAIN handles
  /\ pc = "idle" => DOMAIN handles \subseteq Inputs
  /\ pc \in OabLabels => DOMAIN handles \subseteq {In, Base, Out}
  /\ pc \in Opening \cup Extracting => DOMAIN handles \subseteq Inputs \cup {In, Out}
  /\ pc \in Opening \cup Extracting /\ Out \in DOMAIN handles => pc \in Unpacking
  /\ pc = "open" => In \notin DOMAIN handles
  /\ pc \in Headers \/ (pc = "opened" /\ error = "OK") => In \in DOMAIN handles

\* So is memory, and a header has its texts as soon as they are not empty.
HeapKept ==
  /\ HeaderBlocks \subseteq heap
  /\ pc = "idle" => heap \subseteq HeaderBlocks \cup Texts
  /\ pc \in OabLabels => heap \subseteq {Lzx, Buffer} \cup Texts
  /\ pc \in Opening \cup Extracting => heap \subseteq HeaderBlocks \cup Texts \cup {HeaderOf(l.n), Buffer}
  /\ pc \in Opening \cup Extracting /\ Buffer \in heap => pc \in Unpacking
  /\ pc \in Headers \/ (pc = "opened" /\ error = "OK") => HeaderOf(l.n) \in heap

TextsKept ==
  /\ \A n \in DOMAIN headers :
       /\ headers[n].name > 0 => <<"name", n>> \in heap
       /\ headers[n].extra > 0 => <<"extra", n>> \in heap
  /\ pc \in Opening =>
       /\ l.fn > 0 => <<"name", l.n>> \in heap
       /\ l.extra > 0 => <<"extra", l.n>> \in heap
  /\ pc \in {"name", "ext"} /\ Present("names") => <<"name", l.n>> \in heap

\* Once something failed, the call is on its way out with an error.
FailureKept ==
  /\ failed \in BOOLEAN
  /\ failed = TRUE =>
       \/ pc = "alloc header" /\ In \notin DOMAIN handles
       \/ pc \in {"opened", "unpacked", "close"} /\ error # "OK"
       \/ pc = "out" /\ l.error # "OK"
       \/ pc = "idle" /\ ret # "OK"
  /\ pc = "idle" /\ kind # "oab" => error = ret

\* The decoded and the missing part of an OAB target are all of it, and blocks
\* that are done were checked.
Blocks == l.file.blocks
Checked(b) == l.patch \/ ~b.stored => b.good /\ (l.patch => l.base.right)
InBlock == {"stored", "init lzx", "reference", "lzx", "free lzx", "padding"}

OabFields == {"n", "file", "base", "patch", "error", "target", "block", "available", "right"}

TargetKept ==
  pc \in OabLabels =>
    /\ OabFields \subseteq DOMAIN l
    /\ l.file \in Files /\ l.file.form \in {"oab", "patch"}
    /\ l.block \in Nat /\ l.block <= Len(Blocks)
    /\ l.target \in Int /\ out \in Int
    /\ \A i \in 1 .. l.block : Checked(Blocks[i])
    /\ pc \in InBlock => l.block < Len(Blocks)
    /\ pc = "stored" => Block.stored /\ ~l.patch
    /\ pc \in {"free lzx", "padding"} =>
         /\ out + l.target = l.file.target + Block.dsize
         /\ CrcAgrees => Checked(Block)
    /\ pc \notin {"free lzx", "padding", "out"} => out + l.target = l.file.target
    /\ pc = "out" /\ l.error = "OK" => out = l.file.target

Inv == Control /\ HandlesKept /\ HeapKept /\ TextsKept /\ FailureKept /\ TargetKept

-----------------------------------------------------------------------------
\* The optional headers of KWAJ come one after the other.
LEMMA FieldAfter ==
  ASSUME NEW i \in 1 .. 8
  PROVE  After(Fields[i]) = Fields[i + 1]
<1>1. \A j \in 1 .. 8 : Fields[j] = Fields[i] => j = i
  BY DEF Fields
<1>2. (CHOOSE j \in 1 .. 8 : Fields[j] = Fields[i]) = i
  BY <1>1
<1>3. After(Fields[i]) = Fields[1 + i]
  BY <1>2 DEF After
<1> QED
  BY <1>3

\* That order, header by header.
LEMMA AfterHeaders ==
  /\ After("signature") = "length" /\ After("length") = "unknown1"
  /\ After("unknown1") = "unknown2" /\ After("unknown2") = "names"
  /\ After("names") = "name" /\ After("name") = "ext"
  /\ After("ext") = "extra" /\ After("extra") = "opened"
BY FieldAfter DEF Fields

\* The length of a sequence is a number.
LEMMA LenIsNat ==
  ASSUME NEW S, NEW s \in Seq(S)
  PROVE  Len(s) \in Nat
OBVIOUS

\* The block that is at work is one of the file's.
LEMMA BlockType ==
  ASSUME TargetKept, pc \in OabLabels, l.block < Len(Blocks)
  PROVE  Block.dsize \in Nat /\ Len(Blocks) \in Nat /\ l.file.target \in Nat
<1>1. l.file \in Files /\ l.file.form \in {"oab", "patch"} /\ l.block \in Nat
  BY DEF TargetKept
<1>2. Blocks \in Seq(BLOCK)
  BY <1>1, OabAssumption DEF OabAssumption, Blocks
<1>3. Len(Blocks) \in Nat
  BY <1>2
<1>4. Blocks[l.block + 1] \in BLOCK
  BY <1>1, <1>2, <1>3
<1> QED
  BY <1>1, <1>3, <1>4, OabAssumption DEF OabAssumption, BLOCK, Block, Blocks

-----------------------------------------------------------------------------
(* Every step keeps each part of the invariant.                             *)

\* The labels follow each other, and what a call knows of its header does.
LEMMA ControlStep ==
  ASSUME Inv, [Next]_vars
  PROVE  Control'
<1> USE PackedFileAssumption DEF PackedFileAssumption, Inv, Control,
     Headers, Opening, Unpacking, Extracting, OabLabels,
     Works, Fails, Reads, CannotRead, Moves, Opens, Closes, Ends, caller, system, In, Out
<1>1. CASE OpenCall
  BY <1>1 DEF OpenCall, Locals
<1>2. CASE ExtractCall
  BY <1>2 DEF ExtractCall, Locals
<1>3. CASE CloseCall
  BY <1>3 DEF CloseCall
<1>4. CASE OabCall
  <2>1. PICK f \in Files, base \in Bases, patch \in BOOLEAN :
          l' = [n |-> 0, file |-> f, base |-> base, patch |-> patch, error |-> "OK", target |-> f.target,
                block |-> 0, available |-> 0, right |-> TRUE]
    BY <1>4 DEF OabCall
  <2>2. l'.n = 0 /\ {"n", "error"} \subseteq DOMAIN l'
    BY <2>1
  <2>3. pc' = "oab open" /\ kind' = kind /\ kind = "oab" /\ opens' = opens /\ headers' = headers
    BY <1>4 DEF OabCall, OabAt
  <2> QED
    BY <2>2, <2>3
<1>5. CASE OpenInput
  BY <1>5 DEF OpenInput
<1>6. CASE AllocHeader
  BY <1>6 DEF AllocHeader
<1>7. CASE Opened
  <2>1. CASE error # "OK"
    BY <1>7, <2>1 DEF Opened, GivenBack
  <2>2. CASE error = "OK" /\ l.whole
    BY <1>7, <2>2 DEF Opened
  <2>3. CASE error = "OK" /\ ~l.whole
    <3>1. DOMAIN headers' = DOMAIN headers \cup {l.n}
      BY <1>7, <2>3 DEF Opened
    <3> QED
      BY <1>7, <2>3, <3>1 DEF Opened
  <2> QED
    BY <2>1, <2>2, <2>3
<1>8. CASE SzddSignature
  BY <1>8 DEF SzddSignature, SzddAt, HeadersRead
<1>9. CASE SzddLength
  BY <1>9 DEF SzddLength, SzddAt, HeadersRead
<1>10. CASE KwajSkips
  BY <1>10, AfterHeaders DEF KwajSkips, Goes
<1>11. CASE KwajSignature
  BY <1>11, AfterHeaders DEF KwajSignature, KwajAt, Goes, HeadersRead
<1>12. CASE KwajNumber
  BY <1>12, AfterHeaders DEF KwajNumber, KwajAt, Goes, HeadersRead
<1>13. CASE KwajUnknown2
  BY <1>13, AfterHeaders DEF KwajUnknown2, KwajAt, Goes, HeadersRead
<1>14. CASE KwajAllocName
  BY <1>14, AfterHeaders DEF KwajAllocName, KwajAt, Goes, HeadersRead
<1>15. CASE KwajName
  BY <1>15, AfterHeaders DEF KwajName, KwajString, KwajAt, Goes, HeadersRead
<1>16. CASE KwajExtension
  BY <1>16, AfterHeaders DEF KwajExtension, KwajString, KwajAt, Goes, HeadersRead
<1>17. CASE KwajExtra
  BY <1>17, AfterHeaders DEF KwajExtra, KwajAt, Goes, HeadersRead
<1>18. CASE SeekData
  BY <1>18 DEF SeekData, Extracted
<1>19. CASE OpenOutput
  BY <1>19 DEF OpenOutput, Extracted
<1>20. CASE Unpack
  BY <1>20 DEF Unpack, Unpacked
<1>21. CASE UnpackRead
  BY <1>21 DEF UnpackRead, Unpacked
<1>22. CASE UnpackWrite
  BY <1>22 DEF UnpackWrite, Unpacked
<1>23. CASE UnpackDamaged
  BY <1>23 DEF UnpackDamaged, Unpacked
<1>24. CASE EndExtract
  BY <1>24 DEF EndExtract, Extracted
<1>25. CASE CloseWhole
  BY <1>25 DEF CloseWhole, Restored
<1>26. CASE OabOpenInput
  BY <1>26 DEF OabOpenInput, OabOpens, OabAt, OabRest, Goto, GoesOut
<1>27. CASE OabHeader
  BY <1>27 DEF OabHeader, OabAt, OabRest, Goto, GoesOut
<1>28. CASE OabOpenBase
  BY <1>28 DEF OabOpenBase, OabOpens, OabAt, OabRest, Goto, GoesOut
<1>29. CASE OabOpenOutput
  BY <1>29 DEF OabOpenOutput, OabOpens, OabAt, OabRest, Goto, GoesOut
<1>30. CASE OabAlloc
  BY <1>30 DEF OabAlloc, OabAt, OabRest, Goto, GoesOut
<1>31. CASE OabBlock
  BY <1>31 DEF OabBlock, OabAt, OabRest, Goto, GoesOut
<1>32. CASE OabStored
  BY <1>32 DEF OabStored, BlockDone, OabAt, OabRest, Goto, GoesOut
<1>33. CASE OabInitLzx
  BY <1>33 DEF OabInitLzx, OabAt, OabRest, Goto, GoesOut
<1>34. CASE OabReference
  BY <1>34 DEF OabReference, OabAt, OabRest, Goto, GoesOut
<1>35. CASE OabLzxRead
  BY <1>35 DEF OabLzxRead, OabAt, OabRest, Goto, GoesOut
<1>36. CASE OabLzxDone
  BY <1>36 DEF OabLzxDone, OabAt, OabRest, Goto, GoesOut
<1>37. CASE OabLzxDamaged
  BY <1>37 DEF OabLzxDamaged, OabAt, OabRest, Goto, GoesOut
<1>38. CASE OabFreeLzx
  BY <1>38 DEF OabFreeLzx, OabAt, OabRest, Goto, GoesOut
<1>39. CASE OabPadding
  BY <1>39 DEF OabPadding, OabAt, OabRest, Goto, GoesOut
<1>40. CASE OabCrc
  BY <1>40 DEF OabCrc, BlockDone, OabAt, OabRest, Goto, GoesOut
<1>41. CASE OabOut
  BY <1>41 DEF OabOut, OabAt, OabRest, Goto, GoesOut
<1>42. CASE UNCHANGED vars
  BY <1>42 DEF vars
<1> QED
  BY <1>1, <1>2, <1>3, <1>4, <1>5, <1>6, <1>7, <1>8, <1>9, <1>10, <1>11, <1>12,
     <1>13, <1>14, <1>15, <1>16, <1>17, <1>18, <1>19, <1>20, <1>21, <1>22, <1>23, <1>24,
     <1>25, <1>26, <1>27, <1>28, <1>29, <1>30, <1>31, <1>32, <1>33, <1>34, <1>35, <1>36,
     <1>37, <1>38, <1>39, <1>40, <1>41, <1>42
     DEF Next, Step, KwajHeaders, OabStep

\* What is open: the headers' own, and within a call its files.
LEMMA HandlesStep ==
  ASSUME Inv, [Next]_vars
  PROVE  HandlesKept'
<1> USE PackedFileAssumption DEF PackedFileAssumption, Inv, Control, HandlesKept, Inputs,
     Headers, Opening, Unpacking, Extracting, OabLabels,
     Works, Fails, Reads, CannotRead, Moves, Opens, Closes, Ends, caller, system, In, Out, Base
<1>1. CASE OpenCall
  BY <1>1 DEF OpenCall, Locals
<1>2. CASE ExtractCall
  BY <1>2 DEF ExtractCall, Locals
<1>3. CASE CloseCall
  BY <1>3 DEF CloseCall
<1>4. CASE OabCall
  BY <1>4 DEF OabCall, OabAt
<1>5. CASE OpenInput
  BY <1>5 DEF OpenInput
<1>6. CASE AllocHeader
  BY <1>6 DEF AllocHeader
<1>7. CASE Opened
  <2>1. CASE error # "OK"
    BY <1>7, <2>1 DEF Opened, GivenBack
  <2>2. CASE error = "OK" /\ l.whole
    BY <1>7, <2>2 DEF Opened
  <2>3. CASE error = "OK" /\ ~l.whole
    <3>1. DOMAIN headers' = DOMAIN headers \cup {l.n}
      BY <1>7, <2>3 DEF Opened
    <3> QED
      BY <1>7, <2>3, <3>1 DEF Opened
  <2> QED
    BY <2>1, <2>2, <2>3
<1>8. CASE SzddSignature
  BY <1>8 DEF SzddSignature, SzddAt, HeadersRead
<1>9. CASE SzddLength
  BY <1>9 DEF SzddLength, SzddAt, HeadersRead
<1>10. CASE KwajSkips
  BY <1>10, AfterHeaders DEF KwajSkips, Goes
<1>11. CASE KwajSignature
  BY <1>11, AfterHeaders DEF KwajSignature, KwajAt, Goes, HeadersRead
<1>12. CASE KwajNumber
  BY <1>12, AfterHeaders DEF KwajNumber, KwajAt, Goes, HeadersRead
<1>13. CASE KwajUnknown2
  BY <1>13, AfterHeaders DEF KwajUnknown2, KwajAt, Goes, HeadersRead
<1>14. CASE KwajAllocName
  BY <1>14, AfterHeaders DEF KwajAllocName, KwajAt, Goes, HeadersRead
<1>15. CASE KwajName
  BY <1>15, AfterHeaders DEF KwajName, KwajString, KwajAt, Goes, HeadersRead
<1>16. CASE KwajExtension
  BY <1>16, AfterHeaders DEF KwajExtension, KwajString, KwajAt, Goes, HeadersRead
<1>17. CASE KwajExtra
  BY <1>17, AfterHeaders DEF KwajExtra, KwajAt, Goes, HeadersRead
<1>18. CASE SeekData
  BY <1>18 DEF SeekData, Extracted
<1>19. CASE OpenOutput
  BY <1>19 DEF OpenOutput, Extracted
<1>20. CASE Unpack
  BY <1>20 DEF Unpack, Unpacked
<1>21. CASE UnpackRead
  BY <1>21 DEF UnpackRead, Unpacked
<1>22. CASE UnpackWrite
  BY <1>22 DEF UnpackWrite, Unpacked
<1>23. CASE UnpackDamaged
  BY <1>23 DEF UnpackDamaged, Unpacked
<1>24. CASE EndExtract
  <2>1. CASE l.whole
    BY <1>24, <2>1 DEF EndExtract, Extracted
  <2>2. CASE ~l.whole
    <3>1. pc' = "idle" /\ headers' = headers /\ l.n \in DOMAIN headers
      BY <1>24, <2>2 DEF EndExtract, Extracted
    <3> QED
      BY <1>24, <2>2, <3>1 DEF EndExtract, Extracted
  <2> QED
    BY <2>1, <2>2
<1>25. CASE CloseWhole
  BY <1>25 DEF CloseWhole, Restored
<1>26. CASE OabOpenInput
  BY <1>26 DEF OabOpenInput, OabOpens, OabAt, OabRest, Goto, GoesOut
<1>27. CASE OabHeader
  BY <1>27 DEF OabHeader, OabAt, OabRest, Goto, GoesOut
<1>28. CASE OabOpenBase
  BY <1>28 DEF OabOpenBase, OabOpens, OabAt, OabRest, Goto, GoesOut
<1>29. CASE OabOpenOutput
  BY <1>29 DEF OabOpenOutput, OabOpens, OabAt, OabRest, Goto, GoesOut
<1>30. CASE OabAlloc
  BY <1>30 DEF OabAlloc, OabAt, OabRest, Goto, GoesOut
<1>31. CASE OabBlock
  BY <1>31 DEF OabBlock, OabAt, OabRest, Goto, GoesOut
<1>32. CASE OabStored
  BY <1>32 DEF OabStored, BlockDone, OabAt, OabRest, Goto, GoesOut
<1>33. CASE OabInitLzx
  BY <1>33 DEF OabInitLzx, OabAt, OabRest, Goto, GoesOut
<1>34. CASE OabReference
  BY <1>34 DEF OabReference, OabAt, OabRest, Goto, GoesOut
<1>35. CASE OabLzxRead
  BY <1>35 DEF OabLzxRead, OabAt, OabRest, Goto, GoesOut
<1>36. CASE OabLzxDone
  BY <1>36 DEF OabLzxDone, OabAt, OabRest, Goto, GoesOut
<1>37. CASE OabLzxDamaged
  BY <1>37 DEF OabLzxDamaged, OabAt, OabRest, Goto, GoesOut
<1>38. CASE OabFreeLzx
  BY <1>38 DEF OabFreeLzx, OabAt, OabRest, Goto, GoesOut
<1>39. CASE OabPadding
  BY <1>39 DEF OabPadding, OabAt, OabRest, Goto, GoesOut
<1>40. CASE OabCrc
  BY <1>40 DEF OabCrc, BlockDone, OabAt, OabRest, Goto, GoesOut
<1>41. CASE OabOut
  BY <1>41 DEF OabOut, OabAt, OabRest, Goto, GoesOut
<1>42. CASE UNCHANGED vars
  BY <1>42 DEF vars
<1> QED
  BY <1>1, <1>2, <1>3, <1>4, <1>5, <1>6, <1>7, <1>8, <1>9, <1>10, <1>11, <1>12,
     <1>13, <1>14, <1>15, <1>16, <1>17, <1>18, <1>19, <1>20, <1>21, <1>22, <1>23, <1>24,
     <1>25, <1>26, <1>27, <1>28, <1>29, <1>30, <1>31, <1>32, <1>33, <1>34, <1>35, <1>36,
     <1>37, <1>38, <1>39, <1>40, <1>41, <1>42
     DEF Next, Step, KwajHeaders, OabStep

\* What is allocated, likewise, and no text is freed before its header.
LEMMA HeapStep ==
  ASSUME Inv, [Next]_vars
  PROVE  HeapKept'
<1> USE PackedFileAssumption DEF PackedFileAssumption, Inv, Control, HeapKept, HandlesKept, HeaderBlocks, HeaderOf, Texts,
     Headers, Opening, Unpacking, Extracting, OabLabels,
     Works, Fails, Reads, CannotRead, Moves, Opens, Closes, Ends, caller, system, In, Out, Buffer, Lzx
<1>1. CASE OpenCall
  BY <1>1 DEF OpenCall, Locals
<1>2. CASE ExtractCall
  BY <1>2 DEF ExtractCall, Locals
<1>3. CASE CloseCall
  BY <1>3 DEF CloseCall
<1>4. CASE OabCall
  BY <1>4 DEF OabCall, OabAt
<1>5. CASE OpenInput
  BY <1>5 DEF OpenInput
<1>6. CASE AllocHeader
  BY <1>6 DEF AllocHeader
<1>7. CASE Opened
  <2>1. CASE error # "OK"
    <3>1. /\ pc = "opened" /\ pc' = "idle" /\ headers' = headers /\ heap' = heap \ {HeaderOf(l.n)}
          /\ l.n \notin DOMAIN headers
      BY <1>7, <2>1 DEF Opened
    <3> QED
      BY <3>1
  <2>2. CASE error = "OK" /\ l.whole
    BY <1>7, <2>2 DEF Opened
  <2>3. CASE error = "OK" /\ ~l.whole
    <3>1. DOMAIN headers' = DOMAIN headers \cup {l.n}
      BY <1>7, <2>3 DEF Opened
    <3> QED
      BY <1>7, <2>3, <3>1 DEF Opened
  <2> QED
    BY <2>1, <2>2, <2>3
<1>8. CASE SzddSignature
  BY <1>8 DEF SzddSignature, SzddAt, HeadersRead
<1>9. CASE SzddLength
  BY <1>9 DEF SzddLength, SzddAt, HeadersRead
<1>10. CASE KwajSkips
  BY <1>10, AfterHeaders DEF KwajSkips, Goes
<1>11. CASE KwajSignature
  BY <1>11, AfterHeaders DEF KwajSignature, KwajAt, Goes, HeadersRead
<1>12. CASE KwajNumber
  BY <1>12, AfterHeaders DEF KwajNumber, KwajAt, Goes, HeadersRead
<1>13. CASE KwajUnknown2
  BY <1>13, AfterHeaders DEF KwajUnknown2, KwajAt, Goes, HeadersRead
<1>14. CASE KwajAllocName
  <2>1. <<"name", l.n>> \in Texts /\ <<"name", l.n>> # <<"buffer", 0>>
    BY <1>14 DEF KwajAllocName, KwajAt
  <2>2. heap' = heap \/ heap' = heap \cup {<<"name", l.n>>}
    BY <1>14 DEF KwajAllocName, HeadersRead
  <2>3. l'.n = l.n /\ headers' = headers /\ pc' \in Headers \cup {"opened"} /\ DOMAIN handles' = DOMAIN handles
        /\ pc \in Headers
    BY <1>14, AfterHeaders DEF KwajAllocName, KwajAt, Goes, HeadersRead
  <2> QED
    BY <2>1, <2>2, <2>3
<1>15. CASE KwajName
  BY <1>15, AfterHeaders DEF KwajName, KwajString, KwajAt, Goes, HeadersRead
<1>16. CASE KwajExtension
  BY <1>16, AfterHeaders DEF KwajExtension, KwajString, KwajAt, Goes, HeadersRead
<1>17. CASE KwajExtra
  <2>1. <<"extra", l.n>> \in Texts /\ <<"extra", l.n>> # <<"buffer", 0>>
    BY <1>17 DEF KwajExtra, KwajAt
  <2>2. heap' = heap \/ heap' = heap \cup {<<"extra", l.n>>}
    BY <1>17 DEF KwajExtra, HeadersRead
  <2>3. l'.n = l.n /\ headers' = headers /\ pc' \in Headers \cup {"opened"} /\ DOMAIN handles' = DOMAIN handles
        /\ pc \in Headers
    BY <1>17, AfterHeaders DEF KwajExtra, KwajAt, Goes, HeadersRead
  <2> QED
    BY <2>1, <2>2, <2>3
<1>18. CASE SeekData
  BY <1>18 DEF SeekData, Extracted
<1>19. CASE OpenOutput
  BY <1>19 DEF OpenOutput, Extracted
<1>20. CASE Unpack
  BY <1>20 DEF Unpack, Unpacked
<1>21. CASE UnpackRead
  BY <1>21 DEF UnpackRead, Unpacked
<1>22. CASE UnpackWrite
  BY <1>22 DEF UnpackWrite, Unpacked
<1>23. CASE UnpackDamaged
  BY <1>23 DEF UnpackDamaged, Unpacked
<1>24. CASE EndExtract
  <2>1. CASE l.whole
    BY <1>24, <2>1 DEF EndExtract, Extracted
  <2>2. CASE ~l.whole
    <3>1. pc' = "idle" /\ headers' = headers /\ l.n \in DOMAIN headers
      BY <1>24, <2>2 DEF EndExtract, Extracted
    <3> QED
      BY <1>24, <2>2, <3>1 DEF EndExtract, Extracted
  <2> QED
    BY <2>1, <2>2
<1>25. CASE CloseWhole
  BY <1>25 DEF CloseWhole, Restored
<1>26. CASE OabOpenInput
  BY <1>26 DEF OabOpenInput, OabOpens, OabAt, OabRest, Goto, GoesOut
<1>27. CASE OabHeader
  BY <1>27 DEF OabHeader, OabAt, OabRest, Goto, GoesOut
<1>28. CASE OabOpenBase
  BY <1>28 DEF OabOpenBase, OabOpens, OabAt, OabRest, Goto, GoesOut
<1>29. CASE OabOpenOutput
  BY <1>29 DEF OabOpenOutput, OabOpens, OabAt, OabRest, Goto, GoesOut
<1>30. CASE OabAlloc
  BY <1>30 DEF OabAlloc, OabAt, OabRest, Goto, GoesOut
<1>31. CASE OabBlock
  BY <1>31 DEF OabBlock, OabAt, OabRest, Goto, GoesOut
<1>32. CASE OabStored
  BY <1>32 DEF OabStored, BlockDone, OabAt, OabRest, Goto, GoesOut
<1>33. CASE OabInitLzx
  BY <1>33 DEF OabInitLzx, OabAt, OabRest, Goto, GoesOut
<1>34. CASE OabReference
  BY <1>34 DEF OabReference, OabAt, OabRest, Goto, GoesOut
<1>35. CASE OabLzxRead
  BY <1>35 DEF OabLzxRead, OabAt, OabRest, Goto, GoesOut
<1>36. CASE OabLzxDone
  BY <1>36 DEF OabLzxDone, OabAt, OabRest, Goto, GoesOut
<1>37. CASE OabLzxDamaged
  BY <1>37 DEF OabLzxDamaged, OabAt, OabRest, Goto, GoesOut
<1>38. CASE OabFreeLzx
  BY <1>38 DEF OabFreeLzx, OabAt, OabRest, Goto, GoesOut
<1>39. CASE OabPadding
  BY <1>39 DEF OabPadding, OabAt, OabRest, Goto, GoesOut
<1>40. CASE OabCrc
  BY <1>40 DEF OabCrc, BlockDone, OabAt, OabRest, Goto, GoesOut
<1>41. CASE OabOut
  BY <1>41 DEF OabOut, OabAt, OabRest, Goto, GoesOut
<1>42. CASE UNCHANGED vars
  BY <1>42 DEF vars
<1> QED
  BY <1>1, <1>2, <1>3, <1>4, <1>5, <1>6, <1>7, <1>8, <1>9, <1>10, <1>11, <1>12,
     <1>13, <1>14, <1>15, <1>16, <1>17, <1>18, <1>19, <1>20, <1>21, <1>22, <1>23, <1>24,
     <1>25, <1>26, <1>27, <1>28, <1>29, <1>30, <1>31, <1>32, <1>33, <1>34, <1>35, <1>36,
     <1>37, <1>38, <1>39, <1>40, <1>41, <1>42
     DEF Next, Step, KwajHeaders, OabStep

\* A header's texts are there from its reading to its closing.
LEMMA TextsStep ==
  ASSUME Inv, [Next]_vars
  PROVE  TextsKept'
<1> USE PackedFileAssumption DEF PackedFileAssumption, Inv, Control, TextsKept,
     Headers, Opening, Unpacking, Extracting, OabLabels,
     Works, Fails, Reads, CannotRead, Moves, Opens, Closes, Ends, caller, system, In, Out, Buffer, HeaderOf
<1>1. CASE OpenCall
  BY <1>1 DEF OpenCall, Locals
<1>2. CASE ExtractCall
  BY <1>2 DEF ExtractCall, Locals
<1>3. CASE CloseCall
  BY <1>3 DEF CloseCall
<1>4. CASE OabCall
  BY <1>4 DEF OabCall, OabAt
<1>5. CASE OpenInput
  BY <1>5 DEF OpenInput
<1>6. CASE AllocHeader
  BY <1>6 DEF AllocHeader
<1>7. CASE Opened
  <2>1. pc = "opened" /\ pc' \in {"idle", "seek"}
    BY <1>7 DEF Opened
  <2>2. CASE error # "OK" \/ l.whole
    <3>1. headers' = headers /\ heap \ {HeaderOf(l.n)} \subseteq heap'
      BY <1>7, <2>2 DEF Opened, GivenBack
    <3>2. \A n \in DOMAIN headers :
            <<"name", n>> # HeaderOf(l.n) /\ <<"extra", n>> # HeaderOf(l.n)
      OBVIOUS
    <3> QED
      BY <2>1, <3>1, <3>2
  <2>3. CASE error = "OK" /\ ~l.whole
    <3>1. /\ DOMAIN headers' = DOMAIN headers \cup {l.n} /\ heap' = heap
          /\ headers'[l.n].name = l.fn /\ headers'[l.n].extra = l.extra
          /\ \A n \in DOMAIN headers : n # l.n => headers'[n] = headers[n]
      BY <1>7, <2>3 DEF Opened
    <3>2. (l.fn > 0 => <<"name", l.n>> \in heap) /\ (l.extra > 0 => <<"extra", l.n>> \in heap)
      BY <2>1
    <3>3. ASSUME NEW n \in DOMAIN headers'
          PROVE  /\ headers'[n].name > 0 => <<"name", n>> \in heap'
                 /\ headers'[n].extra > 0 => <<"extra", n>> \in heap'
      <4>1. CASE n = l.n
        BY <3>1, <3>2, <4>1
      <4>2. CASE n # l.n
        BY <3>1, <4>2
      <4> QED
        BY <4>1, <4>2
    <3> QED
      BY <2>1, <3>3
  <2> QED
    BY <2>2, <2>3
<1>8. CASE SzddSignature
  BY <1>8 DEF SzddSignature, SzddAt, HeadersRead
<1>9. CASE SzddLength
  BY <1>9 DEF SzddLength, SzddAt, HeadersRead
<1>10. CASE KwajSkips
  BY <1>10, AfterHeaders DEF KwajSkips, Goes, Present
<1>11. CASE KwajSignature
  BY <1>11, AfterHeaders DEF KwajSignature, KwajAt, Goes, HeadersRead, Present
<1>12. CASE KwajNumber
  BY <1>12, AfterHeaders DEF KwajNumber, KwajAt, Goes, HeadersRead, Present
<1>13. CASE KwajUnknown2
  BY <1>13, AfterHeaders DEF KwajUnknown2, KwajAt, Goes, HeadersRead, Present
<1>14. CASE KwajAllocName
  BY <1>14, AfterHeaders DEF KwajAllocName, KwajAt, Goes, HeadersRead, Present
<1>15. CASE KwajName
  BY <1>15, AfterHeaders DEF KwajName, KwajString, KwajAt, Goes, HeadersRead, Present
<1>16. CASE KwajExtension
  BY <1>16, AfterHeaders DEF KwajExtension, KwajString, KwajAt, Goes, HeadersRead, Present
<1>17. CASE KwajExtra
  BY <1>17, AfterHeaders DEF KwajExtra, KwajAt, Goes, HeadersRead, Present
<1>18. CASE SeekData
  BY <1>18 DEF SeekData, Extracted
<1>19. CASE OpenOutput
  BY <1>19 DEF OpenOutput, Extracted
<1>20. CASE Unpack
  BY <1>20 DEF Unpack, Unpacked
<1>21. CASE UnpackRead
  BY <1>21 DEF UnpackRead, Unpacked
<1>22. CASE UnpackWrite
  BY <1>22 DEF UnpackWrite, Unpacked
<1>23. CASE UnpackDamaged
  BY <1>23 DEF UnpackDamaged, Unpacked
<1>24. CASE EndExtract
  BY <1>24 DEF EndExtract, Extracted
<1>25. CASE CloseWhole
  BY <1>25 DEF CloseWhole, Restored
<1>26. CASE OabOpenInput
  BY <1>26 DEF OabOpenInput, OabOpens, OabAt, OabRest, Goto, GoesOut
<1>27. CASE OabHeader
  BY <1>27 DEF OabHeader, OabAt, OabRest, Goto, GoesOut
<1>28. CASE OabOpenBase
  BY <1>28 DEF OabOpenBase, OabOpens, OabAt, OabRest, Goto, GoesOut
<1>29. CASE OabOpenOutput
  BY <1>29 DEF OabOpenOutput, OabOpens, OabAt, OabRest, Goto, GoesOut
<1>30. CASE OabAlloc
  BY <1>30 DEF OabAlloc, OabAt, OabRest, Goto, GoesOut
<1>31. CASE OabBlock
  BY <1>31 DEF OabBlock, OabAt, OabRest, Goto, GoesOut
<1>32. CASE OabStored
  BY <1>32 DEF OabStored, BlockDone, OabAt, OabRest, Goto, GoesOut
<1>33. CASE OabInitLzx
  BY <1>33 DEF OabInitLzx, OabAt, OabRest, Goto, GoesOut
<1>34. CASE OabReference
  BY <1>34 DEF OabReference, OabAt, OabRest, Goto, GoesOut
<1>35. CASE OabLzxRead
  BY <1>35 DEF OabLzxRead, OabAt, OabRest, Goto, GoesOut
<1>36. CASE OabLzxDone
  BY <1>36 DEF OabLzxDone, OabAt, OabRest, Goto, GoesOut
<1>37. CASE OabLzxDamaged
  BY <1>37 DEF OabLzxDamaged, OabAt, OabRest, Goto, GoesOut
<1>38. CASE OabFreeLzx
  BY <1>38 DEF OabFreeLzx, OabAt, OabRest, Goto, GoesOut
<1>39. CASE OabPadding
  BY <1>39 DEF OabPadding, OabAt, OabRest, Goto, GoesOut
<1>40. CASE OabCrc
  BY <1>40 DEF OabCrc, BlockDone, OabAt, OabRest, Goto, GoesOut
<1>41. CASE OabOut
  BY <1>41 DEF OabOut, OabAt, OabRest, Goto, GoesOut
<1>42. CASE UNCHANGED vars
  BY <1>42 DEF vars, Present
<1> QED
  BY <1>1, <1>2, <1>3, <1>4, <1>5, <1>6, <1>7, <1>8, <1>9, <1>10, <1>11, <1>12,
     <1>13, <1>14, <1>15, <1>16, <1>17, <1>18, <1>19, <1>20, <1>21, <1>22, <1>23, <1>24,
     <1>25, <1>26, <1>27, <1>28, <1>29, <1>30, <1>31, <1>32, <1>33, <1>34, <1>35, <1>36,
     <1>37, <1>38, <1>39, <1>40, <1>41, <1>42
     DEF Next, Step, KwajHeaders, OabStep

\* A failure leads to the call's end with an error.
LEMMA FailureStep ==
  ASSUME Inv, [Next]_vars
  PROVE  FailureKept'
<1> USE PackedFileAssumption DEF PackedFileAssumption, Inv, Control, HandlesKept, FailureKept, Inputs,
     Headers, Opening, Unpacking, Extracting, OabLabels,
     Works, Fails, Reads, CannotRead, Moves, Opens, Closes, Ends, caller, system, In, Out
<1>1. CASE OpenCall
  BY <1>1 DEF OpenCall, Locals
<1>2. CASE ExtractCall
  BY <1>2 DEF ExtractCall, Locals
<1>3. CASE CloseCall
  BY <1>3 DEF CloseCall
<1>4. CASE OabCall
  BY <1>4 DEF OabCall, OabAt
<1>5. CASE OpenInput
  BY <1>5 DEF OpenInput
<1>6. CASE AllocHeader
  BY <1>6 DEF AllocHeader
<1>7. CASE Opened
  BY <1>7 DEF Opened, GivenBack
<1>8. CASE SzddSignature
  BY <1>8 DEF SzddSignature, SzddAt, HeadersRead
<1>9. CASE SzddLength
  BY <1>9 DEF SzddLength, SzddAt, HeadersRead
<1>10. CASE KwajSkips
  BY <1>10, AfterHeaders DEF KwajSkips, Goes
<1>11. CASE KwajSignature
  BY <1>11, AfterHeaders DEF KwajSignature, KwajAt, Goes, HeadersRead
<1>12. CASE KwajNumber
  BY <1>12, AfterHeaders DEF KwajNumber, KwajAt, Goes, HeadersRead
<1>13. CASE KwajUnknown2
  BY <1>13, AfterHeaders DEF KwajUnknown2, KwajAt, Goes, HeadersRead
<1>14. CASE KwajAllocName
  BY <1>14, AfterHeaders DEF KwajAllocName, KwajAt, Goes, HeadersRead
<1>15. CASE KwajName
  BY <1>15, AfterHeaders DEF KwajName, KwajString, KwajAt, Goes, HeadersRead
<1>16. CASE KwajExtension
  BY <1>16, AfterHeaders DEF KwajExtension, KwajString, KwajAt, Goes, HeadersRead
<1>17. CASE KwajExtra
  BY <1>17, AfterHeaders DEF KwajExtra, KwajAt, Goes, HeadersRead
<1>18. CASE SeekData
  BY <1>18 DEF SeekData, Extracted
<1>19. CASE OpenOutput
  BY <1>19 DEF OpenOutput, Extracted
<1>20. CASE Unpack
  BY <1>20 DEF Unpack, Unpacked
<1>21. CASE UnpackRead
  BY <1>21 DEF UnpackRead, Unpacked
<1>22. CASE UnpackWrite
  BY <1>22 DEF UnpackWrite, Unpacked
<1>23. CASE UnpackDamaged
  BY <1>23 DEF UnpackDamaged, Unpacked
<1>24. CASE EndExtract
  BY <1>24 DEF EndExtract, Extracted
<1>25. CASE CloseWhole
  BY <1>25 DEF CloseWhole, Restored
<1>26. CASE OabOpenInput
  BY <1>26 DEF OabOpenInput, OabOpens, OabAt, OabRest, Goto, GoesOut
<1>27. CASE OabHeader
  BY <1>27 DEF OabHeader, OabAt, OabRest, Goto, GoesOut
<1>28. CASE OabOpenBase
  BY <1>28 DEF OabOpenBase, OabOpens, OabAt, OabRest, Goto, GoesOut
<1>29. CASE OabOpenOutput
  BY <1>29 DEF OabOpenOutput, OabOpens, OabAt, OabRest, Goto, GoesOut
<1>30. CASE OabAlloc
  BY <1>30 DEF OabAlloc, OabAt, OabRest, Goto, GoesOut
<1>31. CASE OabBlock
  BY <1>31 DEF OabBlock, OabAt, OabRest, Goto, GoesOut
<1>32. CASE OabStored
  BY <1>32 DEF OabStored, BlockDone, OabAt, OabRest, Goto, GoesOut
<1>33. CASE OabInitLzx
  BY <1>33 DEF OabInitLzx, OabAt, OabRest, Goto, GoesOut
<1>34. CASE OabReference
  BY <1>34 DEF OabReference, OabAt, OabRest, Goto, GoesOut
<1>35. CASE OabLzxRead
  BY <1>35 DEF OabLzxRead, OabAt, OabRest, Goto, GoesOut
<1>36. CASE OabLzxDone
  BY <1>36 DEF OabLzxDone, OabAt, OabRest, Goto, GoesOut
<1>37. CASE OabLzxDamaged
  BY <1>37 DEF OabLzxDamaged, OabAt, OabRest, Goto, GoesOut
<1>38. CASE OabFreeLzx
  BY <1>38 DEF OabFreeLzx, OabAt, OabRest, Goto, GoesOut
<1>39. CASE OabPadding
  BY <1>39 DEF OabPadding, OabAt, OabRest, Goto, GoesOut
<1>40. CASE OabCrc
  BY <1>40 DEF OabCrc, BlockDone, OabAt, OabRest, Goto, GoesOut
<1>41. CASE OabOut
  BY <1>41 DEF OabOut, OabAt, OabRest, Goto, GoesOut
<1>42. CASE UNCHANGED vars
  BY <1>42 DEF vars
<1> QED
  BY <1>1, <1>2, <1>3, <1>4, <1>5, <1>6, <1>7, <1>8, <1>9, <1>10, <1>11, <1>12,
     <1>13, <1>14, <1>15, <1>16, <1>17, <1>18, <1>19, <1>20, <1>21, <1>22, <1>23, <1>24,
     <1>25, <1>26, <1>27, <1>28, <1>29, <1>30, <1>31, <1>32, <1>33, <1>34, <1>35, <1>36,
     <1>37, <1>38, <1>39, <1>40, <1>41, <1>42
     DEF Next, Step, KwajHeaders, OabStep

\* What an OAB call wrote and what it still has to are its target.
LEMMA TargetStep ==
  ASSUME Inv, [Next]_vars
  PROVE  TargetKept'
<1> USE DEF Inv, TargetKept, OabLabels, OabFields, InBlock, Blocks, Block, Checked, CrcAgrees,
     Works, Fails, Reads, CannotRead, Ends, caller
<1>1. CASE OpenCall
  BY <1>1 DEF OpenCall, Locals
<1>2. CASE ExtractCall
  BY <1>2 DEF ExtractCall, Locals
<1>3. CASE CloseCall
  BY <1>3 DEF CloseCall
<1>4. CASE OabCall
  <2>1. PICK f \in Files, base \in Bases, patch \in BOOLEAN :
          /\ f.form \in {"oab", "patch"}
          /\ l' = [n |-> 0, file |-> f, base |-> base, patch |-> patch, error |-> "OK", target |-> f.target,
                   block |-> 0, available |-> 0, right |-> TRUE]
    BY <1>4 DEF OabCall
  <2>2. pc' = "oab open" /\ out' = 0
    BY <1>4 DEF OabCall
  <2>3. f.target \in Nat /\ Len(f.blocks) \in Nat
    <3>1. f.target \in Nat /\ f.blocks \in Seq(BLOCK)
      BY <2>1, OabAssumption DEF OabAssumption
    <3> QED
      BY <3>1, LenIsNat
  <2>4. OabFields \subseteq DOMAIN l'
    BY <2>1
  <2>5. l'.file = f /\ l'.block = 0 /\ l'.target = f.target
    BY <2>1
  <2> HIDE DEF Inv
  <2>6. l'.block \in Nat /\ l'.block <= Len(l'.file.blocks)
    BY <2>3, <2>5
  <2>7. l'.target \in Int /\ out' \in Int /\ out' + l'.target = l'.file.target
    <3>1. l'.target = l'.file.target /\ l'.target \in Nat /\ out' = 0
      BY <2>2, <2>3, <2>5
    <3> QED
      BY <3>1
  <2>8. \A i \in 1 .. l'.block : FALSE
    BY <2>5
  <2> QED
    BY <2>1, <2>2, <2>4, <2>5, <2>6, <2>7, <2>8
<1>5. CASE OpenInput
  BY <1>5 DEF OpenInput
<1>6. CASE AllocHeader
  BY <1>6 DEF AllocHeader
<1>7. CASE Opened
  BY <1>7 DEF Opened, GivenBack
<1>8. CASE SzddSignature
  BY <1>8 DEF SzddSignature, SzddAt, HeadersRead
<1>9. CASE SzddLength
  BY <1>9 DEF SzddLength, SzddAt, HeadersRead
<1>10. CASE KwajSkips
  BY <1>10, AfterHeaders DEF KwajSkips, Goes
<1>11. CASE KwajSignature
  BY <1>11, AfterHeaders DEF KwajSignature, KwajAt, Goes, HeadersRead
<1>12. CASE KwajNumber
  BY <1>12, AfterHeaders DEF KwajNumber, KwajAt, Goes, HeadersRead
<1>13. CASE KwajUnknown2
  BY <1>13, AfterHeaders DEF KwajUnknown2, KwajAt, Goes, HeadersRead
<1>14. CASE KwajAllocName
  BY <1>14, AfterHeaders DEF KwajAllocName, KwajAt, Goes, HeadersRead
<1>15. CASE KwajName
  BY <1>15, AfterHeaders DEF KwajName, KwajString, KwajAt, Goes, HeadersRead
<1>16. CASE KwajExtension
  BY <1>16, AfterHeaders DEF KwajExtension, KwajString, KwajAt, Goes, HeadersRead
<1>17. CASE KwajExtra
  BY <1>17, AfterHeaders DEF KwajExtra, KwajAt, Goes, HeadersRead
<1>18. CASE SeekData
  BY <1>18 DEF SeekData, Extracted
<1>19. CASE OpenOutput
  BY <1>19 DEF OpenOutput, Extracted
<1>20. CASE Unpack
  BY <1>20 DEF Unpack, Unpacked
<1>21. CASE UnpackRead
  BY <1>21 DEF UnpackRead, Unpacked
<1>22. CASE UnpackWrite
  BY <1>22 DEF UnpackWrite, Unpacked
<1>23. CASE UnpackDamaged
  BY <1>23 DEF UnpackDamaged, Unpacked
<1>24. CASE EndExtract
  BY <1>24 DEF EndExtract, Extracted
<1>25. CASE CloseWhole
  BY <1>25 DEF CloseWhole, Restored
<1>26. CASE OabOpenInput
  BY <1>26 DEF OabOpenInput, OabOpens, OabAt, OabRest, Goto, GoesOut
<1>27. CASE OabHeader
  BY <1>27 DEF OabHeader, OabAt, OabRest, Goto, GoesOut
<1>28. CASE OabOpenBase
  BY <1>28 DEF OabOpenBase, OabOpens, OabAt, OabRest, Goto, GoesOut
<1>29. CASE OabOpenOutput
  BY <1>29 DEF OabOpenOutput, OabOpens, OabAt, OabRest, Goto, GoesOut
<1>30. CASE OabAlloc
  BY <1>30 DEF OabAlloc, OabAt, OabRest, Goto, GoesOut
<1>31. CASE OabBlock
  <2>1. CASE l.target = 0 /\ pc' = "out" /\ l' = [l EXCEPT !.error = "OK"] /\ out' = out
    BY <1>31, <2>1 DEF OabBlock, OabAt
  <2>2. CASE pc' = "out" /\ (\E e \in {"READ", "DATAFORMAT"} : l' = [l EXCEPT !.error = e]) /\ out' = out
    BY <1>31, <2>2 DEF OabBlock, OabAt
  <2>3. CASE /\ l.block < Len(Blocks) /\ l' = l /\ out' = out
             /\ pc' = IF Block.stored /\ ~l.patch THEN "stored" ELSE "init lzx"
    BY <1>31, <2>3 DEF OabBlock, OabAt
  <2> QED
    BY <1>31, <2>1, <2>2, <2>3 DEF OabBlock, OabAt, Goto, GoesOut
<1>32. CASE OabStored
  <2>1. pc = "stored" /\ l.block < Len(Blocks) /\ Block.stored /\ ~l.patch
    BY <1>32 DEF OabStored, OabAt
  <2>2. Block.dsize \in Nat /\ Len(Blocks) \in Nat /\ l.file.target \in Nat
    BY <2>1, BlockType
  <2>3. CASE l' = [l EXCEPT !.target = @ - Block.dsize, !.block = @ + 1] /\ pc' = "block" /\ out' = out + Block.dsize
    <3>1. /\ OabFields \subseteq DOMAIN l' /\ l'.file = l.file /\ l'.patch = l.patch /\ l'.base = l.base
          /\ l'.target = l.target - Block.dsize /\ l'.block = l.block + 1
      BY <2>1, <2>3
    <3>2. \A i \in 1 .. l'.block : Checked(Blocks[i])
      BY <2>1, <3>1
    <3> QED
      BY <2>1, <2>2, <2>3, <3>1, <3>2
  <2>4. CASE pc' = "out" /\ (\E e \in {"READ", "WRITE"} : l' = [l EXCEPT !.error = e]) /\ out' = out
    BY <2>1, <2>4
  <2> QED
    BY <1>32, <2>3, <2>4 DEF OabStored, BlockDone, GoesOut
<1>33. CASE OabInitLzx
  BY <1>33 DEF OabInitLzx, OabAt, OabRest, Goto, GoesOut
<1>34. CASE OabReference
  BY <1>34 DEF OabReference, OabAt, OabRest, Goto, GoesOut
<1>35. CASE OabLzxRead
  BY <1>35 DEF OabLzxRead, OabAt, OabRest, Goto, GoesOut
<1>36. CASE OabLzxDone
  <2>1. pc = "lzx" /\ l.block < Len(Blocks)
    BY <1>36 DEF OabLzxDone, OabAt
  <2>2. Block.dsize \in Nat /\ Len(Blocks) \in Nat /\ l.file.target \in Nat
    BY <2>1, BlockType
  <2>3. CASE /\ out' = out + Block.dsize /\ pc' = "free lzx"
             /\ l' = [l EXCEPT !.right = Block.good /\ (l.patch => l.base.right)]
    <3>1. /\ OabFields \subseteq DOMAIN l' /\ l'.file = l.file /\ l'.patch = l.patch /\ l'.base = l.base
          /\ l'.target = l.target /\ l'.block = l.block
      BY <2>1, <2>3
    <3>2. l'.right = (Block.good /\ (l.patch => l.base.right))
      BY <2>1, <2>3
    <3>3. (CrcAgrees => Checked(Block))'
      BY <3>1, <3>2
    <3>4. \A i \in 1 .. l'.block : Checked(Blocks[i])'
      BY <2>1, <3>1
    <3>5. Block' = Block
      BY <3>1
    <3>6. out \in Int /\ l.target \in Int /\ out + l.target = l.file.target
      BY <2>1
    <3>7. l'.block \in Nat /\ l'.block < Len(Blocks')
      BY <2>1, <3>1
    <3>8. l'.file \in Files /\ l'.file.form \in {"oab", "patch"}
      BY <2>1, <3>1
    <3> HIDE DEF CrcAgrees, Checked, Inv, Block, Blocks
    <3>9. out' \in Int /\ l'.target \in Int /\ out' + l'.target = l'.file.target + Block'.dsize
      <4>1. out' = out + Block.dsize /\ l'.target = l.target /\ l'.file.target = l.file.target
        BY <2>3, <3>1
      <4>2. Block'.dsize = Block.dsize /\ Block.dsize \in Nat /\ l.file.target \in Nat
        BY <2>2, <3>5
      <4> QED
        BY <4>1, <4>2, <3>6
    <3>10. Len(Blocks') \in Nat
      BY <2>2, <3>1 DEF Blocks
    <3>11. l'.block <= Len(Blocks')
      BY <3>7, <3>10
    <3> QED
      BY <2>3, <3>1, <3>3, <3>4, <3>7, <3>8, <3>9, <3>11
  <2>4. CASE pc' = "out" /\ l' = [l EXCEPT !.error = "WRITE"] /\ out' = out
    BY <2>1, <2>4
  <2> QED
    BY <1>36, <2>3, <2>4 DEF OabLzxDone, GoesOut
<1>37. CASE OabLzxDamaged
  BY <1>37 DEF OabLzxDamaged, OabAt, OabRest, Goto, GoesOut
<1>38. CASE OabFreeLzx
  BY <1>38 DEF OabFreeLzx, OabAt, OabRest, Goto, GoesOut
<1>39. CASE OabPadding
  BY <1>39 DEF OabPadding, OabAt, OabRest, Goto, GoesOut
<1>40. CASE OabCrc
  <2>1. pc = "padding" /\ l.block < Len(Blocks) /\ (CrcAgrees => Checked(Block))
    BY <1>40 DEF OabCrc, OabAt
  <2>2. Block.dsize \in Nat /\ Len(Blocks) \in Nat /\ l.file.target \in Nat
    BY <2>1, BlockType
  <2>3. CASE CrcAgrees
    <3>1. l' = [l EXCEPT !.target = @ - Block.dsize, !.block = @ + 1] /\ pc' = "block" /\ out' = out
      BY <1>40, <2>3 DEF OabCrc, BlockDone
    <3>2. /\ OabFields \subseteq DOMAIN l' /\ l'.file = l.file /\ l'.patch = l.patch /\ l'.base = l.base
          /\ l'.target = l.target - Block.dsize /\ l'.block = l.block + 1
      BY <2>1, <3>1
    <3>3. \A i \in 1 .. l'.block : Checked(Blocks[i])'
      <4>1. \A i \in 1 .. l.block + 1 : Checked(Blocks[i])
        BY <2>1, <2>3
      <4> QED
        BY <3>2, <4>1
    <3>4. out \in Int /\ l.target \in Int /\ out + l.target = l.file.target + Block.dsize
      BY <2>1
    <3>5. l'.block \in Nat /\ l'.file \in Files /\ l'.file.form \in {"oab", "patch"}
      BY <2>1, <3>2
    <3>6. l.block \in Nat
      BY <2>1
    <3> HIDE DEF CrcAgrees, Checked, Inv, Block, Blocks
    <3>7. out' \in Int /\ l'.target \in Int /\ out' + l'.target = l'.file.target
      BY <2>2, <3>1, <3>2, <3>4
    <3>8. l'.block <= Len(Blocks')
      BY <2>1, <2>2, <3>2, <3>6 DEF Blocks
    <3> QED
      BY <3>1, <3>2, <3>3, <3>5, <3>7, <3>8
  <2>4. CASE ~CrcAgrees
    BY <1>40, <2>1, <2>4 DEF OabCrc, GoesOut
  <2> QED
    BY <2>3, <2>4
<1>41. CASE OabOut
  BY <1>41 DEF OabOut, OabAt, OabRest, Goto, GoesOut
<1>42. CASE UNCHANGED vars
  BY <1>42 DEF vars
<1> QED
  BY <1>1, <1>2, <1>3, <1>4, <1>5, <1>6, <1>7, <1>8, <1>9, <1>10, <1>11, <1>12,
     <1>13, <1>14, <1>15, <1>16, <1>17, <1>18, <1>19, <1>20, <1>21, <1>22, <1>23, <1>24,
     <1>25, <1>26, <1>27, <1>28, <1>29, <1>30, <1>31, <1>32, <1>33, <1>34, <1>35, <1>36,
     <1>37, <1>38, <1>39, <1>40, <1>41, <1>42
     DEF Next, Step, KwajHeaders, OabStep

-----------------------------------------------------------------------------
\* The account is right before the first call, and stays so.
LEMMA InvInit == Init => Inv
<1> SUFFICES ASSUME Init
             PROVE  Inv
  OBVIOUS
<1> USE DEF Init, Headers, Opening, Extracting, Unpacking, OabLabels
<1>1. DOMAIN headers = {} /\ DOMAIN handles = {}
  OBVIOUS
<1>2. Control
  BY <1>1, PackedFileAssumption DEF PackedFileAssumption, Control
<1>3. HandlesKept
  BY <1>1 DEF HandlesKept, Inputs
<1>4. HeapKept
  BY <1>1 DEF HeapKept, HeaderBlocks
<1>5. TextsKept
  BY <1>1 DEF TextsKept
<1>6. FailureKept
  BY DEF FailureKept
<1>7. TargetKept
  BY DEF TargetKept
<1> QED
  BY <1>2, <1>3, <1>4, <1>5, <1>6, <1>7 DEF Inv

LEMMA InvStep == Inv /\ [Next]_vars => Inv'
BY ControlStep, HandlesStep, HeapStep, TextsStep, FailureStep, TargetStep DEF Inv

(* The account of labels, handles, memory, texts, failures and the target   *)
(* holds in every state that the decompressors reach.                       *)
THEOREM Invariance == Spec => []Inv
BY InvInit, InvStep, PTL DEF Spec

-----------------------------------------------------------------------------
\* Between calls it leaves no room for anything but the headers' own.
LEMMA InvCleanExit == Inv => CleanExit
<1> SUFFICES ASSUME Inv, pc = "idle"
             PROVE  /\ DOMAIN handles = {<<"in", n>> : n \in DOMAIN headers}
                    /\ heap \ Texts = {HeaderOf(n) : n \in DOMAIN headers}
                    /\ \A n \in DOMAIN headers :
                         /\ headers[n].name > 0 => <<"name", n>> \in heap
                         /\ headers[n].extra > 0 => <<"extra", n>> \in heap
  BY DEF CleanExit
<1>1. DOMAIN handles = {<<"in", n>> : n \in DOMAIN headers}
  BY DEF Inv, HandlesKept, Inputs
<1>2. HeaderBlocks \cap Texts = {}
  BY DEF HeaderBlocks, HeaderOf, Texts
<1>3. heap \ Texts = {HeaderOf(n) : n \in DOMAIN headers}
  BY <1>2 DEF Inv, HeapKept, HeaderBlocks
<1> QED
  BY <1>1, <1>3 DEF Inv, TextsKept

(* Whatever fails, and wherever, a call that has returned leaves open and   *)
(* allocated what the caller's headers own, and nothing else but the texts  *)
(* of KWAJ headers (kwajd.c:141).                                           *)
THEOREM LeavesNothing == Spec => []CleanExit
BY Invariance, InvCleanExit, PTL

\* A failure cannot be behind a call that returned MSPACK_ERR_OK.
LEMMA InvErrorReported == Inv => ErrorReported
<1> SUFFICES ASSUME Inv, pc = "idle"
             PROVE  (failed => ret # "OK") /\ (kind # "oab" => error = ret)
  BY DEF ErrorReported
<1>1. failed = TRUE => ret # "OK"
  BY DEF Inv, FailureKept
<1>2. failed \in BOOLEAN /\ (kind # "oab" => error = ret)
  BY DEF Inv, FailureKept
<1> QED
  BY <1>1, <1>2

(* A call in which the caller's system failed does not return               *)
(* MSPACK_ERR_OK, and last_error() agrees with what it returned.            *)
THEOREM FailuresReported == Spec => []ErrorReported
BY Invariance, InvErrorReported, PTL

\* At the label "out" without an error nothing of the target is left.
LEMMA InvOkMeansWhole == Inv => OkMeansWhole
BY DEF Inv, TargetKept, Checked, Blocks, OkMeansWhole, OabAt, OabLabels

(* MSPACK_ERR_OK of an OAB call means that all of the target was written,   *)
(* and that every LZX block was checked.                                    *)
THEOREM OkIsWhole == Spec => []OkMeansWhole
BY Invariance, InvOkMeansWhole, PTL

-----------------------------------------------------------------------------
(* Where a call reads, and what becomes of files that are as they should be. *)

\* What the input handles are of.
InputsKept ==
  /\ \A h \in DOMAIN handles : {"file", "pos"} \subseteq DOMAIN handles[h] /\ handles[h].pos \in Nat
  /\ \A n \in DOMAIN headers :
       headers[n].file \in Files /\ headers[n].file.form = kind
         /\ handles[<<"in", n>>].file = headers[n].file
  /\ pc \in Opening \cup Extracting =>
       /\ l.file \in Files /\ l.file.form = kind
       /\ In \in DOMAIN handles => handles[In].file = l.file
  /\ pc \in Extracting => In \in DOMAIN handles
  /\ pc \in OabLabels =>
       /\ l.base \in Bases /\ l.patch \in BOOLEAN
       /\ pc = "reference" => l.patch
       /\ pc \notin {"oab open", "out"} => In \in DOMAIN handles
       /\ pc \in {"oab output", "oab alloc", "block"} \cup InBlock /\ l.patch => Base \in DOMAIN handles
       /\ In \in DOMAIN handles => handles[In].file = l.file
       /\ Base \in DOMAIN handles => handles[Base].file = l.base

\* Where headers are read, and what is known of a KWAJ file's name and extra text.
NameUpTo(f, label) ==
  CASE label \in {"extra", "opened"} ->
         (IF "name" \in f.flags THEN f.name ELSE 0) + (IF "ext" \in f.flags THEN 1 + f.ext ELSE 0)
    [] label = "ext" -> IF "name" \in f.flags THEN f.name ELSE 0
    [] OTHER -> 0
ExtraUpTo(f, label) == IF label = "opened" /\ "extra" \in f.flags THEN f.extra ELSE 0

KwajRead ==
  /\ l.fn \in Nat /\ l.top \in Int
  /\ l.top <= 12
  /\ pc \notin {"extra", "opened"} => l.fn <= 8
  /\ KwajWhole(l.file) =>
       /\ handles[In].pos = KwajStart(l.file, pc)
       /\ l.fn = NameUpTo(l.file, pc)
       /\ l.extra = ExtraUpTo(l.file, pc)

HeadersKept ==
  /\ pc \in {"open", "alloc header"} => l.fn = 0 /\ l.top = 0 /\ l.extra = 0
  /\ pc = "alloc header" /\ In \in DOMAIN handles => handles[In].pos = 0
  /\ kind = "szdd" /\ pc = "signature" => handles[In].pos = 0
  /\ kind = "szdd" /\ pc = "length" => handles[In].pos = 8
  /\ kind = "kwaj" /\ (pc \in Headers \/ (pc = "opened" /\ error = "OK")) => KwajRead

\* How far the data of a SZDD or KWAJ file that is as it should be have come out.
DataKept ==
  /\ pc \in Opening \cup {"seek", "open output", "unpack"} => out = 0
  /\ pc \in {"open output", "unpack"} => handles[In].pos = DataOffset(l.file)
  /\ pc \in {"read", "write"} /\ l.file.sound =>
       /\ out \in Int
       /\ handles[In].pos <= l.file.len
       /\ pc = "write" => l.got \in Int
       /\ out + (IF pc = "write" THEN l.got ELSE 0) = handles[In].pos - DataOffset(l.file)
  /\ pc \in Opening \cup Extracting /\ ~failed /\ l.file.sound =>
       /\ pc = "alloc header" => In \in DOMAIN handles
       /\ pc \in {"opened", "unpacked", "close"} => error = "OK"
       /\ pc \in {"unpacked", "close"} => out = l.file.len - DataOffset(l.file)

\* Where the blocks of an OAB file and the parts of a base are read.
InStream == {"lzx", "free lzx", "padding"}
OabPlace ==
  /\ pc = "oab header" => handles[In].pos = 0
  /\ pc \in {"oab open", "oab header", "open base", "oab output", "oab alloc"} => l.block = 0
  /\ pc \in {"open base", "oab output", "oab alloc"} => handles[In].pos = HEAD
  /\ pc \in {"oab output", "oab alloc"} /\ l.patch => handles[Base].pos = 0
  /\ pc # "out" => l.target = l.file.target - Decoded(l.file, l.block + 1)
  /\ pc \in InStream => l.available \in Nat
  /\ pc = "reference" => l.available = Block.csize
  /\ pc = "stored" => Block.dsize = Block.csize
  /\ pc \in {"block"} \cup InBlock =>
       /\ handles[In].pos =
            OabStart(l.file, l.block + 1)
              + (IF pc \in InBlock THEN HEAD ELSE 0)
              + (IF pc \in InStream THEN Block.csize - l.available ELSE 0)
       /\ l.patch =>
            handles[Base].pos = BaseUsed(l.file, l.block + (IF pc \in InStream THEN 2 ELSE 1))

BlocksKept ==
  pc \in OabLabels =>
    /\ OabPlace
    /\ Intact => l.error = "OK" /\ (pc \in {"free lzx", "padding"} => CrcAgrees)

\* A set of natural numbers that is not empty has a least member.
LEMMA LeastNumber ==
  ASSUME NEW S \in SUBSET Nat, S # {}
  PROVE  \E k \in S : \A j \in S : k <= j
<1> DEFINE R == OpToRel(<, Nat)
<1>1. PICK k \in S : \A j \in S : ~(<<j, k>> \in R)
  BY NatLessThanWellFounded, WFMin
<1>2. R = {p \in Nat \X Nat : p[1] < p[2]}
  BY DEF OpToRel
<1>3. ASSUME NEW j \in S PROVE k <= j
  <2> HIDE DEF R
  <2>1. <<j, k>> \in Nat \X Nat /\ k \in Nat /\ j \in Nat
    OBVIOUS
  <2>2. ~(j < k)
    BY <1>1, <1>2, <2>1
  <2> QED
    BY <2>1, <2>2
<1> QED
  BY <1>3

\* What holds of 1 and of the number behind each it holds of, holds up to N.
LEMMA UpTo ==
  ASSUME NEW N \in Nat, NEW G, 1 \in G, \A n \in 1 .. N - 1 : n \in G => n + 1 \in G
  PROVE  1 .. N \subseteq G
<1> DEFINE Bad == {n \in 1 .. N : n \notin G}
<1>1. CASE Bad = {}
  BY <1>1
<1>2. CASE Bad # {}
  <2>1. Bad \in SUBSET Nat
    OBVIOUS
  <2>2. PICK k \in Bad : \A j \in Bad : k <= j
    BY <1>2, <2>1, LeastNumber
  <2>3. k \in 2 .. N /\ k \notin G
    <3>1. k # 1
      OBVIOUS
    <3> QED
      BY <3>1
  <2>4. k - 1 \in 1 .. N - 1 /\ k - 1 \notin Bad
    BY <2>2, <2>3
  <2>5. k - 1 \in G /\ (k - 1) + 1 = k
    BY <2>3, <2>4
  <2> QED
    BY <2>3, <2>4, <2>5
<1> QED
  BY <1>1, <1>2

\* The recursion that Offsets is made of has a solution as far as n.
Solves(at, s, n) ==
  at = [i \in 1 .. n |-> IF i = 1 THEN 0 ELSE at[i - 1] + s[i - 1]]

LEMMA OffsetsSolvable ==
  ASSUME NEW S, NEW s \in Seq(S), NEW n \in 1 .. Len(s) + 1
  PROVE  \E at : Solves(at, s, n)
<1> DEFINE G == {m \in 1 .. Len(s) + 1 : \E at : Solves(at, s, m)}
<1>1. Len(s) \in Nat
  OBVIOUS
<1>2. 1 \in G
  <2>1. Solves([i \in 1 .. 1 |-> 0], s, 1)
    BY DEF Solves
  <2> QED
    BY <1>1, <2>1
<1>3. ASSUME NEW m \in 1 .. (Len(s) + 1) - 1, m \in G PROVE m + 1 \in G
  <2>1. PICK at : Solves(at, s, m)
    BY <1>3
  <2> DEFINE next == [i \in 1 .. m + 1 |-> IF i = m + 1 THEN at[m] + s[m] ELSE at[i]]
  <2>2. m \in Nat /\ m >= 1 /\ m + 1 \in 1 .. Len(s) + 1
    BY <1>1
  <2>3. ASSUME NEW i \in 1 .. m + 1
        PROVE  next[i] = IF i = 1 THEN 0 ELSE next[i - 1] + s[i - 1]
    <3>1. CASE i = m + 1
      <4>1. i # 1 /\ i - 1 = m /\ i - 1 \in 1 .. m + 1 /\ i - 1 # m + 1
        BY <2>2, <3>1
      <4>2. next[i] = at[m] + s[m] /\ next[i - 1] = at[m]
        BY <3>1, <4>1
      <4> QED
        BY <4>1, <4>2
    <3>2. CASE i # m + 1
      <4>1. i \in 1 .. m /\ next[i] = at[i]
        BY <2>2, <3>2
      <4>2. at[i] = IF i = 1 THEN 0 ELSE at[i - 1] + s[i - 1]
        BY <2>1, <4>1 DEF Solves
      <4>3. i # 1 => i - 1 \in 1 .. m + 1 /\ i - 1 # m + 1
        BY <2>2, <4>1
      <4>4. i # 1 => next[i - 1] = at[i - 1]
        BY <4>3
      <4> HIDE DEF next
      <4> QED
        BY <4>1, <4>2, <4>4
    <3> QED
      BY <3>1, <3>2
  <2>4. Solves(next, s, m + 1)
    <3> DEFINE rhs == [i \in 1 .. m + 1 |-> IF i = 1 THEN 0 ELSE next[i - 1] + s[i - 1]]
    <3>1. next = [i \in 1 .. m + 1 |-> next[i]]
      OBVIOUS
    <3> HIDE DEF next
    <3>2. next = rhs
      BY <2>3, <3>1
    <3> QED
      BY <3>2 DEF Solves
  <2> QED
    BY <2>2, <2>4
<1>4. 1 .. Len(s) + 1 \subseteq G
  <2> HIDE DEF G
  <2>1. Len(s) + 1 \in Nat
    BY <1>1
  <2> QED
    BY <1>2, <1>3, <2>1, UpTo
<1> QED
  BY <1>4

\* Each piece begins where the one before it ends.
LEMMA OffsetsNext ==
  ASSUME NEW S, NEW s \in Seq(S)
  PROVE  /\ Offsets(s)[1] = 0
         /\ \A i \in 1 .. Len(s) : Offsets(s)[i + 1] = Offsets(s)[i] + s[i]
<1> DEFINE n == Len(s) + 1
<1>1. Len(s) \in Nat /\ n \in 1 .. Len(s) + 1
  OBVIOUS
<1>2. PICK at : Solves(at, s, n)
  BY <1>1, OffsetsSolvable
<1>3. Offsets(s) = CHOOSE x : Solves(x, s, n)
  BY DEF Offsets, Solves
<1>4. Solves(Offsets(s), s, n)
  BY <1>2, <1>3
<1> HIDE DEF n
<1> DEFINE o == Offsets(s)
<1>5. \A i \in 1 .. n : o[i] = IF i = 1 THEN 0 ELSE o[i - 1] + s[i - 1]
  <2>1. o = [i \in 1 .. n |-> IF i = 1 THEN 0 ELSE o[i - 1] + s[i - 1]]
    BY <1>4 DEF Solves
  <2> HIDE DEF o
  <2> QED
    BY <2>1
<1> HIDE DEF o
<1>6. o[1] = 0
  BY <1>1, <1>5 DEF n
<1>7. ASSUME NEW i \in 1 .. Len(s) PROVE o[i + 1] = o[i] + s[i]
  <2>1. i + 1 \in 1 .. n /\ i + 1 # 1 /\ (i + 1) - 1 = i
    BY <1>1 DEF n
  <2> QED
    BY <1>5, <2>1
<1> QED
  BY <1>6, <1>7 DEF o

\* They begin at numbers, and none behind what comes after it.
LEMMA OffsetsAscend ==
  ASSUME NEW s \in Seq(Nat)
  PROVE  /\ \A i \in 1 .. Len(s) + 1 : Offsets(s)[i] \in Nat
         /\ \A i \in 1 .. Len(s) + 1 : Offsets(s)[i] <= Offsets(s)[Len(s) + 1]
<1> DEFINE o == Offsets(s)
           N == Len(s) + 1
<1>1. o[1] = 0 /\ \A i \in 1 .. Len(s) : o[i + 1] = o[i] + s[i]
  BY OffsetsNext
<1>2. Len(s) \in Nat /\ N \in Nat /\ \A i \in 1 .. Len(s) : s[i] \in Nat
  OBVIOUS
<1> HIDE DEF o
<1> DEFINE G == {i \in 1 .. N : o[i] \in Nat}
<1>3. 1 \in G
  BY <1>1, <1>2
<1>4. \A i \in 1 .. N - 1 : i \in G => i + 1 \in G
  BY <1>1, <1>2
<1>5. 1 .. N \subseteq G
  <2> HIDE DEF G
  <2> QED
    BY <1>2, <1>3, <1>4, UpTo
<1>6. \A i \in 1 .. N : o[i] \in Nat
  BY <1>5
<1> DEFINE H == {i \in 1 .. N : o[N + 1 - i] <= o[N]}
<1>7. 1 \in H
  <2>1. N + 1 - 1 = N /\ o[N] \in Nat /\ 1 \in 1 .. N
    BY <1>2, <1>6
  <2> QED
    BY <2>1
<1>8. ASSUME NEW i \in 1 .. N - 1, i \in H PROVE i + 1 \in H
  <2>1. N + 1 - (i + 1) \in 1 .. Len(s) /\ (N + 1 - (i + 1)) + 1 = N + 1 - i /\ i + 1 \in 1 .. N
    BY <1>2
  <2> DEFINE j == N + 1 - (i + 1)
  <2>2. o[j + 1] = o[j] + s[j] /\ s[j] \in Nat
    BY <1>1, <1>2, <2>1
  <2>3. o[j] \in Nat /\ o[N] \in Nat
    BY <1>2, <1>6, <2>1
  <2>4. o[j + 1] <= o[N]
    BY <1>8, <2>1
  <2>5. o[j] <= o[N]
    BY <2>2, <2>3, <2>4
  <2> QED
    BY <2>1, <2>5
<1>9. 1 .. N \subseteq H
  <2> HIDE DEF H
  <2> QED
    BY <1>2, <1>7, <1>8, UpTo
<1>10. ASSUME NEW i \in 1 .. N PROVE o[i] <= o[N]
  <2>1. N + 1 - i \in 1 .. N /\ N + 1 - (N + 1 - i) = i
    BY <1>2
  <2>2. N + 1 - i \in H
    BY <1>9, <2>1
  <2> QED
    BY <2>1, <2>2
<1> QED
  BY <1>6, <1>10 DEF o

\* Each header of a KWAJ file begins where the one before it ends.
LEMMA KwajSizeType ==
  ASSUME NEW f \in Files, f.form = "kwaj", NEW i \in 1 .. 8
  PROVE  KwajSize(f, Fields[i]) \in Nat
<1>1. f.unknown2 \in Nat /\ f.name \in Nat /\ f.ext \in Nat /\ f.extra \in Nat
  BY KwajAssumption DEF KwajAssumption
<1>2. Fields[i] \in Headers
  BY DEF Fields, Headers
<1> QED
  BY <1>1, <1>2 DEF KwajSize, Headers

LEMMA KwajStartAt ==
  ASSUME NEW f, NEW i \in 1 .. 9
  PROVE  KwajStart(f, Fields[i]) = Offsets(KwajSizes(f))[i]
<1>1. \A j \in 1 .. 9 : Fields[j] = Fields[i] => j = i
  BY DEF Fields
<1>2. (CHOOSE j \in 1 .. 9 : Fields[j] = Fields[i]) = i
  BY <1>1
<1> QED
  BY <1>2 DEF KwajStart

LEMMA KwajStarts ==
  ASSUME NEW f \in Files, f.form = "kwaj"
  PROVE  /\ KwajStart(f, Fields[1]) = 0
         /\ \A i \in 1 .. 8 : KwajStart(f, Fields[i + 1]) = KwajStart(f, Fields[i]) + KwajSize(f, Fields[i])
         /\ \A i \in 1 .. 9 : KwajStart(f, Fields[i]) \in Nat /\ KwajStart(f, Fields[i]) <= KwajStart(f, Fields[9])
<1> DEFINE s == KwajSizes(f)
<1>1. s \in Seq(Nat) /\ Len(s) = 8 /\ \A i \in 1 .. 8 : s[i] = KwajSize(f, Fields[i])
  <2>1. s = [i \in 1 .. 8 |-> KwajSize(f, Fields[i])]
    BY DEF KwajSizes
  <2>2. \A i \in 1 .. 8 : KwajSize(f, Fields[i]) \in Nat
    BY KwajSizeType
  <2> HIDE DEF s
  <2> QED
    BY <2>1, <2>2
<1> HIDE DEF s
<1>2. /\ Offsets(s)[1] = 0
      /\ \A i \in 1 .. 8 : Offsets(s)[i + 1] = Offsets(s)[i] + s[i]
  BY <1>1, OffsetsNext
<1>3. /\ \A i \in 1 .. 9 : Offsets(s)[i] \in Nat
      /\ \A i \in 1 .. 9 : Offsets(s)[i] <= Offsets(s)[9]
  <2>1. Len(s) + 1 = 9
    BY <1>1
  <2>2. /\ \A i \in 1 .. Len(s) + 1 : Offsets(s)[i] \in Nat
        /\ \A i \in 1 .. Len(s) + 1 : Offsets(s)[i] <= Offsets(s)[Len(s) + 1]
    BY <1>1, OffsetsAscend
  <2> QED
    BY <2>1, <2>2
<1>4. \A i \in 1 .. 9 : KwajStart(f, Fields[i]) = Offsets(s)[i]
  BY KwajStartAt DEF s
<1>5. \A i \in 1 .. 8 : i \in 1 .. 9 /\ i + 1 \in 1 .. 9
  OBVIOUS
<1> QED
  BY <1>1, <1>2, <1>3, <1>4, <1>5, SMTT(40)

\* The same, header by header.
KwajLayout(f) ==
  /\ KwajStart(f, "signature") = 0
  /\ KwajStart(f, "length") = KwajStart(f, "signature") + KwajSize(f, "signature")
  /\ KwajStart(f, "unknown1") = KwajStart(f, "length") + KwajSize(f, "length")
  /\ KwajStart(f, "unknown2") = KwajStart(f, "unknown1") + KwajSize(f, "unknown1")
  /\ KwajStart(f, "names") = KwajStart(f, "unknown2") + KwajSize(f, "unknown2")
  /\ KwajStart(f, "name") = KwajStart(f, "names") + KwajSize(f, "names")
  /\ KwajStart(f, "ext") = KwajStart(f, "name") + KwajSize(f, "name")
  /\ KwajStart(f, "extra") = KwajStart(f, "ext") + KwajSize(f, "ext")
  /\ KwajStart(f, "opened") = KwajStart(f, "extra") + KwajSize(f, "extra")

LEMMA KwajLayoutIs ==
  ASSUME NEW f \in Files, f.form = "kwaj"
  PROVE  /\ KwajLayout(f)
         /\ \A label \in Headers :
              KwajStart(f, label) \in Nat /\ KwajStart(f, label) <= KwajStart(f, "opened")
         /\ KwajStart(f, "opened") \in Nat
<1> DEFINE Is(i) == KwajStart(f, Fields[i + 1]) = KwajStart(f, Fields[i]) + KwajSize(f, Fields[i])
<1>1. KwajStart(f, Fields[1]) = 0
  BY KwajStarts
<1>2. Is(1) /\ Is(2) /\ Is(3) /\ Is(4) /\ Is(5) /\ Is(6) /\ Is(7) /\ Is(8)
  <2>1. \A i \in 1 .. 8 : Is(i)
    BY KwajStarts
  <2> HIDE DEF Is
  <2> QED
    BY <2>1
<1>3. KwajLayout(f)
  BY <1>1, <1>2 DEF KwajLayout, Fields
<1>4. \A i \in 1 .. 9 : KwajStart(f, Fields[i]) \in Nat /\ KwajStart(f, Fields[i]) <= KwajStart(f, "opened")
  <2>1. Fields[9] = "opened"
    BY DEF Fields
  <2> QED
    BY <2>1, KwajStarts
<1>5. \A label \in Headers \cup {"opened"} : \E i \in 1 .. 9 : label = Fields[i]
  <2>1. /\ Fields[1] = "signature" /\ Fields[2] = "length" /\ Fields[3] = "unknown1"
        /\ Fields[4] = "unknown2" /\ Fields[5] = "names" /\ Fields[6] = "name"
        /\ Fields[7] = "ext" /\ Fields[8] = "extra" /\ Fields[9] = "opened"
    BY DEF Fields
  <2>2. {1, 2, 3, 4, 5, 6, 7, 8, 9} \subseteq 1 .. 9
    OBVIOUS
  <2> QED
    BY <2>1, <2>2 DEF Headers
<1> QED
  BY <1>3, <1>4, <1>5

\* The blocks of an OAB file, and what of the base and the target is theirs,
\* come one after the other.
OabLayout(f) ==
  LET N == Len(f.blocks) IN
  /\ N \in Nat
  /\ OabStart(f, 1) = HEAD /\ BaseUsed(f, 1) = 0 /\ Decoded(f, 1) = 0
  /\ \A i \in 1 .. N :
       /\ f.blocks[i] \in BLOCK
       /\ OabStart(f, i + 1) = OabStart(f, i) + HEAD + f.blocks[i].csize
       /\ BaseUsed(f, i + 1) = BaseUsed(f, i) + f.blocks[i].ssize
       /\ Decoded(f, i + 1) = Decoded(f, i) + f.blocks[i].dsize
  /\ \A i \in 1 .. N + 1 :
       /\ OabStart(f, i) \in Nat /\ OabStart(f, i) <= OabStart(f, N + 1)
       /\ BaseUsed(f, i) \in Nat /\ BaseUsed(f, i) <= BaseUsed(f, N + 1)
       /\ Decoded(f, i) \in Nat /\ Decoded(f, i) <= Decoded(f, N + 1)

LEMMA OabLayoutIs ==
  ASSUME NEW f \in Files, f.form \in {"oab", "patch"}
  PROVE  OabLayout(f)
<1> DEFINE N == Len(f.blocks)
           c == [i \in DOMAIN f.blocks |-> HEAD + f.blocks[i].csize]
           b == [i \in DOMAIN f.blocks |-> f.blocks[i].ssize]
           d == [i \in DOMAIN f.blocks |-> f.blocks[i].dsize]
<1>1. f.blocks \in Seq(BLOCK) /\ HEAD \in Nat
  BY OabAssumption DEF OabAssumption
<1>2. N \in Nat /\ DOMAIN f.blocks = 1 .. N /\ \A i \in 1 .. N : f.blocks[i] \in BLOCK
  BY <1>1
<1>3. \A i \in 1 .. N : f.blocks[i].csize \in Nat /\ f.blocks[i].ssize \in Nat /\ f.blocks[i].dsize \in Nat
  BY <1>2 DEF BLOCK
<1>4. c \in Seq(Nat) /\ Len(c) = N /\ \A i \in 1 .. N : c[i] = HEAD + f.blocks[i].csize
  <2>1. c = [i \in 1 .. N |-> HEAD + f.blocks[i].csize]
    BY <1>2
  <2>2. \A i \in 1 .. N : HEAD + f.blocks[i].csize \in Nat
    BY <1>1, <1>3
  <2> HIDE DEF c, N
  <2> QED
    BY <1>2, <2>1, <2>2
<1>5. b \in Seq(Nat) /\ Len(b) = N /\ \A i \in 1 .. N : b[i] = f.blocks[i].ssize
  <2>1. b = [i \in 1 .. N |-> f.blocks[i].ssize]
    BY <1>2
  <2> HIDE DEF b, N
  <2> QED
    BY <1>2, <1>3, <2>1
<1>6. d \in Seq(Nat) /\ Len(d) = N /\ \A i \in 1 .. N : d[i] = f.blocks[i].dsize
  <2>1. d = [i \in 1 .. N |-> f.blocks[i].dsize]
    BY <1>2
  <2> HIDE DEF d, N
  <2> QED
    BY <1>2, <1>3, <2>1
<1>7. \A i : OabStart(f, i) = HEAD + Offsets(c)[i] /\ BaseUsed(f, i) = Offsets(b)[i] /\ Decoded(f, i) = Offsets(d)[i]
  BY DEF OabStart, BaseUsed, Decoded
<1> HIDE DEF c, b, d
<1> DEFINE InRow(s, o) ==
             /\ o[1] = 0
             /\ \A i \in 1 .. N : o[i + 1] = o[i] + s[i]
             /\ \A i \in 1 .. N + 1 : o[i] \in Nat /\ o[i] <= o[N + 1]
<1>8. \A s \in Seq(Nat) : Len(s) = N => InRow(s, Offsets(s))
  BY OffsetsNext, OffsetsAscend
<1>9. InRow(c, Offsets(c)) /\ InRow(b, Offsets(b)) /\ InRow(d, Offsets(d))
  <2> HIDE DEF InRow, N
  <2> QED
    BY <1>4, <1>5, <1>6, <1>8
<1>10. OabStart(f, 1) = HEAD /\ BaseUsed(f, 1) = 0 /\ Decoded(f, 1) = 0
  <2>1. HEAD + 0 = HEAD
    BY <1>1
  <2> QED
    BY <1>7, <1>9, <2>1
<1>11. ASSUME NEW i \in 1 .. N
       PROVE  /\ OabStart(f, i + 1) = OabStart(f, i) + HEAD + f.blocks[i].csize
              /\ BaseUsed(f, i + 1) = BaseUsed(f, i) + f.blocks[i].ssize
              /\ Decoded(f, i + 1) = Decoded(f, i) + f.blocks[i].dsize
  <2>1. Offsets(c)[i + 1] = Offsets(c)[i] + (HEAD + f.blocks[i].csize)
    BY <1>4, <1>9
  <2>2. Offsets(c)[i] \in Nat
    <3>1. i \in 1 .. N + 1
      BY <1>2
    <3> QED
      BY <1>9, <3>1
  <2>3. OabStart(f, i + 1) = OabStart(f, i) + HEAD + f.blocks[i].csize
    <3>1. \A x, y, z \in Nat : x + (y + (x + z)) = x + y + x + z
      OBVIOUS
    <3> QED
      BY <1>1, <1>3, <1>7, <2>1, <2>2, <3>1
  <2>4. /\ Offsets(b)[i + 1] = Offsets(b)[i] + f.blocks[i].ssize
        /\ Offsets(d)[i + 1] = Offsets(d)[i] + f.blocks[i].dsize
    BY <1>5, <1>6, <1>9
  <2> QED
    BY <1>7, <2>3, <2>4
<1>12. ASSUME NEW i \in 1 .. N + 1
       PROVE  /\ OabStart(f, i) \in Nat /\ OabStart(f, i) <= OabStart(f, N + 1)
              /\ BaseUsed(f, i) \in Nat /\ BaseUsed(f, i) <= BaseUsed(f, N + 1)
              /\ Decoded(f, i) \in Nat /\ Decoded(f, i) <= Decoded(f, N + 1)
  <2>1. N + 1 \in 1 .. N + 1
    BY <1>2
  <2>2. Offsets(c)[i] \in Nat /\ Offsets(c)[N + 1] \in Nat /\ Offsets(c)[i] <= Offsets(c)[N + 1]
    BY <1>9, <2>1
  <2>3. OabStart(f, i) \in Nat /\ OabStart(f, i) <= OabStart(f, N + 1)
    BY <1>1, <1>7, <2>2
  <2> QED
    BY <1>7, <1>9, <2>3
<1> QED
  BY <1>2, <1>10, <1>11, <1>12 DEF OabLayout

-----------------------------------------------------------------------------
(* What steps do to handles.                                                *)

\* What read() returns is not negative, and no more than was asked for or than
\* there is.
LEMMA GotType ==
  ASSUME InputsKept, NEW h \in DOMAIN handles, NEW n \in Nat, handles[h].file.len \in Int
  PROVE  /\ Got(h, n) \in Nat /\ Got(h, n) <= n
         /\ handles[h].pos + n <= handles[h].file.len => Got(h, n) = n
         /\ handles[h].pos <= handles[h].file.len => handles[h].pos + Got(h, n) <= handles[h].file.len
         /\ handles[h].pos < handles[h].file.len /\ n > 0 => Got(h, n) > 0
         /\ handles[h].pos + 2 <= handles[h].file.len /\ n >= 2 => Got(h, n) >= 2
         /\ Got(h, n) = n /\ n > 0 => handles[h].pos + n <= handles[h].file.len
<1>1. handles[h].pos \in Nat
  BY DEF InputsKept
<1> QED
  BY <1>1 DEF Got, Least

\* A read or seek moves one handle; the others, and all files, stay.
LEMMA MovesOne ==
  ASSUME InputsKept, NEW h \in DOMAIN handles, NEW p \in Nat,
         handles' = [handles EXCEPT ![h].pos = p]
  PROVE  /\ DOMAIN handles' = DOMAIN handles
         /\ handles'[h].pos = p
         /\ \A x \in DOMAIN handles :
              /\ {"file", "pos"} \subseteq DOMAIN handles'[x]
              /\ handles'[x].file = handles[x].file
              /\ handles'[x].pos \in Nat
              /\ x # h => handles'[x] = handles[x]
BY DEF InputsKept

\* A file that is opened is at its beginning.
LEMMA OpensOne ==
  ASSUME InputsKept, NEW h, NEW f, Opens(h, f)
  PROVE  /\ DOMAIN handles' = DOMAIN handles \cup {h}
         /\ handles'[h] = [file |-> f, pos |-> 0]
         /\ \A x \in DOMAIN handles \ {h} : handles'[x] = handles[x]
         /\ \A x \in DOMAIN handles' :
              {"file", "pos"} \subseteq DOMAIN handles'[x] /\ handles'[x].pos \in Nat
BY DEF InputsKept, Opens

\* What is not closed stays.
LEMMA ClosesSome ==
  ASSUME InputsKept, NEW H, Closes(H)
  PROVE  /\ DOMAIN handles' = DOMAIN handles \ H
         /\ \A x \in DOMAIN handles' : handles'[x] = handles[x]
BY DEF Closes

\* Steps within a call that open no file keep the account of inputs.
SameFiles ==
  \A h \in DOMAIN handles' :
    /\ h \in DOMAIN handles
    /\ {"file", "pos"} \subseteq DOMAIN handles'[h] /\ handles'[h].pos \in Nat
    /\ handles'[h].file = handles[h].file
SameCall ==
  /\ kind' = kind /\ headers' = headers
  /\ l'.n = l.n /\ l'.file = l.file
  /\ pc \in OabLabels => l'.base = l.base /\ l'.patch = l.patch

OabInputsOpen ==
  pc' \in OabLabels =>
    /\ pc' = "reference" => l.patch
    /\ pc' \notin {"oab open", "out"} => In \in DOMAIN handles'
    /\ pc' \in {"oab output", "oab alloc", "block"} \cup InBlock /\ l.patch => Base \in DOMAIN handles'

LEMMA SameInputs ==
  ASSUME Inv, Inv', InputsKept, SameFiles, SameCall, OabInputsOpen,
         \/ pc \in OabLabels /\ pc' \in OabLabels
         \/ pc \in Opening \cup Extracting /\ pc' \in Opening \cup Extracting,
         pc' \in Extracting => In \in DOMAIN handles'
  PROVE  InputsKept'
<1>1. In' = In /\ Base' = Base
  BY DEF SameCall, In, Base
<1>2. \A n \in DOMAIN headers : <<"in", n>> \in DOMAIN handles'
  BY DEF Inv, HandlesKept, Inputs, SameCall
<1>3. /\ \A h \in DOMAIN handles' : {"file", "pos"} \subseteq DOMAIN handles'[h] /\ handles'[h].pos \in Nat
      /\ \A n \in DOMAIN headers' :
           headers'[n].file \in Files /\ headers'[n].file.form = kind'
             /\ handles'[<<"in", n>>].file = headers'[n].file
  BY <1>2 DEF InputsKept, SameFiles, SameCall
<1>4. pc \in OabLabels => pc' \notin Opening \cup Extracting
  BY DEF OabLabels, Opening, Extracting, Headers, Unpacking
<1>5. pc \in Opening \cup Extracting => pc' \notin OabLabels
  BY DEF OabLabels, Opening, Extracting, Headers, Unpacking
<1>6. pc' \in Opening \cup Extracting =>
        /\ l'.file \in Files /\ l'.file.form = kind'
        /\ In' \in DOMAIN handles' => handles'[In'].file = l'.file
  <2>1. SUFFICES ASSUME pc' \in Opening \cup Extracting
                 PROVE  /\ l.file \in Files /\ l.file.form = kind
                        /\ In \in DOMAIN handles' => handles'[In].file = l.file
    BY <1>1 DEF SameCall
  <2>2. /\ l.file \in Files /\ l.file.form = kind
        /\ In \in DOMAIN handles => handles[In].file = l.file
    BY <1>4, <2>1 DEF InputsKept
  <2> QED
    BY <2>2 DEF SameFiles
<1>7. pc' \in Extracting => In' \in DOMAIN handles'
  BY <1>1
<1>8. pc' \in OabLabels =>
        /\ l'.base \in Bases /\ l'.patch \in BOOLEAN
        /\ pc' = "reference" => l'.patch
        /\ pc' \notin {"oab open", "out"} => In' \in DOMAIN handles'
        /\ pc' \in {"oab output", "oab alloc", "block"} \cup InBlock /\ l'.patch => Base' \in DOMAIN handles'
        /\ In' \in DOMAIN handles' => handles'[In'].file = l'.file
        /\ Base' \in DOMAIN handles' => handles'[Base'].file = l'.base
  <2>1. SUFFICES ASSUME pc' \in OabLabels
                 PROVE  /\ l.base \in Bases /\ l.patch \in BOOLEAN
                        /\ In \in DOMAIN handles' => handles'[In].file = l.file
                        /\ Base \in DOMAIN handles' => handles'[Base].file = l.base
    <3>1. pc' \in OabLabels => l'.file = l.file /\ l'.base = l.base /\ l'.patch = l.patch
      BY <1>5 DEF SameCall
    <3> QED
      BY <1>1, <3>1 DEF OabInputsOpen
  <2>2. pc \in OabLabels
    BY <1>5, <2>1
  <2>3. /\ l.base \in Bases /\ l.patch \in BOOLEAN
        /\ In \in DOMAIN handles => handles[In].file = l.file
        /\ Base \in DOMAIN handles => handles[Base].file = l.base
    BY <2>2 DEF InputsKept
  <2> QED
    BY <2>3 DEF SameFiles
<1>9. InBlock' = InBlock /\ OabLabels' = OabLabels /\ Opening' = Opening /\ Extracting' = Extracting
  BY DEF InBlock, OabLabels, Opening, Headers, Extracting, Unpacking
<1> QED
  BY <1>3, <1>6, <1>7, <1>8, <1>9 DEF InputsKept

LEMMA OpenOutside ==
  ASSUME pc' \notin OabLabels \ {"out"}
  PROVE  OabInputsOpen
BY DEF OabInputsOpen, InBlock

\* And so do returns.
LEMMA LastInputs ==
  ASSUME Inv', InputsKept, SameFiles, kind' = kind, headers' = headers, pc' = "idle"
  PROVE  InputsKept'
<1>1. \A n \in DOMAIN headers : <<"in", n>> \in DOMAIN handles'
  BY DEF Inv, HandlesKept, Inputs
<1>2. pc' \notin Opening \cup Extracting \cup OabLabels
  BY DEF OabLabels, Opening, Extracting, Headers, Unpacking
<1> QED
  BY <1>1, <1>2 DEF InputsKept, SameFiles

LEMMA UnchangedIsSame ==
  ASSUME InputsKept, UNCHANGED handles
  PROVE  SameFiles
BY DEF InputsKept, SameFiles

LEMMA MovesIsSame ==
  ASSUME InputsKept, NEW h \in DOMAIN handles, NEW n \in Nat, Moves(h, n)
  PROVE  SameFiles /\ DOMAIN handles' = DOMAIN handles /\ handles'[h].pos = handles[h].pos + n
         /\ \A x \in DOMAIN handles \ {h} : handles'[x] = handles[x]
<1> DEFINE p == handles[h].pos + n
<1>1. p \in Nat
  <2>1. handles[h].pos \in Nat
    BY DEF InputsKept
  <2> QED
    BY <2>1
<1>2. handles' = [handles EXCEPT ![h].pos = p]
  BY DEF Moves
<1> HIDE DEF p
<1>3. /\ DOMAIN handles' = DOMAIN handles
      /\ handles'[h].pos = p
      /\ \A x \in DOMAIN handles :
           /\ {"file", "pos"} \subseteq DOMAIN handles'[x]
           /\ handles'[x].file = handles[x].file
           /\ handles'[x].pos \in Nat
           /\ x # h => handles'[x] = handles[x]
  BY <1>1, <1>2, MovesOne
<1> QED
  BY <1>3 DEF SameFiles, p

LEMMA ClosesIsSame ==
  ASSUME InputsKept, NEW H, Closes(H)
  PROVE  SameFiles
BY ClosesSome DEF InputsKept, SameFiles

\* The lengths of what is read are numbers.
LEMMA FileLen ==
  ASSUME NEW f \in Files
  PROVE  f.len \in Nat
BY PackedFileAssumption DEF PackedFileAssumption

\* The sizes of the block that is at work are numbers too.
LEMMA BlockSizes ==
  ASSUME Inv, pc \in {"block"} \cup InBlock, l.block < Len(Blocks)
  PROVE  /\ Block \in BLOCK
         /\ Block.csize \in Nat /\ Block.dsize \in Nat /\ Block.ssize \in Nat
         /\ l.file.blockmax \in Nat /\ BlockMax \in Nat
         /\ l.block \in Nat /\ Len(Blocks) \in Nat
<1>1. l.file \in Files /\ l.file.form \in {"oab", "patch"} /\ l.block \in Nat
  BY DEF Inv, TargetKept, OabLabels, InBlock
<1>2. Blocks \in Seq(BLOCK) /\ l.file.blockmax \in Nat /\ HEAD \in Nat
  BY <1>1, OabAssumption DEF OabAssumption, Blocks
<1>3. Len(Blocks) \in Nat
  BY <1>2
<1>4. Blocks[l.block + 1] \in BLOCK
  BY <1>1, <1>2, <1>3
<1>5. Block \in BLOCK
  BY <1>4 DEF Block, Blocks
<1> QED
  BY <1>1, <1>2, <1>3, <1>5 DEF BLOCK, BlockMax, BlockMaxOf

\* A string that is read leaves the rest of the call as it is.
LEMMA StringSame ==
  ASSUME NEW most, NEW nul, NEW from, KwajString(most, nul, from),
         {"n", "file", "whole", "got", "fn", "top", "extra"} \subseteq DOMAIN l
  PROVE  l'.n = l.n /\ l'.file = l.file /\ l'.whole = l.whole /\ l'.extra = l.extra
<1>1. l' = l \/ \E fn, top : l' = [l EXCEPT !.fn = fn, !.top = top]
  BY Zenon DEF KwajString
<1> QED
  BY <1>1

\* The steps that neither open or close files nor return.
HeaderStep == AllocHeader \/ SzddSignature \/ SzddLength \/ KwajHeaders
DataStep == Unpack \/ UnpackRead \/ UnpackWrite \/ UnpackDamaged
BlockStep ==
  \/ OabHeader \/ OabAlloc \/ OabBlock \/ OabStored \/ OabInitLzx \/ OabReference
  \/ OabLzxRead \/ OabLzxDone \/ OabLzxDamaged \/ OabFreeLzx \/ OabPadding \/ OabCrc

\* They stay with their file.
LEMMA SameCallSteps ==
  ASSUME Inv, HeaderStep \/ DataStep \/ BlockStep
  PROVE  SameCall /\ (\/ {pc, pc'} \subseteq Opening
                     \/ {pc, pc'} \subseteq Unpacking
                     \/ {pc, pc'} \subseteq OabLabels)
<1> USE DEF Inv, Control, TargetKept, OabFields, SameCall, Headers, Opening, Unpacking, Extracting, OabLabels,
     Ends, caller, HeadersRead, Unpacked, Goes, OabRest, Goto, GoesOut, BlockDone, OabAt, KwajAt, SzddAt
<1>1. CASE SzddSignature
  BY <1>1 DEF SzddSignature
<1>2. CASE SzddLength
  BY <1>2 DEF SzddLength
<1>3. CASE KwajSkips
  BY <1>3, AfterHeaders, ZenonT(60) DEF KwajSkips
<1>4. CASE KwajSignature
  BY <1>4, AfterHeaders DEF KwajSignature
<1>5. CASE KwajNumber
  BY <1>5, AfterHeaders, ZenonT(60) DEF KwajNumber
<1>6. CASE KwajUnknown2
  BY <1>6, AfterHeaders DEF KwajUnknown2
<1>7. CASE KwajAllocName
  BY <1>7, AfterHeaders DEF KwajAllocName
<1>8. CASE KwajName
  <2>1. pc \in Headers
    BY <1>8 DEF KwajName
  <2>2. l'.n = l.n /\ l'.file = l.file
    BY <1>8, <2>1, StringSame DEF KwajName
  <2>3. kind' = kind /\ headers' = headers /\ pc' \in Headers \cup {"opened"}
    BY <1>8, AfterHeaders DEF KwajName, KwajString
  <2> QED
    BY <2>1, <2>2, <2>3
<1>9. CASE KwajExtension
  <2>1. pc \in Headers
    BY <1>9 DEF KwajExtension
  <2>2. l'.n = l.n /\ l'.file = l.file
    BY <1>9, <2>1, StringSame DEF KwajExtension
  <2>3. kind' = kind /\ headers' = headers /\ pc' \in Headers \cup {"opened"}
    BY <1>9, AfterHeaders DEF KwajExtension, KwajString
  <2> QED
    BY <2>1, <2>2, <2>3
<1>10. CASE KwajExtra
  BY <1>10, AfterHeaders DEF KwajExtra
<1>11. CASE AllocHeader
  BY <1>11 DEF AllocHeader
<1>12. CASE Unpack
  BY <1>12 DEF Unpack
<1>13. CASE UnpackRead
  BY <1>13 DEF UnpackRead
<1>14. CASE UnpackWrite
  BY <1>14 DEF UnpackWrite
<1>15. CASE UnpackDamaged
  BY <1>15 DEF UnpackDamaged
<1>16. CASE OabHeader
  BY <1>16 DEF OabHeader
<1>17. CASE OabAlloc
  BY <1>17 DEF OabAlloc
<1>18. CASE OabBlock
  BY <1>18 DEF OabBlock
<1>19. CASE OabStored
  BY <1>19 DEF OabStored
<1>20. CASE OabInitLzx
  BY <1>20 DEF OabInitLzx
<1>21. CASE OabReference
  BY <1>21 DEF OabReference
<1>22. CASE OabLzxRead
  BY <1>22 DEF OabLzxRead
<1>23. CASE OabLzxDone
  BY <1>23 DEF OabLzxDone
<1>24. CASE OabLzxDamaged
  BY <1>24 DEF OabLzxDamaged
<1>25. CASE OabFreeLzx
  BY <1>25 DEF OabFreeLzx
<1>26. CASE OabPadding
  BY <1>26 DEF OabPadding
<1>27. CASE OabCrc
  BY <1>27 DEF OabCrc
<1> QED
  BY <1>1, <1>2, <1>3, <1>4, <1>5, <1>6, <1>7, <1>8, <1>9, <1>10, <1>11, <1>12, <1>13, <1>14,
     <1>15, <1>16, <1>17, <1>18, <1>19, <1>20, <1>21, <1>22, <1>23, <1>24, <1>25, <1>26, <1>27
     DEF HeaderStep, DataStep, BlockStep, KwajHeaders

\* And at most read on in it.
LEMMA SameFilesSteps ==
  ASSUME Inv, InputsKept, BlocksKept, HeaderStep \/ DataStep \/ BlockStep
  PROVE  SameFiles /\ DOMAIN handles' = DOMAIN handles
<1> USE DEF Works, Fails, Reads, CannotRead, HeadersRead, Unpacked, Goes, OabRest, Goto, GoesOut, BlockDone,
     OabAt, KwajAt, SzddAt, caller, system
<1> DEFINE M(h) == \E n \in Nat : Moves(h, n)
<1>100. /\ pc \in Headers \cup Unpacking \cup {"oab header", "block"} \cup InBlock => In \in DOMAIN handles
        /\ pc \in InBlock /\ l.patch => Base \in DOMAIN handles
        /\ pc \in Headers \cup Unpacking \cup {"oab header"} \cup InBlock =>
             handles[In].file \in Files
  BY DEF Inv, HandlesKept, InputsKept, Headers, Opening, Extracting, Unpacking, OabLabels, InBlock, TargetKept
<1>101. ASSUME NEW n \in Nat, pc \in Headers \cup Unpacking \cup {"oab header"} \cup InBlock
        PROVE  Got(In, n) \in Nat
  <2> DEFINE h == In
  <2>0. h \in DOMAIN handles /\ handles[h].file.len \in Nat
    BY <1>100, <1>101, FileLen
  <2>1. h \in DOMAIN handles /\ handles[h].file.len \in Int
    BY <2>0
  <2> HIDE DEF h
  <2>2. Got(h, n) \in Nat
    BY <2>1, GotType
  <2> QED
    BY <2>2 DEF h
<1>102. /\ UNCHANGED handles => SameFiles
        /\ In \in DOMAIN handles /\ M(In) => SameFiles /\ DOMAIN handles' = DOMAIN handles
        /\ Base \in DOMAIN handles /\ M(Base) => SameFiles /\ DOMAIN handles' = DOMAIN handles
  BY UnchangedIsSame, MovesIsSame
<1>103. pc \in Headers /\ kind = "kwaj" =>
          l.file.unknown2 \in Nat /\ l.file.name \in Nat /\ l.file.ext \in Nat /\ l.file.extra \in Nat
  BY KwajAssumption DEF KwajAssumption, InputsKept, Opening
<1>104. /\ pc \in InBlock => Block.csize \in Nat /\ Block.dsize \in Nat /\ Block.ssize \in Nat /\ BlockMax \in Nat
        /\ pc \in InStream => l.available \in Nat
        /\ pc = "reference" => l.patch
  BY BlockSizes DEF Inv, TargetKept, InputsKept, BlocksKept, OabPlace, InStream, InBlock, OabLabels
<1>1. CASE SzddSignature
  BY <1>1, <1>100, <1>101, <1>102 DEF SzddSignature, Headers, Unpacking, InBlock
<1>2. CASE SzddLength
  BY <1>2, <1>100, <1>101, <1>102 DEF SzddLength, Headers, Unpacking, InBlock
<1>3. CASE KwajSkips
  BY <1>3, <1>102 DEF KwajSkips
<1>4. CASE KwajSignature
  BY <1>4, <1>100, <1>101, <1>102 DEF KwajSignature, Headers, Unpacking, InBlock
<1>5. CASE KwajNumber
  BY <1>5, <1>100, <1>101, <1>102 DEF KwajNumber, Headers, Unpacking, InBlock
<1>6. CASE KwajUnknown2
  BY <1>6, <1>100, <1>101, <1>102, <1>103 DEF KwajUnknown2, Headers, Unpacking, InBlock
<1>7. CASE KwajAllocName
  BY <1>7, <1>102 DEF KwajAllocName
<1>8. CASE KwajName
  BY <1>8, <1>100, <1>101, <1>102, <1>103 DEF KwajName, Back, Least, KwajString, Headers, Unpacking, InBlock
<1>9. CASE KwajExtension
  BY <1>9, <1>100, <1>101, <1>102, <1>103 DEF KwajExtension, Back, Least, KwajString, Headers, Unpacking, InBlock
<1>10. CASE KwajExtra
  BY <1>10, <1>100, <1>101, <1>102, <1>103 DEF KwajExtra, Headers, Unpacking, InBlock
<1>11. CASE AllocHeader
  BY <1>11, <1>102 DEF AllocHeader
<1>12. CASE Unpack
  BY <1>12, <1>102 DEF Unpack
<1>13. CASE UnpackRead
  BY <1>13, <1>100, <1>101, <1>102, PackedFileAssumption DEF UnpackRead, PackedFileAssumption, Headers, Unpacking, InBlock
<1>14. CASE UnpackWrite
  BY <1>14, <1>102 DEF UnpackWrite
<1>15. CASE UnpackDamaged
  BY <1>15, <1>102 DEF UnpackDamaged
<1>16. CASE OabHeader
  BY <1>16, <1>100, <1>101, <1>102, OabAssumption DEF OabHeader, OabAssumption, Headers, Unpacking, InBlock
<1>17. CASE OabAlloc
  BY <1>17, <1>102 DEF OabAlloc
<1>18. CASE OabBlock
  BY <1>18, <1>100, <1>101, <1>102, OabAssumption DEF OabBlock, OabAssumption, Headers, Unpacking, InBlock
<1>19. CASE OabStored
  BY <1>19, <1>100, <1>101, <1>102, <1>104 DEF OabStored, Headers, Unpacking, InBlock
<1>20. CASE OabInitLzx
  BY <1>20, <1>102 DEF OabInitLzx
<1>21. CASE OabReference
  BY <1>21, <1>100, <1>101, <1>102, <1>104 DEF OabReference, Headers, Unpacking, InBlock
<1>22. CASE OabLzxRead
  <2>1. pc \in InBlock /\ pc \in InStream
    BY <1>22 DEF OabLzxRead, InBlock, InStream
  <2>2. Least(CHUNK, l.available) \in Nat
    BY <1>104, <2>1, PackedFileAssumption DEF PackedFileAssumption, Least
  <2>3. Got(In, Least(CHUNK, l.available)) \in Nat
    BY <1>101, <2>1, <2>2
  <2> QED
    BY <1>22, <1>100, <1>102, <2>1, <2>3 DEF OabLzxRead
<1>23. CASE OabLzxDone
  BY <1>23, <1>102 DEF OabLzxDone
<1>24. CASE OabLzxDamaged
  BY <1>24, <1>102 DEF OabLzxDamaged
<1>25. CASE OabFreeLzx
  BY <1>25, <1>102 DEF OabFreeLzx
<1>26. CASE OabPadding
  <2>1. pc \in InBlock /\ pc \in InStream
    BY <1>26 DEF OabPadding, InBlock, InStream
  <2>2. Least(BlockMax, l.available) \in Nat
    BY <1>104, <2>1, PackedFileAssumption DEF PackedFileAssumption, Least
  <2>3. Got(In, Least(BlockMax, l.available)) \in Nat
    BY <1>101, <2>1, <2>2
  <2> QED
    BY <1>26, <1>100, <1>102, <2>1, <2>3 DEF OabPadding
<1>27. CASE OabCrc
  BY <1>27, <1>102 DEF OabCrc
<1> QED
  BY <1>1, <1>2, <1>3, <1>4, <1>5, <1>6, <1>7, <1>8, <1>9, <1>10, <1>11, <1>12, <1>13, <1>14,
     <1>15, <1>16, <1>17, <1>18, <1>19, <1>20, <1>21, <1>22, <1>23, <1>24, <1>25, <1>26, <1>27
     DEF HeaderStep, DataStep, BlockStep, KwajHeaders

\* extract() returns to the caller or to decompress().
LEMMA ExtractedInputs ==
  ASSUME Inv, Inv', InputsKept, pc \in Extracting, NEW e, Extracted(e), SameFiles, In \in DOMAIN handles'
  PROVE  InputsKept'
<1>1. CASE l.whole
  <2>1. SameCall /\ In' = In /\ pc' = "close"
    BY <1>1 DEF Extracted, SameCall, caller, In, OabLabels, Extracting, Unpacking
  <2> QED
    BY <2>1, OpenOutside, SameInputs DEF Extracting, OabLabels
<1>2. CASE ~l.whole
  BY <1>2, LastInputs DEF Extracted, Ends, caller
<1> QED
  BY <1>1, <1>2

\* A file that an OAB call opens is at its beginning.
LEMMA OabOpensInputs ==
  ASSUME Inv, Inv', InputsKept, NEW label, NEW h, NEW f, NEW next,
         OabOpens(label, h, f, next), label \in OabLabels \ InBlock, next \in OabLabels \ InBlock,
         \/ label = "oab open" /\ h = In /\ f = l.file /\ next = "oab header"
         \/ label = "open base" /\ h = Base /\ f = l.base /\ next = "oab output"
         \/ label = "oab output" /\ h = Out /\ next = "oab alloc"
  PROVE  InputsKept'
<1>1. pc = label /\ UNCHANGED <<kind, headers>> /\ DOMAIN headers = {}
  BY DEF OabOpens, OabRest, caller, OabAt, Inv, Control
<1>2. In # Base /\ In # Out /\ Base # Out
  BY DEF In, Base, Out
<1>3. pc' \notin Opening \cup Extracting
  BY DEF Inv, Control, OabOpens, OabAt, OabRest, Goto, GoesOut, OabLabels, Opening, Extracting, Headers, Unpacking
<1>4. CASE Opens(h, f) /\ Goto(next)
  <2>1. UNCHANGED l /\ pc' = next /\ In' = In /\ Base' = Base
    BY <1>4 DEF Goto, In, Base
  <2>2. /\ DOMAIN handles' = DOMAIN handles \cup {h}
        /\ handles'[h].file = f
        /\ \A x \in DOMAIN handles \ {h} : handles'[x] = handles[x]
        /\ \A x \in DOMAIN handles' :
             {"file", "pos"} \subseteq DOMAIN handles'[x] /\ handles'[x].pos \in Nat
    <3>1. Opens(h, f)
      BY <1>4
    <3>2. [file |-> f, pos |-> 0].file = f
      OBVIOUS
    <3> QED
      BY ONLY <3>1, <3>2, OpensOne, InputsKept
  <2>3. pc' \notin {"reference", "block"} \cup InBlock
    BY <2>1 DEF InBlock
  <2>4. pc \in OabLabels
    BY <1>1
  <2>5. l'.base \in Bases /\ l'.patch \in BOOLEAN
    BY <2>1, <2>4 DEF InputsKept
  <2>6. In \in DOMAIN handles'
    BY <1>1, <2>2, <2>4 DEF InputsKept
  <2>7. pc' \in {"oab output", "oab alloc"} /\ l.patch => Base \in DOMAIN handles'
    BY <1>1, <2>1, <2>2, <2>4 DEF InputsKept
  <2>8. handles'[In].file = l.file
    BY <1>1, <1>2, <2>2, <2>4, <2>6 DEF InputsKept
  <2>9. Base \in DOMAIN handles' => handles'[Base].file = l.base
    BY <1>1, <1>2, <2>2, <2>4 DEF InputsKept
  <2> QED
    BY <1>1, <1>3, <2>1, <2>2, <2>3, <2>5, <2>6, <2>7, <2>8, <2>9 DEF InputsKept
<1>5. CASE UNCHANGED handles /\ GoesOut("OPEN")
  <2>1. SameFiles
    BY <1>5, UnchangedIsSame
  <2>2. SameCall
    BY <1>1, <1>5 DEF SameCall, GoesOut, Inv, TargetKept, OabFields
  <2> QED
    BY <1>1, <1>5, <2>1, <2>2, OpenOutside, SameInputs DEF GoesOut, OabLabels, Extracting, Unpacking
<1> QED
  BY <1>4, <1>5 DEF OabOpens

\* The handles are those of the files that calls and headers are about.
LEMMA InputsStep ==
  ASSUME Inv, Inv', InputsKept, BlocksKept, [Next]_vars
  PROVE  InputsKept'
<1> DEFINE HeadersHave ==
             \A n \in DOMAIN headers' :
               headers'[n].file \in Files /\ headers'[n].file.form = kind'
                 /\ handles'[<<"in", n>>].file = headers'[n].file
           HandlesHave ==
             \A h \in DOMAIN handles' : {"file", "pos"} \subseteq DOMAIN handles'[h] /\ handles'[h].pos \in Nat
<1>0. \A n \in DOMAIN headers : <<"in", n>> \in DOMAIN handles
  BY DEF Inv, HandlesKept, Inputs
<1>00. UNCHANGED <<kind, headers, handles>> => HeadersHave /\ HandlesHave
  BY DEF InputsKept
<1>1. CASE OpenCall
  <2>1. pc' = "open" /\ l'.file \in Files /\ l'.file.form = kind' /\ l'.n = opens + 1
    BY <1>1 DEF OpenCall, Locals
  <2>2. UNCHANGED <<kind, headers, handles>>
    BY <1>1 DEF OpenCall, system
  <2>3. In' \notin DOMAIN handles'
    BY <2>1 DEF Inv, HandlesKept, Opening, Headers
  <2>4. pc' \notin Extracting /\ pc' \notin OabLabels
    BY <2>1 DEF Extracting, Unpacking, OabLabels
  <2> QED
    BY <1>00, <2>1, <2>2, <2>3, <2>4 DEF InputsKept
<1>2. CASE ExtractCall
  <2>1. PICK n \in DOMAIN headers : l' = Locals(n, headers[n].file, FALSE)
    BY <1>2 DEF ExtractCall
  <2>2. l'.file = headers[n].file /\ l'.n = n /\ pc' = "seek"
    BY <1>2, <2>1 DEF ExtractCall, Locals
  <2>3. UNCHANGED <<kind, headers, handles>>
    BY <1>2 DEF ExtractCall, caller, system
  <2>4. In' = <<"in", n>> /\ In' \in DOMAIN handles' /\ handles'[In'].file = l'.file
    BY <1>0, <2>2, <2>3 DEF In, InputsKept
  <2>5. l'.file \in Files /\ l'.file.form = kind'
    BY <2>2, <2>3 DEF InputsKept
  <2>6. pc' \notin OabLabels
    BY <2>2 DEF OabLabels
  <2> QED
    BY <1>00, <2>3, <2>4, <2>5, <2>6 DEF InputsKept
<1>3. CASE CloseCall
  <2>1. PICK n \in DOMAIN headers :
          Closes({<<"in", n>>}) /\ headers' = [x \in DOMAIN headers \ {n} |-> headers[x]]
    BY <1>3 DEF CloseCall
  <2>2. \A h \in DOMAIN handles' : h \in DOMAIN handles /\ handles'[h] = handles[h]
    BY <2>1, ClosesSome
  <2>3. \A x \in DOMAIN headers' : x \in DOMAIN headers /\ headers'[x] = headers[x]
    BY <2>1
  <2>4. pc' = "idle" /\ kind' = kind
    BY <1>3 DEF CloseCall
  <2>5. \A x \in DOMAIN headers' : <<"in", x>> \in DOMAIN handles'
    BY DEF Inv, HandlesKept, Inputs
  <2>6. HeadersHave /\ HandlesHave
    BY <2>2, <2>3, <2>4, <2>5 DEF InputsKept
  <2>7. pc' \notin Opening \cup Extracting \cup OabLabels
    BY <2>4 DEF OabLabels, Opening, Extracting, Headers, Unpacking
  <2> QED
    BY <2>6, <2>7 DEF InputsKept
<1>4. CASE OabCall
  <2>1. PICK f \in Files, base \in Bases, patch \in BOOLEAN :
          l' = [n |-> 0, file |-> f, base |-> base, patch |-> patch, error |-> "OK", target |-> f.target,
                block |-> 0, available |-> 0, right |-> TRUE]
    BY <1>4 DEF OabCall
  <2>2. l'.base \in Bases /\ l'.patch \in BOOLEAN /\ pc' = "oab open" /\ l'.n = 0
    BY <1>4, <2>1 DEF OabCall
  <2>3. UNCHANGED <<kind, headers, handles>> /\ kind = "oab" /\ pc = "idle"
    BY <1>4 DEF OabCall, OabAt, caller, system
  <2>4. DOMAIN handles' = {}
    BY <2>3 DEF Inv, Control, HandlesKept, Inputs
  <2>5. pc' \notin Opening \cup Extracting \cup InBlock
    BY <2>2 DEF Opening, Extracting, Headers, Unpacking, InBlock
  <2> QED
    BY <1>00, <2>2, <2>3, <2>4, <2>5 DEF InputsKept
<1>5. CASE OpenInput
  <2>1. pc = "open" /\ pc' = "alloc header" /\ UNCHANGED <<kind, headers, l>>
    BY <1>5 DEF OpenInput, caller
  <2>2. CASE UNCHANGED handles
    <3>1. SameFiles /\ SameCall
      BY <2>1, <2>2, UnchangedIsSame DEF SameCall, OabLabels
    <3> QED
      BY <2>1, <3>1, OpenOutside, SameInputs DEF Opening, Extracting, Unpacking, OabLabels
  <2>3. CASE Opens(In, l.file)
    <3>1. In \notin DOMAIN handles /\ In' = In
      BY <2>1 DEF Inv, HandlesKept, In
    <3>2. /\ handles'[In] = [file |-> l.file, pos |-> 0]
          /\ \A x \in DOMAIN handles : handles'[x] = handles[x]
          /\ HandlesHave
      BY <2>3, <3>1, OpensOne
    <3>3. HeadersHave
      BY <1>0, <2>1, <3>2 DEF InputsKept
    <3>4. l'.file \in Files /\ l'.file.form = kind' /\ handles'[In'].file = l'.file
      <4>1. l.file \in Files /\ l.file.form = kind
        BY <2>1 DEF InputsKept, Opening
      <4>2. handles'[In].file = l.file
        BY <3>2
      <4> QED
        BY <2>1, <3>1, <4>1, <4>2
    <3>5. pc' \notin Extracting /\ pc' \notin OabLabels
      BY <2>1 DEF Extracting, Unpacking, OabLabels
    <3> QED
      BY <3>2, <3>3, <3>4, <3>5 DEF InputsKept
  <2> QED
    BY <1>5, <2>2, <2>3 DEF OpenInput
<1>6. CASE Opened
  <2>0. pc = "opened" /\ kind' = kind /\ l.file \in Files /\ l.file.form = kind
    BY <1>6 DEF Opened, InputsKept, Opening
  <2>1. CASE error = "OK"
    <3>1. UNCHANGED handles /\ In \in DOMAIN handles /\ handles[In].file = l.file
      BY <1>6, <2>0, <2>1 DEF Opened, system, Inv, HandlesKept, InputsKept, Opening
    <3>2. CASE l.whole
      <4>1. SameCall /\ SameFiles /\ pc' = "seek"
        BY <1>6, <2>0, <2>1, <3>1, <3>2, UnchangedIsSame DEF Opened, SameCall, OabLabels
      <4>2. In' = In
        BY <4>1 DEF SameCall, In
      <4> QED
        BY <2>0, <3>1, <4>1, <4>2, OpenOutside, SameInputs DEF Opening, Extracting, OabLabels
    <3>3. CASE ~l.whole
      <4>1. headers' = [n \in DOMAIN headers \cup {l.n} |->
                          IF n = l.n THEN [file |-> l.file, name |-> l.fn, extra |-> l.extra] ELSE headers[n]]
        BY <1>6, <2>1, <3>3 DEF Opened
      <4>2. pc' = "idle"
        BY <1>6, <2>1, <3>3 DEF Opened, Ends
      <4>3. HeadersHave
        <5> SUFFICES ASSUME NEW n \in DOMAIN headers'
                     PROVE  headers'[n].file \in Files /\ headers'[n].file.form = kind'
                              /\ handles'[<<"in", n>>].file = headers'[n].file
          OBVIOUS
        <5>1. CASE n = l.n
          <6>1. headers'[n].file = l.file
            BY <4>1, <5>1
          <6> QED
            BY <2>0, <3>1, <5>1, <6>1 DEF In
        <5>2. CASE n # l.n
          <6>1. n \in DOMAIN headers /\ headers'[n] = headers[n]
            BY <4>1, <5>2
          <6> QED
            BY <2>0, <3>1, <6>1 DEF InputsKept
        <5> QED
          BY <5>1, <5>2
      <4>4. HandlesHave
        BY <3>1 DEF InputsKept
      <4>5. pc' \notin Opening \cup Extracting \cup OabLabels
        BY <4>2 DEF OabLabels, Opening, Extracting, Headers, Unpacking
      <4> QED
        BY <4>3, <4>4, <4>5 DEF InputsKept
    <3> QED
      BY <3>2, <3>3
  <2>2. CASE error # "OK"
    <3>1. Closes(GivenBack) /\ pc' = "idle" /\ headers' = headers
      BY <1>6, <2>2 DEF Opened, Ends
    <3> QED
      BY <2>0, <3>1, ClosesIsSame, LastInputs
  <2> QED
    BY <2>1, <2>2
<1>7. CASE SeekData
  <2>0. pc = "seek" /\ In \in DOMAIN handles /\ l.file \in Files /\ l.file.form = kind
    BY <1>7 DEF SeekData, InputsKept, Extracting
  <2>1. CASE pc' = "open output"
    <3>1. handles' = [handles EXCEPT ![In].pos = DataOffset(l.file)] /\ UNCHANGED <<kind, headers, l>>
      BY <1>7, <2>1 DEF SeekData, Extracted, Ends, caller
    <3>2. DataOffset(l.file) \in Nat
      BY <2>0, KwajAssumption DEF KwajAssumption, DataOffset
    <3> DEFINE p == DataOffset(l.file)
    <3>3. handles' = [handles EXCEPT ![In].pos = p]
      BY <3>1
    <3> HIDE DEF p
    <3>4. /\ DOMAIN handles' = DOMAIN handles
          /\ \A x \in DOMAIN handles :
               /\ {"file", "pos"} \subseteq DOMAIN handles'[x]
               /\ handles'[x].file = handles[x].file
               /\ handles'[x].pos \in Nat
      BY <2>0, <3>2, <3>3, MovesOne DEF p
    <3>5. SameFiles
      BY <3>4 DEF SameFiles
    <3>6. SameCall /\ In' = In
      BY <2>0, <3>1 DEF SameCall, OabLabels, In
    <3> QED
      BY <2>0, <2>1, <3>4, <3>5, <3>6, OpenOutside, SameInputs DEF Extracting, OabLabels
  <2>2. CASE pc' # "open output"
    <3>1. UNCHANGED handles /\ Extracted("SEEK")
      BY <1>7, <2>2 DEF SeekData
    <3> QED
      BY <2>0, <3>1, UnchangedIsSame, ExtractedInputs DEF Extracting, Unpacking
  <2> QED
    BY <2>1, <2>2
<1>8. CASE OpenOutput
  <2>0. pc = "open output" /\ In \in DOMAIN handles
    BY <1>8 DEF OpenOutput, InputsKept, Extracting
  <2>1. CASE pc' = "unpack"
    <3>1. Opens(Out, [len |-> 0]) /\ UNCHANGED <<kind, headers, l>>
      BY <1>8, <2>1 DEF OpenOutput, Extracted, Ends, caller
    <3>2. In' = In /\ In # Out /\ \A n : <<"in", n>> # Out
      BY <3>1 DEF In, Out
    <3>3. /\ \A x \in DOMAIN handles \ {Out} : handles'[x] = handles[x]
          /\ In \in DOMAIN handles' /\ HandlesHave
      BY <2>0, <3>1, OpensOne
    <3>4. HeadersHave
      BY <1>0, <3>1, <3>2, <3>3 DEF InputsKept
    <3>5. l'.file \in Files /\ l'.file.form = kind' /\ handles'[In'].file = l'.file
      BY <2>0, <3>1, <3>2, <3>3 DEF InputsKept, Extracting
    <3>6. pc' \notin OabLabels
      BY <2>1 DEF OabLabels
    <3> QED
      BY <3>2, <3>3, <3>4, <3>5, <3>6 DEF InputsKept
  <2>2. CASE pc' # "unpack"
    <3>1. UNCHANGED handles /\ Extracted("OPEN")
      BY <1>8, <2>2 DEF OpenOutput
    <3> QED
      BY <2>0, <3>1, UnchangedIsSame, ExtractedInputs DEF Extracting, Unpacking
  <2> QED
    BY <2>1, <2>2
<1>9. CASE EndExtract
  <2>1. pc = "unpacked" /\ Closes({Out}) /\ Extracted(error)
    BY <1>9 DEF EndExtract
  <2>2. In \in DOMAIN handles'
    <3>1. In # Out /\ In \in DOMAIN handles
      BY <2>1 DEF In, Out, InputsKept, Extracting, Unpacking
    <3> QED
      BY <2>1, <3>1, ClosesSome
  <2> QED
    BY <2>1, <2>2, ClosesIsSame, ExtractedInputs DEF Extracting, Unpacking
<1>10. CASE CloseWhole
  <2>1. Closes({In}) /\ pc' = "idle" /\ UNCHANGED <<kind, headers>>
    BY <1>10 DEF CloseWhole, Ends, caller
  <2> QED
    BY <2>1, ClosesIsSame, LastInputs
<1>11. CASE OabOpenInput
  <2>1. OabOpens("oab open", In, l.file, "oab header") /\ pc = "oab open"
    BY <1>11 DEF OabOpenInput, OabOpens, OabAt
  <2> QED
    BY <2>1, OabOpensInputs DEF OabLabels, InBlock
<1>12. CASE OabOpenBase
  <2>1. OabOpens("open base", Base, l.base, "oab output") /\ pc = "open base"
    BY <1>12 DEF OabOpenBase, OabOpens, OabAt
  <2> QED
    BY <2>1, OabOpensInputs DEF OabLabels, InBlock
<1>13. CASE OabOpenOutput
  <2>1. OabOpens("oab output", Out, [len |-> 0], "oab alloc") /\ pc = "oab output"
    BY <1>13 DEF OabOpenOutput, OabOpens, OabAt
  <2> QED
    BY <2>1, OabOpensInputs DEF OabLabels, InBlock
<1>14. CASE OabOut
  <2>1. Closes({In, Base, Out}) /\ pc' = "idle" /\ UNCHANGED <<kind, headers>>
    BY <1>14 DEF OabOut, Ends, caller
  <2> QED
    BY <2>1, ClosesIsSame, LastInputs
<1>15. CASE HeaderStep \/ DataStep \/ BlockStep
  <2>1. SameCall /\ SameFiles
    BY <1>15, SameCallSteps, SameFilesSteps
  <2>2. \/ {pc, pc'} \subseteq Opening
        \/ {pc, pc'} \subseteq Unpacking
        \/ {pc, pc'} \subseteq OabLabels
    BY <1>15, SameCallSteps
  <2>3. pc' \in Extracting => In \in DOMAIN handles'
    <3>1. pc' \in Extracting => pc \in Extracting
      BY <2>2 DEF Opening, Headers, Extracting, Unpacking, OabLabels
    <3>2. DOMAIN handles' = DOMAIN handles
      BY <1>15, SameFilesSteps
    <3> QED
      BY <3>1, <3>2 DEF InputsKept
  <2>4. OabInputsOpen
    <3>1. CASE HeaderStep \/ DataStep
      <4>1. pc' \notin OabLabels
        <5>1. pc \notin OabLabels /\ pc \in Opening \cup Extracting
          BY <3>1 DEF HeaderStep, DataStep, AllocHeader, SzddSignature, SzddLength, KwajHeaders,
             KwajSkips, KwajSignature, KwajNumber, KwajUnknown2, KwajAllocName, KwajName, KwajExtension, KwajExtra,
             KwajAt, SzddAt, Unpack, UnpackRead, UnpackWrite, UnpackDamaged,
             Opening, Headers, Extracting, Unpacking, OabLabels
        <5>2. pc' \in Opening \cup Unpacking
          BY <2>2, <5>1
        <5> QED
          BY <5>2 DEF Opening, Headers, Unpacking, OabLabels
      <4> QED
        BY <4>1, OpenOutside
    <3>2. CASE BlockStep
      <4>1. DOMAIN handles' = DOMAIN handles /\ pc \in OabLabels /\ pc \notin {"oab open", "out"}
        BY <3>2, SameFilesSteps DEF BlockStep, OabHeader, OabAlloc, OabBlock, OabStored, OabInitLzx, OabReference,
           OabLzxRead, OabLzxDone, OabLzxDamaged, OabFreeLzx, OabPadding, OabCrc, OabAt, OabLabels
      <4>2. In \in DOMAIN handles'
        BY <4>1 DEF InputsKept
      <4>3. /\ pc' = "reference" => l.patch
            /\ pc' \in {"oab output", "oab alloc", "block"} \cup InBlock /\ l.patch =>
                 pc \in {"oab output", "oab alloc", "block"} \cup InBlock
        BY <3>2 DEF BlockStep, OabHeader, OabAlloc, OabBlock, OabStored, OabInitLzx, OabReference,
           OabLzxRead, OabLzxDone, OabLzxDamaged, OabFreeLzx, OabPadding, OabCrc, OabAt, BlockDone, Goto, GoesOut, InBlock
      <4>4. pc' \in {"oab output", "oab alloc", "block"} \cup InBlock /\ l.patch => Base \in DOMAIN handles'
        BY <4>1, <4>3 DEF InputsKept
      <4> QED
        BY <4>2, <4>3, <4>4 DEF OabInputsOpen
    <3> QED
      BY <1>15, <3>1, <3>2
  <2> QED
    BY <2>1, <2>2, <2>3, <2>4, SameInputs DEF Extracting
<1>16. CASE UNCHANGED vars
  BY <1>16 DEF vars, caller, system, InputsKept, In, Base, Opening, Extracting, Headers, Unpacking, OabLabels, InBlock
<1> QED
  BY <1>1, <1>2, <1>3, <1>4, <1>5, <1>6, <1>7, <1>8, <1>9, <1>10, <1>11, <1>12, <1>13, <1>14, <1>15, <1>16
     DEF Next, Step, OabStep, HeaderStep, DataStep, BlockStep

-----------------------------------------------------------------------------
(* The headers of SZDD and KWAJ files.                                      *)

\* While headers are read, their file is open.
LEMMA HeaderInput ==
  ASSUME Inv, InputsKept, pc \in Headers
  PROVE  /\ In \in DOMAIN handles /\ handles[In].pos \in Nat
         /\ l.file \in Files /\ l.file.form = kind /\ l.file.len \in Nat
         /\ handles[In].file = l.file
         /\ {"n", "file", "whole", "got", "fn", "top", "extra"} \subseteq DOMAIN l
         /\ kind \in {"szdd", "kwaj"}
BY FileLen DEF Inv, Control, HandlesKept, InputsKept, Opening, Headers, OabLabels

\* What read() returns there.
LEMMA HeaderGot ==
  ASSUME Inv, InputsKept, pc \in Headers, NEW n \in Nat
  PROVE  /\ Got(In, n) \in Nat /\ Got(In, n) <= n
         /\ handles[In].pos + n <= l.file.len => Got(In, n) = n
         /\ handles[In].pos < l.file.len /\ n > 0 => Got(In, n) > 0
         /\ handles[In].pos + 2 <= l.file.len /\ n >= 2 => Got(In, n) >= 2
<1>1. /\ In \in DOMAIN handles /\ handles[In].file = l.file
      /\ handles[In].file.len \in Nat
  BY HeaderInput
<1>2. handles[In].file.len \in Int
  BY <1>1
<1> DEFINE h == In
<1>3. h \in DOMAIN handles /\ handles[h].file.len \in Int
  BY <1>1, <1>2
<1> HIDE DEF h
<1>4. /\ Got(h, n) \in Nat /\ Got(h, n) <= n
      /\ handles[h].pos + n <= handles[h].file.len => Got(h, n) = n
      /\ handles[h].pos < handles[h].file.len /\ n > 0 => Got(h, n) > 0
      /\ handles[h].pos + 2 <= handles[h].file.len /\ n >= 2 => Got(h, n) >= 2
  BY <1>3, GotType
<1> QED
  BY <1>1, <1>4 DEF h

\* The numbers a string leaves behind: where the NUL is within what was read,
\* exactly those of the string.
StringRead(most, nul, from, pos, moved) ==
  /\ l'.fn \in Nat /\ l'.top \in Int
  /\ l'.fn < from + most /\ l'.top < from + most
  /\ moved \in Nat
  /\ nul < most /\ pos + nul + 1 < l.file.len => moved = nul + 1 /\ l'.fn = from + nul

\* A string is no good, or is gone over to the byte behind its NUL.
LEMMA StringStep ==
  ASSUME Inv, InputsKept, pc \in Headers,
         NEW most \in Nat \ {0, 1}, NEW nul \in Nat, NEW from \in Nat, KwajString(most, nul, from)
  PROVE  \/ \E e : e # "OK" /\ HeadersRead(e)
         \/ /\ Goes
            /\ \E moved : Moves(In, moved) /\ StringRead(most, nul, from, handles[In].pos, moved)
<1> DEFINE len == Got(In, most)
           pos == handles[In].pos
           flen == l.file.len
           i == Least(nul, len)
           fn == from + IF nul < len THEN i ELSE i - 1
           top == IF nul < len THEN fn ELSE from + len - 1
<1>1. /\ pos \in Nat /\ flen \in Nat /\ handles[In].file = l.file
      /\ {"fn", "top", "file"} \subseteq DOMAIN l
  BY HeaderInput
<1>2. len \in Nat
  BY HeaderGot
<1>3. CASE (Fails \/ (Works /\ len < 2)) /\ HeadersRead("READ")
  BY <1>3
<1>4. CASE /\ len >= 2
           /\ l' = [l EXCEPT !.fn = fn, !.top = top]
           /\ \/ i = most /\ Works /\ HeadersRead("DATAFORMAT") /\ UNCHANGED handles
              \/ i < most /\ Works /\ Moves(In, len + Back(i, len)) /\ Goes
              \/ i < most /\ Fails /\ HeadersRead("SEEK") /\ UNCHANGED handles
  <2>1. SUFFICES ASSUME i < most, Moves(In, len + Back(i, len)), Goes
                 PROVE  StringRead(most, nul, from, pos, len + Back(i, len))
    BY <1>4
  <2>2. l'.fn = fn /\ l'.top = top
    BY <1>1, <1>4
  <2>3. len = IF flen - pos < 0 THEN 0 ELSE Least(most, flen - pos)
    BY <1>1 DEF Got
  <2>4. flen - pos \in Nat
    BY <1>1, <1>2, <1>4, <2>3
  <2>5. /\ fn \in Nat /\ top \in Int /\ fn < from + most /\ top < from + most
        /\ len + Back(i, len) \in Nat
        /\ nul < most /\ pos + nul + 1 < flen => len + Back(i, len) = nul + 1 /\ fn = from + nul
    <3> DEFINE left == flen - pos
    <3>1. left \in Nat /\ (flen >= pos => left = flen - pos) /\ len = IF left < 0 THEN 0 ELSE Least(most, left)
      BY <2>3, <2>4
    <3>2. len >= 2
      BY <1>4
    <3> HIDE DEF left, len, flen, pos
    <3> QED
      BY <1>1, <1>2, <2>1, <3>1, <3>2 DEF Least, Back
  <2> QED
    BY <2>2, <2>5 DEF StringRead
<1> QED
  BY <1>3, <1>4 DEF KwajString

\* What a step of kwajd_read_headers() has to show that goes on.
KwajGoesOn(next) ==
  /\ l'.file = l.file /\ pc' = next
  /\ l'.fn \in Nat /\ l'.top \in Int
  /\ l'.top <= 12
  /\ next \notin {"extra", "opened"} => l'.fn <= 8
  /\ KwajWhole(l.file) =>
       /\ handles'[In].pos = KwajStart(l.file, next)
       /\ l'.fn = NameUpTo(l.file, next)
       /\ l'.extra = ExtraUpTo(l.file, next)

LEMMA KwajReadNext ==
  ASSUME kind = "kwaj", kind' = kind, l'.n = l.n, pc' \notin {"open", "alloc header"}, NEW next, KwajGoesOn(next)
  PROVE  HeadersKept'
<1>1. In' = In
  BY DEF In
<1> QED
  BY <1>1 DEF KwajGoesOn, HeadersKept, KwajRead

\* Nothing of a header is known before its first byte is read.
LEMMA AllocHeaders ==
  ASSUME Inv, InputsKept, HeadersKept, AllocHeader
  PROVE  HeadersKept'
<1>1. pc = "alloc header" /\ UNCHANGED <<kind, handles, l>> /\ In' = In
  BY DEF AllocHeader, caller, In
<1>2. l.fn = 0 /\ l.top = 0 /\ l.extra = 0
  BY <1>1 DEF HeadersKept
<1>3. CASE pc' = "signature"
  <2>1. In \in DOMAIN handles /\ handles[In].pos = 0
    BY <1>1, <1>3 DEF AllocHeader, HeadersKept
  <2>2. CASE kind = "kwaj"
    <3>1. l.file \in Files /\ l.file.form = "kwaj"
      BY <1>1, <2>2 DEF InputsKept, Opening
    <3>2. KwajStart(l.file, "signature") = 0
      BY <3>1, KwajLayoutIs DEF KwajLayout
    <3>3. NameUpTo(l.file, "signature") = 0 /\ ExtraUpTo(l.file, "signature") = 0
      BY DEF NameUpTo, ExtraUpTo
    <3>4. l' = l /\ handles' = handles
      BY <1>1
    <3>5. handles'[In].pos = 0 /\ l'.fn = 0 /\ l'.top = 0 /\ l'.extra = 0
      BY <1>2, <2>1, <3>4
    <3>6. KwajGoesOn("signature")
      BY <1>3, <3>2, <3>3, <3>4, <3>5 DEF KwajGoesOn
    <3> QED
      BY <1>1, <1>3, <2>2, <3>4, <3>6, KwajReadNext
  <2>3. CASE kind # "kwaj"
    BY <1>1, <1>3, <2>1, <2>3 DEF HeadersKept
  <2> QED
    BY <2>2, <2>3
<1>4. CASE pc' = "opened" /\ error' # "OK"
  BY <1>4 DEF HeadersKept, Headers
<1> QED
  BY <1>3, <1>4 DEF AllocHeader

\* szddd_read_headers() reads 8 bytes, then those behind.
LEMMA SzddHeaders ==
  ASSUME Inv, InputsKept, HeadersKept, SzddSignature \/ SzddLength
  PROVE  HeadersKept'
<1>1. UNCHANGED <<kind, l>> /\ kind = "szdd" /\ pc \in Headers /\ In' = In
  BY DEF SzddSignature, SzddLength, SzddAt, HeadersRead, caller, Headers, In
<1>2. CASE pc' = "length"
  <2>1. Moves(In, 8) /\ handles[In].pos = 0
    BY <1>2 DEF SzddSignature, SzddLength, SzddAt, HeadersRead, HeadersKept, Reads
  <2>2. handles'[In].pos = 8
    BY <1>1, <2>1, HeaderInput, MovesIsSame
  <2> QED
    BY <1>1, <1>2, <2>2 DEF HeadersKept
<1>3. CASE pc' = "opened"
  BY <1>1, <1>3 DEF HeadersKept
<1> QED
  BY <1>2, <1>3 DEF SzddSignature, SzddLength, HeadersRead

LEMMA KwajNoGood ==
  ASSUME kind = "kwaj", NEW e, e # "OK", HeadersRead(e)
  PROVE  HeadersKept'
BY DEF HeadersRead, HeadersKept, Headers, caller

\* A header of n bytes that is no string, nor the last.
LEMMA KwajMoved ==
  ASSUME Inv, InputsKept, HeadersKept, kind = "kwaj", pc \in Headers \ {"name", "ext", "extra"},
         NEW n \in Nat, Moves(In, n) \/ (n = 0 /\ UNCHANGED handles), Goes, UNCHANGED l,
         KwajSize(l.file, pc) = n
  PROVE  HeadersKept'
<1>1. /\ l.file \in Files /\ l.file.form = "kwaj" /\ In \in DOMAIN handles
  BY HeaderInput
<1>2. KwajRead
  BY DEF HeadersKept
<1>3. /\ KwajStart(l.file, After(pc)) = KwajStart(l.file, pc) + KwajSize(l.file, pc)
  BY <1>1, AfterHeaders, KwajLayoutIs DEF KwajLayout, Headers
<1>4. handles'[In].pos = handles[In].pos + n
  BY <1>1, MovesIsSame, HeaderInput
<1>5. After(pc) \in {"length", "unknown1", "unknown2", "names", "name"} /\ pc \notin {"extra", "opened", "ext"}
  BY AfterHeaders DEF Headers
<1>6. /\ NameUpTo(l.file, After(pc)) = NameUpTo(l.file, pc)
      /\ ExtraUpTo(l.file, After(pc)) = ExtraUpTo(l.file, pc)
  BY <1>5 DEF NameUpTo, ExtraUpTo
<1>7. KwajGoesOn(After(pc))
  BY <1>2, <1>3, <1>4, <1>5, <1>6 DEF KwajGoesOn, KwajRead, Goes
<1> QED
  BY <1>5, <1>7, KwajReadNext DEF Goes, caller

\* One that the file has not got.
LEMMA KwajSkipped ==
  ASSUME Inv, InputsKept, HeadersKept, KwajSkips
  PROVE  HeadersKept'
<1>1. /\ kind = "kwaj" /\ pc \in Headers \ {"signature"} /\ ~Present(pc)
      /\ Goes /\ UNCHANGED <<handles, l>>
  BY DEF KwajSkips, Headers, system
<1>2. /\ l.file \in Files /\ l.file.form = "kwaj" /\ In \in DOMAIN handles
  BY <1>1, HeaderInput
<1>3. KwajRead
  BY <1>1 DEF HeadersKept
<1>4. KwajSize(l.file, pc) = 0
  BY <1>1 DEF KwajSize, Present, Headers
<1>5. /\ KwajStart(l.file, After(pc)) = KwajStart(l.file, pc) + KwajSize(l.file, pc)
      /\ KwajStart(l.file, pc) \in Nat
  BY <1>1, <1>2, AfterHeaders, KwajLayoutIs DEF KwajLayout, Headers
<1>6. KwajStart(l.file, After(pc)) = KwajStart(l.file, pc)
  BY <1>4, <1>5
<1>7. /\ NameUpTo(l.file, After(pc)) = NameUpTo(l.file, pc)
      /\ ExtraUpTo(l.file, After(pc)) = ExtraUpTo(l.file, pc)
  <2>1. l.file.name \in Nat /\ l.file.ext \in Nat
    BY <1>2, KwajAssumption DEF KwajAssumption
  <2> QED
    BY <1>1, <2>1, AfterHeaders DEF NameUpTo, ExtraUpTo, Present, Headers
<1>8. pc = "extra" => After(pc) = "opened"
  BY AfterHeaders
<1>9. After(pc) \notin {"extra", "opened"} => pc \notin {"extra", "opened"}
  BY <1>1, <1>8 DEF Headers
<1>10. KwajGoesOn(After(pc))
  BY <1>1, <1>3, <1>6, <1>7, <1>9 DEF KwajGoesOn, KwajRead, Goes
<1>11. pc' \notin {"open", "alloc header"}
  BY <1>1, AfterHeaders DEF Goes, Headers
<1> QED
  BY <1>1, <1>10, <1>11, KwajReadNext DEF Goes, caller

\* The name, and behind its dot the extension.
LEMMA KwajNames ==
  ASSUME Inv, InputsKept, HeadersKept, KwajName \/ KwajExtension
  PROVE  HeadersKept'
<1> DEFINE f == l.file
<1>1. /\ kind = "kwaj" /\ pc \in Headers /\ pc \in {"name", "ext"} /\ pc \in f.flags
  BY DEF KwajName, KwajExtension, KwajAt, Headers, Present
<1>2. /\ f \in Files /\ f.form = "kwaj" /\ In \in DOMAIN handles /\ handles[In].pos \in Nat /\ f.len \in Nat
      /\ {"n", "file", "whole", "got", "fn", "top", "extra"} \subseteq DOMAIN l
  BY <1>1, HeaderInput
<1>3. f.name \in Nat /\ f.ext \in Nat
  BY <1>2, KwajAssumption DEF KwajAssumption
<1>4. KwajRead
  BY <1>1 DEF HeadersKept
<1>5. /\ KwajStart(f, "ext") = KwajStart(f, "name") + KwajSize(f, "name")
      /\ KwajStart(f, "extra") = KwajStart(f, "ext") + KwajSize(f, "ext")
      /\ \A label \in Headers :
           KwajStart(f, label) \in Nat /\ KwajStart(f, label) <= KwajStart(f, "opened")
      /\ KwajStart(f, "opened") \in Nat
  BY <1>2, KwajLayoutIs DEF KwajLayout
<1>6. CASE pc = "name"
  <2>1. KwajString(9, f.name, 0)
    BY <1>6 DEF KwajName, KwajExtension, KwajAt
  <2>2. l'.n = l.n /\ l'.file = l.file /\ l'.extra = l.extra
    BY <1>2, <2>1, StringSame
  <2>3. CASE /\ Goes
             /\ \E moved : Moves(In, moved) /\ StringRead(9, f.name, 0, handles[In].pos, moved)
    <3>1. PICK moved : Moves(In, moved) /\ StringRead(9, f.name, 0, handles[In].pos, moved)
      BY <2>3
    <3>2. pc' = "ext" /\ kind' = kind
      BY <1>6, <2>3, AfterHeaders DEF Goes
    <3>3. /\ moved \in Nat
          /\ l'.fn \in Nat /\ l'.top \in Int /\ l'.fn <= 8 /\ l'.top <= 12
          /\ f.name < 9 /\ handles[In].pos + f.name + 1 < f.len => moved = f.name + 1 /\ l'.fn = f.name
      BY <1>3, <3>1 DEF StringRead
    <3>4. handles'[In].pos = handles[In].pos + moved
      BY <1>2, <3>1, <3>3, MovesIsSame
    <3>5. ASSUME KwajWhole(f)
          PROVE  handles'[In].pos = KwajStart(f, "ext") /\ l'.fn = NameUpTo(f, "ext") /\ l'.extra = ExtraUpTo(f, "ext")
      <4>1. handles[In].pos = KwajStart(f, "name") /\ l.extra = 0
        BY <1>4, <1>6, <3>5 DEF KwajRead, ExtraUpTo
      <4>2. KwajSize(f, "name") = f.name + 1
        BY <1>1, <1>6 DEF KwajSize
      <4>3. f.name <= 8 /\ KwajStart(f, "opened") < f.len
        BY <1>1, <1>6, <3>5 DEF KwajWhole
      <4>4. KwajStart(f, "ext") <= KwajStart(f, "opened") /\ KwajStart(f, "ext") \in Nat /\ KwajStart(f, "name") \in Nat
        BY <1>5 DEF Headers
      <4>5. handles[In].pos + f.name + 1 < f.len /\ f.name < 9
        BY <1>2, <1>3, <1>5, <4>1, <4>2, <4>3, <4>4
      <4>6. moved = f.name + 1 /\ l'.fn = f.name
        BY <3>3, <4>5
      <4>7. handles'[In].pos = KwajStart(f, "ext")
        BY <1>5, <3>4, <4>1, <4>2, <4>6
      <4> QED
        BY <1>1, <1>6, <2>2, <4>1, <4>6, <4>7 DEF NameUpTo, ExtraUpTo
    <3>6. KwajGoesOn("ext")
      BY <2>2, <3>2, <3>3, <3>5 DEF KwajGoesOn
    <3> QED
      BY <1>1, <2>2, <3>2, <3>6, KwajReadNext
  <2> QED
    BY <1>1, <1>3, <2>1, <2>3, StringStep, KwajNoGood
<1>7. CASE pc = "ext"
  <2>0. l.fn \in Nat /\ l.fn <= 8
    BY <1>4, <1>7 DEF KwajRead
  <2>1. KwajString(4, f.ext, l.fn + 1)
    BY <1>7 DEF KwajName, KwajExtension, KwajAt
  <2>2. l'.n = l.n /\ l'.file = l.file /\ l'.extra = l.extra
    BY <1>2, <2>1, StringSame
  <2>3. CASE /\ Goes
             /\ \E moved : Moves(In, moved) /\ StringRead(4, f.ext, l.fn + 1, handles[In].pos, moved)
    <3>1. PICK moved : Moves(In, moved) /\ StringRead(4, f.ext, l.fn + 1, handles[In].pos, moved)
      BY <2>3
    <3>2. pc' = "extra" /\ kind' = kind
      BY <1>7, <2>3, AfterHeaders DEF Goes
    <3>3. /\ moved \in Nat
          /\ l'.fn \in Nat /\ l'.top \in Int /\ l'.top <= 12
          /\ f.ext < 4 /\ handles[In].pos + f.ext + 1 < f.len => moved = f.ext + 1 /\ l'.fn = l.fn + 1 + f.ext
      BY <1>3, <2>0, <3>1 DEF StringRead
    <3>4. handles'[In].pos = handles[In].pos + moved
      BY <1>2, <3>1, <3>3, MovesIsSame
    <3>5. ASSUME KwajWhole(f)
          PROVE  handles'[In].pos = KwajStart(f, "extra") /\ l'.fn = NameUpTo(f, "extra") /\ l'.extra = ExtraUpTo(f, "extra")
      <4>1. handles[In].pos = KwajStart(f, "ext") /\ l.extra = 0 /\ l.fn = NameUpTo(f, "ext")
        BY <1>4, <1>7, <3>5 DEF KwajRead, ExtraUpTo
      <4>2. KwajSize(f, "ext") = f.ext + 1
        BY <1>1, <1>7 DEF KwajSize
      <4>3. f.ext <= 3 /\ KwajStart(f, "opened") < f.len
        BY <1>1, <1>7, <3>5 DEF KwajWhole
      <4>4. KwajStart(f, "extra") <= KwajStart(f, "opened") /\ KwajStart(f, "extra") \in Nat /\ KwajStart(f, "ext") \in Nat
        BY <1>5 DEF Headers
      <4>5. handles[In].pos + f.ext + 1 < f.len /\ f.ext < 4
        BY <1>2, <1>3, <1>5, <4>1, <4>2, <4>3, <4>4
      <4>6. moved = f.ext + 1 /\ l'.fn = l.fn + 1 + f.ext
        BY <3>3, <4>5
      <4>7. handles'[In].pos = KwajStart(f, "extra")
        BY <1>5, <3>4, <4>1, <4>2, <4>6
      <4>8. NameUpTo(f, "extra") = NameUpTo(f, "ext") + 1 + f.ext
        BY <1>1, <1>3, <1>7 DEF NameUpTo
      <4> QED
        BY <2>2, <4>1, <4>6, <4>7, <4>8 DEF ExtraUpTo
    <3>6. KwajGoesOn("extra")
      BY <2>2, <3>2, <3>3, <3>5 DEF KwajGoesOn
    <3> QED
      BY <1>1, <2>2, <3>2, <3>6, KwajReadNext
  <2> QED
    <3>1. l.fn + 1 \in Nat
      BY <2>0
    <3> QED
      BY <1>1, <1>3, <2>1, <2>3, <3>1, StringStep, KwajNoGood
<1> QED
  BY <1>1, <1>6, <1>7

\* The extra text is the last.
LEMMA KwajExtraText ==
  ASSUME Inv, InputsKept, HeadersKept, KwajExtra
  PROVE  HeadersKept'
<1> DEFINE f == l.file
           n == 2 + f.extra
<1>1. /\ kind = "kwaj" /\ pc \in Headers /\ pc = "extra" /\ "extra" \in f.flags
  BY DEF KwajExtra, KwajAt, Headers, Present
<1>2. /\ f \in Files /\ f.form = "kwaj" /\ In \in DOMAIN handles /\ handles[In].pos \in Nat
      /\ {"n", "file", "whole", "got", "fn", "top", "extra"} \subseteq DOMAIN l
  BY <1>1, HeaderInput
<1>3. f.extra \in Nat /\ n \in Nat
  BY <1>2, KwajAssumption DEF KwajAssumption
<1>4. KwajRead
  BY <1>1 DEF HeadersKept
<1>5. CASE /\ Moves(In, n)
           /\ l' = [l EXCEPT !.extra = l.file.extra]
           /\ Goes
  <2>1. pc' = "opened" /\ kind' = kind
    BY <1>1, <1>5, AfterHeaders DEF Goes
  <2>2. /\ l'.n = l.n /\ l'.file = f /\ l'.fn = l.fn /\ l'.top = l.top /\ l'.extra = f.extra
    BY <1>2, <1>5
  <2> HIDE DEF n
  <2>3. handles'[In].pos = handles[In].pos + n
    BY <1>2, <1>3, <1>5, MovesIsSame
  <2>4. KwajStart(f, "opened") = KwajStart(f, "extra") + KwajSize(f, "extra")
    BY <1>2, KwajLayoutIs DEF KwajLayout
  <2>5. KwajSize(f, "extra") = n
    BY <1>1 DEF KwajSize, n
  <2>6. NameUpTo(f, "opened") = NameUpTo(f, "extra") /\ ExtraUpTo(f, "opened") = f.extra
    BY <1>1 DEF NameUpTo, ExtraUpTo
  <2>7. KwajGoesOn("opened")
    BY <1>1, <1>4, <2>1, <2>2, <2>3, <2>4, <2>5, <2>6 DEF KwajGoesOn, KwajRead
  <2> QED
    BY <1>1, <2>1, <2>2, <2>7, KwajReadNext
<1>6. CASE \E e \in {"READ", "NOMEMORY"} : HeadersRead(e)
  BY <1>1, <1>6, KwajNoGood
<1> QED
  BY <1>5, <1>6 DEF KwajExtra

\* Each field is read where it is.
LEMMA HeadersStep ==
  ASSUME Inv, InputsKept, HeadersKept, [Next]_vars
  PROVE  HeadersKept'
<1>1. CASE OpenCall
  BY <1>1 DEF OpenCall, Locals, HeadersKept, Headers
<1>2. CASE OpenInput
  <2>1. pc = "open" /\ pc' = "alloc header" /\ UNCHANGED <<kind, l>> /\ In' = In
    BY <1>2 DEF OpenInput, caller, In
  <2>2. In \in DOMAIN handles' => handles'[In].pos = 0
    <3>1. In \notin DOMAIN handles
      BY <2>1 DEF Inv, HandlesKept
    <3>2. CASE UNCHANGED handles
      BY <3>1, <3>2
    <3>3. CASE Opens(In, l.file)
      <4>1. handles'[In] = [file |-> l.file, pos |-> 0]
        BY <3>3, OpensOne
      <4>2. handles'[In].pos = 0
        BY <4>1
      <4>3. handles'[In'] = handles'[In]
        BY <2>1
      <4> QED
        BY <4>2, <4>3
    <3> QED
      BY <1>2, <3>2, <3>3 DEF OpenInput
  <2> QED
    BY <2>1, <2>2 DEF HeadersKept, Headers
<1>3. CASE AllocHeader
  BY <1>3, AllocHeaders
<1>4. CASE SzddSignature \/ SzddLength
  BY <1>4, SzddHeaders
<1>5. CASE KwajSkips
  BY <1>5, KwajSkipped
<1>6. CASE KwajName \/ KwajExtension
  BY <1>6, KwajNames
<1>7. CASE KwajExtra
  BY <1>7, KwajExtraText
<1>8. CASE KwajSignature \/ KwajNumber \/ KwajUnknown2 \/ KwajAllocName
  <2>1. /\ kind = "kwaj" /\ pc \in Headers \ {"name", "ext", "extra"} /\ UNCHANGED l
        /\ (pc # "signature" => Present(pc))
    BY <1>8 DEF KwajSignature, KwajNumber, KwajUnknown2, KwajAllocName, KwajAt, Headers
  <2>2. l.file \in Files /\ l.file.form = "kwaj" /\ In \in DOMAIN handles /\ l.file.unknown2 \in Nat
    BY <2>1, HeaderInput, KwajAssumption DEF KwajAssumption
  <2>3. CASE Goes
    <3>1. \E n \in Nat : (Moves(In, n) \/ (n = 0 /\ UNCHANGED handles)) /\ KwajSize(l.file, pc) = n
      <4>1. CASE KwajSignature
        <5>1. pc = "signature" /\ Moves(In, 14)
          BY <2>3, <4>1, AfterHeaders DEF KwajSignature, KwajAt, Reads, Goes, HeadersRead
        <5> QED
          BY <5>1 DEF KwajSize
      <4>2. CASE KwajNumber
        <5>1. pc \in {"length", "unknown1"} /\ pc \in l.file.flags /\ Moves(In, IF pc = "length" THEN 4 ELSE 2)
          BY <2>1, <2>3, <4>2, AfterHeaders DEF KwajNumber, KwajAt, Reads, Present, Goes, HeadersRead
        <5> QED
          BY <5>1 DEF KwajSize
      <4>3. CASE KwajUnknown2
        <5>1. pc = "unknown2" /\ pc \in l.file.flags /\ Moves(In, 2 + l.file.unknown2)
          BY <2>1, <2>3, <4>3, AfterHeaders DEF KwajUnknown2, KwajAt, Present, Goes, HeadersRead
        <5> QED
          BY <2>2, <5>1 DEF KwajSize
      <4>4. CASE KwajAllocName
        BY <4>4 DEF KwajAllocName, KwajAt, KwajSize
      <4> QED
        BY <1>8, <4>1, <4>2, <4>3, <4>4
    <3> QED
      BY <2>1, <2>3, <3>1, KwajMoved
  <2>4. CASE \E e \in {"READ", "SIGNATURE", "SEEK", "NOMEMORY"} : HeadersRead(e)
    BY <2>1, <2>4, KwajNoGood
  <2> QED
    BY <1>8, <2>3, <2>4 DEF KwajSignature, KwajNumber, KwajUnknown2, KwajAllocName
<1>9. CASE UNCHANGED vars
  BY <1>9 DEF vars, caller, system, HeadersKept, KwajRead, In, Headers
<1>10. CASE \/ ExtractCall \/ CloseCall \/ OabCall \/ Opened \/ SeekData \/ OpenOutput \/ Unpack
            \/ UnpackRead \/ UnpackWrite \/ UnpackDamaged \/ EndExtract \/ CloseWhole
  <2>1. pc' \notin Headers \cup {"open", "alloc header", "opened"}
    BY <1>10 DEF ExtractCall, CloseCall, OabCall, Opened, SeekData, OpenOutput, Unpack, UnpackRead, UnpackWrite,
         UnpackDamaged, EndExtract, CloseWhole, Extracted, Unpacked, Ends, Headers
  <2> QED
    BY <2>1 DEF HeadersKept, Headers
<1>11. CASE OabStep
  <2>1. kind = "oab" /\ kind' = "oab" /\ pc' \notin {"open", "alloc header"}
    BY <1>11 DEF OabStep, OabOpenInput, OabHeader, OabOpenBase, OabOpenOutput, OabAlloc, OabBlock,
         OabStored, OabInitLzx, OabReference, OabLzxRead, OabLzxDone, OabLzxDamaged,
         OabFreeLzx, OabPadding, OabCrc, OabOut, OabOpens, OabAt, OabRest, Goto, GoesOut, BlockDone, Ends
  <2> QED
    BY <2>1 DEF HeadersKept
<1> QED
  BY <1>1, <1>2, <1>3, <1>4, <1>5, <1>6, <1>7, <1>8, <1>9, <1>10, <1>11 DEF Next, Step, KwajHeaders

-----------------------------------------------------------------------------
(* SZDD and KWAJ files that are as they should be.                          *)

\* Their data are in the file.
LEMMA SoundData ==
  ASSUME NEW f \in Files, f.form = kind, kind \in {"szdd", "kwaj"}
  PROVE  /\ DataOffset(f) \in Nat /\ f.len \in Nat
         /\ f.sound => DataOffset(f) <= f.len
         /\ f.sound /\ kind = "kwaj" => f.method # "unknown" /\ f.sig /\ KwajWhole(f)
         /\ f.sound /\ kind = "szdd" => f.sig /\ (f.normal => f.mode)
<1>1. f.len \in Nat
  BY FileLen
<1>2. CASE kind = "szdd"
  <2>1. f.sound => SzddSound(f)
    BY <1>2, SoundAssumption DEF SoundAssumption
  <2> QED
    BY <1>1, <1>2, <2>1 DEF SzddSound, DataOffset
<1>3. CASE kind = "kwaj"
  <2>1. f.sound => KwajSound(f)
    BY <1>3, SoundAssumption DEF SoundAssumption
  <2>2. f.data \in Nat
    BY <1>3, KwajAssumption DEF KwajAssumption
  <2> QED
    BY <1>1, <1>3, <2>1, <2>2 DEF KwajSound, DataOffset
<1> QED
  BY <1>2, <1>3

\* Their headers are there: no read of one is short, and none is wrong.
LEMMA SoundSzdd ==
  ASSUME Inv, InputsKept, HeadersKept, SzddSignature \/ SzddLength, l.file.sound, ~failed'
  PROVE  pc' = "opened" => error' = "OK"
<1> DEFINE f == l.file
<1>1. pc \in Headers /\ kind = "szdd"
  BY DEF SzddSignature, SzddLength, SzddAt, Headers
<1>2. /\ f \in Files /\ f.form = kind /\ f.len \in Nat
  BY <1>1, HeaderInput
<1>3. f.sig /\ (f.normal => f.mode) /\ (IF f.normal THEN 14 ELSE 12) <= f.len
  BY <1>1, <1>2, SoundData DEF DataOffset
<1>4. \A n \in Nat : handles[In].pos + n <= f.len => Got(In, n) = n
  BY <1>1, HeaderGot
<1>5. CASE SzddSignature
  <2>1. handles[In].pos = 0
    BY <1>1, <1>5 DEF SzddSignature, SzddAt, HeadersKept
  <2>2. Got(In, 8) = 8
    BY <1>2, <1>3, <1>4, <2>1
  <2> QED
    BY <1>3, <1>5, <2>2 DEF SzddSignature, CannotRead, Fails
<1>6. CASE SzddLength
  <2> DEFINE n == IF f.normal THEN 6 ELSE 4
  <2>1. handles[In].pos = 8
    BY <1>1, <1>6 DEF SzddLength, SzddAt, HeadersKept
  <2>2. n \in Nat /\ Got(In, n) = n
    BY <1>2, <1>3, <1>4, <2>1
  <2> QED
    BY <1>3, <1>6, <2>2 DEF SzddLength, CannotRead, Fails, HeadersRead
<1> QED
  BY <1>5, <1>6

LEMMA SoundKwaj ==
  ASSUME Inv, InputsKept, HeadersKept, KwajHeaders, l.file.sound, ~failed'
  PROVE  pc' = "opened" => error' = "OK"
<1> DEFINE f == l.file
           pos == handles[In].pos
<1>1. pc \in Headers /\ kind = "kwaj"
  BY DEF KwajHeaders, KwajSkips, KwajSignature, KwajNumber,
       KwajUnknown2, KwajAllocName, KwajName, KwajExtension, KwajExtra, KwajAt, Headers
<1>2. /\ f \in Files /\ f.form = kind /\ f.len \in Nat /\ pos \in Nat
      /\ f.unknown2 \in Nat /\ f.name \in Nat /\ f.ext \in Nat /\ f.extra \in Nat
  BY <1>1, HeaderInput, KwajAssumption DEF KwajAssumption
<1>3. f.sig /\ KwajWhole(f)
  BY <1>1, <1>2, SoundData
<1>4. \A n \in Nat : /\ pos + n <= f.len => Got(In, n) = n
                     /\ pos + 2 <= f.len /\ n >= 2 => Got(In, n) >= 2
                     /\ Got(In, n) \in Nat
  BY <1>1, HeaderGot
<1>5. pos = KwajStart(f, pc)
  BY <1>1, <1>3 DEF HeadersKept, KwajRead
<1>6. KwajSize(f, pc) \in Nat /\ pos + KwajSize(f, pc) < f.len
  <2>1. /\ KwajStart(f, After(pc)) = KwajStart(f, pc) + KwajSize(f, pc)
        /\ KwajStart(f, After(pc)) \in Nat /\ KwajStart(f, After(pc)) <= KwajStart(f, "opened")
        /\ KwajStart(f, "opened") \in Nat
    <3>1. /\ KwajLayout(f)
          /\ \A label \in Headers :
              KwajStart(f, label) \in Nat /\ KwajStart(f, label) <= KwajStart(f, "opened")
          /\ KwajStart(f, "opened") \in Nat
      BY <1>1, <1>2, KwajLayoutIs
    <3>2. After(pc) \in Headers \cup {"opened"}
      BY <1>1, AfterHeaders DEF Headers
    <3>3. KwajStart(f, After(pc)) = KwajStart(f, pc) + KwajSize(f, pc)
      BY <1>1, <3>1, AfterHeaders DEF KwajLayout, Headers
    <3> QED
      BY <3>1, <3>2, <3>3
  <2>2. KwajStart(f, "opened") < f.len
    BY <1>3 DEF KwajWhole
  <2>3. KwajSize(f, pc) \in Nat
    <3>1. KwajSize(f, pc) \in Nat \/ pc \notin Headers
      BY <1>2 DEF KwajSize, Headers
    <3> QED
      BY <1>1, <3>1
  <2> QED
    BY <1>2, <1>5, <2>1, <2>2, <2>3
<1> HIDE DEF pos
<1>7. \A n \in Nat : n <= KwajSize(f, pc) => Got(In, n) = n
  BY <1>2, <1>4, <1>6
<1>8. CASE KwajSkips
  BY <1>8 DEF KwajSkips, Goes
<1>9. CASE KwajSignature
  <2>1. Got(In, 14) = 14
    BY <1>7, <1>9 DEF KwajSignature, KwajAt, KwajSize
  <2> QED
    BY <1>3, <1>9, <2>1 DEF KwajSignature, CannotRead, Fails, Goes
<1>10. CASE KwajNumber
  <2> DEFINE n == IF pc = "length" THEN 4 ELSE 2
  <2>1. n \in Nat /\ Got(In, n) = n
    BY <1>7, <1>10 DEF KwajNumber, KwajAt, KwajSize, Present
  <2> QED
    BY <1>10, <2>1 DEF KwajNumber, CannotRead, Fails, Goes
<1>11. CASE KwajUnknown2
  <2>1. Got(In, 2) = 2
    BY <1>2, <1>7, <1>11 DEF KwajUnknown2, KwajAt, KwajSize, Present
  <2> QED
    BY <1>11, <2>1 DEF KwajUnknown2, CannotRead, Fails, Goes
<1>12. CASE KwajAllocName
  BY <1>12 DEF KwajAllocName, Fails, Goes
<1>13. ASSUME NEW most \in Nat, most >= 2, NEW nul \in Nat, nul < most, NEW from, KwajString(most, nul, from),
              KwajSize(f, pc) = nul + 1
       PROVE  pc' = "opened" => error' = "OK"
  <2> DEFINE len == Got(In, most)
  <2>1. len \in Nat /\ len >= 2
    BY <1>2, <1>4, <1>6, <1>13
  <2> HIDE DEF len
  <2>2. Least(nul, len) # most
    BY <1>13, <2>1 DEF Least
  <2> QED
    BY <1>13, <2>1, <2>2 DEF KwajString, Fails, Goes, len
<1>14. CASE KwajName
  <2>1. KwajSize(f, pc) = f.name + 1 /\ f.name <= 8 /\ KwajString(9, f.name, 0)
    BY <1>3, <1>14 DEF KwajName, KwajAt, KwajSize, Present, KwajWhole
  <2> QED
    BY <1>2, <1>13, <2>1
<1>15. CASE KwajExtension
  <2>1. KwajSize(f, pc) = f.ext + 1 /\ f.ext <= 3 /\ KwajString(4, f.ext, l.fn + 1)
    BY <1>3, <1>15 DEF KwajExtension, KwajAt, KwajSize, Present, KwajWhole
  <2> QED
    BY <1>2, <1>13, <2>1
<1>16. CASE KwajExtra
  <2> DEFINE n == 2 + f.extra
  <2>1. Got(In, 2) = 2 /\ n \in Nat /\ Got(In, n) = n
    BY <1>2, <1>7, <1>16 DEF KwajExtra, KwajAt, KwajSize, Present
  <2> QED
    BY <1>16, <2>1 DEF KwajExtra, CannotRead, Fails, Goes
<1> QED
  BY <1>8, <1>9, <1>10, <1>11, <1>12, <1>14, <1>15, <1>16 DEF KwajHeaders

\* Within extract() and decompress() the input is open, and its data are where
\* DataOffset says.
LEMMA DataInput ==
  ASSUME Inv, InputsKept, pc \in Extracting
  PROVE  /\ In \in DOMAIN handles /\ handles[In].pos \in Nat /\ handles[In].file = l.file
         /\ l.file \in Files /\ l.file.form = kind /\ kind \in {"szdd", "kwaj"} /\ l.file.len \in Nat
         /\ {"n", "file", "whole", "got", "fn", "top", "extra"} \subseteq DOMAIN l
         /\ DataOffset(l.file) \in Nat
         /\ l.file.sound => DataOffset(l.file) <= l.file.len
         /\ l.file.sound /\ kind = "kwaj" => l.file.method # "unknown"
<1>1. /\ In \in DOMAIN handles /\ handles[In].pos \in Nat /\ handles[In].file = l.file
      /\ l.file \in Files /\ l.file.form = kind
  BY DEF InputsKept
<1>2. kind \in {"szdd", "kwaj"} /\ {"n", "file", "whole", "got", "fn", "top", "extra"} \subseteq DOMAIN l
  BY DEF Inv, Control, Extracting, Unpacking, OabLabels
<1> QED
  BY <1>1, <1>2, SoundData

\* The data of a sound file come out one buffer after the other.
LEMMA UnpackData ==
  ASSUME Inv, InputsKept, DataKept, DataStep
  PROVE  DataKept'
<1> DEFINE f == l.file
<1>1. /\ pc \in Extracting /\ pc \in Unpacking /\ UNCHANGED kind
      /\ pc' \in {"read", "write", "unpacked"} /\ l'.n = l.n
  BY DEF DataStep, Unpack, UnpackRead, UnpackWrite, UnpackDamaged, Unpacked, Extracting, Unpacking,
         caller, Inv, Control, OabLabels
<1>2. /\ In \in DOMAIN handles /\ handles[In].pos \in Nat /\ handles[In].file = f
      /\ f \in Files /\ f.form = kind /\ kind \in {"szdd", "kwaj"} /\ f.len \in Nat
      /\ {"n", "file", "whole", "got", "fn", "top", "extra"} \subseteq DOMAIN l
      /\ DataOffset(f) \in Nat
      /\ f.sound => DataOffset(f) <= f.len
      /\ f.sound /\ kind = "kwaj" => f.method # "unknown"
  BY <1>1, DataInput
<1>3. In' = In /\ l'.file = f /\ DataOffset(f)' = DataOffset(f)
  <2>1. l'.file = f
    BY <1>1, <1>2 DEF DataStep, Unpack, UnpackRead, UnpackWrite, UnpackDamaged, Unpacked
  <2> QED
    BY <1>1, <2>1 DEF In, DataOffset
<1>4. SUFFICES ASSUME f.sound
               PROVE  /\ pc' \in {"read", "write"} =>
                           /\ out' \in Int
                           /\ handles'[In].pos <= f.len
                           /\ pc' = "write" => l'.got \in Int
                           /\ out' + (IF pc' = "write" THEN l'.got ELSE 0) = handles'[In].pos - DataOffset(f)
                      /\ pc' = "unpacked" /\ ~failed' => error' = "OK" /\ out' = f.len - DataOffset(f)
  BY <1>1, <1>3 DEF DataKept, Opening, Headers, Extracting, Unpacking
<1>5. CASE Unpack
  <2>1. out = 0 /\ handles[In].pos = DataOffset(f)
    BY <1>5 DEF Unpack, DataKept
  <2>2. Method # "unknown" /\ UNCHANGED handles /\ (pc' = "unpacked" => failed' = TRUE)
    BY <1>2, <1>4, <1>5 DEF Unpack, Method, Fails
  <2>3. pc' = "read" => out' = 0
    BY <1>5, <2>1 DEF Unpack, Unpacked
  <2> QED
    BY <1>1, <1>2, <1>4, <1>5, <2>1, <2>2, <2>3 DEF Unpack, Unpacked
<1>6. CASE UnpackRead
  <2> DEFINE n == Got(In, CHUNK)
  <2>1. /\ out \in Int /\ handles[In].pos <= f.len
        /\ out = handles[In].pos - DataOffset(f)
    <3>1. pc = "read"
      BY <1>6 DEF UnpackRead
    <3>2. out \in Int /\ out + 0 = handles[In].pos - DataOffset(f) /\ handles[In].pos <= f.len
      BY <1>4, <3>1 DEF DataKept
    <3> QED
      BY <3>2
  <2>2. /\ n \in Nat
        /\ handles[In].pos + n <= f.len
        /\ handles[In].pos < f.len => n > 0
    <3> DEFINE h == In
    <3>1. h \in DOMAIN handles /\ handles[h].file.len \in Int /\ CHUNK \in Nat /\ CHUNK > 0
      BY <1>2, PackedFileAssumption DEF PackedFileAssumption
    <3> HIDE DEF h
    <3>2. /\ Got(h, CHUNK) \in Nat
          /\ handles[h].pos <= handles[h].file.len => handles[h].pos + Got(h, CHUNK) <= handles[h].file.len
          /\ handles[h].pos < handles[h].file.len /\ CHUNK > 0 => Got(h, CHUNK) > 0
      BY <3>1, GotType
    <3> QED
      BY <1>2, <2>1, <3>1, <3>2 DEF h
  <2> HIDE DEF n
  <2>3. CASE Works /\ ~AtEnd(n) /\ Moves(In, n) /\ pc' = "write" /\ l' = [l EXCEPT !.got = n] /\ out' = out
    <3>1. handles'[In].pos = handles[In].pos + n
      BY <1>2, <2>2, <2>3, MovesIsSame
    <3>2. l'.got = n
      BY <1>2, <2>3
    <3> QED
      BY <1>2, <2>1, <2>2, <2>3, <3>1, <3>2
  <2>4. CASE /\ Works /\ AtEnd(n) /\ pc' = "unpacked" /\ UNCHANGED <<handles, out>>
             /\ error' = "OK"
    <3>1. handles[In].pos = f.len
      BY <1>2, <2>1, <2>2, <2>4 DEF AtEnd
    <3> QED
      BY <2>1, <2>4, <3>1
  <2>5. CASE failed' = TRUE /\ pc' = "unpacked"
    BY <2>5
  <2> QED
    BY <1>4, <1>6, <2>3, <2>4, <2>5 DEF UnpackRead, Unpacked, Fails, caller, n
<1>7. CASE UnpackWrite
  <2>1. /\ out \in Int /\ handles[In].pos <= f.len /\ l.got \in Int
        /\ out + l.got = handles[In].pos - DataOffset(f) /\ UNCHANGED handles
    BY <1>4, <1>7 DEF UnpackWrite, DataKept, system
  <2>2. CASE out' = out + l.got /\ pc' = "read"
    BY <1>2, <2>1, <2>2
  <2>3. CASE failed' = TRUE /\ pc' = "unpacked"
    BY <2>3
  <2> QED
    BY <1>7, <2>2, <2>3 DEF UnpackWrite, Unpacked, Fails
<1>8. CASE UnpackDamaged
  BY <1>4, <1>8 DEF UnpackDamaged
<1> QED
  BY <1>5, <1>6, <1>7, <1>8 DEF DataStep

\* extract() returns to the caller, or with what it has to decompress().
LEMMA ExtractedData ==
  ASSUME Inv, InputsKept, DataKept, pc \in Extracting, NEW e, Extracted(e),
         ~failed' /\ l.file.sound => e = "OK" /\ out = l.file.len - DataOffset(l.file)
  PROVE  DataKept'
<1>1. CASE l.whole
  <2>1. pc' = "close" /\ l' = l /\ out' = out /\ error' = e /\ kind' = kind
    BY <1>1 DEF Extracted, caller
  <2>2. DataOffset(l.file)' = DataOffset(l.file)
    BY <2>1 DEF DataOffset
  <2> QED
    BY <2>1, <2>2 DEF DataKept, Opening, Headers
<1>2. CASE ~l.whole
  BY <1>2 DEF Extracted, Ends, DataKept, Opening, Headers, Extracting, Unpacking
<1> QED
  BY <1>1, <1>2

LEMMA DataKeptStep ==
  ASSUME Inv, InputsKept, HeadersKept, DataKept, [Next]_vars
  PROVE  DataKept'
<1>1. CASE OpenCall
  BY <1>1 DEF OpenCall, DataKept, Opening, Headers, Extracting, Unpacking
<1>2. CASE ExtractCall
  BY <1>2 DEF ExtractCall, DataKept, Opening, Headers, Extracting, Unpacking
<1>3. CASE CloseCall \/ OabCall \/ CloseWhole
  BY <1>3 DEF CloseCall, OabCall, CloseWhole, OabAt, Ends, Inv, Control, DataKept, Opening, Headers, Extracting, Unpacking
<1>4. CASE OpenInput
  <2>1. pc = "open" /\ pc' = "alloc header" /\ out' = out /\ In' = In
    BY <1>4 DEF OpenInput, In
  <2>2. ~failed' => In \in DOMAIN handles'
    BY <1>4 DEF OpenInput, Opens, Fails
  <2> QED
    BY <2>1, <2>2 DEF DataKept, Opening, Headers, Extracting, Unpacking
<1>5. CASE AllocHeader
  <2>1. pc = "alloc header" /\ pc' \in {"signature", "opened"} /\ out' = out /\ UNCHANGED <<handles, l>>
    BY <1>5 DEF AllocHeader
  <2>2. ~failed' /\ l.file.sound => pc' # "opened"
    BY <1>5 DEF AllocHeader, Works, Fails, DataKept, Opening
  <2> QED
    BY <2>1, <2>2 DEF DataKept, Opening, Headers, Extracting, Unpacking
<1>6. CASE SzddSignature \/ SzddLength \/ KwajHeaders
  <2>1. SameCall /\ {pc, pc'} \subseteq Opening /\ pc' \notin {"alloc header"} /\ out' = out
    <3>1. SameCall
      BY <1>6, SameCallSteps DEF HeaderStep
    <3>2. {pc, pc'} \subseteq Opening /\ pc' \notin {"alloc header"} /\ out' = out
      BY <1>6, AfterHeaders DEF SzddSignature, SzddLength, SzddAt, KwajHeaders, KwajSkips, KwajSignature,
           KwajNumber, KwajUnknown2, KwajAllocName, KwajName, KwajExtension, KwajExtra, KwajString, KwajAt, Goes,
           HeadersRead, Opening, Headers
    <3> QED
      BY <3>1, <3>2
  <2>2. ~failed' /\ l.file.sound => (pc' = "opened" => error' = "OK")
    BY <1>6, SoundSzdd, SoundKwaj
  <2>3. out = 0
    BY <2>1 DEF DataKept
  <2>4. pc' \notin Extracting
    BY <2>1 DEF Opening, Headers, Extracting, Unpacking
  <2>5. pc' \notin {"seek", "open output", "unpack", "read", "write", "unpacked", "close"}
    BY <2>4 DEF Extracting, Unpacking
  <2> QED
    BY <2>1, <2>2, <2>3, <2>5 DEF DataKept, SameCall
<1>7. CASE Opened
  BY <1>7 DEF Opened, Ends, DataKept, Opening, Headers, Extracting, Unpacking
<1>8. CASE SeekData
  <2>0. pc = "seek" /\ pc \in Extracting
    BY <1>8 DEF SeekData, Extracting
  <2>1. CASE handles' = [handles EXCEPT ![In].pos = DataOffset(l.file)] /\ pc' = "open output" /\ UNCHANGED <<kind, l, out>>
    <3>1. In \in DOMAIN handles /\ "pos" \in DOMAIN handles[In]
      BY <2>0, DataInput DEF InputsKept
    <3>2. handles'[In].pos = DataOffset(l.file)
      BY <2>1, <3>1
    <3>3. In' = In /\ DataOffset(l.file)' = DataOffset(l.file)
      BY <2>1 DEF In, DataOffset
    <3> QED
      BY <2>0, <2>1, <3>2, <3>3 DEF DataKept, Opening, Headers, Extracting, Unpacking
  <2>2. CASE Fails /\ Extracted("SEEK")
    BY <2>0, <2>2, ExtractedData DEF Fails
  <2> QED
    BY <1>8, <2>1, <2>2 DEF SeekData
<1>9. CASE OpenOutput
  <2>0. pc = "open output" /\ pc \in Extracting
    BY <1>9 DEF OpenOutput, Extracting
  <2>1. CASE Opens(Out, [len |-> 0]) /\ pc' = "unpack" /\ UNCHANGED <<kind, l, out>>
    <3>1. In \in DOMAIN handles \ {Out} /\ In' = In /\ DataOffset(l.file)' = DataOffset(l.file)
      BY <2>0, <2>1, DataInput DEF In, Out, DataOffset
    <3>2. handles'[In] = handles[In]
      BY <2>1, <3>1, OpensOne
    <3> QED
      BY <2>0, <2>1, <3>1, <3>2 DEF DataKept, Opening, Headers, Extracting, Unpacking
  <2>2. CASE Fails /\ Extracted("OPEN")
    BY <2>0, <2>2, ExtractedData DEF Fails
  <2> QED
    BY <1>9, <2>1, <2>2 DEF OpenOutput
<1>10. CASE DataStep
  BY <1>10, UnpackData
<1>11. CASE EndExtract
  <2>1. pc = "unpacked" /\ pc \in Extracting /\ Extracted(error) /\ failed' = failed
    BY <1>11 DEF EndExtract, Works, Extracting, Unpacking
  <2>2. ~failed' /\ l.file.sound => error = "OK" /\ out = l.file.len - DataOffset(l.file)
    BY <2>1 DEF DataKept
  <2> QED
    BY <2>1, <2>2, ExtractedData
<1>12. CASE OabStep
  <2>1. pc' \in {"idle"} \cup OabLabels
    BY <1>12 DEF OabStep, OabOpenInput, OabHeader, OabOpenBase, OabOpenOutput, OabAlloc, OabBlock,
         OabStored, OabInitLzx, OabReference, OabLzxRead, OabLzxDone, OabLzxDamaged,
         OabFreeLzx, OabPadding, OabCrc, OabOut, OabOpens, OabAt, OabRest, Goto, GoesOut, BlockDone, Ends, OabLabels
  <2> QED
    BY <2>1 DEF DataKept, OabLabels, Opening, Headers, Extracting, Unpacking
<1>13. CASE UNCHANGED vars
  BY <1>13 DEF vars, caller, system, DataKept, In, DataOffset
<1> QED
  BY <1>1, <1>2, <1>3, <1>4, <1>5, <1>6, <1>7, <1>8, <1>9, <1>10, <1>11, <1>12, <1>13 DEF Next, Step, DataStep


-----------------------------------------------------------------------------
(* The blocks of OAB files.                                                 *)

\* Within a call for an OAB file its blocks are numbers, and lie one behind the
\* other; the one that is at work is one of them.
OabBlocksAre(f, b) ==
  /\ Len(f.blocks) \in Nat /\ b \in Nat /\ HEAD \in Nat /\ f.len \in Nat /\ f.target \in Nat
  /\ f.blocks[b + 1].csize \in Nat /\ f.blocks[b + 1].dsize \in Nat /\ f.blocks[b + 1].ssize \in Nat
  /\ OabStart(f, b + 1) \in Nat /\ OabStart(f, b + 2) = OabStart(f, b + 1) + HEAD + f.blocks[b + 1].csize
  /\ BaseUsed(f, b + 1) \in Nat /\ BaseUsed(f, b + 2) = BaseUsed(f, b + 1) + f.blocks[b + 1].ssize
  /\ Decoded(f, b + 1) \in Nat /\ Decoded(f, b + 2) = Decoded(f, b + 1) + f.blocks[b + 1].dsize
  /\ OabStart(f, b + 2) <= OabStart(f, Len(f.blocks) + 1) /\ OabStart(f, Len(f.blocks) + 1) \in Nat
  /\ BaseUsed(f, b + 2) <= BaseUsed(f, Len(f.blocks) + 1) /\ BaseUsed(f, Len(f.blocks) + 1) \in Nat
  /\ Decoded(f, b + 2) <= Decoded(f, Len(f.blocks) + 1)
  /\ OabStart(f, b + 2) \in Nat /\ BaseUsed(f, b + 2) \in Nat

LEMMA OabBlocks ==
  ASSUME NEW f \in Files, f.form \in {"oab", "patch"}, NEW b \in Nat, b < Len(f.blocks)
  PROVE  OabBlocksAre(f, b)
<1> DEFINE N == Len(f.blocks)
<1>1. OabLayout(f)
  BY OabLayoutIs
<1>2. HEAD \in Nat /\ f.target \in Nat
  BY OabAssumption DEF OabAssumption
<1>3. N \in Nat
  BY <1>1 DEF OabLayout
<1>4. b + 1 \in 1 .. N /\ b + 1 \in 1 .. N + 1 /\ b + 2 \in 1 .. N + 1 /\ (b + 1) + 1 = b + 2 /\ N + 1 \in 1 .. N + 1
  BY <1>3
<1>5. /\ f.blocks[b + 1] \in BLOCK
      /\ OabStart(f, b + 2) = OabStart(f, b + 1) + HEAD + f.blocks[b + 1].csize
      /\ BaseUsed(f, b + 2) = BaseUsed(f, b + 1) + f.blocks[b + 1].ssize
      /\ Decoded(f, b + 2) = Decoded(f, b + 1) + f.blocks[b + 1].dsize
  <2>1. \A i \in 1 .. N :
          /\ f.blocks[i] \in BLOCK
          /\ OabStart(f, i + 1) = OabStart(f, i) + HEAD + f.blocks[i].csize
          /\ BaseUsed(f, i + 1) = BaseUsed(f, i) + f.blocks[i].ssize
          /\ Decoded(f, i + 1) = Decoded(f, i) + f.blocks[i].dsize
    BY <1>1 DEF OabLayout
  <2> HIDE DEF N
  <2> QED
    BY <1>4, <2>1
<1>6. \A i \in 1 .. N + 1 :
        /\ OabStart(f, i) \in Nat /\ OabStart(f, i) <= OabStart(f, N + 1)
        /\ BaseUsed(f, i) \in Nat /\ BaseUsed(f, i) <= BaseUsed(f, N + 1)
        /\ Decoded(f, i) \in Nat /\ Decoded(f, i) <= Decoded(f, N + 1)
  BY <1>1 DEF OabLayout
<1>7. f.blocks[b + 1].csize \in Nat /\ f.blocks[b + 1].dsize \in Nat /\ f.blocks[b + 1].ssize \in Nat
  BY <1>5 DEF BLOCK
<1>8. f.len \in Nat
  BY FileLen
<1> QED
  BY <1>2, <1>3, <1>4, <1>5, <1>6, <1>7, <1>8 DEF OabBlocksAre

\* What is known of the block that is at work.
LEMMA BlockAtWork ==
  ASSUME Inv, InputsKept, pc \in {"block"} \cup InBlock, l.block < Len(l.file.blocks)
  PROVE  /\ OabBlocksAre(l.file, l.block)
         /\ Block = l.file.blocks[l.block + 1]
         /\ In \in DOMAIN handles /\ handles[In].pos \in Nat /\ handles[In].file = l.file
         /\ OabFields \subseteq DOMAIN l /\ kind = "oab" /\ pc \in OabLabels
         /\ In # Base /\ l.patch \in BOOLEAN
<1>1. pc \in OabLabels /\ pc \notin {"oab open", "out"}
  BY DEF OabLabels, InBlock
<1>2. /\ OabFields \subseteq DOMAIN l /\ l.block \in Nat
      /\ l.file \in Files /\ l.file.form \in {"oab", "patch"}
  BY <1>1 DEF Inv, TargetKept
<1>3. kind = "oab"
  BY <1>1 DEF Inv, Control, Opening, Headers, Extracting, Unpacking, OabLabels
<1>4. In \in DOMAIN handles /\ handles[In].pos \in Nat /\ handles[In].file = l.file /\ l.patch \in BOOLEAN
  BY <1>1 DEF InputsKept
<1> QED
  BY <1>1, <1>2, <1>3, <1>4, OabBlocks DEF Block, In, Base

\* A sound file has a sound header, and room for all of its blocks.
SoundFile(f) ==
  LET N == Len(f.blocks) IN
  /\ f.sig
  /\ N \in Nat
  /\ f.target = Decoded(f, N + 1)
  /\ HEAD <= f.len /\ OabStart(f, N + 1) <= f.len
  /\ \A b \in Nat : b < N =>
       /\ f.blocks[b + 1].good
       /\ f.blocks[b + 1].dsize <= BlockMaxOf(f)
       /\ IF f.form = "patch" THEN f.blocks[b + 1].ssize <= BlockMaxOf(f) /\ f.blocks[b + 1].ssize <= WINDOWMAX
          ELSE f.blocks[b + 1].stored => f.blocks[b + 1].dsize = f.blocks[b + 1].csize

LEMMA SoundFileIs ==
  ASSUME NEW f \in Files, f.form \in {"oab", "patch"}, f.sound
  PROVE  SoundFile(f)
<1> DEFINE N == Len(f.blocks)
<1>1. OabSound(f)
  BY SoundAssumption DEF SoundAssumption
<1>2. OabLayout(f) /\ f.len \in Nat
  BY OabLayoutIs, FileLen
<1>3. N \in Nat /\ DOMAIN f.blocks = 1 .. N
  <2>1. f.blocks \in Seq(BLOCK)
    BY OabAssumption DEF OabAssumption
  <2> QED
    BY <2>1
<1>4. HEAD \in Nat /\ WINDOWMAX \in Nat /\ BlockMaxOf(f) \in Nat
  BY OabAssumption DEF OabAssumption, BlockMaxOf
<1>5. f.sig /\ f.target = Decoded(f, N + 1) /\ OabStart(f, N + 1) <= f.len
  BY <1>1 DEF OabSound
<1>6. HEAD <= f.len
  <2>1. 1 \in 1 .. N + 1 /\ N + 1 \in 1 .. N + 1
    BY <1>3
  <2>2. OabStart(f, 1) = HEAD /\ OabStart(f, 1) <= OabStart(f, N + 1) /\ OabStart(f, N + 1) \in Nat
    BY <1>2, <2>1 DEF OabLayout
  <2> QED
    BY <1>2, <1>4, <1>5, <2>2
<1>7. ASSUME NEW b \in Nat, b < N
      PROVE  /\ f.blocks[b + 1].good
             /\ f.blocks[b + 1].dsize <= BlockMaxOf(f)
             /\ IF f.form = "patch" THEN f.blocks[b + 1].ssize <= BlockMaxOf(f) /\ f.blocks[b + 1].ssize <= WINDOWMAX
                ELSE f.blocks[b + 1].stored => f.blocks[b + 1].dsize = f.blocks[b + 1].csize
  <2>1. b + 1 \in DOMAIN f.blocks
    BY <1>3, <1>7
  <2>2. f.blocks[b + 1].ssize \in Nat
    BY <1>7, OabBlocks DEF OabBlocksAre
  <2>3. /\ f.blocks[b + 1].good
        /\ f.blocks[b + 1].dsize <= BlockMaxOf(f)
        /\ IF f.form = "patch" THEN f.blocks[b + 1].ssize <= Least(BlockMaxOf(f), WINDOWMAX)
           ELSE f.blocks[b + 1].stored => f.blocks[b + 1].dsize = f.blocks[b + 1].csize
    BY <1>1, <2>1 DEF OabSound
  <2> QED
    BY <1>4, <2>2, <2>3 DEF Least
<1> QED
  BY <1>3, <1>5, <1>6, <1>7 DEF SoundFile

\* An intact call is one about a sound file, and the base that a patch needs.
LEMMA IntactIs ==
  ASSUME Inv, InputsKept, Intact, pc \in OabLabels
  PROVE  /\ SoundFile(l.file) /\ l.file \in Files /\ l.file.form \in {"oab", "patch"}
         /\ l.patch = (l.file.form = "patch") /\ (l.patch => l.base.right)
         /\ l.patch => BaseUsed(l.file, Len(l.file.blocks) + 1) <= l.base.len
         /\ l.base.len \in Nat
<1>1. kind = "oab"
  BY DEF Inv, Control, Opening, Headers, Extracting, Unpacking, OabLabels
<1>2. l.file \in Files /\ l.file.form \in {"oab", "patch"} /\ l.base \in Bases
  BY DEF Inv, TargetKept, InputsKept
<1>3. l.patch = (l.file.form = "patch") /\ (l.patch => l.base.right) /\ l.file.sound
  BY <1>1 DEF Intact
<1>4. l.patch => BaseUsed(l.file, Len(l.file.blocks) + 1) <= l.base.len
  BY <1>2, <1>3, SoundAssumption DEF SoundAssumption
<1>5. l.base.len \in Nat
  BY <1>2, OabAssumption DEF OabAssumption
<1> QED
  BY <1>2, <1>3, <1>4, <1>5, SoundFileIs

\* A call that is intact behind a step was so before, and nothing failed.
LEMMA IntactBefore ==
  ASSUME SameCall, pc \in OabLabels, kind = "oab", Intact', failed' = failed \/ failed' = TRUE
  PROVE  Intact /\ failed' = failed
<1>1. l'.file = l.file /\ l'.base = l.base /\ l'.patch = l.patch /\ kind' = "oab"
  BY DEF SameCall
<1>2. ~failed' /\ failed' = failed
  BY DEF Intact
<1>3. l.file.sound /\ l.patch = (l.file.form = "patch") /\ (l.patch => l.base.right)
  BY <1>1 DEF Intact
<1>4. pc # "idle"
  BY DEF OabLabels
<1> QED
  BY <1>2, <1>3, <1>4 DEF Intact

\* On the way out nothing is read any more.
LEMMA OutKept ==
  ASSUME pc' = "out", Intact' => l'.error = "OK"
  PROVE  BlocksKept'
BY DEF BlocksKept, OabPlace, InBlock, InStream

\* To fail is not to be intact.
LEMMA FailsKept ==
  ASSUME Fails, pc' = "out"
  PROVE  BlocksKept'
BY OutKept DEF Fails, Intact

\* Where the next step is to find its block.
LEMMA PlaceNext ==
  ASSUME SameCall, pc \in OabLabels, pc' \in {"block"} \cup InBlock,
         l'.target = l.file.target - Decoded(l.file, l'.block + 1),
         pc' \in InStream => l'.available \in Nat,
         pc' = "reference" => l'.available = l.file.blocks[l'.block + 1].csize,
         pc' = "stored" => l.file.blocks[l'.block + 1].dsize = l.file.blocks[l'.block + 1].csize,
         handles'[In].pos =
           OabStart(l.file, l'.block + 1)
             + (IF pc' \in InBlock THEN HEAD ELSE 0)
             + (IF pc' \in InStream THEN l.file.blocks[l'.block + 1].csize - l'.available ELSE 0),
         l.patch => handles'[Base].pos = BaseUsed(l.file, l'.block + (IF pc' \in InStream THEN 2 ELSE 1))
  PROVE  OabPlace'
<1>1. In' = In /\ Base' = Base /\ l'.file = l.file /\ l'.patch = l.patch
  BY DEF SameCall, In, Base
<1>2. pc' \notin {"oab header", "oab open", "open base", "oab output", "oab alloc", "out"}
  BY DEF InBlock
<1>3. InStream' = InStream /\ InBlock' = InBlock
  BY DEF InStream, InBlock
<1> QED
  BY <1>1, <1>2, <1>3 DEF OabPlace, Block

\* Within a call each step is about the same file, and before an intact call
\* there was one.
LEMMA WithinOab ==
  ASSUME Inv, InputsKept, BlocksKept, BlockStep
  PROVE  /\ SameCall /\ kind = "oab" /\ pc \in OabLabels /\ OabPlace /\ OabFields \subseteq DOMAIN l
         /\ Intact' => /\ Intact /\ failed' = failed /\ ~Fails /\ l.error = "OK" /\ SoundFile(l.file)
                       /\ pc \in {"free lzx", "padding"} => l.right
<1>1. SameCall
  BY SameCallSteps
<1>2. pc \in OabLabels /\ (failed' = failed \/ failed' = TRUE)
  BY DEF BlockStep, OabHeader, OabAlloc, OabBlock, OabStored, OabInitLzx, OabReference,
     OabLzxRead, OabLzxDone, OabLzxDamaged, OabFreeLzx, OabPadding, OabCrc, OabAt, OabLabels,
     Works, Fails, CannotRead, Reads
<1>3. kind = "oab"
  BY <1>2 DEF Inv, Control, Opening, Headers, Extracting, Unpacking, OabLabels
<1>4. OabPlace /\ OabFields \subseteq DOMAIN l
  BY <1>2 DEF BlocksKept, Inv, TargetKept
<1>5. ASSUME Intact'
      PROVE  /\ Intact /\ failed' = failed /\ ~Fails /\ l.error = "OK" /\ SoundFile(l.file)
             /\ pc \in {"free lzx", "padding"} => l.right
  <2>1. Intact /\ failed' = failed
    BY <1>1, <1>2, <1>3, <1>5, IntactBefore
  <2>2. ~Fails
    BY <1>5 DEF Intact, Fails
  <2>3. SoundFile(l.file)
    BY <1>2, <2>1, IntactIs
  <2> QED
    BY <1>2, <2>1, <2>2, <2>3 DEF BlocksKept, CrcAgrees
<1> QED
  BY <1>1, <1>2, <1>3, <1>4, <1>5

\* What the step leaves of the error and the CRC.
LEMMA GoesOnKept ==
  ASSUME Inv, InputsKept, BlocksKept, BlockStep, OabPlace', l'.error = l.error,
         pc' \in {"free lzx", "padding"} => l'.right = l.right /\ pc \in {"free lzx", "padding"}
  PROVE  BlocksKept'
<1>1. Intact' => l.error = "OK" /\ (pc \in {"free lzx", "padding"} => l.right)
  BY WithinOab
<1> QED
  BY <1>1 DEF BlocksKept, CrcAgrees

\* What read() of the input or the base returns, and what it moves.
LEMMA InGot ==
  ASSUME InputsKept, NEW h \in DOMAIN handles, NEW f, handles[h].file = f, f.len \in Nat, NEW n \in Nat
  PROVE  /\ Got(h, n) \in Nat /\ Got(h, n) <= n
         /\ handles[h].pos + n <= f.len => Got(h, n) = n
         /\ handles[h].pos < f.len /\ n > 0 => Got(h, n) > 0
<1>1. handles[h].file.len \in Int
  OBVIOUS
<1> QED
  BY <1>1, GotType

LEMMA InMoves ==
  ASSUME InputsKept, In \in DOMAIN handles, NEW n \in Nat, Moves(In, n)
  PROVE  /\ handles'[In].pos = handles[In].pos + n
         /\ Base \in DOMAIN handles => handles'[Base] = handles[Base]
<1>1. In # Base
  BY DEF In, Base
<1> DEFINE h == In
<1>2. h \in DOMAIN handles /\ Moves(h, n)
  OBVIOUS
<1> HIDE DEF h
<1>3. handles'[h].pos = handles[h].pos + n /\ \A x \in DOMAIN handles \ {h} : handles'[x] = handles[x]
  BY <1>2, MovesIsSame
<1> QED
  BY <1>1, <1>3 DEF h

\* The header of the file.
LEMMA HeaderPlace ==
  ASSUME Inv, InputsKept, BlocksKept, OabHeader
  PROVE  BlocksKept'
<1>1. /\ SameCall /\ kind = "oab" /\ pc \in OabLabels /\ OabPlace /\ OabFields \subseteq DOMAIN l
      /\ Intact' => Intact /\ ~Fails /\ SoundFile(l.file)
  BY WithinOab DEF BlockStep
<1>2. /\ pc = "oab header" /\ handles[In].pos = 0 /\ l.block = 0
      /\ In \in DOMAIN handles /\ handles[In].file = l.file /\ l.file \in Files /\ l.file.len \in Nat
      /\ HEAD \in Nat
  BY <1>1, FileLen, OabAssumption DEF OabHeader, OabAt, OabPlace, InputsKept, OabLabels, Inv, TargetKept, OabAssumption
<1>7. l.target = l.file.target - Decoded(l.file, l.block + 1)
  BY <1>1, <1>2 DEF OabPlace
<1>3. Got(In, HEAD) \in Nat /\ (HEAD <= l.file.len => Got(In, HEAD) = HEAD)
  <2> DEFINE h == In
             f == l.file
  <2>1. h \in DOMAIN handles /\ handles[h].file = f /\ f.len \in Nat /\ HEAD \in Nat
    BY <1>2
  <2>2. handles[h].pos = 0
    BY <1>2
  <2> HIDE DEF h, f
  <2>3. Got(h, HEAD) \in Nat /\ (handles[h].pos + HEAD <= f.len => Got(h, HEAD) = HEAD)
    BY <2>1, InGot
  <2> QED
    BY <2>1, <2>2, <2>3 DEF h, f
<1>4. CASE CannotRead(In, HEAD) /\ GoesOut("READ")
  <2>1. ASSUME Intact' PROVE FALSE
    <3>1. ~Fails /\ HEAD <= l.file.len
      BY <1>1, <2>1 DEF SoundFile
    <3>2. Got(In, HEAD) = HEAD
      BY <1>3, <3>1
    <3>3. ~(HEAD < HEAD)
      BY OabAssumption DEF OabAssumption
    <3> QED
      BY <1>4, <3>1, <3>2, <3>3 DEF CannotRead
  <2> QED
    BY <1>4, <2>1, OutKept DEF GoesOut
<1>5. CASE GoesOut("SIGNATURE") /\ ~(l.file.sig /\ (l.file.form = "patch") = l.patch)
  <2>1. ~Intact'
    BY <1>1, <1>5, IntactIs DEF SoundFile
  <2> QED
    BY <1>5, <2>1, OutKept DEF GoesOut
<1>6. CASE Reads(In, HEAD) /\ Goto(IF l.patch THEN "open base" ELSE "oab output")
  <2>1. UNCHANGED l /\ pc' \in {"open base", "oab output"} /\ (pc' = "oab output" => ~l.patch) /\ In' = In
    BY <1>6 DEF Goto, In
  <2>2. handles'[In].pos = HEAD
    <3>1. handles'[In].pos = handles[In].pos + HEAD
      BY <1>2, <1>6, InMoves DEF Reads
    <3>2. 0 + HEAD = HEAD
      BY OabAssumption DEF OabAssumption
    <3>3. handles[In].pos = 0
      BY <1>2
    <3> QED
      BY <3>1, <3>2, <3>3
  <2>3. OabPlace'
    BY <1>2, <1>7, <2>1, <2>2 DEF OabPlace, InStream, InBlock
  <2> QED
    BY <2>1, <2>3, GoesOnKept DEF BlockStep
<1> QED
  BY <1>4, <1>5, <1>6 DEF OabHeader

\* The files are opened, and are where the first block is to find them.
LEMMA OpenedPlace ==
  ASSUME Inv, InputsKept, BlocksKept, OabOpenInput \/ OabOpenBase \/ OabOpenOutput
  PROVE  BlocksKept'
<1>1. /\ pc \in {"oab open", "open base", "oab output"} /\ pc \in OabLabels /\ kind = "oab" /\ UNCHANGED kind
      /\ OabPlace /\ OabFields \subseteq DOMAIN l
  BY DEF OabOpenInput, OabOpenBase, OabOpenOutput, OabOpens, OabAt, OabRest, OabLabels, BlocksKept, Inv, TargetKept
<1>2. /\ l.block = 0
      /\ pc # "oab open" => In \in DOMAIN handles /\ handles[In].pos = HEAD
      /\ pc = "oab output" /\ l.patch => Base \in DOMAIN handles /\ handles[Base].pos = 0
      /\ l.target = l.file.target - Decoded(l.file, l.block + 1)
  BY <1>1 DEF OabPlace, InputsKept
<1>3. In # Base /\ In # Out /\ Base # Out
  BY DEF In, Base, Out
<1>4. CASE Fails /\ GoesOut("OPEN")
  BY <1>4, FailsKept DEF GoesOut
<1>5. ASSUME NEW h, NEW f, NEW next, Works, Opens(h, f), Goto(next),
             \/ pc = "oab open" /\ h = In /\ next = "oab header"
             \/ pc = "open base" /\ h = Base /\ next = "oab output"
             \/ pc = "oab output" /\ h = Out /\ next = "oab alloc"
      PROVE  BlocksKept'
  <2>1. UNCHANGED l /\ pc' = next /\ In' = In /\ Base' = Base /\ failed' = failed
    BY <1>5 DEF Goto, In, Base, Works
  <2>2. handles'[h].pos = 0 /\ \A x \in DOMAIN handles \ {h} : handles'[x] = handles[x]
    <3>1. /\ handles'[h] = [file |-> f, pos |-> 0]
          /\ \A x \in DOMAIN handles \ {h} : handles'[x] = handles[x]
      BY <1>5, OpensOne
    <3> QED
      BY <3>1
  <2>3. /\ next = "oab header" => handles'[In].pos = 0
        /\ next \in {"oab output", "oab alloc"} => handles'[In].pos = HEAD
        /\ next \in {"oab output", "oab alloc"} /\ l.patch => handles'[Base].pos = 0
    BY <1>2, <1>3, <1>5, <2>2
  <2>4. OabPlace'
    BY <1>2, <1>5, <2>1, <2>3 DEF OabPlace, InStream, InBlock
  <2>5. Intact' => Intact
    BY <1>1, <2>1 DEF Intact, OabLabels
  <2>6. pc' \notin {"free lzx", "padding"}
    BY <1>5, <2>1
  <2> QED
    BY <1>1, <2>1, <2>4, <2>5, <2>6 DEF BlocksKept
<1> QED
  BY <1>4, <1>5 DEF OabOpenInput, OabOpenBase, OabOpenOutput, OabOpens, OabAt

\* The buffer is allocated.
LEMMA AllocPlace ==
  ASSUME Inv, InputsKept, BlocksKept, OabAlloc
  PROVE  BlocksKept'
<1>1. /\ SameCall /\ kind = "oab" /\ pc \in OabLabels /\ OabPlace /\ OabFields \subseteq DOMAIN l
  BY WithinOab DEF BlockStep
<1>2. CASE Fails /\ GoesOut("NOMEMORY")
  BY <1>2, FailsKept DEF GoesOut
<1>3. CASE Goto("block")
  <2>1. /\ pc = "oab alloc" /\ UNCHANGED <<handles, l>> /\ pc' = "block"
        /\ handles[In].pos = HEAD /\ l.block = 0 /\ (l.patch => handles[Base].pos = 0)
    BY <1>1, <1>3 DEF OabAlloc, OabAt, Goto, OabPlace
  <2>6. l.target = l.file.target - Decoded(l.file, l.block + 1)
    BY <1>1, <2>1 DEF OabPlace
  <2>2. OabStart(l.file, 1) = HEAD /\ BaseUsed(l.file, 1) = 0 /\ HEAD \in Nat
    BY <1>1, OabLayoutIs, OabAssumption DEF OabLayout, Inv, TargetKept, OabAssumption
  <2>3. pc' \in {"block"} \cup InBlock /\ pc' \notin InBlock /\ pc' \notin InStream
    BY <2>1 DEF InBlock, InStream
  <2>7. l' = l /\ handles' = handles /\ l'.block = 0
    BY <2>1
  <2>8. HEAD + 0 + 0 = HEAD
    BY <2>2
  <2>9. l'.block + 1 = 1
    BY <2>7
  <2>4. handles'[In].pos = OabStart(l.file, l'.block + 1) + 0 + 0
    <3>1. handles'[In].pos = HEAD
      BY <2>1
    <3> QED
      BY <2>2, <2>8, <2>9, <3>1
  <2>5. OabPlace'
    BY <1>1, <2>1, <2>2, <2>3, <2>4, <2>6, <2>7, <2>9, PlaceNext
  <2> QED
    BY <2>1, <2>5, GoesOnKept DEF BlockStep
<1> QED
  BY <1>2, <1>3 DEF OabAlloc

\* Where the block that is at work is found, in numbers.
LEMMA BlockPlace ==
  ASSUME Inv, InputsKept, OabPlace, pc \in {"block"} \cup InBlock, l.block < Len(l.file.blocks)
  PROVE  /\ handles[In].pos =
              OabStart(l.file, l.block + 1)
                + (IF pc \in InBlock THEN HEAD ELSE 0)
                + (IF pc \in InStream THEN l.file.blocks[l.block + 1].csize - l.available ELSE 0)
         /\ l.patch => handles[Base].pos = BaseUsed(l.file, l.block + (IF pc \in InStream THEN 2 ELSE 1))
         /\ pc \in InStream => l.available \in Nat
         /\ pc = "stored" => l.file.blocks[l.block + 1].dsize = l.file.blocks[l.block + 1].csize
         /\ pc = "reference" => l.available = l.file.blocks[l.block + 1].csize
         /\ l.target = l.file.target - Decoded(l.file, l.block + 1)
<1>1. pc # "out"
  BY DEF InBlock
<1> QED
  BY <1>1, BlockAtWork DEF OabPlace

\* A sound file has all of a block, and its target takes what the block makes.
LEMMA SoundBlock ==
  ASSUME NEW f, NEW b, OabBlocksAre(f, b), SoundFile(f)
  PROVE  /\ OabStart(f, b + 1) + HEAD <= f.len
         /\ OabStart(f, b + 2) <= f.len
         /\ f.blocks[b + 1].dsize <= f.target - Decoded(f, b + 1)
<1> DEFINE N == Len(f.blocks)
           S1 == OabStart(f, b + 1)
           S2 == OabStart(f, b + 2)
           SN == OabStart(f, N + 1)
           D1 == Decoded(f, b + 1)
           D2 == Decoded(f, b + 2)
           DN == Decoded(f, N + 1)
           c == f.blocks[b + 1].csize
           d == f.blocks[b + 1].dsize
           len == f.len
           target == f.target
<1>1. /\ HEAD \in Nat /\ len \in Nat /\ target \in Nat /\ c \in Nat /\ d \in Nat
      /\ S1 \in Nat /\ SN \in Nat /\ D1 \in Nat
      /\ S2 = S1 + HEAD + c /\ D2 = D1 + d /\ S2 <= SN /\ D2 <= DN
  BY DEF OabBlocksAre
<1>2. target = DN /\ SN <= len
  BY DEF SoundFile
<1> HIDE DEF N, S1, S2, SN, D1, D2, DN, c, d, len, target
<1>3. S1 + HEAD <= len /\ S2 <= len /\ d <= target - D1
  BY <1>1, <1>2
<1> QED
  BY <1>3 DEF S1, S2, D1, d, len, target

\* Behind a sound header is a block that is not rejected.
LEMMA HeaderOfBlock ==
  ASSUME Inv, InputsKept, BlocksKept, OabBlock
  PROVE  BlocksKept'
<1>1. /\ SameCall /\ kind = "oab" /\ pc \in OabLabels /\ OabPlace /\ OabFields \subseteq DOMAIN l
      /\ Intact' => Intact /\ ~Fails /\ l.error = "OK" /\ SoundFile(l.file)
  BY WithinOab DEF BlockStep
<1>2. pc = "block"
  BY DEF OabBlock, OabAt
<1>3. CASE GoesOut("OK")
  BY <1>1, <1>3, OutKept DEF GoesOut
<1> DEFINE f == l.file
           b == l.block
           N == Len(f.blocks)
           pos == handles[In].pos
           n == Got(In, HEAD)
<1>4. b \in Nat /\ b <= N /\ f \in Files /\ f.form \in {"oab", "patch"} /\ N \in Nat /\ l.target \in Int
  <2>1. b \in Nat /\ b <= N /\ f \in Files /\ f.form \in {"oab", "patch"} /\ l.target \in Int
    BY <1>1 DEF Inv, TargetKept, Blocks
  <2> QED
    BY <2>1, OabLayoutIs DEF OabLayout
<1>5. ASSUME Intact', l.target > 0
      PROVE  b < N
  <2>1. b # N
    <3>1. ASSUME b = N PROVE FALSE
      <4>1. f.target = Decoded(f, N + 1)
        BY <1>1, <1>5 DEF SoundFile
      <4>2. l.target = f.target - Decoded(f, b + 1)
        BY <1>1, <1>2 DEF OabPlace
      <4>3. f.target \in Nat
        BY <1>4, OabAssumption DEF OabAssumption
      <4> HIDE DEF f, b, N
      <4> QED
        BY <1>5, <3>1, <4>1, <4>2, <4>3
    <3> QED
      BY <3>1
  <2> QED
    BY <1>4, <2>1
<1>6. ASSUME b < N
      PROVE  /\ OabBlocksAre(f, b) /\ Block = f.blocks[b + 1]
             /\ In \in DOMAIN handles /\ handles[In].file = f
             /\ pos = OabStart(f, b + 1)
             /\ l.patch => handles[Base].pos = BaseUsed(f, b + 1)
             /\ l.target = f.target - Decoded(f, b + 1)
  <2>1. /\ pc \notin InBlock /\ pc \notin InStream
    BY <1>2 DEF InBlock, InStream
  <2>2. /\ OabBlocksAre(f, b) /\ Block = f.blocks[b + 1]
        /\ In \in DOMAIN handles /\ handles[In].file = f
    BY <1>2, <1>6, BlockAtWork
  <2>3. /\ pos = OabStart(f, b + 1) + 0 + 0
        /\ l.patch => handles[Base].pos = BaseUsed(f, b + 1)
        /\ l.target = f.target - Decoded(f, b + 1)
    BY <1>1, <1>2, <1>6, <2>1, BlockPlace
  <2>4. OabStart(f, b + 1) + 0 + 0 = OabStart(f, b + 1)
    BY <2>2 DEF OabBlocksAre
  <2> QED
    BY <2>2, <2>3, <2>4
<1>7. ASSUME Intact', b < N
      PROVE  n = HEAD /\ ~BlockRejected(Block)
  <2>1. SoundFile(f) /\ Intact
    BY <1>1, <1>7
  <2>2. OabBlocksAre(f, b)
    BY <1>6, <1>7
  <2>3. pos + HEAD <= f.len
    <3>1. OabStart(f, b + 1) + HEAD <= f.len
      BY <2>1, <2>2, SoundBlock
    <3> QED
      BY <1>6, <1>7, <3>1
  <2>4. n = HEAD
    <3> DEFINE h == In
    <3>1. h \in DOMAIN handles /\ handles[h].file = f /\ f.len \in Nat /\ HEAD \in Nat
      BY <1>6, <1>7, <2>2 DEF OabBlocksAre
    <3>2. handles[h].pos + HEAD <= f.len
      BY <2>3
    <3> HIDE DEF h, f
    <3>3. Got(h, HEAD) = HEAD
      BY <3>1, <3>2, InGot
    <3> QED
      BY <3>3 DEF h
  <2>5. /\ Block.dsize <= BlockMax
        /\ IF f.form = "patch" THEN Block.ssize <= BlockMax
           ELSE Block.stored => Block.dsize = Block.csize
    BY <1>4, <1>6, <1>7, <2>1 DEF SoundFile, BlockMax
  <2>6. Block.dsize <= l.target
    <3>1. l.target = f.target - Decoded(f, b + 1)
      BY <1>6, <1>7
    <3>2. Block = f.blocks[b + 1]
      BY <1>6, <1>7
    <3>3. f.blocks[b + 1].dsize <= f.target - Decoded(f, b + 1)
      BY <2>1, <2>2, SoundBlock
    <3> QED
      BY <3>1, <3>2, <3>3
  <2>7. l.patch = (f.form = "patch")
    BY <1>1, <2>1, IntactIs
  <2>8. Block.dsize \in Nat /\ Block.ssize \in Nat /\ BlockMax \in Nat
    BY <1>2, <1>7, BlockSizes DEF Blocks
  <2> DEFINE d == Block.dsize
             s == Block.ssize
             most == BlockMax
             target == l.target
  <2>9. ~(d > most) /\ ~(d > target) /\ (f.form = "patch" => ~(s > most))
    <3>1. /\ d \in Nat /\ s \in Nat /\ most \in Nat /\ target \in Int
          /\ d <= most /\ d <= target /\ (f.form = "patch" => s <= most)
      BY <1>4, <2>5, <2>6, <2>8
    <3> HIDE DEF d, s, most, target
    <3> QED
      BY <3>1
  <2> QED
    BY <2>4, <2>5, <2>7, <2>9 DEF BlockRejected
<1>8. CASE l.target > 0 /\ CannotRead(In, HEAD) /\ GoesOut("READ")
  <2>1. ASSUME Intact' PROVE FALSE
    <3>1. n = HEAD
      BY <1>5, <1>7, <1>8, <2>1
    <3>2. ~(HEAD < HEAD)
      BY OabAssumption DEF OabAssumption
    <3> QED
      BY <1>1, <1>8, <2>1, <3>1, <3>2 DEF CannotRead
  <2> QED
    BY <1>8, <2>1, OutKept DEF GoesOut
<1>9. CASE b < N /\ BlockRejected(Block) /\ GoesOut("DATAFORMAT")
  BY <1>7, <1>9, OutKept DEF GoesOut
<1>10. CASE /\ b < N /\ ~BlockRejected(Block) /\ Reads(In, HEAD)
            /\ Goto(IF Block.stored /\ ~l.patch THEN "stored" ELSE "init lzx")
  <2>1. /\ UNCHANGED l /\ pc' \in {"stored", "init lzx"}
        /\ pc' = "stored" => Block.stored /\ ~l.patch
    BY <1>10 DEF Goto
  <2>2. pc' \in InBlock /\ pc' \notin InStream
    BY <2>1 DEF InBlock, InStream
  <2>3. HEAD \in Nat /\ OabStart(f, b + 1) \in Nat
    BY <1>6, <1>10 DEF OabBlocksAre
  <2>4. /\ handles'[In].pos = pos + HEAD
        /\ l.patch => handles'[Base].pos = handles[Base].pos
    <3>1. l.patch => Base \in DOMAIN handles
      BY <1>1, <1>2 DEF InputsKept
    <3> QED
      BY <1>6, <1>10, <2>3, <3>1, InMoves DEF Reads
  <2>5. handles'[In].pos = OabStart(f, b + 1) + HEAD + 0
    <3>1. OabStart(f, b + 1) + HEAD + 0 = OabStart(f, b + 1) + HEAD
      BY <2>3
    <3> QED
      BY <1>6, <1>10, <2>4, <3>1
  <2>6. pc' = "stored" => f.blocks[b + 1].dsize = f.blocks[b + 1].csize
    BY <1>6, <1>10, <2>1 DEF BlockRejected
  <2>7. OabPlace'
    <3>1. l' = l
      BY <2>1
    <3>2. /\ l.patch => handles'[Base].pos = BaseUsed(f, b + 1)
          /\ l.target = f.target - Decoded(f, b + 1)
      BY <1>6, <1>10, <2>4
    <3>3. pc' # "reference"
      BY <2>1
    <3> QED
      BY <1>1, <2>2, <2>5, <2>6, <3>1, <3>2, <3>3, PlaceNext
  <2> QED
    BY <2>1, <2>7, GoesOnKept DEF BlockStep
<1> QED
  BY <1>3, <1>8, <1>9, <1>10 DEF OabBlock

\* What is known within a block, before its data are read and then.
WithinBlock(f, b) ==
  /\ SameCall /\ kind = "oab" /\ pc \in OabLabels /\ OabPlace /\ OabFields \subseteq DOMAIN l
  /\ f \in Files /\ f.form \in {"oab", "patch"} /\ b < Len(f.blocks)
  /\ OabBlocksAre(f, b) /\ Block = f.blocks[b + 1] /\ BlockMax \in Nat
  /\ In \in DOMAIN handles /\ handles[In].file = f /\ f.len \in Nat
  /\ l.patch => Base \in DOMAIN handles /\ handles[Base].file = l.base
  /\ l.target = f.target - Decoded(f, b + 1)
  /\ Intact' => /\ Intact /\ ~Fails /\ l.error = "OK" /\ SoundFile(f)
                /\ pc \in {"free lzx", "padding"} => l.right
AtData(f, b) ==
  /\ handles[In].pos = OabStart(f, b + 1) + HEAD
  /\ l.patch => handles[Base].pos = BaseUsed(f, b + 1)
AtStream(f, b) ==
  /\ l.available \in Nat
  /\ handles[In].pos = OabStart(f, b + 2) - l.available
  /\ l.patch => handles[Base].pos = BaseUsed(f, b + 2)

LEMMA WithinBlockIs ==
  ASSUME Inv, InputsKept, BlocksKept, BlockStep, pc \in InBlock
  PROVE  /\ WithinBlock(l.file, l.block)
         /\ pc \in {"stored", "init lzx", "reference"} => AtData(l.file, l.block)
         /\ pc \in InStream => AtStream(l.file, l.block)
         /\ pc = "stored" => Block.dsize = Block.csize /\ ~l.patch
         /\ pc = "reference" => l.available = Block.csize /\ l.patch
<1> DEFINE f == l.file
           b == l.block
<1>1. /\ SameCall /\ kind = "oab" /\ pc \in OabLabels /\ OabPlace /\ OabFields \subseteq DOMAIN l
      /\ Intact' => /\ Intact /\ ~Fails /\ l.error = "OK" /\ SoundFile(f)
                    /\ pc \in {"free lzx", "padding"} => l.right
  BY WithinOab
<1>2. /\ f \in Files /\ f.form \in {"oab", "patch"} /\ b < Len(f.blocks)
      /\ pc = "stored" => ~l.patch
  BY <1>1 DEF Inv, TargetKept, Blocks
<1>3. /\ OabBlocksAre(f, b) /\ Block = f.blocks[b + 1]
      /\ In \in DOMAIN handles /\ handles[In].file = f
  BY <1>2, BlockAtWork
<1>4. BlockMax \in Nat
  BY <1>2, BlockSizes DEF Blocks
<1>5. /\ l.patch => Base \in DOMAIN handles /\ handles[Base].file = l.base
      /\ pc = "reference" => l.patch
  BY <1>1 DEF InputsKept
<1>6. /\ handles[In].pos =
           OabStart(f, b + 1) + HEAD + (IF pc \in InStream THEN f.blocks[b + 1].csize - l.available ELSE 0)
      /\ l.patch => handles[Base].pos = BaseUsed(f, b + (IF pc \in InStream THEN 2 ELSE 1))
      /\ pc \in InStream => l.available \in Nat
      /\ pc = "stored" => f.blocks[b + 1].dsize = f.blocks[b + 1].csize
      /\ pc = "reference" => l.available = f.blocks[b + 1].csize
      /\ l.target = f.target - Decoded(f, b + 1)
  BY <1>1, <1>2, BlockPlace
<1>7. WithinBlock(f, b)
  BY <1>1, <1>2, <1>3, <1>4, <1>5, <1>6 DEF WithinBlock, OabBlocksAre
<1>8. ASSUME pc \in {"stored", "init lzx", "reference"} PROVE AtData(f, b)
  <2>1. pc \notin InStream
    BY <1>8 DEF InStream
  <2>2. OabStart(f, b + 1) + HEAD + 0 = OabStart(f, b + 1) + HEAD
    BY <1>3 DEF OabBlocksAre
  <2> QED
    BY <1>6, <2>1, <2>2 DEF AtData
<1>9. ASSUME pc \in InStream PROVE AtStream(f, b)
  <2> DEFINE S1 == OabStart(f, b + 1)
             S2 == OabStart(f, b + 2)
             c == f.blocks[b + 1].csize
             a == l.available
  <2>1. S1 \in Nat /\ HEAD \in Nat /\ c \in Nat /\ S2 = S1 + HEAD + c /\ a \in Nat
    BY <1>3, <1>6, <1>9 DEF OabBlocksAre
  <2>2. S1 + HEAD + (c - a) = S2 - a
    <3> HIDE DEF S1, S2, c, a
    <3> QED
      BY <2>1
  <2> QED
    BY <1>6, <1>9, <2>1, <2>2 DEF AtStream
<1> QED
  BY <1>3, <1>5, <1>6, <1>7, <1>8, <1>9, <1>2

\* The step stays in the stream, or begins the next block.
LEMMA StreamNext ==
  ASSUME NEW f, NEW b, f = l.file, b = l.block, WithinBlock(f, b), pc' \in InStream,
         l'.block = b, l'.target = l.target, l'.available \in Nat,
         handles'[In].pos = OabStart(f, b + 2) - l'.available,
         l.patch => handles'[Base].pos = BaseUsed(f, b + 2)
  PROVE  OabPlace'
<1>1. /\ pc' \in InBlock /\ pc' \notin {"stored", "reference"}
  BY DEF InBlock, InStream
<1> DEFINE S1 == OabStart(f, b + 1)
           S2 == OabStart(f, b + 2)
           c == f.blocks[b + 1].csize
           a == l'.available
<1>2. S1 \in Nat /\ HEAD \in Nat /\ c \in Nat /\ S2 = S1 + HEAD + c /\ a \in Nat
  BY DEF WithinBlock, OabBlocksAre
<1>3. S1 + HEAD + (c - a) = S2 - a
  <2> HIDE DEF S1, S2, c, a
  <2> QED
    BY <1>2
<1>4. l.target = f.target - Decoded(f, b + 1) /\ SameCall /\ pc \in OabLabels
  BY DEF WithinBlock
<1>5. handles'[In].pos = OabStart(f, b + 1) + HEAD + (f.blocks[b + 1].csize - l'.available)
  BY <1>3
<1> QED
  BY <1>1, <1>4, <1>5, PlaceNext

LEMMA BlockNext ==
  ASSUME NEW f, NEW b, f = l.file, b = l.block, WithinBlock(f, b), BlockDone,
         handles'[In].pos = OabStart(f, b + 2),
         l.patch => handles'[Base].pos = BaseUsed(f, b + 2)
  PROVE  OabPlace' /\ l'.error = l.error /\ pc' = "block"
<1>1. /\ pc' = "block" /\ pc' \notin InBlock /\ pc' \notin InStream
  BY DEF BlockDone, InBlock, InStream
<1>2. b \in Nat /\ OabStart(f, b + 2) \in Int
  <2>1. OabBlocksAre(f, b)
    BY DEF WithinBlock
  <2>2. b \in Nat /\ OabStart(f, b + 2) \in Nat
    BY <2>1 DEF OabBlocksAre
  <2> QED
    BY <2>2
<1>3. l'.target = l.target - Block.dsize /\ l'.block = l.block + 1 /\ l'.error = l.error
  BY DEF BlockDone, WithinBlock, OabFields
<1>4. (b + 1) + 1 = b + 2
  BY <1>2
<1>5. l'.target = f.target - Decoded(f, b + 2)
  <2> DEFINE D1 == Decoded(f, b + 1)
             D2 == Decoded(f, b + 2)
             d == f.blocks[b + 1].dsize
             t == f.target
  <2>1. D1 \in Nat /\ d \in Nat /\ D2 = D1 + d /\ t \in Nat
    BY DEF WithinBlock, OabBlocksAre
  <2>2. (t - D1) - d = t - D2
    <3> HIDE DEF D1, D2, d, t
    <3> QED
      BY <2>1
  <2>3. l.target = f.target - Decoded(f, b + 1) /\ Block = f.blocks[b + 1]
    BY DEF WithinBlock
  <2> QED
    BY <1>3, <2>2, <2>3
<1>6. SameCall /\ pc \in OabLabels
  BY DEF WithinBlock
<1>7. handles'[In].pos = OabStart(f, b + 2) + 0 + 0
  BY <1>2
<1>8. OabPlace'
  BY <1>1, <1>3, <1>4, <1>5, <1>6, <1>7, PlaceNext
<1> QED
  BY <1>1, <1>3, <1>8

\* What an intact block can read is there.
LEMMA IntactReads ==
  ASSUME InputsKept, NEW f, NEW b, WithinBlock(f, b), Intact', NEW n \in Nat
  PROVE  /\ handles[In].pos + n <= OabStart(f, b + 2) => Got(In, n) = n
         /\ handles[In].pos < OabStart(f, b + 2) /\ n > 0 => Got(In, n) > 0
<1> DEFINE h == In
           S2 == OabStart(f, b + 2)
           len == f.len
           pos == handles[In].pos
<1>1. h \in DOMAIN handles /\ handles[h].file = f /\ f.len \in Nat /\ SoundFile(f) /\ OabBlocksAre(f, b)
  BY DEF WithinBlock
<1>2. S2 <= len /\ S2 \in Int /\ len \in Nat /\ pos \in Nat
  <2>1. S2 <= len
    BY <1>1, SoundBlock
  <2>2. S2 \in Nat
    BY <1>1 DEF OabBlocksAre
  <2>3. pos \in Nat
    BY <1>1 DEF InputsKept
  <2> QED
    BY <1>1, <2>1, <2>2, <2>3
<1>3. (pos + n <= S2 => pos + n <= len) /\ (pos < S2 => pos < len)
  <2> HIDE DEF S2, len, pos
  <2> QED
    BY <1>2
<1>4. /\ handles[h].pos + n <= len => Got(h, n) = n
      /\ handles[h].pos < len /\ n > 0 => Got(h, n) > 0
  <2> HIDE DEF h
  <2> QED
    BY <1>1, InGot
<1> QED
  BY <1>3, <1>4

\* The data of a block end where the next one begins.
LEMMA BlockSums ==
  ASSUME NEW f, NEW b, OabBlocksAre(f, b), Block = f.blocks[b + 1]
  PROVE  /\ OabStart(f, b + 1) + HEAD = OabStart(f, b + 2) - Block.csize
         /\ Block.csize \in Nat /\ Block.dsize \in Nat /\ Block.ssize \in Nat
         /\ BaseUsed(f, b + 1) \in Nat /\ BaseUsed(f, b + 2) = BaseUsed(f, b + 1) + Block.ssize
<1> DEFINE S1 == OabStart(f, b + 1)
           S2 == OabStart(f, b + 2)
           c == f.blocks[b + 1].csize
<1>1. /\ S1 \in Nat /\ HEAD \in Nat /\ c \in Nat /\ S2 = S1 + HEAD + c
      /\ f.blocks[b + 1].dsize \in Nat /\ f.blocks[b + 1].ssize \in Nat
      /\ BaseUsed(f, b + 1) \in Nat /\ BaseUsed(f, b + 2) = BaseUsed(f, b + 1) + f.blocks[b + 1].ssize
  BY DEF OabBlocksAre
<1>2. S1 + HEAD = S2 - c
  <2> HIDE DEF S1, S2, c
  <2> QED
    BY <1>1
<1> QED
  BY <1>1, <1>2

\* An uncompressed block is read to its end.
LEMMA StoredPlace ==
  ASSUME Inv, InputsKept, BlocksKept, OabStored
  PROVE  BlocksKept'
<1> DEFINE f == l.file
           b == l.block
<1>1. /\ WithinBlock(f, b) /\ AtData(f, b) /\ Block.dsize = Block.csize /\ ~l.patch /\ BlockStep
  BY WithinBlockIs DEF BlockStep, OabStored, OabAt, InBlock
<1> HIDE DEF f, b
<1>2. handles[In].pos + Block.dsize = OabStart(f, b + 2) /\ Block.dsize \in Nat
  <2>1. OabBlocksAre(f, b) /\ Block = f.blocks[b + 1] /\ handles[In].pos = OabStart(f, b + 1) + HEAD
    BY <1>1 DEF WithinBlock, AtData
  <2> DEFINE S1 == OabStart(f, b + 1)
             S2 == OabStart(f, b + 2)
             c == f.blocks[b + 1].csize
  <2>2. S2 = S1 + HEAD + c /\ c \in Nat /\ Block.dsize = c
    BY <1>1, <2>1 DEF OabBlocksAre
  <2> QED
    BY <2>1, <2>2
<1> DEFINE n == Block.dsize
<1>3. CASE CannotRead(In, n) /\ GoesOut("READ")
  <2>1. ASSUME Intact' PROVE FALSE
    <3> HIDE DEF n
    <3>1. n \in Nat /\ handles[In].pos + n = OabStart(f, b + 2) /\ OabStart(f, b + 2) \in Nat
      BY <1>1, <1>2 DEF n, WithinBlock, OabBlocksAre
    <3>2. Got(In, n) = n
      BY <1>1, <2>1, <3>1, IntactReads
    <3>3. ~Fails
      BY <1>1, <2>1 DEF WithinBlock
    <3> QED
      BY <1>3, <3>1, <3>2, <3>3 DEF CannotRead
  <2> QED
    BY <1>3, <2>1, OutKept DEF GoesOut
<1>4. CASE Fails /\ GoesOut("WRITE")
  BY <1>4, FailsKept DEF GoesOut
<1>5. CASE Reads(In, n) /\ BlockDone
  <2>1. handles'[In].pos = handles[In].pos + n
    BY <1>1, <1>2, <1>5, InMoves DEF Reads, WithinBlock
  <2>2. OabPlace' /\ l'.error = l.error /\ pc' = "block"
    BY <1>1, <1>2, <1>5, <2>1, BlockNext DEF f, b
  <2> QED
    BY <1>1, <2>2, GoesOnKept
<1> QED
  BY <1>3, <1>4, <1>5 DEF OabStored

\* The stream of a block begins behind its header.
LEMMA InitPlace ==
  ASSUME Inv, InputsKept, BlocksKept, OabInitLzx
  PROVE  BlocksKept'
<1> DEFINE f == l.file
           b == l.block
<1>1. /\ WithinBlock(f, b) /\ AtData(f, b) /\ BlockStep
  BY WithinBlockIs DEF BlockStep, OabInitLzx, OabAt, InBlock
<1>2. CASE Fails /\ GoesOut("NOMEMORY")
  BY <1>2, FailsKept DEF GoesOut
<1>3. CASE l' = [l EXCEPT !.available = Block.csize] /\ pc' = IF l.patch THEN "reference" ELSE "lzx"
  <2>1. UNCHANGED handles
    BY DEF OabInitLzx
  <2>2. /\ l'.available = Block.csize /\ l'.block = b /\ l'.target = l.target /\ l'.error = l.error
    BY <1>1, <1>3 DEF WithinBlock, OabFields
  <2>3. OabBlocksAre(f, b) /\ Block = f.blocks[b + 1] /\ l.target = f.target - Decoded(f, b + 1) /\ SameCall /\ pc \in OabLabels
    BY <1>1 DEF WithinBlock
  <2>4. /\ handles'[In].pos = OabStart(f, b + 1) + HEAD
        /\ l.patch => handles'[Base].pos = BaseUsed(f, b + 1)
    BY <1>1, <2>1 DEF AtData
  <2>5. OabPlace'
    <3>1. CASE l.patch
      <4>1. pc' = "reference" /\ pc' \in InBlock /\ pc' \notin InStream
        BY <1>3, <3>1 DEF InBlock, InStream
      <4>2. OabStart(f, b + 1) + HEAD + 0 = OabStart(f, b + 1) + HEAD
        BY <2>3 DEF OabBlocksAre
      <4> QED
        BY <2>2, <2>3, <2>4, <4>1, <4>2, PlaceNext
    <3>2. CASE ~l.patch
      <4>1. pc' = "lzx" /\ pc' \in InStream
        BY <1>3, <3>2 DEF InStream
      <4>2. OabStart(f, b + 1) + HEAD = OabStart(f, b + 2) - Block.csize /\ Block.csize \in Nat
        BY <2>3, BlockSums
      <4>3. handles'[In].pos = OabStart(f, b + 2) - l'.available /\ l'.available \in Nat
        BY <2>2, <2>4, <4>2
      <4> QED
        BY <1>1, <2>2, <3>2, <4>1, <4>3, StreamNext
    <3> QED
      BY <3>1, <3>2
  <2>6. pc' \notin {"free lzx", "padding"}
    BY <1>3
  <2> QED
    BY <1>1, <2>2, <2>5, <2>6, GoesOnKept
<1> QED
  BY <1>2, <1>3 DEF OabInitLzx

\* The part of the base that the block refers to is read.
LEMMA ReferencePlace ==
  ASSUME Inv, InputsKept, BlocksKept, OabReference
  PROVE  BlocksKept'
<1> DEFINE f == l.file
           b == l.block
           s == Block.ssize
<1>1. /\ WithinBlock(f, b) /\ AtData(f, b) /\ l.available = Block.csize /\ l.patch /\ BlockStep
  BY WithinBlockIs DEF BlockStep, OabReference, OabAt, InBlock
<1>2. /\ OabBlocksAre(f, b) /\ Block = f.blocks[b + 1] /\ l.target = f.target - Decoded(f, b + 1)
      /\ SameCall /\ pc \in OabLabels /\ In \in DOMAIN handles /\ Base \in DOMAIN handles /\ handles[Base].file = l.base
      /\ Intact' => Intact /\ ~Fails /\ SoundFile(f)
  BY <1>1 DEF WithinBlock
<1>3. /\ handles[In].pos = OabStart(f, b + 1) + HEAD
      /\ handles[Base].pos = BaseUsed(f, b + 1)
      /\ OabStart(f, b + 1) + HEAD = OabStart(f, b + 2) - Block.csize /\ Block.csize \in Nat
      /\ s \in Nat /\ BaseUsed(f, b + 1) \in Nat /\ BaseUsed(f, b + 2) = BaseUsed(f, b + 1) + s
  BY <1>1, <1>2, BlockSums DEF AtData
<1>4. ASSUME Intact'
      PROVE  s <= WINDOWMAX /\ Got(Base, s) = s /\ ~Fails
  <2>1. /\ SoundFile(f) /\ f.form = "patch" /\ BaseUsed(f, Len(f.blocks) + 1) <= l.base.len
        /\ l.base.len \in Nat
    BY <1>1, <1>2, <1>4, IntactIs
  <2>2. b \in Nat /\ b < Len(f.blocks)
    BY <1>1, <1>2 DEF WithinBlock, OabBlocksAre
  <2>3. s <= WINDOWMAX
    BY <1>2, <2>1, <2>2 DEF SoundFile
  <2>4. BaseUsed(f, b + 2) <= BaseUsed(f, Len(f.blocks) + 1) /\ BaseUsed(f, Len(f.blocks) + 1) \in Nat /\ BaseUsed(f, b + 2) \in Nat
    BY <1>2 DEF OabBlocksAre
  <2> DEFINE h == Base
             len == l.base.len
             U2 == BaseUsed(f, b + 2)
             UN == BaseUsed(f, Len(f.blocks) + 1)
  <2>5. U2 <= len
    <3>1. U2 \in Nat /\ UN \in Nat /\ len \in Nat /\ U2 <= UN /\ UN <= len
      BY <2>1, <2>4
    <3> HIDE DEF U2, UN, len
    <3> QED
      BY <3>1
  <2>6. handles[h].pos + s = U2
    BY <1>3
  <2>7. h \in DOMAIN handles /\ handles[h].file = l.base /\ l.base.len \in Nat
    BY <1>2, <2>1
  <2>8. handles[h].pos + s <= l.base.len
    BY <2>5, <2>6
  <2> HIDE DEF h, s
  <2>9. Got(h, s) = s
    BY <1>3, <2>7, <2>8, InGot
  <2> QED
    BY <1>2, <1>4, <2>3, <2>9 DEF h
<1>5. CASE s > WINDOWMAX /\ GoesOut("ARGS")
  <2>1. ~Intact'
    BY <1>3, <1>4, <1>5, OabAssumption DEF OabAssumption
  <2> QED
    BY <1>5, <2>1, OutKept DEF GoesOut
<1>6. CASE CannotRead(Base, s) /\ GoesOut("READ")
  <2>1. ~(s < s)
    BY <1>3
  <2>2. ~Intact'
    BY <1>4, <1>6, <2>1 DEF CannotRead
  <2> QED
    BY <1>6, <2>2, OutKept DEF GoesOut
<1>7. CASE Reads(Base, s) /\ Goto("lzx")
  <2>1. l' = l /\ pc' = "lzx" /\ pc' \in InStream
    BY <1>7 DEF Goto, InStream
  <2>2. /\ handles'[Base].pos = handles[Base].pos + s
        /\ handles'[In] = handles[In]
    <3> DEFINE h == Base
    <3>1. h \in DOMAIN handles /\ Moves(h, s) /\ s \in Nat /\ In \in DOMAIN handles \ {h}
      BY <1>2, <1>3, <1>7 DEF Reads, In, Base
    <3> HIDE DEF h, s
    <3>2. handles'[h].pos = handles[h].pos + s /\ \A x \in DOMAIN handles \ {h} : handles'[x] = handles[x]
      BY <3>1, MovesIsSame
    <3> QED
      BY <3>1, <3>2 DEF h
  <2>3. /\ handles'[In].pos = OabStart(f, b + 2) - l'.available /\ l'.available \in Nat
        /\ handles'[Base].pos = BaseUsed(f, b + 2)
    BY <1>1, <1>3, <2>1, <2>2
  <2>4. OabPlace'
    BY <1>1, <2>1, <2>3, StreamNext
  <2>5. pc' \notin {"free lzx", "padding"} /\ l'.error = l.error
    BY <2>1
  <2> QED
    BY <1>1, <2>4, <2>5, GoesOnKept
<1> QED
  BY <1>5, <1>6, <1>7 DEF OabReference

\* What is read of the stream or its padding is no more available.
LEMMA StreamReads ==
  ASSUME Inv, InputsKept, NEW f, NEW b, f = l.file, b = l.block, WithinBlock(f, b), AtStream(f, b), BlockStep, BlocksKept,
         pc \in InStream, NEW most \in Nat, NEW n, n = Got(In, Least(most, l.available)),
         Moves(In, n), l' = [l EXCEPT !.available = @ - n], UNCHANGED pc
  PROVE  BlocksKept'
<1> DEFINE a == l.available
           m == Least(most, l.available)
<1>1. /\ a \in Nat /\ handles[In].pos = OabStart(f, b + 2) - a
      /\ l.patch => handles[Base].pos = BaseUsed(f, b + 2)
  BY DEF AtStream
<1>2. m \in Nat /\ m <= a
  BY <1>1 DEF Least
<1>3. /\ In \in DOMAIN handles /\ handles[In].file = f /\ f.len \in Nat /\ OabFields \subseteq DOMAIN l
      /\ l.patch => Base \in DOMAIN handles
      /\ OabStart(f, b + 2) \in Nat
  BY DEF WithinBlock, OabBlocksAre
<1>4. n \in Nat /\ n <= a
  <2> DEFINE h == In
  <2>1. h \in DOMAIN handles /\ handles[h].file = f /\ n = Got(h, m)
    BY <1>3
  <2> HIDE DEF h, m
  <2>2. Got(h, m) \in Nat /\ Got(h, m) <= m
    BY <1>2, <1>3, <2>1, InGot
  <2> HIDE DEF a
  <2> QED
    BY <1>1, <1>2, <2>1, <2>2
<1>5. /\ handles'[In].pos = handles[In].pos + n
      /\ Base \in DOMAIN handles => handles'[Base] = handles[Base]
  BY <1>3, <1>4, InMoves
<1>6. /\ l'.available = a - n /\ l'.block = b /\ l'.target = l.target /\ l'.error = l.error /\ l'.right = l.right
  BY <1>3 DEF OabFields
<1>7. handles'[In].pos = OabStart(f, b + 2) - l'.available /\ l'.available \in Nat
  <2> DEFINE S2 == OabStart(f, b + 2)
  <2>1. S2 \in Nat /\ handles[In].pos = S2 - a
    BY <1>1, <1>3
  <2>2. (S2 - a) + n = S2 - (a - n) /\ a - n \in Nat
    <3> HIDE DEF S2, a
    <3> QED
      BY <1>1, <1>4, <2>1
  <2> QED
    BY <1>5, <1>6, <2>1, <2>2
<1>8. OabPlace'
  BY <1>1, <1>3, <1>5, <1>6, <1>7, StreamNext
<1> QED
  BY <1>6, <1>8, GoesOnKept

LEMMA LzxReadPlace ==
  ASSUME Inv, InputsKept, BlocksKept, OabLzxRead
  PROVE  BlocksKept'
<1> DEFINE f == l.file
           b == l.block
           n == Got(In, Least(CHUNK, l.available))
<1>1. /\ WithinBlock(f, b) /\ AtStream(f, b) /\ BlockStep /\ pc \in InStream
  BY WithinBlockIs DEF BlockStep, OabLzxRead, OabAt, InBlock, InStream
<1>2. CASE Fails /\ GoesOut("READ")
  BY <1>2, FailsKept DEF GoesOut
<1>3. CASE n = 0 /\ GoesOut("READ")
  <2>1. ASSUME Intact' PROVE FALSE
    <3> DEFINE m == Least(CHUNK, l.available)
    <3>1. l.available \in Nat /\ l.available > 0 /\ CHUNK \in Nat /\ CHUNK > 0
      BY <1>1, PackedFileAssumption DEF AtStream, OabLzxRead, PackedFileAssumption
    <3>2. m \in Nat /\ m > 0
      BY <3>1 DEF Least
    <3>3. handles[In].pos < OabStart(f, b + 2)
      <4> DEFINE S2 == OabStart(f, b + 2)
                 a == l.available
      <4>1. OabBlocksAre(f, b)
        BY <1>1 DEF WithinBlock
      <4>2. S2 \in Nat /\ handles[In].pos = S2 - a
        BY <1>1, <4>1 DEF AtStream, OabBlocksAre
      <4>3. S2 - a < S2
        <5> HIDE DEF S2, a
        <5>1. a \in Nat /\ a > 0
          BY <3>1 DEF a
        <5> QED
          BY <4>2, <5>1
      <4> QED
        BY <4>2, <4>3
    <3> HIDE DEF f, b, m
    <3>4. Got(In, m) > 0
      BY <1>1, <2>1, <3>2, <3>3, IntactReads
    <3> QED
      BY <1>3, <3>4 DEF m
  <2> QED
    BY <1>3, <2>1, OutKept DEF GoesOut
<1>4. CASE Moves(In, n) /\ l' = [l EXCEPT !.available = @ - n] /\ UNCHANGED pc
  <2>1. CHUNK \in Nat
    BY PackedFileAssumption DEF PackedFileAssumption
  <2> HIDE DEF n
  <2> QED
    BY <1>1, <1>4, <2>1, StreamReads DEF n
<1> QED
  BY <1>2, <1>3, <1>4 DEF OabLzxRead

LEMMA PaddingPlace ==
  ASSUME Inv, InputsKept, BlocksKept, OabPadding
  PROVE  BlocksKept'
<1> DEFINE f == l.file
           b == l.block
           n == Got(In, Least(BlockMax, l.available))
<1>1. /\ WithinBlock(f, b) /\ AtStream(f, b) /\ BlockStep /\ pc \in InStream
  BY WithinBlockIs DEF BlockStep, OabPadding, OabAt, InBlock, InStream
<1>2. CASE Fails /\ GoesOut("READ")
  BY <1>2, FailsKept DEF GoesOut
<1>3. CASE Moves(In, n) /\ l' = [l EXCEPT !.available = @ - n] /\ UNCHANGED pc
  <2>1. BlockMax \in Nat
    BY <1>1 DEF WithinBlock
  <2> HIDE DEF n
  <2> QED
    BY <1>1, <1>3, <2>1, StreamReads DEF n
<1> QED
  BY <1>2, <1>3 DEF OabPadding

\* The stream ends.
LEMMA StreamEnds ==
  ASSUME Inv, InputsKept, BlocksKept, OabLzxDone \/ OabLzxDamaged \/ OabFreeLzx
  PROVE  BlocksKept'
<1> DEFINE f == l.file
           b == l.block
<1>1. /\ WithinBlock(f, b) /\ AtStream(f, b) /\ BlockStep /\ pc \in InStream /\ UNCHANGED handles
  BY WithinBlockIs DEF BlockStep, OabLzxDone, OabLzxDamaged, OabFreeLzx, OabAt, InBlock, InStream, system
<1>2. Intact' => Block.good /\ Intact
  <2>1. b \in Nat /\ b < Len(f.blocks) /\ Block = f.blocks[b + 1]
    BY <1>1 DEF WithinBlock, OabBlocksAre
  <2>2. Intact' => SoundFile(f) /\ Intact
    BY <1>1 DEF WithinBlock
  <2>3. SoundFile(f) => Block.good
    BY <2>1 DEF SoundFile
  <2> QED
    BY <2>2, <2>3
<1>3. ASSUME UNCHANGED <<handles>>, pc' \in InStream, l'.block = b, l'.target = l.target, l'.available = l.available
      PROVE  OabPlace'
  BY <1>1, <1>3, StreamNext DEF AtStream
<1>4. CASE OabLzxDone
  <2>1. CASE l' = [l EXCEPT !.right = Block.good /\ (l.patch => l.base.right)] /\ pc' = "free lzx"
    <3>1. /\ l'.block = b /\ l'.target = l.target /\ l'.available = l.available /\ l'.error = l.error
          /\ l'.right = (Block.good /\ (l.patch => l.base.right))
      BY <1>1, <2>1 DEF WithinBlock, OabFields
    <3>2. OabPlace'
      BY <1>1, <1>3, <2>1, <3>1 DEF InStream
    <3>3. Intact' => l'.right /\ l'.error = "OK"
      <4>1. Intact' => Block.good /\ (l.patch => l.base.right)
        BY <1>1, <1>2, IntactIs DEF WithinBlock
      <4>2. Intact' => l.error = "OK"
        BY <1>1 DEF WithinBlock
      <4> QED
        BY <3>1, <4>1, <4>2
    <3> QED
      BY <3>2, <3>3 DEF BlocksKept, CrcAgrees
  <2>2. CASE Fails /\ GoesOut("WRITE")
    BY <2>2, FailsKept DEF GoesOut
  <2> QED
    BY <1>4, <2>1, <2>2 DEF OabLzxDone
<1>5. CASE OabLzxDamaged
  <2>1. pc' = "out" /\ ~Block.good
    BY <1>5 DEF OabLzxDamaged, GoesOut
  <2> QED
    BY <1>2, <2>1, OutKept
<1>6. CASE OabFreeLzx
  <2>1. pc = "free lzx" /\ l' = l /\ pc' = "padding"
    BY <1>6 DEF OabFreeLzx, OabAt, Goto
  <2>2. OabPlace'
    BY <1>1, <1>3, <2>1 DEF InStream
  <2> QED
    BY <1>1, <2>1, <2>2, GoesOnKept
<1> QED
  BY <1>4, <1>5, <1>6

\* Behind the padding is the next block.
LEMMA CrcPlace ==
  ASSUME Inv, InputsKept, BlocksKept, OabCrc
  PROVE  BlocksKept'
<1> DEFINE f == l.file
           b == l.block
<1>1. /\ WithinBlock(f, b) /\ AtStream(f, b) /\ BlockStep /\ pc = "padding" /\ UNCHANGED handles /\ l.available = 0
  BY WithinBlockIs DEF BlockStep, OabCrc, OabAt, InBlock, InStream, system, PaddingDone
<1>2. CASE BlockDone
  <2>1. /\ handles'[In].pos = OabStart(f, b + 2)
        /\ l.patch => handles'[Base].pos = BaseUsed(f, b + 2)
    <3>1. OabBlocksAre(f, b)
      BY <1>1 DEF WithinBlock
    <3>2. OabStart(f, b + 2) - 0 = OabStart(f, b + 2)
      <4>1. OabStart(f, b + 2) \in Nat
        BY <3>1 DEF OabBlocksAre
      <4> QED
        BY <4>1
    <3> QED
      BY <1>1, <3>2 DEF AtStream
  <2>2. OabPlace' /\ l'.error = l.error /\ pc' = "block"
    BY <1>1, <1>2, <2>1, BlockNext
  <2> QED
    BY <1>1, <2>2, GoesOnKept
<1>3. CASE ~CrcAgrees /\ GoesOut("CHECKSUM")
  <2>1. ~Intact'
    BY <1>1, <1>3 DEF WithinBlock, CrcAgrees
  <2> QED
    BY <1>3, <2>1, OutKept DEF GoesOut
<1> QED
  BY <1>2, <1>3 DEF OabCrc

\* An OAB call begins with all of the target still to come.
LEMMA CallPlace ==
  ASSUME OabCall
  PROVE  BlocksKept'
<1>1. PICK f \in Files, base \in Bases, patch \in BOOLEAN :
        /\ f.form \in {"oab", "patch"}
        /\ l' = [n |-> 0, file |-> f, base |-> base, patch |-> patch, error |-> "OK", target |-> f.target,
                 block |-> 0, available |-> 0, right |-> TRUE]
  BY DEF OabCall
<1>2. pc' = "oab open"
  BY DEF OabCall
<1>3. l'.file = f /\ l'.target = f.target /\ l'.block = 0 /\ l'.error = "OK"
  BY <1>1
<1>4. f.target \in Nat /\ Decoded(f, 1) = 0
  <2>1. f \in Files /\ f.form \in {"oab", "patch"}
    BY <1>1
  <2> QED
    BY <2>1, OabLayoutIs, OabAssumption DEF OabLayout, OabAssumption
<1>5. l'.target = l'.file.target - Decoded(l'.file, l'.block + 1)
  <2>1. f.target - 0 = f.target
    BY <1>4
  <2>2. l'.block + 1 = 1
    BY <1>3
  <2> QED
    BY <1>3, <1>4, <2>1, <2>2
<1>6. OabPlace'
  BY <1>2, <1>3, <1>5 DEF OabPlace, InBlock, InStream
<1> QED
  BY <1>2, <1>3, <1>6 DEF BlocksKept

LEMMA BlocksStep ==
  ASSUME Inv, Inv', InputsKept, BlocksKept, [Next]_vars
  PROVE  BlocksKept'
<1>1. CASE OabCall
  BY <1>1, CallPlace
<1>2. CASE OabOpenInput \/ OabOpenBase \/ OabOpenOutput
  BY <1>2, OpenedPlace
<1>3. CASE OabHeader
  BY <1>3, HeaderPlace
<1>4. CASE OabAlloc
  BY <1>4, AllocPlace
<1>5. CASE OabBlock
  BY <1>5, HeaderOfBlock
<1>6. CASE OabStored
  BY <1>6, StoredPlace
<1>7. CASE OabInitLzx
  BY <1>7, InitPlace
<1>8. CASE OabReference
  BY <1>8, ReferencePlace
<1>9. CASE OabLzxRead
  BY <1>9, LzxReadPlace
<1>10. CASE OabLzxDone \/ OabLzxDamaged \/ OabFreeLzx
  BY <1>10, StreamEnds
<1>11. CASE OabPadding
  BY <1>11, PaddingPlace
<1>12. CASE OabCrc
  BY <1>12, CrcPlace
<1>13. CASE OabOut \/ OpenCall \/ ExtractCall \/ CloseCall
  <2>1. pc' \notin OabLabels
    BY <1>13 DEF OabOut, OpenCall, ExtractCall, CloseCall, Ends, OabLabels
  <2> QED
    BY <2>1 DEF BlocksKept
<1>14. CASE /\ Step /\ ~OabStep
  <2>1. pc \notin OabLabels \cup {"idle"} /\ kind' = kind
    BY <1>14 DEF Step, OpenInput, AllocHeader, Opened, SzddSignature, SzddLength, KwajHeaders,
       KwajSkips, KwajSignature, KwajNumber, KwajUnknown2, KwajAllocName, KwajName, KwajExtension, KwajExtra,
       KwajString, KwajAt, SzddAt, Goes, HeadersRead, SeekData, OpenOutput, Unpack, UnpackRead, UnpackWrite,
       UnpackDamaged, EndExtract, CloseWhole, Extracted, Unpacked, Ends, caller, OabLabels
  <2>2. pc' \notin OabLabels
    BY <2>1 DEF Inv, Control, Opening, Headers, Extracting, Unpacking, OabLabels
  <2> QED
    BY <2>2 DEF BlocksKept
<1>15. CASE UNCHANGED vars
  BY <1>15 DEF vars, caller, system, BlocksKept, OabPlace, Intact, CrcAgrees, In, Base, Block, InBlock, InStream
<1> QED
  BY <1>1, <1>2, <1>3, <1>4, <1>5, <1>6, <1>7, <1>8, <1>9, <1>10, <1>11, <1>12, <1>13, <1>14, <1>15
     DEF Next, OabStep

-----------------------------------------------------------------------------
Reading == Inv /\ InputsKept /\ HeadersKept /\ DataKept /\ BlocksKept

LEMMA ReadingInit == Init => Reading
<1> SUFFICES ASSUME Init PROVE Reading
  OBVIOUS
<1>1. pc \notin Opening \cup Extracting \cup OabLabels /\ pc = "idle"
  BY DEF Init, Opening, Headers, Extracting, Unpacking, OabLabels
<1>2. DOMAIN handles = {} /\ DOMAIN headers = {}
  BY DEF Init
<1>3. InputsKept
  BY <1>1, <1>2 DEF InputsKept
<1>4. HeadersKept
  BY <1>1 DEF HeadersKept, Headers
<1>5. DataKept
  BY <1>1 DEF DataKept, Opening, Headers, Extracting, Unpacking
<1>6. BlocksKept
  BY <1>1 DEF BlocksKept
<1> QED
  BY <1>3, <1>4, <1>5, <1>6, InvInit DEF Reading

LEMMA ReadingStep == Reading /\ [Next]_vars => Reading'
<1> SUFFICES ASSUME Reading, [Next]_vars PROVE Reading'
  OBVIOUS
<1>1. Inv /\ InputsKept /\ HeadersKept /\ DataKept /\ BlocksKept
  BY DEF Reading
<1>2. Inv'
  BY <1>1, InvStep
<1>3. InputsKept'
  BY <1>1, <1>2, InputsStep
<1>4. HeadersKept'
  BY <1>1, <1>2, HeadersStep
<1>5. DataKept'
  BY <1>1, DataKeptStep
<1>6. BlocksKept'
  BY <1>1, <1>2, BlocksStep
<1> QED
  BY <1>2, <1>3, <1>4, <1>5, <1>6 DEF Reading

LEMMA ReadingInvariance == Spec => []Reading
BY ReadingInit, ReadingStep, PTL DEF Spec

\* At a header or a block the input is where that begins.
LEMMA ReadingHeaderInStep == Reading => HeaderInStep
<1> SUFFICES ASSUME Reading PROVE HeaderInStep
  OBVIOUS
<1>1. ASSUME kind = "kwaj", pc \in {Fields[i] : i \in 1 .. 9}, pc = "opened" => error = "OK"
      PROVE  l.top <= 12 /\ (KwajWhole(l.file) => handles[In].pos = KwajStart(l.file, pc))
  <2>1. pc \in Headers \cup {"opened"}
    BY <1>1 DEF Fields, Headers
  <2>2. KwajRead
    BY <1>1, <2>1 DEF Reading, HeadersKept
  <2> QED
    BY <2>2 DEF KwajRead
<1>2. ASSUME OabAt("block")
      PROVE  /\ handles[In].pos = OabStart(l.file, l.block + 1)
             /\ l.patch => handles[Base].pos = BaseUsed(l.file, l.block + 1)
  <2>1. pc = "block" /\ pc \in OabLabels /\ pc \notin InBlock /\ pc \notin InStream
    BY <1>2 DEF OabAt, OabLabels, InBlock, InStream
  <2>2. /\ handles[In].pos = OabStart(l.file, l.block + 1) + 0 + 0
        /\ l.patch => handles[Base].pos = BaseUsed(l.file, l.block + 1)
    BY <2>1 DEF Reading, BlocksKept, OabPlace
  <2>3. l.file \in Files /\ l.file.form \in {"oab", "patch"} /\ l.block \in Nat /\ l.block <= Len(l.file.blocks)
    BY <2>1 DEF Reading, Inv, TargetKept, Blocks
  <2>4. OabStart(l.file, l.block + 1) \in Nat
    <3>1. OabLayout(l.file)
      BY <2>3, OabLayoutIs
    <3>2. Len(l.file.blocks) \in Nat
      BY <3>1 DEF OabLayout
    <3>3. l.block + 1 \in 1 .. Len(l.file.blocks) + 1
      BY <2>3, <3>2
    <3> QED
      BY <3>1, <3>3 DEF OabLayout
  <2>5. OabStart(l.file, l.block + 1) + 0 + 0 = OabStart(l.file, l.block + 1)
    BY <2>4
  <2> QED
    BY <2>2, <2>5
<1> QED
  BY <1>1, <1>2 DEF HeaderInStep

(* Whatever is read, and in pieces of whatever size, the next header of a   *)
(* KWAJ file, the next block of an OAB file and a patch's next part of the  *)
(* base are read where they begin, and names keep to the 13 bytes that were *)
(* allocated for them (kwajd.c:141, oabd.c:217).                            *)
THEOREM ReadsInStep == Spec => []HeaderInStep
BY ReadingInvariance, ReadingHeaderInStep, PTL

\* A file that is as it should be has nothing to stop a call that does not fail.
LEMMA ReadingIntactWorks == Reading => IntactWorks
<1> SUFFICES ASSUME Reading, Intact PROVE
      IF kind = "oab" THEN l.error = "OK"
      ELSE /\ pc \in {"opened", "unpacked", "close"} => error = "OK"
           /\ pc \in {"unpacked", "close"} => out = l.file.len - DataOffset(l.file)
           /\ pc = "opened" /\ kind = "kwaj" =>
                /\ l.fn = (IF "name" \in l.file.flags THEN l.file.name ELSE 0)
                            + (IF "ext" \in l.file.flags THEN 1 + l.file.ext ELSE 0)
                /\ l.extra = IF "extra" \in l.file.flags THEN l.file.extra ELSE 0
  BY DEF IntactWorks
<1>1. CASE kind = "oab"
  <2>1. pc \in OabLabels
    BY <1>1 DEF Reading, Inv, Control, Intact
  <2> QED
    BY <1>1, <2>1 DEF Reading, BlocksKept
<1>2. CASE kind # "oab"
  <2>1. /\ pc \in Opening \cup Extracting /\ ~failed /\ l.file.sound
        /\ kind \in {"szdd", "kwaj"}
    BY <1>2 DEF Reading, Inv, Control, Intact
  <2>2. /\ pc \in {"opened", "unpacked", "close"} => error = "OK"
        /\ pc \in {"unpacked", "close"} => out = l.file.len - DataOffset(l.file)
    BY <2>1 DEF Reading, DataKept
  <2>3. ASSUME pc = "opened", kind = "kwaj"
        PROVE  /\ l.fn = NameUpTo(l.file, "opened")
               /\ l.extra = ExtraUpTo(l.file, "opened")
    <3>1. KwajRead
      BY <2>2, <2>3 DEF Reading, HeadersKept
    <3>2. l.file \in Files /\ l.file.form = kind
      BY <2>1 DEF Reading, InputsKept
    <3>3. KwajWhole(l.file)
      BY <2>1, <2>3, <3>2, SoundData
    <3> QED
      BY <2>3, <3>1, <3>3 DEF KwajRead
  <2> QED
    BY <1>2, <2>2, <2>3 DEF NameUpTo, ExtraUpTo
<1> QED
  BY <1>1, <1>2

(* A file that is as it should be, with the base it was made from if it is  *)
(* a patch, goes through open(), extract() and decompress() without an      *)
(* error, with its name, its extra text and all of its data, unless         *)
(* something fails: no length check, short read, read-ahead or padding      *)
(* stands in its way (szddd.c, kwajd.c, oabd.c).                            *)
THEOREM IntactFilesWork == Spec => []IntactWorks
BY ReadingInvariance, ReadingIntactWorks, PTL

=============================================================================
