------------------------------- MODULE OabFile ------------------------------
(***************************************************************************)
(* oabd_decompress() and oabd_decompress_incremental() (oabd.c): a header, *)
(* then blocks until target_size is reached, each stored or an LZX stream  *)
(* of its own that may use no more input than the block has and may leave  *)
(* some of it as padding; a patch's streams refer to a part of the base    *)
(* file each.  Lengths count units; both kinds of header are HEAD long.    *)
(*                                                                         *)
(* A file has: form ("oab" or "patch"), sig, blockmax, target, blocks,     *)
(* sound; a block has: stored, csize, dsize, ssize, pad (the units of      *)
(* csize that the stream does not need), good (decodes to what its CRC is  *)
(* for).                                                                   *)
(***************************************************************************)
EXTENDS PackedFile

CONSTANTS
  HEAD,      \* the size of headers
  WINDOWMAX, \* of the largest window
  Bases      \* the base files

BLOCK == [stored : BOOLEAN, csize : Nat, dsize : Nat, ssize : Nat, pad : Nat, good : BOOLEAN]

\* the blocks of a file are all that it has room for
OabAssumption ==
  /\ HEAD \in Nat /\ WINDOWMAX \in Nat
  /\ \A f \in Files : f.form \in {"oab", "patch"} =>
       f.target \in Nat /\ f.blockmax \in Nat /\ f.blocks \in Seq(BLOCK)
  /\ \A b \in Bases : b.len \in Nat
ASSUME OabAssumption

OabAt(label) == kind = "oab" /\ pc = label

\* the call's handles, and the LZX stream's memory
Base == <<"base", 0>>
Lzx == <<"lzx", 0>>

OabRest == UNCHANGED <<kind, error, caller, ret>>
Goto(label) == pc' = label /\ UNCHANGED l /\ UNCHANGED out

\* "goto out" with an error
GoesOut(e) == pc' = "out" /\ l' = [l EXCEPT !.error = e] /\ UNCHANGED out

OabCall ==
  /\ OabAt("idle")
  /\ \E f \in Files, base \in Bases, patch \in BOOLEAN :
       /\ f.form \in {"oab", "patch"}
       /\ l' = [n |-> 0, file |-> f, base |-> base, patch |-> patch, error |-> "OK", target |-> f.target,
                block |-> 0, available |-> 0, right |-> TRUE]
  /\ failed' = FALSE
  /\ out' = 0
  /\ pc' = "oab open"
  /\ UNCHANGED <<kind, error, caller, system, ret, faults>>

\* open() of the file at this label
OabOpens(label, h, f, next) ==
  /\ OabAt(label)
  /\ \/ Works /\ Opens(h, f) /\ Goto(next)
     \/ Fails /\ GoesOut("OPEN") /\ UNCHANGED handles
  /\ OabRest /\ UNCHANGED heap

OabOpenInput == OabOpens("oab open", In, l.file, "oab header")
OabOpenBase == OabOpens("open base", Base, l.base, "oab output")
OabOpenOutput == OabOpens("oab output", Out, [len |-> 0], "oab alloc")

OabHeader ==
  /\ OabAt("oab header")
  /\ \/ CannotRead(In, HEAD) /\ GoesOut("READ") /\ UNCHANGED handles
     \/ /\ Reads(In, HEAD)
        /\ IF l.file.sig /\ (l.file.form = "patch") = l.patch
           THEN Goto(IF l.patch THEN "open base" ELSE "oab output")
           ELSE GoesOut("SIGNATURE")
  /\ OabRest /\ UNCHANGED heap

OabAlloc ==
  /\ OabAt("oab alloc")
  /\ \/ Works /\ heap' = heap \cup {Buffer} /\ Goto("block")
     \/ Fails /\ GoesOut("NOMEMORY") /\ UNCHANGED heap
  /\ OabRest /\ UNCHANGED handles

-----------------------------------------------------------------------------
Block == l.file.blocks[l.block + 1]
BlockMaxOf(f) == IF f.blockmax < HEAD THEN HEAD ELSE f.blockmax
BlockMax == BlockMaxOf(l.file)

\* mutant: a block that fills the buffer is not taken
BlockRejectedFull(b) ==
  \/ b.dsize >= BlockMax \/ b.dsize > l.target
  \/ IF l.patch THEN b.ssize > BlockMax ELSE b.stored /\ b.dsize # b.csize
BlockRejected(b) ==
  \/ b.dsize > BlockMax \/ b.dsize > l.target
  \/ IF l.patch THEN b.ssize > BlockMax ELSE b.stored /\ b.dsize # b.csize

OabBlock ==
  /\ OabAt("block")
  /\ \/ l.target = 0 /\ Works /\ GoesOut("OK") /\ UNCHANGED handles
     \/ l.target > 0 /\ CannotRead(In, HEAD) /\ GoesOut("READ") /\ UNCHANGED handles
     \/ /\ l.target > 0 /\ Reads(In, HEAD)
        /\ l.block < Len(l.file.blocks)
        /\ IF BlockRejected(Block) THEN GoesOut("DATAFORMAT")
           ELSE Goto(IF Block.stored /\ ~l.patch THEN "stored" ELSE "init lzx")
  /\ OabRest /\ UNCHANGED heap

\* target_size -= blk_dsize
BlockDone ==
  /\ l' = [l EXCEPT !.target = @ - Block.dsize, !.block = @ + 1]
  /\ pc' = "block"

\* an uncompressed block is copied; its CRC is not looked at
OabStored ==
  /\ OabAt("stored")
  /\ \/ CannotRead(In, Block.dsize) /\ GoesOut("READ") /\ UNCHANGED handles
     \/ /\ Reads(In, Block.dsize)
        /\ out' = out + Block.dsize
        /\ BlockDone
     \/ Got(In, Block.dsize) = Block.dsize /\ Fails /\ GoesOut("WRITE") /\ UNCHANGED handles
  /\ OabRest /\ UNCHANGED heap

OabInitLzx ==
  /\ OabAt("init lzx")
  /\ \/ /\ Works
        /\ heap' = heap \cup {Lzx}
        /\ l' = [l EXCEPT !.available = Block.csize]
        /\ pc' = IF l.patch THEN "reference" ELSE "lzx"
        /\ UNCHANGED out
     \/ Fails /\ GoesOut("NOMEMORY") /\ UNCHANGED heap
  /\ OabRest /\ UNCHANGED handles

\* lzxd_set_reference_data(): the window has place for the block and what it
\* refers to, unless that is more than the largest window takes
OabReference ==
  /\ OabAt("reference")
  /\ \/ Block.ssize > WINDOWMAX /\ Works /\ GoesOut("ARGS") /\ UNCHANGED handles
     \/ Block.ssize <= WINDOWMAX /\ Block.ssize > 0 /\ CannotRead(Base, Block.ssize)
        /\ GoesOut("READ") /\ UNCHANGED handles
     \/ Block.ssize <= WINDOWMAX /\ Reads(Base, Block.ssize) /\ Goto("lzx")
  /\ OabRest /\ UNCHANGED heap

-----------------------------------------------------------------------------
(* lzxd_decompress() with oabd_sys_read() and oabd_sys_write().            *)

\* the stream has got all that it needs
Supplied == l.available <= Block.pad

\* it reads when it needs more, and may read ahead
OabLzxRead ==
  /\ OabAt("lzx") /\ l.available > 0
  /\ LET n == Got(In, Least(CHUNK, l.available)) IN
     \/ /\ Works /\ n > 0
        /\ Moves(In, n)
        /\ l' = [l EXCEPT !.available = @ - n]
        /\ UNCHANGED <<pc, out>>
     \/ Works /\ n = 0 /\ ~Supplied /\ GoesOut("READ") /\ UNCHANGED handles
     \/ Fails /\ GoesOut("READ") /\ UNCHANGED handles
  /\ OabRest /\ UNCHANGED heap

\* all of the block is decoded and written; of a damaged one something is
OabLzxDone ==
  /\ OabAt("lzx") /\ Supplied
  /\ \/ /\ Works
        /\ out' = out + Block.dsize
        /\ l' = [l EXCEPT !.right = Block.good /\ (l.patch => l.base.right)]
        /\ pc' = "free lzx"
     \/ Fails /\ GoesOut("WRITE")
  /\ OabRest /\ UNCHANGED system

\* or LZX notices, or runs out of input
OabLzxDamaged ==
  /\ OabAt("lzx") /\ ~Block.good
  /\ \E e \in {"DECRUNCH", "READ"} : GoesOut(e)
  /\ Works
  /\ OabRest /\ UNCHANGED system

OabFreeLzx ==
  /\ OabAt("free lzx")
  /\ heap' = heap \ {Lzx}
  /\ Works /\ Goto("padding")
  /\ OabRest /\ UNCHANGED handles

\* mutant: padding is left where it is
PaddingLeft(n) == n <= 1
PaddingDone(n) == n = 0

\* "consume any trailing padding bytes before the next block": at the end of
\* the file read() returns 0, and nothing changes any more
OabPadding ==
  /\ OabAt("padding") /\ ~PaddingDone(l.available)
  /\ LET n == Got(In, Least(BlockMax, l.available)) IN
     \/ /\ Works
        /\ Moves(In, n)
        /\ l' = [l EXCEPT !.available = @ - n]
        /\ UNCHANGED <<pc, out>>
     \/ Fails /\ GoesOut("READ") /\ UNCHANGED handles
  /\ OabRest /\ UNCHANGED heap

\* mutant: the CRC is not compared
CrcAgreesAlways == TRUE
CrcAgrees == l.right

OabCrc ==
  /\ OabAt("padding") /\ PaddingDone(l.available)
  /\ IF CrcAgrees THEN BlockDone /\ UNCHANGED out ELSE GoesOut("CHECKSUM")
  /\ Works
  /\ OabRest /\ UNCHANGED system

OabOut ==
  /\ OabAt("out")
  /\ Closes({In, Base, Out})
  /\ heap' = heap \ {Lzx, Buffer}
  /\ Ends(l.error)
  /\ Works
  /\ UNCHANGED <<kind, error, caller, out>>

OabStep ==
  \/ OabOpenInput \/ OabHeader \/ OabOpenBase \/ OabOpenOutput \/ OabAlloc \/ OabBlock
  \/ OabStored \/ OabInitLzx \/ OabReference \/ OabLzxRead \/ OabLzxDone \/ OabLzxDamaged
  \/ OabFreeLzx \/ OabPadding \/ OabCrc \/ OabOut

=============================================================================
