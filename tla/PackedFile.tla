----------------------------- MODULE PackedFile -----------------------------
(***************************************************************************)
(* What the decompressors of single files (szddd.c, kwajd.c) share: open() *)
(* returns a header that owns an input handle, extract() opens an output   *)
(* beside it, close() gives both back, decompress() is all three in one.   *)
(* The caller's mspack_system is the handles and memory blocks it has      *)
(* given out; each call to it is a step, and may fail.                     *)
(*                                                                         *)
(* Files are known by their layout: where fields begin and end.  What a    *)
(* codec does with the data is in LzssWindow and ZipWindow; here it reads, *)
(* writes, and ends, and "out" counts the input that came out.             *)
(***************************************************************************)
EXTENDS Integers, Sequences

CONSTANTS
  Files,      \* the input files, with the "form" they have
  MaxOpens,   \* bounds the headers that are opened
  MaxFaults,  \* bounds the calls to mspack_system that fail
  CHUNK       \* the size of input buffers

VARIABLES
  kind, error,           \* the decompressor and its self->error
  headers,               \* the headers the caller has, by number
  handles, heap, opens,  \* mspack_system: open handles, memory blocks; headers so far
  pc, l, ret, out,       \* the call: local variables, what it returned and wrote
  failed, faults         \* did anything fail in this call; how often in all

caller == <<headers, opens>>
system == <<handles, heap>>
vars == <<kind, error, caller, system, pc, l, ret, out, failed, faults>>

PackedFileAssumption ==
  /\ MaxOpens \in Nat /\ MaxFaults \in Nat /\ CHUNK \in Nat \ {0}
  /\ \A f \in Files : f.form \in {"szdd", "kwaj", "oab", "patch"} /\ f.len \in Nat
ASSUME PackedFileAssumption

Least(a, b) == IF a < b THEN a ELSE b

Works == UNCHANGED <<failed, faults>>

Fails ==
  /\ faults < MaxFaults
  /\ faults' = faults + 1
  /\ failed' = TRUE

\* what read() of n bytes returns
Got(h, n) ==
  LET left == handles[h].file.len - handles[h].pos IN
  IF left < 0 THEN 0 ELSE Least(n, left)

Moves(h, n) == handles' = [handles EXCEPT ![h].pos = @ + n]
Opens(h, f) ==
  handles' = [x \in DOMAIN handles \cup {h} |->
                IF x = h THEN [file |-> f, pos |-> 0] ELSE handles[x]]
Closes(H) == handles' = [x \in DOMAIN handles \ H |-> handles[x]]

\* read() of n bytes that all have to be there
Reads(h, n) == Works /\ Got(h, n) = n /\ Moves(h, n)
CannotRead(h, n) == Fails \/ (Works /\ Got(h, n) < n)

Ends(e) ==
  /\ pc' = "idle"
  /\ l' = <<>>
  /\ ret' = e

In == <<"in", l.n>>
Out == <<"out", 0>>
Buffer == <<"buffer", 0>>
HeaderOf(n) == <<"header", n>>

-----------------------------------------------------------------------------
(* open()                                                                  *)

Locals(n, f, whole) ==
  [n |-> n, file |-> f, whole |-> whole, got |-> 0, fn |-> 0, top |-> 0, extra |-> 0]

OpenCall ==
  /\ pc = "idle" /\ kind \in {"szdd", "kwaj"} /\ opens < MaxOpens
  /\ \E f \in Files, whole \in BOOLEAN :
       /\ f.form = kind
       /\ l' = Locals(opens + 1, f, whole)
  /\ opens' = opens + 1
  /\ failed' = FALSE
  /\ out' = 0
  /\ pc' = "open"
  /\ UNCHANGED <<kind, error, headers, system, ret, faults>>

OpenInput ==
  /\ pc = "open"
  /\ \/ Works /\ Opens(In, l.file)
     \/ Fails /\ UNCHANGED handles
  /\ pc' = "alloc header"
  /\ UNCHANGED <<kind, error, caller, heap, l, ret, out>>

\* the header is allocated whether or not the file could be opened
AllocHeader ==
  /\ pc = "alloc header"
  /\ \/ /\ Works
        /\ heap' = heap \cup {HeaderOf(l.n)}
        /\ IF In \in DOMAIN handles
           THEN pc' = "signature" /\ UNCHANGED error
           ELSE pc' = "opened" /\ error' = "OPEN"
     \/ /\ Fails
        /\ error' = "NOMEMORY"
        /\ pc' = "opened"
        /\ UNCHANGED heap
  /\ UNCHANGED <<kind, caller, handles, l, ret, out>>

\* szddd_read_headers() or kwajd_read_headers() returns e
HeadersRead(e) ==
  /\ error' = e
  /\ pc' = "opened"
  /\ UNCHANGED <<kind, caller, ret, out>>

\* mutant: the file stays open when its headers are no good
GivenBackHeader == {}
GivenBack == {In}

Opened ==
  /\ pc = "opened"
  /\ IF error = "OK"
     THEN /\ headers' = IF l.whole THEN headers
                        ELSE [n \in DOMAIN headers \cup {l.n} |->
                                IF n = l.n THEN [file |-> l.file, name |-> l.fn, extra |-> l.extra]
                                ELSE headers[n]]
          /\ IF l.whole THEN pc' = "seek" /\ UNCHANGED <<l, ret>> ELSE Ends("OK")
          /\ UNCHANGED system
     ELSE /\ Closes(GivenBack)
          /\ heap' = heap \ {HeaderOf(l.n)}
          /\ Ends(error)
          /\ UNCHANGED headers
  /\ Works
  /\ UNCHANGED <<kind, error, opens, out>>

-----------------------------------------------------------------------------
(* extract() and decompress()                                              *)

ExtractCall ==
  /\ pc = "idle" /\ kind \in {"szdd", "kwaj"}
  /\ \E n \in DOMAIN headers : l' = Locals(n, headers[n].file, FALSE)
  /\ failed' = FALSE
  /\ out' = 0
  /\ pc' = "seek"
  /\ UNCHANGED <<kind, error, caller, system, ret, faults>>

\* extract() returns, to the caller or to decompress()
Extracted(e) ==
  /\ error' = e
  /\ IF l.whole THEN pc' = "close" /\ UNCHANGED <<l, ret>> ELSE Ends(e)
  /\ UNCHANGED <<kind, caller, out>>

DataOffset(f) == IF kind = "kwaj" THEN f.data ELSE IF f.normal THEN 14 ELSE 12

SeekData ==
  /\ pc = "seek"
  /\ \/ /\ Works
        /\ handles' = [handles EXCEPT ![In].pos = DataOffset(l.file)]
        /\ pc' = "open output"
        /\ UNCHANGED <<kind, error, caller, l, ret, out>>
     \/ Fails /\ Extracted("SEEK") /\ UNCHANGED handles
  /\ UNCHANGED heap

OpenOutput ==
  /\ pc = "open output"
  /\ \/ /\ Works
        /\ Opens(Out, [len |-> 0])
        /\ pc' = "unpack"
        /\ UNCHANGED <<kind, error, caller, l, ret, out>>
     \/ Fails /\ Extracted("OPEN") /\ UNCHANGED handles
  /\ UNCHANGED heap

Method == IF kind = "kwaj" THEN l.file.method ELSE "lzss"

\* the copy loop or the decoder returns e
Unpacked(e) ==
  /\ error' = e
  /\ pc' = "unpacked"
  /\ UNCHANGED <<kind, caller, l, ret, out>>

Unpack ==
  /\ pc = "unpack"
  /\ \/ Method = "unknown" /\ Works /\ Unpacked("DATAFORMAT") /\ UNCHANGED heap
     \/ /\ Method # "unknown" /\ Works
        /\ heap' = heap \cup {Buffer}
        /\ pc' = "read"
        /\ UNCHANGED <<kind, error, caller, l, ret, out>>
     \/ Method # "unknown" /\ Fails /\ Unpacked("NOMEMORY") /\ UNCHANGED heap
  /\ UNCHANGED handles

\* mutant: the end of the file is not taken for the end
AtEndNever(n) == FALSE
AtEnd(n) == n = 0

UnpackRead ==
  /\ pc = "read"
  /\ LET n == Got(In, CHUNK) IN
     \/ /\ Works /\ ~AtEnd(n)
        /\ Moves(In, n)
        /\ l' = [l EXCEPT !.got = n]
        /\ pc' = "write"
        /\ UNCHANGED <<kind, error, caller, ret, out>>
     \/ /\ Works /\ AtEnd(n)
        /\ \E e \in {"OK"} \cup IF Method = "mszip" /\ ~l.file.sound THEN {"READ"} ELSE {} : Unpacked(e)
        /\ UNCHANGED handles
     \/ Fails /\ Unpacked("READ") /\ UNCHANGED handles
  /\ UNCHANGED heap

UnpackWrite ==
  /\ pc = "write"
  /\ \/ /\ Works
        /\ out' = out + l.got
        /\ pc' = "read"
        /\ UNCHANGED <<kind, error, caller, l, ret>>
     \/ Fails /\ Unpacked("WRITE")
  /\ UNCHANGED system

\* LZH and MSZIP notice that data are damaged
UnpackDamaged ==
  /\ pc = "read" /\ ~l.file.sound
  /\ Method \in {"lzh", "mszip"}
  /\ Works
  /\ Unpacked(IF Method = "lzh" THEN "DATAFORMAT" ELSE "DECRUNCH")
  /\ UNCHANGED system

EndExtract ==
  /\ pc = "unpacked"
  /\ Closes({Out})
  /\ heap' = heap \ {Buffer}
  /\ Works
  /\ Extracted(error)

\* mutant: decompress() leaves what close() has made of the error
RestoredNot(e) == "OK"
Restored(e) == e

\* decompress() closes the header and puts extract()'s error back
CloseWhole ==
  /\ pc = "close"
  /\ Closes({In})
  /\ heap' = heap \ {HeaderOf(l.n)}
  /\ error' = Restored(error)
  /\ Ends(error')
  /\ Works
  /\ UNCHANGED <<kind, caller, out>>

-----------------------------------------------------------------------------
(* close(): what else a header had is not freed (kwajd.c:141)              *)
CloseCall ==
  /\ pc = "idle"
  /\ \E n \in DOMAIN headers :
       /\ Closes({<<"in", n>>})
       /\ heap' = heap \ {HeaderOf(n)}
       /\ headers' = [x \in DOMAIN headers \ {n} |-> headers[x]]
  /\ error' = "OK"
  /\ failed' = FALSE
  /\ ret' = "OK"
  /\ UNCHANGED <<kind, opens, pc, l, out, faults>>

=============================================================================
