------------------------------ MODULE CabSearch ------------------------------
(***************************************************************************)
(* search(): cabd_search and cabd_find of cabd.c, the scan of a file for   *)
(* embedded cabinets, byte by byte and buffer by buffer, as the automaton  *)
(* of the code does it.  One step is one I/O call or one byte.             *)
(*                                                                         *)
(* Abstracted: cabd_read_headers is the set of offsets it accepts; what an *)
(* accepted cabinet is made of, and what close() does to the list, is in   *)
(* CabSets.  Offsets count from 0; off_t is wide enough.                   *)
(***************************************************************************)
EXTENDS Integers, Sequences

CONSTANTS
  Images,     \* the files that are searched: [bytes, good]
  BufSizes,   \* the values of MSCABD_PARAM_SEARCHBUF
  MaxFaults   \* bound: I/O calls and allocations that fail in one search()

Byte == 0..255

\* "The minimum value is 4."
MINBUF == 4

\* good[salvage] are the offsets at which cabd_read_headers succeeds.
ASSUME SearchAssumption ==
  /\ \A im \in Images : im.bytes \in Seq(Byte) /\ im.good \in [BOOLEAN -> SUBSET Nat]
  /\ BufSizes \subseteq {n \in Nat : n >= MINBUF}
  /\ MaxFaults \in Nat

\* the leeway of the test for plausible lengths
SLACK == 32

\* the bytes of the header that the scan looks at
HEADER == 20

VARIABLES
  image, searchbuf, salvage,  \* the call's file and the parameters
  pc,        \* "open", "fill", "scan", "restart" or "done"
  pos,       \* the position of the file handle
  offset, length,   \* the part of the file that buf stands for
  at,        \* where in the file the contents of buf were read from
  i,         \* p - &buf[0]
  state,     \* of the automaton, 0..19
  cablen_u32, foffset_u32,
  chain,     \* the cabinets linked by next: [at, len]
  error,     \* "ok" or what failed
  faults     \* how many calls failed

call == <<image, searchbuf, salvage>>
vars == <<image, searchbuf, salvage, pc, pos, offset, length, at, i, state, cablen_u32,
          foffset_u32, chain, error, faults>>

flen == Len(image.bytes)
ByteAt(o) == image.bytes[o + 1]

Cabinet == [at : Nat, len : Nat]

TypeOK ==
  /\ image \in Images /\ searchbuf \in BufSizes /\ salvage \in BOOLEAN
  /\ pc \in {"open", "fill", "scan", "restart", "done"}
  /\ pos \in Nat /\ offset \in Nat /\ length \in Nat /\ at \in Nat /\ i \in Nat
  /\ state \in 0..HEADER - 1
  /\ cablen_u32 \in Nat /\ foffset_u32 \in Nat
  /\ chain \in Seq(Cabinet)
  /\ error \in {"ok", "nomemory", "open", "read", "seek"}
  /\ faults \in 0..MaxFaults

Init ==
  /\ image \in Images /\ searchbuf \in BufSizes /\ salvage \in BOOLEAN
  /\ pc = "open"
  /\ pos = 0 /\ offset = 0 /\ length = 0 /\ at = 0 /\ i = 0
  /\ state = 0 /\ cablen_u32 = 0 /\ foffset_u32 = 0
  /\ chain = <<>> /\ error = "ok" /\ faults = 0

Return(err) == pc' = "done" /\ error' = err

\* A call that fails ends the search with its error.
Fail(err) ==
  /\ faults < MaxFaults /\ faults' = faults + 1
  /\ Return(err)

-----------------------------------------------------------------------------
(* cabd_search: the buffer, the file and its length.                        *)
Open ==
  /\ pc = "open"
  /\ \/ \E err \in {"nomemory", "open", "seek"} : Fail(err)
     \/ /\ IF flen = 0 THEN Return("ok") ELSE pc' = "fill" /\ UNCHANGED error
        /\ UNCHANGED faults
  /\ UNCHANGED <<call, pos, offset, length, at, i, state, cablen_u32, foffset_u32, chain>>

(* cabd_find: the next buffer.                                              *)
Fill ==
  /\ pc = "fill"
  /\ \/ Fail("read") /\ UNCHANGED <<pos, length, at, i>>
     \/ /\ length' = IF flen - offset > searchbuf THEN searchbuf ELSE flen - offset
        /\ pos' = pos + length' /\ at' = pos /\ i' = 0
        /\ pc' = "scan" /\ UNCHANGED <<error, faults>>
  /\ UNCHANGED <<call, offset, state, cablen_u32, foffset_u32, chain>>

\* Mutant: a header that spans two buffers is forgotten.
StateAcrossReset == 0

\* state is declared outside the loop.
StateAcross == state

Advance ==
  /\ pc = "scan" /\ i = length
  /\ offset' = offset + length
  /\ state' = StateAcross
  /\ IF offset' < flen THEN pc' = "fill" /\ UNCHANGED error ELSE Return("ok")
  /\ UNCHANGED <<call, pos, length, at, i, cablen_u32, foffset_u32, chain, faults>>

-----------------------------------------------------------------------------
(* The automaton.                                                           *)

\* 'M', 'S', 'C', 'F'
Signature == <<77, 83, 67, 70>>

byte == ByteAt(at + i)

\* A byte that does not match is not tried as the first of a signature.
StateAfter(s) ==
  IF s < 4 THEN (IF byte = Signature[s + 1] THEN s + 1 ELSE 0) ELSE s + 1

\* The field that starts at header byte `first', least significant byte first.
Field(old, first) ==
  CASE state = first     -> byte
    [] state = first + 1 -> old + byte * 256
    [] state = first + 2 -> old + byte * 65536
    [] state = first + 3 -> old + byte * 16777216
    [] OTHER             -> old

Scan ==
  /\ pc = "scan" /\ i < length /\ state < HEADER - 1
  /\ i' = i + 1
  /\ state' = StateAfter(state)
  /\ cablen_u32' = Field(cablen_u32, 8)
  /\ foffset_u32' = Field(foffset_u32, 16)
  /\ UNCHANGED <<call, pc, pos, offset, length, at, chain, error, faults>>

Plausible(caboff, cablen, foffset) ==
  /\ foffset < cablen
  /\ caboff + foffset < flen + SLACK
  /\ caboff + cablen < flen + SLACK \/ salvage

\* Mutant: the signature of a false cabinet is searched again.
AfterFalseAgain(caboff) == caboff

\* "restart search just after 'MSCF'"
AfterFalse(caboff) == caboff + 4

\* Mutant: the search goes on behind the signature of a real one, too.
AfterRealSame(caboff, cablen) == caboff + 4

\* "cause the search to restart after this cab's data"
AfterReal(caboff, cablen) == caboff + cablen

\* Mutant: state counts on.
StateRestartedNot == state + 1
StateRestarted == 0

\* The 20th byte: try to read a cabinet there.
Header ==
  LET foffset == Field(foffset_u32, 16)
      caboff == offset + (i + 1) - HEADER
      Go(o) == /\ offset' = o /\ length' = 0
               /\ IF o >= flen THEN Return("ok") ELSE pc' = "restart" /\ UNCHANGED error
  IN
  /\ pc = "scan" /\ i < length /\ state = HEADER - 1
  /\ foffset_u32' = foffset
  /\ state' = StateRestarted /\ i' = 0
  /\ \/ /\ ~Plausible(caboff, cablen_u32, foffset)
        /\ Go(AfterFalse(caboff))
        /\ UNCHANGED <<pos, chain, faults>>
     \/ /\ Plausible(caboff, cablen_u32, foffset)
        /\ Fail("nomemory")
        /\ offset' = AfterFalse(caboff) /\ UNCHANGED <<length, pos, chain>>
     \/ /\ Plausible(caboff, cablen_u32, foffset)
        /\ pos' \in {caboff, flen}   \* wherever cabd_read_headers stopped
        /\ \/ /\ caboff \in image.good[salvage]
              /\ chain' = Append(chain, [at |-> caboff, len |-> cablen_u32])
              /\ Go(AfterReal(caboff, cablen_u32))
              /\ UNCHANGED faults
           \/ /\ caboff \notin image.good[salvage]
              /\ Go(AfterFalse(caboff))
              /\ UNCHANGED <<chain, faults>>
           \* an I/O error or no memory in cabd_read_headers: the same to the caller
           \/ /\ faults < MaxFaults /\ faults' = faults + 1
              /\ Go(AfterFalse(caboff))
              /\ UNCHANGED chain
  /\ UNCHANGED <<call, at, cablen_u32>>

\* Mutant: the handle stays where cabd_read_headers left it.
SoughtNot == pos
Sought == offset

Restart ==
  /\ pc = "restart"
  /\ \/ Fail("seek") /\ UNCHANGED pos
     \/ pos' = Sought /\ pc' = "fill" /\ UNCHANGED <<error, faults>>
  /\ UNCHANGED <<call, offset, length, at, i, state, cablen_u32, foffset_u32, chain>>

Next == Open \/ Fill \/ Advance \/ Scan \/ Header \/ Restart

Spec == Init /\ [][Next]_vars

\* search() is one sequential call.
FairSpec == Spec /\ WF_vars(Next)

-----------------------------------------------------------------------------
(* Reference: the cabinets of a file, with no buffers and no automaton.     *)

SignedAt(o) ==
  o + HEADER <= flen /\ \A k \in 1..4 : ByteAt(o + k - 1) = Signature[k]

Value(o) == ByteAt(o) + ByteAt(o + 1) * 256 + ByteAt(o + 2) * 65536 + ByteAt(o + 3) * 16777216

IsCabinet(o) ==
  Plausible(o, Value(o + 8), Value(o + 16)) /\ o \in image.good[salvage]

Least(S) == CHOOSE o \in S : \A q \in S : o <= q

Cabinets ==
  LET from[o \in 0..flen] ==
        LET signed == {q \in o..flen : SignedAt(q)}
            q == Least(signed)
            end == q + Value(q + 8)
        IN  IF signed = {} THEN <<>>
            ELSE IF ~IsCabinet(q) THEN from[q + 4]
            ELSE <<[at |-> q, len |-> Value(q + 8)]>>
                   \o (IF end > flen THEN <<>> ELSE from[end])
  IN  from[0]

\* No signature begins right behind the beginning of another.
Plain ==
  \A o \in 0..flen : SignedAt(o) =>
    \A n \in 1..3 : n <= o => \E k \in 1..n : ByteAt(o - n + k - 1) # Signature[k]

-----------------------------------------------------------------------------
(* Properties.                                                              *)

\* "will search the entire file for embedded cabinet files": whatever the
\* buffer size, a search that nothing disturbs links every cabinet of the file,
\* in order, and nothing else, also when false headers overlap real ones.
FoundExactly ==
  /\ TypeOK
  /\ pc = "done" /\ faults = 0 /\ Plain => chain = Cabinets

\* The cabinets in the list are signed headers that were accepted, whatever
\* failed, and each begins where the one before it ends, or later.
ChainApart ==
  \A k \in DOMAIN chain :
    /\ SignedAt(chain[k].at)
    /\ chain[k].at \in image.good[salvage]
    /\ k > 1 => chain[k].at >= chain[k - 1].at + chain[k - 1].len

\* When the next buffer is read the handle is where the search goes on, and
\* the buffer that is scanned stands for the bytes at `offset'.
HandleInPlace ==
  /\ pc = "fill" => pos = offset
  /\ pc = "scan" => at = offset /\ pos = offset + length

\* However headers overlap, the search ends.
SearchEnds == <>(pc = "done")
=============================================================================
