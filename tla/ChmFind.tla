------------------------------ MODULE ChmFind ------------------------------
(***************************************************************************)
(* fast_find() of chmd.c: chmd_fast_find over read_chunk and its chunk     *)
(* cache, and search_chunk with its binary search of the quickrefs, one    *)
(* comparison per step; several calls in a row, with I/O and allocations   *)
(* that fail.  What open() lists of the same directory is the reference.   *)
(*                                                                         *)
(* Abstracted: names are numbers in the order of compare(); an entry that  *)
(* does not fit in its chunk is one of the entries that the chunk says it  *)
(* has and has not; what a PMGL entry says of its file is `to' and what    *)
(* open() makes of it (`kind').  A damaged quickref may point anywhere: at *)
(* any entry, past the last one, or inside of something, where the bytes   *)
(* read as other entries, or none (`stray').                               *)
(***************************************************************************)
EXTENDS Integers, Sequences, FiniteSets

CONSTANTS
  Dirs,        \* the directories of CHM files
  Names,       \* the names looked for
  MaxFaults,   \* bound: calls to mspack_system that fail
  NULL

\* said: num_entries, 0 also for a quickref area larger than the chunk; cut: the
\* data of the last entry runs over the end; qr: the quickrefs fit; ref: the entries
\* the quickrefs point to where they are not the right ones, 0 for no entry's place.
\* kind: a file's entry, or one of a name shorter than two characters, of a directory,
\* or of a section above 1.
Entry == [name : Nat, to : Nat, kind : {"file", "short", "directory", "section"}]
Chunk == [sig : BOOLEAN, pmgl : BOOLEAN, said : Nat, entries : Seq(Entry), cut : BOOLEAN,
          qr : BOOLEAN, ref : Seq(Nat), stray : Seq(Entry), next : Nat]

ASSUME FindAssumption ==
  /\ \A dr \in Dirs :
       /\ dr.num \in Nat \ {0} /\ dr.first \in Nat /\ dr.last \in Nat /\ dr.root \in Nat
       /\ dr.density \in Nat \ {0}      \* qr_density
       /\ dr.chunk \in [0..dr.num - 1 -> Chunk]
  /\ Names \subseteq Nat
  /\ MaxFaults \in Nat
  /\ NULL \notin Nat

VARIABLES
  dir,       \* what is on disk
  cache,     \* the numbers of the chunks in chm->chunk_cache
  lastErr,   \* self->error
  name, found, err,   \* the call: filename, *f_ptr (the entry; NULL also after an
                      \* error), its result
  pc,        \* where it is
  n, result,
  L, R,      \* of search_chunk
  k,         \* p, as the number of an entry of the chunk
  left,      \* num_entries
  best,      \* *result, as the number of an entry; 0 is NULL
  astray,    \* p and *result are among what a damaged quickref made of the chunk
  faults,
  failed     \* history: something has failed in this call

search == <<L, R, k, left, best, astray>>
vars == <<dir, cache, lastErr, name, found, err, pc, n, result, search, faults, failed>>

Errors == {"OK", "OPEN", "READ", "SEEK", "NOMEMORY", "DATAFORMAT"}
chunk == dir.chunk[n]
Run(off) == IF off THEN chunk.stray ELSE chunk.entries
entries == Run(astray)

TypeOK ==
  /\ dir \in Dirs /\ cache \subseteq 0..dir.num - 1
  /\ lastErr \in Errors /\ err \in Errors
  /\ name \in Names \cup {NULL} /\ found \in Entry \cup {NULL}
  /\ pc \in {"idle", "chunk", "search", "qr", "scan", "searched"}
  /\ n \in Nat /\ result \in {-1, 0, 1}
  /\ pc \in {"search", "qr", "scan", "searched"} => n < dir.num
  /\ L \in Nat /\ R \in Nat /\ k \in Nat /\ left \in Nat
  /\ best \in Nat /\ astray \in BOOLEAN
  /\ faults \in 0..MaxFaults /\ failed \in BOOLEAN

Init ==
  /\ dir \in Dirs
  /\ cache = {} /\ lastErr = "OK"
  /\ name = NULL /\ found = NULL /\ err = "OK"
  /\ pc = "idle" /\ n = 0 /\ result = -1
  /\ L = 0 /\ R = 0 /\ k = 0 /\ left = 0 /\ best = 0 /\ astray = FALSE
  /\ faults = 0 /\ failed = FALSE

Fault == faults < MaxFaults /\ faults' = faults + 1 /\ failed' = TRUE
NoFault == UNCHANGED <<faults, failed>>

\* "return self->error = err"
Return(e) == pc' = "idle" /\ err' = e /\ lastErr' = e

-----------------------------------------------------------------------------
(* chmd_fast_find.                                                          *)

\* "go through PMGI chunk hierarchy to reach PMGL chunk", or "PMGL chunks only"
HasIndex == dir.root < dir.num

\* A failure to open is returned, but not kept in self->error.
FastFind(x) ==
  /\ pc = "idle"
  /\ name' = x /\ found' = NULL /\ result' = -1
  /\ \/ /\ pc' = "chunk" /\ n' = (IF HasIndex THEN dir.root ELSE dir.first)
        /\ err' = "OK" /\ failed' = FALSE /\ faults' = faults
     \/ Fault /\ err' = "OPEN" /\ UNCHANGED <<pc, n>>
  /\ UNCHANGED <<dir, cache, lastErr, search>>

\* "if we found a file, read it"
Conclude ==
  IF result > 0 /\ ~(chunk.cut /\ best = Len(entries))
    THEN found' = entries[best] /\ Return("OK")
    ELSE found' = NULL /\ Return(IF result = 0 THEN "OK" ELSE "DATAFORMAT")

\* Mutant: without an index the error is forgotten.
NoChunkForgot(e) ==
  /\ found' = NULL
  /\ Return(IF HasIndex THEN e ELSE IF result < 0 THEN "DATAFORMAT" ELSE "OK")

\* read_chunk has returned NULL, and self->error is e.  Without an index the
\* chunks before may have said that the file is not there.
NoChunk(e) ==
  /\ found' = NULL
  /\ Return(IF ~HasIndex /\ result < 0 THEN "DATAFORMAT" ELSE e)

\* "for (n = chm->first_pmgl; n <= chm->last_pmgl; ...)"
Exhausted ==
  /\ pc = "chunk" /\ ~HasIndex /\ n > dir.last
  /\ found' = NULL /\ Return(IF result < 0 THEN "DATAFORMAT" ELSE "OK")
  /\ NoFault /\ UNCHANGED <<dir, cache, name, n, result, search>>

\* "all OK. Store chunk in cache and return it"
Cached(c) == IF dir.chunk[c].sig THEN cache \cup {c} ELSE cache

\* read_chunk: out of range, out of the cache, or read
ReadChunk ==
  /\ pc = "chunk" /\ (HasIndex \/ n <= dir.last)
  /\ \/ n >= dir.num /\ NoFault /\ NoChunk(lastErr) /\ UNCHANGED cache
     \/ /\ n < dir.num /\ n \in cache
        /\ pc' = "search" /\ NoFault /\ UNCHANGED <<cache, found, err, lastErr>>
     \/ /\ n < dir.num /\ n \notin cache
        /\ NoFault /\ cache' = Cached(n)
        /\ IF dir.chunk[n].sig
             THEN pc' = "search" /\ UNCHANGED <<found, err, lastErr>>
             ELSE NoChunk("SEEK")
     \/ /\ n < dir.num /\ n \notin cache
        /\ Fault /\ \E e \in {"NOMEMORY", "SEEK", "READ"} : NoChunk(e)
        /\ UNCHANGED cache
  /\ UNCHANGED <<dir, name, n, result, search>>

\* Mutant: an index has one level.
GoesDownOnce == HasIndex /\ result > 0 /\ ~chunk.pmgl /\ n = dir.root

\* "loop around for next chunk if this is PMGI"
GoesDown == HasIndex /\ result > 0 /\ ~chunk.pmgl

\* Mutant: a chunk may be its own next.
GoesOnAlways == ~HasIndex /\ result <= 0

\* "stop simple infinite loops: can't visit the same chunk twice"
GoesOn == ~HasIndex /\ result <= 0 /\ n # chunk.next

\* search_chunk has returned: down to the chunk an index entry names, on to the
\* next PMGL chunk, or to the end.
Searched ==
  /\ pc = "searched"
  /\ \/ /\ GoesDown /\ chunk.cut /\ best = Len(entries)
        /\ found' = NULL /\ Return("DATAFORMAT") /\ UNCHANGED n
     \/ /\ GoesDown /\ ~(chunk.cut /\ best = Len(entries))
        /\ n' = entries[best].to /\ pc' = "chunk" /\ UNCHANGED <<found, err, lastErr>>
     \/ /\ GoesOn
        /\ n' = chunk.next /\ pc' = "chunk" /\ UNCHANGED <<found, err, lastErr>>
     \/ ~GoesDown /\ ~GoesOn /\ Conclude /\ UNCHANGED n
  /\ NoFault /\ UNCHANGED <<dir, cache, name, result, search>>

-----------------------------------------------------------------------------
(* search_chunk.                                                            *)

Found(r) == pc' = "searched" /\ result' = r

\* the first entry of quickref M's group
Group(M) == M * dir.density + 1

\* "entries_off + (M ? EndGetI16(start - (M << 1)) : 0)": where quickref M points
Ref(M) == IF M \in DOMAIN chunk.ref THEN chunk.ref[M] ELSE Group(M)
Off(M) == Ref(M) = 0
First(M) == IF Off(M) THEN 1 ELSE Ref(M)

\* "Step 1" if there are quickrefs, else "Step 2" over all entries
SearchChunk ==
  LET qr_entries == (chunk.said + dir.density - 1) \div dir.density
  IN
  /\ pc = "search"
  /\ best' = 0 /\ astray' = FALSE
  /\ IF chunk.said = 0
       THEN Found(-1) /\ UNCHANGED <<L, R, k, left>>
       ELSE /\ UNCHANGED result
            /\ L' = 0 /\ R' = qr_entries - 1 /\ k' = 1 /\ left' = chunk.said
            /\ pc' = IF chunk.qr THEN "qr" ELSE "scan"
  /\ NoFault /\ UNCHANGED <<dir, cache, lastErr, name, found, err, n>>

Smaller(a, b) == IF a < b THEN a ELSE b

\* Mutants: the entries of the next group are counted; the last one is left out.
GroupSizeNext(M) == Smaller(chunk.said - (M + 1) * dir.density, dir.density)

GroupSizeShort(M) == Smaller(chunk.said - M * dir.density, dir.density - 1)

\* "read the group of entries for QR entry M"
GroupSize(M) == Smaller(chunk.said - M * dir.density, dir.density)

\* The loop of step 1 is left with L and R.
ToGroup(l, r) ==
  LET M == (l + r) \div 2
  IN  /\ L' = l /\ R' = r
      /\ IF l <= r
           THEN pc' = "qr" /\ UNCHANGED <<k, left, astray>>
           ELSE pc' = "scan" /\ k' = First(M) /\ astray' = Off(M) /\ left' = GroupSize(M)
      /\ UNCHANGED <<best, result>>

QuickRef ==
  LET M == (L + R) \div 2
      p == First(M)
      there == Run(Off(M))
  IN
  /\ pc = "qr"
  /\ IF p > Len(there) THEN Found(-1) /\ UNCHANGED search
     ELSE IF name = there[p].name
            THEN Found(1) /\ best' = p /\ astray' = Off(M) /\ UNCHANGED <<L, R, k, left>>
     ELSE IF name < there[p].name
            THEN IF M > 0 THEN ToGroup(L, M - 1) ELSE Found(0) /\ UNCHANGED search
     ELSE ToGroup(M + 1, R)
  /\ NoFault /\ UNCHANGED <<dir, cache, lastErr, name, found, err, n>>

\* "PMGL? not found. PMGI? maybe found"
NoMore == Found(IF ~chunk.pmgl /\ best # 0 THEN 1 ELSE 0) /\ UNCHANGED search

\* "store potential final result"
Passed == IF chunk.pmgl THEN best ELSE k

\* "Step 2: linear search through the set of entries reached in step 1"
ScanEntry ==
  /\ pc = "scan"
  /\ IF left = 0 THEN NoMore
     ELSE IF k > Len(entries) THEN Found(-1) /\ UNCHANGED search
     ELSE IF name = entries[k].name
            THEN Found(1) /\ best' = k /\ UNCHANGED <<L, R, k, left, astray>>
     ELSE IF name < entries[k].name THEN NoMore
     ELSE IF chunk.cut /\ k = Len(entries) THEN Found(-1) /\ UNCHANGED search
     ELSE /\ best' = Passed /\ k' = k + 1 /\ left' = left - 1
          /\ UNCHANGED <<pc, result, L, R, astray>>
  /\ NoFault /\ UNCHANGED <<dir, cache, lastErr, name, found, err, n>>

-----------------------------------------------------------------------------
Steps == Exhausted \/ ReadChunk \/ Searched \/ SearchChunk \/ QuickRef \/ ScanEntry

Next == (\E x \in Names : FastFind(x)) \/ Steps

Spec == Init /\ [][Next]_vars

\* fast_find() is a plain call: it goes on by itself until it returns.
FairSpec == Spec /\ WF_vars(Steps)
-----------------------------------------------------------------------------
(* Reference: what open() lists.                                            *)

EntriesOf(c) == {dir.chunk[c].entries[x] : x \in DOMAIN dir.chunk[c].entries}

\* chmd_read_headers reads "all chunks from FirstPMGL to LastPMGL" and takes the
\* entries of those that are PMGL chunks.
Entered ==
  UNION {EntriesOf(c) : c \in {b \in dir.first..dir.last :
                                 b < dir.num /\ dir.chunk[b].sig /\ dir.chunk[b].pmgl}}

\* "ignore blank or one-char (e.g. "/") filenames", "directory names", and "invalid
\* section number"
Listed == {e \in Entered : e.kind = "file"}

Increasing(seq) == \A x \in 1..Len(seq) - 1 : seq[x].name < seq[x + 1].name

\* The names that the PMGL chunks below each chunk list.
Below ==
  LET below[h \in 0..dir.num] ==
        [c \in 0..dir.num - 1 |->
           IF dir.chunk[c].pmgl THEN {e.name : e \in EntriesOf(c)}
           ELSE IF h = 0 THEN {}
           ELSE UNION {below[h - 1][e.to] : e \in EntriesOf(c)}]
  IN  below[dir.num]

\* A directory as compilers write it: every chunk sorted and whole, its quickrefs
\* right, the PMGL chunks one after the other, no name entered twice, and every index
\* entry with the first name below it, up to the next entry's.
WellFormed ==
  /\ dir.first <= dir.last /\ dir.last < dir.num
  /\ \A c \in 0..dir.num - 1 :
       LET es == dir.chunk[c].entries IN
       /\ dir.chunk[c].sig /\ ~dir.chunk[c].cut
       /\ dir.chunk[c].said = Len(es) /\ es # <<>> /\ Increasing(es)
       /\ dir.chunk[c].ref = <<>>
       /\ dir.chunk[c].pmgl <=> c \in dir.first..dir.last
       /\ c \in dir.first..dir.last - 1 => dir.chunk[c].next = c + 1
       /\ c = dir.last => dir.chunk[c].next > dir.last
       /\ ~dir.chunk[c].pmgl => \A x \in DOMAIN es :
            /\ es[x].to < dir.num
            /\ \A m \in Below[es[x].to] :
                 es[x].name <= m /\ (x < Len(es) => m < es[x + 1].name)
  /\ \A e1, e2 \in Entered : e1.name = e2.name => e1 = e2
  /\ HasIndex => {e.name : e \in Entered} \subseteq Below[dir.root]

\* No quickref of chunk c points inside of something.
Sound(c) == \A M \in DOMAIN dir.chunk[c].ref : dir.chunk[c].ref[M] # 0

\* What the bytes of chunk c may read as.
StraysOf(c) == {dir.chunk[c].stray[x] : x \in DOMAIN dir.chunk[c].stray}

\* The chunks that the search may go to from chunk c.
Links(c) ==
  IF HasIndex
    THEN IF dir.chunk[c].pmgl THEN {}
         ELSE {e.to : e \in EntriesOf(c) \cup StraysOf(c)}
    ELSE {dir.chunk[c].next} \ {c}

Acyclic ==
  \A S \in SUBSET (0..dir.num - 1) \ {{}} : \E c \in S : Links(c) \cap S = {}

-----------------------------------------------------------------------------
(* Properties.                                                              *)

Returned == pc = "idle" /\ name # NULL

\* In a well-formed directory fast_find() finds every file that open() lists, and
\* besides them only the entries that open() skips, through the index or along the
\* chunks, by quickrefs or without, whatever is in the cache and whatever failed in
\* earlier calls.
FindsListed ==
  /\ TypeOK
  /\ Returned /\ ~failed /\ WellFormed =>
       /\ err = "OK"
       /\ (\E e \in Listed : e.name = name) => found \in Listed
       /\ IF \E e \in Entered : e.name = name
            THEN found \in Entered /\ found.name = name
            ELSE found = NULL

\* Even in a directory that is not well-formed, what is found has the name that
\* was asked for, and it is an entry of a PMGL chunk, whatever entries the quickrefs
\* point to; unless a PMGI chunk is among those that are searched without an index,
\* or a quickref of that chunk points inside of something.
FoundIsNamed ==
  Returned /\ found # NULL /\ (HasIndex \/ chunk.pmgl) =>
    /\ found.name = name
    /\ chunk.pmgl /\ (Sound(n) => found \in EntriesOf(n))

\* A call in which something failed never says that the file is not there.
FailureReported == Returned /\ failed => err # "OK"

\* The search ends if the chunks it follows form no cycle ("TODO: protect
\* against infinite loops in chunks").
FindEnds == pc # "idle" /\ Acyclic ~> pc = "idle"
=============================================================================
