--------------------------- MODULE ChmFindProofs ---------------------------
(***************************************************************************)
(* Theorems about fast_find(): what it finds has the name that was asked   *)
(* for, and a call in which something failed reports it, for every         *)
(* directory, well-formed or not, and every pattern of failures; and in a  *)
(* well-formed directory it finds all that open() lists.                   *)
(***************************************************************************)
EXTENDS ChmFind, TLAPS, WellFoundedInduction

InSearch == pc \in {"search", "qr", "scan", "searched"}

Typed ==
  /\ dir \in Dirs
  /\ pc \in {"idle", "chunk", "search", "qr", "scan", "searched"}
  /\ n \in Nat /\ best \in Nat /\ result \in {-1, 0, 1}
  /\ name \in Names \cup {NULL}
  /\ InSearch => n < dir.num

\* search_chunk's variables, and what it has returned.
Narrowed ==
  /\ pc = "qr" => L \in Nat /\ R \in Nat
  /\ pc = "scan" => k \in Nat \ {0}
  /\ pc = "qr" => best = 0
  /\ pc = "scan" => best = 0 \/ (best \in DOMAIN entries /\ ~chunk.pmgl)
  /\ pc \in {"qr", "scan", "searched"} => astray \in BOOLEAN /\ (astray => ~Sound(n))
  /\ pc = "searched" /\ result > 0 =>
       best \in DOMAIN entries /\ (chunk.pmgl => entries[best].name = name)

NoneYet == pc # "idle" => ~failed

Inv == Typed /\ Narrowed /\ NoneYet /\ FoundIsNamed /\ FailureReported

\* The fields of a directory and of its chunks.
LEMMA DirType ==
  ASSUME NEW dr \in Dirs
  PROVE  /\ dr.num \in Nat \ {0} /\ dr.first \in Nat /\ dr.root \in Nat
         /\ dr.density \in Nat \ {0}
         /\ dr.chunk \in [0..dr.num - 1 -> Chunk]
  BY FindAssumption

LEMMA ChunkType ==
  ASSUME Typed, n < dir.num
  PROVE  /\ chunk \in Chunk /\ chunk.said \in Nat /\ chunk.next \in Nat
         /\ chunk.ref \in Seq(Nat)
         /\ \A off \in BOOLEAN :
              /\ Run(off) \in Seq(Entry)
              /\ \A x \in DOMAIN Run(off) : Run(off)[x] \in Entry /\ Run(off)[x].to \in Nat
                                               /\ x \in 1..Len(Run(off))
         /\ chunk.pmgl \in BOOLEAN /\ chunk.cut \in BOOLEAN
  <1>1. chunk \in Chunk
    BY DirType DEF Typed, chunk
  <1>2. chunk.said \in Nat /\ chunk.next \in Nat
        /\ chunk.entries \in Seq(Entry) /\ chunk.stray \in Seq(Entry) /\ chunk.ref \in Seq(Nat)
        /\ chunk.pmgl \in BOOLEAN /\ chunk.cut \in BOOLEAN
    BY <1>1 DEF Chunk
  <1>3. ASSUME NEW off \in BOOLEAN
        PROVE  /\ Run(off) \in Seq(Entry)
               /\ \A x \in DOMAIN Run(off) : Run(off)[x] \in Entry /\ x \in 1..Len(Run(off))
    <2>1. Run(off) \in Seq(Entry) BY <1>2 DEF Run
    <2> QED BY <2>1
  <1>4. \A e \in Entry : e.to \in Nat BY DEF Entry
  <1> QED BY <1>1, <1>2, <1>3, <1>4

\* Quickrefs are numbered from 0, and the groups' entries from 1.
LEMMA GroupType ==
  ASSUME Typed, NEW l \in Nat, NEW r \in Nat
  PROVE  (l + r) \div 2 \in Nat /\ Group((l + r) \div 2) \in Nat \ {0}
  <1>1. (l + r) \div 2 \in Nat BY SMT
  <1>2. dir.density \in Nat BY DirType DEF Typed
  <1>3. \A a, b \in Nat : a * b \in Nat BY SMT
  <1> QED BY <1>1, <1>2, <1>3 DEF Group

\* A quickref points to an entry's number, or astray.
LEMMA RefType ==
  ASSUME Typed, n < dir.num, NEW M \in Nat
  PROVE  /\ First(M) \in Nat \ {0} /\ Off(M) \in BOOLEAN
         /\ Off(M) => ~Sound(n)
  <1>1. Group(M) \in Nat \ {0}
    <2>1. dir.density \in Nat BY DirType DEF Typed
    <2>2. \A a, b \in Nat : a * b \in Nat BY SMT
    <2> QED BY <2>1, <2>2 DEF Group
  <1>2. chunk.ref \in Seq(Nat)
    BY ChunkType
  <1>3. Ref(M) \in Nat
    BY <1>1, <1>2 DEF Ref
  <1>4. Off(M) => M \in DOMAIN chunk.ref /\ chunk.ref[M] = 0
    BY <1>1 DEF Off, Ref
  <1> QED BY <1>3, <1>4 DEF First, Off, Sound, chunk

LEMMA QuickRefsType ==
  ASSUME Typed, n < dir.num, chunk.said # 0
  PROVE  (chunk.said + dir.density - 1) \div dir.density - 1 \in Nat
  <1> DEFINE d == dir.density
             a == chunk.said + d - 1
  <1>1. d \in Nat \ {0} /\ chunk.said \in Nat \ {0}
    BY DirType, ChunkType DEF Typed
  <1> HIDE DEF d
  <1>2. a >= d /\ a \in Nat BY <1>1
  <1>3. \A x \in Nat : x >= d => x \div d >= 1 BY <1>1, SMTT(30)
  <1>4. \A x \in Nat : x \div d \in Int BY <1>1, SMTT(30)
  <1>5. a \div d - 1 \in Nat BY <1>2, <1>3, <1>4
  <1> QED BY <1>5 DEF d

LEMMA InvInit == Init => Inv
  BY DEF Init, Inv, Typed, Narrowed, NoneYet, FoundIsNamed, FailureReported, Returned, InSearch

LEMMA FastFindKeeps == ASSUME Inv, NEW x \in Names, FastFind(x) PROVE Inv'
  <1> USE DEF Inv, FastFind
  <1>1. Typed'
    BY DirType DEF Typed, InSearch, HasIndex, search
  <1>2. Narrowed'
    BY DEF Narrowed, Typed
  <1>3. NoneYet' BY DEF NoneYet, Typed
  <1>4. FoundIsNamed' BY DEF FoundIsNamed, Returned
  <1>5. FailureReported' BY DEF FailureReported, Returned, Fault
  <1> QED BY <1>1, <1>2, <1>3, <1>4, <1>5

\* A step inside search_chunk, which leaves the call's variables alone.
Inside == /\ NoFault /\ UNCHANGED <<dir, cache, lastErr, name, found, err, n>>
          /\ pc # "idle" /\ pc' # "idle"

LEMMA InsideKeeps ==
  ASSUME Inv, Inside
  PROVE  /\ NoneYet' /\ FoundIsNamed' /\ FailureReported'
         /\ chunk' = chunk /\ Sound(n)' = Sound(n)
         /\ \A off : Run(off)' = Run(off)
  BY DEF Inv, Inside, NoneYet, FoundIsNamed, FailureReported, Returned, NoFault, chunk, Run, Sound

LEMMA SearchChunkKeeps == ASSUME Inv, SearchChunk PROVE Inv'
  <1> USE DEF Inv, SearchChunk
  <1>1. Inside BY DEF Inside, Found
  <1>2. Typed' BY DEF Typed, Found, InSearch
  <1>3. Narrowed'
    <2>1. n < dir.num /\ Typed BY DEF Typed, InSearch
    <2>2. /\ best' = 0 /\ astray' = FALSE
          /\ \/ pc' = "searched" /\ result' = -1
             \/ pc' = "scan" /\ k' = 1
             \/ /\ pc' = "qr" /\ L' = 0 /\ chunk.said # 0
                /\ R' = (chunk.said + dir.density - 1) \div dir.density - 1
      BY DEF Found
    <2>3. pc' = "qr" => R' \in Nat
      BY <2>1, <2>2, QuickRefsType
    <2>4. Sound(n)' = Sound(n) /\ chunk' = chunk
      BY <1>1, InsideKeeps
    <2>5. /\ pc' = "qr" => L' \in Nat /\ R' \in Nat
          /\ pc' = "scan" => k' \in Nat \ {0}
          /\ best' = 0 /\ astray' = FALSE /\ ~(pc' = "searched" /\ result' > 0)
      BY <2>2, <2>3
    <2> HIDE DEF SearchChunk
    <2> QED BY <2>5 DEF Narrowed
  <1> QED BY <1>1, <1>2, <1>3, InsideKeeps

LEMMA QuickRefKeeps == ASSUME Inv, QuickRef PROVE Inv'
  <1> USE DEF Inv
  <1> DEFINE M == (L + R) \div 2
             p == First(M)
             off == Off(M)
             there == Run(off)
  <1>1. n < dir.num /\ pc = "qr" /\ L \in Nat /\ R \in Nat
    BY DEF Typed, Narrowed, InSearch, QuickRef
  <1>2. M \in Nat /\ p \in Nat \ {0} /\ off \in BOOLEAN /\ (off => ~Sound(n))
    <2>1. M \in Nat BY <1>1, GroupType
    <2> QED BY <1>1, <2>1, RefType
  <1> HIDE DEF M, p, off
  <1>3. Len(there) \in Nat /\ \A x \in 1..Len(there) : x \in DOMAIN there
    BY <1>1, <1>2, ChunkType
  <1>4. Inside
    BY <1>1 DEF Inside, QuickRef, Found, ToGroup
  <1>5. chunk' = chunk /\ Sound(n)' = Sound(n) /\ \A b : Run(b)' = Run(b)
    BY <1>4, InsideKeeps
  <1>6. CASE (pc' = "searched" /\ result' \in {-1, 0}) /\ UNCHANGED search
    <2>1. Typed' BY <1>6, <1>4, <1>1 DEF Typed, Inside, InSearch, search
    <2>2. Narrowed' BY <1>1, <1>5, <1>6 DEF Narrowed, search
    <2> QED BY <2>1, <2>2, <1>4, InsideKeeps
  <1>7. CASE /\ p <= Len(there) /\ name = there[p].name
             /\ Found(1) /\ best' = p /\ astray' = off
    <2>1. Typed' BY <1>7, <1>4, <1>1, <1>2 DEF Typed, Inside, InSearch, Found
    <2>2. entries' = there BY <1>5, <1>7 DEF entries, Run
    <2>3. p \in DOMAIN there BY <1>2, <1>3, <1>7
    <2>4. Narrowed' BY <1>7, <1>2, <1>4, <1>5, <2>2, <2>3 DEF Narrowed, Found, Inside
    <2> QED BY <2>1, <2>4, <1>4, InsideKeeps
  <1>8. ASSUME NEW l \in Nat, NEW r \in Nat, ToGroup(l, r) PROVE Inv'
    <2>1. Typed' BY <1>8, <1>4, <1>1 DEF Typed, Inside, InSearch, ToGroup
    <2> DEFINE N == (l + r) \div 2
    <2>2. N \in Nat
      BY <1>1, <1>8, GroupType DEF Inv
    <2>3. best = 0 /\ best' = 0 /\ (astray \in BOOLEAN /\ (astray => ~Sound(n)))
      BY <1>1, <1>8 DEF ToGroup, Narrowed
    <2> HIDE DEF N
    <2>4. First(N) \in Nat \ {0} /\ Off(N) \in BOOLEAN /\ (Off(N) => ~Sound(n))
      BY <1>1, <2>2, RefType
    <2>5. \/ /\ pc' = "qr" /\ l <= r /\ L' = l /\ R' = r /\ astray' = astray
          \/ pc' = "scan" /\ k' = First(N) /\ astray' = Off(N)
      BY <1>8 DEF ToGroup, N
    <2>6. Narrowed' BY <1>8, <1>5, <2>3, <2>4, <2>5 DEF Narrowed
    <2> QED BY <2>1, <2>6, <1>4, InsideKeeps
  <1>9. \/ (pc' = "searched" /\ result' \in {-1, 0}) /\ UNCHANGED search
        \/ /\ p <= Len(there) /\ name = there[p].name
           /\ Found(1) /\ best' = p /\ astray' = off
        \/ M > 0 /\ ToGroup(L, M - 1)
        \/ ToGroup(M + 1, R)
    BY <1>2, <1>3 DEF QuickRef, Found, M, p, off
  <1>10. CASE M > 0 /\ ToGroup(L, M - 1)
    <2>1. M - 1 \in Nat BY <1>10, <1>2
    <2> QED BY <2>1, <1>1, <1>8, <1>10
  <1>11. CASE ToGroup(M + 1, R)
    <2>1. M + 1 \in Nat BY <1>2
    <2> QED BY <2>1, <1>1, <1>8, <1>11
  <1> QED BY <1>6, <1>7, <1>9, <1>10, <1>11

LEMMA ScanEntryKeeps == ASSUME Inv, ScanEntry PROVE Inv'
  <1> USE DEF Inv
  <1>1. n < dir.num /\ pc = "scan" /\ k \in Nat \ {0}
    BY DEF Typed, Narrowed, InSearch, ScanEntry
  <1>2. Len(entries) \in Nat /\ \A x \in 1..Len(entries) : x \in DOMAIN entries
    <2>1. astray \in BOOLEAN BY <1>1 DEF Narrowed
    <2> QED BY <1>1, <2>1, ChunkType DEF entries
  <1>3. /\ best = 0 \/ (best \in DOMAIN entries /\ ~chunk.pmgl)
        /\ astray \in BOOLEAN /\ (astray => ~Sound(n))
    BY <1>1 DEF Narrowed
  <1>4. Inside
    BY <1>1 DEF Inside, ScanEntry, Found, NoMore
  <1>5. chunk' = chunk /\ Sound(n)' = Sound(n) /\ astray' = astray /\ entries' = entries
    <2>1. astray' = astray BY DEF ScanEntry, NoMore, search
    <2> QED BY <1>4, <2>1, InsideKeeps DEF entries, Run
  <1>6. CASE NoMore
    <2>1. Typed' BY <1>6, <1>4, <1>1 DEF Typed, Inside, InSearch, NoMore, Found, search
    <2>2. Narrowed' BY <1>6, <1>3, <1>5 DEF Narrowed, NoMore, Found, search
    <2> QED BY <2>1, <2>2, <1>4, InsideKeeps
  <1>7. CASE Found(-1) /\ UNCHANGED search
    <2>1. Typed' BY <1>7, <1>4, <1>1 DEF Typed, Inside, InSearch, Found, search
    <2>2. Narrowed' BY <1>3, <1>5, <1>7 DEF Narrowed, Found
    <2> QED BY <2>1, <2>2, <1>4, InsideKeeps
  <1>8. CASE k <= Len(entries) /\ name = entries[k].name /\ Found(1) /\ best' = k
    <2>1. Typed' BY <1>8, <1>4, <1>1 DEF Typed, Inside, InSearch, Found
    <2>2. Narrowed' BY <1>8, <1>1, <1>2, <1>3, <1>4, <1>5 DEF Narrowed, Found, Inside
    <2> QED BY <2>1, <2>2, <1>4, InsideKeeps
  <1>9. CASE /\ k <= Len(entries) /\ best' = Passed /\ k' = k + 1
             /\ UNCHANGED <<pc, result>>
    <2>1. best' = best \/ (best' = k /\ ~chunk.pmgl)
      BY <1>9 DEF Passed
    <2>2. best' \in Nat BY <2>1, <1>1 DEF Typed
    <2>3. Typed' BY <1>9, <1>4, <1>1, <2>2 DEF Typed, Inside, InSearch
    <2>4. Narrowed' BY <1>9, <1>1, <1>2, <1>3, <1>5, <2>1 DEF Narrowed
    <2> QED BY <2>3, <2>4, <1>4, InsideKeeps
  <1> QED BY <1>1, <1>2, <1>6, <1>7, <1>8, <1>9 DEF ScanEntry

\* The steps that may return.
LEMMA ExhaustedKeeps == ASSUME Inv, Exhausted PROVE Inv'
  <1> USE DEF Inv
  <1>1. /\ ~failed /\ ~failed' /\ pc' = "idle" /\ found' = NULL
        /\ UNCHANGED <<dir, name, n, result, search>>
    BY DEF Exhausted, NoneYet, NoFault, Return
  <1>2. Typed' BY <1>1 DEF Typed, InSearch, search
  <1>3. Narrowed' /\ NoneYet' BY <1>1 DEF Narrowed, NoneYet
  <1>4. FoundIsNamed' BY <1>1 DEF FoundIsNamed, Returned
  <1>5. FailureReported' BY <1>1 DEF FailureReported
  <1> QED BY <1>2, <1>3, <1>4, <1>5

LEMMA ReadChunkKeeps == ASSUME Inv, ReadChunk PROVE Inv'
  <1> USE DEF Inv
  <1>1. pc = "chunk" /\ ~failed /\ UNCHANGED <<dir, name, n, result, search>>
    BY DEF ReadChunk, NoneYet
  <1>2. ASSUME NEW e, NoChunk(e), failed' => e # "OK" PROVE Inv'
    <2>1. Typed' BY <1>1, <1>2 DEF Typed, InSearch, NoChunk, Return, search
    <2>2. Narrowed' BY <1>1, <1>2 DEF Narrowed, NoChunk, Return
    <2>3. NoneYet' BY <1>2 DEF NoneYet, NoChunk, Return
    <2>4. FoundIsNamed' BY <1>2 DEF FoundIsNamed, Returned, NoChunk
    <2>5. FailureReported' BY <1>2 DEF FailureReported, Returned, NoChunk, Return
    <2> QED BY <2>1, <2>2, <2>3, <2>4, <2>5
  <1>3. CASE pc' = "search" /\ n < dir.num /\ NoFault
    <2>1. Typed' BY <1>1, <1>3 DEF Typed, InSearch, search
    <2>2. Narrowed' BY <1>3 DEF Narrowed
    <2>3. NoneYet' BY <1>1, <1>3 DEF NoneYet, NoFault
    <2>4. FoundIsNamed' /\ FailureReported'
      BY <1>3 DEF FoundIsNamed, FailureReported, Returned
    <2> QED BY <2>1, <2>2, <2>3, <2>4
  <1>4. CASE NoFault /\ (NoChunk(lastErr) \/ NoChunk("SEEK"))
    BY <1>1, <1>2, <1>4 DEF NoFault
  <1>5. CASE \E e \in {"NOMEMORY", "SEEK", "READ"} : NoChunk(e)
    BY <1>2, <1>5
  <1> QED BY <1>3, <1>4, <1>5 DEF ReadChunk

LEMMA SearchedKeeps == ASSUME Inv, Searched PROVE Inv'
  <1> USE DEF Inv
  <1>1. /\ pc = "searched" /\ n < dir.num /\ ~failed /\ ~failed'
        /\ UNCHANGED <<dir, name, result, search>>
    BY DEF Searched, Typed, InSearch, NoneYet, NoFault
  <1>2. CASE GoesDown /\ found' = NULL /\ Return("DATAFORMAT") /\ UNCHANGED n
    BY <1>1, <1>2 DEF Typed, InSearch, Narrowed, NoneYet, FoundIsNamed, FailureReported,
                      Returned, Return, search
  <1>3. CASE (GoesDown \/ GoesOn) /\ pc' = "chunk" /\ n' \in Nat
    BY <1>1, <1>3 DEF Typed, InSearch, Narrowed, NoneYet, FoundIsNamed, FailureReported,
                      Returned, search
  <1>4. CASE ~GoesDown /\ ~GoesOn /\ Conclude /\ UNCHANGED n
    <2>1. pc' = "idle" BY <1>4 DEF Conclude, Return
    <2>2. FoundIsNamed'
      <3> SUFFICES ASSUME found' # NULL, HasIndex' \/ chunk'.pmgl
                   PROVE  /\ found'.name = name' /\ chunk'.pmgl
                          /\ Sound(n)' => found' \in EntriesOf(n)'
        BY DEF FoundIsNamed
      <3>1. result > 0 /\ found' = entries[best]
        BY <1>4 DEF Conclude
      <3>2. chunk' = chunk /\ HasIndex' = HasIndex
        BY <1>1, <1>4 DEF chunk, HasIndex
      <3>3. chunk.pmgl
        BY <1>4, <3>1, <3>2 DEF GoesDown
      <3>4. best \in DOMAIN entries /\ entries[best].name = name
        BY <1>1, <3>1, <3>3 DEF Narrowed
      <3>5. Sound(n)' => found' \in EntriesOf(n)'
        <4>1. Sound(n)' = Sound(n)
          BY <1>1, <1>4 DEF Sound
        <4>2. Sound(n) => entries = chunk.entries
          BY <1>1 DEF Narrowed, entries, Run
        <4> QED BY <1>1, <1>4, <3>1, <3>4, <4>1, <4>2 DEF EntriesOf, chunk
      <3> QED BY <1>1, <3>1, <3>2, <3>3, <3>4, <3>5
    <2>3. Typed' /\ Narrowed' /\ NoneYet'
      BY <1>1, <1>4, <2>1 DEF Typed, InSearch, Narrowed, NoneYet, search
    <2>4. FailureReported' BY <1>1 DEF FailureReported
    <2> QED BY <2>2, <2>3, <2>4
  <1>5. GoesDown => entries[best].to \in Nat
    BY <1>1, ChunkType DEF GoesDown, Narrowed, entries
  <1>6. chunk.next \in Nat
    BY <1>1, ChunkType
  <1> QED BY <1>2, <1>3, <1>4, <1>5, <1>6 DEF Searched

LEMMA StutterKeeps == ASSUME Inv, UNCHANGED vars PROVE Inv'
  BY DEF Inv, vars, search, Typed, InSearch, Narrowed, NoneYet, FoundIsNamed, FailureReported,
         Returned, chunk, entries, Run, Sound, HasIndex, EntriesOf

LEMMA InvAlways == Spec => []Inv
  <1>1. Inv /\ [Next]_vars => Inv'
    BY FastFindKeeps, SearchChunkKeeps, QuickRefKeeps, ScanEntryKeeps, ExhaustedKeeps,
       ReadChunkKeeps, SearchedKeeps, StutterKeeps DEF Next, Steps
  <1> QED BY <1>1, InvInit, PTL DEF Spec

\* For every directory, with quickrefs that point anywhere: what fast_find() finds has
\* the name that was asked for, and it is an entry of its chunk if no quickref of the
\* chunk points inside of something.
THEOREM FindsTheName == Spec => []FoundIsNamed
  <1>1. Inv => FoundIsNamed BY DEF Inv
  <1> QED BY <1>1, InvAlways, PTL

\* A call in which something failed never says that the file is not there.
THEOREM FailuresAreReported == Spec => []FailureReported
  <1>1. Inv => FailureReported BY DEF Inv
  <1> QED BY <1>1, InvAlways, PTL

-----------------------------------------------------------------------------
(* The reference: the names below a chunk of the index.                     *)

\* A set of numbers that is not empty has a least one: all inductions below start from it.
LEMMA LeastNumber ==
  ASSUME NEW S \in SUBSET Nat, S # {}
  PROVE  \E x \in S : \A y \in S : x <= y
  <1> DEFINE Less == OpToRel(<, Nat)
  <1>1. PICK x \in S : \A y \in S : ~(<<y, x>> \in Less)
    BY NatLessThanWellFounded, WFMin
  <1>2. Less = {p \in Nat \X Nat : p[1] < p[2]}
    BY DEF OpToRel
  <1>3. ASSUME NEW y \in S PROVE x <= y
    <2> HIDE DEF Less
    <2>1. <<y, x>> \in Nat \X Nat /\ x \in Nat /\ y \in Nat
      OBVIOUS
    <2>2. ~(y < x)
      BY <1>1, <1>2, <2>1
    <2> QED BY <2>1, <2>2
  <1> QED BY <1>3

\* What the definition of Below says of level h of the index.
NamesOf(c) == {e.name : e \in EntriesOf(c)}
Row(f, h) ==
  [c \in 0..dir.num - 1 |->
     IF dir.chunk[c].pmgl THEN NamesOf(c)
     ELSE IF h = 0 THEN {}
     ELSE UNION {f[h - 1][e.to] : e \in EntriesOf(c)}]
Rows(m, f) == f = [h \in 0..m |-> Row(f, h)]

\* The recursion of Below has a solution, up to any height.
LEMMA RowsExist ==
  ASSUME NEW m \in Nat
  PROVE  \E f : Rows(m, f)
  <1> DEFINE S == {x \in Nat : ~\E f : Rows(x, f)}
  <1> SUFFICES ASSUME S # {} PROVE FALSE
    OBVIOUS
  <1>1. PICK x \in S : \A y \in S : x <= y
    BY LeastNumber
  <1>2. \E v : x # 0 => Rows(x - 1, v)
    <2>1. CASE x = 0
      BY <2>1
    <2>2. CASE x # 0
      <3>1. x - 1 \in Nat /\ x - 1 \notin S
        BY <1>1, <2>2
      <3> QED BY <3>1
    <2> QED BY <2>1, <2>2
  <1>3. PICK v : x # 0 => Rows(x - 1, v)
    BY <1>2
  <1> DEFINE g == [h \in 0..x |-> IF h = x THEN Row(v, x) ELSE v[h]]
  <1>4. x \in Nat /\ ~\E f : Rows(x, f)
    OBVIOUS
  <1> HIDE DEF S
  <1>5. ASSUME NEW h \in 0..x PROVE g[h] = Row(g, h)
    <2>1. h # 0 => h - 1 \in 0..x /\ h - 1 # x
      BY <1>4
    <2>2. h # 0 => g[h - 1] = v[h - 1]
      BY <2>1
    <2>3. Row(g, h) = Row(v, h)
      <3> HIDE DEF g
      <3> QED BY <2>2 DEF Row
    <2>4. CASE h = x
      BY <2>3, <2>4
    <2>5. CASE h # x
      <3>1. h \in 0..x - 1 /\ x # 0
        BY <1>4, <2>5
      <3>2. v[h] = Row(v, h)
        BY <1>3, <3>1 DEF Rows
      <3> QED BY <2>3, <2>5, <3>2
    <2> QED BY <2>4, <2>5
  <1>6. g = [h \in 0..x |-> g[h]]
    OBVIOUS
  <1> HIDE DEF g
  <1>7. [h \in 0..x |-> g[h]] = [h \in 0..x |-> Row(g, h)]
    BY <1>5
  <1> QED BY <1>4, <1>6, <1>7 DEF Rows

Reached == CHOOSE f : f = [h \in 0..dir.num |-> Row(f, h)]

\* Below is the last row of that solution.
LEMMA BelowIs ==
  ASSUME dir \in Dirs
  PROVE  /\ Below = Reached[dir.num]
         /\ \A h \in 0..dir.num : Reached[h] = Row(Reached, h)
  <1>1. Below = Reached[dir.num]
    BY DEF Below, Reached, Row, NamesOf
  <1>2. dir.num \in Nat
    BY DirType
  <1>3. \E f : f = [h \in 0..dir.num |-> Row(f, h)]
    BY <1>2, RowsExist DEF Rows
  <1>4. Reached = [h \in 0..dir.num |-> Row(Reached, h)]
    BY <1>3 DEF Reached
  <1> HIDE DEF Reached
  <1> QED BY <1>1, <1>4

\* Every entry of an index chunk names a chunk of the directory.
LinksExist ==
  \A c \in 0..dir.num - 1 : ~dir.chunk[c].pmgl => \A e \in EntriesOf(c) : e.to \in 0..dir.num - 1

\* A search that may go down further reaches no fewer names.
LEMMA RowsGrow ==
  ASSUME dir \in Dirs, LinksExist, NEW h \in 0..dir.num - 1, NEW c \in 0..dir.num - 1
  PROVE  Reached[h][c] \subseteq Reached[h + 1][c]
  <1> DEFINE Grows(x) == \A b \in 0..dir.num - 1 : Reached[x][b] \subseteq Reached[x + 1][b]
             S == {x \in Nat : x <= dir.num - 1 /\ ~Grows(x)}
  <1>0. dir.num \in Nat
    BY DirType
  <1> HIDE DEF Grows
  <1> SUFFICES ASSUME S # {} PROVE FALSE
    BY <1>0 DEF Grows
  <1>1. PICK x \in S : \A y \in S : x <= y
    BY LeastNumber
  <1>2. x \in Nat /\ x \in 0..dir.num /\ x + 1 \in 0..dir.num /\ ~Grows(x) /\ x + 1 # 0
    BY <1>0
  <1>3. x # 0 => Grows(x - 1)
    <2> SUFFICES ASSUME x # 0 PROVE Grows(x - 1)
      OBVIOUS
    <2>1. x - 1 \in Nat /\ x - 1 <= dir.num - 1 /\ x - 1 \notin S
      BY <1>0, <1>1, <1>2
    <2> QED BY <2>1
  <1>4. PICK b \in 0..dir.num - 1 : ~(Reached[x][b] \subseteq Reached[x + 1][b])
    BY <1>2 DEF Grows
  <1> HIDE DEF S
  <1>5. Reached[x][b] = Row(Reached, x)[b] /\ Reached[x + 1][b] = Row(Reached, x + 1)[b]
    BY <1>2, BelowIs
  <1>6. ~dir.chunk[b].pmgl /\ x # 0
    BY <1>2, <1>4, <1>5 DEF Row
  <1>7. /\ Reached[x][b] = UNION {Reached[x - 1][e.to] : e \in EntriesOf(b)}
        /\ Reached[x + 1][b] = UNION {Reached[x][e.to] : e \in EntriesOf(b)}
    BY <1>2, <1>5, <1>6 DEF Row
  <1>8. ASSUME NEW e \in EntriesOf(b) PROVE Reached[x - 1][e.to] \subseteq Reached[x][e.to]
    <2>1. e.to \in 0..dir.num - 1
      BY <1>6 DEF LinksExist
    <2>2. x - 1 + 1 = x
      BY <1>2
    <2> QED BY <1>3, <1>6, <2>1, <2>2 DEF Grows
  <1> QED BY <1>4, <1>7, <1>8

\* A PMGL chunk has its own names below it.
LEMMA BelowLeaf ==
  ASSUME dir \in Dirs, NEW c \in 0..dir.num - 1, dir.chunk[c].pmgl
  PROVE  Below[c] = NamesOf(c)
  <1>1. dir.num \in 0..dir.num
    BY DirType
  <1>2. Below[c] = Row(Reached, dir.num)[c]
    BY <1>1, BelowIs
  <1> QED BY <1>2 DEF Row

\* What is below a PMGI chunk is below one of the chunks it names.
LEMMA BelowIndex ==
  ASSUME dir \in Dirs, LinksExist, NEW c \in 0..dir.num - 1, ~dir.chunk[c].pmgl,
         NEW m \in Below[c]
  PROVE  \E e \in EntriesOf(c) : m \in Below[e.to]
  <1>1. dir.num \in 0..dir.num /\ dir.num # 0 /\ dir.num - 1 \in 0..dir.num - 1
        /\ dir.num - 1 + 1 = dir.num
    BY DirType
  <1>2. Below[c] = Row(Reached, dir.num)[c]
    BY <1>1, BelowIs
  <1>3. Below[c] = UNION {Reached[dir.num - 1][e.to] : e \in EntriesOf(c)}
    BY <1>1, <1>2 DEF Row
  <1>4. PICK e \in EntriesOf(c) : m \in Reached[dir.num - 1][e.to]
    BY <1>3
  <1>5. e.to \in 0..dir.num - 1
    BY DEF LinksExist
  <1>6. Reached[dir.num - 1][e.to] \subseteq Reached[dir.num][e.to]
    BY <1>1, <1>5, RowsGrow
  <1>7. Reached[dir.num] = Below
    BY BelowIs
  <1> QED BY <1>4, <1>6, <1>7

\* Neighbours in order are all in order.
LEMMA Sorted ==
  ASSUME NEW es \in Seq(Entry), Increasing(es),
         NEW a \in 1..Len(es), NEW b \in 1..Len(es), a < b
  PROVE  es[a].name < es[b].name
  <1> DEFINE S == {x \in Nat : a < x /\ x <= Len(es) /\ ~(es[a].name < es[x].name)}
  <1>0. Len(es) \in Nat /\ a \in Nat /\ b \in Nat
    OBVIOUS
  <1>1. ASSUME NEW x \in 1..Len(es) PROVE es[x].name \in Nat
    <2>1. es[x] \in Entry
      OBVIOUS
    <2> QED BY <2>1 DEF Entry
  <1> SUFFICES ASSUME S # {} PROVE FALSE
    BY <1>0
  <1>2. PICK x \in S : \A y \in S : x <= y
    BY LeastNumber
  <1>3. x \in Nat /\ a < x /\ x <= Len(es) /\ ~(es[a].name < es[x].name)
    OBVIOUS
  <1>4. x - 1 \in 1..Len(es) - 1 /\ x - 1 + 1 = x /\ x \in 1..Len(es) /\ x - 1 \in 1..Len(es)
    BY <1>0, <1>3
  <1>5. es[x - 1].name < es[x].name
    BY <1>4 DEF Increasing
  <1>6. x - 1 = a \/ es[a].name < es[x - 1].name
    <2>1. x - 1 \in Nat /\ x - 1 \notin S
      BY <1>0, <1>2, <1>3
    <2> QED BY <1>0, <1>3, <2>1
  <1>7. es[a].name \in Nat /\ es[x].name \in Nat /\ es[x - 1].name \in Nat
    BY <1>1, <1>4
  <1> HIDE DEF S
  <1> QED BY <1>3, <1>5, <1>6, <1>7

-----------------------------------------------------------------------------
(* The arithmetic of the quickrefs: search_chunk stays inside the chunk.     *)

\* Division, multiples and halves, the only arithmetic of search_chunk.
LEMMA Quotient ==
  ASSUME NEW a \in Nat, NEW d \in Nat, d > 0
  PROVE  a \div d \in Nat /\ (a \div d) * d <= a /\ a < (a \div d) * d + d
  BY SMTT(30)

LEMMA Multiple ==
  ASSUME NEW a \in Nat, NEW b \in Nat, NEW d \in Nat, a <= b
  PROVE  a * d \in Nat /\ a * d <= b * d
  BY SMTT(30)

LEMMA Successor ==
  ASSUME NEW a \in Nat, NEW d \in Nat
  PROVE  (a + 1) * d = a * d + d
  BY SMTT(30)

\* Step 1 of search_chunk stays among the quickrefs.
InCall ==
  /\ pc # "idle" => name \in Nat
  /\ pc = "qr" => L <= R /\ R * dir.density < chunk.said

TypeInv == Inv /\ TypeOK /\ InCall

\* The last quickref is that of the last entries.
LEMMA QuickRefsFit ==
  ASSUME Typed, n < dir.num, chunk.said # 0
  PROVE  LET q == (chunk.said + dir.density - 1) \div dir.density
         IN  /\ q - 1 \in Nat /\ (q - 1) * dir.density < chunk.said
             /\ chunk.said <= (q - 1 + 1) * dir.density
  <1> DEFINE d == dir.density
             a == chunk.said + d - 1
             q == a \div d
  <1>1. d \in Nat /\ d > 0 /\ chunk.said \in Nat /\ a \in Nat
    BY DirType, ChunkType DEF Typed
  <1>2. q - 1 \in Nat
    BY QuickRefsType
  <1> HIDE DEF d
  <1>3. q \in Nat /\ q * d <= a /\ a < q * d + d
    BY <1>1, Quotient
  <1> HIDE DEF q
  <1> DEFINE r == q - 1
  <1>4. r \in Nat /\ q = r + 1
    BY <1>2, <1>3
  <1> HIDE DEF r
  <1>5. q * d = r * d + d /\ r * d \in Nat
    BY <1>1, <1>4, Successor, Multiple
  <1>6. r * d < chunk.said /\ chunk.said <= q * d
    BY <1>1, <1>3, <1>5
  <1>7. q - 1 = r /\ q - 1 + 1 = q
    BY <1>4
  <1> QED BY <1>4, <1>6, <1>7 DEF q, d

\* A group begins and ends inside the chunk, at its end or where the next begins.
LEMMA GroupFits ==
  ASSUME Typed, n < dir.num, NEW M \in Nat, M * dir.density < chunk.said
  PROVE  /\ Group(M) \in 1..chunk.said
         /\ GroupSize(M) \in Nat \ {0}
         /\ Group(M) + GroupSize(M) <= chunk.said + 1
         /\ \/ Group(M) + GroupSize(M) = chunk.said + 1
            \/ Group(M) + GroupSize(M) = Group(M + 1) /\ (M + 1) * dir.density < chunk.said
  <1> DEFINE d == dir.density
             s == M * d
  <1>1. d \in Nat /\ d > 0 /\ chunk.said \in Nat
    BY DirType, ChunkType DEF Typed
  <1> HIDE DEF d
  <1>2. s \in Nat /\ (M + 1) * d = s + d
    BY <1>1, Multiple, Successor
  <1>3. Group(M) = s + 1 /\ Group(M + 1) = s + d + 1
    BY <1>2 DEF Group, d
  <1>4. GroupSize(M) = IF chunk.said - s < d THEN chunk.said - s ELSE d
    BY DEF GroupSize, Smaller, d
  <1>5. s < chunk.said
    BY DEF d
  <1> HIDE DEF s
  <1>6. (M + 1) * dir.density = s + d
    BY <1>2 DEF d
  <1> QED BY <1>1, <1>2, <1>3, <1>4, <1>5, <1>6

\* The two ways on in the binary search.
LEMMA Halves ==
  ASSUME NEW l \in Nat, NEW r \in Nat, l <= r
  PROVE  LET M == (l + r) \div 2
         IN  M \in Nat /\ l <= M /\ M <= r
  BY SMT

LEMMA HalfOfNext ==
  ASSUME NEW r \in Nat
  PROVE  (r + 1 + r) \div 2 = r
  BY SMT

-----------------------------------------------------------------------------
(* The types of all variables.                                              *)

LEMMA FaultsType == MaxFaults \in Nat /\ Names \subseteq Nat
  BY FindAssumption

\* Each action keeps the types.
LEMMA TypeInit == Init => TypeInv
  <1> SUFFICES ASSUME Init PROVE TypeInv
    OBVIOUS
  <1>1. Inv BY InvInit
  <1>2. TypeOK
    <2>1. faults \in 0..MaxFaults
      BY FaultsType DEF Init
    <2> QED BY <2>1 DEF Init, TypeOK, Errors
  <1> QED BY <1>1, <1>2 DEF TypeInv, InCall, Init

LEMMA FaultTyped ==
  ASSUME TypeOK, Fault \/ NoFault
  PROVE  faults' \in 0..MaxFaults /\ failed' \in BOOLEAN
  <1>1. faults' \in 0..MaxFaults
    <2>1. faults \in 0..MaxFaults
      BY DEF TypeOK
    <2> QED BY <2>1, FaultsType DEF Fault, NoFault
  <1>2. failed' \in BOOLEAN
    BY Zenon DEF TypeOK, Fault, NoFault
  <1> QED BY <1>1, <1>2

LEMMA FastFindTyped == ASSUME TypeInv, NEW x \in Names, FastFind(x) PROVE TypeInv'
  <1> USE DEF TypeInv
  <1>1. Inv' BY FastFindKeeps
  <1>2. faults' \in 0..MaxFaults /\ failed' \in BOOLEAN
    <2>1. Fault \/ (faults' = faults /\ failed' = FALSE)
      BY DEF FastFind
    <2>2. CASE Fault
      BY <2>2, FaultTyped
    <2>3. CASE faults' = faults /\ failed' = FALSE
      BY <2>3 DEF TypeOK
    <2> QED BY <2>1, <2>2, <2>3
  <1>3. n' \in Nat
    BY DirType DEF TypeOK, FastFind, HasIndex
  <1>4. TypeOK'
    BY <1>2, <1>3 DEF TypeOK, FastFind, search, Errors, Fault
  <1>5. InCall'
    BY FaultsType DEF InCall, FastFind
  <1> QED BY <1>1, <1>4, <1>5

\* The steps of fast_find() after the first: a step inside a chunk, and one that
\* leaves it.
LEMMA InsideTyped ==
  ASSUME TypeInv, Inside, pc' \in {"search", "qr", "scan", "searched"}, n < dir.num,
         result' \in {-1, 0, 1}, astray' \in BOOLEAN,
         L' \in Nat, R' \in Nat, k' \in Nat, left' \in Nat, best' \in Nat
  PROVE  TypeOK'
  <1>1. faults' \in 0..MaxFaults /\ failed' \in BOOLEAN
    BY FaultTyped DEF TypeInv, Inside
  <1> QED BY <1>1 DEF TypeInv, TypeOK, Inside, Errors

LEMMA OutsideTyped ==
  ASSUME TypeInv, Fault \/ NoFault, UNCHANGED <<dir, name, result, search>>,
         cache' \subseteq 0..dir.num - 1, n' \in Nat,
         found' \in Entry \cup {NULL}, err' \in Errors, lastErr' \in Errors,
         pc # "idle", pc' \in {"idle", "chunk"} \/ (pc' = "search" /\ n' < dir.num)
  PROVE  TypeOK' /\ InCall'
  <1>1. faults' \in 0..MaxFaults /\ failed' \in BOOLEAN
    BY FaultTyped DEF TypeInv
  <1>2. TypeOK'
    BY <1>1 DEF TypeInv, TypeOK, search
  <1>3. InCall'
    BY DEF TypeInv, InCall
  <1> QED BY <1>2, <1>3

LEMMA SearchChunkTyped == ASSUME TypeInv, SearchChunk PROVE TypeInv'
  <1> USE DEF TypeInv
  <1>1. Inv' BY SearchChunkKeeps
  <1>2. n < dir.num /\ Typed /\ Inside
    BY DEF Inv, Typed, InSearch, SearchChunk, Inside, Found
  <1>3. chunk' = chunk /\ dir' = dir /\ name' = name
    BY <1>2, InsideKeeps DEF Inside
  <1> DEFINE q == (chunk.said + dir.density - 1) \div dir.density
  <1>4. chunk.said # 0 => q - 1 \in Nat /\ (q - 1) * dir.density < chunk.said
    BY <1>2, QuickRefsFit
  <1>5. \/ /\ pc' = "searched" /\ result' = -1 /\ UNCHANGED <<L, R, k, left>>
        \/ /\ chunk.said # 0 /\ result' = result /\ pc' \in {"qr", "scan"}
           /\ L' = 0 /\ R' = q - 1 /\ k' = 1 /\ left' = chunk.said
    BY DEF SearchChunk, Found
  <1>6. chunk.said \in Nat /\ best' = 0 /\ astray' = FALSE
    BY <1>2, ChunkType DEF SearchChunk
  <1> HIDE DEF q
  <1>7. /\ pc' \in {"qr", "scan", "searched"} /\ result' \in {-1, 0, 1}
        /\ L' \in Nat /\ R' \in Nat /\ k' \in Nat /\ left' \in Nat
    BY <1>4, <1>5, <1>6 DEF TypeOK
  <1>8. TypeOK'
    BY <1>2, <1>6, <1>7, InsideTyped
  <1>9. InCall'
    <2>1. name \in Nat
      BY DEF InCall, SearchChunk
    <2>2. pc' = "qr" => L' <= R' /\ R' * dir.density < chunk.said
      BY <1>4, <1>5
    <2> QED BY <1>3, <2>1, <2>2 DEF InCall
  <1> QED BY <1>1, <1>8, <1>9

LEMMA ToGroupTyped ==
  ASSUME TypeInv, Inside, n < dir.num, NEW l \in Nat, NEW r \in Nat, ToGroup(l, r),
         l <= r + 1, r * dir.density < chunk.said
  PROVE  TypeOK' /\ InCall'
  <1> USE DEF TypeInv
  <1> DEFINE M == (l + r) \div 2
  <1>1. Typed /\ chunk' = chunk /\ dir' = dir /\ name' = name
    BY InsideKeeps DEF Inv, Inside
  <1>2. M \in Nat /\ M <= r
    <2>1. CASE l <= r
      BY <2>1, Halves
    <2>2. CASE ~(l <= r)
      <3>1. l = r + 1
        BY <2>2
      <3> QED BY <3>1, HalfOfNext
    <2> QED BY <2>1, <2>2
  <1> HIDE DEF M
  <1>3. M * dir.density < chunk.said
    <2>1. dir.density \in Nat /\ chunk.said \in Nat
      BY <1>1, DirType, ChunkType DEF Typed
    <2>2. M * dir.density \in Nat /\ M * dir.density <= r * dir.density /\ r * dir.density \in Nat
      BY <1>2, <2>1, Multiple
    <2> QED BY <2>1, <2>2
  <1>4. First(M) \in Nat /\ GroupSize(M) \in Nat /\ Off(M) \in BOOLEAN
    BY <1>1, <1>2, <1>3, GroupFits, RefType
  <1>5. /\ L' = l /\ R' = r /\ UNCHANGED <<best, result>>
        /\ \/ l <= r /\ pc' = "qr" /\ UNCHANGED <<k, left, astray>>
           \/ pc' = "scan" /\ k' = First(M) /\ left' = GroupSize(M) /\ astray' = Off(M)
    BY DEF ToGroup, M
  <1>6. /\ pc' \in {"qr", "scan"} /\ result' \in {-1, 0, 1} /\ best' \in Nat
        /\ k' \in Nat /\ left' \in Nat /\ astray' \in BOOLEAN
    BY <1>4, <1>5 DEF TypeOK
  <1>7. TypeOK'
    BY <1>5, <1>6, InsideTyped
  <1>8. InCall'
    BY <1>1, <1>5 DEF InCall, Inside
  <1> QED BY <1>7, <1>8

LEMMA QuickRefTyped == ASSUME TypeInv, QuickRef PROVE TypeInv'
  <1> USE DEF TypeInv
  <1> DEFINE M == (L + R) \div 2
             p == First(M)
  <1>1. Inv' BY QuickRefKeeps
  <1>2. n < dir.num /\ Typed /\ Inside /\ L \in Nat /\ R \in Nat /\ pc = "qr"
    BY DEF Inv, Typed, InSearch, TypeOK, QuickRef, Inside, Found, ToGroup
  <1>3. L <= R /\ R * dir.density < chunk.said /\ name \in Nat
    BY <1>2 DEF InCall
  <1>4. M \in Nat /\ L <= M /\ M <= R
    BY <1>2, <1>3, Halves
  <1>5. p \in Nat /\ Off(M) \in BOOLEAN
    BY <1>2, <1>4, RefType
  <1> HIDE DEF M, p
  <1>6. \/ pc' = "searched" /\ result' \in {-1, 0, 1} /\ UNCHANGED <<L, R, k, left>>
           /\ best' \in {best, p} /\ astray' \in {astray, Off(M)}
        \/ M > 0 /\ ToGroup(L, M - 1)
        \/ ToGroup(M + 1, R)
    BY DEF QuickRef, Found, M, p, search
  <1>7. CASE pc' = "searched" /\ result' \in {-1, 0, 1} /\ UNCHANGED <<L, R, k, left>>
             /\ best' \in {best, p} /\ astray' \in {astray, Off(M)}
    <2>1. L' \in Nat /\ R' \in Nat /\ k' \in Nat /\ left' \in Nat /\ best' \in Nat
          /\ astray' \in BOOLEAN
      BY <1>5, <1>7 DEF TypeOK
    <2>2. TypeOK'
      BY <1>2, <1>7, <2>1, InsideTyped
    <2>3. InCall'
      BY <1>2, <1>3, <1>7 DEF InCall, Inside
    <2> QED BY <1>1, <2>2, <2>3
  <1>8. CASE M > 0 /\ ToGroup(L, M - 1)
    <2>1. M - 1 \in Nat /\ L <= M - 1 + 1 /\ M - 1 <= R
      BY <1>2, <1>4, <1>8
    <2>2. (M - 1) * dir.density < chunk.said
      <3>1. dir.density \in Nat /\ chunk.said \in Nat
        BY <1>2, DirType, ChunkType DEF Typed
      <3>2. /\ (M - 1) * dir.density \in Nat /\ R * dir.density \in Nat
            /\ (M - 1) * dir.density <= R * dir.density
        BY <1>2, <2>1, <3>1, Multiple
      <3> QED BY <1>3, <3>1, <3>2
    <2>3. TypeOK' /\ InCall'
      BY <1>2, <1>8, <2>1, <2>2, ToGroupTyped
    <2> QED BY <1>1, <2>3
  <1>9. CASE ToGroup(M + 1, R)
    <2>1. M + 1 \in Nat /\ M + 1 <= R + 1
      BY <1>2, <1>4
    <2>2. TypeOK' /\ InCall'
      BY <1>2, <1>3, <1>9, <2>1, ToGroupTyped
    <2> QED BY <1>1, <2>2
  <1> QED BY <1>6, <1>7, <1>8, <1>9

LEMMA ScanEntryTyped == ASSUME TypeInv, ScanEntry PROVE TypeInv'
  <1> USE DEF TypeInv
  <1>1. Inv' BY ScanEntryKeeps
  <1>2. n < dir.num /\ Inside /\ pc = "scan"
    BY DEF Inv, Typed, InSearch, ScanEntry, Inside, Found, NoMore
  <1>3. pc' \in {"scan", "searched"} /\ result' \in {-1, 0, 1}
    BY <1>2 DEF ScanEntry, Found, NoMore, TypeOK
  <1>4. /\ UNCHANGED <<L, R, astray>> /\ best' \in {best, k}
        /\ UNCHANGED <<k, left>> \/ (left # 0 /\ k' = k + 1 /\ left' = left - 1)
    BY DEF ScanEntry, NoMore, Found, Passed, search
  <1>5. L' \in Nat /\ R' \in Nat /\ k' \in Nat /\ left' \in Nat /\ best' \in Nat
        /\ astray' \in BOOLEAN
    BY <1>4 DEF TypeOK
  <1>6. TypeOK'
    BY <1>2, <1>3, <1>5, InsideTyped
  <1>7. InCall'
    BY <1>2, <1>3 DEF InCall, Inside
  <1> QED BY <1>1, <1>6, <1>7

LEMMA ExhaustedTyped == ASSUME TypeInv, Exhausted PROVE TypeInv'
  <1> USE DEF TypeInv
  <1>1. Inv' BY ExhaustedKeeps
  <1>2. /\ UNCHANGED <<dir, name, result, search>> /\ NoFault /\ cache' \subseteq 0..dir.num - 1
        /\ n' \in Nat /\ found' \in Entry \cup {NULL} /\ err' \in Errors /\ lastErr' \in Errors
        /\ pc # "idle" /\ pc' = "idle"
    BY DEF Exhausted, Return, TypeOK, Errors
  <1> QED BY <1>1, <1>2, OutsideTyped

LEMMA ReadChunkTyped == ASSUME TypeInv, ReadChunk PROVE TypeInv'
  <1> USE DEF TypeInv
  <1>1. Inv' BY ReadChunkKeeps
  <1>2. /\ UNCHANGED <<dir, name, n, result, search>> /\ pc # "idle" /\ n \in Nat
        /\ Fault \/ NoFault
    BY DEF ReadChunk, TypeOK
  <1>3. cache' \subseteq 0..dir.num - 1
    <2>1. cache' = cache \/ (n < dir.num /\ cache' = Cached(n))
      BY DEF ReadChunk
    <2>2. n < dir.num => n \in 0..dir.num - 1
      BY DirType DEF TypeOK
    <2>3. cache \subseteq 0..dir.num - 1
      BY DEF TypeOK
    <2> QED BY <2>1, <2>2, <2>3 DEF Cached
  <1>4. \/ /\ pc' = "search" /\ n < dir.num /\ UNCHANGED <<found, err, lastErr>>
        \/ \E e \in Errors : NoChunk(e)
    BY DEF ReadChunk, TypeOK, Errors
  <1>5. /\ found' \in Entry \cup {NULL} /\ err' \in Errors /\ lastErr' \in Errors
        /\ pc' = "idle" \/ (pc' = "search" /\ n' < dir.num)
    <2>1. CASE pc' = "search" /\ n < dir.num /\ UNCHANGED <<found, err, lastErr>>
      BY <1>2, <2>1 DEF TypeOK
    <2>2. CASE \E e \in Errors : NoChunk(e)
      <3>1. PICK e \in Errors : NoChunk(e)
        BY <2>2
      <3>2. "DATAFORMAT" \in Errors
        BY DEF Errors
      <3>3. found' = NULL /\ pc' = "idle" /\ err' \in {e, "DATAFORMAT"} /\ lastErr' = err'
        BY <3>1 DEF NoChunk, Return
      <3> QED BY <3>2, <3>3
    <2> QED BY <1>4, <2>1, <2>2
  <1>6. n' \in Nat BY <1>2
  <1> QED BY <1>1, <1>2, <1>3, <1>5, <1>6, OutsideTyped

LEMMA SearchedTyped == ASSUME TypeInv, Searched PROVE TypeInv'
  <1> USE DEF TypeInv
  <1>1. Inv' BY SearchedKeeps
  <1>2. /\ UNCHANGED <<dir, name, result, search, cache>> /\ pc = "searched" /\ NoFault
        /\ n \in Nat /\ n < dir.num /\ Typed
    BY DEF Searched, TypeOK, Inv, Typed, InSearch
  <1>3. result > 0 => best \in DOMAIN entries
    BY <1>2 DEF Inv, Narrowed
  <1>4. result > 0 => entries[best] \in Entry /\ entries[best].to \in Nat
    <2>1. result > 0 => astray \in BOOLEAN BY DEF TypeInv, TypeOK
    <2> QED BY <1>2, <1>3, <2>1, ChunkType DEF entries
  <1>5. chunk.next \in Nat
    BY <1>2, ChunkType
  <1>6. \/ found' = NULL /\ Return("DATAFORMAT") /\ UNCHANGED n
        \/ GoesDown /\ n' = entries[best].to /\ pc' = "chunk" /\ UNCHANGED <<found, err, lastErr>>
        \/ n' = chunk.next /\ pc' = "chunk" /\ UNCHANGED <<found, err, lastErr>>
        \/ Conclude /\ UNCHANGED n
    BY DEF Searched
  <1>7. n' \in Nat
    BY <1>2, <1>4, <1>5, <1>6 DEF GoesDown
  <1>8. /\ found' \in Entry \cup {NULL} /\ err' \in Errors /\ lastErr' \in Errors
        /\ pc' \in {"idle", "chunk"}
    BY <1>4, <1>6 DEF Conclude, Return, Errors, TypeOK
  <1>9. cache' \subseteq 0..dir.num - 1
    BY <1>2 DEF TypeOK
  <1> QED BY <1>1, <1>2, <1>7, <1>8, <1>9, OutsideTyped

LEMMA StutterTyped == ASSUME TypeInv, UNCHANGED vars PROVE TypeInv'
  <1>1. Inv' BY StutterKeeps DEF TypeInv
  <1>2. TypeOK' BY DEF TypeInv, TypeOK, vars, search
  <1>3. InCall' BY DEF TypeInv, InCall, vars, search, chunk
  <1> QED BY <1>1, <1>2, <1>3 DEF TypeInv

LEMMA TypeAlways == TypeInv /\ [Next]_vars => TypeInv'
  BY FastFindTyped, SearchChunkTyped, QuickRefTyped, ScanEntryTyped, ExhaustedTyped,
     ReadChunkTyped, SearchedTyped, StutterTyped DEF Next, Steps

-----------------------------------------------------------------------------
(* Where the search is: the course that it keeps in a well-formed directory. *)

NameEntered == \E e \in Entered : e.name = name

\* The entries of the chunk: what p goes through, as long as it is not astray.
Own == chunk.entries

\* Where the search is on its way: the chunk it turns to has the name below it,
\* or no chunk before it has it.
Heading ==
  IF HasIndex
    THEN n < dir.num /\ (NameEntered => name \in Below[n])
    ELSE /\ dir.first <= n /\ (pc # "chunk" => n <= dir.last)
         /\ \A c \in dir.first..dir.last : c < n => name \notin NamesOf(c)
         /\ pc = "chunk" /\ n > dir.first => result = 0

\* The quickrefs before l are before the name, and those after r behind it.
Between(l, r) ==
  /\ l \in Nat /\ r \in Nat /\ l <= r + 1 /\ r * dir.density < chunk.said
  /\ l > 0 => Own[Group(l - 1)].name < name
  /\ (r + 1) * dir.density < chunk.said => name < Own[Group(r + 1)].name

InGroup ==
  /\ k \in Nat \ {0} /\ left \in Nat /\ k + left <= Len(Own) + 1
  /\ \A x \in DOMAIN Own : /\ x < k => Own[x].name < name
                           /\ x >= k + left => name < Own[x].name
  /\ best # 0 => best = k - 1
  /\ best = 0 /\ ~chunk.pmgl => k = 1 \/ (left > 0 /\ Own[k].name < name)

Answered ==
  /\ result \in {0, 1}
  /\ chunk.pmgl /\ result = 0 => name \notin NamesOf(n)
  /\ ~chunk.pmgl /\ result = 0 => \A x \in DOMAIN Own : name < Own[x].name
  /\ ~chunk.pmgl /\ result = 1 =>
       /\ best \in DOMAIN Own /\ Own[best].name <= name
       /\ best < Len(Own) => name < Own[best + 1].name

Place ==
  /\ pc = "qr" => Between(L, R) /\ best = 0
  /\ pc = "scan" => InGroup
  /\ pc = "searched" => Answered

Right ==
  /\ err = "OK"
  /\ IF NameEntered THEN found \in Entered /\ found.name = name ELSE found = NULL

OnCourse ==
  WellFormed => /\ pc # "idle" => Heading /\ Place
                /\ Returned /\ ~failed => Right

FindInv == TypeInv /\ OnCourse

\* Nothing writes to the file.
LEMMA SameDirectory ==
  ASSUME UNCHANGED dir
  PROVE  UNCHANGED <<WellFormed, Entered, Below>>
  <1>1. UNCHANGED Below
    BY DEF Below, EntriesOf
  <1>2. UNCHANGED Entered
    BY DEF Entered, EntriesOf
  <1>3. UNCHANGED WellFormed
    BY <1>1, <1>2 DEF WellFormed, HasIndex, Increasing
  <1> QED BY <1>1, <1>2, <1>3

\* What WellFormed says of a chunk.
Whole(c) ==
  LET es == dir.chunk[c].entries IN
  /\ dir.chunk[c].sig /\ ~dir.chunk[c].cut
  /\ dir.chunk[c].said = Len(es) /\ es \in Seq(Entry) /\ Len(es) \in Nat \ {0}
  /\ dir.chunk[c].ref = <<>>
  /\ \A x \in 1..Len(es) : es[x] \in Entry /\ es[x].name \in Nat
  /\ \A a, b \in 1..Len(es) : a < b => es[a].name < es[b].name
  /\ dir.chunk[c].pmgl <=> c \in dir.first..dir.last
  /\ c \in dir.first..dir.last - 1 => dir.chunk[c].next = c + 1
  /\ c = dir.last => dir.chunk[c].next > dir.last
  /\ ~dir.chunk[c].pmgl => \A x \in DOMAIN es :
       /\ es[x].to \in 0..dir.num - 1
       /\ \A m \in Below[es[x].to] : es[x].name <= m /\ (x < Len(es) => m < es[x + 1].name)

\* WellFormed, unfolded once for all the steps in a chunk.
LEMMA WholeChunks ==
  ASSUME dir \in Dirs, WellFormed, NEW c \in 0..dir.num - 1
  PROVE  Whole(c)
  <1> DEFINE es == dir.chunk[c].entries
  <1>1. dir.chunk[c] \in Chunk /\ dir.num \in Nat
    BY DirType
  <1>2. es \in Seq(Entry) /\ Len(es) \in Nat
    BY <1>1 DEF Chunk
  <1>3. /\ dir.chunk[c].sig /\ ~dir.chunk[c].cut
        /\ dir.chunk[c].said = Len(es) /\ es # <<>> /\ Increasing(es)
        /\ dir.chunk[c].ref = <<>>
        /\ dir.chunk[c].pmgl <=> c \in dir.first..dir.last
        /\ c \in dir.first..dir.last - 1 => dir.chunk[c].next = c + 1
        /\ c = dir.last => dir.chunk[c].next > dir.last
        /\ ~dir.chunk[c].pmgl => \A x \in DOMAIN es :
             /\ es[x].to < dir.num
             /\ \A m \in Below[es[x].to] :
                  es[x].name <= m /\ (x < Len(es) => m < es[x + 1].name)
    BY DEF WellFormed
  <1> HIDE DEF es
  <1>4. Len(es) # 0
    BY <1>2, <1>3
  <1>5. ASSUME NEW x \in 1..Len(es) PROVE es[x] \in Entry /\ es[x].name \in Nat /\ es[x].to \in Nat
    <2>1. es[x] \in Entry
      BY <1>2
    <2> QED BY <2>1 DEF Entry
  <1>6. \A a, b \in 1..Len(es) : a < b => es[a].name < es[b].name
    BY <1>2, <1>3, Sorted
  <1>7. DOMAIN es = 1..Len(es)
    BY <1>2
  <1>8. ~dir.chunk[c].pmgl => \A x \in DOMAIN es :
          /\ es[x].to \in 0..dir.num - 1
          /\ \A m \in Below[es[x].to] :
               es[x].name <= m /\ (x < Len(es) => m < es[x + 1].name)
    BY <1>1, <1>3, <1>5, <1>7
  <1> QED BY <1>2, <1>3, <1>4, <1>5, <1>6, <1>8 DEF Whole, es

\* A name of a chunk is that of one of its entries.
LEMMA EntryOf ==
  ASSUME NEW c, NEW m \in NamesOf(c)
  PROVE  \E x \in DOMAIN dir.chunk[c].entries : m = dir.chunk[c].entries[x].name
  BY DEF NamesOf, EntriesOf

\* A well-formed index leaves no chunk number dangling.
LEMMA LinksAreWhole ==
  ASSUME dir \in Dirs, WellFormed
  PROVE  LinksExist
  <1> SUFFICES ASSUME NEW c \in 0..dir.num - 1, ~dir.chunk[c].pmgl, NEW e \in EntriesOf(c)
               PROVE  e.to \in 0..dir.num - 1
    BY DEF LinksExist
  <1>1. PICK x \in DOMAIN dir.chunk[c].entries : e = dir.chunk[c].entries[x]
    BY DEF EntriesOf
  <1> QED BY <1>1, WholeChunks DEF Whole

\* The chunk the search is in.
LEMMA Here ==
  ASSUME TypeInv, WellFormed, pc \in {"search", "qr", "scan", "searched"}
  PROVE  /\ n \in 0..dir.num - 1 /\ Whole(n) /\ Typed /\ n < dir.num /\ dir \in Dirs
         /\ chunk.said = Len(Own) /\ chunk.pmgl \in BOOLEAN
         /\ Len(Own) \in Nat \ {0} /\ DOMAIN Own = 1..Len(Own)
         /\ \A x \in DOMAIN Own : Own[x].name \in Nat
         /\ \A a, b \in DOMAIN Own : a < b => Own[a].name < Own[b].name
         /\ name \in Nat
         /\ pc # "search" => entries = Own
         /\ \A M \in Nat : First(M) = Group(M) /\ Off(M) = FALSE /\ Run(Off(M)) = Own
  <1>1. Typed /\ n < dir.num /\ dir \in Dirs /\ n \in Nat
    BY DEF TypeInv, TypeOK, Inv
  <1>2. n \in 0..dir.num - 1
    BY <1>1, DirType
  <1>3. Whole(n)
    BY <1>1, <1>2, WholeChunks
  <1>4. name \in Nat
    BY DEF TypeInv, InCall
  <1>5. Own \in Seq(Entry) /\ chunk.pmgl \in BOOLEAN
    BY <1>1, <1>3, ChunkType DEF Whole, chunk, Own
  <1>6. DOMAIN Own = 1..Len(Own)
    BY <1>5
  <1>7. chunk.ref = <<>>
    BY <1>3 DEF Whole, chunk
  <1>8. pc # "search" => entries = Own
    <2> SUFFICES ASSUME pc # "search" PROVE entries = Own
      OBVIOUS
    <2>1. astray \in BOOLEAN /\ (astray => ~Sound(n))
      BY DEF TypeInv, Inv, Narrowed
    <2>2. Sound(n)
      BY <1>7 DEF Sound, chunk
    <2> QED BY <2>1, <2>2 DEF entries, Run, Own
  <1>9. ASSUME NEW M \in Nat
        PROVE  First(M) = Group(M) /\ Off(M) = FALSE /\ Run(Off(M)) = Own
    <2>1. Ref(M) = Group(M)
      BY <1>7 DEF Ref
    <2>2. Off(M) = FALSE
      <3>1. Group(M) # 0
        <4>1. dir.density \in Nat BY <1>1, DirType
        <4>2. \A a, b \in Nat : a * b \in Nat BY SMT
        <4> QED BY <4>1, <4>2 DEF Group
      <3> QED BY <2>1, <3>1 DEF Off
    <2> QED BY <2>1, <2>2 DEF First, Run, Own
  <1> QED BY <1>1, <1>2, <1>3, <1>4, <1>5, <1>6, <1>8, <1>9 DEF Whole, chunk, Own

\* Each action keeps the course.
LEMMA CourseInit == Init => OnCourse
  BY DEF Init, OnCourse, Returned

LEMMA FastFindCourse == ASSUME FindInv, NEW x \in Names, FastFind(x) PROVE OnCourse'
  <1> USE DEF FindInv
  <1> SUFFICES ASSUME WellFormed' PROVE (pc # "idle" => Heading /\ Place)' /\ (Returned /\ ~failed => Right)'
    BY DEF OnCourse
  <1>1. dir' = dir /\ dir \in Dirs
    BY DEF FastFind, TypeInv, TypeOK
  <1>2. WellFormed /\ Below' = Below /\ Entered' = Entered
    BY <1>1, SameDirectory
  <1>3. CASE /\ pc' = "chunk" /\ n' = (IF HasIndex THEN dir.root ELSE dir.first)
    <2>1. Place'
      BY <1>3 DEF Place
    <2>2. Heading'
      <3>1. HasIndex' = HasIndex
        BY <1>1 DEF HasIndex
      <3>2. CASE HasIndex
        <4>1. n' = dir.root /\ n' < dir'.num
          BY <1>1, <1>3, <3>2 DEF HasIndex
        <4>2. {e.name : e \in Entered} \subseteq Below[dir.root]
          BY <1>2, <3>2 DEF WellFormed
        <4>3. NameEntered' => name' \in Below'[n']
          BY <1>2, <4>1, <4>2 DEF NameEntered
        <4> QED BY <3>1, <3>2, <4>1, <4>3 DEF Heading
      <3>3. CASE ~HasIndex
        <4>1. n' = dir.first /\ dir.first \in Nat
          BY <1>1, <1>3, <3>3, DirType
        <4> QED BY <1>1, <1>3, <3>1, <3>3, <4>1 DEF Heading
      <3> QED BY <3>2, <3>3
    <2> QED BY <1>3, <2>1, <2>2 DEF Returned
  <1>4. CASE Fault
    <2>1. pc' # "idle" => pc' = "chunk" /\ n' = (IF HasIndex THEN dir.root ELSE dir.first)
      BY DEF FastFind
    <2> QED BY <1>3, <1>4, <2>1 DEF Fault
  <1> QED BY <1>3, <1>4 DEF FastFind

\* A step inside a chunk leaves the heading.
LEMMA InsideCourse ==
  ASSUME FindInv, Inside, pc \in {"search", "qr", "scan"}, pc' # "chunk",
         WellFormed => Place'
  PROVE  OnCourse'
  <1> USE DEF FindInv
  <1>1. UNCHANGED <<dir, name, n, chunk, Own>> /\ pc # "idle" /\ pc' # "idle"
    BY InsideKeeps DEF Inside, TypeInv, Own
  <1>2. UNCHANGED <<WellFormed, Entered, Below>>
    BY <1>1, SameDirectory
  <1>3. UNCHANGED <<HasIndex, NameEntered>>
    BY <1>1, <1>2 DEF HasIndex, NameEntered
  <1>4. \A c : NamesOf(c)' = NamesOf(c)
    BY <1>1 DEF NamesOf, EntriesOf
  <1>5. Heading => Heading'
    BY <1>1, <1>2, <1>3, <1>4 DEF Heading
  <1> QED BY <1>1, <1>2, <1>5 DEF OnCourse, Returned

\* Step 1 begins between the first and the last quickref.
LEMMA SearchChunkCourse == ASSUME FindInv, SearchChunk PROVE OnCourse'
  <1> USE DEF FindInv
  <1>1. Inside /\ pc = "search" /\ pc' # "chunk"
    BY DEF SearchChunk, Inside, Found
  <1>2. UNCHANGED <<dir, name, n, chunk, Own>>
    BY <1>1, InsideKeeps DEF Inside, TypeInv, Own
  <1>3. ASSUME WellFormed PROVE Place'
    <2>1. /\ Typed /\ n < dir.num /\ chunk.said = Len(Own) /\ Len(Own) \in Nat \ {0}
          /\ DOMAIN Own = 1..Len(Own)
      BY <1>1, <1>3, Here
    <2> DEFINE q == (chunk.said + dir.density - 1) \div dir.density
    <2>2. q - 1 \in Nat /\ (q - 1) * dir.density < chunk.said /\ chunk.said <= (q - 1 + 1) * dir.density
      BY <2>1, QuickRefsFit
    <2>3. /\ best' = 0 /\ L' = 0 /\ R' = q - 1 /\ k' = 1 /\ left' = chunk.said
          /\ pc' \in {"qr", "scan"}
      BY <2>1 DEF SearchChunk
    <2> HIDE DEF q
    <2>4. Between(0, q - 1)
      <3>1. dir.density \in Nat /\ chunk.said \in Nat
        BY <2>1, DirType DEF Typed
      <3>2. (q - 1 + 1) * dir.density \in Nat
        BY <2>2, <3>1, Multiple
      <3> QED BY <2>2, <3>1, <3>2 DEF Between
    <2>5. Between(L, R)'
      BY <1>2, <2>3, <2>4 DEF Between, Group
    <2>6. InGroup'
      BY <1>2, <2>1, <2>3 DEF InGroup
    <2> QED BY <2>3, <2>5, <2>6 DEF Place
  <1> QED BY <1>1, <1>3, InsideCourse

\* The entry of a quickref is one of the chunk's.
LEMMA GroupNumber ==
  ASSUME Typed, n < dir.num, NEW M \in Nat, M * dir.density < chunk.said,
         chunk.said = Len(Own), Len(Own) \in Nat, DOMAIN Own = 1..Len(Own)
  PROVE  Group(M) \in DOMAIN Own
  BY GroupFits

\* "skip to the group": the loop of step 1 goes on between l and r, or ends.
LEMMA ToGroupPlace ==
  ASSUME TypeInv, WellFormed, Inside, pc = "qr", NEW l, NEW r, ToGroup(l, r), Between(l, r),
         best = 0
  PROVE  Place'
  <1>1. UNCHANGED <<dir, name, n, chunk, Own>>
    BY InsideKeeps DEF Inside, TypeInv, Own
  <1>2. /\ Typed /\ n < dir.num /\ chunk.said = Len(Own) /\ Len(Own) \in Nat \ {0}
        /\ DOMAIN Own = 1..Len(Own) /\ name \in Nat
        /\ \A x \in DOMAIN Own : Own[x].name \in Nat
        /\ \A a, b \in DOMAIN Own : a < b => Own[a].name < Own[b].name
        /\ \A M \in Nat : First(M) = Group(M)
    BY Here
  <1>3. l \in Nat /\ r \in Nat /\ l <= r + 1 /\ r * dir.density < chunk.said
    BY DEF Between
  <1>4. best' = 0 /\ L' = l /\ R' = r
    BY DEF ToGroup
  <1>5. CASE l <= r
    <2>1. pc' = "qr"
      BY <1>5 DEF ToGroup
    <2>2. Between(L, R)'
      BY <1>1, <1>4 DEF Between, Group
    <2> QED BY <1>4, <2>1, <2>2 DEF Place
  <1>6. CASE ~(l <= r)
    <2>1. l = r + 1 /\ l > 0 /\ l - 1 = r
      BY <1>3, <1>6
    <2>2. (l + r) \div 2 = r
      BY <1>3, <2>1, HalfOfNext
    <2>3. pc' = "scan" /\ k' = Group(r) /\ left' = GroupSize(r)
      BY <1>2, <1>3, <1>6, <2>2 DEF ToGroup
    <2>4. /\ Group(r) \in 1..chunk.said
          /\ GroupSize(r) \in Nat \ {0}
          /\ Group(r) + GroupSize(r) <= chunk.said + 1
          /\ \/ Group(r) + GroupSize(r) = chunk.said + 1
             \/ Group(r) + GroupSize(r) = Group(r + 1) /\ (r + 1) * dir.density < chunk.said
      BY <1>2, <1>3, GroupFits
    <2>5. Own[Group(r)].name < name
      BY <2>1 DEF Between
    <2>6. \A x \in DOMAIN Own : x < Group(r) => Own[x].name < name
      <3> SUFFICES ASSUME NEW x \in DOMAIN Own, x < Group(r) PROVE Own[x].name < name
        OBVIOUS
      <3>1. Group(r) \in DOMAIN Own
        BY <1>2, <2>4
      <3>2. Own[x].name < Own[Group(r)].name
        BY <1>2, <3>1
      <3>3. Own[x].name \in Nat /\ Own[Group(r)].name \in Nat
        BY <1>2, <3>1
      <3> QED BY <1>2, <2>5, <3>2, <3>3
    <2>7. \A x \in DOMAIN Own : x >= Group(r) + GroupSize(r) => name < Own[x].name
      <3> SUFFICES ASSUME NEW x \in DOMAIN Own, x >= Group(r) + GroupSize(r)
                   PROVE  name < Own[x].name
        OBVIOUS
      <3>1. Group(r) + GroupSize(r) = Group(r + 1) /\ (r + 1) * dir.density < chunk.said
        BY <1>2, <2>4
      <3>2. name < Own[Group(r + 1)].name
        BY <3>1 DEF Between
      <3>3. Group(r + 1) \in DOMAIN Own /\ Group(r + 1) <= x
        BY <1>2, <2>4, <3>1
      <3>4. x = Group(r + 1) \/ Own[Group(r + 1)].name < Own[x].name
        BY <1>2, <3>3
      <3>5. Own[x].name \in Nat /\ Own[Group(r + 1)].name \in Nat
        BY <1>2, <3>3
      <3> QED BY <1>2, <3>2, <3>4, <3>5
    <2>8. InGroup'
      BY <1>1, <1>2, <1>4, <2>3, <2>4, <2>5, <2>6, <2>7 DEF InGroup
    <2> QED BY <2>3, <2>8 DEF Place
  <1> QED BY <1>5, <1>6

LEMMA QuickRefCourse == ASSUME FindInv, QuickRef PROVE OnCourse'
  <1> USE DEF FindInv
  <1>1. pc = "qr" /\ Inside /\ pc' # "chunk"
    BY DEF QuickRef, Inside, Found, ToGroup
  <1>2. UNCHANGED <<dir, name, n, chunk, Own>>
    BY <1>1, InsideKeeps DEF Inside, TypeInv, Own
  <1>3. ASSUME WellFormed PROVE Place'
    <2>1. /\ Typed /\ n < dir.num /\ chunk.said = Len(Own) /\ Len(Own) \in Nat \ {0}
          /\ DOMAIN Own = 1..Len(Own) /\ name \in Nat /\ chunk.pmgl \in BOOLEAN
          /\ \A x \in DOMAIN Own : Own[x].name \in Nat
          /\ \A a, b \in DOMAIN Own : a < b => Own[a].name < Own[b].name
      BY <1>1, <1>3, Here
    <2>2. Between(L, R) /\ best = 0 /\ L <= R
      BY <1>1, <1>3 DEF OnCourse, Place, TypeInv, InCall
    <2> DEFINE M == (L + R) \div 2
               p == Group(M)
    <2>3. L \in Nat /\ R \in Nat /\ R * dir.density < chunk.said
      BY <2>2 DEF Between
    <2>4. M \in Nat /\ L <= M /\ M <= R
      BY <2>2, <2>3, Halves
    <2>5. dir.density \in Nat
      BY <2>1, DirType DEF Typed
    <2> HIDE DEF M
    <2>6. M * dir.density < chunk.said
      <3>1. M * dir.density <= R * dir.density /\ M * dir.density \in Nat /\ R * dir.density \in Nat
        BY <2>3, <2>4, <2>5, Multiple
      <3> QED BY <2>1, <2>3, <3>1
    <2>7. p \in DOMAIN Own
      BY <2>1, <2>4, <2>6, GroupNumber
    <2>12. First(M) = p /\ Run(Off(M)) = Own
      BY <1>1, <1>3, <2>4, Here
    <2> HIDE DEF p
    <2>8. CASE name = Own[p].name
      <3>1. pc' = "searched" /\ result' = 1 /\ best' = p
        BY <2>1, <2>7, <2>8, <2>12 DEF QuickRef, Found, M
      <3>2. p < Len(Own) => p + 1 \in DOMAIN Own /\ p < p + 1
        BY <2>1, <2>7
      <3>3. p < Len(Own) => Own[p].name < Own[p + 1].name
        BY <2>1, <2>7, <3>2
      <3>4. Own[p].name <= name
        BY <2>1, <2>7, <2>8
      <3>5. Answered'
        BY <1>2, <2>7, <2>8, <3>1, <3>3, <3>4 DEF Answered
      <3> QED BY <3>1, <3>5 DEF Place
    <2>9. CASE name < Own[p].name /\ M > 0
      <3>1. ToGroup(L, M - 1)
        BY <2>1, <2>7, <2>9, <2>12 DEF QuickRef, M
      <3>2. M - 1 \in Nat /\ L <= M - 1 + 1 /\ M - 1 + 1 = M /\ M - 1 <= R
        BY <2>3, <2>4, <2>9
      <3>3. (M - 1) * dir.density < chunk.said
        <4>1. /\ (M - 1) * dir.density <= R * dir.density /\ (M - 1) * dir.density \in Nat
              /\ R * dir.density \in Nat
          BY <2>3, <2>5, <3>2, Multiple
        <4> QED BY <2>1, <2>3, <4>1
      <3>4. L > 0 => Own[Group(L - 1)].name < name
        BY <2>2 DEF Between
      <3>5. name < Own[Group(M - 1 + 1)].name
        BY <2>9, <3>2 DEF p
      <3>6. Between(L, M - 1)
        BY <2>3, <3>2, <3>3, <3>4, <3>5 DEF Between
      <3> QED BY <1>1, <1>3, <2>2, <3>1, <3>6, ToGroupPlace
    <2>10. CASE name < Own[p].name /\ ~(M > 0)
      <3>1. pc' = "searched" /\ result' = 0
        BY <2>1, <2>7, <2>10, <2>12 DEF QuickRef, M, Found
      <3>2. p = 1
        <4>1. M = 0 /\ 0 * dir.density = 0
          BY <2>4, <2>5, <2>10
        <4> QED BY <4>1 DEF p, Group
      <3>3. ASSUME NEW x \in DOMAIN Own PROVE name < Own[x].name
        <4>1. x = 1 \/ Own[1].name < Own[x].name
          BY <2>1, <2>7, <3>2
        <4>2. Own[1].name \in Nat /\ Own[x].name \in Nat
          BY <2>1, <2>7, <3>2
        <4> QED BY <2>1, <2>10, <3>2, <4>1, <4>2
      <3>4. name \notin NamesOf(n)
        <4> SUFFICES ASSUME name \in NamesOf(n) PROVE FALSE
          OBVIOUS
        <4>1. PICK x \in DOMAIN Own : name = Own[x].name
          BY EntryOf DEF Own, chunk
        <4> QED BY <2>1, <3>3, <4>1
      <3>5. Answered'
        <4>1. NamesOf(n)' = NamesOf(n)
          BY <1>2 DEF NamesOf, EntriesOf
        <4> QED BY <1>2, <3>1, <3>3, <3>4, <4>1 DEF Answered
      <3> QED BY <3>1, <3>5 DEF Place
    <2>11. CASE ~(name = Own[p].name) /\ ~(name < Own[p].name)
      <3> DEFINE l == M + 1
      <3>1. ToGroup(l, R)
        BY <2>1, <2>7, <2>11, <2>12 DEF QuickRef, M
      <3>2. l \in Nat /\ l <= R + 1 /\ l - 1 = M
        BY <2>3, <2>4
      <3> HIDE DEF l
      <3>3. Own[p].name < name
        BY <2>1, <2>7, <2>11
      <3>4. Own[Group(l - 1)].name < name
        BY <3>2, <3>3 DEF p
      <3>5. (R + 1) * dir.density < chunk.said => name < Own[Group(R + 1)].name
        BY <2>2 DEF Between
      <3>6. Between(l, R)
        BY <2>3, <3>2, <3>4, <3>5 DEF Between
      <3> QED BY <1>1, <1>3, <2>2, <3>1, <3>6, ToGroupPlace
    <2> QED BY <2>8, <2>9, <2>10, <2>11
  <1> QED BY <1>1, <1>3, InsideCourse

LEMMA ScanEntryCourse == ASSUME FindInv, ScanEntry PROVE OnCourse'
  <1> USE DEF FindInv
  <1>1. pc = "scan" /\ Inside /\ pc' # "chunk"
    BY DEF ScanEntry, Inside, Found, NoMore
  <1>2. UNCHANGED <<dir, name, n, chunk, Own>>
    BY <1>1, InsideKeeps DEF Inside, TypeInv, Own
  <1>3. ASSUME WellFormed PROVE Place'
    <2>1. /\ chunk.said = Len(Own) /\ Len(Own) \in Nat \ {0}
          /\ DOMAIN Own = 1..Len(Own) /\ name \in Nat /\ chunk.pmgl \in BOOLEAN
          /\ \A x \in DOMAIN Own : Own[x].name \in Nat
          /\ \A a, b \in DOMAIN Own : a < b => Own[a].name < Own[b].name
      BY <1>1, <1>3, Here
    <2>9. entries = Own
      BY <1>1, <1>3, Here
    <2>2. ~chunk.cut
      BY <1>1, <1>3, Here DEF Whole, chunk
    <2>3. InGroup
      BY <1>1, <1>3 DEF OnCourse, Place
    <2>4. /\ k \in Nat \ {0} /\ left \in Nat /\ k + left <= Len(Own) + 1
          /\ best # 0 => best = k - 1
          /\ \A x \in DOMAIN Own : /\ x < k => Own[x].name < name
                                   /\ x >= k + left => name < Own[x].name
      BY <2>3 DEF InGroup
    <2>5. left # 0 => k \in DOMAIN Own
      BY <2>1, <2>4
    <2>6. CASE left = 0 \/ name < Own[k].name
      <3>1. /\ pc' = "searched" /\ UNCHANGED best
            /\ result' = IF ~chunk.pmgl /\ best # 0 THEN 1 ELSE 0
        BY <2>1, <2>5, <2>6, <2>9 DEF ScanEntry, NoMore, Found, search
      <3>2. \A x \in DOMAIN Own : x >= k => name < Own[x].name
        <4> SUFFICES ASSUME NEW x \in DOMAIN Own, x >= k PROVE name < Own[x].name
          OBVIOUS
        <4>1. CASE left = 0
          BY <2>1, <2>4, <4>1
        <4>2. CASE left # 0
          <5>1. k \in DOMAIN Own /\ name < Own[k].name
            BY <2>5, <2>6, <4>2
          <5>2. x = k \/ Own[k].name < Own[x].name
            BY <2>1, <2>4, <5>1
          <5>3. Own[k].name \in Nat /\ Own[x].name \in Nat
            BY <2>1, <5>1
          <5> QED BY <2>1, <5>1, <5>2, <5>3
        <4> QED BY <4>1, <4>2
      <3>3. name \notin NamesOf(n)
        <4> SUFFICES ASSUME name \in NamesOf(n) PROVE FALSE
          OBVIOUS
        <4>1. PICK x \in DOMAIN Own : name = Own[x].name
          BY EntryOf DEF Own, chunk
        <4>2. Own[x].name < name \/ name < Own[x].name
          BY <2>1, <2>4, <3>2
        <4> QED BY <2>1, <4>1, <4>2
      <3>4. best = 0 /\ ~chunk.pmgl => \A x \in DOMAIN Own : name < Own[x].name
        <4> SUFFICES ASSUME best = 0, ~chunk.pmgl PROVE \A x \in DOMAIN Own : name < Own[x].name
          OBVIOUS
        <4>1. k = 1 \/ (left > 0 /\ Own[k].name < name)
          BY <2>3 DEF InGroup
        <4>2. k = 1
          <5>1. ASSUME left > 0, Own[k].name < name PROVE FALSE
            <6>1. k \in DOMAIN Own /\ name < Own[k].name
              BY <2>4, <2>5, <2>6, <5>1
            <6> QED BY <2>1, <5>1, <6>1
          <5> QED BY <4>1, <5>1
        <4> QED BY <2>1, <3>2, <4>2
      <3>5. best # 0 => /\ best \in DOMAIN Own /\ Own[best].name < name
                        /\ best < Len(Own) => name < Own[best + 1].name
        <4> SUFFICES ASSUME best # 0
                     PROVE  /\ best \in DOMAIN Own /\ Own[best].name < name
                            /\ best < Len(Own) => name < Own[best + 1].name
          OBVIOUS
        <4>1. best = k - 1 /\ best \in Nat \ {0}
          BY <2>4 DEF TypeInv, TypeOK
        <4>2. best + 1 = k /\ best < k /\ best <= Len(Own)
          BY <2>1, <2>4, <4>1
        <4>3. best \in DOMAIN Own
          BY <2>1, <4>1, <4>2
        <4>4. best < Len(Own) => k \in DOMAIN Own /\ k >= k
          BY <2>1, <4>1, <4>2
        <4> QED BY <2>4, <3>2, <4>2, <4>3, <4>4
      <3>6. best \in DOMAIN Own /\ Own[best].name < name => Own[best].name <= name
        BY <2>1
      <3>7. Answered'
        <4>1. NamesOf(n)' = NamesOf(n)
          BY <1>2 DEF NamesOf, EntriesOf
        <4> QED BY <1>2, <3>1, <3>3, <3>4, <3>5, <3>6, <4>1 DEF Answered
      <3> QED BY <3>1, <3>7 DEF Place
    <2>7. CASE left # 0 /\ name = Own[k].name
      <3>1. pc' = "searched" /\ result' = 1 /\ best' = k /\ k \in DOMAIN Own
        BY <2>1, <2>5, <2>7, <2>9 DEF ScanEntry, Found
      <3>2. k < Len(Own) => k + 1 \in DOMAIN Own /\ k < k + 1
        BY <2>1, <3>1
      <3>3. k < Len(Own) => Own[k].name < Own[k + 1].name
        BY <2>1, <3>1, <3>2
      <3>4. Own[k].name <= name
        BY <2>1, <2>7, <3>1
      <3>5. Answered'
        BY <1>2, <2>7, <3>1, <3>3, <3>4 DEF Answered
      <3> QED BY <3>1, <3>5 DEF Place
    <2>8. CASE left # 0 /\ name # Own[k].name /\ ~(name < Own[k].name)
      <3>1. k \in DOMAIN Own /\ Own[k].name < name
        BY <2>1, <2>5, <2>8
      <3>2. best' = Passed /\ k' = k + 1 /\ left' = left - 1 /\ pc' = pc
        BY <2>1, <2>2, <2>8, <3>1, <2>9 DEF ScanEntry
      <3>3. k' \in Nat \ {0} /\ left' \in Nat /\ k' + left' = k + left /\ k' # 1
        BY <2>4, <2>8, <3>2
      <3>4. \A x \in DOMAIN Own : x < k' => Own[x].name < name
        <4> SUFFICES ASSUME NEW x \in DOMAIN Own, x < k' PROVE Own[x].name < name
          OBVIOUS
        <4>1. x < k \/ x = k
          BY <2>1, <2>4, <3>2
        <4> QED BY <2>4, <3>1, <4>1
      <3>5. best' # 0 => best' = k' - 1
        <4>1. chunk.pmgl => best = 0
          <5>1. best = 0 \/ ~chunk.pmgl
            BY <1>1 DEF TypeInv, Inv, Narrowed
          <5> QED BY <5>1
        <4>2. CASE chunk.pmgl
          BY <3>2, <4>1, <4>2 DEF Passed
        <4>3. CASE ~chunk.pmgl
          BY <2>4, <3>2, <4>3 DEF Passed
        <4> QED BY <4>2, <4>3
      <3>6. ~chunk.pmgl => best' # 0
        BY <2>4, <3>2 DEF Passed
      <3>7. InGroup'
        <4>1. k' + left' <= Len(Own) + 1
          BY <2>4, <3>3
        <4>2. \A x \in DOMAIN Own : x >= k' + left' => name < Own[x].name
          BY <2>4, <3>3
        <4> QED BY <1>2, <3>3, <3>4, <3>5, <3>6, <4>1, <4>2 DEF InGroup
      <3> QED BY <1>1, <3>2, <3>7 DEF Place
    <2> QED BY <2>6, <2>7, <2>8
  <1> QED BY <1>1, <1>3, InsideCourse

\* All PMGL chunks have been searched, and none of them has the name.
LEMMA ExhaustedCourse == ASSUME FindInv, Exhausted PROVE OnCourse'
  <1> USE DEF FindInv
  <1>1. pc = "chunk" /\ ~HasIndex /\ n > dir.last /\ pc' = "idle" /\ dir' = dir /\ name' = name
    BY DEF Exhausted, Return
  <1> SUFFICES ASSUME WellFormed' PROVE Right'
    BY <1>1 DEF OnCourse
  <1>2. WellFormed /\ Entered' = Entered
    BY <1>1, SameDirectory
  <1>3. Heading /\ n \in Nat /\ dir \in Dirs
    BY <1>1, <1>2 DEF OnCourse, TypeInv, TypeOK
  <1>4. dir.first \in Nat /\ dir.last \in Nat /\ dir.first <= dir.last
    BY <1>2, <1>3, FindAssumption DEF WellFormed
  <1>5. result = 0
    BY <1>1, <1>3, <1>4 DEF Heading
  <1>6. err' = "OK" /\ found' = NULL
    BY <1>5 DEF Exhausted, Return
  <1>7. ~NameEntered
    <2> SUFFICES ASSUME NEW e \in Entered, e.name = name PROVE FALSE
      BY DEF NameEntered
    <2>1. PICK c \in dir.first..dir.last : e \in EntriesOf(c)
      BY DEF Entered
    <2>2. c < n
      BY <1>1, <1>3, <1>4
    <2>3. name \in NamesOf(c)
      BY <2>1 DEF NamesOf
    <2> QED BY <1>1, <1>3, <2>2, <2>3 DEF Heading
  <1>8. ~NameEntered'
    BY <1>1, <1>2, <1>7 DEF NameEntered
  <1> QED BY <1>6, <1>8 DEF Right

\* A chunk of a well-formed directory is refused only by a call that fails.
LEMMA ReadChunkCourse == ASSUME FindInv, ReadChunk PROVE OnCourse'
  <1> USE DEF FindInv
  <1>1. /\ pc = "chunk" /\ UNCHANGED <<dir, name, n, result, search>>
        /\ HasIndex \/ n <= dir.last
    BY DEF ReadChunk
  <1> SUFFICES ASSUME WellFormed'
               PROVE  (pc # "idle" => Heading /\ Place)' /\ (Returned /\ ~failed => Right)'
    BY DEF OnCourse
  <1>2. WellFormed /\ UNCHANGED <<Entered, Below>>
    BY <1>1, SameDirectory
  <1>3. Heading /\ n \in Nat /\ dir \in Dirs /\ name \in Nat
    BY <1>1, <1>2 DEF OnCourse, TypeInv, TypeOK, InCall
  <1>4. n < dir.num
    <2>1. dir.last < dir.num /\ dir.last \in Nat /\ dir.num \in Nat
      BY <1>2, <1>3, FindAssumption DEF WellFormed
    <2> QED BY <1>1, <1>3, <2>1 DEF Heading
  <1>5. dir.chunk[n].sig
    <2>1. n \in 0..dir.num - 1
      BY <1>3, <1>4, DirType
    <2> QED BY <1>2, <1>3, <2>1, WholeChunks DEF Whole
  <1>6. Fault \/ pc' = "search"
    <2>1. dir.num \in Nat
      BY <1>3, DirType
    <2> QED BY <1>3, <1>4, <1>5, <2>1 DEF ReadChunk
  <1>7. CASE pc' = "search"
    <2>1. UNCHANGED <<HasIndex, NameEntered>>
      BY <1>1, <1>2 DEF HasIndex, NameEntered
    <2>2. \A c : NamesOf(c)' = NamesOf(c)
      BY <1>1 DEF NamesOf, EntriesOf
    <2>3. Heading'
      BY <1>1, <1>2, <1>3, <1>7, <2>1, <2>2 DEF Heading
    <2> QED BY <1>7, <2>3 DEF Place, Returned
  <1>8. CASE Fault /\ pc' # "search"
    <2>1. failed' /\ pc' = "idle"
      BY <1>8 DEF ReadChunk, Fault, NoChunk, Return
    <2> QED BY <2>1
  <1> QED BY <1>6, <1>7, <1>8

\* A name below an index chunk is below the entry that its place in the order says.
LEMMA ListedBelow ==
  ASSUME TypeInv, WellFormed, HasIndex, NEW c \in 0..dir.num - 1, ~dir.chunk[c].pmgl,
         name \in Below[c], name \in Nat
  PROVE  \E x \in DOMAIN dir.chunk[c].entries :
           /\ name \in Below[dir.chunk[c].entries[x].to]
           /\ dir.chunk[c].entries[x].name <= name
           /\ x < Len(dir.chunk[c].entries) => name < dir.chunk[c].entries[x + 1].name
  <1>1. dir \in Dirs
    BY DEF TypeInv, TypeOK
  <1>2. LinksExist
    BY <1>1, LinksAreWhole
  <1>3. PICK e \in EntriesOf(c) : name \in Below[e.to]
    BY <1>1, <1>2, BelowIndex
  <1>4. PICK x \in DOMAIN dir.chunk[c].entries : e = dir.chunk[c].entries[x]
    BY DEF EntriesOf
  <1>5. Whole(c)
    BY <1>1, WholeChunks
  <1> QED BY <1>3, <1>4, <1>5 DEF Whole

\* A name has one place in the order of a chunk.
LEMMA OnlyOnePlace ==
  ASSUME NEW es, NEW m \in Nat, Len(es) \in Nat, DOMAIN es = 1..Len(es),
         \A x \in DOMAIN es : es[x].name \in Nat,
         \A a, b \in DOMAIN es : a < b => es[a].name < es[b].name,
         NEW x \in DOMAIN es, es[x].name <= m, x < Len(es) => m < es[x + 1].name,
         NEW y \in DOMAIN es, es[y].name <= m, y < Len(es) => m < es[y + 1].name
  PROVE  x = y
  <1>1. ASSUME NEW a \in DOMAIN es, NEW b \in DOMAIN es, a < b,
               m < es[a + 1].name, es[b].name <= m
        PROVE  FALSE
    <2>1. a + 1 \in DOMAIN es
      BY <1>1
    <2>2. a + 1 = b \/ es[a + 1].name < es[b].name
      BY <1>1, <2>1
    <2>3. es[a + 1].name \in Nat /\ es[b].name \in Nat
      BY <1>1, <2>1
    <2> QED BY <1>1, <2>2, <2>3
  <1>2. ~(x < y)
    BY <1>1
  <1>3. ~(y < x)
    BY <1>1
  <1> QED BY <1>2, <1>3

\* Down, on, or to the answer.
LEMMA SearchedCourse == ASSUME FindInv, Searched PROVE OnCourse'
  <1> USE DEF FindInv
  <1>1. pc = "searched" /\ UNCHANGED <<dir, name, result, search>>
    BY DEF Searched
  <1> SUFFICES ASSUME WellFormed'
               PROVE  (pc # "idle" => Heading /\ Place)' /\ (Returned /\ ~failed => Right)'
    BY DEF OnCourse
  <1>2. WellFormed /\ UNCHANGED <<Entered, Below>>
    BY <1>1, SameDirectory
  <1>3. UNCHANGED <<HasIndex, NameEntered>> /\ \A c : NamesOf(c)' = NamesOf(c)
    BY <1>1, <1>2 DEF HasIndex, NameEntered, NamesOf, EntriesOf
  <1>4. /\ n \in 0..dir.num - 1 /\ Whole(n) /\ dir \in Dirs
        /\ Len(Own) \in Nat \ {0} /\ DOMAIN Own = 1..Len(Own)
        /\ \A x \in DOMAIN Own : Own[x].name \in Nat
        /\ \A a, b \in DOMAIN Own : a < b => Own[a].name < Own[b].name
        /\ name \in Nat /\ chunk.pmgl \in BOOLEAN /\ entries = Own
    BY <1>1, <1>2, Here
  <1>5. Heading /\ Answered
    BY <1>1, <1>2 DEF OnCourse, Place
  <1>6. /\ ~chunk.cut
        /\ chunk.pmgl <=> n \in dir.first..dir.last
        /\ n \in dir.first..dir.last - 1 => chunk.next = n + 1
        /\ n = dir.last => chunk.next > dir.last
        /\ chunk.sig
    BY <1>4 DEF Whole, chunk
  <1>7. dir.first \in Nat /\ dir.last \in Nat /\ dir.num \in Nat /\ dir.first <= dir.last
    BY <1>2, <1>4, FindAssumption DEF WellFormed
  <1>8. result \in {0, 1}
    BY <1>5 DEF Answered
  <1>9. ~HasIndex => chunk.pmgl
    BY <1>1, <1>4, <1>5, <1>6, <1>7 DEF Heading
  <1>10. CASE GoesDown
    <2>1. HasIndex /\ result = 1 /\ ~chunk.pmgl
      BY <1>8, <1>10 DEF GoesDown
    <2>2. n' = Own[best].to /\ pc' = "chunk"
      BY <1>4, <1>6, <1>10, <2>1 DEF Searched, GoesOn
    <2>3. /\ best \in DOMAIN Own /\ Own[best].name <= name
          /\ best < Len(Own) => name < Own[best + 1].name
      BY <1>5, <2>1 DEF Answered
    <2>4. n' \in 0..dir.num - 1
      BY <1>4, <2>1, <2>2, <2>3 DEF Whole, chunk, Own
    <2>5. n' < dir.num
      BY <1>7, <2>4
    <2>6. ASSUME NameEntered PROVE name \in Below[n']
      <3>1. name \in Below[n]
        BY <1>5, <2>1, <2>6 DEF Heading
      <3>2. PICK x \in DOMAIN Own :
              /\ name \in Below[Own[x].to] /\ Own[x].name <= name
              /\ x < Len(Own) => name < Own[x + 1].name
        BY <1>2, <1>4, <2>1, <3>1, ListedBelow DEF chunk, Own
      <3>3. x = best
        BY <1>4, <2>3, <3>2, OnlyOnePlace
      <3> QED BY <2>2, <3>2, <3>3
    <2>7. Heading'
      BY <1>1, <1>2, <1>3, <2>1, <2>5, <2>6 DEF Heading
    <2> QED BY <2>2, <2>7 DEF Place, Returned
  <1>11. CASE GoesOn
    <2>1. ~HasIndex /\ result = 0 /\ chunk.pmgl /\ n \in dir.first..dir.last
      BY <1>6, <1>8, <1>9, <1>11 DEF GoesOn
    <2>2. n' = chunk.next /\ pc' = "chunk"
      BY <1>11, <2>1 DEF Searched, GoesDown
    <2>3. n < n' /\ n' \in Int /\ (n' = n + 1 \/ n = dir.last)
      <3>1. CASE n = dir.last
        <4>1. chunk.next > dir.last
          BY <1>6, <3>1
        <4>2. chunk.next \in Nat
          BY <1>1, ChunkType DEF TypeInv, TypeOK, Inv
        <4> QED BY <1>7, <2>2, <3>1, <4>1, <4>2
      <3>2. CASE n # dir.last
        <4>1. n \in dir.first..dir.last - 1
          BY <1>7, <2>1, <3>2
        <4> QED BY <1>6, <1>7, <2>2, <4>1
      <3> QED BY <3>1, <3>2
    <2>4. name \notin NamesOf(n)
      BY <1>5, <2>1 DEF Answered
    <2>5. ASSUME NEW c \in dir.first..dir.last, c < n' PROVE name \notin NamesOf(c)
      <3>1. c < n \/ c = n
        BY <1>7, <2>1, <2>3, <2>5
      <3> QED BY <1>5, <2>1, <2>4, <3>1 DEF Heading
    <2>6. dir.first <= n'
      BY <1>7, <2>1, <2>3
    <2>7. Heading'
      BY <1>1, <1>3, <2>1, <2>2, <2>5, <2>6 DEF Heading
    <2> QED BY <2>2, <2>7 DEF Place, Returned
  <1>12. CASE ~GoesDown /\ ~GoesOn
    <2>1. Conclude
      BY <1>12 DEF Searched
    <2>2. pc' = "idle"
      BY <2>1 DEF Conclude, Return
    <2>3. CASE result = 0
      <3>1. found' = NULL /\ err' = "OK"
        BY <2>1, <2>3 DEF Conclude, Return
      <3>2. HasIndex
        <4> SUFFICES ASSUME ~HasIndex PROVE FALSE
          OBVIOUS
        <4>1. n = chunk.next
          BY <1>12, <2>3 DEF GoesOn
        <4>2. n \in dir.first..dir.last
          BY <1>6, <1>9
        <4>3. n = dir.last \/ n \in dir.first..dir.last - 1
          BY <1>7, <4>2
        <4> QED BY <1>6, <1>7, <4>1, <4>2, <4>3
      <3>3. ~NameEntered
        <4> SUFFICES ASSUME NameEntered PROVE FALSE
          OBVIOUS
        <4>1. name \in Below[n]
          BY <1>5, <3>2 DEF Heading
        <4>2. CASE chunk.pmgl
          <5>1. Below[n] = NamesOf(n)
            BY <1>4, <4>2, BelowLeaf DEF chunk
          <5> QED BY <1>5, <2>3, <4>1, <4>2, <5>1 DEF Answered
        <4>3. CASE ~chunk.pmgl
          <5>1. PICK x \in DOMAIN Own : Own[x].name <= name
            BY <1>2, <1>4, <3>2, <4>1, <4>3, ListedBelow DEF chunk, Own
          <5>2. name < Own[x].name
            BY <1>5, <2>3, <4>3 DEF Answered
          <5> QED BY <1>4, <5>1, <5>2
        <4> QED BY <1>4, <4>2, <4>3
      <3> QED BY <1>3, <2>2, <3>1, <3>3 DEF Right
    <2>4. CASE result = 1
      <3>1. chunk.pmgl
        BY <1>4, <1>9, <1>12, <2>4 DEF GoesDown
      <3>2. best \in DOMAIN Own /\ Own[best].name = name
        BY <1>1, <1>4, <2>4, <3>1 DEF TypeInv, Inv, Narrowed
      <3>3. found' = Own[best] /\ err' = "OK"
        BY <1>4, <1>6, <2>1, <2>4 DEF Conclude, Return
      <3>4. Own[best] \in EntriesOf(n)
        BY <3>2 DEF EntriesOf, Own, chunk
      <3>5. n \in dir.first..dir.last /\ n < dir.num /\ dir.chunk[n].sig /\ dir.chunk[n].pmgl
        BY <1>4, <1>6, <1>7, <3>1 DEF chunk
      <3>6. Own[best] \in Entered
        BY <3>4, <3>5 DEF Entered
      <3>7. NameEntered'
        BY <1>3, <3>2, <3>6 DEF NameEntered
      <3> QED BY <1>1, <1>2, <2>2, <3>2, <3>3, <3>6, <3>7 DEF Right
    <2> QED BY <1>8, <2>3, <2>4
  <1> QED BY <1>10, <1>11, <1>12

LEMMA StutterCourse == ASSUME FindInv, UNCHANGED vars PROVE OnCourse'
  <1> USE DEF FindInv
  <1>1. /\ UNCHANGED <<dir, name, n, pc, result, found, err, failed, L, R, k, left, best>>
        /\ UNCHANGED <<chunk, Own>>
    BY DEF vars, search, chunk, Own
  <1>2. UNCHANGED <<WellFormed, Entered, Below>>
    BY <1>1, SameDirectory
  <1>3. UNCHANGED <<HasIndex, NameEntered>> /\ \A c : NamesOf(c)' = NamesOf(c)
    BY <1>1, <1>2 DEF HasIndex, NameEntered, NamesOf, EntriesOf
  <1>4. Heading => Heading'
    BY <1>1, <1>2, <1>3 DEF Heading
  <1>5. Place => Place'
    BY <1>1, <1>3 DEF Place, Between, Group, InGroup, Answered
  <1>6. Right => Right'
    BY <1>1, <1>2, <1>3 DEF Right
  <1> QED BY <1>1, <1>2, <1>4, <1>5, <1>6 DEF OnCourse, Returned

\* In a well-formed directory fast_find() finds every file that open() lists, and
\* besides them only the entries that open() skips.
THEOREM FindsWhatIsListed == Spec => []FindsListed
  <1>1. Init => FindInv
    BY TypeInit, CourseInit DEF FindInv
  <1>2. FindInv /\ [Next]_vars => FindInv'
    <2>1. FindInv /\ [Next]_vars => TypeInv'
      BY TypeAlways DEF FindInv
    <2>2. FindInv /\ [Next]_vars => OnCourse'
      BY FastFindCourse, SearchChunkCourse, QuickRefCourse, ScanEntryCourse, ExhaustedCourse,
         ReadChunkCourse, SearchedCourse, StutterCourse DEF Next, Steps
    <2> QED BY <2>1, <2>2 DEF FindInv
  <1>3. FindInv => FindsListed
    <2> SUFFICES ASSUME FindInv, Returned, ~failed, WellFormed, NEW e \in Listed, e.name = name
                 PROVE  found \in Listed
      BY DEF FindInv, TypeInv, OnCourse, FindsListed, Right, NameEntered
    <2>1. e \in Entered
      BY DEF Listed
    <2>2. found \in Entered /\ found.name = name
      BY <2>1 DEF FindInv, OnCourse, Right, NameEntered
    <2>3. found = e
      BY <2>1, <2>2 DEF WellFormed
    <2> QED BY <2>3
  <1> QED BY <1>1, <1>2, <1>3, PTL DEF Spec
=============================================================================
