---------------------------- MODULE ManagedCabs ----------------------------
(***************************************************************************)
(* The .NET classes MSCabinet and MSCompressedFile over the native library *)
(* (through cabd_dotnet_wrapper.c): which native object each managed object*)
(* owns, who frees what and when, and what a managed copy of a native      *)
(* structure is worth later.  The program and the finalizer thread act     *)
(* concurrently; a Close() is three steps, every other call is one.        *)
(*                                                                         *)
(* Native cabinets are what CabSetView says of them.  Address reuse is left*)
(* out (CabSets has it).  Garbage collection is the runtime's, modelled as *)
(* what the code may rely on: an object is finalized, once, some time after*)
(* nothing refers to it any more.                                          *)
(***************************************************************************)
EXTENDS Integers, Sequences, FiniteSets, SequencesExt

CONSTANTS
  Obj,       \* the MSCabinet objects; each opens a cabinet of its own
  Files,     \* [Obj -> Nat]: how many files its cabinet lists
  Follows,   \* the pairs <<o, n>> such that n's cabinet continues o's
  Split,     \* those whose first file is continued from the cabinet before
  NULL

\* what a mscabd_file is known by: whose cabinet listed it, and which one it is
Node == UNION {{<<o, n>> : n \in 1..Files[o]} : o \in Obj}

ASSUME ManagedAssumption ==
  /\ Files \in [Obj -> Nat \ {0}] /\ Follows \subseteq Obj \X Obj /\ Split \subseteq Obj
  /\ NULL \notin Obj /\ NULL \notin Node

VARIABLES
  cab,       \* [Obj -> Life]: the native cabinet that o opened
  sets,      \* the native cabinet sets, in order
  listing,   \* [Obj -> Seq(Node)]: the native file list of o's set
  dec,       \* [Obj -> Life]: the native decompressor that o created
  folder,    \* [Obj -> Obj or NULL]: whose folder that one has cached in self->d
  obj,       \* [Obj -> Managed]: the fields of o
  phase,     \* [Obj -> Phases]: what the program has of o
  finalizable, \* the objects whose finalizer is still to run
  closing,   \* [{"program", "finalizer"} -> Obj or NULL]: the Close() it is in
  file,      \* the MSCompressedFile the program holds, or NULL
  fault,     \* the memory fault that has ended the program, or "none"
  joined,    \* history: the objects that have been in a successful Append()
  disposed,  \* history: the objects whose Close() the program has called
  rightSet   \* history: a cabinet that others had been appended to was appended

managed == <<obj, phase, finalizable, closing, file>>
native == <<cab, sets, listing, dec, folder>>
history == <<joined, disposed, rightSet>>
vars == <<cab, sets, listing, dec, folder, obj, phase, finalizable, closing, file, fault,
          joined, disposed, rightSet>>

Life == {"none", "live", "freed"}
Phases == {"new", "held", "dropped"}

\* _pNativeCabinet, _pDecompressor and _pCabinetFilenamePinned are not Zero;
\* head is _nativeCabinet.files.
Managed == [cab : BOOLEAN, dec : BOOLEAN, name : BOOLEAN, head : Node \cup {NULL}]

\* node is _pNativeFile; next is _nativeFile.next.
File == [parent : Obj, node : Node, next : Node \cup {NULL}]

TypeOK ==
  /\ cab \in [Obj -> Life] /\ dec \in [Obj -> Life]
  /\ UNION {ToSet(s) : s \in sets} = {o \in Obj : cab[o] = "live"} /\ <<>> \notin sets
  /\ \A o \in Obj : ToSet(listing[o]) \subseteq Node
  /\ folder \in [Obj -> Obj \cup {NULL}]
  /\ obj \in [Obj -> Managed]
  /\ phase \in [Obj -> Phases]
  /\ finalizable \subseteq Obj
  /\ closing \in [{"program", "finalizer"} -> Obj \cup {NULL}]
  /\ file \in File \cup {NULL}
  /\ fault \in {"none", "null", "file", "cabinet", "closed"}
  /\ joined \subseteq Obj /\ disposed \subseteq Obj /\ rightSet \in BOOLEAN

Init ==
  /\ cab = [o \in Obj |-> "none"] /\ dec = [o \in Obj |-> "none"]
  /\ sets = {} /\ listing = [o \in Obj |-> <<>>]
  /\ folder = [o \in Obj |-> NULL]
  /\ obj = [o \in Obj |-> [cab |-> FALSE, dec |-> FALSE, name |-> FALSE, head |-> NULL]]
  /\ phase = [o \in Obj |-> "new"]
  /\ finalizable = {}
  /\ closing = [t \in {"program", "finalizer"} |-> NULL]
  /\ file = NULL /\ fault = "none"
  /\ joined = {} /\ disposed = {} /\ rightSet = FALSE

\* Nothing happens after a crash, and the program makes one call at a time.
Running == fault = "none"
Calls == Running /\ closing["program"] = NULL

SetOf(o) == CHOOSE s \in sets : o \in ToSet(s)

\* a file node is live while some live cabinet lists it
LiveNode(n) == \E o \in Obj : cab[o] = "live" /\ n \in ToSet(listing[o])

Crash(why) ==
  /\ fault' = why
  /\ UNCHANGED <<native, managed, history>>

-----------------------------------------------------------------------------
(* The constructor.                                                         *)

Opened(o) ==
  /\ cab' = [cab EXCEPT ![o] = "live"]
  /\ sets' = sets \cup {<<o>>}
  /\ listing' = [listing EXCEPT ![o] = [n \in 1..Files[o] |-> <<o, n>>]]

\* Mutant: no finalizer for an object whose constructor throws.
FinalizableIfBuilt(o, built) == IF built THEN {o} ELSE {}

\* The runtime registers the object before its constructor runs.
Finalizable(o, built) == {o}

Construct(o) ==
  LET
    built == /\ Opened(o)
             /\ dec' = [dec EXCEPT ![o] = "live"]
             /\ obj' = [obj EXCEPT ![o] = [cab |-> TRUE, dec |-> TRUE, name |-> TRUE,
                                           head |-> <<o, 1>>]]
             /\ phase' = [phase EXCEPT ![o] = "held"]
             /\ finalizable' = finalizable \cup Finalizable(o, TRUE)
    \* an exception: the program never sees the object
    thrown(hasDec) ==
             /\ dec' = [dec EXCEPT ![o] = IF hasDec THEN "live" ELSE "none"]
             /\ obj' = [obj EXCEPT ![o] = [cab |-> FALSE, dec |-> hasDec, name |-> TRUE,
                                           head |-> NULL]]
             /\ phase' = [phase EXCEPT ![o] = "dropped"]
             /\ finalizable' = finalizable \cup Finalizable(o, FALSE)
             /\ UNCHANGED <<cab, sets, listing>>
  IN
  /\ Calls /\ phase[o] = "new"
  /\ \/ (built \/ thrown(FALSE) \/ thrown(TRUE)) /\ UNCHANGED <<folder, closing, file, fault, history>>
     \* the wrapper reads cab->files of a cabinet that open() could not open,
     \* unless the compiler leaves the unused read out
     \/ Crash("null")

-----------------------------------------------------------------------------
(* Close(), from Dispose() or from the finalizer.                           *)

Dispose(o) ==
  /\ Calls /\ phase[o] = "held"
  /\ closing' = [closing EXCEPT !["program"] = o]
  /\ disposed' = disposed \cup {o}
  /\ UNCHANGED <<native, obj, phase, finalizable, file, fault, joined, rightSet>>

Finalize(o) ==
  /\ Running /\ closing["finalizer"] = NULL
  /\ phase[o] = "dropped" /\ o \in finalizable
  /\ closing' = [closing EXCEPT !["finalizer"] = o]
  /\ finalizable' = finalizable \ {o}
  /\ UNCHANGED <<native, obj, phase, file, fault, history>>

\* Mutant: self->d outlives the cabinet it points into.
DecoderAfterKept(o, gone) == folder

\* cabd_close frees self->d if its folder is one of those it frees.
DecoderAfter(o, gone) ==
  IF folder[o] \in gone THEN [folder EXCEPT ![o] = NULL] ELSE folder

\* Mutant: _pNativeCabinet keeps its value.
WithoutCabKept(m) == m
WithoutCab(m) == [m EXCEPT !.cab = FALSE]

\* Mutant: the cabinet's siblings stay.
ClosedWithOnly(o) == {o}

\* "closes a cabinet, all cabinets associated with it"
ClosedWith(o) == ToSet(SetOf(o))

CloseCab(t) ==
  LET o == closing[t]
      gone == ClosedWith(o)
  IN
  /\ Running /\ o # NULL /\ obj[o].cab
  /\ \/ cab[o] = "freed" /\ Crash("closed")
     \/ /\ cab[o] = "live"
        /\ cab' = [c \in Obj |-> IF c \in gone THEN "freed" ELSE cab[c]]
        /\ sets' = sets \ {SetOf(o)}
        /\ folder' = DecoderAfter(o, gone)
        /\ obj' = [obj EXCEPT ![o] = WithoutCab(@)]
        /\ UNCHANGED <<listing, dec, phase, finalizable, closing, file, fault, history>>

DestroyDec(t) ==
  LET o == closing[t]
  IN
  /\ Running /\ o # NULL /\ ~obj[o].cab /\ obj[o].dec
  /\ dec' = [dec EXCEPT ![o] = "freed"]
  /\ folder' = [folder EXCEPT ![o] = NULL]
  /\ obj' = [obj EXCEPT ![o].dec = FALSE]
  /\ UNCHANGED <<cab, sets, listing, phase, finalizable, closing, file, fault, history>>

\* Mutant: in the order of the constructor.
NameUnusedFirst(m) == TRUE
NameUnused(m) == ~m.cab /\ ~m.dec

FreeName(t) ==
  LET o == closing[t]
  IN
  /\ Running /\ o # NULL /\ NameUnused(obj[o])
  /\ obj' = [obj EXCEPT ![o].name = FALSE]
  /\ finalizable' = finalizable \ {o}
  /\ closing' = [closing EXCEPT ![t] = NULL]
  /\ UNCHANGED <<native, phase, file, fault, history>>

-----------------------------------------------------------------------------
(* References.                                                              *)

\* Mutant: an MSCompressedFile does not refer to its MSCabinet.
ReferredNot(o) == closing["program"] = o

Referred(o) ==
  closing["program"] = o \/ (file # NULL /\ file.parent = o)

\* The program lets go of o.
Drop(o) ==
  /\ Running /\ phase[o] = "held" /\ ~Referred(o)
  /\ phase' = [phase EXCEPT ![o] = "dropped"]
  /\ UNCHANGED <<native, obj, finalizable, closing, file, fault, history>>

-----------------------------------------------------------------------------
(* Append().                                                                *)

\* what cabd_merge takes: the end of one set, the beginning of another
Matches(l, r) ==
  /\ SetOf(l) # SetOf(r) /\ Last(SetOf(l)) = l /\ Head(SetOf(r)) = r
  /\ <<l, r>> \in Follows

JoinedListing(l, r) ==
  listing[l] \o (IF r \in Split THEN Tail(listing[r]) ELSE listing[r])

\* Mutant: only this object's copy is made anew.
RemarshalledThis(l, r) == {l}

\* "remarshal over the nativeCabinet struct"
Remarshalled(l, r) == {l, r}

\* The exceptions, and a self->append of a decompressor that is gone: Append()
\* is the one call that does not look whether its object was disposed.
AppendFails(l, r) ==
  /\ Calls /\ l # r /\ phase[l] = "held" /\ phase[r] = "held"
  /\ \/ ~obj[l].dec /\ Crash("null")
     \/ /\ obj[l].cab /\ obj[r].cab
        /\ cab[l] = "freed" \/ cab[r] = "freed"
        /\ Crash("cabinet")

Append_(l, r) ==
  LET whole == SetOf(l) \o SetOf(r)
      joint == JoinedListing(l, r)
  IN
  /\ Calls /\ phase[l] = "held" /\ phase[r] = "held"
  /\ obj[l].cab /\ obj[l].dec /\ obj[r].cab
  /\ cab[l] = "live" /\ cab[r] = "live"
  /\ Matches(l, r)
  /\ sets' = (sets \ {SetOf(l), SetOf(r)}) \cup {whole}
  /\ listing' = [o \in Obj |-> IF o \in ToSet(whole) THEN joint ELSE listing[o]]
  /\ obj' = [o \in Obj |-> IF o \in Remarshalled(l, r) THEN [obj[o] EXCEPT !.head = joint[1]]
                           ELSE obj[o]]
  /\ joined' = joined \cup ToSet(whole)
  /\ rightSet' = (rightSet \/ Len(SetOf(r)) > 1)
  /\ UNCHANGED <<cab, dec, folder, phase, finalizable, closing, file, fault, disposed>>

-----------------------------------------------------------------------------
(* GetFiles() and MSCompressedFile.                                         *)

NextOf(n) ==
  LET o == CHOOSE c \in Obj : cab[c] = "live" /\ n \in ToSet(listing[c])
      at == CHOOSE i \in DOMAIN listing[o] : listing[o][i] = n
  IN  IF at = Len(listing[o]) THEN NULL ELSE listing[o][at + 1]

\* new MSCompressedFile(o, n) copies the native structure.
Marshal(o, n) ==
  \/ ~LiveNode(n) /\ Crash("file")
  \/ /\ LiveNode(n)
     /\ file' = [parent |-> o, node |-> n, next |-> NextOf(n)]
     /\ UNCHANGED <<native, obj, phase, finalizable, closing, fault, history>>

GetFiles(o) ==
  /\ Calls /\ phase[o] = "held"
  /\ obj[o].cab /\ obj[o].dec
  /\ Marshal(o, obj[o].head)

Next_ ==
  /\ Calls /\ file # NULL /\ file.next # NULL
  /\ Marshal(file.parent, file.next)

\* The enumeration is over, or the program keeps no file.
Forget ==
  /\ Calls /\ file # NULL
  /\ file' = NULL
  /\ UNCHANGED <<native, obj, phase, finalizable, closing, fault, history>>

ExtractTo ==
  LET o == file.parent
  IN
  /\ Calls /\ file # NULL
  /\ obj[o].cab /\ obj[o].dec
  /\ \/ ~LiveNode(file.node) /\ Crash("file")
     \/ /\ LiveNode(file.node)
        /\ folder' = [folder EXCEPT ![o] = file.node[1]]
        /\ UNCHANGED <<cab, sets, listing, dec, managed, fault, history>>

-----------------------------------------------------------------------------
Closing(t) == CloseCab(t) \/ DestroyDec(t) \/ FreeName(t)

Next ==
  \/ \E o \in Obj : Construct(o) \/ Dispose(o) \/ Finalize(o) \/ Drop(o) \/ GetFiles(o)
  \/ \E t \in DOMAIN closing : CloseCab(t) \/ DestroyDec(t) \/ FreeName(t)
  \/ \E l, r \in Obj : AppendFails(l, r) \/ Append_(l, r)
  \/ Next_ \/ Forget \/ ExtractTo

Spec == Init /\ [][Next]_vars

\* The runtime's finalizer thread runs every finalizer that is due, and a
\* Close() that has begun goes on.
FairSpec ==
  /\ Spec
  /\ \A o \in Obj : WF_vars(Finalize(o))
  /\ \A t \in {"program", "finalizer"} : WF_vars(Closing(t))
-----------------------------------------------------------------------------
(* Properties.                                                              *)

\* "needs to be pinned as we use the address in unmanaged code": as long as a
\* native cabinet is open its filename is there to be opened again.
FilenameOutlives == \A o \in Obj : cab[o] = "live" => obj[o].name

\* A program that does not append cabinets never makes a native call on a freed
\* one, in whatever order it disposes and drops objects and the finalizer runs.
AloneNeverFreedTwice == fault \in {"cabinet", "closed"} => joined # {}

\* While the program holds a file of a cabinet it has neither disposed nor
\* joined, the file is there, however the collector is timed.
HeldFileLives ==
  file # NULL /\ file.parent \notin joined \cup disposed => LiveNode(file.node)

\* A live decompressor's self->d never points into a freed cabinet, unless
\* another object's decompressor has closed the set.
DecoderFolderLives ==
  \A o \in Obj : dec[o] = "live" /\ folder[o] # NULL /\ folder[o] \notin joined
                   => cab[folder[o]] = "live"

\* No pointer that the program or a decompressor goes by is to freed memory, but
\* for those that joining cabinets has exposed.
NothingFreedInUse == TypeOK /\ AloneNeverFreedTwice /\ HeldFileLives /\ DecoderFolderLives

HeadCurrent(o) ==
  cab[o] = "live" /\ obj[o].cab => obj[o].head = Head(listing[o])

\* Sets that grow at their end: every member's GetFiles() starts at the head of
\* the common list.
HeadsCurrent == rightSet \/ \A o \in Obj : HeadCurrent(o)

\* "Do NOT close() more than one cabinet in the set."
ClosedOnce == fault # "closed"

\* Every object that nothing refers to, also one whose constructor threw, gives
\* back its cabinet, its decompressor and its filename in the end.
Reclaimed ==
  \A o \in Obj :
    phase[o] = "dropped" ~>
      fault # "none" \/ (cab[o] # "live" /\ dec[o] # "live" /\ ~obj[o].name)
=============================================================================
