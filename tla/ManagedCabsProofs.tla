------------------------- MODULE ManagedCabsProofs -------------------------
(***************************************************************************)
(* Theorems about the .NET layer, for any number of cabinets, of files in  *)
(* them, and of joins, and for every timing of the finalizer thread.       *)
(*                                                                         *)
(* Whether a pointer dangles depends on who may close what.  An object that*)
(* was never joined is alone in its set, so that only its own Close() can  *)
(* free what it has; and a copy of a native structure refers to the        *)
(* object's own files or to those of objects that have been joined.  The   *)
(* invariant says so of each place that holds a reference.                 *)
(***************************************************************************)
EXTENDS ManagedCabs, TLAPS

\* the files of o's own cabinet
Own(o) == {<<o, n>> : n \in 1..Files[o]}
OwnListing(o) == [n \in 1..Files[o] |-> <<o, n>>]

Alone(o) == o \notin joined
Untouched(o) == o \notin joined \cup disposed

\* The native sets share no cabinet, and one that was never joined is a set.
SetsKept ==
  /\ sets \subseteq Seq(Obj)
  /\ \A s, t \in sets : s # t => ToSet(s) \cap ToSet(t) = {}
  /\ \A s \in sets : \A o \in ToSet(s) : Alone(o) => s = <<o>>

\* The members of a set have one list, of files of the members.
ListsKept ==
  /\ listing \in [Obj -> Seq(Node)]
  /\ \A s \in sets : \A o \in ToSet(s) :
       /\ listing[o] # <<>>
       /\ \A m \in ToSet(s) : listing[m] = listing[o]
       /\ \A n \in ToSet(listing[o]) : n[1] \in ToSet(s)

\* What an object has of its cabinet, from its constructor to its Close().
LifeKept(o) ==
  /\ phase[o] = "new" => cab[o] = "none" /\ folder[o] = NULL
  /\ cab[o] = "live" => obj[o].cab /\ obj[o].name
  /\ obj[o].cab => cab[o] # "none"
  /\ Alone(o) /\ obj[o].cab =>
       cab[o] = "live" /\ listing[o] = OwnListing(o) /\ obj[o].head = <<o, 1>>
  /\ Untouched(o) /\ phase[o] = "held" => obj[o].cab

ClosingKept ==
  /\ closing["program"] # NULL => closing["program"] \in disposed
  /\ closing["finalizer"] # NULL => phase[closing["finalizer"]] = "dropped"

\* What is copied or cached for o is its own, or was reached through joins.
Near(o, c) == c # o => {o, c} \subseteq joined

HeadsKept == \A o \in Obj : obj[o].head # NULL => Near(o, obj[o].head[1])

FolderKept(o) ==
  folder[o] # NULL => Near(o, folder[o]) /\ (folder[o] = o /\ Alone(o) => cab[o] = "live")

FileKept ==
  file # NULL =>
    /\ phase[file.parent] = "held"
    /\ Near(file.parent, file.node[1])
    /\ file.next # NULL => Near(file.parent, file.next[1])

Inv ==
  /\ TypeOK /\ SetsKept /\ ListsKept /\ ClosingKept /\ HeadsKept /\ FileKept
  /\ \A o \in Obj : LifeKept(o) /\ FolderKept(o)
  /\ AloneNeverFreedTwice /\ HeadsCurrent

-----------------------------------------------------------------------------
(* Sets, lists and nodes.                                                   *)

LEMMA NodeType ==
  ASSUME NEW n \in Node
  PROVE  n[1] \in Obj /\ n \in Own(n[1])
BY DEF Node, Own

LEMMA OwnNodes ==
  ASSUME NEW o \in Obj
  PROVE  /\ OwnListing(o) \in Seq(Node) /\ OwnListing(o) # <<>>
         /\ ToSet(OwnListing(o)) = Own(o) /\ Own(o) \subseteq Node
         /\ Head(OwnListing(o)) = <<o, 1>> /\ <<o, 1>> \in Node
<1>1. Files[o] \in Nat \ {0}
  BY ManagedAssumption DEF ManagedAssumption
<1>2. Own(o) \subseteq Node
  BY DEF Own, Node
<1>3. \A n \in 1..Files[o] : <<o, n>> \in Own(o)
  BY DEF Own
<1>4. OwnListing(o) \in Seq(Node) /\ Len(OwnListing(o)) = Files[o]
  BY <1>1, <1>2, <1>3 DEF OwnListing
<1>5. OwnListing(o) # <<>> /\ Head(OwnListing(o)) = <<o, 1>>
  BY <1>1, <1>4 DEF OwnListing
<1>6. ToSet(OwnListing(o)) = Own(o)
  BY <1>1 DEF ToSet, OwnListing, Own
<1> QED
  BY <1>1, <1>2, <1>3, <1>4, <1>5, <1>6

\* The set of an open cabinet is one of the sets, and there is no other.
LEMMA SetOfLive ==
  ASSUME TypeOK, SetsKept, NEW o \in Obj
  PROVE  /\ cab[o] = "live" => SetOf(o) \in sets /\ o \in ToSet(SetOf(o))
         /\ \A s \in sets : o \in ToSet(s) => cab[o] = "live" /\ s = SetOf(o)
<1>1. cab[o] = "live" <=> \E s \in sets : o \in ToSet(s)
  BY DEF TypeOK
<1>2. \A s, t \in sets : o \in ToSet(s) /\ o \in ToSet(t) => s = t
  BY DEF SetsKept
<1> QED
  BY <1>1, <1>2 DEF SetOf

LEMMA Members ==
  ASSUME NEW S, NEW s \in Seq(S), s # <<>>
  PROVE  s[1] \in ToSet(s) /\ ToSet(s) \subseteq S
<1>1. 1 \in 1..Len(s) /\ \A i \in 1..Len(s) : s[i] \in S
  OBVIOUS
<1> QED
  BY <1>1 DEF ToSet

LEMMA Concatenated ==
  ASSUME NEW S, NEW s \in Seq(S), NEW t \in Seq(S)
  PROVE  /\ s \o t \in Seq(S) /\ ToSet(s \o t) = ToSet(s) \cup ToSet(t)
         /\ s # <<>> => s \o t # <<>> /\ Head(s \o t) = Head(s) /\ (s \o t)[1] = Head(s)
<1>1. s \o t \in Seq(S) /\ Len(s \o t) = Len(s) + Len(t)
  OBVIOUS
<1>2. \A i \in 1..Len(s) : (s \o t)[i] = s[i]
  OBVIOUS
<1>3. \A i \in 1..Len(t) : (s \o t)[Len(s) + i] = t[i]
  OBVIOUS
<1>4. \A i \in 1..Len(s \o t) : i \in 1..Len(s) \/ i - Len(s) \in 1..Len(t)
  BY <1>1
<1>5. ToSet(s \o t) = ToSet(s) \cup ToSet(t)
  <2>1. ASSUME NEW x \in ToSet(s \o t) PROVE x \in ToSet(s) \cup ToSet(t)
    <3>1. PICK i \in 1..Len(s \o t) : x = (s \o t)[i]
      BY <1>1, <2>1 DEF ToSet
    <3>2. CASE i \in 1..Len(s)
      BY <1>2, <3>1, <3>2 DEF ToSet
    <3>3. CASE i - Len(s) \in 1..Len(t)
      <4>1. x = t[i - Len(s)]
        BY <1>3, <3>1, <3>3
      <4> QED
        BY <3>3, <4>1 DEF ToSet
    <3> QED
      BY <1>4, <3>2, <3>3
  <2>2. ASSUME NEW x \in ToSet(s) PROVE x \in ToSet(s \o t)
    <3>1. PICK i \in 1..Len(s) : x = s[i]
      BY <2>2 DEF ToSet
    <3> QED
      BY <1>1, <1>2, <3>1 DEF ToSet
  <2>3. ASSUME NEW x \in ToSet(t) PROVE x \in ToSet(s \o t)
    <3>1. PICK i \in 1..Len(t) : x = t[i]
      BY <2>3 DEF ToSet
    <3>2. x = (s \o t)[Len(s) + i] /\ Len(s) + i \in 1..Len(s \o t)
      BY <1>1, <1>3, <3>1
    <3> QED
      BY <1>1, <3>2 DEF ToSet
  <2> QED
    BY <2>1, <2>2, <2>3
<1>6. s # <<>> => s \o t # <<>> /\ Head(s \o t) = Head(s) /\ (s \o t)[1] = Head(s)
  BY <1>1, <1>2
<1> QED
  BY <1>1, <1>5, <1>6

\* A file that is marshalled for o, and the one behind it, are near o.
LEMMA NextIsNear ==
  ASSUME TypeOK, SetsKept, ListsKept, NEW o \in Obj, NEW n, LiveNode(n), Near(o, n[1])
  PROVE  /\ n \in Node /\ cab[n[1]] = "live"
         /\ NextOf(n) \in Node \cup {NULL}
         /\ NextOf(n) # NULL => Near(o, NextOf(n)[1])
<1> DEFINE c == CHOOSE c \in Obj : cab[c] = "live" /\ n \in ToSet(listing[c])
           at == CHOOSE i \in DOMAIN listing[c] : listing[c][i] = n
<1>1. c \in Obj /\ cab[c] = "live" /\ n \in ToSet(listing[c])
  BY DEF LiveNode
<1>2. at \in DOMAIN listing[c] /\ listing[c][at] = n
  BY <1>1 DEF ToSet
<1>3. NextOf(n) = IF at = Len(listing[c]) THEN NULL ELSE listing[c][at + 1]
  BY DEF NextOf
<1> HIDE DEF c, at
<1>4. listing[c] \in Seq(Node)
  BY <1>1 DEF ListsKept
<1>5. SetOf(c) \in sets /\ c \in ToSet(SetOf(c))
  BY <1>1, SetOfLive
<1>6. \A m \in ToSet(listing[c]) : m \in Node /\ m[1] \in Obj /\ m[1] \in ToSet(SetOf(c))
  <2>1. ToSet(listing[c]) \subseteq Node
    BY <1>1 DEF TypeOK
  <2>2. \A m \in ToSet(listing[c]) : m[1] \in ToSet(SetOf(c))
    BY <1>5 DEF ListsKept
  <2> QED
    BY <2>1, <2>2, NodeType
<1>7. NextOf(n) = NULL \/ NextOf(n) \in ToSet(listing[c])
  BY <1>2, <1>3, <1>4 DEF ToSet
<1>8. ASSUME NextOf(n) \in ToSet(listing[c]) PROVE Near(o, NextOf(n)[1])
  <2> DEFINE x == n[1]
             y == NextOf(n)[1]
  <2>1. x \in ToSet(SetOf(c)) /\ y \in ToSet(SetOf(c))
    BY <1>1, <1>6, <1>8
  <2>2. CASE x = y
    BY <2>2
  <2>3. CASE x # y
    <3>1. \A v : ToSet(<<v>>) = {v}
      BY DEF ToSet
    <3>2. x \in joined /\ y \in joined
      BY <1>5, <2>1, <2>3, <3>1 DEF SetsKept, Alone
    <3> QED
      BY <3>2 DEF Near
  <2> QED
    BY <2>2, <2>3
<1>9. cab[n[1]] = "live"
  BY <1>1, <1>5, <1>6, SetOfLive
<1> QED
  BY <1>1, <1>6, <1>7, <1>8, <1>9

-----------------------------------------------------------------------------
(* The calls.                                                               *)

\* Nothing that is kept changes in a crash, but that a set was joined before a
\* freed cabinet is used.
LEMMA CrashKeeps ==
  ASSUME Inv, NEW why \in {"null", "file", "cabinet", "closed"}, Crash(why),
         why \in {"cabinet", "closed"} => joined # {}
  PROVE  Inv'
<1>1. fault' = why /\ UNCHANGED <<cab, sets, listing, dec, folder, obj, phase, finalizable,
                                  closing, file, joined, disposed, rightSet>>
  BY DEF Crash, native, managed, history
<1> QED
  BY <1>1 DEF Inv, TypeOK, SetsKept, ListsKept, ClosingKept, HeadsKept, FileKept, LifeKept,
     FolderKept, AloneNeverFreedTwice, HeadsCurrent, HeadCurrent, Near, Alone, Untouched

LEMMA ConstructKeeps ==
  ASSUME Inv, NEW o \in Obj, Construct(o)
  PROVE  Inv'
<1>1. /\ TypeOK /\ SetsKept /\ ListsKept /\ ClosingKept /\ HeadsKept /\ FileKept
      /\ \A c \in Obj : LifeKept(c) /\ FolderKept(c)
      /\ AloneNeverFreedTwice /\ HeadsCurrent
  BY DEF Inv
<1>2. Running /\ phase[o] = "new" /\ cab[o] = "none" /\ folder[o] = NULL
  BY <1>1 DEF Construct, Calls, LifeKept
<1>3. NULL \notin Obj /\ NULL \notin Node
  BY ManagedAssumption DEF ManagedAssumption
<1>4. CASE Crash("null")
  BY <1>4, CrashKeeps
<1>5. ASSUME NEW hasDec \in BOOLEAN,
             dec' = [dec EXCEPT ![o] = IF hasDec THEN "live" ELSE "none"],
             obj' = [obj EXCEPT ![o] = [cab |-> FALSE, dec |-> hasDec, name |-> TRUE,
                                        head |-> NULL]],
             phase' = [phase EXCEPT ![o] = "dropped"],
             finalizable' = finalizable \cup Finalizable(o, FALSE),
             UNCHANGED <<cab, sets, listing, folder, closing, file, fault, history>>
      PROVE  Inv'
  <2>1. TypeOK'
    BY <1>1, <1>5 DEF TypeOK, Finalizable, Managed, Life, Phases, history
  <2>2. SetsKept' /\ ListsKept'
    BY <1>1, <1>5 DEF SetsKept, ListsKept, Alone, history
  <2>3. ClosingKept' /\ FileKept'
    BY <1>1, <1>2, <1>5 DEF TypeOK, ClosingKept, FileKept, Near, history, File
  <2>4. HeadsKept' /\ \A c \in Obj : LifeKept(c)' /\ FolderKept(c)'
    BY <1>1, <1>2, <1>5 DEF TypeOK, HeadsKept, LifeKept, FolderKept, Near, Alone, Untouched, history
  <2>5. AloneNeverFreedTwice' /\ HeadsCurrent'
    BY <1>1, <1>2, <1>5 DEF TypeOK, AloneNeverFreedTwice, HeadsCurrent, HeadCurrent, history
  <2> QED
    BY <2>1, <2>2, <2>3, <2>4, <2>5 DEF Inv
<1>6. ASSUME Opened(o),
             dec' = [dec EXCEPT ![o] = "live"],
             obj' = [obj EXCEPT ![o] = [cab |-> TRUE, dec |-> TRUE, name |-> TRUE,
                                        head |-> <<o, 1>>]],
             phase' = [phase EXCEPT ![o] = "held"],
             finalizable' = finalizable \cup Finalizable(o, TRUE),
             UNCHANGED <<folder, closing, file, fault, history>>
      PROVE  Inv'
  <2>1. /\ cab' = [cab EXCEPT ![o] = "live"]
        /\ sets' = sets \cup {<<o>>}
        /\ listing' = [listing EXCEPT ![o] = OwnListing(o)]
    BY <1>6 DEF Opened, OwnListing
  <2>2. /\ OwnListing(o) \in Seq(Node) /\ OwnListing(o) # <<>>
        /\ ToSet(OwnListing(o)) = Own(o) /\ Own(o) \subseteq Node
        /\ Head(OwnListing(o)) = <<o, 1>> /\ <<o, 1>> \in Node
    BY OwnNodes
  <2>3. ToSet(<<o>>) = {o} /\ <<o>> \in Seq(Obj) /\ <<o>> # <<>>
    BY DEF ToSet
  <2>4. \A s \in sets : o \notin ToSet(s)
    BY <1>1, <1>2 DEF TypeOK
  <2>5. TypeOK'
    <3>1. UNION {ToSet(s) : s \in sets'} = {c \in Obj : cab'[c] = "live"} /\ <<>> \notin sets'
      BY <1>1, <2>1, <2>3 DEF TypeOK
    <3>2. \A c \in Obj : ToSet(listing'[c]) \subseteq Node
      BY <1>1, <2>1, <2>2 DEF TypeOK, ListsKept
    <3>3. obj' \in [Obj -> Managed]
      BY <1>1, <1>6, <2>2 DEF TypeOK, Managed
    <3> QED
      BY <1>1, <1>6, <2>1, <3>1, <3>2, <3>3 DEF TypeOK, Finalizable, Life, Phases, history
  <2>6. SetsKept'
    <3>1. sets' \subseteq Seq(Obj)
      BY <1>1, <2>1, <2>3 DEF SetsKept
    <3>2. ASSUME NEW s \in sets', NEW t \in sets', s # t PROVE ToSet(s) \cap ToSet(t) = {}
      <4>1. (s \in sets \/ s = <<o>>) /\ (t \in sets \/ t = <<o>>)
        BY <2>1
      <4> QED
        BY <1>1, <2>3, <2>4, <3>2, <4>1 DEF SetsKept
    <3>3. ASSUME NEW s \in sets', NEW c \in ToSet(s), c \notin joined PROVE s = <<c>>
      <4>1. s \in sets \/ s = <<o>>
        BY <2>1
      <4> QED
        BY <1>1, <2>3, <3>3, <4>1 DEF SetsKept, Alone
    <3> QED
      BY <1>6, <3>1, <3>2, <3>3 DEF SetsKept, Alone, history
  <2>7. ListsKept'
    <3>1. listing' \in [Obj -> Seq(Node)]
      BY <1>1, <2>1, <2>2 DEF ListsKept
    <3>2. \A n \in Own(o) : n[1] = o
      BY DEF Own
    <3>3. \A s \in sets : ToSet(s) \subseteq Obj
      BY <1>1 DEF TypeOK
    <3>4. \A s \in sets : \A m \in ToSet(s) : listing'[m] = listing[m]
      BY <1>1, <2>1, <2>4, <3>3 DEF ListsKept
    <3>5. listing'[o] = OwnListing(o)
      BY <1>1, <2>1 DEF ListsKept
    <3>6. \A s \in sets' : s \in sets \/ s = <<o>>
      BY <2>1
    <3>7. ASSUME NEW s \in sets', NEW c \in ToSet(s)
          PROVE  /\ listing'[c] # <<>>
                 /\ \A m \in ToSet(s) : listing'[m] = listing'[c]
                 /\ \A n \in ToSet(listing'[c]) : n[1] \in ToSet(s)
      <4>1. CASE s = <<o>>
        BY <2>2, <2>3, <3>2, <3>5, <4>1
      <4>2. CASE s \in sets
        BY <1>1, <3>4, <4>2 DEF ListsKept
      <4> QED
        BY <3>6, <4>1, <4>2
    <3> QED
      BY <3>1, <3>7 DEF ListsKept
  <2>8. ClosingKept' /\ FileKept'
    BY <1>1, <1>2, <1>6 DEF TypeOK, ClosingKept, FileKept, Near, history, File
  <2>9. HeadsKept' /\ \A c \in Obj : LifeKept(c)' /\ FolderKept(c)'
    BY <1>1, <1>2, <1>6, <2>1 DEF TypeOK, ListsKept, HeadsKept, LifeKept, FolderKept, Near, Alone,
       Untouched, history
  <2>10. AloneNeverFreedTwice' /\ HeadsCurrent'
    BY <1>1, <1>2, <1>6, <2>1, <2>2 DEF TypeOK, ListsKept, AloneNeverFreedTwice, HeadsCurrent,
       HeadCurrent, history
  <2> QED
    BY <2>5, <2>6, <2>7, <2>8, <2>9, <2>10 DEF Inv
<1> QED
  BY <1>4, <1>5, <1>6 DEF Construct

LEMMA DisposeKeeps ==
  ASSUME Inv, NEW o \in Obj, Dispose(o) \/ Finalize(o) \/ Drop(o)
  PROVE  Inv'
<1>1. /\ TypeOK /\ SetsKept /\ ListsKept /\ ClosingKept /\ HeadsKept /\ FileKept
      /\ \A c \in Obj : LifeKept(c) /\ FolderKept(c)
      /\ AloneNeverFreedTwice /\ HeadsCurrent
  BY DEF Inv
<1>2. NULL \notin Obj
  BY ManagedAssumption DEF ManagedAssumption
<1>3. UNCHANGED <<cab, sets, listing, dec, folder, obj, file, fault, joined, rightSet>>
  BY DEF Dispose, Finalize, Drop, native, history
<1>4. /\ phase' \in [Obj -> Phases] /\ finalizable' \subseteq Obj /\ disposed' \subseteq Obj
      /\ closing' \in [{"program", "finalizer"} -> Obj \cup {NULL}]
  BY <1>1 DEF TypeOK, Dispose, Finalize, Drop, history, Phases
<1>5. TypeOK'
  BY <1>1, <1>3, <1>4 DEF TypeOK
<1>6. SetsKept' /\ ListsKept' /\ HeadsKept' /\ AloneNeverFreedTwice' /\ HeadsCurrent'
  BY <1>1, <1>3 DEF SetsKept, ListsKept, HeadsKept, AloneNeverFreedTwice, HeadsCurrent,
     HeadCurrent, Near, Alone
<1>7. ClosingKept'
  <2>1. CASE Dispose(o)
    BY <1>1, <1>2, <2>1 DEF TypeOK, ClosingKept, Dispose
  <2>2. CASE Finalize(o)
    BY <1>1, <1>2, <2>2 DEF TypeOK, ClosingKept, Finalize, history
  <2>3. CASE Drop(o)
    BY <1>1, <1>2, <2>3 DEF TypeOK, ClosingKept, Drop, history
  <2> QED
    BY <2>1, <2>2, <2>3
<1>11. FileKept'
  <2>1. file # NULL => phase'[file.parent] = phase[file.parent]
    <3>1. CASE Drop(o)
      BY <1>1, <3>1 DEF TypeOK, Drop, Referred
    <3>2. CASE Dispose(o) \/ Finalize(o)
      BY <3>2 DEF Dispose, Finalize
    <3> QED
      BY <3>1, <3>2
  <2> QED
    BY <1>1, <1>3, <2>1 DEF FileKept, Near
<1>8. \A c \in Obj : phase'[c] # phase[c] => phase[c] = "held" /\ phase'[c] = "dropped"
  BY <1>1 DEF TypeOK, Dispose, Finalize, Drop
<1>9. disposed \subseteq disposed'
  BY DEF Dispose, Finalize, Drop, history
<1>10. \A c \in Obj : LifeKept(c)' /\ FolderKept(c)'
  BY <1>1, <1>3, <1>8, <1>9 DEF LifeKept, FolderKept, Near, Alone, Untouched
<1> QED
  BY <1>5, <1>6, <1>7, <1>10, <1>11 DEF Inv

\* A Close() sets one field of its object after the other.
LEMMA FieldCleared ==
  ASSUME obj \in [Obj -> Managed], NEW o \in Obj
  PROVE  /\ [obj EXCEPT ![o].cab = FALSE] \in [Obj -> Managed]
         /\ [obj EXCEPT ![o].dec = FALSE] \in [Obj -> Managed]
         /\ [obj EXCEPT ![o].name = FALSE] \in [Obj -> Managed]
         /\ \A c \in Obj : LET without == [obj EXCEPT ![o].name = FALSE] IN
              /\ without[c].head = obj[c].head /\ without[c].cab = obj[c].cab
              /\ c # o => without[c] = obj[c]
<1>1. obj[o] \in Managed
  OBVIOUS
<1>2. /\ [obj[o] EXCEPT !.cab = FALSE] \in Managed
      /\ [obj[o] EXCEPT !.dec = FALSE] \in Managed
      /\ [obj[o] EXCEPT !.name = FALSE] \in Managed
  BY <1>1 DEF Managed
<1>3. /\ [obj[o] EXCEPT !.name = FALSE].head = obj[o].head
      /\ [obj[o] EXCEPT !.name = FALSE].cab = obj[o].cab
  BY <1>1 DEF Managed
<1>4. /\ [obj EXCEPT ![o].cab = FALSE] = [obj EXCEPT ![o] = [obj[o] EXCEPT !.cab = FALSE]]
      /\ [obj EXCEPT ![o].dec = FALSE] = [obj EXCEPT ![o] = [obj[o] EXCEPT !.dec = FALSE]]
      /\ [obj EXCEPT ![o].name = FALSE] = [obj EXCEPT ![o] = [obj[o] EXCEPT !.name = FALSE]]
  OBVIOUS
<1> QED
  BY <1>1, <1>2, <1>3, <1>4

\* A Close() on its way.
LEMMA CloseKeeps ==
  ASSUME Inv, NEW t \in {"program", "finalizer"}, Closing(t)
  PROVE  Inv'
<1> DEFINE o == closing[t]
<1>1. /\ TypeOK /\ SetsKept /\ ListsKept /\ ClosingKept /\ HeadsKept /\ FileKept
      /\ \A c \in Obj : LifeKept(c) /\ FolderKept(c)
      /\ AloneNeverFreedTwice /\ HeadsCurrent
  BY DEF Inv
<1>2. NULL \notin Obj
  BY ManagedAssumption DEF ManagedAssumption
<1>3. o \in Obj
  BY <1>1 DEF TypeOK, Closing, CloseCab, DestroyDec, FreeName
<1>4. t = "program" => o \in disposed
  BY <1>2, <1>3, <1>1 DEF ClosingKept
<1>5. t = "finalizer" => phase[o] = "dropped"
  BY <1>2, <1>3, <1>1 DEF ClosingKept
<1>6. ~(Untouched(o) /\ phase[o] = "held")
  BY <1>4, <1>5 DEF Untouched
<1> HIDE DEF o
<1>7. CASE CloseCab(t) /\ Crash("closed")
  <2>1. obj[o].cab /\ cab[o] = "freed"
    BY <1>7 DEF CloseCab, Crash, Running, o
  <2>2. o \in joined
    BY <1>1, <1>3, <2>1 DEF LifeKept, Alone
  <2> QED
    BY <1>7, <2>2, CrashKeeps
<1>8. CASE CloseCab(t) /\ ~Crash("closed")
  <2> DEFINE gone == ToSet(SetOf(o))
  <2>1. /\ obj[o].cab /\ cab[o] = "live"
        /\ cab' = [c \in Obj |-> IF c \in gone THEN "freed" ELSE cab[c]]
        /\ sets' = sets \ {SetOf(o)}
        /\ folder' = IF folder[o] \in gone THEN [folder EXCEPT ![o] = NULL] ELSE folder
        /\ obj' = [obj EXCEPT ![o].cab = FALSE]
        /\ UNCHANGED <<listing, dec, phase, finalizable, closing, file, fault, joined, disposed,
                       rightSet>>
    BY <1>8 DEF CloseCab, ClosedWith, DecoderAfter, WithoutCab, history, o
  <2>2. SetOf(o) \in sets /\ o \in gone
    BY <1>1, <1>3, <2>1, SetOfLive
  <2>3. \A c \in Obj : c \in gone => cab[c] = "live"
    BY <1>1, <2>2 DEF TypeOK
  <2>4. \A c \in gone : Alone(c) => gone = {c} /\ c = o
    BY <1>1, <2>2 DEF SetsKept, ToSet
  <2> HIDE DEF gone
  <2>5. TypeOK'
    <3>1. UNION {ToSet(s) : s \in sets'} = {c \in Obj : cab'[c] = "live"}
      <4>1. \A s \in sets' : ToSet(s) \cap gone = {}
        BY <1>1, <2>1, <2>2 DEF SetsKept, gone
      <4>2. \A c \in Obj : cab'[c] = "live" <=> cab[c] = "live" /\ c \notin gone
        BY <2>1
      <4>3. \A s \in sets : s \in sets' \/ ToSet(s) = gone
        BY <2>1 DEF gone
      <4>4. \A c \in Obj : cab[c] = "live" <=> \E s \in sets : c \in ToSet(s)
        BY <1>1 DEF TypeOK
      <4>5. \A s \in sets : ToSet(s) \subseteq Obj
        BY <1>1 DEF TypeOK
      <4>6. \A c \in Obj : cab'[c] = "live" <=> \E s \in sets' : c \in ToSet(s)
        BY <2>1, <4>1, <4>2, <4>3, <4>4
      <4> QED
        BY <2>1, <4>5, <4>6
    <3>2. obj' \in [Obj -> Managed] /\ folder' \in [Obj -> Obj \cup {NULL}] /\ cab' \in [Obj -> Life]
      BY <1>1, <1>3, <2>1, FieldCleared DEF TypeOK, Life
    <3> QED
      BY <1>1, <2>1, <3>1, <3>2 DEF TypeOK
  <2>6. SetsKept' /\ ListsKept'
    BY <1>1, <2>1 DEF SetsKept, ListsKept, Alone
  <2>7. ClosingKept' /\ FileKept' /\ AloneNeverFreedTwice'
    BY <1>1, <2>1 DEF ClosingKept, FileKept, AloneNeverFreedTwice, Near
  <2>8. \A c \in Obj : /\ obj'[c].head = obj[c].head /\ obj'[c].name = obj[c].name
                       /\ c # o => obj'[c].cab = obj[c].cab
                       /\ c = o => ~obj'[c].cab
    BY <1>1, <2>1 DEF TypeOK, Managed
  <2>9. HeadsKept'
    BY <1>1, <2>1, <2>8 DEF HeadsKept, Near
  <2>10. HeadsCurrent'
    BY <1>1, <2>1, <2>8, <2>2 DEF HeadsCurrent, HeadCurrent
  <2>11. ASSUME NEW c \in Obj PROVE LifeKept(c)'
    <3>1. cab[c] \in Life /\ cab'[c] = (IF c \in gone THEN "freed" ELSE cab[c])
      BY <1>1, <2>1 DEF TypeOK
    <3>2. CASE c = o
      BY <1>1, <1>6, <2>1, <2>2, <2>8, <3>1, <3>2 DEF LifeKept, Alone, Untouched
    <3>3. CASE c # o /\ c \in gone
      BY <1>1, <2>1, <2>3, <2>4, <2>8, <3>1, <3>3 DEF LifeKept, Alone, Untouched
    <3>4. CASE c \notin gone
      BY <1>1, <2>1, <2>2, <2>8, <3>1, <3>4 DEF LifeKept, Alone, Untouched
    <3> QED
      BY <3>2, <3>3, <3>4
  <2>12. \A c \in Obj : FolderKept(c)'
    BY <1>1, <1>2, <1>3, <2>1, <2>2, <2>4 DEF TypeOK, FolderKept, Alone, Near
  <2> QED
    BY <2>5, <2>6, <2>7, <2>9, <2>10, <2>11, <2>12 DEF Inv
<1>9. CASE DestroyDec(t)
  <2>1. /\ dec' = [dec EXCEPT ![o] = "freed"]
        /\ folder' = [folder EXCEPT ![o] = NULL]
        /\ obj' = [obj EXCEPT ![o].dec = FALSE]
        /\ UNCHANGED <<cab, sets, listing, phase, finalizable, closing, file, fault, joined,
                       disposed, rightSet>>
    BY <1>9 DEF DestroyDec, history, o
  <2>2. \A c \in Obj : /\ obj'[c].head = obj[c].head /\ obj'[c].name = obj[c].name
                       /\ obj'[c].cab = obj[c].cab
    BY <1>1, <2>1 DEF TypeOK, Managed
  <2>3. TypeOK'
    BY <1>1, <1>3, <2>1, FieldCleared DEF TypeOK, Life
  <2>4. SetsKept' /\ ListsKept' /\ ClosingKept' /\ FileKept' /\ AloneNeverFreedTwice'
    BY <1>1, <2>1 DEF SetsKept, ListsKept, ClosingKept, FileKept, AloneNeverFreedTwice, Near, Alone
  <2>5. HeadsKept' /\ HeadsCurrent' /\ \A c \in Obj : LifeKept(c)' /\ FolderKept(c)'
    BY <1>1, <2>1, <2>2 DEF TypeOK, HeadsKept, HeadsCurrent, HeadCurrent, LifeKept, FolderKept, Near,
       Alone, Untouched
  <2> QED
    BY <2>3, <2>4, <2>5 DEF Inv
<1>10. CASE FreeName(t)
  <2>1. /\ obj' = [obj EXCEPT ![o].name = FALSE]
        /\ finalizable' = finalizable \ {o}
        /\ closing' = [closing EXCEPT ![t] = NULL]
        /\ ~obj[o].cab
        /\ UNCHANGED <<cab, sets, listing, dec, folder, phase, file, fault, joined, disposed,
                       rightSet>>
    BY <1>10 DEF FreeName, NameUnused, native, history, o
  <2>2. \A c \in Obj : /\ obj'[c].head = obj[c].head /\ obj'[c].cab = obj[c].cab
                       /\ c # o => obj'[c].name = obj[c].name
    BY <1>1, <1>3, <2>1, FieldCleared DEF TypeOK
  <2>3. TypeOK'
    BY <1>1, <1>3, <2>1, FieldCleared DEF TypeOK
  <2>4. ClosingKept'
    BY <1>1, <2>1 DEF TypeOK, ClosingKept
  <2>5. SetsKept' /\ ListsKept' /\ FileKept' /\ AloneNeverFreedTwice'
    BY <1>1, <2>1 DEF SetsKept, ListsKept, FileKept, AloneNeverFreedTwice, Near, Alone
  <2>6. HeadsKept' /\ HeadsCurrent' /\ \A c \in Obj : LifeKept(c)' /\ FolderKept(c)'
    BY <1>1, <2>1, <2>2 DEF TypeOK, HeadsKept, HeadsCurrent, HeadCurrent, LifeKept, FolderKept, Near,
       Alone, Untouched
  <2> QED
    BY <2>3, <2>4, <2>5, <2>6 DEF Inv
<1> QED
  BY <1>7, <1>8, <1>9, <1>10 DEF Closing

LEMMA AppendKeeps ==
  ASSUME Inv, NEW left \in Obj, NEW right \in Obj, Append_(left, right)
  PROVE  Inv'
<1> DEFINE L == SetOf(left)
           R == SetOf(right)
           whole == L \o R
           tail == IF right \in Split THEN Tail(listing[right]) ELSE listing[right]
           joint == listing[left] \o tail
<1>1. /\ TypeOK /\ SetsKept /\ ListsKept /\ ClosingKept /\ HeadsKept /\ FileKept
      /\ \A c \in Obj : LifeKept(c) /\ FolderKept(c)
      /\ AloneNeverFreedTwice /\ HeadsCurrent
  BY DEF Inv
<1>2. /\ cab[left] = "live" /\ cab[right] = "live"
      /\ L # R /\ L[Len(L)] = left /\ Head(R) = right
      /\ sets' = (sets \ {L, R}) \cup {whole}
      /\ listing' = [c \in Obj |-> IF c \in ToSet(whole) THEN joint ELSE listing[c]]
      /\ obj' = [c \in Obj |-> IF c \in {left, right} THEN [obj[c] EXCEPT !.head = joint[1]]
                               ELSE obj[c]]
      /\ joined' = joined \cup ToSet(whole)
      /\ rightSet' = (rightSet \/ Len(R) > 1)
      /\ UNCHANGED <<cab, dec, folder, phase, finalizable, closing, file, fault, disposed>>
  BY DEF Append_, Matches, JoinedListing, Remarshalled, Last
<1>3. L \in sets /\ R \in sets /\ left \in ToSet(L) /\ right \in ToSet(R)
  BY <1>1, <1>2, SetOfLive
<1>4. L \in Seq(Obj) /\ R \in Seq(Obj) /\ ToSet(L) \cap ToSet(R) = {} /\ L # <<>> /\ R # <<>>
  BY <1>1, <1>2, <1>3 DEF SetsKept, TypeOK
<1>5. whole \in Seq(Obj) /\ ToSet(whole) = ToSet(L) \cup ToSet(R) /\ whole # <<>>
  BY <1>4, Concatenated
<1>6. /\ listing[left] \in Seq(Node) /\ listing[left] # <<>>
      /\ listing[right] \in Seq(Node) /\ listing[right] # <<>>
      /\ \A m \in ToSet(L) : listing[m] = listing[left]
      /\ \A n \in ToSet(listing[left]) : n[1] \in ToSet(L)
      /\ \A n \in ToSet(listing[right]) : n[1] \in ToSet(R)
  BY <1>1, <1>3 DEF ListsKept
<1>7. tail \in Seq(Node) /\ ToSet(tail) \subseteq ToSet(listing[right])
  <2>1. CASE right \in Split
    <3>1. /\ Tail(listing[right]) \in Seq(Node) /\ Len(Tail(listing[right])) = Len(listing[right]) - 1
          /\ \A i \in 1..Len(listing[right]) - 1 : Tail(listing[right])[i] = listing[right][i + 1]
      BY <1>6
    <3> QED
      BY <1>6, <2>1, <3>1 DEF ToSet
  <2>2. CASE right \notin Split
    BY <1>6, <2>2
  <2> QED
    BY <2>1, <2>2
<1>8. /\ joint \in Seq(Node) /\ joint # <<>>
      /\ joint[1] = Head(listing[left]) /\ Head(joint) = Head(listing[left])
      /\ \A n \in ToSet(joint) : n[1] \in ToSet(whole)
  <2> HIDE DEF L, R, whole, tail
  <2>1. /\ joint \in Seq(Node) /\ joint # <<>>
        /\ ToSet(joint) = ToSet(listing[left]) \cup ToSet(tail)
        /\ joint[1] = Head(listing[left]) /\ Head(joint) = Head(listing[left])
    BY <1>6, <1>7, Concatenated
  <2> QED
    BY <1>5, <1>6, <1>7, <2>1
<1>9. joint[1] \in ToSet(joint) /\ ToSet(joint) \subseteq Node
  <2> HIDE DEF joint
  <2> QED
    BY <1>8, Members
<1>10. joint[1] \in Node /\ joint[1][1] \in ToSet(whole)
  BY <1>8, <1>9
<1>11. ToSet(whole) \subseteq joined' /\ joined \subseteq joined' /\ ToSet(whole) \subseteq Obj
  BY <1>1, <1>2, <1>3, <1>5 DEF TypeOK
<1> HIDE DEF L, R, whole, tail, joint
<1>12. \A s \in sets : s # L /\ s # R => ToSet(s) \cap ToSet(whole) = {}
  BY <1>1, <1>3, <1>5 DEF SetsKept
<1>13. \A s \in sets' : s = whole \/ (s \in sets /\ s # L /\ s # R)
  BY <1>2
<1>14. obj' \in [Obj -> Managed]
  <2>1. \A c \in Obj : obj[c] \in Managed /\ [obj[c] EXCEPT !.head = joint[1]] \in Managed
    BY <1>1, <1>10 DEF TypeOK, Managed
  <2> QED
    BY <1>2, <2>1
<1>15. \A c \in Obj : /\ obj'[c].cab = obj[c].cab /\ obj'[c].name = obj[c].name
                      /\ obj'[c].head = IF c \in {left, right} THEN joint[1] ELSE obj[c].head
  BY <1>1, <1>2 DEF TypeOK, Managed
<1>16. TypeOK'
  <2>1. UNION {ToSet(s) : s \in sets'} = {c \in Obj : cab'[c] = "live"}
    <3>1. UNION {ToSet(s) : s \in sets'} = UNION {ToSet(s) : s \in sets}
      BY <1>2, <1>3, <1>5
    <3> QED
      BY <1>1, <1>2, <3>1 DEF TypeOK
  <2>2. \A c \in Obj : ToSet(listing'[c]) \subseteq Node
    BY <1>1, <1>2, <1>9 DEF TypeOK
  <2>3. <<>> \notin sets' /\ joined' \subseteq Obj /\ rightSet' \in BOOLEAN
    BY <1>1, <1>2, <1>5, <1>11 DEF TypeOK
  <2> QED
    BY <1>1, <1>2, <1>14, <2>1, <2>2, <2>3 DEF TypeOK
<1>17. SetsKept'
  <2>1. sets' \subseteq Seq(Obj)
    BY <1>1, <1>2, <1>5 DEF SetsKept
  <2>2. ASSUME NEW s \in sets', NEW t \in sets', s # t PROVE ToSet(s) \cap ToSet(t) = {}
    BY <1>1, <1>12, <1>13, <2>2 DEF SetsKept
  <2>3. ASSUME NEW s \in sets', NEW c \in ToSet(s), c \notin joined' PROVE s = <<c>>
    BY <1>1, <1>11, <1>13, <2>3 DEF SetsKept, Alone
  <2> QED
    BY <2>1, <2>2, <2>3 DEF SetsKept, Alone
<1>18. ListsKept'
  <2>1. listing' \in [Obj -> Seq(Node)]
    BY <1>1, <1>2, <1>8 DEF ListsKept
  <2>2. \A c \in Obj : listing'[c] = IF c \in ToSet(whole) THEN joint ELSE listing[c]
    BY <1>2
  <2>3. ASSUME NEW s \in sets', NEW c \in ToSet(s)
        PROVE  /\ listing'[c] # <<>>
               /\ \A m \in ToSet(s) : listing'[m] = listing'[c]
               /\ \A n \in ToSet(listing'[c]) : n[1] \in ToSet(s)
    <3>1. CASE s = whole
      BY <1>8, <1>11, <2>2, <3>1
    <3>2. CASE s \in sets /\ s # L /\ s # R
      <4>1. ToSet(s) \subseteq Obj
        BY <1>1, <3>2 DEF TypeOK
      <4>2. \A m \in ToSet(s) : listing'[m] = listing[m]
        BY <1>12, <2>2, <3>2, <4>1
      <4> QED
        BY <1>1, <3>2, <4>2 DEF ListsKept
    <3> QED
      BY <1>13, <3>1, <3>2
  <2> QED
    BY <2>1, <2>3 DEF ListsKept
<1>19. ClosingKept' /\ FileKept' /\ AloneNeverFreedTwice'
  BY <1>1, <1>2, <1>3, <1>5, <1>11 DEF ClosingKept, FileKept, AloneNeverFreedTwice, Near
<1>20. HeadsKept'
  BY <1>1, <1>3, <1>5, <1>10, <1>11, <1>15 DEF HeadsKept, Near
<1>21. ASSUME NEW c \in Obj PROVE LifeKept(c)' /\ FolderKept(c)'
  <2>1. CASE c \in ToSet(whole)
    BY <1>1, <1>2, <1>11, <1>15, <2>1 DEF LifeKept, FolderKept, Near, Alone, Untouched
  <2>2. CASE c \notin ToSet(whole)
    <3>1. listing'[c] = listing[c] /\ obj'[c].head = obj[c].head
      BY <1>2, <1>3, <1>5, <1>15, <2>2
    <3> QED
      BY <1>1, <1>2, <1>11, <1>15, <2>2, <3>1 DEF LifeKept, FolderKept, Near, Alone, Untouched
  <2> QED
    BY <2>1, <2>2
<1>22. HeadsCurrent'
  <2> SUFFICES ASSUME ~rightSet', NEW c \in Obj, cab[c] = "live", obj[c].cab
               PROVE  obj'[c].head = Head(listing'[c])
    BY <1>2, <1>15 DEF HeadsCurrent, HeadCurrent
  <2>1. obj[c].head = Head(listing[c])
    BY <1>1, <1>2 DEF HeadsCurrent, HeadCurrent
  <2>2. ToSet(R) = {right}
    <3>1. Len(R) \in Nat /\ Len(R) # 0
      BY <1>4
    <3>2. ~(Len(R) > 1)
      BY <1>2
    <3>3. \A n \in Nat : n # 0 /\ ~(n > 1) => n = 1
      OBVIOUS
    <3>4. Len(R) = 1
      BY <3>1, <3>2, <3>3
    <3>5. Head(R) = R[1]
      BY <1>4
    <3> QED
      BY <1>2, <3>4, <3>5 DEF ToSet
  <2>3. CASE c \in ToSet(whole)
    <3>1. c \in ToSet(L) \/ c = right
      BY <1>5, <2>2, <2>3
    <3> QED
      BY <1>2, <1>6, <1>8, <1>15, <2>1, <2>3, <3>1
  <2>4. CASE c \notin ToSet(whole)
    BY <1>2, <1>3, <1>5, <1>15, <2>1, <2>4
  <2> QED
    BY <2>3, <2>4
<1> QED
  BY <1>16, <1>17, <1>18, <1>19, <1>20, <1>21, <1>22 DEF Inv

\* A file is marshalled for o.
LEMMA MarshalKeeps ==
  ASSUME Inv, NEW o \in Obj, NEW n, Marshal(o, n), phase[o] = "held", Near(o, n[1])
  PROVE  Inv'
<1>1. /\ TypeOK /\ SetsKept /\ ListsKept /\ ClosingKept /\ HeadsKept /\ FileKept
      /\ \A c \in Obj : LifeKept(c) /\ FolderKept(c)
      /\ AloneNeverFreedTwice /\ HeadsCurrent
  BY DEF Inv
<1>2. CASE Crash("file")
  BY <1>2, CrashKeeps
<1>3. CASE ~Crash("file")
  <2>1. /\ LiveNode(n)
        /\ file' = [parent |-> o, node |-> n, next |-> NextOf(n)]
        /\ UNCHANGED <<cab, sets, listing, dec, folder, obj, phase, finalizable, closing, fault,
                       joined, disposed, rightSet>>
    BY <1>3 DEF Marshal, native, history
  <2>2. /\ n \in Node /\ NextOf(n) \in Node \cup {NULL}
        /\ NextOf(n) # NULL => Near(o, NextOf(n)[1])
    BY <1>1, <2>1, NextIsNear
  <2>3. TypeOK'
    BY <1>1, <2>1, <2>2 DEF TypeOK, File
  <2>4. FileKept'
    BY <2>1, <2>2 DEF FileKept, Near
  <2>5. SetsKept' /\ ListsKept' /\ ClosingKept' /\ HeadsKept' /\ AloneNeverFreedTwice'
    BY <1>1, <2>1 DEF SetsKept, ListsKept, ClosingKept, HeadsKept, AloneNeverFreedTwice, Near, Alone
  <2>6. HeadsCurrent' /\ \A c \in Obj : LifeKept(c)' /\ FolderKept(c)'
    BY <1>1, <2>1 DEF HeadsCurrent, HeadCurrent, LifeKept, FolderKept, Near, Alone, Untouched
  <2> QED
    BY <2>3, <2>4, <2>5, <2>6 DEF Inv
<1> QED
  BY <1>2, <1>3

LEMMA FileCallsKeep ==
  ASSUME Inv, (\E o \in Obj : GetFiles(o)) \/ Next_ \/ Forget \/ ExtractTo
  PROVE  Inv'
<1>1. /\ TypeOK /\ SetsKept /\ ListsKept /\ ClosingKept /\ HeadsKept /\ FileKept
      /\ \A c \in Obj : LifeKept(c) /\ FolderKept(c)
      /\ AloneNeverFreedTwice /\ HeadsCurrent
  BY DEF Inv
<1>2. NULL \notin Obj /\ NULL \notin Node
  BY ManagedAssumption DEF ManagedAssumption
<1>3. file # NULL => /\ file.parent \in Obj /\ file.node \in Node /\ file.node[1] \in Obj
                     /\ phase[file.parent] = "held"
  BY <1>1, NodeType DEF TypeOK, File, FileKept
<1>4. ASSUME NEW o \in Obj, GetFiles(o) PROVE Inv'
  <2>1. Marshal(o, obj[o].head) /\ phase[o] = "held"
    BY <1>4 DEF GetFiles
  <2>2. CASE obj[o].head = NULL
    <3>1. ~LiveNode(obj[o].head)
      BY <1>1, <1>2, <2>2 DEF LiveNode, TypeOK
    <3> QED
      BY <2>1, <3>1, CrashKeeps DEF Marshal
  <2>3. CASE obj[o].head # NULL
    BY <1>1, <2>1, <2>3, MarshalKeeps DEF HeadsKept
  <2> QED
    BY <2>2, <2>3
<1>5. CASE Next_
  <2>1. file # NULL /\ file.next # NULL /\ Marshal(file.parent, file.next)
    BY <1>5 DEF Next_
  <2> QED
    BY <1>1, <1>3, <2>1, MarshalKeeps DEF FileKept
<1>6. CASE Forget
  <2>1. file' = NULL /\ UNCHANGED <<cab, sets, listing, dec, folder, obj, phase, finalizable,
                                    closing, fault, joined, disposed, rightSet>>
    BY <1>6 DEF Forget, native, history
  <2> QED
    BY <1>1, <2>1 DEF Inv, TypeOK, SetsKept, ListsKept, ClosingKept, HeadsKept, FileKept, LifeKept,
       FolderKept, AloneNeverFreedTwice, HeadsCurrent, HeadCurrent, Near, Alone, Untouched
<1>7. CASE ExtractTo
  <2> DEFINE o == file.parent
             f == file.node[1]
  <2>1. file # NULL
    BY <1>7 DEF ExtractTo
  <2>2. CASE Crash("file")
    BY <2>2, CrashKeeps
  <2>3. CASE ~Crash("file")
    <3>1. /\ LiveNode(file.node)
          /\ folder' = [folder EXCEPT ![o] = f]
          /\ UNCHANGED <<cab, sets, listing, dec, obj, phase, finalizable, closing, file, fault,
                         joined, disposed, rightSet>>
      BY <1>7, <2>3 DEF ExtractTo, managed, history
    <3>2. o \in Obj /\ f \in Obj /\ Near(o, f) /\ phase[o] = "held"
      BY <1>1, <1>3, <2>1 DEF FileKept
    <3>3. cab[f] = "live"
      BY <1>1, <3>1, <3>2, NextIsNear
    <3> HIDE DEF o, f
    <3>4. TypeOK'
      BY <1>1, <3>1, <3>2 DEF TypeOK
    <3>5. SetsKept' /\ ListsKept' /\ ClosingKept' /\ HeadsKept' /\ FileKept'
      BY <1>1, <3>1 DEF SetsKept, ListsKept, ClosingKept, HeadsKept, FileKept, Near, Alone
    <3>6. AloneNeverFreedTwice' /\ HeadsCurrent'
      BY <1>1, <3>1 DEF AloneNeverFreedTwice, HeadsCurrent, HeadCurrent
    <3>7. ASSUME NEW c \in Obj PROVE LifeKept(c)' /\ FolderKept(c)'
      <4>1. folder'[c] = IF c = o THEN f ELSE folder[c]
        BY <1>1, <3>1 DEF TypeOK
      <4>2. LifeKept(c)'
        BY <1>1, <3>1, <3>2, <4>1 DEF LifeKept, Alone, Untouched
      <4>3. FolderKept(c)'
        BY <1>1, <3>1, <3>2, <3>3, <4>1 DEF FolderKept, Near, Alone
      <4> QED
        BY <4>2, <4>3
    <3> QED
      BY <3>4, <3>5, <3>6, <3>7 DEF Inv
  <2> QED
    BY <2>2, <2>3
<1> QED
  BY <1>4, <1>5, <1>6, <1>7

-----------------------------------------------------------------------------
(* The invariant.                                                           *)

LEMMA InvInit == Init => Inv
<1> SUFFICES ASSUME Init PROVE Inv
  OBVIOUS
<1> USE DEF Init
<1>1. NULL \notin Obj
  BY ManagedAssumption DEF ManagedAssumption
<1>2. TypeOK
  <2>1. /\ obj \in [Obj -> Managed] /\ cab \in [Obj -> Life] /\ dec \in [Obj -> Life]
        /\ phase \in [Obj -> Phases]
    BY DEF Managed, Life, Phases
  <2>2. \A o \in Obj : ToSet(listing[o]) \subseteq Node
    BY DEF ToSet
  <2>3. UNION {ToSet(s) : s \in sets} = {o \in Obj : cab[o] = "live"}
    OBVIOUS
  <2> QED
    BY <2>1, <2>2, <2>3 DEF TypeOK
<1>3. SetsKept /\ ListsKept
  BY DEF SetsKept, ListsKept
<1>4. ClosingKept /\ HeadsKept /\ FileKept /\ AloneNeverFreedTwice /\ HeadsCurrent
  BY DEF ClosingKept, HeadsKept, FileKept, AloneNeverFreedTwice, HeadsCurrent, HeadCurrent
<1>5. \A o \in Obj : LifeKept(o) /\ FolderKept(o)
  BY DEF LifeKept, FolderKept, Alone, Untouched
<1> QED
  BY <1>2, <1>3, <1>4, <1>5 DEF Inv

LEMMA InvStep == Inv /\ [Next]_vars => Inv'
<1> SUFFICES ASSUME Inv, [Next]_vars PROVE Inv'
  OBVIOUS
<1>1. ASSUME NEW o \in Obj, Construct(o) PROVE Inv'
  BY <1>1, ConstructKeeps
<1>2. ASSUME NEW o \in Obj, Dispose(o) \/ Finalize(o) \/ Drop(o) PROVE Inv'
  BY <1>2, DisposeKeeps
<1>3. CASE (\E o \in Obj : GetFiles(o)) \/ Next_ \/ Forget \/ ExtractTo
  BY <1>3, FileCallsKeep
<1>4. ASSUME NEW t \in DOMAIN closing, CloseCab(t) \/ DestroyDec(t) \/ FreeName(t) PROVE Inv'
  <2>1. t \in {"program", "finalizer"}
    BY DEF Inv, TypeOK
  <2> QED
    BY <1>4, <2>1, CloseKeeps DEF Closing
<1>5. ASSUME NEW left \in Obj, NEW right \in Obj, AppendFails(left, right) PROVE Inv'
  <2>1. CASE Crash("null")
    BY <2>1, CrashKeeps
  <2>2. CASE ~Crash("null")
    <3>1. /\ obj[left].cab /\ obj[right].cab /\ (cab[left] = "freed" \/ cab[right] = "freed")
          /\ Crash("cabinet")
      BY <1>5, <2>2 DEF AppendFails
    <3>2. left \in joined \/ right \in joined
      BY <3>1 DEF Inv, LifeKept, Alone
    <3> QED
      BY <3>1, <3>2, CrashKeeps
  <2> QED
    BY <2>1, <2>2
<1>6. ASSUME NEW left \in Obj, NEW right \in Obj, Append_(left, right) PROVE Inv'
  BY <1>6, AppendKeeps
<1>7. CASE UNCHANGED vars
  BY <1>7 DEF vars, Inv, TypeOK, SetsKept, ListsKept, ClosingKept, HeadsKept, FileKept, LifeKept,
     FolderKept, AloneNeverFreedTwice, HeadsCurrent, HeadCurrent, Near, Alone, Untouched
<1> QED
  BY <1>1, <1>2, <1>3, <1>4, <1>5, <1>6, <1>7 DEF Next

LEMMA InvSafe == Inv => FilenameOutlives /\ NothingFreedInUse /\ HeadsCurrent
<1> SUFFICES ASSUME Inv PROVE FilenameOutlives /\ NothingFreedInUse /\ HeadsCurrent
  OBVIOUS
<1>1. /\ TypeOK /\ SetsKept /\ FileKept /\ AloneNeverFreedTwice /\ HeadsCurrent
      /\ \A c \in Obj : LifeKept(c) /\ FolderKept(c)
  BY DEF Inv
<1>2. FilenameOutlives
  BY <1>1 DEF FilenameOutlives, LifeKept
<1>3. HeldFileLives
  <2> SUFFICES ASSUME file # NULL, Untouched(file.parent) PROVE LiveNode(file.node)
    BY DEF HeldFileLives, Untouched
  <2>1. file.parent \in Obj /\ file.node \in Own(file.node[1])
    BY <1>1, NodeType DEF TypeOK, File
  <2>2. file.node[1] = file.parent
    BY <1>1 DEF FileKept, Near, Untouched
  <2>3. cab[file.parent] = "live" /\ listing[file.parent] = OwnListing(file.parent)
    BY <1>1, <2>1 DEF FileKept, LifeKept, Untouched, Alone
  <2> QED
    BY <2>1, <2>2, <2>3, OwnNodes DEF LiveNode
<1>4. DecoderFolderLives
  BY <1>1 DEF DecoderFolderLives, FolderKept, Near, Alone
<1> QED
  BY <1>1, <1>2, <1>3, <1>4 DEF NothingFreedInUse

LEMMA Invariant == Spec => []Inv
BY InvInit, InvStep, PTL DEF Spec

(* As long as a native cabinet is open, the pinned filename that the library *)
(* opens it by at every extract() is not given back: not by Dispose(), nor  *)
(* by the finalizer, nor by a constructor that threw.                       *)
THEOREM FilenameStaysPinned == Spec => []FilenameOutlives
<1>1. Inv => FilenameOutlives
  BY InvSafe
<1> QED
  BY <1>1, Invariant, PTL

(* Whatever is disposed, dropped and finalized in whatever order: cabinets  *)
(* that were never appended are closed once, the files that the program     *)
(* holds of them are there, and no decompressor points into a freed one.    *)
THEOREM UnjoinedAreSafe == Spec => []NothingFreedInUse
<1>1. Inv => NothingFreedInUse
  BY InvSafe
<1> QED
  BY <1>1, Invariant, PTL

(* A set that grows at its end, by any number of Append() calls: every      *)
(* member's copy of the native structure has the head of the common list.   *)
THEOREM HeadsStayCurrent == Spec => []HeadsCurrent
<1>1. Inv => HeadsCurrent
  BY InvSafe
<1> QED
  BY <1>1, Invariant, PTL

=============================================================================
