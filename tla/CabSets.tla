------------------------------ MODULE CabSets ------------------------------
(***************************************************************************)
(* The cabinet graph of cabd.c: opening and searching for cabinets, joining*)
(* them into sets (cabd_merge), closing them, and the part of the cached   *)
(* decoder state self->d that points into that graph.                      *)
(*                                                                         *)
(* The heap is modelled as it is in C: a cabinet, folder or file is an     *)
(* address, a list is a head pointer and next fields, and freeing an       *)
(* object makes its address available to a later allocation.  `memErr'     *)
(* records that merging or closing read freed memory or freed it again.    *)
(*                                                                         *)
(* Abstracted: an image is what the headers of one physical file say; a    *)
(* file's (offset, length) pair is its `key'; mscabd_folder_data is the    *)
(* sequence of the cabinets it names; strings are left out.                *)
(***************************************************************************)
EXTENDS Integers, Sequences, FiniteSets

CONSTANTS
  Cab,           \* the addresses an mscabd_cabinet can be allocated at
  Image,         \* the cabinet files on disk
  Comp, Key,     \* compression types; (offset, length) pairs of files
  ImageFolders,  \* [Image -> Seq of [comp, blocks]], the CFFOLDER entries
  ImageFiles,    \* [Image -> Seq of [fidx, key, named]], the CFFILE entries
  MaxFolders,    \* bound: folders per image
  MaxFiles,      \* bound: files per image
  FolderMax,     \* CAB_FOLDERMAX, data blocks per folder
  Supported,     \* the members of Comp that cabd_init_decomp knows
  Salvage,       \* the MSCABD_PARAM_SALVAGE parameter
  JoinChains,    \* may the caller join cabinets of one search() result?
  Faults,        \* the calls that may fail: "open", "seek", "alloc"
  NULL

\* cffileCONTINUED_* of cab.h
FROM_PREV     == 65533
TO_NEXT       == 65534
PREV_AND_NEXT == 65535

Folder == Cab \X (1..MaxFolders)
File   == Cab \X (1..MaxFiles)

FolderEntry == [comp : Comp, blocks : Nat]
FileEntry   == [fidx : Nat, key : Key, named : BOOLEAN]

ASSUME CabSetsAssumption ==
  /\ NULL \notin Cab \cup Image \cup Folder \cup File
  /\ IsFiniteSet(Cab)
  /\ MaxFolders \in Nat /\ MaxFiles \in Nat /\ FolderMax \in Nat \ {0}
  /\ ImageFolders \in [Image -> Seq(FolderEntry)]
  /\ ImageFiles \in [Image -> Seq(FileEntry)]
  /\ \A i \in Image :
       /\ Len(ImageFolders[i]) \in 1..MaxFolders
       /\ Len(ImageFiles[i]) \in 1..MaxFiles
       /\ \A n \in 1..Len(ImageFolders[i]) : ImageFolders[i][n].blocks <= FolderMax
       /\ \A k \in 1..Len(ImageFiles[i]) : ImageFiles[i][k].fidx <= PREV_AND_NEXT
  /\ Salvage \in BOOLEAN /\ JoinChains \in BOOLEAN

VARIABLES
  cab,      \* [Cab -> cabinet]: what is allocated at each address
  folder,   \* [Folder -> folder]
  file,     \* [File -> file]
  dec,      \* self->d, the decoder kept between extract() calls
  error,    \* self->error
  memErr    \* freed memory was used

vars == <<cab, folder, file, dec, error, memErr>>

Errors == {"OK", "ARGS", "OPEN", "SEEK", "NOMEMORY", "DATAFORMAT", "DECRUNCH"}

Cabinet == [img : Image \cup {NULL}, next : Cab \cup {NULL},
            prevcab : Cab \cup {NULL}, nextcab : Cab \cup {NULL},
            files : File \cup {NULL}, folders : Folder \cup {NULL}]
FolderObj == [live : BOOLEAN, next : Folder \cup {NULL}, comp : Comp \cup {NULL},
              blocks : Int, data : Seq(Cab),
              merge_prev : File \cup {NULL}, merge_next : File \cup {NULL}]
FileObj == [live : BOOLEAN, next : File \cup {NULL}, key : Key \cup {NULL},
            folder : Folder \cup {NULL}]
Decoder == [alloc : BOOLEAN, folder : Folder \cup {NULL}, state : BOOLEAN,
            incab : Cab \cup {NULL}, infh : Image \cup {NULL}]

NoCab == [img |-> NULL, next |-> NULL, prevcab |-> NULL, nextcab |-> NULL,
          files |-> NULL, folders |-> NULL]
NoFolder == [live |-> FALSE, next |-> NULL, comp |-> NULL, blocks |-> 0,
             data |-> <<>>, merge_prev |-> NULL, merge_next |-> NULL]
NoFile == [live |-> FALSE, next |-> NULL, key |-> NULL, folder |-> NULL]
NoDecoder == [alloc |-> FALSE, folder |-> NULL, state |-> FALSE,
              incab |-> NULL, infh |-> NULL]

TypeOK ==
  /\ cab \in [Cab -> Cabinet]
  /\ folder \in [Folder -> FolderObj]
  /\ file \in [File -> FileObj]
  /\ dec \in Decoder
  /\ error \in Errors
  /\ memErr \in BOOLEAN

Init ==
  /\ cab = [c \in Cab |-> NoCab]
  /\ folder = [f \in Folder |-> NoFolder]
  /\ file = [f \in File |-> NoFile]
  /\ dec = NoDecoder
  /\ error = "OK"
  /\ memErr = FALSE

-----------------------------------------------------------------------------
(* Linked lists: a head pointer and a next field.                          *)

\* The nodes of the list at h in order, then NULL for ever.
Walk(h, next) ==
  LET w[n \in 0..Cardinality(DOMAIN next)] ==
        IF n = 0 THEN h
        ELSE LET p == w[n - 1] IN IF p = NULL THEN NULL ELSE next[p]
  IN  w

Items(h, next) ==
  LET w == Walk(h, next) IN {x \in DOMAIN next : \E n \in DOMAIN w : w[n] = x}

LastOf(h, next) == CHOOSE x \in Items(h, next) : next[x] = NULL

Chain   == [c \in Cab |-> cab[c].next]
PrevOf  == [c \in Cab |-> cab[c].prevcab]
NextOf  == [c \in Cab |-> cab[c].nextcab]
FolNext == [f \in Folder |-> folder[f].next]
FilNext == [f \in File |-> file[f].next]

Open(c) == cab[c].img # NULL
SetOf(c) == Items(c, PrevOf) \cup Items(c, NextOf)
InChain(c) == cab[c].next # NULL \/ \E p \in Cab : cab[p].next = c
FilesOf(c) == Items(cab[c].files, FilNext)
FoldersOf(c) == Items(cab[c].folders, FolNext)

-----------------------------------------------------------------------------
(* cabd_open, cabd_search: cabd_read_headers builds a cabinet's lists.      *)

\* Is entry k linked into the list (cabd.c: "if folder index or filename are
\* bad, either skip it or fail")?
GoodEntry(i, k) ==
  LET e == ImageFiles[i][k]
  IN  e.named /\ (e.fidx >= FROM_PREV \/ e.fidx < Len(ImageFolders[i]))

Kept(i) == {k \in DOMAIN ImageFiles[i] : GoodEntry(i, k)}

Readable(i) == /\ Kept(i) # {}
               /\ Salvage \/ Kept(i) = DOMAIN ImageFiles[i]

\* Mutant: counts one folder too far.
EntryFolderTooFar(i, k) ==
  LET x == ImageFiles[i][k].fidx
  IN  IF x \in {FROM_PREV, PREV_AND_NEXT} THEN 1
      ELSE IF x = TO_NEXT THEN Len(ImageFolders[i])
      ELSE x + 2

EntryFolder(i, k) ==
  LET x == ImageFiles[i][k].fidx
  IN  IF x \in {FROM_PREV, PREV_AND_NEXT} THEN 1
      ELSE IF x = TO_NEXT THEN Len(ImageFolders[i])
      ELSE x + 1

Least(S) == CHOOSE k \in S : \A j \in S : k <= j

\* The first entry whose folder index is one of xs, as a pointer; the code
\* stores it before it has decided to keep the entry.
FirstWith(c, i, xs) ==
  LET ks == {k \in DOMAIN ImageFiles[i] : ImageFiles[i][k].fidx \in xs}
  IN  IF ks = {} THEN NULL ELSE <<c, Least(ks)>>

NewFolder(c, i, n) ==
  LET last == Len(ImageFolders[i])
  IN  [live |-> TRUE,
       next |-> IF n < last THEN <<c, n + 1>> ELSE NULL,
       comp |-> ImageFolders[i][n].comp,
       blocks |-> ImageFolders[i][n].blocks,
       data |-> <<c>>,
       merge_prev |-> IF n = 1 THEN FirstWith(c, i, {FROM_PREV, PREV_AND_NEXT})
                      ELSE NULL,
       merge_next |-> IF n = last THEN FirstWith(c, i, {TO_NEXT, PREV_AND_NEXT})
                      ELSE NULL]

\* Mutant: links the entry that salvage mode has just dropped.
NewFileUnfiltered(c, i, k) ==
  [live |-> TRUE,
   next |-> IF k = Len(ImageFiles[i]) THEN NULL ELSE <<c, k + 1>>,
   key |-> ImageFiles[i][k].key,
   folder |-> <<c, EntryFolder(i, k)>>]

NewFile(c, i, k) ==
  LET later == {j \in Kept(i) : j > k}
  IN  [live |-> TRUE,
       next |-> IF later = {} THEN NULL ELSE <<c, Least(later)>>,
       key |-> ImageFiles[i][k].key,
       folder |-> <<c, EntryFolder(i, k)>>]

\* malloc never returns memory that is still allocated
Unallocated(c) == /\ ~Open(c)
                  /\ \A n \in 1..MaxFolders : ~folder[<<c, n>>].live
                  /\ \A k \in 1..MaxFiles : ~file[<<c, k>>].live

\* Each cabinet c of the domain of img is read from img[c]; succ[c] is what
\* mscabd_cabinet::next chains it to.
Load(img, succ) ==
  LET new == DOMAIN img IN
  /\ cab' = [c \in Cab |->
       IF c \notin new THEN cab[c]
       ELSE [NoCab EXCEPT !.img = img[c],
                          !.next = succ[c],
                          !.files = <<c, Least(Kept(img[c]))>>,
                          !.folders = <<c, 1>>]]
  /\ folder' = [f \in Folder |->
       IF f[1] \in new /\ f[2] <= Len(ImageFolders[img[f[1]]])
         THEN NewFolder(f[1], img[f[1]], f[2]) ELSE folder[f]]
  /\ file' = [f \in File |->
       IF f[1] \in new /\ f[2] \in Kept(img[f[1]])
         THEN NewFile(f[1], img[f[1]], f[2]) ELSE file[f]]
  /\ error' = "OK"
  /\ UNCHANGED <<dec, memErr>>

OpenCab(c, i) ==
  /\ Unallocated(c)
  /\ Readable(i)
  /\ Load([x \in {c} |-> i], [x \in {c} |-> NULL])

\* search() found two cabinets in one file
Search(c, d, i, j) ==
  /\ c # d
  /\ Unallocated(c) /\ Unallocated(d)
  /\ Readable(i) /\ Readable(j)
  /\ Load([x \in {c, d} |-> IF x = c THEN i ELSE j],
          [x \in {c, d} |-> IF x = c THEN d ELSE NULL])

\* The entries at a part's joints are whole, and a file that comes from the
\* previous part and goes on in the next one is in its part's only folder.  An
\* input assumption of the theorems about merge pointers: the code stores such
\* a pointer before it has decided to keep the entry.
JointsWellFormed ==
  \A i \in Image : Readable(i) => \A k \in DOMAIN ImageFiles[i] :
    /\ ImageFiles[i][k].fidx >= FROM_PREV => ImageFiles[i][k].named
    /\ ImageFiles[i][k].fidx = PREV_AND_NEXT => Len(ImageFolders[i]) = 1

-----------------------------------------------------------------------------
(* cabd_merge (cabd_append, cabd_prepend).                                  *)

\* Both handles are open ones, and a caller that keeps to the documented use
\* of close() joins at most one cabinet of a search() result into a set.
MayJoin(l, r) ==
  /\ Open(l) /\ Open(r)
  /\ JoinChains \/ Cardinality({x \in SetOf(l) \cup SetOf(r) : InChain(x)}) <= 1

\* Mutant: a cabinet may be joined twice.
BadArgsJoinedTwice(l, r) ==
  \/ l = r
  \/ r \in Items(cab[l].prevcab, PrevOf)
  \/ l \in Items(cab[r].nextcab, NextOf)

BadArgs(l, r) ==
  \/ l = r
  \/ cab[l].nextcab # NULL \/ cab[r].prevcab # NULL
  \/ r \in Items(cab[l].prevcab, PrevOf)
  \/ l \in Items(cab[r].nextcab, NextOf)

LeftFolder(l) == LastOf(cab[l].folders, FolNext)
RightFolder(r) == cab[r].folders

NeedsMerge(lf, rf) == folder[lf].merge_next # NULL \/ folder[rf].merge_prev # NULL

\* cabd_can_merge_folders gets as far as comparing the files.
ComparesFiles(lf, rf) ==
  /\ folder[lf].comp = folder[rf].comp
  /\ folder[lf].blocks + folder[rf].blocks <= FolderMax
  /\ folder[lf].merge_next # NULL
  /\ folder[rf].merge_prev # NULL

\* The lockstep comparison of the two file lists only decides whether to warn:
\* it succeeds only if the first files match, and then so does the second test.
CanMergeFolders(lf, rf) ==
  /\ ComparesFiles(lf, rf)
  /\ \E x \in Items(folder[lf].merge_next, FilNext),
        y \in Items(folder[rf].merge_prev, FilNext) : file[x].key = file[y].key

\* It follows both merge pointers.
MergeReads(lf, rf) ==
  IF ComparesFiles(lf, rf)
    THEN Items(folder[lf].merge_next, FilNext) \cup Items(folder[rf].merge_prev, FilNext)
    ELSE {}

MergeUsesFreed(lf, rf) ==
  ~folder[lf].live \/ ~folder[rf].live \/ \E f \in MergeReads(lf, rf) : ~file[f].live

MergeRejected(l, r) ==
  /\ MayJoin(l, r)
  /\ \/ BadArgs(l, r) /\ error' = "ARGS" /\ UNCHANGED memErr
     \/ /\ ~BadArgs(l, r)
        /\ NeedsMerge(LeftFolder(l), RightFolder(r))
        /\ memErr' = (memErr \/ MergeUsesFreed(LeftFolder(l), RightFolder(r)))
        /\ \/ ~CanMergeFolders(LeftFolder(l), RightFolder(r)) /\ error' = "DATAFORMAT"
           \/ /\ CanMergeFolders(LeftFolder(l), RightFolder(r))
              /\ "alloc" \in Faults /\ error' = "NOMEMORY"
  /\ UNCHANGED <<cab, folder, file, dec>>

\* Mutant: only the two cabinets at the joint get the joined lists.
AttachNeighbours(l, r) ==
  cab' = [c \in Cab |->
    IF c \notin {l, r} THEN cab[c]
    ELSE [cab[c] EXCEPT !.nextcab = IF c = l THEN r ELSE @,
                        !.prevcab = IF c = r THEN l ELSE @,
                        !.files = cab[l].files,
                        !.folders = cab[l].folders]]

\* "fix files and folders pointers in all cabs so they all point to the same
\* list": lcab's predecessors, and rcab with its successors.
Attach(l, r) ==
  LET left == Items(l, PrevOf)
      right == Items(r, NextOf)
  IN  cab' = [c \in Cab |->
        IF c \notin left \cup right THEN cab[c]
        ELSE [cab[c] EXCEPT !.nextcab = IF c = l THEN r ELSE @,
                            !.prevcab = IF c = r THEN l ELSE @,
                            !.files = cab[l].files,
                            !.folders = cab[l].folders]]

MergePlain(l, r) ==
  LET lf == LeftFolder(l)
      last == LastOf(cab[l].files, FilNext)
  IN
  /\ MayJoin(l, r) /\ ~BadArgs(l, r)
  /\ ~NeedsMerge(lf, RightFolder(r))
  /\ Attach(l, r)
  /\ folder' = [folder EXCEPT ![lf].next = RightFolder(r)]
  /\ file' = [file EXCEPT ![last].next = cab[r].files]
  /\ error' = "OK"
  /\ UNCHANGED <<dec, memErr>>

\* Mutant: a freed file is not unlinked.
SurvivorAny(h, gone) == h

\* The first file of the list at h that is not in gone
Survivor(h, gone) ==
  LET toFirst == [f \in File |-> IF f \in gone THEN FilNext[f] ELSE NULL]
      rest == Items(h, toFirst) \ gone
  IN  IF rest = {} THEN NULL ELSE CHOOSE f \in rest : TRUE

\* Mutants: the duplicates are kept; all of rcab's files are taken for them.
DuplicatesKept(l, r) == {}
DuplicatesAll(l, r) == FilesOf(r)

\* "delete all files from rfol's merge folder"
Duplicates(l, r) ==
  {f \in FilesOf(l) \cup FilesOf(r) : file[f].folder = RightFolder(r)}

\* Mutants: the new segments go in right after the first; the block at the
\* joint counts twice.
JoinedDataSecond(lf, rf) ==
  <<Head(folder[lf].data)>> \o folder[rf].data \o Tail(folder[lf].data)
JoinedBlocksTwice(lf, rf) == folder[lf].blocks + folder[rf].blocks

\* "append rfol's data to lfol"; the block split across the joint counts once
JoinedData(lf, rf) == folder[lf].data \o folder[rf].data
JoinedBlocks(lf, rf) == folder[lf].blocks + folder[rf].blocks - 1

\* Mutant: without the special case.
JoinedMergeNextRight(lf, rf) == folder[rf].merge_next

\* "don't merge if rfol is merge prev and next, rfol->merge_next is going to be
\* deleted, so keep lfol's version instead"
JoinedMergeNext(lf, rf) ==
  LET rnext == folder[rf].merge_next
  IN  IF rnext = NULL \/ file[rnext].folder # rf THEN rnext ELSE folder[lf].merge_next

MergeFolders(l, r) ==
  LET lf == LeftFolder(l)
      rf == RightFolder(r)
      last == LastOf(cab[l].files, FilNext)
      gone == Duplicates(l, r)
  IN
  /\ MayJoin(l, r) /\ ~BadArgs(l, r)
  /\ NeedsMerge(lf, rf) /\ CanMergeFolders(lf, rf)
  /\ Attach(l, r)
  /\ folder' = [folder EXCEPT
       ![lf] = [@ EXCEPT !.data = JoinedData(lf, rf),
                         !.blocks = JoinedBlocks(lf, rf),
                         !.merge_next = JoinedMergeNext(lf, rf),
                         !.next = folder[rf].next],
       ![rf] = NoFolder]
  /\ file' = [f \in File |->
       IF f \in gone THEN NoFile
       ELSE IF f \in FilesOf(l) \cup FilesOf(r)
         THEN [file[f] EXCEPT !.next = Survivor(IF f = last THEN cab[r].files ELSE @, gone)]
         ELSE file[f]]
  /\ memErr' = (memErr \/ MergeUsesFreed(lf, rf))
  /\ error' = "OK"
  /\ UNCHANGED dec

-----------------------------------------------------------------------------
(* cabd_extract, as far as it moves self->d around the cabinet graph.       *)

\* The caller may pass any file of the list of an open cabinet.
Listed(f) == \E c \in Cab : Open(c) /\ f \in FilesOf(c)

\* Extracting f reaches only allocated objects.  NoMemoryError says that this is
\* so of every listed file; after a use of freed memory nothing is specified.
Sound(f) ==
  LET fol == file[f].folder
  IN  /\ file[f].live /\ fol # NULL
      /\ folder[fol].live /\ folder[fol].data # <<>>
      /\ \A n \in DOMAIN folder[fol].data : Open(folder[fol].data[n])

\* "extraction impossible if no folder, or folder needs predecessor"
ExtractRefused(f) ==
  /\ Listed(f) /\ Sound(f)
  /\ folder[file[f].folder].merge_prev # NULL
  /\ error' = "DECRUNCH"
  /\ UNCHANGED <<cab, folder, file, dec, memErr>>

\* Mutant: any open handle will do.
RewoundAnyHandle(fol) ==
  LET first == Head(folder[fol].data)
  IN  [alloc |-> TRUE, folder |-> dec.folder, state |-> FALSE, incab |-> first,
       infh |-> IF dec.infh = NULL THEN cab[first].img ELSE dec.infh]

\* "free any existing decompressor", then "do we need to open a new cab file?"
Rewound(fol) ==
  LET first == Head(folder[fol].data)
  IN  [alloc |-> TRUE, folder |-> dec.folder, state |-> FALSE, incab |-> first,
       infh |-> IF dec.infh = NULL \/ dec.incab # first THEN cab[first].img
                ELSE dec.infh]

\* cabd_sys_read_block has moved on to segment n of the folder; it leaves no
\* handle behind when the next file does not open or the segments run out.
Advanced(d, fol, n) ==
  [d EXCEPT !.incab = folder[fol].data[n],
            !.infh = IF n = 1 \/ d.incab = folder[fol].data[n] THEN @
                     ELSE cab[folder[fol].data[n]].img]

StuckAt(d, fol, n) == [Advanced(d, fol, n) EXCEPT !.infh = NULL]

\* The folder starts over: a new folder, an earlier offset, or no decoder.
ExtractRestart(f) ==
  LET fol == file[f].folder
      d == Rewound(fol)
      ready == [d EXCEPT !.folder = fol, !.state = TRUE]
      segs == 1..Len(folder[fol].data)
  IN
  /\ Listed(f) /\ Sound(f)
  /\ folder[fol].merge_prev = NULL
  /\ \/ /\ folder[fol].comp \in Supported
        /\ \/ error' \in {"OK", "DECRUNCH"} /\ \E n \in segs : dec' = Advanced(ready, fol, n)
           \/ error' = "DATAFORMAT" /\ dec' = StuckAt(ready, fol, Len(folder[fol].data))
     \/ /\ folder[fol].comp \notin Supported
        /\ dec' = d /\ error' = "DATAFORMAT"
     \/ /\ "open" \in Faults
        /\ error' = "OPEN"
        /\ \/ /\ dec.infh = NULL \/ dec.incab # d.incab
              /\ dec' = [d EXCEPT !.infh = NULL]
           \/ /\ folder[fol].comp \in Supported
              /\ \/ dec' = ready   \* the output file
                 \/ \E n \in segs \ {1} : dec' = StuckAt(ready, fol, n)
     \/ "seek" \in Faults /\ dec' = d /\ error' = "SEEK"
     \/ /\ "alloc" \in Faults
        /\ error' = "NOMEMORY"
        /\ \/ ~dec.alloc /\ UNCHANGED dec                      \* self->d
           \/ folder[fol].comp \in Supported /\ dec' = d      \* the codec's state
  /\ UNCHANGED <<cab, folder, file, memErr>>

\* The decoder is already in this folder, at or before the file's offset.
ExtractOnwards(f) ==
  LET fol == file[f].folder
      at == {n \in 1..Len(folder[fol].data) : folder[fol].data[n] = dec.incab}
  IN
  /\ Listed(f) /\ Sound(f)
  /\ folder[fol].merge_prev = NULL
  /\ dec.alloc /\ dec.folder = fol /\ dec.state
  /\ \/ error' \in {"OK", "DECRUNCH"} /\ UNCHANGED dec
     \/ "open" \in Faults /\ error' = "OPEN" /\ UNCHANGED dec   \* the output file
     \/ /\ dec.infh # NULL
        /\ \E m \in at : \E n \in m..Len(folder[fol].data) :
             \/ dec' = Advanced(dec, fol, n) /\ error' \in {"OK", "DECRUNCH"}
             \/ /\ n = Len(folder[fol].data)
                /\ dec' = StuckAt(dec, fol, n) /\ error' = "DATAFORMAT"
             \/ /\ "open" \in Faults /\ n > m
                /\ dec' = StuckAt(dec, fol, n) /\ error' = "OPEN"
  /\ UNCHANGED <<cab, folder, file, memErr>>

-----------------------------------------------------------------------------
(* cabd_close.                                                              *)

\* "it MUST be the cabinet pointer returned by search()", "Do NOT close() more
\* than one cabinet in the set"
MayClose(c) ==
  /\ Open(c)
  /\ \A p \in Cab : cab[p].next # c
  /\ InChain(c) \/ \A x \in SetOf(c) : ~InChain(x)

\* One turn of the while loop frees the lists of o and its whole set, then goes
\* on with o->next; `freed' is what the earlier turns have released.
FreeSet(o, freed) ==
  LET fs == Items(cab[o].files, FilNext)
      gs == Items(cab[o].folders, FolNext)
  IN  IF o \in freed.cabs THEN [freed EXCEPT !.err = TRUE]
      ELSE [cabs |-> freed.cabs \cup SetOf(o),
            files |-> freed.files \cup fs,
            folders |-> freed.folders \cup gs,
            err |-> \/ freed.err
                    \/ \E x \in SetOf(o) : x \in freed.cabs \/ ~Open(x)
                    \/ \E x \in fs : x \in freed.files \/ ~file[x].live
                    \/ \E x \in gs : x \in freed.folders \/ ~folder[x].live]

Freed(c) ==
  LET w == Walk(c, Chain)
      turn[n \in DOMAIN w] ==
        LET before == IF n = 0 THEN [cabs |-> {}, files |-> {}, folders |-> {}, err |-> FALSE]
                      ELSE turn[n - 1]
        IN  IF w[n] = NULL THEN before ELSE FreeSet(w[n], before)
  IN  turn[Cardinality(Cab)]

\* Mutant: the decoder survives its folder.
DecoderAfterKept(freedFolders) == dec

\* "free folder decompression state if it has been decompressed"
DecoderAfter(freedFolders) == IF dec.folder \in freedFolders THEN NoDecoder ELSE dec

Close(c) ==
  LET freed == Freed(c)
  IN
  /\ MayClose(c)
  /\ cab' = [x \in Cab |-> IF x \in freed.cabs THEN NoCab ELSE cab[x]]
  /\ folder' = [x \in Folder |-> IF x \in freed.folders THEN NoFolder ELSE folder[x]]
  /\ file' = [x \in File |-> IF x \in freed.files THEN NoFile ELSE file[x]]
  /\ dec' = DecoderAfter(freed.folders)
  /\ memErr' = (memErr \/ freed.err)
  /\ error' = "OK"

-----------------------------------------------------------------------------
(* Headers that do not read: what was allocated so far is closed again.     *)

\* The folders or entries ns of cabinet c, as cabd_read_headers links them: its
\* head pointer and the next fields.
FirstLink(c, ns) == IF ns = {} THEN NULL ELSE <<c, Least(ns)>>

Linked(next, c, ns) ==
  [x \in DOMAIN next |->
     IF x[1] = c /\ x[2] \in ns THEN FirstLink(c, {m \in ns : m > x[2]}) ELSE next[x]]

\* cabd_read_headers can get as far as n folders and k entries of image i.
ReadsAsFarAs(i, n, k) ==
  /\ n <= Len(ImageFolders[i]) /\ k <= Len(ImageFiles[i])
  /\ k > 0 => n = Len(ImageFolders[i]) /\ (Salvage \/ 1..k \subseteq Kept(i))

\* There it finds that the headers are no good.
BadAfter(i, n, k) ==
  /\ n = Len(ImageFolders[i])
  /\ IF k = Len(ImageFiles[i]) THEN Kept(i) = {} ELSE ~Salvage /\ ~GoodEntry(i, k + 1)

\* The file does not open, or its headers do not read.  open() and search() close
\* the cabinet in hand, which walks its lists as they are; what the walk does not
\* reach would stay allocated.  search() then goes on, and may well end with OK.
OpenFails(c, i, n, k) ==
  LET fols == {c} \X (1..n)
      fils == {c} \X {j \in Kept(i) : j <= k}
      goneFols == Items(FirstLink(c, 1..n), Linked(FolNext, c, 1..n))
      goneFils == LET ks == {j \in Kept(i) : j <= k}
                  IN  Items(FirstLink(c, ks), Linked(FilNext, c, ks))
  IN
  /\ Unallocated(c)
  /\ ReadsAsFarAs(i, n, k)
  /\ \/ "open" \in Faults /\ n = 0 /\ error' = "OPEN"
     \/ "seek" \in Faults /\ k = 0 /\ error' \in {"SEEK", "OK"}
     \/ "alloc" \in Faults /\ error' \in {"NOMEMORY", "OK"}
     \/ BadAfter(i, n, k) /\ error' \in {"DATAFORMAT", "OK"}
  /\ folder' = [g \in Folder |->
       IF g \in fols \ goneFols THEN NewFolder(c, i, g[2]) ELSE folder[g]]
  /\ file' = [f \in File |->
       IF f \in fils \ goneFils THEN NewFile(c, i, f[2]) ELSE file[f]]
  /\ dec' = DecoderAfter(goneFols)
  /\ memErr' = (memErr \/ ~(goneFols \subseteq fols) \/ ~(goneFils \subseteq fils))
  /\ UNCHANGED cab

-----------------------------------------------------------------------------
Next ==
  \/ \E c \in Cab, i \in Image : OpenCab(c, i)
  \/ \E c, d \in Cab, i, j \in Image : Search(c, d, i, j)
  \/ \E c \in Cab, i \in Image, n \in 0..MaxFolders, k \in 0..MaxFiles : OpenFails(c, i, n, k)
  \/ \E l, r \in Cab : MergeRejected(l, r)
  \/ \E l, r \in Cab : MergePlain(l, r)
  \/ \E l, r \in Cab : MergeFolders(l, r)
  \/ \E f \in File : ExtractRefused(f)
  \/ \E f \in File : ExtractRestart(f)
  \/ \E f \in File : ExtractOnwards(f)
  \/ \E c \in Cab : Close(c)

Spec == Init /\ [][Next]_vars
-----------------------------------------------------------------------------
(* Properties.                                                              *)

\* The cabinets of c's set in order, as a sequence.
FirstOf(c) == CHOOSE x \in Items(c, PrevOf) : cab[x].prevcab = NULL
SetSeq(c) == [n \in 1..Cardinality(SetOf(c)) |-> Walk(FirstOf(c), NextOf)[n - 1]]

\* A caller that keeps to the documentation of close() and append() never
\* makes the library touch an object it has freed, whatever order it opens,
\* joins, extracts and closes in: cabd_close frees nothing twice, cabd_merge
\* compares live files, and every listed file can be extracted.
NoMemoryError == ~memErr /\ \A f \in File : Listed(f) => Sound(f)

\* What is allocated is exactly what the lists of the open cabinets hold: no
\* list runs into freed memory, and nothing is lost by cabd_merge or left
\* behind by cabd_close.
ListsHoldTheHeap ==
  /\ {f \in Folder : folder[f].live} = UNION {FoldersOf(c) : c \in {x \in Cab : Open(x)}}
  /\ {f \in File : file[f].live} = UNION {FilesOf(c) : c \in {x \in Cab : Open(x)}}

\* "all cabs point to the same list" (cabd_merge): the cabinets of one set agree
\* on the heads of both lists and no two sets share a folder.
SetSharesLists ==
  \A c, d \in {x \in Cab : Open(x)} :
    IF d \in SetOf(c)
      THEN cab[c].files = cab[d].files /\ cab[c].folders = cab[d].folders
      ELSE FoldersOf(c) \cap FoldersOf(d) = {}

\* A file's folder is in the folder list next to it, also after cabd_merge has
\* freed the folder that half of the files pointed to.
FilesPointIntoSet ==
  \A c \in {x \in Cab : Open(x)} : \A f \in FilesOf(c) : file[f].folder \in FoldersOf(c)

\* merge_prev and merge_next, which outlive several merges, point at files that
\* still exist and belong to the folder (the special case in cabd_merge).
MergePointersValid ==
  \A g \in Folder : folder[g].live =>
    \A m \in {folder[g].merge_prev, folder[g].merge_next} \ {NULL} :
      file[m].live /\ file[m].folder = g

\* What points from one list to another points at what is there: files at the
\* folders beside them, folders at the files that a later merge will join.
PointersIntoSet == FilesPointIntoSet /\ MergePointersValid

\* A folder's data segments are consecutive cabinets of its set, in set order,
\* and only a joint inside the folder lies between them: extraction walks from
\* one part to the next without skipping one.
SegmentsInSetOrder ==
  \A c \in {x \in Cab : Open(x)} : \A g \in FoldersOf(c) :
    \E m \in 0..Cardinality(SetOf(c)) :
      /\ m + Len(folder[g].data) <= Cardinality(SetOf(c))
      /\ folder[g].data = [n \in 1..Len(folder[g].data) |-> SetSeq(c)[m + n]]

\* The number of blocks that the headers of g's parts say: those of the folder g
\* was read as, then those of the first folder of each part joined to it.
PartBlocks(g) ==
  [n \in 1..Len(folder[g].data) |->
     ImageFolders[cab[folder[g].data[n]].img][IF n = 1 THEN g[2] ELSE 1].blocks]

SumOf(s) ==
  LET sum[n \in 0..Len(s)] == IF n = 0 THEN 0 ELSE sum[n - 1] + s[n]
  IN  sum[Len(s)]

\* A folder's block count is what its parts' headers say, less one for each
\* block that is split across a joint.
BlockCount ==
  \A g \in Folder : folder[g].live =>
    folder[g].blocks = SumOf(PartBlocks(g)) - (Len(folder[g].data) - 1)

\* What extraction reads of a joined folder: its parts in order and the number of
\* blocks they have together, however the parts came to be joined.
FoldersAddUp == SegmentsInSetOrder /\ BlockCount

\* The folder the decoder was left in is still allocated, and it is one whose
\* beginning is present: cabd_close drops the decoder with its folder, and the
\* folder cabd_merge frees is never the one the decoder is in.
DecoderFolderLive ==
  dec.folder # NULL => folder[dec.folder].live /\ folder[dec.folder].merge_prev = NULL

\* The bound CAB_FOLDERMAX holds for merged folders too.
BlocksBounded == \A g \in Folder : folder[g].blocks <= FolderMax

\* "do we need to open a new cab file?": the handle a decoder reads from is
\* that of the cabinet it believes it is in.
HandleMatches ==
  dec.state /\ dec.infh # NULL => dec.infh = cab[dec.incab].img
=============================================================================
