# A verification project for libmspack4n

libmspack4n is a .NET wrapper (`src/libmspack4n`) around libmspack
(`src/lib/libmspack/mspack`), a C library that unpacks Microsoft cabinet, CHM,
SZDD, KWAJ and OAB files. This directory holds TLA+ specifications of its
stateful core, TLC configurations that check them on small instances, and TLAPS
proofs of the invariants that carry the argument. Every definition is a
translation of the C# or C code; `PROJECT.json` says which lines each stands
for ("map"), which runs check what, which hazards the code has, and what the
proofs establish.

## 1. Inventory

| Component | State it keeps | Operations | What is hard about it |
|---|---|---|---|
| Cabinet sets (`cabd.c`: open, search results, append/prepend, close) | heap of cabinets, folders, files and their list pointers; `self->d` points into it | `cabd_open`, `cabd_search` (what it builds), `cabd_merge`, `cabd_close` | shared lists, objects freed by a merge while pointers to them live on in other objects, address reuse, refused calls that must change nothing |
| Extraction (`cabd.c`: `cabd_extract`, `cabd_sys_read`, `cabd_sys_read_block`, `noned_*`, `cabd_init_decomp`) | `self->d` from call to call: folder, segment, handle, offset, block count, input buffer, codec | `extract()`, and `append()` between two of them | continuing where the last call stopped; failures in the middle; blocks split over cabinets in different files; errors that travel through the codec and back |
| search() (`cabd.c`: `cabd_search`, `cabd_find`) | one file handle, a buffer, an automaton | `search()` | signatures over buffer ends, going back after false headers, jumping by a length read from the file |
| The .NET layer (`MSCabinet.cs`, `MSCompressedFile.cs`, `cabd_dotnet_wrapper.c`) | native pointers, pinned filename, managed copies of native structs | constructor, `Append`, `GetFiles`, `Next`, `ExtractTo`, `Close`/`Dispose`, finalizers | the finalizer thread, objects that share a native set, copies that go stale |
| Decoders (`lzxd.c`, `qtmd.c`, `mszipd.c`, `lzssd.c`, LZH in `kwajd.c`) | window, place in it, what is decoded and not written yet, frame and block counters, sticky error, kept from call to call | `init`, `set_reference_data`, `set_output_length`, `decompress`, called for any number of bytes at a time | matches over the window's edges and their own end; windows smaller than a frame; a last frame that is short; frames cut in two by a file's end; how far they read ahead |
| CHM (`chmd.c`) | chunk cache, `self->d` with codec, reset offsets, `self->error` | open, fast_open, fast_find, extract, close | the cache, the decoder restarted at reset points, stale errors |
| Single files: SZDD, KWAJ, OAB (`szddd.c`, `kwajd.c`, `oabd.c`) | a handle and texts per header, `self->error`; OAB nothing between calls | open, extract, decompress, close; decompress and decompress_incremental of OAB | up to three handles, a buffer and a decoder to give back from many places; optional headers behind strings of unknown length; truncated input; decoders that read ahead of a block |
| `mspack_system` (`system.c`) | none (the caller's callbacks) | open, read, write, seek, alloc | any of them may fail at any time |
| Compressors, HLP, LIT | none | none: every constructor returns NULL | nothing |
| Tests and tools | callers of the library | | |

How they interact. A program holds `MSCabinet` objects; each owns a native
decompressor (with its `self->d`), a native cabinet and a pinned filename.
`Append` joins two native cabinets into a set, after which both objects refer
to shared lists. `ExtractTo` calls `cabd_extract` through the C wrapper; that
drives a codec, which calls back into `cabd_sys_read` for input and
`cabd_sys_write` for output, and those call `mspack_system`. Nothing in the C
library is concurrent: its difficulty is state kept from one call to the next
under any order of calls and any failure. The .NET layer adds one true
concurrency, the finalizer thread.

What makes each correct:

- *Cabinet sets*: no freed object is read or freed again; what is allocated is
  what the open cabinets' lists hold; members of a set agree on one list;
  folders' segments come in set order; the decoder never points at a freed
  folder; a refused call changes nothing.
- *Extraction*: `MSPACK_ERR_OK` means that the output is the file; nothing is
  written out of place; an intact file is extracted whatever was extracted
  before; every call returns.
- *search()*: exactly the cabinets of the file are linked, whatever the buffer
  size; it ends.
- *.NET*: whatever an object owns is given back, once, after its last use; a
  copy of a native struct is as good as the struct.
- *Decoders*: units come out in order, however the stream is asked for; what an
  intact stream holds comes out whole, and a decoder never writes more than it
  was asked for.
- *Single files*: a call that has returned leaves open and allocated what the
  caller's headers own, whatever failed; it reports the failure; fields and
  blocks are read where they are; `MSPACK_ERR_OK` means that all of the target
  was written.
- *CHM*: `fast_find()` finds what `open()` lists and reports what fails; a file
  is written as it is, whichever was extracted before from whichever help file;
  the decoder's saved place is where its input goes on.

## 2. Modules

| Module | Models | Role |
|---|---|---|
| `CabSets` | `cabd.c` open/search/merge/close and the pointers of `self->d` | specification |
| `CabSetView` | what `mspack.h` promises of sets | abstract specification |
| `CabSetsRefine` | `CabSets` implements `CabSetView` | refinement mapping |
| `CabSetsProofs` | | theorems |
| `CabExtract` | `cabd_extract` down to the I/O calls, with MSZIP, LZX and stored data | specification |
| `CabExtractProofs` | | theorems |
| `CabSearch` | `cabd_search` and `cabd_find`, byte by byte | specification |
| `CabSearchProofs` | | theorems |
| `ManagedCabs` | `MSCabinet`, `MSCompressedFile`, the C wrapper, the finalizer thread | specification |
| `ManagedCabsProofs` | | theorems |
| `ChmFind` | `chmd_fast_find`, `read_chunk`, `search_chunk`, one comparison per step | specification |
| `ChmFindProofs` | | theorems |
| `Chm` | `chmd_open`, `chmd_extract`, `chmd_init_decomp`, `chmd_close`, the LZX decoder as CHM drives it | specification |
| `ChmProofs` | | theorems |
| `LzWindow` | what the decoders share: window, `o_ptr`/`o_end`, output, calls | common part |
| `LzxWindow`, `QtmWindow`, `ZipWindow`, `LzssWindow` | `lzxd_decompress`, `qtmd_decompress`, `mszipd_decompress` with `inflate`, `lzss_decompress` and `lzh_decompress`, token by token | specifications |
| `LzStream` | what a decoder promises its caller | abstract specification |
| `Decoders` | a decoder of any kind and its caller; each implements `LzStream` | composition, refinement |
| `DecodersProofs` | | theorems |
| `PackedFile` | handles, memory and errors of a call; open, extract and close of SZDD and KWAJ | common part |
| `SzddFile`, `KwajFile`, `OabFile` | the headers of SZDD, the optional headers of KWAJ, `oabd_decompress` and `oabd_decompress_incremental` | specifications |
| `SingleFile` | a decompressor of any of the three and its caller | composition |
| `SingleFileProofs` | | theorems |
| `MC_CabSets`, `MC_CabExtract`, `MC_CabSearch`, `MC_ManagedCabs`, `MC_ChmFind`, `MC_Chm`, `MC_Decoders`, `MC_SingleFile` | the instances TLC checks | |

How they compose. The pointer-level `CabSets` is shown to implement
`CabSetView`; `ManagedCabs` uses native sets as `CabSetView` describes them
(sequences of cabinets with one list of files), so that the .NET layer is
checked against what the library really does and not against its pointers.
`CabExtract` takes from `CabSets` what a folder's segments are
(`SegmentsInSetOrder` is what it relies on); `CabSearch` takes from it what
`cabd_read_headers` builds, and is itself what `CabSets!Search` abstracts.
`Chm` and `ChmFind` are two views of `chmd.c` that share no state in the code
but `self->error`: the chunk cache belongs to a header, the decoder to `self->d`.

The decoders are modelled twice, from their two sides. `CabExtract` and `Chm`
have their input side: how a frame's input is fetched through blocks, segments
and buffers, with decoding taken to be the inverse of encoding. `Decoders` has
the side that these take for granted: the window, the tokens and the output,
with input that is there until it ends or a read fails. What joins the two is
`LzStream`: a call that returns OK has written what was asked for, and a decoder
that failed stays failed. `SingleFile` in turn sees a decoder only as something
that reads, writes, and ends.

Correspondence of state and actions:

- **CabSets.** `cab`, `folder`, `file` are the heap: functions from addresses to
  structs with their C field names; a list is a head and `next` fields; freeing
  sets `live` to FALSE and a later allocation may take the address again. `dec`
  is the part of `self->d` that points into the heap. `OpenCab`, `OpenFails`, `Search`
  (a chain of two), `MergeRejected`, `MergePlain` and `MergeFolders` (the three
  ways through `cabd_merge`), `ExtractRefused`, `ExtractRestart`,
  `ExtractOnwards` (what extraction does to `dec`), `Close`. `OpenFails` is an open or search whose headers do
  not read: it links what was read by then as `cabd_read_headers` does (`Linked`), closes it, and leaves allocated
  what that walk does not reach, which the invariants say is nothing.
- **CabExtract.** `d` is `self->d`, `codec` the decoder behind it, `call` the
  arguments and local variables of the call in progress, `pc` the place in it. `Refuse`, `Start`,
  `RestartFails` are the head of `cabd_extract`; `NonedRun`, `NonedWrite` the
  loop of `noned_decompress`; `CodecEnter`, `BeginFrame`, `FrameInput`,
  `FrameOut`, `FrameFails`, `FramesDone`, `CodecReceive` the loops of
  `mszipd_decompress` and `lzxd_decompress`; `ReadCopy`, `ReadNext`, `AtEndError` the
  loop of `cabd_sys_read`; `BlockUnread`, `BlockRejected`, `BlockRead`, `BlockContinues`
  the loop of `cabd_sys_read_block`; `Join` is an `append()` between two calls.
- **CabSearch.** `buf` is `at`/`length`, `p` is `i`, and `state`, `cablen_u32`,
  `foffset_u32` are the code's. `Open`, `Fill`, `Scan` (one byte), `Advance`
  (end of buffer), `Header` (a full header was seen), `Restart` (seek).
- **ManagedCabs.** `obj` holds an object's fields, `cab`, `sets`, `listing`,
  `dec`, `folder` the native side. A `Close()` is three steps (`CloseCab`,
  `DestroyDec`, `FreeName`), taken by the program (`Dispose`) or by the finalizer thread (`Finalize`);
  the two interleave. `fault` is the memory fault that ends the program.
- **ChmFind.** `cache` is `chm->chunk_cache`; `call` the local variables of the
  call. `FastFind` begins a call, `ReadChunk` is one `read_chunk()`, `QuickRef`
  one turn of the binary search over the quickrefs of a chunk, `ScanEntry` one
  turn of the linear search behind it, and `SearchChunk`, `Searched` and `Exhausted`
  are what `fast_find` makes of a chunk. `Entered` are the entries
  that `chmd_read_headers` walks for the same directory and `Listed` those it makes files of, the reference; `Ref` is where
  a quickref points.
- **Chm.** `chm` are the open help files, `d` is `self->d`, `codec` the LZX
  decoder, `pos` where the one handle stands. `Open`, `OpenFails`, `Close`;
  `Start` is the head of `chmd_extract` and `Copy` its section 0;
  `InitContent`, `InitControl`, `ReadControl`, `FindTable`, `ReadTable`,
  `FindSpanInfo`, `ReadSpanInfo` and `InitStream` are
  `chmd_init_decomp` with `read_reset_table` and `read_spaninfo`; `Seek` is the
  seek to `inoffset`, `Enter` a call of `lzxd_decompress` (first for the bytes before
  the file, then for the file), and `BeginFrame`, `Input`, `FrameOut`,
  `FrameFails`, `FramesDone` its loop.

- **LzWindow and the decoders.** `window`, `posn`, `optr`, `oend`, `error` are
  `window`, `window_posn`, `o_ptr`, `o_end` and `error` of the decoder structs; `z` is what only
  one kind has (LZX: frame number, block, `length`; Quantum: `frame_todo`,
  `header_read`; MSZIP: `bytes_output`); `want` is `out_bytes`, `l` local variables.
  A unit of the stream is its number: a stream's content is 0, 1, 2, ..., so
  that a unit in the wrong place shows. A token is what bits were decoded to:
  a literal, a match of any length and offset, a stored run; `made` is how many
  units the tokens read so far stand for, and `intact` says that no token was
  illegal yet. Of LZX: `LzxFrame` to `LzxFrameDone` are a turn of the loop over frames with its
  reset, block headers (`LzxNewBlock`), runs (`LzxRun`, `LzxLiteral`, `LzxMatch`,
  `LzxCopy`, `LzxStoredRun`), the checks behind them (`LzxOverrun`, `LzxBadFrame`), E8 and the wrap of the
  window. Of Quantum: `QtmHead` to `QtmOut`, with `QtmWrapMatch` and `QtmSecondPart` for
  a match over the window's end and `QtmBailsOut` for the one it gives up on. Of
  MSZIP: `ZipFrame`, blocks, symbols, `FlushIfNeeded`, and `InflateFails` with the repair mode.
- **PackedFile and the three formats.** `handles` maps open handles to file and
  place, `heap` are the allocated blocks, `pc` is the place in the call, `l` its locals,
  `failed` says that a call to `mspack_system` failed in this call. `OpenInput`,
  `AllocHeader` and `Opened` are `szddd_open` and `kwajd_open` around the reading of headers
  (`SzddSignature`, `SzddLength`; `KwajSignature` to `KwajExtra`, one per optional header); `SeekData` to `EndExtract`
  are `extract`, `CloseWhole` the close inside `decompress()`, `CloseCall` the
  caller's. `OabOpenInput` to `OabOut` are the two functions of `oabd.c`, which differ in
  headers and in the base file (`l.patch`).

## 3. Runs

All runs use TLC's breadth-first search over the complete state graph of the
instance. Sizes are distinct states.

**graph** (`CabSets_graph`, 13,181 states). Three cabinets at addresses that are reused, the
parts of a set like the repository's `multi_basic_pt*.cab`, salvage mode with
one entry that is dropped, seeks, opens and allocations that fail and a
compression type the library does not know; a call of `open()` may get as far into the headers as
the image lets it before something fails, and what it built by then is walked and freed. Checks `NoMemoryError`,
`ListsHoldTheHeap`, `SetSharesLists`, `PointersIntoSet`, `FoldersAddUp`,
`DecoderFolderLive`, and the refinement `ImplementsView`: whatever fails, a caller sees
the sets of `CabSetView`. Parts are joined in all orders; extraction leaves the
decoder in any folder in between.

**extract** (`CabExtract_calls`, 129,074). Twelve files of five folders
extracted in any order with `append()` in between, in both modes, three buffer
sizes, two I/O failures: `OutputRight` (exact or an error, and in place), `InputFits`,
`HandleInSegment`, `ReadErrorKept`, `IntactExtracts`, `ExtractReturns`. In salvage mode a damaged MSZIP
block that inflates without an error puts out as many bytes as it likes (`Sizes`; `mszipd.c:445` compares them with nothing), so that
what follows moves; `OutputInPlace` claims nothing of the places of such a folder's data from then on, but still that
no more is written than the file is long, and claims them for all other damage.

**search** (`CabSearch_scan`, 12,130). Ten files with true, false, overlapping, nested,
truncated and oversized headers, five buffer sizes, two failures:
`FoundExactly` compares the list with `Cabinets`, a definition of the cabinets
of a file that knows of no buffer and no automaton; also `ChainApart`, `HandleInPlace`, `SearchEnds`.

**managed** (`ManagedCabs_life`, 199,805). Three objects of one set, every
order of constructing, appending, listing, extracting, disposing and dropping,
with the finalizer thread at any time: `FilenameOutlives`,
`NothingFreedInUse` (a set is not freed twice, held files and the decoder's
folder live), `HeadsCurrent`, `Reclaimed`.

**find** (`ChmFind_find`, 62,765). Fourteen directories of up to five chunks: with and
without an index, with and without quickrefs, in one level and two, damaged
ones whose chunks point back or nowhere, or whose quickrefs point to other entries, past the last, or inside
of one, where the bytes read as anything (`stray`); entries that `open()` skips; eleven names, asked for in any order
over one cache, two failures. `FindsListed`: in a directory as compilers write
it, `fast_find()` finds every file that `open()` lists, and what it finds besides are only the entries that `open()` skips:
names shorter than two characters, directories, and entries of a section above 1 (`chmd.c:455-468`), the last of which it
gives out as of section 1. `FoundIsNamed`: what is found has the name, and is an entry of its chunk whatever entries
the quickrefs point to; only one that points inside of something can lead to what is no entry.
`FoundIsNamed` and `FailureReported` hold for every directory; `FindEnds` for those whose chunks form no cycle
other than the last chunk's own, which is the one the code tests for.

**help** (`Chm_extract`, 303,933). Sixteen help files: intact ones with a reset
table, with SpanInfo only, with padding, with an Intel header; damaged
frames, tables that are missing, short, too long, or elsewhere. Every order of opening,
extracting and closing one of them beside a second, one failure anywhere:
`OutputInPlace`, `IntactExtracts`, `DecoderInStep`. A second help file matters
because `self->d` is one and the help files are many.

**decode** (`Decoders_streams`, 1,356,566). Fourteen streams of six kinds over windows of
three to six units: LZX whose length is told first, later or never, with reset
intervals, reference data, and E8; Quantum with windows smaller and larger than
a frame; MSZIP with and without repair; KWAJ's MSZIP, LZSS and LZH. Every sequence of tokens,
legal or not, asked for in pieces of 0, 2, 3 and 5 units, with one read or
write that fails: `InOrder` (each unit that is written is the next of the stream; LZX notices references to what
was never there, except by an offset that no match can have, 0 or beyond the window, which a damaged stored block
set, `lzxd.c:527`: such a match is copied without a word),
`IntactDecodes` (a stream of legal tokens comes out whole, without an error, but for
what LZH still looks ahead at when its input ends, `kwajd.c:460`),
`ImplementsStream`, `DecodeReturns`; `TypeOK` has the bounds on which every write to
the window rests.

**single** (`SingleFile_calls`, 228,044). Some fifty small files of the three formats: whole
ones with every choice of optional headers, names of the limiting lengths,
every kind of place to be cut off at, damaged, oversized, padded and empty
blocks. Two headers at most, calls in any order, one failure of `mspack_system`
anywhere: `CleanExit`, `ErrorReported`, `HeaderInStep`, `OkMeansWhole`, `IntactWorks`,
`CallsEnd`.

The remaining runs each show one disagreement between the code and what it,
its documentation or its tests say; TLC's counterexample is the explanation.

| Run | Violated | What happens |
|---|---|---|
| stale | `HandleMatches` | a failed seek leaves `self->d` with a handle and `incab` but no folder; close and open put another cabinet at the same address, and its folder is read from the closed cabinet's file |
| buffer | `AnyBufferExtracts` | LZX learns the size of its last, short frame only by reading ahead into the last block; with a buffer size that ends a read exactly before it, extract() of an intact file fails |
| retry | `OkMeansExact` | stored folders keep no error: extract() after one that failed continues one block too far and returns MSPACK_ERR_OK |
| using | `ClosedOnce` | two `using` blocks over two joined cabinets: the second Close() passes a freed cabinet to the library |

Where the code does less than its documentation says, the passing run states
the part that does hold: `ExactOrError` and `OutputInPlace` exclude stored
folders in which a read has failed (`missed`; run *retry* is that case),
`IntactExtracts` of `CabExtract` the buffer sizes of run *buffer* and a file that was
tried before its set was complete (the decoder that ran out of segments is
kept, and extract() fails also after `append()`); `HandleMatches` is checked by *stale* only. *graph* does not join members of a chain
(`JoinChains` = FALSE): if two members of one search() result are joined, close()
follows `next` and frees the lists they share twice; with `JoinChains` = TRUE TLC shows
it as a violation of `NoMemoryError`. `HeadsCurrent` excludes
sets put together from their end: `Append()` refreshes the copies of two
objects, and a third member then keeps a list head that is a middle or a freed
file. `IntactExtracts` of `Chm` excludes the call in which a reset table cannot
be read: `chmd_init_decomp` falls back to SpanInfo and is set up, but returns
the error the table left in `self->error`; the same call made again succeeds, with the
length that SpanInfo told. `Usable` therefore asks that both tell the same: with another
length in SpanInfo that decoder would stay and refuse, in calls in which nothing fails,
what the reset table would have led to. It also asks for a stream of whole reset
intervals, which `chmd.c:1114` takes for granted when it pads the length. Both conditions came from the proof of
`IntactFilesExtract`, and TLC shows that either is needed.
`IntactDecodes` excludes `QtmBailed`: when a match runs over the end of a Quantum window
while more is stored up than the call still wants, `qtmd.c:372` gives up with
the comment "this should not happen". It does, on intact streams asked for in
small pieces: of 49 streams (random input bits over a window of 1 KB) that `qtmd_decompress()`
decodes in one call of 20,000 bytes, 33 fail in calls of 100. `CleanExit` excludes the texts of KWAJ headers,
which neither `kwajd_close` nor a failed `kwajd_open` frees (`kwajd.c:141`, 116), and
`CallsEnd` the one endless loop: `oabd.c:217` skips padding until all of it was
read, and at the end of a file that is cut off there `read()` returns 0 for ever. Stored
OAB blocks have a CRC that is not compared; `OkMeansWhole` is about the others. A KWAJ
name that the file's end cuts off loses its last character as if it were the
NUL; `IntactWorks` is about whole files.

### Bounds, and why they are enough

- *Cabinet sets*: three parts are the fewest with a middle part, whose
  folder is both a left and a right side of a merge; two folders and two or
  three files per part give a folder that is split, one that is not, and lists
  with a first, a middle and a last element. `FolderMax` = 6 is reached by
  merging all parts (2 + 3 + 2 blocks before the joints are subtracted). Addresses are
  symmetric and are declared so.
- *Extraction*: `BLOCKMAX` = 2 units of output per full block, `INPUTMAX` = 3,
  `INPUTMAX_SALVAGE` = 4, `FOLDERMAX` = 3, two cabinets, buffers of 1, 2 and 3
  units. The five folders are the smallest with: a stored block split over the
  joint, a damaged first block, a damaged last block (MSZIP), a short last
  block (LZX), and a block whose fragments are too long together but not apart.
  `MaxFaults` = 2, so that a failure happens while another has left its traces.
- *search()*: headers are the full 20 bytes the scan looks at, because the
  automaton's states are what is checked; buffers of 4 (the least that
  `set_param()` takes), 5, 7, 20 and 64 bytes put a buffer end at every place of a header and nowhere.
- *.NET*: three objects, because staleness needs a member that neither argument
  of `Append` is. Address reuse is left to `CabSets`.
- *fast_find*: five chunks are an index over an index over PMGL chunks;
  chunks of up to five entries with a quickref every second or third put an entry before, at and
  behind every edge of a group, and a short last group.
- *CHM extraction*: `FRAME` = 2 units, `BUFFER` = 2, a reset point every second
  frame, four frames: a file can begin before, at and behind a reset point, end
  inside a frame, and the input buffer ends inside a frame's input. The second
  help file is always the plain one.

- *Decoders*: windows of two frames for LZX, of one frame or a little more or less for
  Quantum, of one for MSZIP, and streams of a lap and a half or more, so that every edge is
  met by literals, matches and calls alike; match lengths 2 and 3, every
  offset in the window; pieces that end before, at and behind frames.
- *Single files*: lengths are bytes for SZDD and KWAJ headers, whose arithmetic is what
  matters, and units for OAB. `CHUNK` = 2 (a codec's read), `HEAD` = 2,
  `WINDOWMAX` = 3 (a reference just within the largest LZX window and one beyond), `MaxOpens` = 2 headers so that one is open
  while another call fails, `MaxFaults` = 1: after a failure the code only cleans up.

Deadlock is checked except in *search* (a search that is done stops), *decode* and *single* (a decoder
that failed, or a caller who has opened all it may, stops) and the `ManagedCabs`
runs (a program that has dropped its objects, or crashed, stops).

### Fairness

- `CabExtract!FairSpec` is `WF_vars(Steps)` and `CabSearch!FairSpec` is `WF_vars(Next)`: the steps of one
  call of a sequential function. The caller's decision to call again, and
  `append()`, have no fairness. `ChmFind!FairSpec` is `WF_vars(Steps)` for the
  same reason, as do `Decoders!FairSpec` (`WF_vars(CallStep)`) and `SingleFile!FairSpec`
  (`WF_vars(Step)`): a call that was made runs on, that one is made nothing
  promises. `Chm` and `CabSets` check safety only.
- `ManagedCabs!FairSpec` has weak fairness of `Finalize(o)` (the runtime runs
  the finalizer of an object nothing refers to some time) and of `Closing(t)` (a
  thread inside `Close()` goes on). The program is never obliged to do
  anything.

## 4. Proofs

TLAPS proves for all values of the constants, under the assumptions each
module names (`CabSetsAssumption`, `CabExtractAssumption`, `LayoutAssumption`, `SearchAssumption`,
`ManagedAssumption`, `FindAssumption`, `ChmAssumption`, `LzWindowAssumption`,
`PackedFileAssumption`, `KwajAssumption`, `OabAssumption`, `SoundAssumption`). They say what kind of thing a
constant is and that special values are apart from ordinary ones. `LayoutAssumption` says what makes the data of a
folder of `CabExtract` one sequence of blocks, without which it has no contents to compare with: records
with output 0, which `cabd_sys_read_block` takes to go on in the next cabinet, are just those that end a part other than
the last, and a folder has no more blocks than the 16-bit count of a cabinet and `cabd_can_merge_folders` let it have; and
what the numbers mean that stand for data (0 is damage, which the checksum tells; any other unit of stored data is its place). `SoundAssumption` says what it is for a file of
`SingleFile` to be as it should be ("sound"): what its headers announce is there. Beyond that, some theorems of `CabSetsProofs` state up to
three hypotheses; `HypothesesMet` has TLC evaluate these for the instances it checks.

- **CabSetsProofs.** Without hypotheses, for any images, caller and faults: `TypeCorrect`
  (`TypeOK` is not inductive: that a merged list has a head again needs that the heads of
  open cabinets are not NULL, `HeadsSet`); `DecoderNeverDangles`, since `self->d->folder` is a folder
  whose beginning is present, the folder `cabd_merge` frees has a `merge_prev`, and `cabd_close` drops
  the decoder with its folder; and `BlocksStayBounded`, by the test against `CAB_FOLDERMAX`
  (stated as a theorem only).

  The other six follow the pointers, for a caller that keeps to the documentation of `close()`
  (`~JoinChains`). A list is `Items(h, next)`, what a walk from `h` meets: the lemmas show
  that this is the least set with `h` that `next` does not leave (a walk longer than the
  heap would meet an object twice), and what hanging one list behind another, dropping members and
  relinking do to it. The invariant `Graph` then has one part per kind of pointer: `ListsEnd` (every list
  ends, in NULL), `SetsLinked` (`prevcabinet` and `nextcabinet` are inverse to each other and
  sets do not cross), `ChainsKept` (only cabinets of one `search()` are chained), `PartsInSet` (a
  folder's data are cabinets of its set), with the three properties `ListsHoldTheHeap`, `SetSharesLists` and
  `FilesPointIntoSet` themselves, none of which is inductive alone: that a merge loses nothing needs that
  the two sets share nothing, and that a close frees nothing twice needs both. That an open or search that fails leaves
  nothing is `OpenFailsStill`: the lists of a cabinet that is half read hold all that was allocated for it
  (`LinkedReached`). From it: `HeapIsListed` and `SetsShare`.

  `PointersStayInSet` and `FreedIsNeverUsed` add `MergePointersValid` and the absence of an error
  (`SafeGraph`). They also need `JointsWellFormed`: a joint entry that is kept is named, and one
  continued on both sides is in a part of one folder. Both conditions are necessary: TLC finds
  `NoMemoryError` broken by an unnamed entry at a joint in salvage mode (the code stores `merge_next`
  before it skips the entry) and `PointersIntoSet` by an entry continued on both sides in a part of two
  folders. `FoldersStayInOrder` adds `PartsChained` (a folder's parts follow each other by
  `nextcabinet`, and its block count is the sum of theirs less one per joint) and `SetsBegin` (every
  set has a first cabinet); that the parts are a section of `SetSeq` needs that a walk through a set meets no
  cabinet twice and each once.

  `SetsImplementView` (`Spec => ImplementsView`) is about what a caller meets, in order: `Met` makes a sequence of
  a list, and `Lists(s, h, next, D)` says that `s` is that sequence and the only one (`OneList`), which a joined list
  (`ListsHung`), a tail of a list (`ListsRest`) and a list just read (`ReadSequence`) are shown to be. To `Ordered` and
  `MergePointersValid` the invariant `Seen` adds what the lists say of the images (`Said`): a file has
  the key and the folder of the entry it was read from (`FilesOwned`), the list of a set begins with the files of
  its first part in their order (`OwnFirst`), and at the open ends of a set the merge pointers are there exactly if
  the header of that part says that files go on (`JointsSaid`), however many joins made the set. Then each
  action is an `Add`, a `Join`, a `Drop` or a stutter of `CabSetView`: the files `cabd_merge` frees as
  duplicates are the first ones of the right list, as many as its part says are continued (`DuplicatesFirst`),
  what it relinks is the left list and the rest of the right one (`JointList`), and it merges folders
  only if both sides say so and have a file in common (`JointSays`, `CommonKey`). This needs the third
  hypothesis, `ContinuedFirst`: a part lists what is continued before the rest, and nothing else is in
  its first folder then. Without it TLC finds `ImplementsView` broken: for a part that lists a file of its own
  first, the place of the continued one in the joined list is another.
- **CabExtractProofs.** The first invariant is `Inv`: `Shape /\ Typed /\ InFolder
  /\ ErrorsKept /\ InputFits`, where `ErrorsKept` says at which places of the code
  the codec has no error yet and a short read has set `read_error`. From it:
  `ReadErrorStays` (a decoder whose sticky error is MSPACK_ERR_READ always finds a
  `read_error` to report, so that it never returns MSPACK_ERR_OK for a failure; outside salvage
  mode), `HandleStaysInSegment` (the handle is that of the
  current segment's cabinet) and `InputAlwaysFits` (the assembled
  block fits in `self->d->input`), for any folders, files, sets, buffers and
  any number of failures.

  `OutputStaysRight` (`[]OutputRight`: types, `OutputInPlace`, `ExactOrError`) needs the second, `Full`, which follows the
  units of a folder's stream from the cabinets to the output file. For a decoder in which nothing has failed
  since it was set up (`Good`; of the others nothing is claimed but that they return errors): the handle stands at
  a record of its part (`Place`), what was read up to there (`Here`) is what the decoder was given, what is on its way to it and
  what is left in `self->d->input`, and `block` and `outlen` are those of the blocks that end there (`InStream`); a unit that is
  not damaged is in its place (`UnitsRight`); a codec makes no more than the frames that it has the input of
  yield, in order, unless MSZIP was given damaged data (`Damaged`), and LZX knows its length once the last block was read (`InStep`); and offset, what
  is wanted and what was written add up to the file's (`Progress`). `FrameNeed` lets a frame that is longer than the
  stream has left ask for more than there is, which is why `InStep` bounds a frame only if its input can come.
  Sums and counts over records are recursive functions: `SumTo`, `FlatTo` and the number of ends
  are proved to obey their equations by least counterexample (`LeastNumber`), and from these that block `n` ends at a record, that
  input and output climb, and how a part's records lie in the whole.
  `IntactFilesExtract` (`IntactExtracts`) needs the other side: what there is, is enough. `Full` bounds what
  a decoder has received and made from above; `Supplied` adds the bounds from below: in a folder whose blocks are within
  their limits (`Sound`: what `Intact` asks of a folder but that its cabinets have been joined) every frame decoded yielded its
  block, the one begun is as long as its block and asks for that block's input at least, and input comes in whole
  buffers until the stream ends. From it follows `SizeKnown`: when LZX begins its last frame its length has
  been told to it, unless a buffer ends just where the last block begins (`SizeInTime`, the exception of run
  *buffer*). `Undisturbed` says of a call that no failure has touched (`Running`) that its decoder has no
  error and that the frame under way wants no more than the stream has and the bit buffer's look behind it.
  Of each step of such a call a lemma shows `Calm`: it leaves decoder and read error as they should be, and if it
  returns, it returns MSPACK_ERR_OK. Among the reasons: a record is within `CAB_INPUTMAX` and a
  fragment has a part to go on in (`NextFits`), a stored run is filled whole (`NonedCalm`), the frames end with
  everything written (`DoneCalm`), the end of the stream is met at most once (`ReceiveCalm`), and
  `cabd_extract` does not refuse such a file (`IntactWelcome`).
- **CabSearchProofs.** `ChainIsApart` and `HandleStaysInPlace`. The search goes
  back after a false header and trusts a length that it reads from the file, so
  the invariant must say that the start of the signature it is in the middle of
  (`offset + i - state`) never lies before the end of the last linked cabinet
  (`Ahead`), and that the bytes from there on are those of the signature
  (`Matched`, which is also what makes `SignedAt` true of linked cabinets);
  `InFile` keeps both inside the file. `FindsEveryCabinet` adds `FieldsRead` (what
  the states of `cabd_find` have collected of the two length fields is what the file says there) and
  `OnCourse`: the cabinets linked so far, followed by those the reference `Cabinets` finds from where the
  search stands, are those it finds from the beginning. `Cabinets` is a recursive
  function from the file's end backwards; that a function with its equations exists, so that they may be
  used, is proved by least counterexample.
- **ManagedCabsProofs.** `FilenameStaysPinned`, `UnjoinedAreSafe` and `HeadsStayCurrent`, for any number
  of objects, files and joins and any timing of the finalizer thread. Whether a pointer dangles depends
  on who may close what: an object that was never joined is alone in its set, so that only its own
  `Close()` frees what it has (`SetsKept`, `ListsKept`, `LifeKept`), and each place that holds a reference to a native
  structure (`HeadsKept`, `FolderKept`, `FileKept`) refers to the object's own or to one reached
  through joins (`Near`). `ClosingKept` follows an object whose `Close()` is under way on a thread.
- **ChmFindProofs.** `FindsTheName` and `FailuresAreReported`, for any
  directory, whole or damaged, with quickrefs that point anywhere, any order on the names and any number of failures. The
  invariant joins `Typed` (the chunk in hand is the one its number names, and
  is one that was read), `Narrowed` (left and right of the binary search stay inside the
  quickrefs), `NoneYet` (nothing has failed while the call goes on), and the
  two properties. `FindsWhatIsListed`: in a well-formed directory it finds every name that is entered, with
  an index of any number of levels or none. The invariant adds `OnCourse`: `Heading` (a
  entered name that is looked for is entered below the chunk the walk has come to) and `Place` (left, right and
  the scan enclose the entry that leads to it). `Below` recurses along index links by height; its existence
  is proved as that of `Cabinets` is, and the step from quickrefs to
  entries is arithmetic with the density.
- **ChmProofs.** `DecoderStaysInStep`: the decoder belongs to an open help file
  and has its handle, `d->offset` is `entry * FRAME + sent`, and `d->inoffset` is the end of
  what the decoder has read. During a call the handle's place takes the part of
  `d->inoffset` (`At`); `InCall` says that the help file of the call is open and
  the handle is its; `DecoderUp` that `chmd_init_decomp` runs without a decoder and
  the rest of `chmd_extract` with one. Input that was not read in order, and output of
  damaged data, are `junk`, about which nothing is claimed. `ExtractsInPlace` claims something of
  undamaged files: what the decoder has made is a whole number of frames counted from its entry and what is
  left over is at hand (`Counted`), a decoder of an undamaged stream is not `junk` (`Undamaged`), what is still
  asked for lies inside the stream (`Asked`), and what was written is a beginning of
  the file (`OutKept`).
  `IntactFilesExtract` adds what the calls before leave behind (`Works`, which TLC has checked on the
  *help* instances): a decoder of a help file
  that is `Fit` was entered within the stream and goes to its end, whether the reset table or SpanInfo
  told its length and even if that call failed (`LengthTrue`, `PaddedIsEnd`); each frame that is begun is a
  whole one, or the empty one behind the end, and needs no input that is not there
  (`Supplied`, with the Intel header of the interval behind the end and the one byte that `read_input` makes up);
  when all frames wanted are decoded, so is all that is wanted (`FramesDoneWorks`);
  and in a call that nothing disturbs SpanInfo is not looked for unless there is no reset table (`Unfailing`).

- **SingleFileProofs.** `LeavesNothing`, `FailuresReported` and `OkIsWhole`, for any files
  (of OAB only that block lengths are natural numbers is assumed), any order of calls, any number
  of headers and any number of failures. The invariant has one part per account: `Control` says where a call
  may be and whether its header is the caller's already; `HandlesKept` and `HeapKept` what may be open and
  allocated at each place beyond what headers own, which at "idle" is nothing; `TextsKept` that a header
  has its texts; `FailureKept` that after a failure a call is at one of five places, each with an error;
  `TargetKept` that the decoded and the missing part of an OAB target are all of it (while a block is
  between its LZX stream and its CRC they are too much by that block), and that every
  block left behind was checked. `CleanExit` is not inductive without the places in
  between, and `OkMeansWhole` needs the count that `BlockRejected` keeps from going below zero.

  `ReadsInStep` and `IntactFilesWork` add (in `Reading`) where each handle is. Where a header or block
  begins is a sum over those before it, the recursive function `Offsets`; that it has the values the
  recursion says is proved by least counterexample (`LeastNumber`, `UpTo`, `OffsetsSolvable`), and so is that a
  sum of sizes ascends. `InputsKept` says of which file each handle is, `HeadersKept` that while KWAJ's headers are
  read the place is `KwajStart` and the name and extra text are as far as they come by then (`NameUpTo`,
  `ExtraUpTo`), `DataKept` that what came out of SZDD and KWAJ data, with what is in the buffer, is what was read behind
  `DataOffset`, and `BlocksKept` that within an LZX block the place is that of the next block less what
  is still `available`, whatever the stream read ahead, that the base is behind the part the block refers to, and
  that the missing part of the target is what the blocks to come make. With these no read of an
  intact file is short and no check rejects it: the file has room for all blocks (`SoundBlock`), a block
  decodes to no more than is missing, and a stream that needs more has something to read (`IntactReads`).
- **DecodersProofs.** `PlacesInWindow`: `[]TypeOK`, for windows and frames of any
  size, matches of any length, calls for any number of units, and streams of any tokens, legal or not.
  `LzWindowAssumption` asks only for what the constructors and callers see to: sizes that fit
  together (an LZX window is a multiple of the frame, no Quantum match is longer than its window) and
  the marks that are used as such. The decoders share no state, so the invariant
  `Inv` has one part for each. `RingKept` is short. `QtmKept` follows a match over the window's end
  through its two parts, with what is stored up written in between. `ZipKept` has
  that a frame is counted when it is full, so that the place goes back to 0, or ends
  the call. `LzxKept` is the long one, because `lzxd_decompress` does not test the place against
  the window within a frame: frames begin at multiples of the frame size
  (`WholeFrames`), only the stream's last one is short, and it is the last one a call
  decodes (`LastFrame`, the code's `end_frame`); after it nothing is decoded any
  more (`AllThere`).
  `DecodersImplementStream`: `Spec => ImplementsStream`. To that
  invariant it adds `OutKept`, by which `due`, `want` (`out_bytes`) and what
  was written add up at every step; each step of a decoder is then an `Ask` of
  `LzStream`, a `Send`, or not seen at all.
  `StreamInOrder` adds what is in the window (`OrderInv`): each decoder has the
  last window's worth of units behind the place it writes to, what waits to be
  written is the units that follow those written, and a copy within these bounds
  lays the unit that comes next. In repair mode a unit may be `JUNK` instead, once `hurt` is set. For LZX the
  claim ends with a `stray` offset (`LzxSound`), which makes a stream not intact (`LzxClean`).
  `IntactStreamDecodes` adds that nothing makes a decoder give up (`IntactInv`), as long as every token was
  legal and every read and write succeeded (`Fine`, which is not regained: `FaultsRemembered`). LZX
  lets a legal match in because in the first lap the place is the number of units decoded
  (`LzxLetsIn`), it finds something to read because no frame is longer than what the stream has left
  (`LzxReads`), and when its frames are done it has written what was asked for (`LzxHasWritten`).
  A Quantum frame ends with its last match, which ends no later than the stream;
  at `QtmBailed` nothing is claimed. MSZIP's frames have put out at least what its tokens stood for
  (a repaired frame may be longer), and in KWAJ exactly that when its input ends.

Only model-checked: liveness (`ExtractReturns`, `SearchEnds`, `FindEnds`, `Reclaimed`, `DecodeReturns`, `CallsEnd`),
which this prover has no rules for. Every other property of a passing run is proved.

## 5. What is not modelled, and why

- Bits. `Decoders` begins behind the Huffman tables and the arithmetic coder: tokens are what
  they decode to. LZX's repeated offsets (R0 to R2) are offsets: after a stored block, whose header sets them to
  anything, any number from 0 to two windows (larger ones are rejected alike, in streams shorter than 2^31 bytes),
  and otherwise within the window, as what a match codes is; the E8 translation is a copy that leaves its frame to be written from
  another place; empty MSZIP blocks and frames are left out, as is the search for "CK". In
  `CabExtract`, `Chm` and `SingleFile` decoding is the inverse of encoding, with damage
  visible to the codec; checksums agree or they do not.
  A damaged MSZIP block in salvage mode makes any number of bytes up to a block, and what is behind it moves by as much.
- In `CabExtract`: Quantum (its trailer byte per block), FIXMSZIP, and `set_param()` while a
  decoder is alive: the parameters are fixed when the decompressor is created.
- `off_t` of 32 bits and the large-file fallbacks; the warnings that are only
  messages.
- Two .NET threads of the program using one object at once: nothing in the
  classes claims to support it.
- Marshalling of names, times and attributes; `MSCabDecompressor.Default`,
  which nothing uses.
- Parts of a set that do not list the same files at the joint: `cabd_merge`
  accepts some of these with a warning.
- CHM: what `chmd_read_headers` validates and warns of, names and their
  comparison (`compare()` is taken as an order), reset intervals that are not
  powers of two, files of section 0 that the help file is too short for.
- The compressors, HLP and LIT: they are stubs. Tests and tools: callers.

## 6. Plan

In order of importance:

1. `CabExtract`: Quantum's trailer byte, FIXMSZIP, `set_param()` between calls.
2. `CabSearch`: the error that is returned together with a list; the cabinet
   behind a stray `M`. `Chm`: a run for the fallback of `chmd.c:1145`.
3. Runs of their own for two disagreements that are stated above as exceptions: `QtmBailed` and `JoinChains`.
