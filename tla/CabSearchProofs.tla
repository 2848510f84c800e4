--------------------------- MODULE CabSearchProofs ---------------------------
(***************************************************************************)
(* What CabSearch keeps to for every file, buffer size and number of I/O   *)
(* failures: the list search() returns holds signed headers that were      *)
(* accepted, none inside the data of another (ChainIsApart), what the      *)
(* automaton sees is what stands at `offset' (HandleStaysInPlace), and     *)
(* the list is complete if nothing fails (FindsEveryCabinet).              *)
(*                                                                         *)
(* None is inductive.  A header may span any number of buffers, so that    *)
(* the bytes matched so far have to be carried along (Matched), and the    *)
(* search goes back in the file after a false header, so that it has to be *)
(* known that it never goes back behind the last cabinet (Ahead).  For the *)
(* third, what the two length fields hold so far is needed (FieldsRead),   *)
(* and that the list and what the reference finds from the automaton's     *)
(* header on are together all there is (OnCourse).                         *)
(***************************************************************************)
EXTENDS CabSearch, WellFoundedInduction, SequenceTheorems, TLAPS

\* where the next byte that the automaton sees stands in the file
Here == IF pc = "scan" THEN offset + i ELSE offset

ChainEnd == IF chain = <<>> THEN 0 ELSE chain[Len(chain)].at + chain[Len(chain)].len

Searching == pc \in {"fill", "scan", "restart"}

\* the part of the file in the buffer
InFile ==
  /\ pc = "fill" => offset < flen
  /\ pc = "restart" => offset < flen /\ state = 0
  /\ pc = "scan" => i <= length /\ offset + length <= flen
  /\ pc = "open" => state = 0 /\ chain = <<>> /\ offset = 0 /\ pos = 0

\* The bytes seen since the search last started or restarted, `state' of them,
\* are all behind the last cabinet, and those of the signature match.
Ahead == Searching => Here - state >= ChainEnd

Matched ==
  Searching => \A k \in 1..4 : k <= state => ByteAt(Here - state + k - 1) = Signature[k]

Inv == TypeOK /\ InFile /\ Ahead /\ Matched /\ ChainApart /\ HandleInPlace

-----------------------------------------------------------------------------
(* The operators of the scan.                                               *)

\* A file is a sequence of bytes: its length is a number, its bytes are bytes.
LEMMA FileTyped ==
  ASSUME TypeOK
  PROVE  /\ flen \in Nat
         /\ \A o \in 0..flen - 1 : ByteAt(o) \in 0..255
PROOF
<1>1. image.bytes \in Seq(Byte)
  BY SearchAssumption DEF TypeOK
<1>2. Len(image.bytes) \in Nat /\ \A k \in 1..Len(image.bytes) : image.bytes[k] \in Byte
  BY <1>1
<1>3. \A o \in 0..Len(image.bytes) - 1 : o + 1 \in 1..Len(image.bytes)
  BY <1>2
<1>4. QED
  BY <1>2, <1>3 DEF flen, ByteAt, Byte

\* A field that is being put together stays a natural number.
LEMMA FieldTyped ==
  ASSUME state \in Nat, byte \in 0..255, NEW old \in Nat, NEW first \in Nat
  PROVE  Field(old, first) \in Nat
PROOF
  BY DEF Field

\* The automaton stays within its header, counts on only over a byte that fits,
\* and otherwise starts again.
LEMMA StateAfterFits ==
  ASSUME NEW s \in 0..HEADER - 2
  PROVE  /\ StateAfter(s) \in {0, s + 1}
         /\ StateAfter(s) # 0 /\ s < 4 => byte = Signature[s + 1]
PROOF
  BY DEF StateAfter, HEADER

\* A cabinet added to the list keeps the list apart if it begins behind the
\* last one.
LEMMA AppendApart ==
  ASSUME TypeOK, ChainApart,
         NEW c \in Cabinet, SignedAt(c.at), c.at \in image.good[salvage],
         c.at >= ChainEnd,
         NEW new, new = Append(chain, c)
  PROVE  /\ new \in Seq(Cabinet) /\ new # <<>>
         /\ new[Len(new)] = c
         /\ \A k \in DOMAIN new :
              /\ SignedAt(new[k].at)
              /\ new[k].at \in image.good[salvage]
              /\ k > 1 => new[k].at >= new[k - 1].at + new[k - 1].len
PROOF
<1>1. chain \in Seq(Cabinet)
  BY DEF TypeOK
<1>2. /\ new \in Seq(Cabinet) /\ Len(new) = Len(chain) + 1
      /\ \A k \in 1..Len(chain) : new[k] = chain[k]
      /\ new[Len(chain) + 1] = c
  BY <1>1
<1>3. Len(chain) \in Nat /\ DOMAIN chain = 1..Len(chain) /\ DOMAIN new = 1..Len(chain) + 1
  BY <1>1, <1>2
<1>4. SUFFICES ASSUME NEW k \in 1..Len(chain) + 1
               PROVE  /\ SignedAt(new[k].at)
                      /\ new[k].at \in image.good[salvage]
                      /\ k > 1 => new[k].at >= new[k - 1].at + new[k - 1].len
  BY <1>2, <1>3
<1>5. CASE k <= Len(chain)
  <2>1. k \in DOMAIN chain /\ new[k] = chain[k]
    BY <1>2, <1>3, <1>5
  <2>2. k > 1 => new[k - 1] = chain[k - 1]
    BY <1>2, <1>3, <1>5
  <2>3. QED
    BY <2>1, <2>2 DEF ChainApart
<1>6. CASE k = Len(chain) + 1
  <2>1. new[k] = c
    BY <1>2, <1>6
  <2>2. k > 1 => chain # <<>> /\ new[k - 1] = chain[Len(chain)]
    <3>1. SUFFICES ASSUME k > 1 PROVE chain # <<>> /\ new[k - 1] = chain[Len(chain)]
      OBVIOUS
    <3>2. Len(chain) \in 1..Len(chain) /\ k - 1 = Len(chain)
      BY <1>3, <1>6, <3>1
    <3>3. QED
      BY <1>1, <1>2, <3>2
  <2>3. k > 1 => c.at >= new[k - 1].at + new[k - 1].len
    BY <2>2 DEF ChainEnd
  <2>4. QED
    BY <2>1, <2>3
<1>7. QED
  BY <1>3, <1>5, <1>6

\* A call that fails is counted.
LEMMA FailTyped ==
  ASSUME TypeOK, NEW err, Fail(err)
  PROVE  pc' = "done" /\ error' = err /\ faults' \in 0..MaxFaults
PROOF
  BY SearchAssumption DEF TypeOK, Fail, Return

-----------------------------------------------------------------------------
(* The inductive invariant.                                                 *)

LEMMA InvInit == Init => Inv
PROOF
<1>1. SUFFICES ASSUME Init PROVE Inv
  OBVIOUS
<1>2. chain = <<>> /\ chain \in Seq(Cabinet) /\ DOMAIN chain = {}
  BY <1>1 DEF Init
<1>3. TypeOK
  BY <1>1, <1>2, SearchAssumption DEF Init, TypeOK, HEADER
<1>4. ChainApart
  BY <1>2 DEF ChainApart
<1>5. InFile /\ Ahead /\ Matched /\ HandleInPlace
  BY <1>1 DEF Init, InFile, Ahead, Matched, Searching, HandleInPlace
<1>6. QED
  BY <1>3, <1>4, <1>5 DEF Inv

LEMMA OpenKeeps == Inv /\ Open => Inv'
PROOF
<1>1. SUFFICES ASSUME Inv, Open PROVE Inv'
  OBVIOUS
<1>2. TypeOK /\ flen \in Nat /\ flen' = flen /\ chain' = chain /\ image' = image /\ salvage' = salvage
  BY <1>1, FileTyped DEF Inv, Open, call, flen
<1>3. TypeOK'
  <2>1. UNCHANGED <<call, pos, offset, length, at, i, state, cablen_u32, foffset_u32, chain>>
    BY <1>1 DEF Open
  <2>2. CASE \E err \in {"nomemory", "open", "seek"} : Fail(err)
    BY <1>2, <2>1, <2>2, FailTyped DEF TypeOK, call
  <2>3. CASE /\ IF flen = 0 THEN Return("ok") ELSE pc' = "fill" /\ UNCHANGED error
             /\ UNCHANGED faults
    BY <1>2, <2>1, <2>3 DEF TypeOK, call, Return
  <2>4. QED
    BY <1>1, <2>2, <2>3 DEF Open
<1>4. ChainApart'
  BY <1>1, <1>2 DEF Inv, ChainApart, SignedAt, ByteAt
<1>5. pc' \in {"fill", "done"} /\ (pc' = "fill" => flen # 0) /\ state = 0 /\ offset = 0 /\ pos = 0 /\ chain = <<>>
  BY <1>1 DEF Inv, InFile, Open, Fail, Return
<1>6. state' = 0 /\ offset' = 0 /\ pos' = 0 /\ chain' = <<>>
  BY <1>1, <1>5 DEF Open
<1>7. InFile' /\ HandleInPlace'
  BY <1>2, <1>5, <1>6 DEF InFile, HandleInPlace
<1>8. Ahead' /\ Matched'
  BY <1>5, <1>6 DEF Ahead, Matched, Searching, Here, ChainEnd
<1>9. QED
  BY <1>3, <1>4, <1>7, <1>8 DEF Inv

LEMMA FillKeeps == Inv /\ Fill => Inv'
PROOF
<1>1. SUFFICES ASSUME Inv, Fill PROVE Inv'
  OBVIOUS
<1>2. /\ TypeOK /\ flen \in Nat /\ flen' = flen /\ chain' = chain /\ image' = image
      /\ salvage' = salvage /\ offset' = offset /\ state' = state
  BY <1>1, FileTyped DEF Inv, Fill, call, flen
<1>3. ChainApart'
  BY <1>1, <1>2 DEF Inv, ChainApart, SignedAt, ByteAt
<1>4. searchbuf \in Nat \ {0} /\ offset \in Nat /\ offset < flen /\ pos = offset /\ pc = "fill"
  BY <1>1, SearchAssumption DEF MINBUF, Inv, TypeOK, InFile, HandleInPlace, Fill
<1>5. CASE Fail("read") /\ UNCHANGED <<pos, length, at, i>>
  <2>1. TypeOK'
    BY <1>1, <1>2, <1>5, FailTyped DEF TypeOK, Fill, call
  <2>2. pc' = "done"
    BY <1>5 DEF Fail, Return
  <2>3. QED
    BY <1>3, <2>1, <2>2 DEF Inv, InFile, Ahead, Matched, Searching, HandleInPlace
<1>6. CASE /\ length' = IF flen - offset > searchbuf THEN searchbuf ELSE flen - offset
           /\ pos' = pos + length' /\ at' = pos /\ i' = 0
           /\ pc' = "scan" /\ UNCHANGED <<error, faults>>
  <2>1. length' \in Nat /\ offset + length' <= flen
    BY <1>2, <1>4, <1>6
  <2>2. TypeOK'
    BY <1>1, <1>2, <1>4, <1>6, <2>1 DEF TypeOK, Fill, call
  <2>3. InFile' /\ HandleInPlace'
    BY <1>2, <1>4, <1>6, <2>1 DEF InFile, HandleInPlace
  <2>4. Here' = Here /\ Searching /\ ChainEnd' = ChainEnd
    BY <1>2, <1>4, <1>6 DEF Here, Searching, ChainEnd
  <2>5. Ahead' /\ Matched'
    BY <1>1, <1>2, <2>4 DEF Inv, Ahead, Matched, ByteAt
  <2>6. QED
    BY <1>3, <2>2, <2>3, <2>5 DEF Inv
<1>7. QED
  BY <1>1, <1>5, <1>6 DEF Fill

LEMMA AdvanceKeeps == Inv /\ Advance => Inv'
PROOF
<1>1. SUFFICES ASSUME Inv, Advance PROVE Inv'
  OBVIOUS
<1>2. /\ TypeOK /\ flen \in Nat /\ flen' = flen /\ chain' = chain /\ image' = image
      /\ salvage' = salvage /\ state' = state /\ offset' = offset + length
  BY <1>1, FileTyped DEF Inv, Advance, call, flen, StateAcross
<1>3. ChainApart'
  BY <1>1, <1>2 DEF Inv, ChainApart, SignedAt, ByteAt
<1>4. pc = "scan" /\ i = length /\ pos = offset + length /\ offset \in Nat /\ length \in Nat
  BY <1>1 DEF Inv, TypeOK, HandleInPlace, Advance
<1>5. pc' \in {"fill", "done"} /\ (pc' = "fill" => offset' < flen) /\ error' \in {error, "ok"}
  BY <1>1, <1>2 DEF Advance, Return
<1>6. TypeOK'
  BY <1>1, <1>2, <1>4, <1>5 DEF TypeOK, Advance, call
<1>7. InFile' /\ HandleInPlace'
  BY <1>1, <1>2, <1>4, <1>5 DEF InFile, HandleInPlace, Advance
<1>8. pc' = "fill" => Here' = Here /\ Searching /\ ChainEnd' = ChainEnd
  BY <1>2, <1>4, <1>5 DEF Here, Searching, ChainEnd
<1>9. Ahead' /\ Matched'
  BY <1>1, <1>2, <1>5, <1>8 DEF Inv, Ahead, Matched, ByteAt, Searching
<1>10. QED
  BY <1>3, <1>6, <1>7, <1>9 DEF Inv

LEMMA ScanKeeps == Inv /\ Scan => Inv'
PROOF
<1>1. SUFFICES ASSUME Inv, Scan PROVE Inv'
  OBVIOUS
<1>2. /\ TypeOK /\ flen \in Nat /\ flen' = flen /\ chain' = chain /\ image' = image
      /\ salvage' = salvage /\ pc = "scan" /\ pc' = "scan" /\ i' = i + 1 /\ i < length
      /\ UNCHANGED <<call, pos, offset, length, at, error, faults>>
  BY <1>1, FileTyped DEF Inv, Scan, call, flen
<1>3. ChainApart'
  BY <1>1, <1>2 DEF Inv, ChainApart, SignedAt, ByteAt
<1>4. offset \in Nat /\ length \in Nat /\ i \in Nat /\ at = offset /\ offset + length <= flen
  BY <1>1, <1>2 DEF Inv, TypeOK, InFile, HandleInPlace
<1>5. byte = ByteAt(Here) /\ byte \in 0..255 /\ Here \in Nat
  <2>1. at + i \in 0..flen - 1 /\ Here = at + i
    BY <1>2, <1>4 DEF Here
  <2>2. QED
    BY <1>2, <2>1, FileTyped DEF byte
<1>6. state \in 0..HEADER - 2 /\ state' = StateAfter(state)
  BY <1>1, <1>2 DEF TypeOK, Scan, HEADER
<1>7. /\ state' \in {0, state + 1}
      /\ state' # 0 /\ state < 4 => byte = Signature[state + 1]
  BY <1>6, StateAfterFits
<1>8. TypeOK'
  <2>1. cablen_u32' \in Nat /\ foffset_u32' \in Nat
    <3>1. state \in Nat /\ cablen_u32 \in Nat /\ foffset_u32 \in Nat
      BY <1>2, <1>6 DEF TypeOK, HEADER
    <3>2. Field(cablen_u32, 8) \in Nat /\ Field(foffset_u32, 16) \in Nat
      BY <1>5, <3>1, FieldTyped
    <3>3. QED
      BY <1>1, <3>2 DEF Scan
  <2>2. state' \in 0..HEADER - 1
    BY <1>6, <1>7 DEF HEADER
  <2>3. QED
    BY <1>2, <2>1, <2>2 DEF TypeOK, call
<1>9. InFile' /\ HandleInPlace'
  BY <1>1, <1>2, <1>4 DEF Inv, InFile, HandleInPlace
<1>10. Here' = Here + 1 /\ ChainEnd' = ChainEnd /\ Searching /\ state \in Nat
  BY <1>2, <1>4, <1>6 DEF Here, ChainEnd, Searching, HEADER
<1>11. Here - state >= ChainEnd /\ ChainEnd \in Int
  <2>1. chain \in Seq(Cabinet)
    BY <1>2 DEF TypeOK
  <2>2. ChainEnd \in Nat
    <3>1. chain # <<>> => chain[Len(chain)] \in Cabinet
      BY <2>1
    <3>2. QED
      BY <3>1 DEF ChainEnd, Cabinet
  <2>3. QED
    BY <1>1, <1>10, <2>2 DEF Inv, Ahead
<1>12. Ahead'
  <2>1. Here - state >= ChainEnd
    BY <1>11
  <2>2. Here' = Here + 1
    BY <1>10
  <2>3. ChainEnd' = ChainEnd
    BY <1>10
  <2>4. state \in Nat /\ Here \in Nat /\ ChainEnd \in Int
    BY <1>5, <1>10, <1>11
  <2>5. state' = 0 \/ state' = state + 1
    BY <1>7
  <2>6. Here' - state' >= ChainEnd'
    BY <2>1, <2>2, <2>3, <2>4, <2>5
  <2>7. QED
    BY <2>6 DEF Ahead
<1>13. Matched'
  <2>1. SUFFICES ASSUME NEW k \in 1..4, k <= state'
                 PROVE  ByteAt(Here' - state' + k - 1) = Signature[k]
    BY <1>2 DEF Matched, ByteAt
  <2>2. state' = state + 1
    BY <1>7, <2>1
  <2>3. Here' - state' = Here - state
    BY <1>5, <1>10, <2>2
  <2>4. CASE k <= state
    BY <1>1, <1>10, <2>3, <2>4 DEF Inv, Matched
  <2>5. CASE k = state + 1
    <3>1. byte = Signature[k]
      BY <1>7, <1>10, <2>2, <2>5
    <3>2. Here - state + k - 1 = Here
      BY <1>5, <1>10, <2>5
    <3>3. QED
      BY <1>5, <2>3, <3>1, <3>2
  <2>6. QED
    BY <1>10, <2>1, <2>2, <2>4, <2>5
<1>14. QED
  BY <1>3, <1>8, <1>9, <1>12, <1>13 DEF Inv

\* Wherever the search goes on from, behind the list, nothing is matched yet.
LEMMA RestartsClean ==
  ASSUME TypeOK', ChainApart', state' = 0, flen' \in Nat, offset' \in Nat,
         pc' \in {"restart", "done"}, pc' = "restart" => offset' < flen',
         offset' >= ChainEnd'
  PROVE  Inv'
PROOF
<1>1. InFile' /\ HandleInPlace'
  BY DEF InFile, HandleInPlace
<1>2. Ahead' /\ Matched'
  <2>1. Here' = offset'
    BY DEF Here
  <2>2. Ahead'
    BY <2>1 DEF Ahead
  <2>3. Matched'
    BY DEF Matched
  <2>4. QED
    BY <2>2, <2>3
<1>3. QED
  BY <1>1, <1>2 DEF Inv

LEMMA RestartKeeps == Inv /\ Restart => Inv'
PROOF
<1>1. SUFFICES ASSUME Inv, Restart PROVE Inv'
  OBVIOUS
<1>2. /\ TypeOK /\ flen \in Nat /\ flen' = flen /\ chain' = chain /\ image' = image
      /\ salvage' = salvage /\ offset' = offset /\ state' = state /\ pc = "restart"
      /\ UNCHANGED <<call, length, at, i, cablen_u32, foffset_u32>>
  BY <1>1, FileTyped DEF Inv, Restart, call, flen
<1>3. ChainApart'
  BY <1>1, <1>2 DEF Inv, ChainApart, SignedAt, ByteAt
<1>4. CASE Fail("seek") /\ UNCHANGED pos
  <2>1. TypeOK' /\ pc' = "done"
    BY <1>2, <1>4, FailTyped DEF TypeOK, call
  <2>2. QED
    BY <1>3, <2>1 DEF Inv, InFile, Ahead, Matched, Searching, HandleInPlace
<1>5. CASE pos' = Sought /\ pc' = "fill" /\ UNCHANGED <<error, faults>>
  <2>1. TypeOK' /\ InFile' /\ HandleInPlace'
    BY <1>1, <1>2, <1>5 DEF Inv, TypeOK, InFile, HandleInPlace, Sought, call
  <2>2. Here' = Here /\ Searching /\ ChainEnd' = ChainEnd
    BY <1>2, <1>5 DEF Here, Searching, ChainEnd
  <2>3. Ahead' /\ Matched'
    BY <1>1, <1>2, <2>2 DEF Inv, Ahead, Matched, ByteAt
  <2>4. QED
    BY <1>3, <2>1, <2>3 DEF Inv
<1>6. QED
  BY <1>1, <1>4, <1>5 DEF Restart

LEMMA HeaderKeeps == Inv /\ Header => Inv'
PROOF
<1> DEFINE caboff == offset + (i + 1) - HEADER
           foffset == Field(foffset_u32, 16)
           Go(o) == /\ offset' = o /\ length' = 0
                    /\ IF o >= flen THEN Return("ok") ELSE pc' = "restart" /\ UNCHANGED error
<1>1. SUFFICES ASSUME Inv, Header PROVE Inv'
  OBVIOUS
<1>2. /\ TypeOK /\ flen \in Nat /\ flen' = flen /\ image' = image /\ salvage' = salvage
      /\ pc = "scan" /\ i < length /\ state = HEADER - 1
      /\ state' = 0 /\ i' = 0 /\ foffset_u32' = foffset
      /\ UNCHANGED <<call, at, cablen_u32>>
  BY <1>1, FileTyped DEF Inv, Header, call, flen, StateRestarted
<1>3. offset \in Nat /\ length \in Nat /\ i \in Nat /\ at = offset /\ offset + length <= flen
  BY <1>1, <1>2 DEF Inv, TypeOK, InFile, HandleInPlace
<1>4. foffset \in Nat /\ cablen_u32 \in Nat
  <2>1. at + i \in 0..flen - 1 /\ foffset_u32 \in Nat /\ cablen_u32 \in Nat /\ state \in Nat
    BY <1>2, <1>3 DEF TypeOK, HEADER
  <2>2. byte \in 0..255
    BY <1>2, <2>1, FileTyped DEF byte
  <2>3. QED
    BY <2>1, <2>2, FieldTyped
<1>5. ChainEnd \in Nat
  <2>1. chain # <<>> => chain[Len(chain)] \in Cabinet
    BY <1>2 DEF TypeOK
  <2>2. QED
    BY <2>1 DEF ChainEnd, Cabinet
<1>6. caboff = Here - state /\ caboff \in Nat /\ caboff >= ChainEnd
  <2>1. caboff = Here - state /\ caboff \in Int
    BY <1>2, <1>3 DEF Here, HEADER
  <2>2. caboff >= ChainEnd
    BY <1>1, <1>2, <2>1 DEF Inv, Ahead, Searching
  <2>3. QED
    BY <1>5, <2>1, <2>2
<1>7. SignedAt(caboff)
  <2>1. caboff + HEADER <= flen
    BY <1>2, <1>3 DEF HEADER
  <2>2. ASSUME NEW k \in 1..4 PROVE ByteAt(caboff + k - 1) = Signature[k]
    BY <1>1, <1>2, <1>6 DEF Inv, Matched, Searching, HEADER
  <2>3. QED
    BY <2>1, <2>2 DEF SignedAt
<1> HIDE DEF caboff, foffset
\* The list as it is: wherever behind it the search goes on, Inv holds.
<1>8. ASSUME chain' = chain, offset' = caboff + 4, length' \in Nat, pos' \in Nat,
             pc' \in {"restart", "done"}, pc' = "restart" => offset' < flen,
             error' \in {error, "ok", "nomemory"}, faults' \in 0..MaxFaults
      PROVE  Inv'
  <2>1. offset' \in Nat /\ offset' >= ChainEnd'
    BY <1>5, <1>6, <1>8 DEF ChainEnd
  <2>2. TypeOK'
    BY <1>2, <1>4, <1>8, <2>1 DEF TypeOK, call, HEADER
  <2>3. ChainApart'
    BY <1>1, <1>2, <1>8 DEF Inv, ChainApart, SignedAt, ByteAt
  <2>4. QED
    BY <1>2, <1>8, <2>1, <2>2, <2>3, RestartsClean
<1>9. ASSUME NEW o, Go(o)
      PROVE  /\ offset' = o /\ length' = 0
             /\ pc' \in {"restart", "done"} /\ error' \in {error, "ok"}
             /\ pc' = "restart" => ~(o >= flen)
  BY <1>9 DEF Return
<1>10. faults \in 0..MaxFaults /\ pos \in Nat /\ flen \in Nat /\ MaxFaults \in Nat
       /\ caboff + 4 \in Nat /\ AfterFalse(caboff) = caboff + 4
  BY <1>2, <1>6, SearchAssumption DEF TypeOK, AfterFalse
<1> HIDE DEF Go
<1>11. CASE Go(AfterFalse(caboff)) /\ UNCHANGED <<pos, chain, faults>>
  BY <1>8, <1>9, <1>10, <1>11
<1>12. CASE /\ Fail("nomemory")
            /\ offset' = AfterFalse(caboff) /\ UNCHANGED <<length, pos, chain>>
  <2>1. pc' = "done" /\ error' = "nomemory" /\ faults' \in 0..MaxFaults
    BY <1>2, <1>12, FailTyped
  <2>2. QED
    BY <1>3, <1>8, <1>10, <1>12, <2>1
<1>13. CASE /\ pos' \in {caboff, flen} /\ caboff \in image.good[salvage]
            /\ chain' = Append(chain, [at |-> caboff, len |-> cablen_u32])
            /\ Go(AfterReal(caboff, cablen_u32))
            /\ UNCHANGED faults
  <2> DEFINE c == [at |-> caboff, len |-> cablen_u32]
  <2>1. c \in Cabinet /\ c.at = caboff /\ c.len = cablen_u32
    BY <1>4, <1>6 DEF Cabinet
  <2>2. /\ chain' \in Seq(Cabinet) /\ chain' # <<>> /\ chain'[Len(chain')] = c
        /\ \A k \in DOMAIN chain' :
             /\ SignedAt(chain'[k].at)
             /\ chain'[k].at \in image.good[salvage]
             /\ k > 1 => chain'[k].at >= chain'[k - 1].at + chain'[k - 1].len
    <3> HIDE DEF c
    <3>1. c.at >= ChainEnd /\ SignedAt(c.at) /\ c.at \in image.good[salvage] /\ ChainApart
      BY <1>1, <1>6, <1>7, <1>13, <2>1 DEF Inv
    <3>2. chain' = Append(chain, c)
      BY <1>13 DEF c
    <3>3. QED
      BY <1>2, <2>1, <3>1, <3>2, AppendApart
  <2>3. ChainApart'
    BY <1>2, <2>2 DEF ChainApart, SignedAt, ByteAt
  <2>4. offset' = caboff + cablen_u32 /\ ChainEnd' = caboff + cablen_u32
    BY <1>9, <1>13, <2>1, <2>2 DEF AfterReal, ChainEnd
  <2>5. TypeOK'
    BY <1>2, <1>4, <1>6, <1>9, <1>10, <1>13, <2>2, <2>4 DEF TypeOK, call, HEADER
  <2>6. QED
    BY <1>2, <1>4, <1>6, <1>9, <1>13, <2>3, <2>4, <2>5, RestartsClean
<1>14. CASE /\ pos' \in {caboff, flen}
            /\ Go(AfterFalse(caboff))
            /\ UNCHANGED chain /\ faults' \in {faults, faults + 1} /\ faults' \in 0..MaxFaults
  BY <1>6, <1>8, <1>9, <1>10, <1>14
<1>15. \/ Go(AfterFalse(caboff)) /\ UNCHANGED <<pos, chain, faults>>
       \/ Fail("nomemory") /\ offset' = AfterFalse(caboff) /\ UNCHANGED <<length, pos, chain>>
       \/ /\ pos' \in {caboff, flen}
          /\ \/ /\ caboff \in image.good[salvage]
                /\ chain' = Append(chain, [at |-> caboff, len |-> cablen_u32])
                /\ Go(AfterReal(caboff, cablen_u32)) /\ UNCHANGED faults
             \/ Go(AfterFalse(caboff)) /\ UNCHANGED <<chain, faults>>
             \/ /\ faults < MaxFaults /\ faults' = faults + 1
                /\ Go(AfterFalse(caboff)) /\ UNCHANGED chain
  BY <1>1 DEF Header, Go, caboff, foffset
<1>16. QED
  BY <1>10, <1>11, <1>12, <1>13, <1>14, <1>15

LEMMA StutterKeeps == Inv /\ UNCHANGED vars => Inv'
PROOF
  BY DEF Inv, TypeOK, InFile, Ahead, Matched, ChainApart, HandleInPlace, Searching, Here,
         ChainEnd, SignedAt, ByteAt, flen, vars, call

-----------------------------------------------------------------------------
(* The theorems.                                                            *)

LEMMA InvAlways == Spec => []Inv
PROOF
<1>1. Inv /\ [Next]_vars => Inv'
  BY OpenKeeps, FillKeeps, AdvanceKeeps, ScanKeeps, HeaderKeeps, RestartKeeps, StutterKeeps
     DEF Next
<1>2. QED
  BY <1>1, InvInit, PTL DEF Spec

\* The list that search() builds holds signed headers that cabd_read_headers
\* accepted, in the order of the file, none of them inside the data of another:
\* for every file, also when headers overlap, every buffer size and every
\* pattern of failures.
THEOREM ChainIsApart == Spec => []ChainApart
PROOF
<1>1. Inv => ChainApart
  BY DEF Inv
<1>2. QED
  BY <1>1, InvAlways, PTL

\* The bytes that the automaton of cabd_find sees are those at the offset it
\* computes positions from, however often the search has gone back.
THEOREM HandleStaysInPlace == Spec => []HandleInPlace
PROOF
<1>1. Inv => HandleInPlace
  BY DEF Inv
<1>2. QED
  BY <1>1, InvAlways, PTL

-----------------------------------------------------------------------------
(* The reference.                                                           *)

\* A set of natural numbers that is not empty has a least member.
LEMMA LeastNumber ==
  ASSUME NEW S \in SUBSET Nat, S # {}
  PROVE  \E k \in S : \A j \in S : k <= j
<1> DEFINE R == OpToRel(<, Nat)
<1>1. PICK k \in S : \A j \in S : ~(<<j, k>> \in R)
  BY NatLessThanWellFounded, WFMin
<1>2. R = {p \in Nat \X Nat : p[1] < p[2]}
  BY DEF OpToRel
<1>3. \A j \in S : <<j, k>> \in Nat \X Nat /\ k \in Nat /\ j \in Nat
  OBVIOUS
<1>4. \A j \in S : k <= j
  <2> HIDE DEF R
  <2> TAKE j \in S
  <2>1. ~(j < k)
    BY <1>1, <1>2, <1>3
  <2> QED
    BY <2>1, <1>3
<1> QED
  BY <1>4

\* The signatures from a place on, and what Cabinets makes of them.
SignedFrom(o) == {q \in o..flen : SignedAt(q)}

RestOf(f, o) ==
  LET q == Least(SignedFrom(o))
      end == q + Value(q + 8)
  IN  IF SignedFrom(o) = {} THEN <<>>
      ELSE IF ~IsCabinet(q) THEN f[q + 4]
      ELSE <<[at |-> q, len |-> Value(q + 8)]>> \o (IF end > flen THEN <<>> ELSE f[end])

Scanned(m, f) == f = [o \in m..flen |-> RestOf(f, o)]

LEMMA FirstSigned ==
  ASSUME TypeOK, NEW o \in Nat, SignedFrom(o) # {}
  PROVE  /\ Least(SignedFrom(o)) \in SignedFrom(o)
         /\ \A q \in SignedFrom(o) : Least(SignedFrom(o)) <= q
<1>0. flen \in Nat
  BY FileTyped
<1>1. SignedFrom(o) \in SUBSET Nat
  BY <1>0 DEF SignedFrom
<1>2. PICK k \in SignedFrom(o) : \A j \in SignedFrom(o) : k <= j
  BY <1>1, LeastNumber
<1> QED
  BY <1>2 DEF Least

\* Where a cabinet or a false header ends is in the file or behind it, and
\* behind where it begins.
LEMMA SignedReach ==
  ASSUME TypeOK, NEW q \in Nat, SignedAt(q)
  PROVE  /\ q + 4 \in q + 1..flen
         /\ Value(q + 8) \in Nat /\ Value(q + 16) \in Nat
         /\ IsCabinet(q) => Value(q + 8) > 0
<1>1. flen \in Nat /\ q + 20 <= flen
  BY FileTyped DEF SignedAt, HEADER
<1>2. \A k \in 0..19 : ByteAt(q + k) \in 0..255
  BY <1>1, FileTyped
<1>3. /\ ByteAt(q + 8) \in Nat /\ ByteAt(q + 8 + 1) \in Nat /\ ByteAt(q + 8 + 2) \in Nat
      /\ ByteAt(q + 8 + 3) \in Nat
  <2>1. q + 8 + 1 = q + 9 /\ q + 8 + 2 = q + 10 /\ q + 8 + 3 = q + 11
    OBVIOUS
  <2>2. ByteAt(q + 8) \in Nat /\ ByteAt(q + 9) \in Nat /\ ByteAt(q + 10) \in Nat
        /\ ByteAt(q + 11) \in Nat
    BY <1>2
  <2> QED
    BY <2>1, <2>2
<1>4. /\ ByteAt(q + 16) \in Nat /\ ByteAt(q + 16 + 1) \in Nat /\ ByteAt(q + 16 + 2) \in Nat
      /\ ByteAt(q + 16 + 3) \in Nat
  <2>1. q + 16 + 1 = q + 17 /\ q + 16 + 2 = q + 18 /\ q + 16 + 3 = q + 19
    OBVIOUS
  <2>2. ByteAt(q + 16) \in Nat /\ ByteAt(q + 17) \in Nat /\ ByteAt(q + 18) \in Nat
        /\ ByteAt(q + 19) \in Nat
    BY <1>2
  <2> QED
    BY <2>1, <2>2
<1>5. Value(q + 8) \in Nat /\ Value(q + 16) \in Nat
  BY <1>3, <1>4 DEF Value
<1> QED
  BY <1>1, <1>5 DEF IsCabinet, Plausible

\* What comes behind a place is all that RestOf looks up.
LEMMA RestAgrees ==
  ASSUME TypeOK, NEW o \in 0..flen, NEW f, NEW g, \A p \in o + 1..flen : f[p] = g[p]
  PROVE  RestOf(f, o) = RestOf(g, o)
<1> DEFINE q == Least(SignedFrom(o))
           end == q + Value(q + 8)
<1>0. flen \in Nat
  BY FileTyped
<1>1. CASE SignedFrom(o) = {}
  BY <1>1 DEF RestOf
<1>2. CASE SignedFrom(o) # {}
  <2>1. q \in o..flen /\ SignedAt(q) /\ q \in Nat
    BY <1>0, <1>2, FirstSigned DEF SignedFrom
  <2>2. q + 4 \in q + 1..flen /\ Value(q + 8) \in Nat /\ (IsCabinet(q) => Value(q + 8) > 0)
    BY <2>1, SignedReach
  <2> HIDE DEF q
  <2>3. f[q + 4] = g[q + 4]
    BY <1>0, <2>1, <2>2
  <2>4. IsCabinet(q) /\ ~(end > flen) => f[end] = g[end]
    BY <1>0, <2>1, <2>2
  <2>5. /\ RestOf(f, o) = IF ~IsCabinet(q) THEN f[q + 4]
                          ELSE <<[at |-> q, len |-> Value(q + 8)]>> \o (IF end > flen THEN <<>> ELSE f[end])
        /\ RestOf(g, o) = IF ~IsCabinet(q) THEN g[q + 4]
                          ELSE <<[at |-> q, len |-> Value(q + 8)]>> \o (IF end > flen THEN <<>> ELSE g[end])
    BY <1>2 DEF RestOf, q
  <2> HIDE DEF end
  <2> QED
    BY <2>3, <2>4, <2>5
<1> QED
  BY <1>1, <1>2

LEMMA ScannedExist ==
  ASSUME TypeOK, NEW n \in 0..flen
  PROVE  \E f : Scanned(flen - n, f)
<1> DEFINE S == {x \in Nat : x <= flen /\ ~\E f : Scanned(flen - x, f)}
<1>0. flen \in Nat
  BY FileTyped
<1> SUFFICES ASSUME S # {} PROVE FALSE
  BY <1>0
<1>1. PICK k \in S : \A j \in S : k <= j
  BY LeastNumber
<1>2. k \in Nat /\ k <= flen /\ ~\E f : Scanned(flen - k, f)
  OBVIOUS
<1> DEFINE m == flen - k
<1>3. m \in 0..flen
  BY <1>0, <1>2
<1>4. \E v : k # 0 => Scanned(m + 1, v)
  <2>1. CASE k = 0
    BY <2>1
  <2>2. CASE k # 0
    <3>1. k - 1 \in Nat /\ k - 1 <= flen /\ k - 1 \notin S
      BY <1>0, <1>1, <1>2, <2>2
    <3>2. flen - (k - 1) = m + 1
      BY <1>0, <1>2
    <3> QED
      BY <3>1, <3>2
  <2> QED
    BY <2>1, <2>2
<1>5. PICK v : k # 0 => Scanned(m + 1, v)
  BY <1>4
<1> DEFINE g == [o \in m..flen |-> IF o = m THEN RestOf(v, m) ELSE v[o]]
<1> HIDE DEF S
<1>6. \A p \in m + 1..flen : g[p] = v[p]
  BY <1>0, <1>3
<1>7. ASSUME NEW o \in m..flen PROVE g[o] = RestOf(g, o)
  <2>1. RestOf(g, o) = RestOf(v, o)
    <3>1. \A p \in o + 1..flen : g[p] = v[p]
      BY <1>0, <1>3, <1>6
    <3>2. o \in 0..flen
      BY <1>0, <1>3
    <3> HIDE DEF g
    <3> QED
      BY <3>1, <3>2, RestAgrees
  <2>2. CASE o = m
    BY <2>1, <2>2
  <2>3. CASE o # m
    <3>1. o \in m + 1..flen /\ k # 0
      BY <1>0, <1>2, <1>3, <2>3
    <3>2. v[o] = RestOf(v, o)
      BY <1>5, <3>1 DEF Scanned
    <3>3. g[o] = v[o]
      BY <1>6, <3>1
    <3> QED
      BY <2>1, <3>2, <3>3
  <2> QED
    BY <2>2, <2>3
<1>8. g = [o \in m..flen |-> g[o]]
  OBVIOUS
<1>9. Scanned(m, g)
  <2> HIDE DEF g
  <2>1. [o \in m..flen |-> g[o]] = [o \in m..flen |-> RestOf(g, o)]
    BY <1>7
  <2> QED
    BY <1>8, <2>1 DEF Scanned
<1> QED
  BY <1>2, <1>9

\* The reference, from any place on.
Rest == CHOOSE f : f = [o \in 0..flen |-> RestOf(f, o)]

LEMMA RestEquation ==
  ASSUME TypeOK
  PROVE  /\ \A o \in 0..flen : Rest[o] = RestOf(Rest, o)
         /\ Cabinets = Rest[0]
<1>0. flen \in 0..flen /\ flen - flen = 0 /\ flen \in Nat
  BY FileTyped
<1>1. \E f : Scanned(0, f)
  BY <1>0, ScannedExist
<1>2. Rest = [o \in 0..flen |-> RestOf(Rest, o)]
  BY <1>1 DEF Rest, Scanned
<1>3. Cabinets = Rest[0]
  BY DEF Cabinets, Rest, RestOf, SignedFrom
<1> QED
  BY <1>2, <1>3

LEMMA RestTyped ==
  ASSUME TypeOK, NEW o \in 0..flen
  PROVE  Rest[o] \in Seq(Cabinet)
<1> DEFINE S == {x \in Nat : x <= flen /\ Rest[flen - x] \notin Seq(Cabinet)}
<1>0. flen \in Nat
  BY FileTyped
<1> SUFFICES ASSUME S # {} PROVE FALSE
  <2>1. flen - o \in Nat /\ flen - o <= flen /\ flen - (flen - o) = o
    BY <1>0
  <2> QED
    BY <2>1
<1>1. PICK k \in S : \A j \in S : k <= j
  BY LeastNumber
<1>2. k \in Nat /\ k <= flen /\ Rest[flen - k] \notin Seq(Cabinet)
  OBVIOUS
<1> DEFINE m == flen - k
<1>3. m \in 0..flen
  BY <1>0, <1>2
<1>4. ASSUME NEW p \in m + 1..flen PROVE Rest[p] \in Seq(Cabinet)
  <2>1. flen - p \in Nat /\ flen - p <= flen /\ flen - p < k /\ flen - (flen - p) = p
    BY <1>0, <1>2, <1>3
  <2>2. flen - p \notin S
    BY <1>1, <1>2, <2>1
  <2> QED
    BY <2>1, <2>2
<1> HIDE DEF S
<1> DEFINE q == Least(SignedFrom(m))
           end == q + Value(q + 8)
<1>5. Rest[m] = RestOf(Rest, m)
  BY <1>3, RestEquation
<1>6. CASE SignedFrom(m) = {}
  BY <1>2, <1>5, <1>6 DEF RestOf
<1>7. CASE SignedFrom(m) # {}
  <2>1. q \in m..flen /\ SignedAt(q) /\ q \in Nat
    BY <1>0, <1>3, <1>7, FirstSigned DEF SignedFrom
  <2>2. q + 4 \in q + 1..flen /\ Value(q + 8) \in Nat /\ (IsCabinet(q) => Value(q + 8) > 0)
    BY <2>1, SignedReach
  <2>3. Rest[m] = IF ~IsCabinet(q) THEN Rest[q + 4]
                  ELSE <<[at |-> q, len |-> Value(q + 8)]>> \o (IF end > flen THEN <<>> ELSE Rest[end])
    BY <1>5, <1>7 DEF RestOf
  <2> HIDE DEF q
  <2>4. Rest[q + 4] \in Seq(Cabinet)
    BY <1>0, <1>3, <1>4, <2>1, <2>2
  <2>5. IsCabinet(q) /\ ~(end > flen) => Rest[end] \in Seq(Cabinet)
    BY <1>0, <1>3, <1>4, <2>1, <2>2
  <2>6. <<[at |-> q, len |-> Value(q + 8)]>> \in Seq(Cabinet)
    BY <2>1, <2>2 DEF Cabinet
  <2>7. IsCabinet(q) => (IF end > flen THEN <<>> ELSE Rest[end]) \in Seq(Cabinet)
    BY <2>5
  <2> HIDE DEF end
  <2>8. CASE IsCabinet(q)
    BY <1>2, <2>3, <2>6, <2>7, <2>8
  <2> QED
    BY <1>2, <2>3, <2>4, <2>8
<1> QED
  BY <1>6, <1>7

-----------------------------------------------------------------------------
(* The search against the reference.                                        *)

\* What the bytes from o on, as far as s of them have been seen, say of a field.
FieldSoFar(o, first, s) ==
  (IF s > first THEN ByteAt(o + first) ELSE 0)
    + (IF s > first + 1 THEN ByteAt(o + first + 1) * 256 ELSE 0)
    + (IF s > first + 2 THEN ByteAt(o + first + 2) * 65536 ELSE 0)
    + (IF s > first + 3 THEN ByteAt(o + first + 3) * 16777216 ELSE 0)

FieldsRead ==
  Searching =>
    /\ state > 8 => cablen_u32 = FieldSoFar(Here - state, 8, state)
    /\ state > 16 => foffset_u32 = FieldSoFar(Here - state, 16, state)

\* What is found, and what is still to be found from where the automaton's
\* header would begin, are the cabinets of the file.
OnCourse ==
  faults = 0 /\ Plain =>
    /\ Searching => chain \o Rest[Here - state] = Cabinets
    /\ pc = "done" => chain = Cabinets

SearchInv == Inv /\ FieldsRead /\ OnCourse

LEMMA SameFile ==
  ASSUME UNCHANGED call
  PROVE  /\ Rest' = Rest /\ Cabinets' = Cabinets /\ Plain' = Plain
         /\ flen' = flen
         /\ \A o, first, s : FieldSoFar(o, first, s)' = FieldSoFar(o, first, s)
<1> USE DEF call, flen, ByteAt, SignedAt, Value, IsCabinet, Plausible, SignedFrom
<1>1. Rest' = Rest
  BY DEF Rest, RestOf
<1>2. Cabinets' = Cabinets
  BY DEF Cabinets
<1>3. Plain' = Plain
  BY DEF Plain
<1>4. \A o, first, s : FieldSoFar(o, first, s)' = FieldSoFar(o, first, s)
  BY DEF FieldSoFar
<1> QED
  BY <1>1, <1>2, <1>3, <1>4

\* Where the header that is being matched would begin.
LEMMA HerePlace ==
  ASSUME Inv, Searching
  PROVE  /\ flen \in Nat /\ Here \in Nat /\ state \in 0..19
         /\ Here - state \in 0..flen /\ Here <= flen
         /\ pc = "scan" /\ i < length => Here < flen /\ byte = ByteAt(Here) /\ Here = at + i
         /\ chain \in Seq(Cabinet)
<1>1. flen \in Nat /\ TypeOK
  BY FileTyped DEF Inv
<1>2. ChainEnd \in Nat
  <2>1. chain # <<>> => chain[Len(chain)] \in Cabinet
    BY <1>1 DEF TypeOK
  <2>2. QED
    BY <2>1 DEF ChainEnd, Cabinet
<1>3. Here \in Nat /\ Here <= flen /\ state \in 0..19
  BY <1>1 DEF Inv, TypeOK, InFile, Here, Searching, HEADER
<1>4. Here - state >= ChainEnd
  BY DEF Inv, Ahead
<1>5. pc = "scan" /\ i < length => Here < flen /\ byte = ByteAt(Here) /\ Here = at + i
  BY <1>1 DEF Inv, TypeOK, InFile, HandleInPlace, Here, byte
<1> QED
  BY <1>1, <1>2, <1>3, <1>4, <1>5 DEF TypeOK

\* Places without a signature can be passed over.
LEMMA RestSkips ==
  ASSUME TypeOK, NEW a \in 0..flen, NEW b \in 0..flen, a <= b,
         \A q \in a..b - 1 : ~SignedAt(q)
  PROVE  Rest[a] = Rest[b]
<1>0. flen \in Nat
  BY FileTyped
<1>1. SignedFrom(a) = SignedFrom(b)
  <2>1. \A q \in a..flen : SignedAt(q) => q \in b..flen
    BY <1>0
  <2>2. \A q \in b..flen : q \in a..flen
    BY <1>0
  <2> QED
    BY <2>1, <2>2 DEF SignedFrom
<1>2. RestOf(Rest, a) = RestOf(Rest, b)
  BY <1>1 DEF RestOf
<1> QED
  BY <1>2, RestEquation

\* Nothing begins in the last bytes of the file.
LEMMA RestEnds ==
  ASSUME TypeOK, NEW a \in 0..flen, a + 20 > flen
  PROVE  Rest[a] = <<>>
<1>0. flen \in Nat
  BY FileTyped
<1>1. SignedFrom(a) = {}
  <2>1. \A q \in a..flen : ~(q + 20 <= flen)
    BY <1>0
  <2> QED
    BY <2>1 DEF SignedFrom, SignedAt, HEADER
<1> QED
  BY <1>1, RestEquation DEF RestOf

\* What the reference makes of a signature.
LEMMA RestAtSigned ==
  ASSUME TypeOK, NEW o \in 0..flen, SignedAt(o)
  PROVE  Rest[o] = IF ~IsCabinet(o) THEN Rest[o + 4]
                   ELSE <<[at |-> o, len |-> Value(o + 8)]>>
                          \o (IF o + Value(o + 8) > flen THEN <<>> ELSE Rest[o + Value(o + 8)])
<1>0. flen \in Nat /\ o \in SignedFrom(o)
  BY FileTyped DEF SignedFrom
<1>1. Least(SignedFrom(o)) = o
  <2>1. Least(SignedFrom(o)) \in SignedFrom(o) /\ Least(SignedFrom(o)) <= o
    BY <1>0, FirstSigned
  <2>2. Least(SignedFrom(o)) >= o /\ Least(SignedFrom(o)) \in Nat
    BY <1>0, <2>1 DEF SignedFrom
  <2> QED
    BY <2>1, <2>2
<1>2. SignedFrom(o) # {}
  BY <1>0
<1> QED
  BY <1>1, <1>2, RestEquation DEF RestOf

\* A field grows by the byte it is at.
LEMMA FieldGrows ==
  ASSUME NEW o \in Nat, NEW first \in {8, 16}, NEW old,
         state \in 0..19, byte = ByteAt(o + state),
         \A k \in 0..state : ByteAt(o + k) \in Nat,
         state > first => old = FieldSoFar(o, first, state)
  PROVE  state + 1 > first => Field(old, first) = FieldSoFar(o, first, state + 1)
<1> SUFFICES ASSUME state >= first PROVE Field(old, first) = FieldSoFar(o, first, state + 1)
  OBVIOUS
<1>0. o + first + 1 = o + (first + 1) /\ o + first + 2 = o + (first + 2) /\ o + first + 3 = o + (first + 3)
  OBVIOUS
<1> DEFINE B(k) == ByteAt(o + k)
<1>1. \A k \in 0..state : B(k) \in Nat
  OBVIOUS
<1>2. \A s : FieldSoFar(o, first, s) =
        (IF s > first THEN B(first) ELSE 0) + (IF s > first + 1 THEN B(first + 1) * 256 ELSE 0)
          + (IF s > first + 2 THEN B(first + 2) * 65536 ELSE 0)
          + (IF s > first + 3 THEN B(first + 3) * 16777216 ELSE 0)
  BY <1>0 DEF FieldSoFar
<1>3. byte = B(state)
  OBVIOUS
<1> HIDE DEF B
<1>4. CASE state = first
  <2>1. B(first) \in Nat /\ byte = B(first)
    BY <1>1, <1>3, <1>4
  <2>2. FieldSoFar(o, first, state + 1) = B(first) + 0 + 0 + 0
    BY <1>2, <1>4
  <2> QED
    BY <1>4, <2>1, <2>2 DEF Field
<1>5. CASE state = first + 1
  <2>1. B(first) \in Nat /\ B(first + 1) \in Nat /\ byte = B(first + 1)
    BY <1>1, <1>3, <1>5
  <2>2. /\ FieldSoFar(o, first, state) = B(first) + 0 + 0 + 0
        /\ FieldSoFar(o, first, state + 1) = B(first) + B(first + 1) * 256 + 0 + 0
    BY <1>2, <1>5
  <2> QED
    BY <1>5, <2>1, <2>2 DEF Field
<1>6. CASE state = first + 2
  <2>1. B(first) \in Nat /\ B(first + 1) \in Nat /\ B(first + 2) \in Nat /\ byte = B(first + 2)
    BY <1>1, <1>3, <1>6
  <2>2. /\ FieldSoFar(o, first, state) = B(first) + B(first + 1) * 256 + 0 + 0
        /\ FieldSoFar(o, first, state + 1) = B(first) + B(first + 1) * 256 + B(first + 2) * 65536 + 0
    BY <1>2, <1>6
  <2> QED
    BY <1>6, <2>1, <2>2 DEF Field
<1>7. CASE state = first + 3
  <2>1. B(first) \in Nat /\ B(first + 1) \in Nat /\ B(first + 2) \in Nat /\ B(first + 3) \in Nat
        /\ byte = B(first + 3)
    BY <1>1, <1>3, <1>7
  <2>2. /\ FieldSoFar(o, first, state) = B(first) + B(first + 1) * 256 + B(first + 2) * 65536 + 0
        /\ FieldSoFar(o, first, state + 1)
             = B(first) + B(first + 1) * 256 + B(first + 2) * 65536 + B(first + 3) * 16777216
    BY <1>2, <1>7
  <2> QED
    BY <1>7, <2>1, <2>2 DEF Field
<1>8. CASE state > first + 3
  <2>1. FieldSoFar(o, first, state) = FieldSoFar(o, first, state + 1)
    BY <1>2, <1>8
  <2> QED
    BY <1>8, <2>1 DEF Field
<1> QED
  BY <1>4, <1>5, <1>6, <1>7, <1>8

LEMMA CourseInit == Init => FieldsRead /\ OnCourse
BY DEF Init, FieldsRead, OnCourse, Searching

\* Nothing that the automaton holds, and nothing of the list, has changed.
LEMMA CourseHolds ==
  ASSUME SearchInv, Searching, Searching', UNCHANGED <<call, state, chain, cablen_u32, foffset_u32>>,
         Here' = Here, faults' = 0 => faults = 0
  PROVE  FieldsRead' /\ OnCourse'
<1>1. /\ Rest' = Rest /\ Cabinets' = Cabinets /\ Plain' = Plain
      /\ \A o, first, s : FieldSoFar(o, first, s)' = FieldSoFar(o, first, s)
  BY SameFile
<1>2. FieldsRead'
  BY <1>1 DEF SearchInv, FieldsRead
<1>3. pc' # "done"
  BY DEF Searching
<1>4. OnCourse'
  BY <1>1, <1>3 DEF SearchInv, OnCourse
<1> QED
  BY <1>2, <1>4

\* After a failure nothing is claimed.
LEMMA CourseLost ==
  ASSUME pc' = "done", faults' # 0
  PROVE  FieldsRead' /\ OnCourse'
BY DEF FieldsRead, OnCourse, Searching

LEMMA FailCounts ==
  ASSUME TypeOK, NEW err, Fail(err)
  PROVE  pc' = "done" /\ faults' # 0
BY SearchAssumption DEF TypeOK, Fail, Return

\* A search that is over has found all there is if nothing begins behind where it is.
LEMMA CourseEnds ==
  ASSUME SearchInv, Searching, Here - state + 20 > flen, pc' = "done",
         UNCHANGED <<call, chain>>, faults' = 0 => faults = 0
  PROVE  FieldsRead' /\ OnCourse'
<1>1. Cabinets' = Cabinets /\ Plain' = Plain
  BY SameFile
<1>2. TypeOK /\ Here - state \in 0..flen /\ chain \in Seq(Cabinet)
  BY HerePlace DEF SearchInv, Inv
<1>3. Rest[Here - state] = <<>>
  BY <1>2, RestEnds
<1>4. chain \o <<>> = chain
  BY <1>2
<1>5. ~Searching'
  BY DEF Searching
<1> QED
  BY <1>1, <1>3, <1>4, <1>5 DEF FieldsRead, OnCourse, SearchInv

LEMMA OpenCourse == SearchInv /\ Open => FieldsRead' /\ OnCourse'
<1> SUFFICES ASSUME SearchInv, Open PROVE FieldsRead' /\ OnCourse'
  OBVIOUS
<1>1. TypeOK /\ state = 0 /\ offset = 0 /\ chain = <<>> /\ flen \in Nat
  BY FileTyped DEF SearchInv, Inv, InFile, Open
<1>2. UNCHANGED <<call, offset, state, chain, cablen_u32, foffset_u32>>
  BY DEF Open
<1>3. Rest' = Rest /\ Cabinets' = Cabinets /\ Plain' = Plain
  BY <1>2, SameFile
<1>4. CASE \E err \in {"nomemory", "open", "seek"} : Fail(err)
  BY <1>1, <1>4, FailCounts, CourseLost
<1>5. CASE flen = 0 /\ pc' = "done"
  <2>1. Rest[0] = <<>>
    BY <1>1, <1>5, RestEnds
  <2>2. Cabinets = <<>>
    BY <1>1, <2>1, RestEquation
  <2> QED
    BY <1>1, <1>2, <1>3, <1>5, <2>2 DEF FieldsRead, OnCourse, Searching
<1>6. CASE pc' = "fill"
  <2>1. Here' = 0 /\ state' = 0 /\ chain' = <<>>
    BY <1>1, <1>2, <1>6 DEF Here
  <2>2. Rest[0] = Cabinets /\ Cabinets \in Seq(Cabinet)
    BY <1>1, RestEquation, RestTyped
  <2>3. <<>> \o Rest[0] = Cabinets
    BY <2>2
  <2>4. FieldsRead'
    BY <2>1 DEF FieldsRead
  <2>5. OnCourse'
    BY <1>3, <1>6, <2>1, <2>3 DEF OnCourse
  <2> QED
    BY <2>4, <2>5
<1> QED
  BY <1>4, <1>5, <1>6 DEF Open, Return

LEMMA FillCourse == SearchInv /\ Fill => FieldsRead' /\ OnCourse'
<1> SUFFICES ASSUME SearchInv, Fill PROVE FieldsRead' /\ OnCourse'
  OBVIOUS
<1>1. TypeOK /\ pc = "fill" /\ pos = offset /\ offset \in Nat
  BY DEF SearchInv, Inv, TypeOK, HandleInPlace, Fill
<1>2. UNCHANGED <<call, offset, state, chain, cablen_u32, foffset_u32>>
  BY DEF Fill
<1>3. CASE Fail("read")
  BY <1>1, <1>3, FailCounts, CourseLost
<1>4. CASE pc' = "scan" /\ i' = 0 /\ UNCHANGED faults
  <2>1. Here' = Here
    BY <1>1, <1>2, <1>4 DEF Here
  <2> QED
    BY <1>1, <1>2, <1>4, <2>1, CourseHolds DEF Searching
<1> QED
  BY <1>3, <1>4 DEF Fill

LEMMA AdvanceCourse == SearchInv /\ Advance => FieldsRead' /\ OnCourse'
<1> SUFFICES ASSUME SearchInv, Advance PROVE FieldsRead' /\ OnCourse'
  OBVIOUS
<1>1. /\ TypeOK /\ pc = "scan" /\ i = length /\ offset \in Nat /\ length \in Nat
      /\ offset + length <= flen /\ flen \in Nat /\ state \in 0..19
  BY FileTyped DEF SearchInv, Inv, TypeOK, InFile, Advance, HEADER
<1>2. UNCHANGED <<call, state, chain, cablen_u32, foffset_u32, faults>> /\ offset' = offset + length
  BY DEF Advance, StateAcross
<1>3. CASE pc' = "fill"
  <2>1. Here' = Here
    BY <1>1, <1>2, <1>3 DEF Here
  <2> QED
    BY <1>1, <1>2, <1>3, <2>1, CourseHolds DEF Searching
<1>4. CASE ~(offset' < flen) /\ pc' = "done"
  <2>1. Here = flen
    BY <1>1, <1>2, <1>4 DEF Here
  <2>2. Here - state + 20 > flen
    BY <1>1, <2>1
  <2> QED
    BY <1>1, <1>2, <1>4, <2>2, CourseEnds DEF Searching
<1> QED
  BY <1>3, <1>4 DEF Advance, Return

LEMMA RestartCourse == SearchInv /\ Restart => FieldsRead' /\ OnCourse'
<1> SUFFICES ASSUME SearchInv, Restart PROVE FieldsRead' /\ OnCourse'
  OBVIOUS
<1>1. TypeOK /\ pc = "restart"
  BY DEF SearchInv, Inv, Restart
<1>2. UNCHANGED <<call, offset, state, chain, cablen_u32, foffset_u32>>
  BY DEF Restart
<1>3. CASE Fail("seek")
  BY <1>1, <1>3, FailCounts, CourseLost
<1>4. CASE pc' = "fill" /\ UNCHANGED faults
  <2>1. Here' = Here
    BY <1>1, <1>2, <1>4 DEF Here
  <2> QED
    BY <1>1, <1>2, <1>4, <2>1, CourseHolds DEF Searching
<1> QED
  BY <1>3, <1>4 DEF Restart

\* A byte that does not match, and the ones before it that did, begin nothing.
LEMMA MismatchSkips ==
  ASSUME Inv, Plain, pc = "scan", i < length, state < 4, byte # Signature[state + 1]
  PROVE  Rest[Here - state] = Rest[Here + 1]
<1> DEFINE o == Here - state
<1>1. /\ TypeOK /\ flen \in Nat /\ Here \in Nat /\ state \in 0..3 /\ o \in 0..flen
      /\ Here < flen /\ byte = ByteAt(Here)
  BY HerePlace DEF Inv, Searching
<1>2. \A k \in 1..4 : k <= state => ByteAt(o + k - 1) = Signature[k]
  BY DEF Inv, Matched, Searching
<1>3. Signature[1] = 77 /\ Signature[2] # 77 /\ Signature[3] # 77
  BY DEF Signature
<1>4. ASSUME NEW q \in o..Here + 1 - 1, SignedAt(q) PROVE FALSE
  <2>1. \A k \in 1..4 : ByteAt(q + k - 1) = Signature[k]
    BY <1>4 DEF SignedAt
  <2>2. q \in Nat /\ q <= Here /\ q >= o
    BY <1>1
  <2>3. CASE q = o
    <3>1. state + 1 \in 1..4 /\ q + (state + 1) - 1 = Here
      BY <1>1, <2>3
    <3>2. ByteAt(Here) = Signature[state + 1]
      BY <2>1, <3>1
    <3> QED
      BY <1>1, <3>2
  <2>4. CASE q # o /\ q < Here
    <3> DEFINE k == q - o + 1
    <3>1. k \in 2..state /\ q = o + k - 1
      BY <1>1, <2>2, <2>4
    <3>2. k \in 1..4 /\ k <= state /\ k \in 2..3
      BY <1>1, <3>1
    <3> HIDE DEF k
    <3>3. ByteAt(q) = Signature[k]
      BY <1>2, <3>1, <3>2
    <3>4. Signature[k] # 77
      BY <1>3, <3>2
    <3>5. ByteAt(q) = 77
      <4>1. q + 1 - 1 = q
        BY <2>2
      <4> QED
        BY <1>3, <2>1, <4>1
    <3> QED
      BY <3>3, <3>4, <3>5
  <2>5. CASE q = Here /\ q # o
    <3>1. state \in 1..3 /\ state <= Here /\ Here \in 0..flen
      BY <1>1, <2>5
    <3>2. PICK k \in 1..state : ByteAt(Here - state + k - 1) # Signature[k]
      BY <1>4, <2>5, <3>1 DEF Plain
    <3>3. k \in 1..4 /\ k <= state
      BY <3>1
    <3>4. ByteAt(o + k - 1) = Signature[k]
      BY <1>2, <3>3
    <3>5. ByteAt(Here - state + k - 1) = Signature[k]
      BY <3>4, Zenon DEF o
    <3> QED
      BY <3>2, <3>5, Zenon
  <2> QED
    BY <1>1, <2>2, <2>3, <2>4, <2>5
<1>5. o \in 0..flen /\ Here + 1 \in 0..flen /\ o <= Here + 1
  BY <1>1
<1> HIDE DEF o
<1>6. Rest[o] = Rest[Here + 1]
  BY <1>1, <1>4, <1>5, RestSkips
<1> QED
  BY <1>6 DEF o

LEMMA ScanCourse == SearchInv /\ Scan => FieldsRead' /\ OnCourse'
<1> SUFFICES ASSUME SearchInv, Scan PROVE FieldsRead' /\ OnCourse'
  OBVIOUS
<1>1. pc = "scan" /\ i < length /\ state < HEADER - 1 /\ Inv /\ Searching
  BY DEF SearchInv, Scan, Searching
<1>2. /\ TypeOK /\ flen \in Nat /\ Here \in Nat /\ state \in 0..18 /\ Here - state \in 0..flen
      /\ Here < flen /\ byte = ByteAt(Here) /\ Here = at + i
  BY <1>1, HerePlace DEF Inv, HEADER
<1>3. /\ UNCHANGED <<call, pc, offset, chain, faults>> /\ i' = i + 1
      /\ state' = StateAfter(state)
      /\ cablen_u32' = Field(cablen_u32, 8) /\ foffset_u32' = Field(foffset_u32, 16)
  BY DEF Scan
<1>4. /\ Rest' = Rest /\ Cabinets' = Cabinets /\ Plain' = Plain
      /\ \A o, first, s : FieldSoFar(o, first, s)' = FieldSoFar(o, first, s)
  BY <1>3, SameFile
<1>5. Here' = Here + 1 /\ Searching'
  <2>1. offset \in Nat /\ i \in Nat
    BY <1>2 DEF TypeOK
  <2> QED
    BY <1>1, <1>3, <2>1 DEF Here, Searching
<1>6. CASE state' = state + 1
  <2> DEFINE o == Here - state
  <2>1. Here' - state' = o /\ o \in Nat /\ o + state = Here
    BY <1>2, <1>5, <1>6
  <2>2. \A k \in 0..state : ByteAt(o + k) \in Nat
    <3>1. \A k \in 0..state : o + k \in 0..flen - 1
      BY <1>2, <2>1
    <3>2. \A p \in 0..flen - 1 : ByteAt(p) \in 0..255
      BY <1>2, FileTyped
    <3> QED
      BY <3>1, <3>2
  <2>3. /\ state > 8 => cablen_u32 = FieldSoFar(o, 8, state)
        /\ state > 16 => foffset_u32 = FieldSoFar(o, 16, state)
    BY <1>1 DEF SearchInv, FieldsRead
  <2>4. state \in 0..19 /\ byte = ByteAt(o + state)
    BY <1>2, <2>1
  <2> HIDE DEF o
  <2>5. state + 1 > 8 => Field(cablen_u32, 8) = FieldSoFar(o, 8, state + 1)
    BY <2>1, <2>2, <2>3, <2>4, FieldGrows
  <2>6. state + 1 > 16 => Field(foffset_u32, 16) = FieldSoFar(o, 16, state + 1)
    BY <2>1, <2>2, <2>3, <2>4, FieldGrows
  <2>7. FieldsRead'
    BY <1>3, <1>4, <1>6, <2>1, <2>5, <2>6 DEF FieldsRead
  <2>8. OnCourse'
    <3>1. pc' # "done"
      BY <1>1, <1>3
    <3>2. faults = 0 /\ Plain => chain \o Rest[o] = Cabinets
      BY <1>1 DEF SearchInv, OnCourse, o
    <3> QED
      BY <1>3, <1>4, <2>1, <3>1, <3>2 DEF OnCourse
  <2> QED
    BY <2>7, <2>8
<1>7. CASE state' # state + 1
  <2>1. state' = 0 /\ state < 4 /\ byte # Signature[state + 1]
    BY <1>2, <1>3, <1>7 DEF StateAfter
  <2>2. Plain => Rest[Here - state] = Rest[Here + 1]
    BY <1>1, <2>1, MismatchSkips
  <2>3. Here' - state' = Here + 1
    BY <1>2, <1>5, <2>1
  <2>4. FieldsRead'
    BY <2>1 DEF FieldsRead
  <2>5. pc' # "done"
    BY <1>1, <1>3
  <2>6. OnCourse'
    BY <1>1, <1>3, <1>4, <2>2, <2>3, <2>5 DEF OnCourse, SearchInv
  <2> QED
    BY <2>4, <2>6
<1> QED
  BY <1>6, <1>7

\* What the header at the end of which the automaton is says.
LEMMA HeaderSays ==
  ASSUME SearchInv, pc = "scan", i < length, state = HEADER - 1
  PROVE  LET o == offset + (i + 1) - HEADER IN
         /\ o = Here - state /\ o \in 0..flen /\ o \in Nat /\ flen \in Nat
         /\ SignedAt(o)
         /\ cablen_u32 = Value(o + 8) /\ Field(foffset_u32, 16) = Value(o + 16)
<1> DEFINE o == offset + (i + 1) - HEADER
<1>1. /\ TypeOK /\ flen \in Nat /\ Here \in Nat /\ state = 19 /\ Here - state \in 0..flen
      /\ Here < flen /\ byte = ByteAt(Here) /\ Here = at + i
  BY HerePlace DEF SearchInv, Inv, Searching, HEADER
<1>2. offset \in Nat /\ i \in Nat /\ Here = offset + i
  BY <1>1 DEF TypeOK, Here
<1>3. o = Here - state /\ o \in 0..flen /\ o \in Nat
  BY <1>1, <1>2 DEF HEADER
<1> HIDE DEF o
<1>4. SignedAt(o)
  <2>1. o + 20 <= flen
    BY <1>1, <1>3
  <2>2. \A k \in 1..4 : ByteAt(o + k - 1) = Signature[k]
    <3>1. \A k \in 1..4 : k <= state => ByteAt(Here - state + k - 1) = Signature[k]
      BY DEF SearchInv, Inv, Matched, Searching
    <3> QED
      BY <1>1, <1>3, <3>1
  <2> QED
    BY <2>1, <2>2 DEF SignedAt, HEADER
<1>5. cablen_u32 = FieldSoFar(o, 8, 19) /\ foffset_u32 = FieldSoFar(o, 16, 19)
  BY <1>1, <1>3 DEF SearchInv, FieldsRead, Searching
<1>6. ASSUME NEW k \in 0..19 PROVE ByteAt(o + k) \in Nat
  <2>1. o + 19 = Here
    BY <1>1, <1>3
  <2>2. o + k \in 0..flen - 1
    BY <1>1, <1>3, <2>1
  <2>3. ByteAt(o + k) \in 0..255
    BY <1>1, <2>2, FileTyped
  <2> QED
    BY <2>3
<1>7. Field(foffset_u32, 16) = FieldSoFar(o, 16, 20)
  <2>1. state \in 0..19 /\ byte = ByteAt(o + state) /\ state + 1 = 20
    <3>1. o + state = Here
      BY <1>1, <1>3
    <3>2. byte = ByteAt(o + state)
      BY <1>1, <3>1, Zenon
    <3>3. state \in 0..19 /\ state + 1 = 20
      BY <1>1 DEF HEADER
    <3> QED
      BY <3>2, <3>3, Zenon
  <2>2. state + 1 > 16 => Field(foffset_u32, 16) = FieldSoFar(o, 16, state + 1)
    BY <1>1, <1>3, <1>5, <1>6, <2>1, FieldGrows
  <2> QED
    BY <2>1, <2>2
<1>8. FieldSoFar(o, 8, 19) = Value(o + 8) /\ FieldSoFar(o, 16, 20) = Value(o + 16)
  <2>1. o + 8 + 1 = o + 9 /\ o + 8 + 2 = o + 10 /\ o + 8 + 3 = o + 11
        /\ o + 16 + 1 = o + 17 /\ o + 16 + 2 = o + 18 /\ o + 16 + 3 = o + 19
    BY <1>3
  <2> QED
    BY <2>1 DEF FieldSoFar, Value
<1> QED
  BY <1>1, <1>3, <1>4, <1>5, <1>7, <1>8 DEF o

\* The search goes on at `there' with nothing matched, or is over if that is
\* not in the file, and the reference goes on there as well.
LEMMA CourseFrom ==
  ASSUME SearchInv, Searching, UNCHANGED call, state' = 0,
         NEW there \in Nat, offset' = there,
         (there >= flen /\ pc' = "done") \/ (there < flen /\ pc' = "restart"),
         chain' \in Seq(Cabinet),
         faults' = 0 /\ Plain => chain' \o (IF there > flen THEN <<>> ELSE Rest[there]) = Cabinets
  PROVE  FieldsRead' /\ OnCourse'
<1>1. Rest' = Rest /\ Cabinets' = Cabinets /\ Plain' = Plain
  BY SameFile
<1>2. FieldsRead'
  BY DEF FieldsRead
<1>3. TypeOK /\ flen \in Nat
  BY FileTyped DEF SearchInv, Inv
<1>4. CASE there >= flen /\ pc' = "done"
  <2>1. (IF there > flen THEN <<>> ELSE Rest[there]) = <<>>
    <3>1. CASE there > flen
      BY <3>1
    <3>2. CASE there = flen
      <4>1. Rest[flen] = <<>>
        BY <1>3, RestEnds
      <4> QED
        BY <3>2, <4>1
    <3> QED
      BY <1>3, <1>4, <3>1, <3>2
  <2>2. chain' \o <<>> = chain'
    OBVIOUS
  <2>3. ~Searching'
    BY <1>4 DEF Searching
  <2>4. OnCourse'
    BY <1>1, <2>1, <2>2, <2>3 DEF OnCourse
  <2> QED
    BY <1>2, <2>4
<1>5. CASE there < flen /\ pc' = "restart"
  <2>1. Here' = there /\ Here' - state' = there
    BY <1>5 DEF Here
  <2>2. OnCourse'
    BY <1>1, <1>3, <1>5, <2>1 DEF OnCourse
  <2> QED
    BY <1>2, <2>2
<1> QED
  BY <1>4, <1>5

LEMMA HeaderCourse == SearchInv /\ Header => FieldsRead' /\ OnCourse'
<1> DEFINE caboff == offset + (i + 1) - HEADER
           foffset == Field(foffset_u32, 16)
           Go(o) == /\ offset' = o /\ length' = 0
                    /\ IF o >= flen THEN Return("ok") ELSE pc' = "restart" /\ UNCHANGED error
<1> SUFFICES ASSUME SearchInv, Header PROVE FieldsRead' /\ OnCourse'
  OBVIOUS
<1>1. /\ TypeOK /\ pc = "scan" /\ i < length /\ state = HEADER - 1
      /\ state' = 0 /\ UNCHANGED call /\ Searching
  BY DEF SearchInv, Inv, Header, StateRestarted, Searching
<1>2. /\ caboff = Here - state /\ caboff \in 0..flen /\ caboff \in Nat /\ flen \in Nat
      /\ SignedAt(caboff)
      /\ cablen_u32 = Value(caboff + 8) /\ foffset = Value(caboff + 16)
  BY <1>1, HeaderSays
<1>3. chain \in Seq(Cabinet) /\ faults \in Nat
  BY <1>1 DEF TypeOK
<1>4. faults = 0 /\ Plain => chain \o Rest[caboff] = Cabinets
  BY <1>1, <1>2 DEF SearchInv, OnCourse
<1> DEFINE len == Value(caboff + 8)
<1>5. /\ Rest[caboff] = IF ~IsCabinet(caboff) THEN Rest[caboff + 4]
                        ELSE <<[at |-> caboff, len |-> len]>>
                               \o (IF caboff + len > flen THEN <<>> ELSE Rest[caboff + len])
      /\ caboff + 4 \in caboff + 1..flen /\ len \in Nat
  BY <1>1, <1>2, RestAtSigned, SignedReach
<1>6. IsCabinet(caboff) <=> /\ Plausible(caboff, cablen_u32, foffset)
                            /\ caboff \in image.good[salvage]
  BY <1>2 DEF IsCabinet
<1>7. AfterFalse(caboff) = caboff + 4 /\ AfterReal(caboff, cablen_u32) = caboff + len
  BY <1>2 DEF AfterFalse, AfterReal
<1>8. \/ ~Plausible(caboff, cablen_u32, foffset) /\ Go(AfterFalse(caboff)) /\ UNCHANGED <<chain, faults>>
      \/ Fail("nomemory")
      \/ /\ Plausible(caboff, cablen_u32, foffset) /\ caboff \in image.good[salvage]
         /\ chain' = Append(chain, [at |-> caboff, len |-> cablen_u32])
         /\ Go(AfterReal(caboff, cablen_u32)) /\ UNCHANGED faults
      \/ caboff \notin image.good[salvage] /\ Go(AfterFalse(caboff)) /\ UNCHANGED <<chain, faults>>
      \/ faults' = faults + 1 /\ Go(AfterFalse(caboff)) /\ UNCHANGED chain
  BY DEF Header
<1>9. ASSUME NEW o \in Nat, Go(o)
      PROVE  offset' = o /\ ((o >= flen /\ pc' = "done") \/ (o < flen /\ pc' = "restart"))
  BY <1>2, <1>9 DEF Return
<1> HIDE DEF caboff, foffset, Go, len
\* on behind the signature: the reference does so if this is no cabinet
<1>10. ASSUME Go(AfterFalse(caboff)), UNCHANGED chain, faults' # 0 \/ (~IsCabinet(caboff) /\ UNCHANGED faults)
       PROVE  FieldsRead' /\ OnCourse'
  <2> DEFINE there == caboff + 4
  <2>1. there \in Nat /\ there <= flen
    BY <1>2, <1>5
  <2> HIDE DEF there
  <2>2. offset' = there /\ ((there >= flen /\ pc' = "done") \/ (there < flen /\ pc' = "restart"))
    BY <1>7, <1>9, <1>10, <2>1 DEF there
  <2>3. faults' = 0 /\ Plain => chain' \o (IF there > flen THEN <<>> ELSE Rest[there]) = Cabinets
    BY <1>2, <1>4, <1>5, <1>10, <2>1 DEF there
  <2>4. chain' \in Seq(Cabinet)
    BY <1>3, <1>10
  <2> QED
    BY <1>1, <2>1, <2>2, <2>3, <2>4, CourseFrom
<1>11. CASE ~Plausible(caboff, cablen_u32, foffset) /\ Go(AfterFalse(caboff)) /\ UNCHANGED <<chain, faults>>
  BY <1>6, <1>10, <1>11
<1>12. CASE Fail("nomemory")
  BY <1>1, <1>12, FailCounts, CourseLost
<1>13. CASE /\ Plausible(caboff, cablen_u32, foffset) /\ caboff \in image.good[salvage]
            /\ chain' = Append(chain, [at |-> caboff, len |-> cablen_u32])
            /\ Go(AfterReal(caboff, cablen_u32)) /\ UNCHANGED faults
  <2> DEFINE there == caboff + len
             c == [at |-> caboff, len |-> len]
             R == IF there > flen THEN <<>> ELSE Rest[there]
  <2>1. there \in Nat
    BY <1>2, <1>5
  <2>2. offset' = there /\ ((there >= flen /\ pc' = "done") \/ (there < flen /\ pc' = "restart"))
    <3> HIDE DEF there
    <3> QED
      BY <1>7, <1>9, <1>13, <2>1 DEF there
  <2>3. c \in Cabinet
    BY <1>2, <1>5 DEF Cabinet
  <2>4. R \in Seq(Cabinet)
    BY <1>1, <1>2, <2>1, RestTyped
  <2>5. Rest[caboff] = <<c>> \o R
    BY <1>5, <1>6, <1>13
  <2>6. chain' = Append(chain, c)
    BY <1>2, <1>13 DEF len
  <2> HIDE DEF c, R
  <2>7. chain' = chain \o <<c>> /\ chain' \in Seq(Cabinet)
    BY <1>3, <2>3, <2>6
  <2>8. chain' \o R = chain \o (<<c>> \o R)
    <3>1. <<c>> \in Seq(Cabinet)
      BY <2>3
    <3>2. (chain \o <<c>>) \o R = chain \o (<<c>> \o R)
      BY <1>3, <2>4, <3>1, ConcatAssociative
    <3> QED
      BY <2>7, <3>2
  <2>9. faults' = 0 /\ Plain => chain' \o R = Cabinets
    BY <1>4, <1>13, <2>5, <2>8
  <2> HIDE DEF there
  <2>10. faults' = 0 /\ Plain => chain' \o (IF there > flen THEN <<>> ELSE Rest[there]) = Cabinets
    BY <2>9 DEF R
  <2> QED
    BY <1>1, <2>1, <2>2, <2>7, <2>10, CourseFrom
<1>14. CASE caboff \notin image.good[salvage] /\ Go(AfterFalse(caboff)) /\ UNCHANGED <<chain, faults>>
  BY <1>6, <1>10, <1>14
<1>15. CASE faults' = faults + 1 /\ Go(AfterFalse(caboff)) /\ UNCHANGED chain
  BY <1>3, <1>10, <1>15
<1> QED
  BY <1>8, <1>11, <1>12, <1>13, <1>14, <1>15

LEMMA StutterCourse == SearchInv /\ UNCHANGED vars => FieldsRead' /\ OnCourse'
<1> SUFFICES ASSUME SearchInv, UNCHANGED vars PROVE FieldsRead' /\ OnCourse'
  OBVIOUS
<1>0. UNCHANGED call
  BY DEF vars, call
<1>1. /\ Rest' = Rest /\ Cabinets' = Cabinets /\ Plain' = Plain
      /\ \A o, first, s : FieldSoFar(o, first, s)' = FieldSoFar(o, first, s)
  BY <1>0, SameFile
<1>2. Here' = Here /\ Searching' = Searching
  BY DEF Here, Searching, vars
<1> QED
  BY <1>1, <1>2 DEF SearchInv, FieldsRead, OnCourse, vars

\* "will search the entire file for embedded cabinet files": for every file, every
\* buffer size and both parameters, a search in which nothing fails links every
\* cabinet of the file in order and nothing else, however cabinets, false headers
\* and the ends of buffers overlap.  TLC evaluates Cabinets on a few files.
THEOREM FindsEveryCabinet == Spec => []FoundExactly
<1>1. Init => SearchInv
  BY InvInit, CourseInit DEF SearchInv
<1>2. Inv /\ [Next]_vars => Inv'
  BY OpenKeeps, FillKeeps, AdvanceKeeps, ScanKeeps, HeaderKeeps, RestartKeeps, StutterKeeps
     DEF Next
<1>3. SearchInv /\ [Next]_vars => SearchInv'
  BY <1>2, OpenCourse, FillCourse, AdvanceCourse, ScanCourse, HeaderCourse, RestartCourse,
     StutterCourse DEF Next, SearchInv
<1>4. SearchInv => FoundExactly
  BY DEF SearchInv, OnCourse, FoundExactly, Inv
<1> QED
  BY <1>1, <1>3, <1>4, PTL DEF Spec
=============================================================================
