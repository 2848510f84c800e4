------------------------------ MODULE KwajFile ------------------------------
(***************************************************************************)
(* kwajd_read_headers() (kwajd.c): 14 bytes, and the optional headers that *)
(* "flags" lists, two of them strings that are read in one piece and then  *)
(* gone back over to the byte behind their NUL.                            *)
(*                                                                         *)
(* A file has: sig, flags, unknown2 (its length), name and ext (where the  *)
(* NUL of each is), extra (its length), data (the offset), method, sound.  *)
(***************************************************************************)
EXTENDS PackedFile

KwajAssumption ==
  \A f \in Files : f.form = "kwaj" =>
    {f.unknown2, f.name, f.ext, f.extra, f.data} \subseteq Nat
ASSUME KwajAssumption

KwajAt(label) == kind = "kwaj" /\ pc = label

Fields == <<"signature", "length", "unknown1", "unknown2", "names", "name", "ext", "extra", "opened">>
After(label) == Fields[1 + CHOOSE i \in 1 .. 8 : Fields[i] = label]

Present(label) ==
  IF label = "names" THEN {"name", "ext"} \cap l.file.flags # {} ELSE label \in l.file.flags

Goes ==
  /\ pc' = After(pc)
  /\ error' = IF pc' = "opened" THEN "OK" ELSE error
  /\ UNCHANGED <<kind, caller, ret, out>>

KwajSkips ==
  /\ kind = "kwaj"
  /\ pc \in {"length", "unknown1", "unknown2", "names", "name", "ext", "extra"}
  /\ ~Present(pc)
  /\ Goes
  /\ Works
  /\ UNCHANGED <<system, l>>

KwajSignature ==
  /\ KwajAt("signature")
  /\ \/ CannotRead(In, 14) /\ HeadersRead("READ") /\ UNCHANGED handles
     \/ Reads(In, 14) /\ IF l.file.sig THEN Goes ELSE HeadersRead("SIGNATURE")
  /\ UNCHANGED <<heap, l>>

KwajNumber ==
  /\ KwajAt("length") \/ KwajAt("unknown1")
  /\ Present(pc)
  /\ LET n == IF pc = "length" THEN 4 ELSE 2 IN
     \/ CannotRead(In, n) /\ HeadersRead("READ") /\ UNCHANGED handles
     \/ Reads(In, n) /\ Goes
  /\ UNCHANGED <<heap, l>>

\* a length, and as many bytes skipped; seek() goes beyond the file's end too
KwajUnknown2 ==
  /\ KwajAt("unknown2") /\ Present(pc)
  /\ \/ CannotRead(In, 2) /\ HeadersRead("READ") /\ UNCHANGED handles
     \/ Got(In, 2) = 2 /\ Works /\ Moves(In, 2 + l.file.unknown2) /\ Goes
     \/ Got(In, 2) = 2 /\ Fails /\ HeadersRead("SEEK") /\ UNCHANGED handles
  /\ UNCHANGED <<heap, l>>

KwajAllocName ==
  /\ KwajAt("names") /\ Present(pc)
  /\ \/ Works /\ heap' = heap \cup {<<"name", l.n>>} /\ Goes
     \/ Fails /\ HeadersRead("NOMEMORY") /\ UNCHANGED heap
  /\ UNCHANGED <<handles, l>>

\* mutant: back to the NUL instead of behind it
BackToNul(i, len) == i - len
Back(i, len) == i + 1 - len

\* up to `most` bytes of a string that has its NUL at `nul`, copied to place
\* `from` on.  Where the file ends without a NUL, "remove the null terminator"
\* takes the last character
KwajString(most, nul, from) ==
  LET len == Got(In, most)
      i == Least(nul, len)
      fn == from + IF nul < len THEN i ELSE i - 1 IN
  \/ (Fails \/ (Works /\ len < 2)) /\ HeadersRead("READ") /\ UNCHANGED <<handles, l>>
  \/ /\ len >= 2
     /\ l' = [l EXCEPT !.fn = fn, !.top = IF nul < len THEN fn ELSE from + len - 1]
     /\ \/ i = most /\ Works /\ HeadersRead("DATAFORMAT") /\ UNCHANGED handles
        \/ i < most /\ Works /\ Moves(In, len + Back(i, len)) /\ Goes
        \/ i < most /\ Fails /\ HeadersRead("SEEK") /\ UNCHANGED handles

KwajName ==
  /\ KwajAt("name") /\ Present(pc)
  /\ KwajString(9, l.file.name, 0)
  /\ UNCHANGED heap

KwajExtension ==
  /\ KwajAt("ext") /\ Present(pc)
  /\ KwajString(4, l.file.ext, l.fn + 1) \* behind the "."
  /\ UNCHANGED heap

KwajExtra ==
  /\ KwajAt("extra") /\ Present(pc)
  /\ \/ CannotRead(In, 2) /\ HeadersRead("READ") /\ UNCHANGED <<handles, heap, l>>
     \/ Got(In, 2) = 2 /\ Fails /\ HeadersRead("NOMEMORY") /\ UNCHANGED <<handles, heap, l>>
     \/ /\ Got(In, 2) = 2
        /\ heap' = heap \cup {<<"extra", l.n>>}
        /\ LET n == 2 + l.file.extra IN
           \/ /\ Works /\ Got(In, n) = n
              /\ Moves(In, n)
              /\ l' = [l EXCEPT !.extra = l.file.extra]
              /\ Goes
           \/ CannotRead(In, n) /\ HeadersRead("READ") /\ UNCHANGED <<handles, l>>

KwajHeaders ==
  \/ KwajSkips \/ KwajSignature \/ KwajNumber \/ KwajUnknown2 \/ KwajAllocName
  \/ KwajName \/ KwajExtension \/ KwajExtra

=============================================================================
