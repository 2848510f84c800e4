----------------------------- MODULE MC_ChmFind -----------------------------
(***************************************************************************)
(* Instances of ChmFind for TLC: directories of up to five chunks, as      *)
(* compilers write them and damaged.                                       *)
(***************************************************************************)
EXTENDS ChmFind

E(nm, t) == [name |-> nm, to |-> t, kind |-> "file"]
\* the entries with these names, each with a file of its own
Es(names) == [x \in 1..Len(names) |-> E(names[x], names[x])]

PMGL(names, qr, next) ==
  [sig |-> TRUE, pmgl |-> TRUE, said |-> Len(names), entries |-> Es(names), cut |-> FALSE,
   qr |-> qr, ref |-> <<>>, stray |-> <<>>, next |-> next]
PMGI(es, qr) ==
  [sig |-> TRUE, pmgl |-> FALSE, said |-> Len(es), entries |-> es, cut |-> FALSE,
   qr |-> qr, ref |-> <<>>, stray |-> <<>>, next |-> 0]

NoIndex == 99
Dir(chunks, root, first, last, density) ==
  [num |-> Len(chunks), root |-> root, first |-> first, last |-> last, density |-> density,
   chunk |-> [c \in 0..Len(chunks) - 1 |-> chunks[c + 1]]]

Good ==
  { \* with entries that open() skips: "/", a directory, one of section 2
    Dir(<<[PMGL(<<1, 3, 5, 7, 9>>, TRUE, NoIndex) EXCEPT
             !.entries[1].kind = "short", !.entries[3].kind = "directory",
             !.entries[4].kind = "section"]>>, NoIndex, 0, 0, 2),
    Dir(<<PMGL(<<1, 3, 5, 7>>, TRUE, 1), PMGL(<<9>>, FALSE, NoIndex)>>, NoIndex, 0, 1, 3),
    Dir(<<PMGL(<<1, 2>>, FALSE, 1), PMGL(<<4, 6, 8>>, TRUE, NoIndex),
          PMGI(<<E(1, 0), E(4, 1)>>, TRUE)>>, 2, 0, 1, 2),
    Dir(<<PMGL(<<2, 3>>, TRUE, 1), PMGL(<<5, 6>>, TRUE, 2), PMGL(<<8>>, TRUE, NoIndex),
          PMGI(<<E(2, 0), E(5, 1), E(8, 2)>>, TRUE)>>, 3, 0, 2, 2),
    Dir(<<PMGL(<<1, 3>>, TRUE, 1), PMGL(<<5>>, TRUE, NoIndex), PMGI(<<E(1, 0)>>, FALSE),
          PMGI(<<E(5, 1)>>, TRUE), PMGI(<<E(1, 2), E(5, 3)>>, FALSE)>>, 4, 0, 1, 2) }

Damaged ==
  { \* a chunk without signature; an index entry out of range
    Dir(<<PMGL(<<1, 2>>, FALSE, 1), [PMGL(<<4>>, TRUE, NoIndex) EXCEPT !.sig = FALSE],
          PMGI(<<E(1, 0), E(4, 1), E(6, 7)>>, TRUE)>>, 2, 0, 1, 2),
    \* the last entry is cut off; more entries are announced than there are
    Dir(<<[PMGL(<<1, 3, 5>>, TRUE, 1) EXCEPT !.cut = TRUE],
          [PMGL(<<7>>, FALSE, 2) EXCEPT !.said = 3],
          [PMGL(<<8>>, FALSE, NoIndex) EXCEPT !.said = 0]>>, NoIndex, 0, 5, 2),
    \* an index chunk that is cut off
    Dir(<<PMGL(<<1, 2>>, FALSE, NoIndex), [PMGI(<<E(1, 0), E(4, 0)>>, FALSE) EXCEPT !.cut = TRUE]>>,
        1, 0, 0, 2),
    \* last_pmgl is too large, an unsorted chunk, a chunk that is its own next
    Dir(<<PMGL(<<4, 2, 6>>, TRUE, 1), PMGL(<<9>>, TRUE, 1)>>, NoIndex, 0, 3, 2),
    Dir(<<PMGL(<<5>>, TRUE, 1), PMGI(<<E(1, 0)>>, TRUE)>>, NoIndex, 0, 1, 2),
    \* quickrefs that point to other entries, past the last one, inside of something
    Dir(<<[PMGL(<<1, 3, 5, 7>>, TRUE, 1) EXCEPT !.ref = <<1>>],
          [PMGL(<<2, 4, 6, 8, 9>>, TRUE, NoIndex) EXCEPT !.ref = <<5, 6>>]>>, NoIndex, 0, 1, 2),
    Dir(<<[PMGL(<<1, 3, 5, 7>>, TRUE, NoIndex) EXCEPT !.ref = <<0>>, !.stray = Es(<<6, 2, 7>>)],
          PMGL(<<6>>, FALSE, NoIndex),
          [PMGI(<<E(1, 0), E(6, 1), E(9, 0)>>, TRUE) EXCEPT !.ref = <<0>>,
             !.stray = <<E(4, 0), E(8, 5)>>]>>, 2, 0, 0, 2),
    \* cycles
    Dir(<<PMGL(<<5>>, TRUE, 1), PMGL(<<6>>, TRUE, 0)>>, NoIndex, 0, 1, 2),
    Dir(<<PMGL(<<5>>, TRUE, 1), PMGI(<<E(1, 1), E(5, 0)>>, TRUE)>>, 1, 0, 0, 2) }

Directories == Good \cup Damaged
AllNames == 0..10
=============================================================================
