--------------------------- MODULE MC_SingleFile ----------------------------
(***************************************************************************)
(* Small files of each form: whole, cut off at each kind of place, with a  *)
(* wrong signature, names of the limiting lengths, and damaged blocks.     *)
(***************************************************************************)
EXTENDS SingleFile

Szdd(sig, normal, mode, len, sound) ==
  [form |-> "szdd", sig |-> sig, normal |-> normal, mode |-> mode, len |-> len, sound |-> sound]

SzddFiles ==
  {Szdd(TRUE, normal, TRUE, 19, TRUE) : normal \in BOOLEAN}
  \cup {Szdd(TRUE, TRUE, FALSE, 19, FALSE), Szdd(FALSE, TRUE, TRUE, 19, FALSE),
        Szdd(TRUE, TRUE, TRUE, 13, FALSE), Szdd(TRUE, FALSE, TRUE, 5, FALSE)}

Kwaj(flags, name, ext, method, len, sound) ==
  LET data == KwajStart([flags |-> flags, unknown2 |-> 3, name |-> name, ext |-> ext, extra |-> 2], "opened") IN
  [form |-> "kwaj", sig |-> TRUE, flags |-> flags, unknown2 |-> 3, name |-> name, ext |-> ext, extra |-> 2,
   data |-> data, len |-> data + len, method |-> method, sound |-> sound]

All == {"length", "unknown1", "unknown2", "name", "ext", "extra"}

\* len is the length of the data, negative where the headers are cut off
KwajFiles ==
  {Kwaj(flags, 8, 3, "copy", 5, TRUE) : flags \in {{}, All, {"name"}, {"ext", "extra"}, {"name", "ext"}}}
  \cup {Kwaj(All, 0, 1, "mszip", 4, TRUE), Kwaj({"name", "ext"}, 3, 0, "lzss", 1, TRUE)}
  \cup {Kwaj({}, 0, 0, m, 3, FALSE) : m \in {"lzh", "mszip", "unknown"}}
  \cup {Kwaj({"name", "ext"}, 9, 3, "copy", 4, FALSE), Kwaj({"name", "ext"}, 8, 4, "copy", 4, FALSE)}
  \cup {Kwaj({"name"}, 5, 0, "copy", -2, FALSE), Kwaj({"name"}, 5, 0, "copy", -6, FALSE)}
  \cup {Kwaj(All, 8, 3, "copy", n, FALSE) : n \in {-1, -4, -6, -9, -18, -24, -27, -30, -34}}
  \cup {[Kwaj({}, 0, 0, "copy", 3, FALSE) EXCEPT !.sig = FALSE]}

Blk(stored, csize, dsize, ssize, pad, good) ==
  [stored |-> stored, csize |-> csize, dsize |-> dsize, ssize |-> ssize, pad |-> pad, good |-> good]

Oab(form, blocks, cut, sound) ==
  [form |-> form, sig |-> TRUE, blockmax |-> 4, blocks |-> blocks, sound |-> sound,
   target |-> Decoded([blocks |-> blocks], Len(blocks) + 1),
   len |-> OabStart([blocks |-> blocks], Len(blocks) + 1) - cut]

Lz == Blk(FALSE, 5, 4, 2, 0, TRUE)
Padded == Blk(FALSE, 5, 3, 3, 3, TRUE)
Raw == Blk(TRUE, 3, 3, 0, 0, TRUE)
Nothing == Blk(FALSE, 2, 0, 0, 2, TRUE)
Damaged == [Lz EXCEPT !.good = FALSE]

OabFiles ==
  {Oab("oab", <<Lz, Padded, Raw>>, 0, TRUE), Oab("patch", <<Padded, Lz>>, 0, TRUE),
   Oab("oab", <<>>, 0, TRUE), Oab("oab", <<Nothing, Raw>>, 0, TRUE)}
  \cup {Oab("patch", <<Damaged, Lz>>, 0, FALSE), Oab("oab", <<Raw, Damaged>>, 0, FALSE)}
  \cup {Oab("patch", <<[Lz EXCEPT !.ssize = n], Lz>>, 0, FALSE) : n \in {4, 5}}
  \cup {Oab("oab", <<Lz, [Raw EXCEPT !.csize = 2], Lz>>, 0, FALSE),
        Oab("oab", <<[Lz EXCEPT !.dsize = 5]>>, 0, FALSE)}
  \cup {[Oab("oab", <<Lz, Lz>>, 0, FALSE) EXCEPT !.target = 7],
        [Oab("oab", <<Lz>>, 0, FALSE) EXCEPT !.target = 9],
        [Oab("oab", <<Lz>>, 0, FALSE) EXCEPT !.sig = FALSE]}
  \cup {Oab("oab", <<Lz, Padded>>, cut, FALSE) : cut \in {1, 2, 3, 4, 6, 14}}
  \cup {Oab("oab", <<Raw>>, 1, FALSE)}

MCFiles == SzddFiles \cup KwajFiles \cup OabFiles
MCBases == {[len |-> 5, right |-> TRUE], [len |-> 5, right |-> FALSE], [len |-> 3, right |-> FALSE]}

=============================================================================
