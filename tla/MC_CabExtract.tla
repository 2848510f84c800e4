--------------------------- MODULE MC_CabExtract ---------------------------
(***************************************************************************)
(* Instances of CabExtract for TLC: a set of two cabinets, blocks of two   *)
(* units of output, and buffers of a few units.                            *)
(***************************************************************************)
EXTENDS CabExtract

Rec(data, n) == [data |-> data, out |-> n, sum |-> TRUE]
Bad(n) == [data |-> <<0, 0>>, out |-> n, sum |-> FALSE]
At(g, o, l) == [folder |-> g, offset |-> o, length |-> l]

\* plain: an uncompressed folder with a block split over the joint; hurt: one
\* whose first block is damaged; zip: a damaged block before a sound one; lzx: a
\* short last block; fat: a block that is too long once its fragments are joined.
Folders == {"plain", "hurt", "zip", "lzx", "fat"}
MethodOf == [g \in Folders |-> CASE g \in {"plain", "hurt"} -> "none"
                                 [] g \in {"zip", "fat"} -> "mszip"
                                 [] g = "lzx" -> "lzx"]
FirstOfFolder == [g \in Folders |-> IF g \in {"plain", "zip", "fat"} THEN 1 ELSE 2]
PartsOf ==
  [g \in Folders |->
     CASE g = "plain" -> << <<Rec(<<1, 2>>, 2), Rec(<<3>>, 0)>>, <<Rec(<<4>>, 2), Rec(<<5>>, 1)>> >>
       [] g = "hurt" -> << <<Bad(2), Rec(<<3, 4>>, 2)>> >>
       [] g = "zip" -> << <<Rec(<<1, 2>>, 2), Bad(2), Rec(<<5>>, 2)>> >>
       [] g = "lzx" -> << <<Rec(<<1, 2, 3>>, 2), Rec(<<4, 5>>, 1)>> >>
       [] g = "fat" -> << <<Rec(<<1>>, 2), Rec(<<2, 3>>, 0)>>, <<Rec(<<4, 5, 6>>, 2)>> >>]

FileTable ==
  [f \in 1..12 |->
     CASE f = 1 -> At("plain", 0, 3) [] f = 2 -> At("plain", 2, 2)
       [] f = 3 -> At("plain", 4, 1) [] f = 4 -> At("plain", 5, 9)
       [] f = 5 -> At("hurt", 0, 2) [] f = 6 -> At("hurt", 2, 1)
       [] f = 7 -> At("zip", 0, 1) [] f = 8 -> At("zip", 1, 2)
       [] f = 9 -> At("lzx", 0, 1) [] f = 10 -> At("lzx", 1, 2)
       [] f = 11 -> At("fat", 1, 2) [] f = 12 -> At("zip", 4, 1)]
FileIds == 1..12
BufferSizes == 1..3
=============================================================================
