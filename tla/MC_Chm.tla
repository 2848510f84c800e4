------------------------------- MODULE MC_Chm -------------------------------
(***************************************************************************)
(* Instances of Chm for TLC: help files of four frames, with files of both *)
(* sections, whole and damaged.                                            *)
(***************************************************************************)
EXTENDS Chm, TLC

F(section, offset, length) == [section |-> section, offset |-> offset, length |-> length]

Whole ==
  [has |-> SysFile, control |-> "OK", interval |-> 2,
   rtable |-> [sec0 |-> TRUE, length |-> 7, offsets |-> <<0, 1, 3, 5>>], span |-> 8,
   frames |-> <<1, 3, 5, 6>>, bad |-> {}, behind |-> 0, header |-> 1,
   files |-> {F(0, 0, 2), F(1, 1, 1), F(1, 3, 2), F(1, 5, 3)}]

Without(x) == [Whole EXCEPT !.has = SysFile \ {x}]

Disks ==
  "whole" :> Whole @@
  "behind" :> [Whole EXCEPT !.behind = 2, !.header = 3, !.files = {F(1, 3, 5), F(1, 6, 2)}] @@
  "half" :> [Whole EXCEPT !.behind = 1, !.header = 3, !.files = {F(1, 6, 2), F(1, 4, 2)}] @@
  "notable" :> [Without("rtable") EXCEPT !.files = {F(1, 6, 2), F(1, 3, 0)}] @@
  "nospan" :> [Without("spaninfo") EXCEPT !.files = {F(1, 6, 2)}] @@
  "shorttable" :> [Whole EXCEPT !.rtable.offsets = <<0, 1>>, !.span = 7,
                                !.files = {F(1, 5, 2), F(1, 6, 2)}] @@
  "elsewhere" :> [Whole EXCEPT !.rtable.sec0 = FALSE, !.files = {F(1, 5, 3)}] @@
  "shortlength" :> [Whole EXCEPT !.rtable.length = 3, !.files = {F(1, 3, 2), F(1, 6, 2), F(0, 0, 1)}] @@
  "longer" :> [Whole EXCEPT !.rtable.length = 10, !.files = {F(1, 6, 3), F(1, 8, 1)}] @@
  "liar" :> [Whole EXCEPT !.rtable.offsets[3] = 2, !.files = {F(1, 1, 2), F(1, 5, 3)}] @@
  "bad" :> [Whole EXCEPT !.bad = {1}, !.files = {F(1, 0, 2), F(1, 2, 2), F(1, 5, 3)}] @@
  "nolength" :> [Whole EXCEPT !.rtable.length = 0, !.files = {F(1, 6, 1)}] @@
  "neither" :> [Whole EXCEPT !.rtable.offsets = <<>>, !.span = 0, !.files = {F(1, 0, 1)}] @@
  "nocontrol" :> [Without("control") EXCEPT !.files = {F(1, 0, 2)}] @@
  "badcontrol" :> [Whole EXCEPT !.control = "SIGNATURE", !.files = {F(1, 0, 2)}] @@
  "nocontent" :> [Without("content") EXCEPT !.files = {F(1, 0, 2)}]

\* x is any of them; y, opened beside it, is whole.
CONSTANTS x, y
TwoOpen == {x, y}
OpensAs == x :> DOMAIN Disks @@ y :> {"whole"}
=============================================================================
