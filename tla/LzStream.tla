------------------------------ MODULE LzStream ------------------------------
(***************************************************************************)
(* What a decoder promises the caller (lzx.h, mszip.h, qtm.h, lzss.h): it  *)
(* writes as many units as it was asked for and returns OK, or it returns  *)
(* an error, writes no more than it was asked for, and stays failed.       *)
(***************************************************************************)
EXTENDS Integers

CONSTANTS Asks

VARIABLES total, sent, due, state

\* lzss_decompress() and the like are asked for all there is
ALL == -1

Init == total \in Nat /\ sent = 0 /\ due = 0 /\ state = "idle"

Ask ==
  /\ state = "idle" /\ due # ALL
  /\ due' \in {ALL} \cup {sent + n : n \in {m \in Asks : sent + m <= total}}
  /\ state' = "busy"
  /\ UNCHANGED <<total, sent>>

Met(n) == due = ALL \/ n = due

\* a write(), which may be the last thing a call does
Send ==
  /\ state = "busy"
  /\ sent' \in Nat /\ sent <= sent'
  /\ due # ALL => sent' <= due
  /\ state' \in {"busy", "failed"} \cup (IF Met(sent') THEN {"idle"} ELSE {})
  /\ UNCHANGED <<total, due>>

Next == Ask \/ Send

Spec == Init /\ [][Next]_<<total, sent, due, state>>

=============================================================================
