------------------------------ MODULE SzddFile ------------------------------
(***************************************************************************)
(* szddd_read_headers() (szddd.c): a signature of 8 bytes and 6 more, or   *)
(* QBasic's with 4.  A file has: sig (one of the signatures is there),     *)
(* normal (the common one), mode (the compression mode is 'A').            *)
(***************************************************************************)
EXTENDS PackedFile

SzddAt(label) == kind = "szdd" /\ pc = label

SzddSignature ==
  /\ SzddAt("signature")
  /\ \/ CannotRead(In, 8) /\ HeadersRead("READ") /\ UNCHANGED handles
     \/ /\ Reads(In, 8)
        /\ IF l.file.sig
           THEN pc' = "length" /\ UNCHANGED <<kind, error, caller, ret, out>>
           ELSE HeadersRead("SIGNATURE")
  /\ UNCHANGED <<heap, l>>

SzddLength ==
  /\ SzddAt("length")
  /\ LET n == IF l.file.normal THEN 6 ELSE 4 IN
     \/ CannotRead(In, n) /\ HeadersRead("READ") /\ UNCHANGED handles
     \/ /\ Reads(In, n)
        /\ HeadersRead(IF l.file.normal /\ ~l.file.mode THEN "DATAFORMAT" ELSE "OK")
  /\ UNCHANGED <<heap, l>>

=============================================================================
