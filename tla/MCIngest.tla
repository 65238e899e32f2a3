------------------------------ MODULE MCIngest ------------------------------
(* Two points: the dims of one are all in the ledger's list, those of the   *)
(* other are not, and a scan gives it another identity.                     *)
EXTENDS Ingest

TwoIds == [p \in {"a", "b"} |-> IF p = "a" THEN "a" ELSE "position"]
=============================================================================
