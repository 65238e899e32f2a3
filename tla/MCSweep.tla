------------------------------ MODULE MCSweep ------------------------------
(***************************************************************************)
(* Instances of SweepEngine for TLC.                                       *)
(***************************************************************************)
EXTENDS SweepEngine

First == {"error", "dead", "worse", "healthy"}
Retried == {<<4, 0>>, <<6, 1>>}
Again == {"error", "partial", "over"}
=============================================================================
