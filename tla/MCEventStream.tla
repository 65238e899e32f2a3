--------------------------- MODULE MCEventStream ---------------------------
(* One stream, three events, two broken connections.                       *)
EXTENDS EventStream
=============================================================================
