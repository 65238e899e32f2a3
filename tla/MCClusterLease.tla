--------------------------- MODULE MCClusterLease ---------------------------
(***************************************************************************)
(* Instances of ClusterLease: two clusters of the one VM they share, and   *)
(* one cluster alone.                                                      *)
(***************************************************************************)
EXTENDS ClusterLease

TwinVMs == [c \in {"main", "wide"} |-> {"v1"}]
TwinLeases == [c \in {"main", "wide"} |-> {{"v1"}}]

SoloVMs == [c \in {"main"} |-> {"v1"}]
SoloLeases == [c \in {"main"} |-> {{"v1"}}]
=============================================================================
