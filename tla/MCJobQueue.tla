----------------------------- MODULE MCJobQueue -----------------------------
(* Instances of JobQueue with two submissions.                              *)
EXTENDS JobQueueLife

\* One job leases a cluster and may try three times; the other leases nothing
\* and sits at the edge of max_attempts.
MixedClusters == <<"main", "none">>
MixedAttempts == <<3, 0>>

\* Two jobs on one cluster, each with one retry: a fleet to hand over.
SharedCluster == <<"main", "main">>
OneRetryEach == <<2, 2>>

EqualPriority == <<1, 1>>
=============================================================================
