---------------------------- MODULE MCServicePoller ----------------------------
(* Small instances of ServicePoller: s1 and s2 share a cluster, s3 has its own. *)
EXTENDS ServicePoller, TLC

CONSTANTS s1, s2, s3
MCClusterOf == [s \in Services |-> IF s = s3 THEN "other" ELSE "shared"]
Symmetry == Permutations(Clients) \cup Permutations(Descriptions)
=============================================================================
