---------------------------- MODULE MCSyncTask ----------------------------
(* Instances of SyncTask: two tasks that overlap on one source. *)
EXTENDS SyncTask, TLC

CONSTANTS t1, t2, d1

OneSource == t1 :> d1 @@ t2 :> d1

Symmetry == Permutations({t1, t2})
=============================================================================
