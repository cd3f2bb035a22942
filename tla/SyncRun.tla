------------------------------ MODULE SyncRun ------------------------------
(***************************************************************************)
(* What one row of sync_logs promises its readers, with no clock and no      *)
(* worker in it.  A run is opened once; while it is active only its own      *)
(* worker closes it; once nobody is left to close it, it is abandoned, and   *)
(* an abandoned run can only fail.  A success may still be taken back (the   *)
(* except branch of _run_sync_core), a failure is final.                     *)
(***************************************************************************)
CONSTANT Runs

VARIABLE run

States == {"absent", "active", "abandoned", "success", "failed"}

TypeOK == run \in [Runs -> States]

Init == run = [r \in Runs |-> "absent"]

Moves(r, from, to) == run[r] = from /\ run' = [run EXCEPT ![r] = to]

\* The row is inserted by a worker that knows it, or by one that never learnt
\* that the insert was committed.
Open(r) == Moves(r, "absent", "active") \/ Moves(r, "absent", "abandoned")

\* The worker closes the run, with success, with failure, or with a success
\* that it never learns of.
Close(r) == Moves(r, "active", "success") \/ Moves(r, "active", "failed")

\* The worker takes back a success it could not record on the source.
TakeBack(r) == Moves(r, "success", "failed")

\* The worker is killed, or gives up on a row it cannot write.
Abandon(r) == Moves(r, "active", "abandoned")

\* A sweep: some of the abandoned runs fail, no other run is touched.
Reap == \E S \in SUBSET Runs :
           /\ \A r \in S : run[r] = "abandoned"
           /\ run' = [r \in Runs |-> IF r \in S THEN "failed" ELSE run[r]]

Next == Reap \/ \E r \in Runs : Open(r) \/ Close(r) \/ TakeBack(r) \/ Abandon(r)

Spec == Init /\ [][Next]_run

=============================================================================
