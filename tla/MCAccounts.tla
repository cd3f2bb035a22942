---------------------------- MODULE MCAccounts ----------------------------
(* Accounts for TLC: a reserved and an ordinary GCP source and one of another *)
(* cloud, with one entity, of the ordinary GCP source.                        *)
EXTENDS Accounts, TLC

CONSTANTS a1, a2, r1, r2, x1, c1, c2, bucket, gcp, aws, e1

MCSources  == {bucket, gcp, aws}
MCGcp      == {bucket, gcp}
MCEntities == {e1}
MCHome     == e1 :> gcp
Symmetry   == Permutations(Requests) \cup Permutations(Accounts) \cup Permutations(Codes)
=============================================================================
