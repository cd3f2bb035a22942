---- MODULE MCAzureDeploy ----
(* Instances of AzureDeploy for TLC. *)
EXTENDS AzureDeploy
CONSTANTS i1, i2, j1, j2
MCItems == {i1, i2}
MCJobs == {j1, j2}
====
