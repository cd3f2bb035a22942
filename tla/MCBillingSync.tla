--------------------------- MODULE MCBillingSync ---------------------------
(* Instances of BillingSync. *)
EXTENDS BillingSync, TLC

CONSTANTS d1, d2, t1, t2, t3, t4

\* The beat's tasks of two sources, a manual one of the first source, and the
\* refresh endpoint.
DailySource == t1 :> d1 @@ t2 :> d2 @@ t3 :> d1 @@ t4 :> d1
DailyRange  == t1 :> {1} @@ t2 :> {1} @@ t3 :> {1} @@ t4 :> {1}
DailyKind   == t1 :> "rolling" @@ t2 :> "rolling" @@ t3 :> "replace" @@ t4 :> "refresh"
=============================================================================
