--------------------------- MODULE MCTaijiIngest ---------------------------
(* Instances of TaijiIngest. *)
EXTENDS TaijiIngest, TLC

CONSTANTS l1, l2, l3, l4, p1, p2, p3, k1, k2, m1, s1, s2

\* Three logs of the first day and one of the second; the second push reaches
\* into the second day, the third repeats a log of the first.  Two projects with
\* one model.
PushDay   == l1 :> 1 @@ l2 :> 1 @@ l3 :> 2 @@ l4 :> 1
PushKey   == l1 :> k1 @@ l2 :> k2 @@ l3 :> k1 @@ l4 :> k1
KeyModel  == k1 :> m1 @@ k2 :> m1
KeyProj   == k1 :> "a" @@ k2 :> "b"
PushBatch == p1 :> {l1} @@ p2 :> {l2, l3} @@ p3 :> {l1, l4}
Symmetry  == Permutations(Servers)
=============================================================================
