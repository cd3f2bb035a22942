--------------------------- MODULE MCMonthlyBill ---------------------------
(* Instances of MonthlyBill. *)
EXTENDS MonthlyBill, TLC

CONSTANTS u1, u2, x, y

\* The actions treat operators and bases alike, and no property names one.
Symmetry == Permutations(Users) \cup Permutations(Bases)
=============================================================================
