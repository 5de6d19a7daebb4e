----------------------------- MODULE MCPayments -----------------------------
(* Instances of Payments for TLC. *)
EXTENDS Payments, TLC

\* Ids are random UUIDs and no operation of Payments compares them.
Symmetry == Permutations(Payments)
=============================================================================
