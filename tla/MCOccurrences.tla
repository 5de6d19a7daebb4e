--------------------------- MODULE MCOccurrences ---------------------------
(* Instance of Occurrences for TLC: a template with two or three dates, one or
   two jobs, and at most two changes of its schedule. *)
EXTENDS Occurrences, TLC

Symmetry == Permutations(Jobs)
=============================================================================
