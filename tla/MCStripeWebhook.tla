-------------------------- MODULE MCStripeWebhook --------------------------
(* Instance of StripeWebhook for TLC. *)
EXTENDS StripeWebhook, TLC

\* Charges and requests are told apart by nothing but their ids (used where no
\* liveness is checked).
Symmetry == Permutations(Charges) \cup Permutations(Handlers)
=============================================================================
