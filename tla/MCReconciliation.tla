-------------------------- MODULE MCReconciliation --------------------------
(* Instance of Reconciliation for TLC: a bank account, one request at a
   time or two concurrent ones, each on the ledger or on a reconciliation. *)
EXTENDS Reconciliation, TLC

CONSTANT bank, rent, fees

MCAccounts == {bank, rent, fees}
MCBalanceSheet == {bank}
MCCategories == {rent, fees}
\* A payment out of the bank charged to either expense account.
MCPostings == {(bank :> -2 @@ rent :> 2), (bank :> -2 @@ fees :> 2)}

MCEndings == {-2, 2}

MCOneCategory == {rent}
MCOnePosting == {(bank :> 2 @@ rent :> -2)}

Symmetry == Permutations(Txns) \cup Permutations(RecIds) \cup Permutations(Requests)
=============================================================================
