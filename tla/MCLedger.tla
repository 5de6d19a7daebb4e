------------------------------ MODULE MCLedger ------------------------------
(* Instance of Ledger for TLC: two concurrent requests on the entries of a
   bank account and two expense accounts. *)
EXTENDS Ledger, TLC

CONSTANTS bank, rent, fees

MCAccounts == {bank, rent, fees}
MCBalanceSheet == {bank}
MCCategories == {rent, fees}
\* A payment from the bank account charged to an expense (bulk edits move it to
\* the other one), and one that is out of balance.
MCOnePosting == {(bank :> -2 @@ rent :> 2)}
MCPostings == MCOnePosting \cup {(bank :> -1 @@ rent :> 2)}

\* No category line to move: bulk edits change the payee only.
MCNoCategories == {}

Symmetry == Permutations(Requests) \cup Permutations(Txns)
=============================================================================
