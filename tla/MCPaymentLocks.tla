--------------------------- MODULE MCPaymentLocks ---------------------------
(* Instances of PaymentLocks for TLC. *)
EXTENDS PaymentLocks, TLC

MCPayments == 1 .. 5
MCInvoices == 1 .. 2
MCDeposits == 1 .. 2
Symmetry == Permutations(Requests)

Inv(total, paid) == [st |-> "posted", total |-> total, paid |-> paid, balance |-> total - paid]
Table(f) == f @@ [p \in MCPayments |-> NoPayment]
Zero == [p \in MCPayments |-> 0]
NoBounces == [p \in MCPayments |-> NoBounce]
DepositsWith(items) == [d \in MCDeposits |-> IF d = 1 /\ items # {} THEN [st |-> "posted", items |-> items]
                                                               ELSE [st |-> "none", items |-> {}]]

\* Receipt 1, in deposit 1, settles half of invoice 1; its other half was
\* applied inside receipt 2, on invoice 2.
Own1 == Row(1, 1, 1, 0, FALSE, None)
Lent == Row(1, 2, 1, 0, TRUE, 2)
Own2 == Row(2, 2, 1, 0, FALSE, None)
Receipts == Table(1 :> NewPayment("payment", 2, 0, "clearing", None, None) @@ 2 :> NewPayment("payment", 1, 0, "bank", None, None))
Deposited ==
    [invoice |-> <<Inv(2, 1), Inv(2, 2)>>, payment |-> Receipts, apps |-> SetToBag({Own1, Lent, Own2}),
     bounce |-> NoBounces, refund |-> Zero, deposit |-> DepositsWith({1}), books |-> [ar |-> 1, held |-> 0, clearing |-> 0]]

\* The same after receipt 1 bounced.
Returned ==
    [Deposited EXCEPT !.invoice = <<Inv(2, 0), Inv(2, 1)>>,
                      !.apps = SetToBag({[Own1 EXCEPT !.by = 1], [Lent EXCEPT !.by = 1], Own2}),
                      !.bounce = [NoBounces EXCEPT ![1] = [at |-> "bank", ar |-> 2, held |-> 0]],
                      !.books = [ar |-> 3, held |-> 0, clearing |-> 0]]

\* Held deposit 1, waiting to be deposited, drawn on for invoice 2 (draw 3)
\* inside receipt 2, which settles half of invoice 1.
Held ==
    [invoice |-> <<Inv(2, 1), Inv(2, 1)>>,
     payment |-> Table(1 :> NewPayment("hold", 2, 0, "clearing", None, None)
                       @@ 2 :> NewPayment("payment", 1, 0, "bank", None, None)
                       @@ 3 :> NewPayment("draw", 1, 0, "bank", 1, 2)),
     apps |-> SetToBag({Row(2, 1, 1, 0, FALSE, None), Row(3, 2, 1, 0, FALSE, None)}),
     bounce |-> NoBounces, refund |-> Zero, deposit |-> DepositsWith({}), books |-> [ar |-> 2, held |-> 1, clearing |-> 2]]

MCStarts == {Deposited, Returned, Held}

Op(op, p) == [op |-> op, p |-> p, draw |-> None]
NoneOf == [i \in MCInvoices |-> 0]
MCMenu ==
    {Op("bounce", 1), Op("bounce", 2), Op("voidPayment", 1), Op("voidPayment", 2), Op("voidPayment", 3), Op("voidBounce", 1)}
      \cup {Op("unapply", 1) @@ [i |-> i] : i \in MCInvoices}
      \cup {[Op("applyCredit", 1) EXCEPT !.draw = 5] @@ [i |-> 1, x |-> 1], Op("refund", 1) @@ [x |-> 1]}
      \cup {Op("createDeposit", None) @@ [d |-> 2, items |-> {1}]}
      \cup {Op("voidDeposit", None) @@ [d |-> d] : d \in MCDeposits}
      \cup {Op("updateDeposit", None) @@ [d |-> d, items |-> items] : d \in MCDeposits, items \in {{}, {1}}}
      \cup {Op("voidInvoice", None) @@ [i |-> 2]}
      \cup {[Op("updatePayment", 2) EXCEPT !.draw = 5] @@ [q |-> q] : q \in
               {[amount |-> 2, to |-> "bank", cash |-> [i \in MCInvoices |-> 1], adj |-> NoneOf, credits |-> {}],
                [amount |-> 1, to |-> "bank", cash |-> NoneOf, adj |-> NoneOf, credits |-> {[src |-> 1, inv |-> 2, amt |-> 1]}]}}
      \cup {[Op("updatePayment", 1) EXCEPT !.draw = 5]
               @@ [q |-> [amount |-> 1, to |-> "clearing", cash |-> NoneOf, adj |-> NoneOf, credits |-> {}]]}
      \cup {[Op("receive", 4) EXCEPT !.draw = 5] @@ [q |-> q] : q \in
               {[amount |-> 2, to |-> "bank", cash |-> [i \in MCInvoices |-> 1], adj |-> NoneOf, credits |-> {}],
                [amount |-> 1, to |-> "bank", cash |-> [i \in MCInvoices |-> IF i = 1 THEN 1 ELSE 0], adj |-> NoneOf,
                 credits |-> {[src |-> 1, inv |-> 2, amt |-> 1]}]}}
=============================================================================
