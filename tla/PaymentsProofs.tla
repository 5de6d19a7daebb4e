--------------------------- MODULE PaymentsProofs ---------------------------
(***************************************************************************)
(* Proofs about Payments, for any number of invoices, payments and         *)
(* deposits and any amounts:                                               *)
(*   - a live application stands on posted, unbounced money;               *)
(*   - the items of a posted deposit are posted and in no other deposit;   *)
(*   - nothing about a bounced payment changes while it is bounced;        *)
(*   - an invoice's amount_paid is what its live rows settle, and its      *)
(*     balance is never negative;                                          *)
(*   - no receipt, held deposit or memo gives more than it received;       *)
(*   - every table keeps its type;                                         *)
(*   - the control accounts tie out to the tables.                         *)
(*                                                                         *)
(* Every operation commits an effect: the rows it writes.  For each        *)
(* invariant a predicate says, of the state before alone, what an effect   *)
(* must respect (Lawful, PaidFits, CreditsFit, AccountsFit); one lemma     *)
(* shows that such an effect keeps the invariant, and one per operation    *)
(* that the operation's effect is such.  The sums are those of Sums, taken *)
(* over bags of rows by Weigh.                                             *)
(***************************************************************************)
EXTENDS Payments, Sums, TLAPS

-----------------------------------------------------------------------------
(* The inductive invariant.                                                *)

PaymentShape(row) ==
    /\ DOMAIN row = {"kind", "st", "total", "adj", "to", "from", "inside"}
    /\ row.kind \in Kinds \cup {"none"}
    /\ row.st \in {"none", "posted", "void"} /\ (row.kind = "none" => row.st = "none")
    /\ row.to \in {"clearing", "bank"}
RowShape(r) ==
    /\ DOMAIN r = {"pay", "inv", "amt", "adj", "later", "inside", "by"}
    /\ r.pay \in Payments /\ r.inv \in Invoices
    /\ r.inside \in Payments \cup {None} /\ r.by \in Payments \cup {None}
DepositRow == [st : {"none", "posted", "void"}, items : SUBSET Payments]

\* The tables hold rows of the right shape.
Tables ==
    /\ DOMAIN invoice = Invoices /\ DOMAIN payment = Payments
    /\ DOMAIN bounce = Payments /\ DOMAIN refund = Payments
    /\ \A i \in Invoices : DOMAIN invoice[i] = {"st", "total", "paid", "balance"}
    /\ \A p \in Payments : PaymentShape(payment[p])
    /\ deposit \in [Deposits -> DepositRow]
    /\ \A r \in DOMAIN apps : RowShape(r) /\ apps[r] \in Nat \ {0}

\* A draw is on a held deposit, a memo went to no clearing account, a row
\* names a source that is applied and, as the payment around it, a receipt.
Kinship ==
    /\ \A p \in Payments : IsKind(p, {"draw"}) => payment[p].from \in Payments /\ IsKind(payment[p].from, {"hold"})
    /\ \A p \in Payments : IsKind(p, {"memo"}) => payment[p].to = "bank"
    /\ \A r \in DOMAIN apps : /\ IsKind(r.pay, {"payment", "draw", "memo"})
                              /\ r.inside # None => IsKind(r.inside, {"payment"})

\* A reversed row belongs to the payment whose live bounce reversed it, or to
\* a posted draw on it.
Owned(r, b) == \/ r.pay = b
               \/ IsKind(r.pay, {"draw"}) /\ payment[r.pay].from = b /\ Posted(r.pay)
BouncesStand ==
    /\ \A p \in Payments : Bounced(p) => IsKind(p, {"payment", "hold"}) /\ Posted(p) /\ refund[p] = 0
    /\ \A r \in DOMAIN apps : r.by # None => Bounced(r.by) /\ Owned(r, r.by)

PayInv == Tables /\ Kinship /\ BouncesStand /\ LiveRowsStand /\ DepositsHoldPostedItems

-----------------------------------------------------------------------------
(* What an effect must respect.                                            *)

After(e, p) == IF p \in DOMAIN e.payment THEN e.payment[p] ELSE payment[p]
BouncedAfter(e, p) == (IF p \in DOMAIN e.bounce THEN e.bounce[p] ELSE bounce[p]).at # "none"
\* All copies of the row are taken away.
Taken(e, r) == r \in DOMAIN e.gone /\ e.gone[r] = apps[r]

\* A payment row is inserted, changed or voided; a bounced one never.
PaymentLawful(e, p, new) ==
    /\ PaymentShape(new) /\ new.kind # "none" /\ payment[p].kind \in {"none", new.kind}
    /\ new.st \in {"posted", "void"} /\ ~Bounced(p)
    /\ new.kind = "memo" => new.to = "bank"
    /\ new.kind = "draw" => /\ new.from \in Payments /\ IsKind(new.from, {"hold"})
                            /\ ~Bounced(new.from)
                            /\ payment[p].kind = "draw" => new.from = payment[p].from
    /\ LiveDepositsFor(p) = {} \/ (new.st = "posted" /\ new.to = payment[p].to)
    /\ new.st = "void" =>
          /\ \A r \in DOMAIN apps : r.by = None /\ (r.pay = p \/ r.inside = p) => Taken(e, r)
          /\ new.kind = "hold" => LiveDraws(p) = {}
PaymentsLawful(e) ==
    /\ DOMAIN e.payment \subseteq Payments
    /\ \A p \in DOMAIN e.payment : PaymentLawful(e, p, e.payment[p])

\* A row that is live after the effect has what LiveRowsStand asks; a reversed
\* one belongs to a payment bounced by it.
NewRowLawful(e, r) ==
    /\ RowShape(r) /\ e.new[r] \in Nat \ {0}
    /\ After(e, r.pay).kind \in {"payment", "draw", "memo"}
    /\ r.inside # None => After(e, r.inside).kind = "payment"
    /\ After(e, r.pay).st = "posted"
    /\ r.by = None =>
          /\ invoice[r.inv].st = "posted" /\ r.inv \notin DOMAIN e.invoice
          /\ ~BouncedAfter(e, r.pay)
          /\ After(e, r.pay).kind = "draw" => /\ After(e, After(e, r.pay).from).st = "posted"
                                              /\ ~BouncedAfter(e, After(e, r.pay).from)
          /\ r.inside # None => After(e, r.inside).st = "posted"
    /\ r.by # None =>
          /\ ~Bounced(r.by) /\ BouncedAfter(e, r.by)
          /\ r.pay = r.by \/ (After(e, r.pay).kind = "draw" /\ After(e, r.pay).from = r.by)
RowsLawful(e) ==
    /\ \A r \in DOMAIN e.gone : /\ r \in DOMAIN apps /\ e.gone[r] \in Nat \ {0}
                                /\ r.by # None => ~BouncedAfter(e, r.by)
    /\ \A r \in DOMAIN e.new : NewRowLawful(e, r)

\* A bounce takes every live row of the payment, and of the draws on it; its
\* void takes every row it reversed.
BouncesLawful(e) ==
    /\ DOMAIN e.bounce \subseteq Payments
    /\ \A p \in DOMAIN e.bounce :
          /\ p \notin DOMAIN e.payment /\ p \notin DOMAIN e.refund
          /\ BouncedAfter(e, p) =>
                /\ IsKind(p, {"payment", "hold"}) /\ Posted(p) /\ refund[p] = 0
                /\ \A r \in DOMAIN apps : r.by = None /\ Owned(r, p) => Taken(e, r)
          /\ ~BouncedAfter(e, p) => \A r \in DOMAIN apps : r.by = p => Taken(e, r)

RefundsLawful(e) == DOMAIN e.refund \subseteq Payments /\ \A p \in DOMAIN e.refund : ~Bounced(p)

DepositsLawful(e) ==
    /\ DOMAIN e.deposit \subseteq Deposits
    /\ \A d \in DOMAIN e.deposit :
          /\ e.payment = <<>> /\ DOMAIN e.deposit = {d} /\ e.deposit[d] \in DepositRow
          /\ deposit[d].st = "posted" => SourcesUnbounced(d)
          /\ \A p \in e.deposit[d].items : e.deposit[d].st = "posted" /\ Depositable(p, d)

InvoicesLawful(e) ==
    /\ DOMAIN e.invoice \subseteq Invoices
    /\ \A i \in DOMAIN e.invoice :
          /\ DOMAIN e.invoice[i] = {"st", "total", "paid", "balance"}
          /\ e.invoice[i].st = "posted" \/ \A r \in DOMAIN apps : r.by = None => r.inv # i

Lawful(e) ==
    /\ PaymentsLawful(e) /\ RowsLawful(e) /\ BouncesLawful(e)
    /\ RefundsLawful(e) /\ DepositsLawful(e) /\ InvoicesLawful(e)

-----------------------------------------------------------------------------
(* What Commit does to each table.                                         *)

\* The payments after the step are those of After, with the kinds they had.
LEMMA PaymentsAfter ==
    ASSUME PayInv, NEW e, Lawful(e), Commit(e)
    PROVE /\ DOMAIN payment' = Payments
          /\ \A p \in Payments : payment'[p] = After(e, p)
          /\ \A p \in Payments : PaymentShape(payment'[p])
          /\ \A p \in Payments : payment[p].kind # "none" => payment'[p].kind = payment[p].kind
          /\ \A p \in Payments : Bounced(p) => payment'[p] = payment[p]
<1>1. payment' = Over(e.payment, payment) /\ DOMAIN payment = Payments
  BY DEF Commit, PayInv, Tables
<1>2. DOMAIN e.payment \subseteq Payments
  BY DEF Lawful, PaymentsLawful, PaymentLawful
<1>3. DOMAIN payment' = Payments /\ \A p \in Payments : payment'[p] = After(e, p)
  BY <1>1, <1>2 DEF After, Over
<1>4. \A p \in Payments : /\ PaymentShape(After(e, p))
                          /\ payment[p].kind # "none" => After(e, p).kind = payment[p].kind
                          /\ Bounced(p) => After(e, p) = payment[p]
  BY DEF After, Lawful, PaymentsLawful, PaymentLawful, PayInv, Tables
<1> QED
  BY <1>3, <1>4

LEMMA BouncesAfter ==
    ASSUME PayInv, NEW e, Lawful(e), Commit(e)
    PROVE /\ DOMAIN bounce' = Payments /\ DOMAIN refund' = Payments
          /\ \A p \in Payments : Bounced(p)' <=> BouncedAfter(e, p)
          /\ \A p \in Payments \ DOMAIN e.bounce : Bounced(p)' <=> Bounced(p)
          /\ \A p \in Payments \ DOMAIN e.refund : refund'[p] = refund[p]
<1>1. /\ bounce' = Over(e.bounce, bounce) /\ DOMAIN bounce = Payments
      /\ refund' = Over(e.refund, refund) /\ DOMAIN refund = Payments
  BY DEF Commit, PayInv, Tables
<1>2. DOMAIN e.bounce \subseteq Payments /\ DOMAIN e.refund \subseteq Payments
  BY DEF Lawful, BouncesLawful, RefundsLawful
<1> QED
  BY <1>1, <1>2 DEF BouncedAfter, Bounced, Over

\* The rows after the step are those not taken away and the new ones; a row
\* the effect does not name keeps its copies.
LEMMA RowsAfter ==
    ASSUME PayInv, NEW e, Lawful(e), Commit(e)
    PROVE /\ \A r \in DOMAIN apps' : r \in DOMAIN e.new \/ (r \in DOMAIN apps /\ ~Taken(e, r))
          /\ \A r \in DOMAIN apps' : apps'[r] \in Nat \ {0}
          /\ \A r : r \notin DOMAIN e.gone /\ r \notin DOMAIN e.new =>
                      /\ r \in DOMAIN apps' <=> r \in DOMAIN apps
                      /\ r \in DOMAIN apps => apps'[r] = apps[r]
<1> DEFINE left == apps (-) e.gone
<1>1. apps' = left (+) e.new
  BY DEF Commit
<1>2. /\ \A r \in DOMAIN apps : apps[r] \in Nat \ {0}
      /\ \A r \in DOMAIN e.gone : e.gone[r] \in Nat \ {0}
      /\ \A r \in DOMAIN e.new : e.new[r] \in Nat \ {0}
  BY DEF PayInv, Tables, Lawful, RowsLawful, NewRowLawful
<1>3. /\ \A r \in DOMAIN left : r \in DOMAIN apps /\ ~Taken(e, r) /\ left[r] \in Nat \ {0}
      /\ \A r : r \notin DOMAIN e.gone =>
                  /\ r \in DOMAIN left <=> r \in DOMAIN apps
                  /\ r \in DOMAIN apps => left[r] = apps[r]
  BY <1>2 DEF (-), Taken
<1> HIDE DEF left
<1>4. /\ DOMAIN (left (+) e.new) = DOMAIN left \cup DOMAIN e.new
      /\ \A r \in DOMAIN left \ DOMAIN e.new : (left (+) e.new)[r] = left[r] + 0
      /\ \A r \in DOMAIN e.new \ DOMAIN left : (left (+) e.new)[r] = 0 + e.new[r]
      /\ \A r \in DOMAIN e.new \cap DOMAIN left : (left (+) e.new)[r] = left[r] + e.new[r]
  BY DEF (+)
<1> QED
  BY <1>1, <1>2, <1>3, <1>4

LEMMA InvoicesAfter ==
    ASSUME PayInv, NEW e, Lawful(e), Commit(e)
    PROVE /\ DOMAIN invoice' = Invoices
          /\ \A i \in Invoices : DOMAIN invoice'[i] = {"st", "total", "paid", "balance"}
          /\ \A i \in Invoices \ DOMAIN e.invoice : invoice'[i].st = invoice[i].st
          /\ \A i \in DOMAIN e.invoice : invoice'[i] = e.invoice[i]
<1> DEFINE moved == Moved(invoice, e.gone, e.new)
<1>1. invoice' = Over(e.invoice, moved)
  BY DEF Commit
<1>2. /\ DOMAIN moved = Invoices
      /\ \A i \in Invoices : /\ DOMAIN moved[i] = {"st", "total", "paid", "balance"}
                             /\ moved[i].st = invoice[i].st
  BY DEF Moved, PayInv, Tables
<1>3. /\ DOMAIN e.invoice \subseteq Invoices
      /\ \A i \in DOMAIN e.invoice : DOMAIN e.invoice[i] = {"st", "total", "paid", "balance"}
  BY DEF Lawful, InvoicesLawful
<1> HIDE DEF moved
<1> QED
  BY <1>1, <1>2, <1>3 DEF Over

\* The deposits after the step; a deposited payment stays in the one deposit.
LEMMA DepositsAfter ==
    ASSUME PayInv, NEW e, Lawful(e), Commit(e)
    PROVE /\ deposit' \in [Deposits -> DepositRow]
          /\ \A d \in Deposits \ DOMAIN e.deposit : deposit'[d] = deposit[d]
          /\ \A d \in DOMAIN e.deposit : deposit'[d] = e.deposit[d]
<1>1. deposit' = Over(e.deposit, deposit) /\ deposit \in [Deposits -> DepositRow]
  BY DEF Commit, PayInv, Tables
<1>2. DOMAIN e.deposit \subseteq Deposits /\ \A d \in DOMAIN e.deposit : e.deposit[d] \in DepositRow
  BY DEF Lawful, DepositsLawful
<1> QED
  BY <1>1, <1>2 DEF Over

-----------------------------------------------------------------------------
(* A lawful effect keeps the invariant.                                    *)

\* Every table keeps rows of the right shape.
LEMMA LawfulKeepsTables ==
    ASSUME PayInv, NEW e, Lawful(e), Commit(e)
    PROVE Tables'
<1>1. \A r \in DOMAIN apps' : RowShape(r) /\ apps'[r] \in Nat \ {0}
  BY RowsAfter DEF Lawful, RowsLawful, NewRowLawful, PayInv, Tables
<1> QED
  BY <1>1, PaymentsAfter, BouncesAfter, InvoicesAfter, DepositsAfter DEF Tables, PaymentShape, RowShape

\* Kinds never change, so kin stays kin.
LEMMA LawfulKeepsKinship ==
    ASSUME PayInv, NEW e, Lawful(e), Commit(e)
    PROVE Kinship'
<1>1. ASSUME NEW p \in Payments, payment'[p].kind = "draw"
      PROVE payment'[p].from \in Payments /\ payment'[payment'[p].from].kind = "hold"
  <2>1. payment'[p].from \in Payments /\ payment[payment'[p].from].kind = "hold"
    <3>1. CASE p \in DOMAIN e.payment
      BY <1>1, <3>1, PaymentsAfter DEF After, Lawful, PaymentsLawful, PaymentLawful, IsKind
    <3>2. CASE p \notin DOMAIN e.payment
      BY <1>1, <3>2, PaymentsAfter DEF After, PayInv, Kinship, IsKind
    <3> QED
      BY <3>1, <3>2
  <2> QED
    BY <2>1, PaymentsAfter
<1>2. \A p \in Payments : IsKind(p, {"memo"})' => payment'[p].to = "bank"
  BY PaymentsAfter DEF After, Lawful, PaymentsLawful, PaymentLawful, PayInv, Kinship, IsKind
<1>3. ASSUME NEW r \in DOMAIN apps'
      PROVE /\ IsKind(r.pay, {"payment", "draw", "memo"})'
            /\ r.inside # None => IsKind(r.inside, {"payment"})'
  <2>1. CASE r \in DOMAIN e.new
    <3>1. NewRowLawful(e, r)
      BY <2>1 DEF Lawful, RowsLawful
    <3> QED
      BY <3>1, PaymentsAfter DEF NewRowLawful, RowShape, IsKind
  <2>2. CASE r \in DOMAIN apps
    <3>1. /\ r.pay \in Payments /\ r.inside \in Payments \cup {None}
          /\ payment[r.pay].kind \in {"payment", "draw", "memo"}
          /\ r.inside # None => payment[r.inside].kind = "payment"
      BY <2>2 DEF PayInv, Tables, RowShape, Kinship, IsKind
    <3> QED
      BY <3>1, PaymentsAfter DEF IsKind
  <2> QED
    BY <2>1, <2>2, RowsAfter
<1> QED
  BY <1>1, <1>2, <1>3 DEF Kinship, IsKind

\* A bounced payment stays as it is, and what its bounce reversed waits.
LEMMA LawfulKeepsBounces ==
    ASSUME PayInv, NEW e, Lawful(e), Commit(e)
    PROVE BouncesStand'
<1>1. ASSUME NEW p \in Payments, Bounced(p)'
      PROVE IsKind(p, {"payment", "hold"})' /\ Posted(p)' /\ refund'[p] = 0
  <2>1. CASE p \in DOMAIN e.bounce
    <3>1. BouncedAfter(e, p)
      BY <1>1, BouncesAfter
    <3>2. /\ p \notin DOMAIN e.payment /\ p \notin DOMAIN e.refund
          /\ IsKind(p, {"payment", "hold"}) /\ Posted(p) /\ refund[p] = 0
      BY <2>1, <3>1 DEF Lawful, BouncesLawful
    <3> QED
      BY <3>2, PaymentsAfter, BouncesAfter DEF After, IsKind, Posted
  <2>2. CASE p \notin DOMAIN e.bounce
    <3>1. Bounced(p)
      BY <1>1, <2>2, BouncesAfter
    <3>2. p \notin DOMAIN e.refund
      BY <3>1 DEF Lawful, RefundsLawful
    <3> QED
      BY <3>1, <3>2, PaymentsAfter, BouncesAfter DEF PayInv, BouncesStand, IsKind, Posted
  <2> QED
    BY <2>1, <2>2
<1>2. ASSUME NEW r \in DOMAIN apps', r.by # None
      PROVE Bounced(r.by)' /\ Owned(r, r.by)'
  <2>1. CASE r \in DOMAIN e.new
    <3>1. NewRowLawful(e, r)
      BY <2>1 DEF Lawful, RowsLawful
    <3>2. r.by \in Payments /\ r.pay \in Payments
      BY <3>1, <1>2 DEF NewRowLawful, RowShape
    <3> QED
      BY <3>1, <3>2, <1>2, PaymentsAfter, BouncesAfter DEF NewRowLawful, Owned, IsKind, Posted
  <2>2. CASE r \in DOMAIN apps /\ ~Taken(e, r)
    <3>1. Bounced(r.by) /\ Owned(r, r.by) /\ r.by \in Payments /\ r.pay \in Payments
      BY <2>2, <1>2 DEF PayInv, Tables, RowShape, BouncesStand
    <3>2. Bounced(r.by)'
      <4>1. CASE r.by \in DOMAIN e.bounce
        BY <4>1, <2>2, <3>1, BouncesAfter DEF Lawful, BouncesLawful
      <4>2. CASE r.by \notin DOMAIN e.bounce
        BY <4>2, <3>1, BouncesAfter
      <4> QED
        BY <4>1, <4>2
    <3>3. ASSUME r.pay # r.by
          PROVE /\ payment'[r.pay].kind = "draw" /\ payment'[r.pay].from = r.by
                /\ payment'[r.pay].st = "posted"
      <4>1. payment[r.pay].kind = "draw" /\ payment[r.pay].from = r.by /\ payment[r.pay].st = "posted"
        BY <3>1, <3>3 DEF Owned, IsKind, Posted
      <4>2. r.pay \notin DOMAIN e.payment
        <5> SUFFICES ASSUME r.pay \in DOMAIN e.payment PROVE FALSE
          OBVIOUS
        <5>1. /\ e.payment[r.pay].kind = "draw"
              /\ e.payment[r.pay].kind = "draw" => ~Bounced(e.payment[r.pay].from) /\ e.payment[r.pay].from = r.by
          BY <4>1 DEF Lawful, PaymentsLawful, PaymentLawful
        <5> QED
          BY <5>1, <3>1
      <4> QED
        BY <4>1, <4>2, <3>1, PaymentsAfter DEF After
    <3> QED
      BY <3>2, <3>3 DEF Owned, IsKind, Posted
  <2> QED
    BY <2>1, <2>2, RowsAfter
<1> QED
  BY <1>1, <1>2 DEF BouncesStand

\* A live row that the effect leaves alone stands where it stood: whatever it
\* stands on is not voided, bounced or taken off under it.
LEMMA OldRowsStand ==
    ASSUME PayInv, NEW e, Lawful(e), Commit(e),
           NEW r \in DOMAIN apps, r.by = None, ~Taken(e, r)
    PROVE /\ invoice'[r.inv].st = "posted"
          /\ payment'[r.pay].st = "posted" /\ ~Bounced(r.pay)'
          /\ payment'[r.pay].kind = "draw" => /\ payment'[payment'[r.pay].from].st = "posted"
                                              /\ bounce'[payment[r.pay].from].at = "none"
                                              /\ payment'[r.pay].from = payment[r.pay].from
          /\ r.inside # None => payment'[r.inside].st = "posted"
<1>1. /\ r.pay \in Payments /\ r.inv \in Invoices /\ r.inside \in Payments \cup {None}
      /\ payment[r.pay].kind # "none"
  BY DEF PayInv, Tables, RowShape, Kinship, IsKind
<1>2. /\ invoice[r.inv].st = "posted" /\ payment[r.pay].st = "posted" /\ ~Bounced(r.pay)
      /\ payment[r.pay].kind = "draw" => /\ payment[payment[r.pay].from].st = "posted"
                                         /\ ~Bounced(payment[r.pay].from)
      /\ r.inside # None => payment[r.inside].st = "posted"
  BY DEF PayInv, LiveRowsStand, Posted, IsKind
<1>3. invoice'[r.inv].st = "posted"
  <2>1. CASE r.inv \in DOMAIN e.invoice
    BY <2>1, InvoicesAfter DEF Lawful, InvoicesLawful
  <2>2. CASE r.inv \notin DOMAIN e.invoice
    BY <2>2, <1>1, <1>2, InvoicesAfter
  <2> QED
    BY <2>1, <2>2
<1>4. payment'[r.pay].st = "posted" /\ (r.inside # None => payment'[r.inside].st = "posted")
  BY <1>1, <1>2, PaymentsAfter DEF After, Lawful, PaymentsLawful, PaymentLawful
<1>5. ~Bounced(r.pay)'
  <2>1. CASE r.pay \in DOMAIN e.bounce
    BY <2>1, <1>1, BouncesAfter DEF Lawful, BouncesLawful, Owned
  <2>2. CASE r.pay \notin DOMAIN e.bounce
    BY <2>2, <1>1, <1>2, BouncesAfter
  <2> QED
    BY <2>1, <2>2
<1>6. ASSUME payment'[r.pay].kind = "draw"
      PROVE /\ payment'[payment'[r.pay].from].st = "posted"
            /\ bounce'[payment[r.pay].from].at = "none"
            /\ payment'[r.pay].from = payment[r.pay].from
  <2>0. PICK from : from = payment[r.pay].from
    OBVIOUS
  <2>1. payment[r.pay].kind = "draw"
    BY <1>1, <1>6, PaymentsAfter
  <2>2. from \in Payments /\ payment[from].kind = "hold" /\ payment[from].st = "posted" /\ ~Bounced(from)
    BY <2>0, <2>1, <1>1, <1>2 DEF PayInv, Kinship, IsKind
  <2>3. r.pay \in LiveDraws(from)
    BY <2>0, <2>1, <1>1, <1>2 DEF LiveDraws, IsKind, Posted
  <2>4. payment'[from].st = "posted"
    <3>1. CASE from \in DOMAIN e.payment
      BY <3>1, <2>2, <2>3, PaymentsAfter DEF After, Lawful, PaymentsLawful, PaymentLawful
    <3>2. CASE from \notin DOMAIN e.payment
      BY <3>2, <2>2, PaymentsAfter DEF After
    <3> QED
      BY <3>1, <3>2
  <2>5. bounce'[from].at = "none"
    <3>1. CASE from \in DOMAIN e.bounce
      <4>1. Owned(r, from)
        BY <2>0, <2>1, <1>2 DEF Owned, IsKind, Posted
      <4> QED
        BY <3>1, <4>1, <2>2, BouncesAfter DEF Lawful, BouncesLawful, Bounced
    <3>2. CASE from \notin DOMAIN e.bounce
      BY <3>2, <2>2, BouncesAfter DEF Bounced
    <3> QED
      BY <3>1, <3>2
  <2>6. payment'[r.pay].from = from
    <3>1. CASE r.pay \in DOMAIN e.payment
      BY <2>0, <3>1, <2>1, <1>1, PaymentsAfter DEF After, Lawful, PaymentsLawful, PaymentLawful
    <3>2. CASE r.pay \notin DOMAIN e.payment
      BY <2>0, <3>2, <1>1, PaymentsAfter DEF After
    <3> QED
      BY <3>1, <3>2
  <2> QED
    BY <2>0, <2>4, <2>5, <2>6
<1> QED
  BY <1>3, <1>4, <1>5, <1>6

\* Live rows stand after the step.
LEMMA LawfulKeepsRows ==
    ASSUME PayInv, NEW e, Lawful(e), Commit(e)
    PROVE LiveRowsStand'
<1>1. ASSUME NEW r \in DOMAIN apps', r.by = None
      PROVE /\ invoice'[r.inv].st = "posted"
            /\ payment'[r.pay].st = "posted" /\ bounce'[r.pay].at = "none"
            /\ payment'[r.pay].kind = "draw" => /\ payment'[payment'[r.pay].from].st = "posted"
                                                /\ bounce'[payment'[r.pay].from].at = "none"
            /\ r.inside # None => payment'[r.inside].st = "posted"
  <2>1. CASE r \in DOMAIN e.new
    <3>1. NewRowLawful(e, r)
      BY <2>1 DEF Lawful, RowsLawful
    <3>2. r.pay \in Payments /\ r.inv \in Invoices /\ (r.inside # None => r.inside \in Payments)
      BY <3>1 DEF NewRowLawful, RowShape
    <3>3. payment'[r.pay].kind = "draw" => payment'[r.pay].from \in Payments
      BY <3>2, LawfulKeepsKinship DEF Kinship, IsKind
    <3> QED
      BY <1>1, <3>1, <3>2, <3>3, InvoicesAfter, PaymentsAfter, BouncesAfter DEF NewRowLawful, Bounced
  <2>2. CASE r \in DOMAIN apps /\ ~Taken(e, r)
    BY <1>1, <2>2, OldRowsStand DEF Bounced
  <2> QED
    BY <2>1, <2>2, RowsAfter
<1> QED
  BY <1>1 DEF LiveRowsStand, IsKind, Posted, Bounced

\* The items of a posted deposit stay posted and in that deposit alone.
LEMMA LawfulKeepsDeposits ==
    ASSUME PayInv, NEW e, Lawful(e), Commit(e)
    PROVE DepositsHoldPostedItems'
<1>1. ASSUME NEW d \in Deposits, NEW p \in deposit'[d].items
      PROVE /\ p \in Payments /\ payment'[p].st = "posted" /\ payment'[p].to = "clearing"
            /\ deposit'[d].st = "posted"
            /\ \A x \in Deposits \ {d} : ~(deposit'[x].st = "posted" /\ p \in deposit'[x].items)
  <2>1. p \in Payments
    BY <1>1, DepositsAfter DEF DepositRow
  <2>2. CASE d \in DOMAIN e.deposit
    <3>1. /\ p \in e.deposit[d].items /\ deposit'[d] = e.deposit[d]
          /\ \A x \in Deposits \ {d} : deposit'[x] = deposit[x]
      BY <2>2, <1>1, DepositsAfter DEF Lawful, DepositsLawful
    <3>2. e.deposit[d].st = "posted" /\ Depositable(p, d) /\ e.payment = <<>>
      BY <2>2, <3>1 DEF Lawful, DepositsLawful
    <3>3. payment'[p] = payment[p]
      BY <3>2, <2>1, PaymentsAfter DEF After
    <3> QED
      BY <2>1, <3>1, <3>2, <3>3 DEF Depositable, Posted, LiveDepositsFor
  <2>3. CASE d \notin DOMAIN e.deposit
    <3>1. deposit'[d] = deposit[d] /\ p \in deposit[d].items
      BY <2>3, <1>1, DepositsAfter
    <3>2. Posted(p) /\ payment[p].to = "clearing" /\ LiveDepositsFor(p) = {d}
      BY <3>1 DEF PayInv, DepositsHoldPostedItems
    <3>3. payment'[p].st = "posted" /\ payment'[p].to = "clearing"
      <4>1. LiveDepositsFor(p) # {}
        BY <3>2
      <4>2. CASE p \in DOMAIN e.payment
        BY <2>1, <3>2, <4>1, <4>2, PaymentsAfter, ZenonT(60) DEF After, Lawful, PaymentsLawful, PaymentLawful
      <4>3. CASE p \notin DOMAIN e.payment
        BY <2>1, <3>2, <4>3, PaymentsAfter DEF After, Posted
      <4> QED
        BY <4>2, <4>3
    <3>4. ASSUME NEW x \in Deposits \ {d}
          PROVE ~(deposit'[x].st = "posted" /\ p \in deposit'[x].items)
      <4>1. CASE x \in DOMAIN e.deposit
        BY <4>1, <3>2, DepositsAfter, SMTT(60) DEF Lawful, DepositsLawful, Depositable
      <4>2. CASE x \notin DOMAIN e.deposit
        BY <4>2, <3>2, DepositsAfter DEF LiveDepositsFor
      <4> QED
        BY <4>1, <4>2
    <3>5. deposit[d].st = "posted"
      BY <3>2 DEF LiveDepositsFor
    <3> QED
      BY <2>1, <3>1, <3>3, <3>4, <3>5
  <2> QED
    BY <2>2, <2>3
<1> QED
  BY <1>1 DEF DepositsHoldPostedItems, Posted, LiveDepositsFor

\* The invariant is kept as a whole.
LEMMA LawfulKeepsInv ==
    ASSUME PayInv, NEW e, Lawful(e), Commit(e)
    PROVE PayInv'
BY LawfulKeepsTables, LawfulKeepsKinship, LawfulKeepsBounces, LawfulKeepsRows, LawfulKeepsDeposits DEF PayInv

\* Nothing about a payment that is bounced before and after the step changes.
Untouched(p) ==
    /\ payment'[p] = payment[p] /\ refund'[p] = refund[p]
    /\ LiveDepositsFor(p)' = LiveDepositsFor(p) /\ LiveDraws(p)' = LiveDraws(p)
    /\ Reversal(p)' = Reversal(p)
LEMMA LawfulReadOnly ==
    ASSUME PayInv, NEW e, Lawful(e), Commit(e), NEW p \in Payments, Bounced(p), Bounced(p)'
    PROVE Untouched(p)
<1>1. payment'[p] = payment[p] /\ refund'[p] = refund[p]
  BY PaymentsAfter, BouncesAfter DEF Lawful, RefundsLawful
<1>2. LiveDepositsFor(p)' = LiveDepositsFor(p)
  <2> SUFFICES ASSUME NEW d \in Deposits
               PROVE (deposit'[d].st = "posted" /\ p \in deposit'[d].items)
                        <=> (deposit[d].st = "posted" /\ p \in deposit[d].items)
    BY DEF LiveDepositsFor
  <2>1. CASE d \in DOMAIN e.deposit
    BY <2>1, DepositsAfter DEF Lawful, DepositsLawful, SourcesUnbounced, Depositable
  <2>2. CASE d \notin DOMAIN e.deposit
    BY <2>2, DepositsAfter
  <2> QED
    BY <2>1, <2>2
<1>3. LiveDraws(p)' = LiveDraws(p)
  <2> SUFFICES ASSUME NEW d \in Payments
               PROVE (payment'[d].kind = "draw" /\ payment'[d].st = "posted" /\ payment'[d].from = p)
                        <=> (payment[d].kind = "draw" /\ payment[d].st = "posted" /\ payment[d].from = p)
    BY DEF LiveDraws, IsKind, Posted
  <2>1. CASE d \in DOMAIN e.payment
    BY <2>1, PaymentsAfter DEF After, Lawful, PaymentsLawful, PaymentLawful, PaymentShape
  <2>2. CASE d \notin DOMAIN e.payment
    BY <2>2, PaymentsAfter DEF After
  <2> QED
    BY <2>1, <2>2
<1>4. Reversal(p)' = Reversal(p)
  <2>1. ASSUME NEW r, r.by = p
        PROVE r \notin DOMAIN e.gone /\ r \notin DOMAIN e.new
    <3>1. p # None /\ BouncedAfter(e, p)
      BY PaymentsAssumption, BouncesAfter
    <3> QED
      BY <2>1, <3>1 DEF Lawful, RowsLawful, NewRowLawful
  <2>2. /\ {r \in DOMAIN apps' : r.by = p} = {r \in DOMAIN apps : r.by = p}
        /\ \A r \in {x \in DOMAIN apps : x.by = p} : apps'[r] = apps[r]
    BY <2>1, RowsAfter
  <2> QED
    BY <2>2 DEF Reversal, ReversedBy
<1> QED
  BY <1>1, <1>2, <1>3, <1>4 DEF Untouched

-----------------------------------------------------------------------------
(* The effect of every operation is lawful.                                *)

\* What an effect leaves out is lawful.
LEMMA Absent ==
    ASSUME NEW e
    PROVE /\ e.payment = <<>> => PaymentsLawful(e)
          /\ e.gone = EmptyBag /\ e.new = EmptyBag => RowsLawful(e)
          /\ e.bounce = <<>> => BouncesLawful(e)
          /\ e.refund = <<>> => RefundsLawful(e)
          /\ e.deposit = <<>> => DepositsLawful(e)
          /\ e.invoice = <<>> => InvoicesLawful(e)
BY DEF EmptyBag, SetToBag, PaymentsLawful, RowsLawful, BouncesLawful, RefundsLawful, DepositsLawful, InvoicesLawful

\* An id without a payment is in no other table.
LEMMA UnusedIds ==
    ASSUME PayInv, NEW p \in Payments, Unused(p)
    PROVE /\ ~Posted(p) /\ ~Bounced(p) /\ LiveDepositsFor(p) = {}
          /\ \A r \in DOMAIN apps : r.pay # p /\ r.inside # p
BY PaymentsAssumption DEF Unused, PayInv, Tables, PaymentShape, Posted, IsKind, BouncesStand, DepositsHoldPostedItems, LiveDepositsFor, Kinship

\* A new payment row has the shape of one.
LEMMA NewPaymentShape ==
    ASSUME NEW kind \in Kinds, NEW total, NEW adj, NEW to \in {"clearing", "bank"}, NEW from, NEW inside
    PROVE LET row == NewPayment(kind, total, adj, to, from, inside)
          IN /\ PaymentShape(row) /\ row.kind = kind /\ row.st = "posted" /\ row.to = to
             /\ row.from = from /\ row.inside = inside
BY DEF NewPayment, PaymentShape, Kinds

\* receiveDepositInTx inserts a payment nothing refers to yet.
LEMMA ReceiveHoldLawful ==
    ASSUME PayInv, NEW p \in Payments, NEW amount, NEW to \in Places, ReceiveHold(p, amount, to)
    PROVE \E e : Lawful(e) /\ Commit(e)
<1>0. PICK row : row = NewPayment("hold", amount, 0, to, None, None)
  OBVIOUS
<1>1. PICK e : e = [Nothing EXCEPT !.payment = Only(p, row), !.held = amount, !.clearing = InClearing(to, amount)]
  OBVIOUS
<1>2. /\ e.payment = Only(p, row) /\ e.gone = EmptyBag /\ e.new = EmptyBag
      /\ e.bounce = <<>> /\ e.refund = <<>> /\ e.deposit = <<>> /\ e.invoice = <<>>
  BY <1>1 DEF Nothing
<1>3. PaymentShape(row) /\ row.kind = "hold" /\ row.st = "posted"
  BY <1>0, NewPaymentShape, PaymentsAssumption DEF Kinds
<1>4. PaymentsLawful(e)
  <2>1. PaymentLawful(e, p, row)
    BY <1>3, UnusedIds DEF PaymentLawful, ReceiveHold, Unused
  <2> QED
    BY <1>2, <2>1 DEF PaymentsLawful, Only
<1> QED
  BY <1>0, <1>1, <1>2, <1>4, Absent DEF Lawful, ReceiveHold

\* updatePayment of a deposit keeps it posted, and Free.
LEMMA UpdateHoldLawful ==
    ASSUME PayInv, NEW p \in Payments, NEW amount, NEW to \in Places, UpdateHold(p, amount, to)
    PROVE \E e : Lawful(e) /\ Commit(e)
<1>0. PICK row : row = [payment[p] EXCEPT !.total = amount, !.to = to]
  OBVIOUS
<1>1. PICK e : e = [Nothing EXCEPT !.payment = Only(p, row),
                       !.held = amount - payment[p].total,
                       !.clearing = InClearing(to, amount) - InClearing(payment[p].to, payment[p].total)]
  OBVIOUS
<1>2. /\ e.payment = Only(p, row) /\ e.gone = EmptyBag /\ e.new = EmptyBag
      /\ e.bounce = <<>> /\ e.refund = <<>> /\ e.deposit = <<>> /\ e.invoice = <<>>
  BY <1>1 DEF Nothing
<1>3. payment[p].kind = "hold" /\ payment[p].st = "posted" /\ ~Bounced(p) /\ LiveDepositsFor(p) = {}
  BY DEF UpdateHold, IsKind, Free, Posted
<1>4. PaymentShape(row) /\ row.kind = "hold" /\ row.st = "posted"
  BY <1>0, <1>3, PaymentsAssumption DEF PayInv, Tables, PaymentShape
<1>5. PaymentsLawful(e)
  <2>1. PaymentLawful(e, p, row)
    BY <1>3, <1>4 DEF PaymentLawful
  <2> QED
    BY <1>2, <2>1 DEF PaymentsLawful, Only
<1> QED
  BY <1>0, <1>1, <1>2, <1>5, Absent DEF Lawful, UpdateHold

\* applyCreditInTx applies what is left of posted, unbounced money to a posted
\* invoice; a held deposit through a draw.
LEMMA ApplyCreditLawful ==
    ASSUME PayInv, NEW p \in Payments, NEW i \in Invoices, NEW x \in Int,
           NEW d \in DrawIds(p, IsKind(p, {"hold"})), ApplyCredit(p, i, x, d)
    PROVE \E e : Lawful(e) /\ Commit(e)
<1>1. /\ payment[p].kind \in {"payment", "hold", "memo"} /\ payment[p].st = "posted" /\ ~Bounced(p)
      /\ invoice[i].st = "posted"
  BY DEF ApplyCredit, CreditUsable, PayableCents, IsKind, Posted
<1>2. PICK e : e = ApplyCreditEffect(p, i, x, d)
  OBVIOUS
<1>3. CASE payment[p].kind = "hold"
  <2>1. d \in Payments \ {p} /\ Unused(d)
    BY <1>3 DEF DrawIds, IsKind
  <2>2. PICK draw : draw = NewPayment("draw", x, 0, "bank", p, None)
    OBVIOUS
  <2>3. PICK row : row = Row(d, i, x, 0, FALSE, None)
    OBVIOUS
  <2>4. /\ e.payment = Only(d, draw) /\ e.gone = EmptyBag /\ e.new = SetToBag({row})
        /\ e.bounce = <<>> /\ e.refund = <<>> /\ e.deposit = <<>> /\ e.invoice = <<>>
    BY <1>2, <1>3, <2>2, <2>3 DEF ApplyCreditEffect, Nothing, IsKind
  <2>5. PaymentShape(draw) /\ draw.kind = "draw" /\ draw.st = "posted" /\ draw.from = p
    BY <2>2, NewPaymentShape DEF Kinds
  <2>6. RowShape(row) /\ row.pay = d /\ row.inv = i /\ row.inside = None /\ row.by = None
    BY <2>1, <2>3 DEF Row, RowShape
  <2>7. PaymentsLawful(e)
    <3>1. PaymentLawful(e, d, draw)
      BY <1>1, <1>3, <2>1, <2>5, UnusedIds DEF PaymentLawful, Unused, IsKind
    <3> QED
      BY <2>1, <2>4, <3>1 DEF PaymentsLawful, Only
  <2>8. NewRowLawful(e, row)
    <3>1. After(e, d) = draw /\ After(e, p) = payment[p]
      BY <2>1, <2>4 DEF After, Only
    <3>2. ~BouncedAfter(e, d) /\ ~BouncedAfter(e, p)
      BY <1>1, <2>1, <2>4, UnusedIds DEF BouncedAfter, Bounced
    <3>3. e.new[row] = 1 /\ DOMAIN e.invoice = {}
      BY <2>4 DEF SetToBag
    <3> QED
      BY <1>1, <2>5, <2>6, <3>1, <3>2, <3>3 DEF NewRowLawful
  <2>9. RowsLawful(e)
    BY <2>4, <2>8 DEF RowsLawful, SetToBag, EmptyBag
  <2> QED
    BY <1>2, <2>4, <2>7, <2>9, Absent DEF Lawful, ApplyCredit
<1>4. CASE payment[p].kind # "hold"
  <2>1. PICK row : row = Row(p, i, x, 0, TRUE, None)
    OBVIOUS
  <2>2. /\ e.payment = <<>> /\ e.gone = EmptyBag /\ e.new = SetToBag({row})
        /\ e.bounce = <<>> /\ e.refund = <<>> /\ e.deposit = <<>> /\ e.invoice = <<>>
    BY <1>2, <1>4, <2>1 DEF ApplyCreditEffect, Nothing, IsKind
  <2>3. RowShape(row) /\ row.pay = p /\ row.inv = i /\ row.inside = None /\ row.by = None
    BY <2>1 DEF Row, RowShape
  <2>4. NewRowLawful(e, row)
    <3>1. After(e, p) = payment[p] /\ (BouncedAfter(e, p) <=> Bounced(p))
      BY <2>2 DEF After, BouncedAfter, Bounced
    <3>2. e.new[row] = 1 /\ DOMAIN e.invoice = {}
      BY <2>2 DEF SetToBag
    <3> QED
      BY <1>1, <1>4, <2>3, <3>1, <3>2 DEF NewRowLawful
  <2>5. RowsLawful(e)
    BY <2>2, <2>4 DEF RowsLawful, SetToBag, EmptyBag
  <2> QED
    BY <1>2, <2>2, <2>5, Absent DEF Lawful, ApplyCredit
<1> QED
  BY <1>3, <1>4

\* unapplyPayment takes a row off.
LEMMA UnapplyLawful ==
    ASSUME PayInv, NEW p \in Payments, NEW r \in DOMAIN apps, Unapply(p, r)
    PROVE \E e : Lawful(e) /\ Commit(e)
<1>1. PICK e : e = [Nothing EXCEPT !.gone = SetToBag({r})]
  OBVIOUS
<1>2. /\ e.payment = <<>> /\ e.gone = SetToBag({r}) /\ e.new = EmptyBag
      /\ e.bounce = <<>> /\ e.refund = <<>> /\ e.deposit = <<>> /\ e.invoice = <<>>
  BY <1>1 DEF Nothing
<1>3. RowsLawful(e)
  BY <1>2 DEF RowsLawful, SetToBag, EmptyBag, Unapply, LiveApplications
<1> QED
  BY <1>1, <1>2, <1>3, Absent DEF Lawful, Unapply

\* createCreditMemo applies no more than an invoice takes, so to a posted one.
LEMMA CreateMemoLawful ==
    ASSUME PayInv, NEW m \in Payments, NEW total \in Int, NEW on \in SUBSET Invoices, CreateMemo(m, total, on)
    PROVE \E e : Lawful(e) /\ Commit(e)
<1> DEFINE rowOn(i) == Row(m, i, Smaller(total, PayableCents(invoice[i])), 0, FALSE, None)
<1>0. PICK memo : memo = NewPayment("memo", total, 0, "bank", None, None)
  OBVIOUS
<1>1. PICK rows : rows = {r \in {rowOn(i) : i \in on} : r.amt > 0}
  OBVIOUS
<1>2. PICK e : e = [Nothing EXCEPT !.payment = Only(m, memo), !.new = SetToBag(rows), !.ar = -total]
  OBVIOUS
<1>3. /\ e.payment = Only(m, memo) /\ e.gone = EmptyBag /\ e.new = SetToBag(rows)
      /\ e.bounce = <<>> /\ e.refund = <<>> /\ e.deposit = <<>> /\ e.invoice = <<>>
  BY <1>2 DEF Nothing
<1>4. Unused(m) /\ total > 0 /\ Commit(e)
  BY <1>0, <1>1, <1>2 DEF CreateMemo
<1>5. PaymentShape(memo) /\ memo.kind = "memo" /\ memo.st = "posted" /\ memo.to = "bank"
  BY <1>0, NewPaymentShape DEF Kinds
<1>6. PaymentsLawful(e)
  <2>1. PaymentLawful(e, m, memo)
    BY <1>4, <1>5, UnusedIds DEF PaymentLawful, Unused
  <2> QED
    BY <1>3, <2>1 DEF PaymentsLawful, Only
<1>7. RowsLawful(e)
  <2>1. ASSUME NEW r \in rows PROVE NewRowLawful(e, r)
    <3>1. PICK i \in on : r = rowOn(i)
      BY <1>1
    <3>2. /\ RowShape(r) /\ r.pay = m /\ r.inv = i /\ r.inside = None /\ r.by = None
          /\ r.amt = Smaller(total, PayableCents(invoice[i]))
      BY <3>1 DEF Row, RowShape
    <3>3. invoice[i].st = "posted"
      BY <1>1, <1>4, <3>2 DEF Smaller, PayableCents
    <3>4. After(e, m) = memo /\ ~BouncedAfter(e, m)
      BY <1>3, <1>4, UnusedIds DEF After, BouncedAfter, Bounced, Only
    <3>5. e.new[r] = 1 /\ DOMAIN e.invoice = {}
      BY <1>3 DEF SetToBag
    <3> QED
      BY <1>5, <3>2, <3>3, <3>4, <3>5 DEF NewRowLawful
  <2> QED
    BY <1>3, <2>1 DEF RowsLawful, SetToBag, EmptyBag
<1> QED
  BY <1>3, <1>4, <1>6, <1>7, Absent DEF Lawful

\* An edit of a memo changes its total.
LEMMA UpdateMemoLawful ==
    ASSUME PayInv, NEW m \in Payments, NEW total, UpdateMemo(m, total)
    PROVE \E e : Lawful(e) /\ Commit(e)
<1>0. PICK memo : memo = [payment[m] EXCEPT !.total = total]
  OBVIOUS
<1>1. PICK e : e = [Nothing EXCEPT !.payment = Only(m, memo), !.ar = payment[m].total - total]
  OBVIOUS
<1>2. /\ e.payment = Only(m, memo) /\ e.gone = EmptyBag /\ e.new = EmptyBag
      /\ e.bounce = <<>> /\ e.refund = <<>> /\ e.deposit = <<>> /\ e.invoice = <<>>
  BY <1>1 DEF Nothing
<1>3. payment[m].kind = "memo" /\ payment[m].st = "posted" /\ payment[m].to = "bank" /\ ~Bounced(m)
  BY DEF UpdateMemo, IsKind, Posted, PayInv, Kinship, BouncesStand
<1>4. PaymentShape(memo) /\ memo.kind = "memo" /\ memo.st = "posted" /\ memo.to = "bank"
  BY <1>0, <1>3 DEF PayInv, Tables, PaymentShape
<1>5. PaymentsLawful(e)
  <2>1. PaymentLawful(e, m, memo)
    BY <1>3, <1>4 DEF PaymentLawful
  <2> QED
    BY <1>2, <2>1 DEF PaymentsLawful, Only
<1> QED
  BY <1>0, <1>1, <1>2, <1>5, Absent DEF Lawful, UpdateMemo

\* A memo, which no deposit holds and nothing is applied inside, is voided with
\* its live rows.
LEMMA VoidMemoLawful ==
    ASSUME PayInv, NEW m \in Payments, VoidMemo(m)
    PROVE \E e : Lawful(e) /\ Commit(e)
<1>0. PICK memo : memo = [payment[m] EXCEPT !.st = "void"]
  OBVIOUS
<1>1. PICK e : e = [Nothing EXCEPT !.gone = Copies(LiveApplications(m)), !.payment = Voided({m}), !.ar = payment[m].total]
  OBVIOUS
<1>2. /\ e.payment = Voided({m}) /\ e.gone = Copies(LiveApplications(m)) /\ e.new = EmptyBag
      /\ e.bounce = <<>> /\ e.refund = <<>> /\ e.deposit = <<>> /\ e.invoice = <<>>
  BY <1>1 DEF Nothing
<1>3. payment[m].kind = "memo" /\ payment[m].st = "posted" /\ payment[m].to = "bank" /\ ~Bounced(m)
  BY DEF VoidMemo, IsKind, Posted, PayInv, Kinship, BouncesStand
<1>4. PaymentShape(memo) /\ memo.kind = "memo" /\ memo.st = "void" /\ memo.to = "bank"
  BY <1>0, <1>3 DEF PayInv, Tables, PaymentShape
<1>5. LiveDepositsFor(m) = {}
  BY <1>3 DEF PayInv, DepositsHoldPostedItems, LiveDepositsFor
<1>6. \A r \in DOMAIN apps : r.by = None /\ (r.pay = m \/ r.inside = m) => Taken(e, r)
  BY <1>2, <1>3, PaymentsAssumption DEF Taken, Copies, LiveApplications, PayInv, Kinship, IsKind
<1>7. PaymentsLawful(e)
  <2>1. PaymentLawful(e, m, memo)
    BY <1>3, <1>4, <1>5, <1>6 DEF PaymentLawful
  <2> QED
    BY <1>0, <1>2, <2>1 DEF PaymentsLawful, Voided
<1>8. RowsLawful(e)
  BY <1>2 DEF RowsLawful, Copies, LiveApplications, EmptyBag, SetToBag, PayInv, Tables
<1> QED
  BY <1>1, <1>2, <1>7, <1>8, Absent DEF Lawful, VoidMemo

\* A refund, and its void, leave bounced money alone.
LEMMA RefundsLawfulSteps ==
    ASSUME PayInv, NEW p \in Payments, NEW x, Refund(p, x) \/ VoidRefund(p)
    PROVE \E e : Lawful(e) /\ Commit(e)
<1>1. ~Bounced(p)
  BY DEF Refund, MayRefund, VoidRefund, PayInv, BouncesStand
<1>2. ASSUME NEW total, NEW y, Commit(RefundEffect(p, total, y))
      PROVE \E e : Lawful(e) /\ Commit(e)
  <2>1. PICK e : e = RefundEffect(p, total, y)
    OBVIOUS
  <2>2. /\ e.payment = <<>> /\ e.gone = EmptyBag /\ e.new = EmptyBag
        /\ e.bounce = <<>> /\ e.refund = Only(p, total) /\ e.deposit = <<>> /\ e.invoice = <<>>
    BY <2>1 DEF RefundEffect, Nothing
  <2>3. RefundsLawful(e)
    BY <1>1, <2>2 DEF RefundsLawful, Only
  <2> QED
    BY <1>2, <2>1, <2>2, <2>3, Absent DEF Lawful
<1> QED
  BY <1>2 DEF Refund, VoidRefund

\* A deposit takes what is depositable; one with a bounced item is not changed.
LEMMA DepositsLawfulSteps ==
    ASSUME PayInv, NEW d \in Deposits, NEW items \in SUBSET Payments,
           CreateDeposit(d, items) \/ UpdateDeposit(d, items) \/ VoidDeposit(d)
    PROVE \E e : Lawful(e) /\ Commit(e)
<1>1. ASSUME NEW st \in {"posted", "void"}, NEW held \in SUBSET Payments, Commit(DepositEffect(d, st, held)),
             deposit[d].st = "posted" => SourcesUnbounced(d),
             \A p \in held : st = "posted" /\ Depositable(p, d)
      PROVE \E e : Lawful(e) /\ Commit(e)
  <2>1. PICK e : e = DepositEffect(d, st, held)
    OBVIOUS
  <2>2. PICK row : row = [st |-> st, items |-> held]
    OBVIOUS
  <2>3. /\ e.payment = <<>> /\ e.gone = EmptyBag /\ e.new = EmptyBag
        /\ e.bounce = <<>> /\ e.refund = <<>> /\ e.deposit = Only(d, row) /\ e.invoice = <<>>
    BY <2>1, <2>2 DEF DepositEffect, Nothing
  <2>4. row \in DepositRow /\ row.st = st /\ row.items = held
    BY <2>2 DEF DepositRow
  <2>5. DepositsLawful(e)
    BY <1>1, <2>3, <2>4 DEF DepositsLawful, Only
  <2> QED
    BY <1>1, <2>1, <2>3, <2>5, Absent DEF Lawful
<1>2. CASE CreateDeposit(d, items)
  BY <1>1, <1>2 DEF CreateDeposit, MayCreateDeposit
<1>3. CASE UpdateDeposit(d, items)
  BY <1>1, <1>3 DEF UpdateDeposit, MayUpdateDeposit
<1>4. CASE VoidDeposit(d)
  BY <1>1, <1>4 DEF VoidDeposit, MayVoidDeposit
<1> QED
  BY <1>2, <1>3, <1>4

\* An invoice is edited while it is posted and voided when no live row is on it.
LEMMA InvoicesLawfulSteps ==
    ASSUME PayInv, NEW i \in Invoices, NEW total, UpdateInvoice(i, total) \/ VoidInvoice(i)
    PROVE \E e : Lawful(e) /\ Commit(e)
<1>1. ASSUME NEW row, NEW ar, Commit([Nothing EXCEPT !.invoice = Only(i, row), !.ar = ar]),
             DOMAIN row = {"st", "total", "paid", "balance"},
             row.st = "posted" \/ \A r \in DOMAIN apps : r.by = None => r.inv # i
      PROVE \E e : Lawful(e) /\ Commit(e)
  <2>1. PICK e : e = [Nothing EXCEPT !.invoice = Only(i, row), !.ar = ar]
    OBVIOUS
  <2>2. /\ e.payment = <<>> /\ e.gone = EmptyBag /\ e.new = EmptyBag
        /\ e.bounce = <<>> /\ e.refund = <<>> /\ e.deposit = <<>> /\ e.invoice = Only(i, row)
    BY <2>1 DEF Nothing
  <2>3. InvoicesLawful(e)
    BY <1>1, <2>2 DEF InvoicesLawful, Only
  <2> QED
    BY <1>1, <2>1, <2>2, <2>3, Absent DEF Lawful
<1>2. DOMAIN invoice[i] = {"st", "total", "paid", "balance"}
  BY DEF PayInv, Tables
<1>3. CASE UpdateInvoice(i, total)
  <2>1. PICK row : row = [invoice[i] EXCEPT !.total = total, !.balance = total - invoice[i].paid]
    OBVIOUS
  <2>2. DOMAIN row = {"st", "total", "paid", "balance"} /\ row.st = "posted"
    BY <1>2, <1>3, <2>1 DEF UpdateInvoice
  <2>3. Commit([Nothing EXCEPT !.invoice = Only(i, row), !.ar = total - invoice[i].total])
    BY <1>3, <2>1 DEF UpdateInvoice
  <2> QED
    BY <1>1, <2>2, <2>3
<1>4. CASE VoidInvoice(i)
  <2>1. PICK row : row = [invoice[i] EXCEPT !.st = "void"]
    OBVIOUS
  <2>2. DOMAIN row = {"st", "total", "paid", "balance"}
    BY <1>2, <2>1
  <2>3. \A r \in DOMAIN apps : r.by = None => r.inv # i
    BY <1>4 DEF VoidInvoice, MayVoidInvoice, Unapplied, PayInv, LiveRowsStand
  <2>4. Commit([Nothing EXCEPT !.invoice = Only(i, row), !.ar = -invoice[i].total])
    BY <1>4, <2>1 DEF VoidInvoice, VoidInvoiceEffect
  <2> QED
    BY <1>1, <2>2, <2>3, <2>4
<1> QED
  BY <1>3, <1>4

\* Marked rows are the rows given, with another reversed_by.
LEMMA MarkedRows ==
    ASSUME PayInv, NEW R \in SUBSET DOMAIN apps, NEW by \in Payments \cup {None}, NEW q \in DOMAIN Marked(R, by)
    PROVE /\ RowShape(q) /\ q.by = by /\ Marked(R, by)[q] \in Nat \ {0}
          /\ \E r \in R : q.pay = r.pay /\ q.inv = r.inv /\ q.inside = r.inside
<1>1. \A r \in R : RowShape(r) /\ apps[r] \in Nat \ {0}
  BY DEF PayInv, Tables
<1>2. PICK r \in R : [r EXCEPT !.by = by] = q
  BY DEF Marked
<1>3. RowShape(q) /\ q.by = by /\ q.pay = r.pay /\ q.inv = r.inv /\ q.inside = r.inside
  BY <1>1, <1>2 DEF RowShape
<1>4. Marked(R, by)[q] = apps[CHOOSE x \in R : [x EXCEPT !.by = by] = q]
  BY DEF Marked
<1>5. (CHOOSE x \in R : [x EXCEPT !.by = by] = q) \in R
  BY <1>2
<1> QED
  BY <1>1, <1>3, <1>4, <1>5

\* bouncePaymentInTx takes the live rows of the payment and of the draws on it.
LEMMA BouncePaymentLawful ==
    ASSUME PayInv, NEW p \in Payments, BouncePayment(p)
    PROVE \E e : Lawful(e) /\ Commit(e)
<1>1. PICK e : e = BounceEffect(p)
  OBVIOUS
<1>2. /\ payment[p].kind \in {"payment", "hold"} /\ Posted(p) /\ ~Bounced(p) /\ refund[p] = 0
      /\ Commit(e)
  BY <1>1 DEF BouncePayment, MayBounce, IsKind
<1>3. PICK rows : rows = BounceRows(p)
  OBVIOUS
<1>4. DOMAIN e.bounce = {p} /\ e.bounce[p].at = HeldIn(p)
  <2>1. CASE IsKind(p, {"hold"})
    BY <1>1, <2>1 DEF BounceEffect, Nothing, Only
  <2>2. CASE ~IsKind(p, {"hold"})
    BY <1>1, <2>2 DEF BounceEffect, Nothing, Only
  <2> QED
    BY <2>1, <2>2
<1>5. /\ e.payment = <<>> /\ e.gone = Copies(rows) /\ e.new = Marked(rows, p)
      /\ e.refund = <<>> /\ e.deposit = <<>> /\ e.invoice = <<>>
  BY <1>1, <1>3 DEF BounceEffect, Nothing
<1>6. \A r : r \in rows <=> /\ r \in DOMAIN apps /\ r.by = None
                            /\ r.pay \in IF payment[p].kind = "hold" THEN LiveDraws(p) ELSE {p}
  BY <1>3 DEF BounceRows, LiveApplications, IsKind
<1>7. BouncedAfter(e, p)
  BY <1>4 DEF BouncedAfter, HeldIn, PayInv, Tables, PaymentShape
<1>8. BouncesLawful(e)
  <2>1. ASSUME NEW r \in DOMAIN apps, r.by = None, Owned(r, p) PROVE Taken(e, r)
    <3>1. payment[r.pay].kind \in {"payment", "draw", "memo"} /\ r.pay \in Payments
      BY DEF PayInv, Tables, RowShape, Kinship, IsKind
    <3>2. payment[r.pay].kind = "draw" => payment[payment[r.pay].from].kind = "hold"
      BY <3>1 DEF PayInv, Kinship, IsKind
    <3>3. r \in rows
      BY <1>2, <1>6, <2>1, <3>1, <3>2 DEF Owned, LiveDraws, IsKind, Posted
    <3> QED
      BY <1>5, <3>3 DEF Taken, Copies
  <2> QED
    BY <1>2, <1>4, <1>5, <1>7, <2>1 DEF BouncesLawful, IsKind
<1>9. RowsLawful(e)
  <2>1. rows \subseteq DOMAIN apps
    BY <1>6
  <2>2. ASSUME NEW q \in DOMAIN e.new PROVE NewRowLawful(e, q)
    <3>1. PICK r \in rows : q.pay = r.pay /\ q.inv = r.inv /\ q.inside = r.inside
      BY <1>5, <2>1, <2>2, MarkedRows
    <3>2. RowShape(q) /\ q.by = p /\ e.new[q] \in Nat \ {0}
      BY <1>5, <2>1, <2>2, MarkedRows
    <3>3. /\ payment[r.pay].kind \in {"payment", "draw", "memo"} /\ payment[r.pay].st = "posted"
          /\ r.inside # None => payment[r.inside].kind = "payment"
      BY <1>6 DEF PayInv, Kinship, LiveRowsStand, IsKind, Posted
    <3>4. r.pay = p \/ (payment[r.pay].kind = "draw" /\ payment[r.pay].from = p)
      BY <1>6 DEF LiveDraws, IsKind
    <3>5. \A x : After(e, x) = payment[x]
      BY <1>5 DEF After
    <3> QED
      BY <1>2, <1>7, <3>1, <3>2, <3>3, <3>4, <3>5, PaymentsAssumption DEF NewRowLawful
  <2> QED
    BY <1>5, <1>6, <2>2 DEF RowsLawful, Copies, PayInv, Tables
<1> QED
  BY <1>2, <1>5, <1>8, <1>9, Absent DEF Lawful

\* reapplyBounceForVoidInTx makes the reversed rows live again on what stands.
LEMMA VoidBounceLawful ==
    ASSUME PayInv, NEW p \in Payments, VoidBounce(p)
    PROVE \E e : Lawful(e) /\ Commit(e)
<1>1. PICK e : e = VoidBounceEffect(p)
  OBVIOUS
<1>2. Bounced(p) /\ Commit(e) /\ \A r \in ReversedBy(p) : MayComeBack(r)
  BY <1>1 DEF VoidBounce, MayVoidBounce
<1>3. PICK rows : rows = ReversedBy(p)
  OBVIOUS
<1>4. /\ e.payment = <<>> /\ e.gone = Copies(rows) /\ e.new = Marked(rows, None)
      /\ e.bounce = Only(p, NoBounce)
      /\ e.refund = <<>> /\ e.deposit = <<>> /\ e.invoice = <<>>
  BY <1>1, <1>3 DEF VoidBounceEffect, Nothing
<1>5. \A r : r \in rows <=> r \in DOMAIN apps /\ r.by = p
  BY <1>3 DEF ReversedBy
<1>6. ~BouncedAfter(e, p) /\ \A x \in Payments \ {p} : BouncedAfter(e, x) <=> Bounced(x)
  BY <1>4 DEF BouncedAfter, Bounced, Only, NoBounce
<1>7. BouncesLawful(e)
  BY <1>4, <1>5, <1>6 DEF BouncesLawful, Only, Taken, Copies
<1>8. payment[p].kind \in {"payment", "hold"} /\ payment[p].st = "posted"
  BY <1>2 DEF PayInv, BouncesStand, IsKind, Posted
<1>9. RowsLawful(e)
  <2>1. rows \subseteq DOMAIN apps
    BY <1>5
  <2>2. ASSUME NEW q \in DOMAIN e.new PROVE NewRowLawful(e, q)
    <3>1. PICK r \in rows : q.pay = r.pay /\ q.inv = r.inv /\ q.inside = r.inside
      BY <1>4, <2>1, <2>2, MarkedRows
    <3>2. RowShape(q) /\ q.by = None /\ e.new[q] \in Nat \ {0}
      BY <1>4, <2>1, <2>2, MarkedRows
    <3>3. /\ r.pay \in Payments /\ payment[r.pay].kind \in {"payment", "draw", "memo"}
          /\ r.inside # None => payment[r.inside].kind = "payment" /\ payment[r.inside].st = "posted"
          /\ invoice[r.inv].st = "posted"
      BY <1>2, <1>3, <1>5 DEF PayInv, Tables, RowShape, Kinship, IsKind, MayComeBack, Posted
    <3>4. Owned(r, p)
      BY <1>5, PaymentsAssumption DEF PayInv, BouncesStand
    <3>5. /\ payment[r.pay].st = "posted" /\ ~BouncedAfter(e, r.pay)
          /\ payment[r.pay].kind = "draw" => payment[r.pay].from = p
      <4>1. CASE r.pay = p
        BY <4>1, <1>6, <1>8
      <4>2. CASE r.pay # p
        <5>1. payment[r.pay].kind = "draw" /\ payment[r.pay].from = p /\ payment[r.pay].st = "posted"
          BY <3>4, <4>2 DEF Owned, IsKind, Posted
        <5>2. ~Bounced(r.pay)
          BY <3>3, <5>1 DEF PayInv, BouncesStand, IsKind
        <5> QED
          BY <1>6, <3>3, <4>2, <5>1, <5>2
      <4> QED
        BY <4>1, <4>2
    <3>6. (\A x : After(e, x) = payment[x]) /\ DOMAIN e.invoice = {}
      BY <1>4 DEF After
    <3> QED
      BY <1>6, <1>8, <3>1, <3>2, <3>3, <3>5, <3>6 DEF NewRowLawful
  <2> QED
    BY <1>4, <1>5, <1>6, <2>2 DEF RowsLawful, Copies, PayInv, Tables
<1> QED
  BY <1>2, <1>4, <1>7, <1>9, Absent DEF Lawful

\* A payment that may be voided is posted and unbounced, in no deposit, and no
\* draw on it stays.
LEMMA ReleasableFacts ==
    ASSUME NEW x, Releasable(x)
    PROVE /\ Posted(x) /\ ~Bounced(x) /\ LiveDepositsFor(x) = {}
          /\ payment[x].kind = "hold" => LiveDraws(x) = {}
          /\ payment[x].kind = "draw" => ~Bounced(payment[x].from)
BY DEF Releasable, Free

\* So is the row of one it voids.
LEMMA VoidedLawful ==
    ASSUME PayInv, NEW e, NEW x \in Payments, Releasable(x), payment[x].kind # "memo",
           \A r \in DOMAIN apps : r.by = None /\ (r.pay = x \/ r.inside = x) => Taken(e, r)
    PROVE PaymentLawful(e, x, [payment[x] EXCEPT !.st = "void"])
<1>1. PICK new : new = [payment[x] EXCEPT !.st = "void"]
  OBVIOUS
<1>2. PaymentShape(payment[x]) /\ payment[x].st = "posted"
  BY ReleasableFacts DEF PayInv, Tables, Posted
<1>3. /\ PaymentShape(new) /\ new.kind = payment[x].kind /\ new.kind # "none"
      /\ new.st = "void" /\ new.from = payment[x].from
  BY <1>1, <1>2 DEF PaymentShape
<1>4. new.kind = "draw" => new.from \in Payments /\ IsKind(new.from, {"hold"})
  BY <1>3 DEF PayInv, Kinship, IsKind
<1> QED
  BY <1>1, <1>3, <1>4, ReleasableFacts DEF PaymentLawful

\* releasePaymentForVoidInTx voids the payment and the draws inside it together
\* with their live rows.
LEMMA VoidPaymentLawful ==
    ASSUME PayInv, NEW p \in Payments, VoidPayment(p)
    PROVE \E e : Lawful(e) /\ Commit(e)
<1>1. PICK e : e = VoidPaymentEffect(p)
  OBVIOUS
<1>2. PICK D : D = {p} \cup DrawsInside(p)
  OBVIOUS
<1>3. /\ e.payment = Voided(D) /\ e.gone = Copies(RowsOf(D)) /\ e.new = EmptyBag
      /\ e.bounce = <<>> /\ e.refund = <<>> /\ e.deposit = <<>> /\ e.invoice = <<>>
  BY <1>1, <1>2 DEF VoidPaymentEffect, Nothing
<1>4. D \subseteq Payments /\ \A x \in D : Releasable(x) /\ payment[x].kind # "memo"
  BY <1>2 DEF VoidPayment, MayVoidPayment, IsKind, DrawsInside
<1>5. \A r : r \in RowsOf(D) <=> r \in DOMAIN apps /\ r.by = None /\ (r.pay \in D \/ r.inside \in D)
  BY DEF RowsOf, LiveApplications, CreditsAppliedIn
<1>6. \A r \in RowsOf(D) : Taken(e, r)
  BY <1>3 DEF Taken, Copies
<1>7. PaymentsLawful(e)
  <2>1. ASSUME NEW x \in D PROVE PaymentLawful(e, x, [payment[x] EXCEPT !.st = "void"])
    BY <1>4, <1>5, <1>6, VoidedLawful
  <2> QED
    BY <1>3, <1>4, <2>1 DEF PaymentsLawful, Voided
<1>8. RowsLawful(e)
  BY <1>3, <1>5 DEF RowsLawful, Copies, EmptyBag, SetToBag, PayInv, Tables
<1> QED
  BY <1>1, <1>3, <1>7, <1>8, Absent DEF Lawful, VoidPayment

\* A request names at most one credit, of a positive amount.
LEMMA OneCredit ==
    ASSUME NEW q \in Bodies
    PROVE /\ \A i \in Invoices : q.cash[i] \in Nat /\ q.adj[i] \in Nat
          /\ q.to \in {"clearing", "bank"}
          /\ \/ q.credits = {}
             \/ \E c : /\ q.credits = {c} /\ c.src \in Payments /\ c.inv \in Invoices
                       /\ c.amt \in Nat \ {0}
<1>1. q.cash \in [Invoices -> Amounts \cup {0}] /\ q.adj \in [Invoices -> Adjustments \cup {0}] /\ q.to \in Places
  BY DEF Bodies, Applied
<1>2. \A i \in Invoices : q.cash[i] \in Nat /\ q.adj[i] \in Nat
  <2>1. Amounts \cup {0} \subseteq Nat
    BY PaymentsAssumption DEF Amounts
  <2>2. Adjustments \cup {0} \subseteq Nat
    BY PaymentsAssumption
  <2> QED
    BY <1>1, <2>1, <2>2
<1>3. q.credits \in Credits
  BY DEF Bodies
<1>4. ASSUME q.credits # {}
      PROVE \E c : /\ q.credits = {c} /\ c.src \in Payments /\ c.inv \in Invoices /\ c.amt \in Nat \ {0}
  <2>1. PICK s \in Payments, i \in Invoices, x \in 1 .. MaxAmount : q.credits = {[src |-> s, inv |-> i, amt |-> x]}
    BY <1>3, <1>4 DEF Credits
  <2>2. x \in Nat \ {0}
    BY PaymentsAssumption
  <2>3. PICK c : c = [src |-> s, inv |-> i, amt |-> x]
    OBVIOUS
  <2>4. q.credits = {c} /\ c.src \in Payments /\ c.inv \in Invoices /\ c.amt \in Nat \ {0}
    BY <2>1, <2>2, <2>3
  <2> QED
    BY <2>4
<1> QED
  BY <1>1, <1>2, <1>4, PaymentsAssumption

\* The one credit is the one CreditIn and FromHold speak of.
LEMMA TheOnlyCredit ==
    ASSUME NEW q, NEW c, q.credits = {c}
    PROVE /\ TheCredit(q.credits) = c /\ CreditIn(q.credits) = c.amt
          /\ FromHold(q) = IF IsKind(c.src, {"hold"}) THEN {c} ELSE {}
BY DEF TheCredit, CreditIn, FromHold

\* What a request takes from an invoice includes its credit there.
LEMMA TakenOn ==
    ASSUME NEW q \in Bodies, NEW i \in Invoices
    PROVE /\ On(q, i) \in Nat /\ On(q, i) >= q.cash[i] + q.adj[i]
          /\ (\E c \in q.credits : c.inv = i) => On(q, i) > 0
<1>1. PICK C : C = {c \in q.credits : c.inv = i}
  OBVIOUS
<1>2. q.cash[i] \in Nat /\ q.adj[i] \in Nat /\ On(q, i) = q.cash[i] + q.adj[i] + CreditIn(C)
  BY <1>1, OneCredit DEF On
<1>3. CASE C = {}
  BY <1>1, <1>2, <1>3 DEF CreditIn
<1>4. CASE C # {}
  <2>1. TheCredit(C) \in C
    BY <1>4 DEF TheCredit
  <2>2. TheCredit(C).amt \in Nat \ {0}
    BY <1>1, <2>1, OneCredit
  <2> QED
    BY <1>2, <1>4, <2>2 DEF CreditIn
<1> QED
  BY <1>3, <1>4

\* An invoice a request settles something on is posted.
LEMMA SettledInvoices ==
    ASSUME PayInv, NEW q \in Bodies, NEW gone, InvoicesTake(q, Moved(invoice, gone, EmptyBag)),
           NEW i \in Invoices, q.cash[i] + q.adj[i] > 0 \/ \E c \in q.credits : c.inv = i
    PROVE invoice[i].st = "posted"
<1>1. On(q, i) > 0 /\ On(q, i) \in Nat
  BY TakenOn, OneCredit
<1>2. PICK inv : inv = Moved(invoice, gone, EmptyBag)[i]
  OBVIOUS
<1>3. inv.st = invoice[i].st
  BY <1>2 DEF Moved, PayInv, Tables
<1>4. On(q, i) <= PayableCents(inv)
  BY <1>2 DEF InvoicesTake
<1>5. ASSUME inv.st # "posted" PROVE FALSE
  BY <1>1, <1>4, <1>5 DEF PayableCents
<1> QED
  BY <1>3, <1>5

\* Each row a settlement inserts is the receipt's own, on a posted invoice, or
\* the credit's: through the draw if its source is a held deposit, else with the
\* receipt as the payment around it.
LEMMA SettlementRows ==
    ASSUME NEW p \in Payments, NEW q \in Bodies, NEW d \in DrawIds(p, FromHold(q) # {}),
           NEW r \in DOMAIN Settlement(p, q, d)
    PROVE /\ Settlement(p, q, d)[r] = 1 /\ RowShape(r) /\ r.by = None
          /\ \/ /\ r.pay = p /\ r.inside = None
                /\ q.cash[r.inv] + q.adj[r.inv] > 0
             \/ \E c \in q.credits :
                   /\ r.inv = c.inv
                   /\ IF IsKind(c.src, {"hold"}) THEN r.pay = d /\ r.inside = None
                                                 ELSE r.pay = c.src /\ r.inside = p
<1> DEFINE own(i) == Row(p, i, q.cash[i], q.adj[i], FALSE, None)
           credited(c) == IF c \in FromHold(q) THEN Row(d, c.inv, c.amt, 0, FALSE, None)
                                               ELSE Row(c.src, c.inv, c.amt, 0, TRUE, p)
           owns == {own(i) : i \in {j \in Invoices : q.cash[j] + q.adj[j] > 0}}
           rows == owns \cup {credited(c) : c \in q.credits}
<1>1. Settlement(p, q, d) = SetToBag(rows)
  BY DEF Settlement
<1>2. Settlement(p, q, d)[r] = 1 /\ r \in rows
  BY <1>1 DEF SetToBag
<1>3. d \in Payments
  BY DEF DrawIds
<1>4. CASE r \in owns
  <2>1. PICK i \in Invoices : r = own(i) /\ q.cash[i] + q.adj[i] > 0
    BY <1>4
  <2>2. RowShape(r) /\ r.by = None /\ r.pay = p /\ r.inv = i /\ r.inside = None
    BY <2>1 DEF Row, RowShape
  <2> QED
    BY <1>2, <2>1, <2>2
<1>5. CASE \E c \in q.credits : r = credited(c)
  <2>1. PICK c \in q.credits : r = credited(c)
    BY <1>5
  <2>2. c.src \in Payments /\ c.inv \in Invoices
    BY <2>1, OneCredit
  <2>3. c \in FromHold(q) <=> IsKind(c.src, {"hold"})
    BY <2>1 DEF FromHold
  <2>4. CASE IsKind(c.src, {"hold"})
    <3>1. RowShape(r) /\ r.by = None /\ r.pay = d /\ r.inv = c.inv /\ r.inside = None
      BY <1>3, <2>1, <2>2, <2>3, <2>4 DEF Row, RowShape
    <3> QED
      BY <1>2, <2>1, <2>4, <3>1
  <2>5. CASE ~IsKind(c.src, {"hold"})
    <3>1. RowShape(r) /\ r.by = None /\ r.pay = c.src /\ r.inv = c.inv /\ r.inside = p
      BY <2>1, <2>2, <2>3, <2>5 DEF Row, RowShape
    <3> QED
      BY <1>2, <2>1, <2>5, <3>1
  <2> QED
    BY <2>4, <2>5
<1> QED
  BY <1>2, <1>4, <1>5

\* A receipt settled on an id that is unused, or on one that is posted, unbounced
\* and undeposited while its rows and the draws made inside it are set aside.
LEMMA SettlementLawful ==
    ASSUME PayInv, NEW p \in Payments, NEW q \in Bodies, NEW d,
           NEW gone \in SUBSET DOMAIN apps, NEW undrawn \in SUBSET Payments, NEW e,
           Settles(p, q, d, gone, undrawn),
           payment[p].kind \in {"none", "payment"}, ~Bounced(p), LiveDepositsFor(p) = {},
           \A c \in q.credits : c.src # p,
           \A x \in undrawn : IsKind(x, {"draw"}) /\ Releasable(x),
           \A r \in gone : r.by = None,
           \A r \in DOMAIN apps : r.by = None /\ r.pay \in undrawn => r \in gone,
           e.gone = Copies(gone), e.new = Settlement(p, q, d),
           e.payment = SettleEffect(p, q, d, gone, undrawn).payment,
           e.bounce = <<>>, e.refund = <<>>, e.deposit = <<>>, e.invoice = <<>>
    PROVE Lawful(e)
<1>1. PICK receipt : receipt = NewPayment("payment", q.amount, Total(q.adj), q.to, None, None)
  OBVIOUS
<1>2. PICK draw : draw = NewPayment("draw", CreditIn(q.credits), 0, "bank", TheCredit(q.credits).src, p)
  OBVIOUS
<1>3. PaymentShape(receipt) /\ receipt.kind = "payment" /\ receipt.st = "posted"
  BY <1>1, OneCredit, NewPaymentShape DEF Kinds
<1>4. PaymentShape(draw) /\ draw.kind = "draw" /\ draw.st = "posted" /\ draw.from = TheCredit(q.credits).src
  BY <1>2, NewPaymentShape DEF Kinds
<1>5. /\ d \in DrawIds(p, FromHold(q) # {}) /\ d \in Payments
      /\ d # p => Unused(d) /\ FromHold(q) # {}
      /\ d = p => FromHold(q) = {}
  BY DEF Settles, DrawIds
<1>6. p \notin undrawn /\ d \notin undrawn
  BY <1>5 DEF IsKind, Unused
<1>7. /\ DOMAIN e.payment = {p, d} \cup undrawn
      /\ e.payment[p] = receipt /\ (d # p => e.payment[d] = draw)
      /\ \A x \in undrawn : e.payment[x] = [payment[x] EXCEPT !.st = "void"]
  <2>1. e.payment = Over(Only(p, receipt), Over([x \in {d} \ {p} |-> draw], Voided(undrawn)))
    BY <1>1, <1>2 DEF SettleEffect, Nothing
  <2> QED
    BY <1>6, <2>1 DEF Over, Only, Voided
\* The source of a credit is posted, unbounced and left as it is.
<1>8. ASSUME NEW c \in q.credits
      PROVE /\ c.src \in Payments /\ payment[c.src].kind \in {"payment", "hold", "memo"}
            /\ payment[c.src].st = "posted" /\ ~Bounced(c.src) /\ After(e, c.src) = payment[c.src]
  <2>1. c.src \in Payments /\ c.amt \in Nat \ {0}
    BY OneCredit
  <2>2. payment[c.src].kind \in {"payment", "hold", "memo"} /\ ~Bounced(c.src) /\ c.amt <= CreditLeft(c.src, gone, undrawn)
    BY DEF Settles, SourcesHold, IsKind
  <2>3. payment[c.src].st = "posted"
    BY <2>1, <2>2 DEF CreditLeft, Posted
  <2>4. c.src \notin {p, d} \cup undrawn
    BY <1>5, <2>2 DEF IsKind, Unused
  <2> QED
    BY <1>7, <2>1, <2>2, <2>3, <2>4 DEF After
<1>9. ASSUME d # p
      PROVE \E c \in q.credits : draw.from = c.src /\ payment[c.src].kind = "hold"
  <2>1. PICK c : q.credits = {c}
    BY <1>5, <1>9, OneCredit DEF FromHold
  <2>2. IsKind(c.src, {"hold"}) /\ TheCredit(q.credits) = c
    BY <1>5, <1>9, <2>1, TheOnlyCredit
  <2> QED
    BY <1>4, <2>1, <2>2 DEF IsKind
<1>10. PaymentsLawful(e)
  <2>1. PaymentLawful(e, p, receipt)
    BY <1>3 DEF PaymentLawful
  <2>2. ASSUME d # p PROVE PaymentLawful(e, d, draw)
    BY <1>4, <1>5, <1>8, <1>9, <2>2, UnusedIds DEF PaymentLawful, Unused, IsKind
  <2>3. ASSUME NEW x \in undrawn PROVE PaymentLawful(e, x, [payment[x] EXCEPT !.st = "void"])
    <3>1. payment[x].kind # "memo" /\ x # None /\ payment[x].kind # "payment"
      BY PaymentsAssumption DEF IsKind
    <3>2. ASSUME NEW r \in DOMAIN apps, r.by = None, r.pay = x \/ r.inside = x
          PROVE Taken(e, r)
      <4>1. r.inside # x
        BY <3>1 DEF PayInv, Kinship, IsKind
      <4> QED
        BY <3>2, <4>1 DEF Taken, Copies
    <3> QED
      BY <3>1, <3>2, VoidedLawful
  <2> QED
    BY <1>5, <1>7, <2>1, <2>2, <2>3 DEF PaymentsLawful
<1>11. RowsLawful(e)
  <2>1. ASSUME NEW r \in DOMAIN e.new PROVE NewRowLawful(e, r)
    <3>1. /\ e.new[r] = 1 /\ RowShape(r) /\ r.by = None
          /\ \/ /\ r.pay = p /\ r.inside = None
                /\ q.cash[r.inv] + q.adj[r.inv] > 0
             \/ \E c \in q.credits :
                   /\ r.inv = c.inv
                   /\ IF IsKind(c.src, {"hold"}) THEN r.pay = d /\ r.inside = None
                                                 ELSE r.pay = c.src /\ r.inside = p
      BY <1>5, <2>1, SettlementRows
    <3>2. invoice[r.inv].st = "posted"
      <4>1. r.inv \in Invoices
        BY <3>1 DEF RowShape
      <4>2. q.cash[r.inv] + q.adj[r.inv] > 0 \/ \E c \in q.credits : c.inv = r.inv
        BY <3>1
      <4> QED
        BY <4>1, <4>2, SettledInvoices DEF Settles
    <3>3. After(e, p) = receipt /\ (\A x : BouncedAfter(e, x) <=> Bounced(x)) /\ DOMAIN e.invoice = {}
      BY <1>7 DEF After, BouncedAfter, Bounced
    <3>4. CASE r.pay = p /\ r.inside = None
      BY <1>3, <3>1, <3>2, <3>3, <3>4 DEF NewRowLawful
    <3>5. CASE \E c \in q.credits : IsKind(c.src, {"hold"}) /\ r.pay = d /\ r.inside = None
      <4>1. d # p
        BY <1>5, <3>5 DEF FromHold
      <4>2. After(e, d) = draw /\ ~Bounced(d)
        BY <1>5, <1>7, <4>1, UnusedIds DEF After
      <4>3. PICK c \in q.credits : draw.from = c.src
        BY <1>9, <4>1
      <4> QED
        BY <1>4, <1>8, <3>1, <3>2, <3>3, <3>5, <4>2, <4>3 DEF NewRowLawful
    <3>6. CASE \E c \in q.credits : ~IsKind(c.src, {"hold"}) /\ r.pay = c.src /\ r.inside = p
      BY <1>3, <1>8, <3>1, <3>2, <3>3, <3>6 DEF NewRowLawful, IsKind
    <3> QED
      BY <3>1, <3>4, <3>5, <3>6
  <2> QED
    BY <2>1 DEF RowsLawful, Copies, PayInv, Tables
<1> QED
  BY <1>10, <1>11, Absent DEF Lawful

\* receivePaymentInTx inserts a receipt nothing refers to yet.
LEMMA ReceiveLawful ==
    ASSUME PayInv, NEW p \in Payments, NEW q \in Bodies, NEW d, Receive(p, q, d)
    PROVE \E e : Lawful(e) /\ Commit(e)
<1>1. PICK e : e = SettleEffect(p, q, d, {}, {})
  OBVIOUS
<1>2. /\ e.gone = Copies({}) /\ e.new = Settlement(p, q, d)
      /\ e.bounce = <<>> /\ e.refund = <<>> /\ e.deposit = <<>> /\ e.invoice = <<>>
  BY <1>1 DEF SettleEffect, Nothing
<1>3. Settles(p, q, d, {}, {}) /\ Commit(e) /\ payment[p].kind = "none"
  BY <1>1 DEF Receive, Unused
<1>4. ~Bounced(p) /\ LiveDepositsFor(p) = {}
  BY <1>3, UnusedIds DEF Unused
<1>5. \A c \in q.credits : c.src # p
  BY <1>3 DEF Settles, SourcesHold, IsKind
<1>6. Lawful(e)
  BY <1>1, <1>2, <1>3, <1>4, <1>5, SettlementLawful
<1> QED
  BY <1>3, <1>6

\* updatePayment writes an undeposited, unbounced receipt again over what it
\* has set aside.
LEMMA UpdatePaymentLawful ==
    ASSUME PayInv, NEW p \in Payments, NEW q \in Bodies, NEW d, UpdatePayment(p, q, d)
    PROVE \E e : Lawful(e) /\ Commit(e)
<1>1. PICK gone : gone = SetAside(p)
  OBVIOUS
<1>2. PICK undrawn : undrawn = DrawsInside(p)
  OBVIOUS
<1>3. PICK e : e = [SettleEffect(p, q, d, gone, undrawn) EXCEPT
                       !.ar = @ + payment[p].total + payment[p].adj,
                       !.clearing = @ - InClearing(payment[p].to, payment[p].total)]
  OBVIOUS
<1>4. Settles(p, q, d, gone, undrawn) /\ Commit(e)
  BY <1>1, <1>2, <1>3 DEF UpdatePayment, MayUpdatePayment, UpdatePaymentEffect
<1>5. /\ e.gone = Copies(gone) /\ e.new = Settlement(p, q, d)
      /\ e.payment = SettleEffect(p, q, d, gone, undrawn).payment
      /\ e.bounce = <<>> /\ e.refund = <<>> /\ e.deposit = <<>> /\ e.invoice = <<>>
  BY <1>3 DEF SettleEffect, Nothing
<1>6. /\ payment[p].kind = "payment" /\ ~Bounced(p) /\ LiveDepositsFor(p) = {}
      /\ \A c \in q.credits : c.src # p
      /\ \A x \in undrawn : Releasable(x)
  BY <1>2 DEF UpdatePayment, MayUpdatePayment, UpdatePaymentEffect, Free, IsKind
<1>7. undrawn \subseteq Payments /\ \A x \in undrawn : IsKind(x, {"draw"})
  BY <1>2 DEF DrawsInside
<1>8. gone \subseteq DOMAIN apps /\ \A r \in gone : r.by = None
  BY <1>1 DEF SetAside, RowsOf, LiveApplications, CreditsAppliedIn
<1>9. \A r \in DOMAIN apps : r.by = None /\ r.pay \in undrawn => r \in gone
  BY <1>1, <1>2 DEF SetAside, RowsOf, LiveApplications
<1>10. Lawful(e)
  BY <1>4, <1>5, <1>6, <1>7, <1>8, <1>9, SettlementLawful
<1> QED
  BY <1>4, <1>10

\* Every step of the next-state relation commits a lawful effect.
LEMMA StepLawful ==
    ASSUME PayInv, PaymentsNext
    PROVE \E e : Lawful(e) /\ Commit(e)
<1>1. CASE ReceiptStep
  <2>1. CASE \E p \in Payments, q \in Bodies : \E d \in DrawIds(p, FromHold(q) # {}) : Receive(p, q, d)
    BY <2>1, ReceiveLawful
  <2>2. CASE \E p \in Payments, q \in Bodies : \E d \in DrawIds(p, FromHold(q) # {}) : UpdatePayment(p, q, d)
    BY <2>2, UpdatePaymentLawful
  <2>3. CASE \E p \in Payments : VoidPayment(p)
    BY <2>3, VoidPaymentLawful
  <2> QED
    BY <1>1, <2>1, <2>2, <2>3 DEF ReceiptStep, OfKind
<1>2. CASE HoldStep
  BY <1>2, ReceiveHoldLawful, UpdateHoldLawful DEF HoldStep
<1>3. CASE CreditStep
  <2>1. Amounts \subseteq Int
    BY PaymentsAssumption DEF Amounts
  <2> QED
    BY <1>3, <2>1, ApplyCreditLawful, UnapplyLawful DEF CreditStep
<1>4. CASE BounceStep
  BY <1>4, BouncePaymentLawful, VoidBounceLawful DEF BounceStep
<1>5. CASE MemoStep
  <2>1. Amounts \subseteq Int
    BY PaymentsAssumption DEF Amounts
  <2> QED
    BY <1>5, <2>1, CreateMemoLawful, UpdateMemoLawful, VoidMemoLawful DEF MemoStep
<1>6. CASE RefundStep
  BY <1>6, RefundsLawfulSteps DEF RefundStep
<1>7. CASE DepositStep
  <2>1. PICK d \in Deposits : \/ \E items \in SUBSET Payments : CreateDeposit(d, items) \/ UpdateDeposit(d, items)
                              \/ VoidDeposit(d)
    BY <1>7 DEF DepositStep
  <2>2. PICK items \in SUBSET Payments : CreateDeposit(d, items) \/ UpdateDeposit(d, items) \/ VoidDeposit(d)
    BY <2>1
  <2> QED
    BY <2>2, DepositsLawfulSteps
<1>8. CASE InvoiceStep
  BY <1>8, InvoicesLawfulSteps DEF InvoiceStep
<1> QED
  BY <1>1, <1>2, <1>3, <1>4, <1>5, <1>6, <1>7, <1>8 DEF PaymentsNext

\* The invariant holds when no payment has been received yet.
LEMMA InitInv == PaymentsInit => PayInv
<1> SUFFICES ASSUME PaymentsInit PROVE PayInv
  OBVIOUS
<1>1. /\ \A p \in Payments : PaymentShape(payment[p]) /\ payment[p].kind = "none" /\ ~Bounced(p)
      /\ DOMAIN apps = {}
  BY DEF PaymentsInit, NoPayment, NoBounce, PaymentShape, Kinds, Bounced, EmptyBag, SetToBag
<1>2. Tables
  BY <1>1 DEF PaymentsInit, Tables, DepositRow
<1>3. Kinship /\ BouncesStand /\ LiveRowsStand
  BY <1>1 DEF Kinship, BouncesStand, LiveRowsStand, IsKind
<1>4. DepositsHoldPostedItems
  BY DEF PaymentsInit, DepositsHoldPostedItems
<1> QED
  BY <1>2, <1>3, <1>4 DEF PayInv

\* The invariant is inductive.
LEMMA NextInv ==
    ASSUME PayInv, [PaymentsNext]_vars
    PROVE PayInv'
<1>1. CASE PaymentsNext
  <2>1. PICK e : Lawful(e) /\ Commit(e)
    BY <1>1, StepLawful
  <2> QED
    BY <2>1, LawfulKeepsInv
<1>2. CASE UNCHANGED vars
  BY <1>2 DEF vars, PayInv, Tables, Kinship, BouncesStand, Owned, LiveRowsStand, DepositsHoldPostedItems,
              IsKind, Posted, Bounced, LiveDepositsFor
<1> QED
  BY <1>1, <1>2

\* PayInv holds in every reachable state.
THEOREM PaymentsInvariant == PaymentsSpec => []PayInv
<1>1. PaymentsInit => PayInv
  BY InitInv
<1>2. PayInv /\ [PaymentsNext]_vars => PayInv'
  BY NextInv
<1> QED
  BY <1>1, <1>2, PTL DEF PaymentsSpec

\* A live application stands on a posted invoice and on posted, unbounced money:
\* its source, the held deposit behind a draw, the payment around it
\* (releasePaymentForVoidInTx, reapplyBounceForVoidInTx, assertInvoiceUnapplied).
THEOREM RowsStand == PaymentsSpec => []LiveRowsStand
<1>1. PayInv => LiveRowsStand
  BY DEF PayInv
<1> QED
  BY <1>1, PaymentsInvariant, PTL

\* Each item of a posted deposit is posted, went to Payments Clearing and is in
\* no other posted deposit (assertNotDeposited, lockAndValidateSources).
THEOREM DepositedOnce == PaymentsSpec => []DepositsHoldPostedItems
<1>1. PayInv => DepositsHoldPostedItems
  BY DEF PayInv
<1> QED
  BY <1>1, PaymentsInvariant, PTL

\* While a payment is bounced its row, its refunds, its deposit, the draws on it
\* and the rows its bounce reversed stay as they are (409 PAYMENT_BOUNCED).
THEOREM BouncedStays == PaymentsSpec => BouncedIsReadOnly
<1> DEFINE step == \A p \in Payments : Bounced(p) /\ Bounced(p)' =>
                      /\ payment'[p] = payment[p] /\ refund'[p] = refund[p]
                      /\ LiveDepositsFor(p)' = LiveDepositsFor(p) /\ LiveDraws(p)' = LiveDraws(p)
                      /\ Reversal(p)' = Reversal(p)
<1>1. PayInv /\ [PaymentsNext]_vars => [step]_vars
  <2> SUFFICES ASSUME PayInv, PaymentsNext, NEW p \in Payments, Bounced(p), Bounced(p)'
               PROVE Untouched(p)
    BY DEF Untouched
  <2>1. PICK e : Lawful(e) /\ Commit(e)
    BY StepLawful
  <2> QED
    BY <2>1, LawfulReadOnly
<1> QED
  BY <1>1, PaymentsInvariant, PTL DEF PaymentsSpec, BouncedIsReadOnly

-----------------------------------------------------------------------------
(* Sums over bags of rows.                                                 *)

\* The sum of V[r] over the copies of the rows of a bag.
Weigh(A, V) == SumOn([r \in DOMAIN A |-> A[r] * V[r]], DOMAIN A)
FiniteBag(A) == IsFiniteSet(DOMAIN A) /\ \A r \in DOMAIN A : A[r] \in Nat \ {0}
Times(A, r) == IF r \in DOMAIN A THEN A[r] ELSE 0
WithinBag(G, A) == DOMAIN G \subseteq DOMAIN A /\ \A r \in DOMAIN G : G[r] <= A[r]

LEMMA Product == \A m, n \in Int : m * n \in Int
OBVIOUS

LEMMA WeighOver ==
    ASSUME NEW A, FiniteBag(A), NEW D, IsFiniteSet(D), DOMAIN A \subseteq D,
           NEW V, \A r \in D : V[r] \in Int,
           NEW w, \A r \in D : w[r] = Times(A, r) * V[r]
    PROVE  /\ SumOn(w, D) = Weigh(A, V) /\ Weigh(A, V) \in Int
           /\ \A r \in D : w[r] \in Int
<1>1. PICK f : f = [r \in DOMAIN A |-> A[r] * V[r]]
  OBVIOUS
<1>2. \A r \in DOMAIN A : A[r] \in Int /\ V[r] \in Int
  BY DEF FiniteBag
<1>3. \A r \in DOMAIN A : f[r] \in Int
  BY <1>1, <1>2, Product
<1>4. \A r \in DOMAIN A : w[r] = f[r]
  BY <1>1 DEF Times
<1>5. \A r \in D \ DOMAIN A : w[r] = 0
  BY DEF Times
<1>6. SumOn(w, D) = SumOn(f, DOMAIN A)
  BY <1>3, <1>4, <1>5, SumOnPadded
<1>7. Weigh(A, V) = SumOn(f, DOMAIN A)
  BY <1>1 DEF Weigh
<1>8. IsFiniteSet(DOMAIN A)
  BY DEF FiniteBag
<1>9. Weigh(A, V) \in Int
  BY <1>3, <1>7, <1>8, SumOnType
<1> QED
  BY <1>3, <1>4, <1>5, <1>6, <1>7, <1>9

LEMMA Distributes ==
    \A a, g, n, v \in Int : (a - g + n) * v = a * v - g * v + n * v
OBVIOUS

\* The bag after rows are taken away and added.
LEMMA BagAfter ==
    ASSUME NEW A, FiniteBag(A), NEW G, FiniteBag(G), WithinBag(G, A), NEW N, FiniteBag(N),
           NEW B, B = (A (-) G) (+) N
    PROVE  /\ FiniteBag(B) /\ DOMAIN B \subseteq DOMAIN A \cup DOMAIN N
           /\ \A r : Times(B, r) = Times(A, r) - Times(G, r) + Times(N, r)
<1>1. PICK L : L = A (-) G
  OBVIOUS
<1>2. /\ \A r \in DOMAIN A : A[r] \in Nat \ {0}
      /\ \A r \in DOMAIN G : r \in DOMAIN A /\ G[r] \in Nat \ {0} /\ G[r] <= A[r]
      /\ \A r \in DOMAIN N : N[r] \in Nat \ {0}
  BY DEF FiniteBag, WithinBag
<1>3. /\ DOMAIN L \subseteq DOMAIN A
      /\ \A r \in DOMAIN L : L[r] \in Nat \ {0}
      /\ \A r : Times(L, r) = Times(A, r) - Times(G, r)
  BY <1>1, <1>2 DEF (-), Times
<1>4. B = L (+) N
  BY <1>1
<1>5. /\ DOMAIN B = DOMAIN L \cup DOMAIN N
      /\ \A r \in DOMAIN B : B[r] = Times(L, r) + Times(N, r)
  BY <1>4 DEF (+), Times
<1>6. \A r \in DOMAIN B : B[r] \in Nat \ {0}
  BY <1>2, <1>3, <1>5 DEF Times
<1>7. \A r : Times(L, r) \in Int /\ Times(N, r) \in Int /\ Times(A, r) \in Int /\ Times(G, r) \in Int
  BY <1>2, <1>3 DEF Times
<1>8. \A r : Times(B, r) = Times(L, r) + Times(N, r)
  BY <1>5, <1>7 DEF Times
<1>9. DOMAIN B \subseteq DOMAIN A \cup DOMAIN N
  BY <1>3, <1>5
<1>10. IsFiniteSet(DOMAIN A \cup DOMAIN N)
  BY FS_Union DEF FiniteBag
<1>11. IsFiniteSet(DOMAIN B)
  BY <1>9, <1>10, FS_Subset
<1> QED
  BY <1>3, <1>6, <1>7, <1>8, <1>9, <1>11 DEF FiniteBag

LEMMA WeighAfter ==
    ASSUME NEW A, FiniteBag(A), NEW G, FiniteBag(G), WithinBag(G, A), NEW N, FiniteBag(N),
           NEW B, B = (A (-) G) (+) N,
           NEW V, \A r \in DOMAIN A \cup DOMAIN N : V[r] \in Int
    PROVE  /\ Weigh(B, V) = Weigh(A, V) - Weigh(G, V) + Weigh(N, V)
           /\ Weigh(A, V) \in Int /\ Weigh(G, V) \in Int /\ Weigh(N, V) \in Int
<1>1. PICK D : D = DOMAIN A \cup DOMAIN N
  OBVIOUS
<1>2. /\ FiniteBag(B) /\ DOMAIN B \subseteq D
      /\ \A r : Times(B, r) = Times(A, r) - Times(G, r) + Times(N, r)
  BY <1>1, BagAfter
<1>3. IsFiniteSet(D) /\ DOMAIN A \subseteq D /\ DOMAIN N \subseteq D /\ DOMAIN G \subseteq D
  BY <1>1, FS_Union DEF FiniteBag, WithinBag
<1>4. \A r \in D : V[r] \in Int
  BY <1>1
<1>5. PICK a, g, n, b : /\ a = [r \in D |-> Times(A, r) * V[r]]
                        /\ g = [r \in D |-> Times(G, r) * V[r]]
                        /\ n = [r \in D |-> Times(N, r) * V[r]]
                        /\ b = [r \in D |-> Times(B, r) * V[r]]
  OBVIOUS
<1>6. /\ \A r \in D : a[r] = Times(A, r) * V[r]
      /\ \A r \in D : g[r] = Times(G, r) * V[r]
      /\ \A r \in D : n[r] = Times(N, r) * V[r]
      /\ \A r \in D : b[r] = Times(B, r) * V[r]
  BY <1>5
<1>7. /\ SumOn(a, D) = Weigh(A, V) /\ Weigh(A, V) \in Int /\ \A r \in D : a[r] \in Int
      /\ SumOn(g, D) = Weigh(G, V) /\ Weigh(G, V) \in Int /\ \A r \in D : g[r] \in Int
      /\ SumOn(n, D) = Weigh(N, V) /\ Weigh(N, V) \in Int /\ \A r \in D : n[r] \in Int
      /\ SumOn(b, D) = Weigh(B, V)
  <2>1. SumOn(a, D) = Weigh(A, V) /\ Weigh(A, V) \in Int /\ \A r \in D : a[r] \in Int
    BY <1>3, <1>4, <1>6, WeighOver
  <2>2. SumOn(g, D) = Weigh(G, V) /\ Weigh(G, V) \in Int /\ \A r \in D : g[r] \in Int
    BY <1>3, <1>4, <1>6, WeighOver
  <2>3. SumOn(n, D) = Weigh(N, V) /\ Weigh(N, V) \in Int /\ \A r \in D : n[r] \in Int
    BY <1>3, <1>4, <1>6, WeighOver
  <2>4. SumOn(b, D) = Weigh(B, V)
    BY <1>2, <1>3, <1>4, <1>6, WeighOver
  <2> QED
    BY <2>1, <2>2, <2>3, <2>4
<1>8. \A r : Times(A, r) \in Int /\ Times(G, r) \in Int /\ Times(N, r) \in Int
  BY DEF FiniteBag, Times
<1>9. \A r \in D : b[r] = a[r] - g[r] + n[r]
  BY <1>2, <1>4, <1>6, <1>8, Distributes
<1>10. PICK m : m = [r \in D |-> a[r] - g[r]]
  OBVIOUS
<1>11. \A r \in D : a[r] \in Int /\ g[r] \in Int /\ m[r] = a[r] - g[r]
  BY <1>7, <1>10
<1>12. SumOn(m, D) = SumOn(a, D) - SumOn(g, D)
  BY <1>3, <1>11, SumOnMinus
<1>13. \A r \in D : m[r] \in Int /\ n[r] \in Int /\ b[r] = m[r] + n[r]
  BY <1>7, <1>9, <1>11
<1>14. SumOn(b, D) = SumOn(m, D) + SumOn(n, D)
  BY <1>3, <1>13, SumOnPlus
<1> QED
  BY <1>7, <1>12, <1>14

LEMMA WeighNone == ASSUME NEW V PROVE FiniteBag(EmptyBag) /\ Weigh(EmptyBag, V) = 0
<1>1. DOMAIN EmptyBag = {}
  BY DEF EmptyBag, SetToBag
<1> QED
  BY <1>1, SumOnEmpty, FS_EmptySet DEF Weigh, FiniteBag

\* The rows that weigh nothing can be left out.
LEMMA WeighPart ==
    ASSUME NEW A, FiniteBag(A), NEW R \in SUBSET DOMAIN A, NEW V, \A r \in R : V[r] \in Int,
           \A r \in DOMAIN A \ R : V[r] = 0, NEW f, \A r \in R : f[r] = A[r] * V[r]
    PROVE  Weigh(A, V) = SumOn(f, R)
<1>1. PICK g : g = [r \in DOMAIN A |-> A[r] * V[r]]
  OBVIOUS
<1>2. \A r \in DOMAIN A : A[r] \in Int
  BY DEF FiniteBag
<1>3. \A r \in R : f[r] \in Int /\ g[r] = f[r]
  BY <1>1, <1>2, Product
<1>4. \A r \in DOMAIN A \ R : g[r] = 0
  BY <1>1, <1>2
<1>5. IsFiniteSet(DOMAIN A)
  BY DEF FiniteBag
<1>6. SumOn(g, DOMAIN A) = SumOn(f, R)
  BY <1>3, <1>4, <1>5, SumOnPadded
<1> QED
  BY <1>1, <1>6 DEF Weigh

LEMMA NatProduct == \A m, n \in Nat : m * n \in Nat
OBVIOUS

LEMMA WeighNat ==
    ASSUME NEW A, FiniteBag(A), NEW V, \A r \in DOMAIN A : V[r] \in Nat
    PROVE  Weigh(A, V) \in Nat
<1>1. PICK g : g = [r \in DOMAIN A |-> A[r] * V[r]]
  OBVIOUS
<1>2. \A r \in DOMAIN A : g[r] \in Nat
  BY <1>1, NatProduct DEF FiniteBag
<1>3. SumOn(g, DOMAIN A) \in Nat
  BY <1>2, SumOnNonneg DEF FiniteBag
<1> QED
  BY <1>1, <1>3 DEF Weigh

LEMMA TimesMore == \A m \in Nat, x, y \in Int : x <= y => m * x <= m * y
OBVIOUS

LEMMA WeighMore ==
    ASSUME NEW A, FiniteBag(A), NEW V, NEW W,
           \A r \in DOMAIN A : V[r] \in Int /\ W[r] \in Int /\ V[r] <= W[r]
    PROVE  Weigh(A, V) <= Weigh(A, W)
<1>1. PICK f, g : /\ f = [r \in DOMAIN A |-> A[r] * V[r]]
                  /\ g = [r \in DOMAIN A |-> A[r] * W[r]]
  OBVIOUS
<1>2. \A r \in DOMAIN A : A[r] \in Nat /\ A[r] \in Int
  BY DEF FiniteBag
<1>3. \A r \in DOMAIN A : f[r] \in Int /\ g[r] \in Int /\ f[r] <= g[r]
  BY <1>1, <1>2, Product, TimesMore
<1>4. SumOn(f, DOMAIN A) <= SumOn(g, DOMAIN A)
  BY <1>3, SumOnMonotone DEF FiniteBag
<1> QED
  BY <1>1, <1>4 DEF Weigh

LEMMA WeighSame ==
    ASSUME NEW A, FiniteBag(A), NEW V, NEW W, \A r \in DOMAIN A : V[r] \in Int /\ W[r] = V[r]
    PROVE  Weigh(A, W) = Weigh(A, V)
<1>1. PICK f, g : /\ f = [r \in DOMAIN A |-> A[r] * V[r]]
                  /\ g = [r \in DOMAIN A |-> A[r] * W[r]]
  OBVIOUS
<1>2. \A r \in DOMAIN A : A[r] \in Int
  BY DEF FiniteBag
<1>3. \A r \in DOMAIN A : f[r] \in Int /\ g[r] = f[r]
  BY <1>1, <1>2, Product
<1>4. SumOn(g, DOMAIN A) = SumOn(f, DOMAIN A)
  BY <1>3, SumOnSame DEF FiniteBag
<1> QED
  BY <1>1, <1>4 DEF Weigh

\* A bag of a set weighs what the elements do.
LEMMA WeighSet ==
    ASSUME NEW S, IsFiniteSet(S), NEW V, \A r \in S : V[r] \in Int
    PROVE  FiniteBag(SetToBag(S)) /\ Weigh(SetToBag(S), V) = SumOn(V, S)
<1>1. PICK A : A = SetToBag(S)
  OBVIOUS
<1>2. DOMAIN A = S /\ \A r \in S : A[r] = 1
  BY <1>1 DEF SetToBag
<1>3. PICK f : f = [r \in DOMAIN A |-> A[r] * V[r]]
  OBVIOUS
<1>4. \A r \in S : V[r] \in Int /\ f[r] = V[r]
  BY <1>2, <1>3
<1>5. SumOn(f, S) = SumOn(V, S)
  BY <1>4, SumOnSame
<1>6. FiniteBag(A)
  BY <1>2 DEF FiniteBag
<1> QED
  BY <1>1, <1>2, <1>3, <1>5, <1>6 DEF Weigh

-----------------------------------------------------------------------------
(* The sums of Payments.                                                   *)

\* What a row weighs on an invoice it settles, against the payment it comes
\* from, and the discount or write-off it takes.
OnInvoice(i) == [r \in Application |-> IF r.inv = i /\ r.by = None THEN r.amt + r.adj ELSE 0]
CashFrom(p) == [r \in Application |-> IF r.pay = p THEN r.amt ELSE 0]
Typed(A) == FiniteBag(A) /\ DOMAIN A \subseteq Application

LEMMA Amounts0 ==
    \A r \in Application : /\ r.amt \in Nat /\ r.adj \in Nat /\ r.pay \in Payments /\ r.inv \in Invoices
                           /\ r.later \in BOOLEAN /\ r.inside \in Payments \cup {None}
                           /\ r.by \in Payments \cup {None}
BY DEF Application

LEMMA WeightsAreNat ==
    /\ \A i, r : r \in Application => OnInvoice(i)[r] \in Nat
    /\ \A p, r : r \in Application => CashFrom(p)[r] \in Nat
BY Amounts0 DEF OnInvoice, CashFrom

LEMMA PaidIsWeight ==
    ASSUME NEW A, Typed(A), NEW i
    PROVE  PaidBy(A, i) = Weigh(A, OnInvoice(i)) /\ PaidBy(A, i) \in Nat
<1>1. PICK R : R = {r \in DOMAIN A : r.inv = i /\ r.by = None}
  OBVIOUS
<1>2. PICK f : f = [r \in R |-> A[r] * SettledBy(r)]
  OBVIOUS
<1>3. PaidBy(A, i) = SumOn(f, R)
  BY <1>1, <1>2 DEF PaidBy, SumOf, SumOver, SumOn
<1>4. PICK V : V = OnInvoice(i)
  OBVIOUS
<1>5. R \in SUBSET DOMAIN A
  BY <1>1
<1>6. \A r \in DOMAIN A : r \in Application /\ V[r] \in Nat /\ V[r] \in Int
  BY <1>4, WeightsAreNat DEF Typed
<1>7. \A r \in R : V[r] = SettledBy(r)
  BY <1>1, <1>4, <1>6 DEF OnInvoice, SettledBy
<1>8. \A r \in DOMAIN A \ R : V[r] = 0
  BY <1>1, <1>4, <1>6 DEF OnInvoice
<1>9. \A r \in R : V[r] \in Int
  BY <1>5, <1>6
<1>10. \A r \in R : f[r] = A[r] * V[r]
  BY <1>2, <1>7
<1>11. FiniteBag(A)
  BY DEF Typed
<1>12. Weigh(A, V) = SumOn(f, R)
  BY <1>5, <1>8, <1>9, <1>10, <1>11, WeighPart
<1>13. Weigh(A, V) \in Nat
  BY <1>6, <1>11, WeighNat
<1> QED
  BY <1>3, <1>4, <1>12, <1>13

-----------------------------------------------------------------------------
(* Invoices are paid what the live rows settle.                            *)

PaidTies(i) ==
    /\ invoice[i] \in InvoiceRow /\ invoice[i].paid = PaidBy(apps, i)
    /\ invoice[i].balance = invoice[i].total - invoice[i].paid /\ invoice[i].balance >= 0
PaidInv == Typed(apps) /\ DOMAIN invoice = Invoices /\ \A i \in Invoices : PaidTies(i)

RowsFit(e) == FiniteBag(e.gone) /\ WithinBag(e.gone, apps) /\ Typed(e.new)
\* An invoice takes no more than is open, and an edit of it keeps what was paid.
PaidFits(e) ==
    /\ RowsFit(e) /\ DOMAIN e.invoice \subseteq Invoices
    /\ \A i \in Invoices \ DOMAIN e.invoice : PaidBy(e.new, i) <= invoice[i].balance + PaidBy(e.gone, i)
    /\ \A i \in DOMAIN e.invoice :
          /\ e.gone = EmptyBag /\ e.new = EmptyBag
          /\ e.invoice[i] \in InvoiceRow /\ e.invoice[i].paid = invoice[i].paid
          /\ e.invoice[i].balance = e.invoice[i].total - e.invoice[i].paid /\ e.invoice[i].balance >= 0

LEMMA TypedRows == ASSUME PaidInv, NEW e, RowsFit(e) PROVE Typed(e.gone) /\ Typed(e.new)
BY DEF PaidInv, RowsFit, Typed, WithinBag

\* What is paid on an invoice after the rows have been written.
LEMMA PaidAfter ==
    ASSUME PaidInv, NEW e, RowsFit(e), Commit(e), NEW i
    PROVE  /\ Typed(apps') /\ PaidBy(apps', i) = PaidBy(apps, i) - PaidBy(e.gone, i) + PaidBy(e.new, i)
           /\ PaidBy(apps, i) \in Nat /\ PaidBy(e.gone, i) \in Nat /\ PaidBy(e.new, i) \in Nat
<1>1. PICK A, G, N, B : A = apps /\ G = e.gone /\ N = e.new /\ B = apps'
  OBVIOUS
<1>2. B = (A (-) G) (+) N
  BY <1>1 DEF Commit
<1>3. Typed(A) /\ Typed(G) /\ Typed(N) /\ WithinBag(G, A)
  BY <1>1, TypedRows DEF PaidInv, RowsFit
<1>4. FiniteBag(A) /\ FiniteBag(G) /\ FiniteBag(N) /\ DOMAIN A \cup DOMAIN N \subseteq Application
  BY <1>3 DEF Typed
<1>5. Typed(B)
  <2>1. FiniteBag(B) /\ DOMAIN B \subseteq DOMAIN A \cup DOMAIN N
    BY <1>2, <1>3, <1>4, BagAfter
  <2> QED
    BY <1>4, <2>1 DEF Typed
<1>6. PICK V : V = OnInvoice(i)
  OBVIOUS
<1>7. \A r \in DOMAIN A \cup DOMAIN N : V[r] \in Int
  BY <1>4, <1>6, WeightsAreNat
<1>8. Weigh(B, V) = Weigh(A, V) - Weigh(G, V) + Weigh(N, V)
  BY <1>2, <1>3, <1>4, <1>7, WeighAfter
<1>9. /\ PaidBy(A, i) = Weigh(A, V) /\ PaidBy(A, i) \in Nat
      /\ PaidBy(G, i) = Weigh(G, V) /\ PaidBy(G, i) \in Nat
      /\ PaidBy(N, i) = Weigh(N, V) /\ PaidBy(N, i) \in Nat
      /\ PaidBy(B, i) = Weigh(B, V)
  BY <1>3, <1>5, <1>6, PaidIsWeight
<1> QED
  BY <1>1, <1>5, <1>8, <1>9

LEMMA FitsKeepsPaid ==
    ASSUME PaidInv, NEW e, PaidFits(e), Commit(e)
    PROVE  PaidInv'
<1>1. RowsFit(e) /\ DOMAIN e.invoice \subseteq Invoices
  BY DEF PaidFits
<1>2. PICK moved : moved = Moved(invoice, e.gone, e.new)
  OBVIOUS
<1>3. invoice' = Over(e.invoice, moved) /\ DOMAIN moved = Invoices
  BY <1>2 DEF Commit, Moved
<1>4. /\ DOMAIN invoice' = Invoices
      /\ \A i \in DOMAIN e.invoice : invoice'[i] = e.invoice[i]
      /\ \A i \in Invoices \ DOMAIN e.invoice : invoice'[i] = moved[i]
  BY <1>1, <1>3 DEF Over
<1>5. ASSUME NEW i \in Invoices PROVE PaidTies(i)'
  <2>1. /\ PaidBy(apps', i) = PaidBy(apps, i) - PaidBy(e.gone, i) + PaidBy(e.new, i)
        /\ PaidBy(apps, i) \in Nat /\ PaidBy(e.gone, i) \in Nat /\ PaidBy(e.new, i) \in Nat
    BY <1>1, PaidAfter
  <2>2. PaidTies(i)
    BY DEF PaidInv
  <2>3. CASE i \in DOMAIN e.invoice
    <3>1. /\ e.gone = e.new /\ e.invoice[i] \in InvoiceRow /\ e.invoice[i].paid = invoice[i].paid
          /\ e.invoice[i].balance = e.invoice[i].total - e.invoice[i].paid /\ e.invoice[i].balance >= 0
      BY <2>3 DEF PaidFits
    <3>2. PaidBy(apps', i) = PaidBy(apps, i)
      BY <2>1, <3>1
    <3> QED
      BY <1>4, <2>2, <2>3, <3>1, <3>2 DEF PaidTies
  <2>4. CASE i \notin DOMAIN e.invoice
    <3>1. PICK inv \in InvoiceRow : inv = invoice[i]
      BY <2>2 DEF PaidTies
    <3>2. PICK paid : paid = inv.paid + PaidBy(e.new, i) - PaidBy(e.gone, i)
      OBVIOUS
    <3>3. moved[i] = [inv EXCEPT !.paid = paid, !.balance = @ - (paid - inv.paid)]
      BY <1>2, <3>1, <3>2 DEF Moved
    <3>4. inv.paid \in Int /\ inv.balance \in Int /\ inv.total \in Nat
      BY <3>1 DEF InvoiceRow
    <3>5. paid \in Int /\ inv.balance - (paid - inv.paid) \in Int
      BY <2>1, <3>2, <3>4
    <3>6. /\ moved[i] \in InvoiceRow /\ moved[i].paid = paid /\ moved[i].total = inv.total
          /\ moved[i].balance = inv.balance - (paid - inv.paid)
      BY <3>3, <3>5 DEF InvoiceRow
    <3>7. inv.paid = PaidBy(apps, i) /\ inv.balance = inv.total - inv.paid /\ inv.balance >= 0
      BY <2>2, <3>1 DEF PaidTies
    <3>8. PaidBy(e.new, i) <= inv.balance + PaidBy(e.gone, i)
      BY <2>4, <3>1 DEF PaidFits
    <3>9. paid = PaidBy(apps', i)
      BY <2>1, <3>2, <3>7
    <3>10. /\ moved[i].balance = moved[i].total - moved[i].paid /\ moved[i].balance >= 0
      BY <2>1, <3>2, <3>4, <3>6, <3>7, <3>8
    <3>11. invoice'[i] = moved[i]
      BY <1>4, <2>4
    <3> QED
      BY <3>6, <3>9, <3>10, <3>11 DEF PaidTies
  <2> QED
    BY <2>3, <2>4
<1>6. Typed(apps')
  BY <1>1, PaidAfter
<1> QED
  BY <1>4, <1>5, <1>6 DEF PaidInv

-----------------------------------------------------------------------------
(* What an operation writes fits the invoices.                             *)

LEMMA CopiesFit ==
    ASSUME PaidInv, NEW R \in SUBSET DOMAIN apps
    PROVE  /\ FiniteBag(Copies(R)) /\ WithinBag(Copies(R), apps) /\ DOMAIN Copies(R) = R
           /\ \A r \in R : Copies(R)[r] = apps[r]
<1>1. IsFiniteSet(DOMAIN apps) /\ \A r \in DOMAIN apps : apps[r] \in Nat \ {0}
  BY DEF PaidInv, Typed, FiniteBag
<1>2. IsFiniteSet(R)
  BY <1>1, FS_Subset
<1>3. DOMAIN Copies(R) = R /\ \A r \in R : Copies(R)[r] = apps[r]
  BY DEF Copies
<1> QED
  BY <1>1, <1>2, <1>3 DEF FiniteBag, WithinBag

LEMMA NoneFits ==
    ASSUME PaidInv
    PROVE  /\ FiniteBag(EmptyBag) /\ WithinBag(EmptyBag, apps) /\ Typed(EmptyBag)
           /\ \A i : PaidBy(EmptyBag, i) = 0
<1>1. DOMAIN EmptyBag = {}
  BY DEF EmptyBag, SetToBag
<1>2. FiniteBag(EmptyBag) /\ Typed(EmptyBag)
  BY <1>1, WeighNone DEF Typed
<1>3. \A i : PaidBy(EmptyBag, i) = 0
  BY <1>2, WeighNone, PaidIsWeight
<1> QED
  BY <1>1, <1>2, <1>3 DEF WithinBag

\* An effect that adds no rows fits.
LEMMA TakingFits ==
    ASSUME PaidInv, NEW e, FiniteBag(e.gone), WithinBag(e.gone, apps), e.new = EmptyBag, e.invoice = <<>>
    PROVE  PaidFits(e)
<1>1. Typed(e.new) /\ Typed(e.gone)
  BY NoneFits DEF Typed, WithinBag, PaidInv
<1>2. \A i \in Invoices : PaidBy(e.new, i) = 0 /\ PaidBy(e.gone, i) \in Nat
  BY <1>1, NoneFits, PaidIsWeight
<1>3. \A i \in Invoices : invoice[i].balance >= 0 /\ invoice[i].balance \in Int
  BY DEF PaidInv, PaidTies, InvoiceRow
<1>4. DOMAIN e.invoice = {}
  OBVIOUS
<1> QED
  BY <1>1, <1>2, <1>3, <1>4 DEF PaidFits, RowsFit

LEMMA PlainFits ==
    ASSUME PaidInv, NEW e, e.gone = EmptyBag, e.new = EmptyBag, e.invoice = <<>>
    PROVE  PaidFits(e)
BY NoneFits, TakingFits

\* So does one that adds a row of no more than the invoice can take.
LEMMA RowFits ==
    ASSUME PaidInv, NEW e, e.gone = EmptyBag, e.invoice = <<>>,
           NEW row \in Application, e.new = SetToBag({row}),
           row.amt + row.adj <= PayableCents(invoice[row.inv])
    PROVE  PaidFits(e)
<1>1. IsFiniteSet({row})
  BY FS_Singleton
<1>2. Typed(e.new)
  <2>1. \A r \in {row} : OnInvoice(row.inv)[r] \in Int
    BY WeightsAreNat
  <2>2. FiniteBag(e.new) /\ DOMAIN e.new = {row}
    BY <1>1, <2>1, WeighSet DEF SetToBag
  <2> QED
    BY <2>2 DEF Typed
<1>3. ASSUME NEW i \in Invoices PROVE PaidBy(e.new, i) <= invoice[i].balance + PaidBy(e.gone, i)
  <2>1. PICK V : V = OnInvoice(i)
    OBVIOUS
  <2>3. V[row] \in Int /\ (V[row] = 0 \/ (row.inv = i /\ V[row] = row.amt + row.adj))
    BY <2>1, WeightsAreNat DEF OnInvoice
  <2>4. SumOn(V, {row}) = V[row]
    BY <2>3, SumOnSingle
  <2>5. \A r \in {row} : V[r] \in Int
    BY <2>3
  <2>6. Weigh(SetToBag({row}), V) = SumOn(V, {row})
    BY <1>1, <2>5, WeighSet
  <2>7. PaidBy(e.new, i) = V[row]
    BY <1>2, <2>1, <2>4, <2>6, PaidIsWeight
  <2>8. PaidBy(e.gone, i) = 0
    BY NoneFits
  <2>9. invoice[i].balance \in Int /\ invoice[i].balance >= 0
    BY DEF PaidInv, PaidTies, InvoiceRow
  <2>10. row.inv = i => V[row] <= invoice[i].balance
    BY <2>3, <2>9, Amounts0 DEF PayableCents, AtLeastZero
  <2> QED
    BY <2>3, <2>7, <2>8, <2>9, <2>10
<1>4. DOMAIN e.invoice = {}
  OBVIOUS
<1> QED
  BY <1>2, <1>3, <1>4, NoneFits DEF PaidFits, RowsFit

\* The row of a request's credit: through its draw if the source is a held
\* deposit, else with the receipt as the payment around it.
CreditRow(p, d, c) ==
    IF IsKind(c.src, {"hold"}) THEN Row(d, c.inv, c.amt, 0, FALSE, None) ELSE Row(c.src, c.inv, c.amt, 0, TRUE, p)

CreditWeight(p, d, q, V) == IF q.credits = {} THEN 0 ELSE V[CreditRow(p, d, TheCredit(q.credits))]

\* What a settlement weighs: its own rows, and that of its credit.
LEMMA SettlementWeighs ==
    ASSUME NEW p \in Payments, NEW q \in Bodies, NEW d \in DrawIds(p, FromHold(q) # {}),
           \A c \in q.credits : c.src # p,
           NEW V, \A r \in Application : V[r] \in Int,
           NEW own, \A i \in Invoices : own[i] = IF q.cash[i] + q.adj[i] > 0
                                                 THEN V[Row(p, i, q.cash[i], q.adj[i], FALSE, None)] ELSE 0
    PROVE  /\ Typed(Settlement(p, q, d)) /\ SumOn(own, Invoices) \in Int
           /\ Weigh(Settlement(p, q, d), V) = SumOn(own, Invoices) + CreditWeight(p, d, q, V)
           /\ q.credits # {} => CreditRow(p, d, TheCredit(q.credits)) \in Application
<1>1. PICK J : J = {j \in Invoices : q.cash[j] + q.adj[j] > 0}
  OBVIOUS
<1>2. PICK m : m = [i \in Invoices |-> Row(p, i, q.cash[i], q.adj[i], FALSE, None)]
  OBVIOUS
<1>3. PICK X : X = {m[i] : i \in J}
  OBVIOUS
<1>4. IsFiniteSet(Invoices) /\ J \in SUBSET Invoices /\ IsFiniteSet(J)
  BY <1>1, PaymentsAssumption, FS_Subset
<1>5. ASSUME NEW i \in Invoices PROVE m[i] \in Application /\ m[i].inv = i /\ m[i].pay = p
  <2>1. q.cash[i] \in Nat /\ q.adj[i] \in Nat
    BY OneCredit
  <2>2. PICK r : r = Row(p, i, q.cash[i], q.adj[i], FALSE, None)
    OBVIOUS
  <2>3. r \in Application /\ r.pay = p /\ r.inv = i
    BY <2>1, <2>2 DEF Row, Application
  <2> QED
    BY <1>2, <2>2, <2>3
<1>6. PICK f : f = [i \in J |-> V[m[i]]]
  OBVIOUS
<1>7. /\ \A i, j \in J : m[i] = m[j] => i = j
      /\ \A i \in J : f[i] \in Int /\ V[m[i]] = f[i]
  BY <1>4, <1>5, <1>6
<1>8. SumOn(V, X) = SumOn(f, J) /\ IsFiniteSet(X)
  BY <1>3, <1>4, <1>7, SumOnImage
<1>9. /\ \A i \in J : f[i] \in Int /\ own[i] = f[i]
      /\ \A i \in Invoices \ J : own[i] = 0
  BY <1>1, <1>2, <1>6, <1>7
<1>10. SumOn(own, Invoices) = SumOn(f, J)
  BY <1>4, <1>9, SumOnPadded
<1>11. SumOn(f, J) \in Int
  BY <1>4, <1>9, SumOnType
<1>12. X \subseteq Application /\ \A r \in X : V[r] \in Int /\ r.pay = p
  BY <1>3, <1>4, <1>5
<1>13. PICK Y : Y = {IF c \in FromHold(q) THEN Row(d, c.inv, c.amt, 0, FALSE, None)
                                          ELSE Row(c.src, c.inv, c.amt, 0, TRUE, p) : c \in q.credits}
  OBVIOUS
<1>14. Settlement(p, q, d) = SetToBag(X \cup Y)
  <2>1. X = {Row(p, i, q.cash[i], q.adj[i], FALSE, None) : i \in J}
    BY <1>2, <1>3, <1>4
  <2> QED
    BY <1>1, <1>13, <2>1 DEF Settlement
<1>15. CASE q.credits = {}
  <2>1. X \cup Y = X
    BY <1>13, <1>15
  <2>2. FiniteBag(SetToBag(X)) /\ Weigh(SetToBag(X), V) = SumOn(V, X)
    BY <1>8, <1>12, WeighSet
  <2>3. Typed(SetToBag(X))
    BY <1>12, <2>2 DEF Typed, SetToBag
  <2> QED
    <3>1. CreditWeight(p, d, q, V) = 0
      BY <1>15 DEF CreditWeight
    <3>2. Settlement(p, q, d) = SetToBag(X)
      BY <1>14, <2>1
    <3>3. Weigh(Settlement(p, q, d), V) = SumOn(own, Invoices)
      BY <1>8, <1>10, <2>2, <3>2
    <3>4. SumOn(own, Invoices) \in Int
      BY <1>10, <1>11
    <3> QED
      BY <1>15, <2>3, <3>1, <3>2, <3>3, <3>4
<1>16. CASE q.credits # {}
  <2>1. PICK c : q.credits = {c} /\ c.src \in Payments /\ c.inv \in Invoices /\ c.amt \in Nat \ {0}
    BY <1>16, OneCredit
  <2>2. PICK cr : cr = CreditRow(p, d, c)
    OBVIOUS
  <2>3. Y = {cr}
    BY <1>13, <2>1, <2>2 DEF FromHold, CreditRow
  <2>4. d \in Payments /\ (IsKind(c.src, {"hold"}) => d # p) /\ c.src # p
    BY <2>1 DEF DrawIds, FromHold
  <2>5. cr \in Application /\ cr.pay # p
    <3>1. c.amt \in Nat /\ p \in Payments \cup {None}
      BY <2>1
    <3>2. CASE IsKind(c.src, {"hold"})
      <4>1. cr = Row(d, c.inv, c.amt, 0, FALSE, None)
        BY <2>2, <3>2 DEF CreditRow
      <4> QED
        BY <2>1, <2>4, <3>1, <3>2, <4>1 DEF Row, Application
    <3>3. CASE ~IsKind(c.src, {"hold"})
      <4>1. cr = Row(c.src, c.inv, c.amt, 0, TRUE, p)
        BY <2>2, <3>3 DEF CreditRow
      <4> QED
        BY <2>1, <2>4, <3>1, <3>3, <4>1 DEF Row, Application
    <3> QED
      BY <3>2, <3>3
  <2>6. cr \notin X /\ V[cr] \in Int
    BY <1>12, <2>5
  <2>7. SumOn(V, X \cup {cr}) = SumOn(V, X) + V[cr]
    BY <1>8, <1>12, <2>6, SumOnAdd
  <2>8. IsFiniteSet(X \cup {cr}) /\ \A r \in X \cup {cr} : V[r] \in Int
    BY <1>8, <1>12, <2>6, FS_AddElement
  <2>9. FiniteBag(SetToBag(X \cup {cr})) /\ Weigh(SetToBag(X \cup {cr}), V) = SumOn(V, X \cup {cr})
    BY <2>8, WeighSet
  <2>10. DOMAIN SetToBag(X \cup {cr}) = X \cup {cr}
    BY DEF SetToBag
  <2>11. Typed(SetToBag(X \cup {cr}))
    BY <1>12, <2>5, <2>9, <2>10 DEF Typed
  <2>12. Settlement(p, q, d) = SetToBag(X \cup {cr})
    BY <1>14, <2>3
  <2>13. TheCredit(q.credits) = c
    BY <2>1, TheOnlyCredit
  <2>14. CreditWeight(p, d, q, V) = V[cr]
    BY <1>16, <2>2, <2>13 DEF CreditWeight
  <2> QED
    BY <1>8, <1>10, <1>11, <2>2, <2>5, <2>7, <2>9, <2>11, <2>12, <2>13, <2>14
<1> QED
  BY <1>15, <1>16

\* It settles on each invoice what the request asks for.
LEMMA SettlementPays ==
    ASSUME NEW p \in Payments, NEW q \in Bodies, NEW d \in DrawIds(p, FromHold(q) # {}),
           \A c \in q.credits : c.src # p, NEW j \in Invoices
    PROVE  Typed(Settlement(p, q, d)) /\ PaidBy(Settlement(p, q, d), j) = On(q, j)
<1>1. PICK V : V = OnInvoice(j)
  OBVIOUS
<1>2. \A r \in Application : V[r] \in Int /\ V[r] = IF r.inv = j /\ r.by = None THEN r.amt + r.adj ELSE 0
  <2>1. \A r \in Application : V[r] \in Int
    BY <1>1, WeightsAreNat
  <2>2. \A r \in Application : V[r] = IF r.inv = j /\ r.by = None THEN r.amt + r.adj ELSE 0
    BY <1>1 DEF OnInvoice
  <2> QED
    BY <2>1, <2>2
<1>3. PICK own : own = [i \in Invoices |-> IF q.cash[i] + q.adj[i] > 0
                                          THEN V[Row(p, i, q.cash[i], q.adj[i], FALSE, None)] ELSE 0]
  OBVIOUS
<1>4. q.cash[j] \in Nat /\ q.adj[j] \in Nat
  BY OneCredit
<1>5. ASSUME NEW i \in Invoices
      PROVE  own[i] = IF i = j THEN q.cash[j] + q.adj[j] ELSE 0
  <2>1. q.cash[i] \in Nat /\ q.adj[i] \in Nat
    BY OneCredit
  <2>2. PICK r : r = Row(p, i, q.cash[i], q.adj[i], FALSE, None)
    OBVIOUS
  <2>3. r \in Application /\ r.inv = i /\ r.by = None /\ r.amt = q.cash[i] /\ r.adj = q.adj[i]
    BY <2>1, <2>2 DEF Row, Application
  <2>4. V[r] = IF i = j THEN q.cash[i] + q.adj[i] ELSE 0
    BY <1>2, <2>3
  <2>5. own[i] = IF q.cash[i] + q.adj[i] > 0 THEN V[r] ELSE 0
    BY <1>3, <2>2
  <2> QED
    BY <2>1, <2>4, <2>5
<1>6. SumOn(own, Invoices) = q.cash[j] + q.adj[j]
  <2>1. own[j] \in Int /\ own[j] = q.cash[j] + q.adj[j] /\ \A i \in Invoices \ {j} : own[i] = 0
    BY <1>4, <1>5
  <2>2. IsFiniteSet(Invoices)
    BY PaymentsAssumption
  <2>3. SumOn(own, Invoices) = own[j]
    BY <2>1, <2>2, SumOnOnly
  <2> QED
    BY <2>1, <2>3
<1>7. /\ \A r \in Application : V[r] \in Int
      /\ \A i \in Invoices : own[i] = IF q.cash[i] + q.adj[i] > 0
                                      THEN V[Row(p, i, q.cash[i], q.adj[i], FALSE, None)] ELSE 0
  BY <1>2, <1>3
<1>8. PICK S : S = Settlement(p, q, d)
  OBVIOUS
<1>9. /\ Typed(S) /\ Weigh(S, V) = SumOn(own, Invoices) + CreditWeight(p, d, q, V)
      /\ q.credits # {} => CreditRow(p, d, TheCredit(q.credits)) \in Application
  <2>1. /\ Typed(Settlement(p, q, d)) /\ SumOn(own, Invoices) \in Int
        /\ Weigh(Settlement(p, q, d), V) = SumOn(own, Invoices) + CreditWeight(p, d, q, V)
        /\ q.credits # {} => CreditRow(p, d, TheCredit(q.credits)) \in Application
    BY <1>7, SettlementWeighs
  <2> QED
    BY <1>8, <2>1
<1>10. PaidBy(S, j) = Weigh(S, V)
  BY <1>1, <1>9, PaidIsWeight
<1>11. CASE q.credits = {}
  <2>1. On(q, j) = q.cash[j] + q.adj[j] + 0
    BY <1>11 DEF On, CreditIn
  <2> QED
    BY <1>4, <1>6, <1>8, <1>9, <1>10, <1>11, <2>1 DEF CreditWeight
<1>12. CASE q.credits # {}
  <2>1. PICK c : q.credits = {c} /\ c.src \in Payments /\ c.inv \in Invoices /\ c.amt \in Nat \ {0}
    BY <1>12, OneCredit
  <2>2. PICK cr : cr = CreditRow(p, d, c)
    OBVIOUS
  <2>3. cr \in Application /\ Weigh(S, V) = SumOn(own, Invoices) + V[cr]
    BY <1>9, <1>12, <2>1, <2>2, TheOnlyCredit DEF CreditWeight
  <2>4. cr.inv = c.inv /\ cr.amt = c.amt /\ cr.adj = 0 /\ cr.by = None
    BY <2>2 DEF CreditRow, Row
  <2>5. V[cr] = IF c.inv = j THEN c.amt ELSE 0
    BY <1>2, <2>1, <2>3, <2>4
  <2>6. CreditIn({x \in q.credits : x.inv = j}) = IF c.inv = j THEN c.amt ELSE 0
    <3>1. CASE c.inv = j
      <4>1. {x \in q.credits : x.inv = j} = {c}
        BY <2>1, <3>1
      <4> QED
        BY <3>1, <4>1 DEF CreditIn, TheCredit
    <3>2. CASE c.inv # j
      <4>1. {x \in q.credits : x.inv = j} = {}
        BY <2>1, <3>2
      <4> QED
        BY <3>2, <4>1 DEF CreditIn
    <3> QED
      BY <3>1, <3>2
  <2>7. On(q, j) = q.cash[j] + q.adj[j] + V[cr]
    BY <2>5, <2>6 DEF On
  <2> QED
    BY <1>6, <1>8, <1>9, <1>10, <2>3, <2>7
<1> QED
  BY <1>11, <1>12

LEMMA SettleFits ==
    ASSUME PaidInv, NEW p \in Payments, NEW q \in Bodies, NEW d, NEW gone \in SUBSET DOMAIN apps, NEW undrawn,
           Settles(p, q, d, gone, undrawn), \A c \in q.credits : c.src # p,
           NEW e, e.gone = Copies(gone), e.new = Settlement(p, q, d), e.invoice = <<>>
    PROVE  PaidFits(e)
<1>1. d \in DrawIds(p, FromHold(q) # {}) /\ InvoicesTake(q, Moved(invoice, Copies(gone), EmptyBag))
  BY DEF Settles
<1>2. FiniteBag(e.gone) /\ WithinBag(e.gone, apps) /\ Typed(e.gone)
  BY CopiesFit DEF Typed, PaidInv
<1>3. ASSUME NEW i \in Invoices
      PROVE  Typed(e.new) /\ PaidBy(e.new, i) <= invoice[i].balance + PaidBy(e.gone, i)
  <2>1. Typed(e.new) /\ PaidBy(e.new, i) = On(q, i)
    BY <1>1, SettlementPays
  <2>2. PICK inv \in InvoiceRow : inv = invoice[i]
    BY DEF PaidInv, PaidTies
  <2>3. inv.paid \in Int /\ inv.balance \in Int /\ inv.balance >= 0
    BY <2>2 DEF PaidInv, PaidTies, InvoiceRow
  <2>4. PaidBy(e.gone, i) \in Nat /\ PaidBy(EmptyBag, i) = 0
    BY <1>2, NoneFits, PaidIsWeight
  <2>5. PICK paid : paid = inv.paid + PaidBy(EmptyBag, i) - PaidBy(e.gone, i)
    OBVIOUS
  <2>6. PICK new : new = [inv EXCEPT !.paid = paid, !.balance = @ - (paid - inv.paid)]
    OBVIOUS
  <2>7. new = Moved(invoice, e.gone, EmptyBag)[i]
    BY <2>2, <2>5, <2>6 DEF Moved
  <2>8. new.balance = inv.balance + PaidBy(e.gone, i)
    <3>1. new.balance = inv.balance - (paid - inv.paid)
      BY <2>6 DEF InvoiceRow
    <3> QED
      BY <2>3, <2>4, <2>5, <3>1
  <2>9. On(q, i) <= PayableCents(new)
    BY <1>1, <2>7 DEF InvoicesTake
  <2>10. On(q, i) <= inv.balance + PaidBy(e.gone, i)
    BY <2>3, <2>4, <2>8, <2>9, TakenOn DEF PayableCents, AtLeastZero
  <2> QED
    BY <2>1, <2>2, <2>10
<1>4. DOMAIN e.invoice = {}
  OBVIOUS
<1>5. Typed(e.new)
  <2>1. Typed(Settlement(p, q, d))
    <3>1. PICK V : V = [r \in Application |-> 0]
      OBVIOUS
    <3>2. PICK own : own = [i \in Invoices |-> IF q.cash[i] + q.adj[i] > 0
                                               THEN V[Row(p, i, q.cash[i], q.adj[i], FALSE, None)] ELSE 0]
      OBVIOUS
    <3>3. /\ \A r \in Application : V[r] \in Int
          /\ \A i \in Invoices : own[i] = IF q.cash[i] + q.adj[i] > 0
                                          THEN V[Row(p, i, q.cash[i], q.adj[i], FALSE, None)] ELSE 0
      BY <3>1, <3>2
    <3> QED
      BY <1>1, <3>3, SettlementWeighs
  <2> QED
    BY <2>1
<1> QED
  BY <1>2, <1>3, <1>4, <1>5 DEF PaidFits, RowsFit

\* Rows reversed by the same bounce; what they weigh with another.
ReversedAlike(R) == \A r, x \in R : r.by = x.by
Anew(R, by, V) == [r \in R |-> V[[r EXCEPT !.by = by]]]

\* Marked rows weigh what the rows would with their new reversed_by.
LEMMA MarkedWeighs ==
    ASSUME PaidInv, NEW R, R \in SUBSET DOMAIN apps, ReversedAlike(R),
           NEW by, by \in Payments \cup {None}, NEW V, V \in [Application -> Int]
    PROVE  Typed(Marked(R, by)) /\ Weigh(Marked(R, by), V) = Weigh(Copies(R), Anew(R, by, V))
<1>1. PICK m : m = [r \in R |-> [r EXCEPT !.by = by]]
  OBVIOUS
<1>2. PICK N : N = Marked(R, by)
  OBVIOUS
<1>3. PICK U : U = Anew(R, by, V)
  OBVIOUS
<1>4. \A r \in R : m[r] = [r EXCEPT !.by = by] /\ U[r] = V[m[r]]
  BY <1>1, <1>3 DEF Anew
<1>5. \A r \in R : r \in Application /\ apps[r] \in Nat \ {0}
  BY DEF PaidInv, Typed, FiniteBag
<1>6. \A r \in R : m[r] \in Application /\ U[r] = V[m[r]] /\ U[r] \in Int
  <2>1. \A r \in R : m[r] \in Application
    <3>1. ASSUME NEW r \in R PROVE m[r] \in Application
      <4>1. PICK x : x = [r EXCEPT !.by = by]
        OBVIOUS
      <4>2. r \in Application /\ m[r] = x
        BY <1>5, <1>4, <4>1
      <4>3. x \in Application
        BY <4>1, <4>2 DEF Application
      <4> QED
        BY <4>2, <4>3
    <3> QED
      BY <3>1
  <2> QED
    BY <1>4, <2>1
<1>7. ASSUME NEW r \in R, NEW x \in R, m[r] = m[x] PROVE r = x
  <2>1. r \in Application /\ x \in Application /\ r.by = x.by
    BY <1>5 DEF ReversedAlike
  <2>2. [r EXCEPT !.by = by] = [x EXCEPT !.by = by]
    BY <1>7, <1>4
  <2>3. /\ r.pay = x.pay /\ r.inv = x.inv /\ r.amt = x.amt /\ r.adj = x.adj /\ r.later = x.later
        /\ r.inside = x.inside
    <3>1. PICK y : y = [r EXCEPT !.by = by]
      OBVIOUS
    <3>2. /\ r.pay = y.pay /\ r.inv = y.inv /\ r.amt = y.amt /\ r.adj = y.adj /\ r.later = y.later
          /\ r.inside = y.inside
      BY <2>1, <3>1 DEF Application
    <3>3. /\ x.pay = y.pay /\ x.inv = y.inv /\ x.amt = y.amt /\ x.adj = y.adj /\ x.later = y.later
          /\ x.inside = y.inside
      BY <2>1, <2>2, <3>1 DEF Application
    <3> QED
      BY <3>2, <3>3
  <2> QED
    BY <2>1, <2>3 DEF Application
<1>8. DOMAIN N = {m[r] : r \in R} /\ \A r \in R : N[m[r]] = apps[r]
  <2>1. DOMAIN N = {m[r] : r \in R}
    <3>1. DOMAIN N = {[r EXCEPT !.by = by] : r \in R}
      BY <1>2 DEF Marked
    <3>2. \A y : y \in DOMAIN N <=> \E r \in R : y = [r EXCEPT !.by = by]
      BY <3>1
    <3>3. ASSUME NEW r \in R PROVE m[r] \in DOMAIN N
      <4>1. PICK y : y = [r EXCEPT !.by = by]
        OBVIOUS
      <4>2. y \in DOMAIN N
        BY <3>2, <4>1
      <4>3. m[r] = y
        BY <1>4, <4>1
      <4> QED
        BY <4>2, <4>3
    <3>4. ASSUME NEW y \in DOMAIN N PROVE \E r \in R : y = m[r]
      <4>1. PICK r \in R : y = [r EXCEPT !.by = by]
        BY <3>2
      <4>2. m[r] = y
        BY <1>4, <4>1
      <4> QED
        BY <4>2
    <3> QED
      BY <3>3, <3>4
  <2>2. ASSUME NEW r \in R PROVE N[m[r]] = apps[r]
    <3>1. m[r] = [r EXCEPT !.by = by] /\ m[r] \in DOMAIN N
      BY <1>4, <2>1
    <3>2. PICK x : x = CHOOSE y \in R : [y EXCEPT !.by = by] = m[r]
      OBVIOUS
    <3>3. x \in R /\ [x EXCEPT !.by = by] = m[r]
      BY <3>1, <3>2
    <3>4. x = r
      <4>1. m[x] = m[r]
        BY <1>4, <3>3
      <4> QED
        BY <1>7, <3>3, <4>1
    <3>5. N[m[r]] = apps[x]
      BY <1>2, <3>1, <3>2 DEF Marked
    <3> QED
      BY <3>4, <3>5
  <2> QED
    BY <2>1, <2>2
<1>9. FiniteBag(Copies(R)) /\ DOMAIN Copies(R) = R /\ \A r \in R : Copies(R)[r] = apps[r]
  BY CopiesFit
<1>10. PICK f, g : f = [r \in R |-> Copies(R)[r] * U[r]] /\ g = [x \in DOMAIN N |-> N[x] * V[x]]
  OBVIOUS
<1>11. \A r \in R : f[r] \in Int /\ g[m[r]] = f[r]
  <2>1. ASSUME NEW r \in R PROVE f[r] \in Int /\ g[m[r]] = f[r]
    <3>1. apps[r] \in Int /\ U[r] \in Int
      BY <1>5, <1>6
    <3>2. f[r] = apps[r] * U[r] /\ g[m[r]] = apps[r] * U[r]
      BY <1>6, <1>8, <1>9, <1>10
    <3> QED
      BY <3>1, <3>2, Product
  <2> QED
    BY <2>1
<1>12. IsFiniteSet(R)
  BY <1>9 DEF FiniteBag
<1>13. SumOn(g, DOMAIN N) = SumOn(f, R) /\ IsFiniteSet(DOMAIN N)
  <2>1. /\ \A r, x \in R : m[r] = m[x] => r = x
        /\ \A r \in R : f[r] \in Int /\ g[m[r]] = f[r]
    BY <1>7, <1>11
  <2>2. PICK X : X = {m[r] : r \in R}
    OBVIOUS
  <2>3. SumOn(g, X) = SumOn(f, R) /\ IsFiniteSet(X)
    BY <1>12, <2>1, <2>2, SumOnImage
  <2> QED
    BY <1>8, <2>2, <2>3
<1>14. Typed(N)
  BY <1>5, <1>6, <1>8, <1>13 DEF Typed, FiniteBag
<1> QED
  BY <1>2, <1>9, <1>10, <1>13, <1>14, <1>3 DEF Weigh

LEMMA WeighZero ==
    ASSUME NEW A, FiniteBag(A), NEW V, \A r \in DOMAIN A : V[r] = 0
    PROVE  Weigh(A, V) = 0
<1>1. PICK f : f = [r \in DOMAIN A |-> A[r] * V[r]]
  OBVIOUS
<1>2. \A r \in DOMAIN A : f[r] = 0
  BY <1>1 DEF FiniteBag
<1>3. SumOn(f, DOMAIN A) = 0
  BY <1>2, SumOnZero DEF FiniteBag
<1> QED
  BY <1>1, <1>3 DEF Weigh

\* Rows that a bounce reverses settle nothing.
LEMMA BounceFits ==
    ASSUME PayInv, PaidInv, NEW p \in Payments, BouncePayment(p)
    PROVE  \E e : PaidFits(e) /\ Commit(e)
<1>1. PICK e : e = BounceEffect(p)
  OBVIOUS
<1>2. PICK R : R = BounceRows(p)
  OBVIOUS
<1>3. e.gone = Copies(R) /\ e.new = Marked(R, p) /\ e.invoice = <<>> /\ Commit(e)
  BY <1>1, <1>2 DEF BounceEffect, Nothing, BouncePayment
<1>4. R \in SUBSET DOMAIN apps /\ (\A r \in R : r.by = None) /\ ReversedAlike(R)
  BY <1>2 DEF BounceRows, LiveApplications, ReversedAlike
<1>5. FiniteBag(e.gone) /\ WithinBag(e.gone, apps) /\ DOMAIN e.gone = R /\ Typed(e.gone)
  BY <1>3, <1>4, CopiesFit DEF Typed, PaidInv
<1>6. ASSUME NEW i
      PROVE  Typed(e.new) /\ PaidBy(e.new, i) = 0
  <2>1. PICK V : V = OnInvoice(i)
    OBVIOUS
  <2>2. V \in [Application -> Int]
    BY <2>1, WeightsAreNat DEF OnInvoice
  <2>3. PICK U : U = Anew(R, p, V)
    OBVIOUS
  <2>4. \A r \in R : U[r] = V[[r EXCEPT !.by = p]]
    BY <2>3 DEF Anew
  <2>5. p \in Payments \cup {None}
    OBVIOUS
  <2>6. Typed(Marked(R, p)) /\ Weigh(Marked(R, p), V) = Weigh(Copies(R), U)
    BY <1>4, <2>2, <2>3, <2>5, MarkedWeighs
  <2>7. ASSUME NEW r \in R PROVE U[r] = 0
    <3>1. r \in Application
      BY <1>4 DEF PaidInv, Typed
    <3>2. PICK x : x = [r EXCEPT !.by = p]
      OBVIOUS
    <3>3. x \in Application /\ x.by = p
      BY <3>1, <3>2 DEF Application
    <3>4. V[x] = 0
      BY <2>1, <3>3, PaymentsAssumption DEF OnInvoice
    <3> QED
      BY <2>4, <3>2, <3>4
  <2>8. Weigh(Copies(R), U) = 0
    BY <1>3, <1>5, <2>7, WeighZero
  <2> QED
    BY <1>3, <2>1, <2>6, <2>8, PaidIsWeight
<1>7. \A i \in Invoices : /\ PaidBy(e.new, i) = 0 /\ PaidBy(e.gone, i) \in Nat
                          /\ invoice[i].balance \in Int /\ invoice[i].balance >= 0
  BY <1>5, <1>6, PaidIsWeight DEF PaidInv, PaidTies, InvoiceRow
<1>8. DOMAIN e.invoice = {}
  BY <1>3
<1>9. Typed(e.new)
  BY <1>6
<1>10. PaidFits(e)
  BY <1>5, <1>7, <1>8, <1>9 DEF PaidFits, RowsFit
<1> QED
  BY <1>3, <1>10

\* Rows come back within what their invoices can take.
LEMMA VoidBounceFits ==
    ASSUME PayInv, PaidInv, NEW p \in Payments, VoidBounce(p)
    PROVE  \E e : PaidFits(e) /\ Commit(e)
<1>1. PICK e : e = VoidBounceEffect(p)
  OBVIOUS
<1>2. PICK R : R = ReversedBy(p)
  OBVIOUS
<1>3. e.gone = Copies(R) /\ e.new = Marked(R, None) /\ e.invoice = <<>> /\ Commit(e)
  BY <1>1, <1>2 DEF VoidBounceEffect, Nothing, VoidBounce
<1>4. R \in SUBSET DOMAIN apps /\ (\A r \in R : r.by = p) /\ ReversedAlike(R)
  BY <1>2 DEF ReversedBy, ReversedAlike
<1>5. /\ FiniteBag(e.gone) /\ WithinBag(e.gone, apps) /\ DOMAIN e.gone = R /\ Typed(e.gone)
      /\ \A r \in R : e.gone[r] = apps[r]
  BY <1>3, <1>4, CopiesFit DEF Typed, PaidInv
<1>6. Typed(e.new)
  <2>1. PICK V : V = [r \in Application |-> 0]
    OBVIOUS
  <2>2. V \in [Application -> Int] /\ None \in Payments \cup {None}
    BY <2>1
  <2>3. Typed(Marked(R, None)) /\ Weigh(Marked(R, None), V) = Weigh(Copies(R), Anew(R, None, V))
    BY <1>4, <2>2, MarkedWeighs
  <2> QED
    BY <1>3, <2>3
<1>7. ASSUME NEW i \in Invoices
      PROVE  PaidBy(e.new, i) <= invoice[i].balance + PaidBy(e.gone, i)
  <2>1. PICK V : V = OnInvoice(i)
    OBVIOUS
  <2>2. V \in [Application -> Int]
    BY <2>1, WeightsAreNat DEF OnInvoice
  <2>3. PICK U : U = Anew(R, None, V)
    OBVIOUS
  <2>4. \A r \in R : U[r] = V[[r EXCEPT !.by = None]]
    BY <2>3 DEF Anew
  <2>5. None \in Payments \cup {None}
    OBVIOUS
  <2>6. Typed(Marked(R, None)) /\ Weigh(Marked(R, None), V) = Weigh(Copies(R), U)
    BY <1>4, <2>2, <2>3, <2>5, MarkedWeighs
  <2>7. ASSUME NEW r \in R PROVE U[r] \in Int /\ U[r] = IF r.inv = i THEN SettledBy(r) ELSE 0
    <3>1. r \in Application
      BY <1>4 DEF PaidInv, Typed
    <3>2. PICK x : x = [r EXCEPT !.by = None]
      OBVIOUS
    <3>3. x \in Application /\ x.by = None /\ x.inv = r.inv /\ x.amt = r.amt /\ x.adj = r.adj
      BY <3>1, <3>2 DEF Application
    <3>4. V[x] = IF r.inv = i THEN r.amt + r.adj ELSE 0
      BY <2>1, <3>3 DEF OnInvoice
    <3>5. U[r] = V[x] /\ V[x] \in Int
      BY <2>2, <2>4, <3>2, <3>3
    <3> QED
      BY <3>4, <3>5 DEF SettledBy
  <2>8. PICK S : S = {r \in R : r.inv = i}
    OBVIOUS
  <2>9. PICK f : f = [r \in S |-> apps[r] * SettledBy(r)]
    OBVIOUS
  <2>10. SumOf(apps, {r \in ReversedBy(p) : r.inv = i}, SettledBy) = SumOn(f, S)
    BY <1>2, <2>8, <2>9 DEF SumOf, SumOver, SumOn
  <2>11. /\ S \in SUBSET DOMAIN e.gone /\ \A r \in S : U[r] \in Int
         /\ \A r \in DOMAIN e.gone \ S : U[r] = 0
         /\ \A r \in S : f[r] = e.gone[r] * U[r]
    <3>1. \A r \in S : r \in R /\ r.inv = i /\ e.gone[r] = apps[r] /\ U[r] \in Int /\ U[r] = SettledBy(r)
      BY <1>5, <2>7, <2>8
    <3>2. \A r \in R \ S : U[r] = 0
      BY <2>7, <2>8
    <3> QED
      BY <1>5, <2>9, <3>1, <3>2
  <2>12. Weigh(e.gone, U) = SumOn(f, S)
    BY <1>5, <2>11, WeighPart
  <2>13. SumOn(f, S) <= PayableCents(invoice[i])
    BY <2>10 DEF VoidBounce, MayVoidBounce
  <2>14. PaidBy(e.new, i) = SumOn(f, S) /\ PaidBy(e.new, i) \in Nat
    BY <1>3, <1>6, <2>1, <2>6, <2>12, PaidIsWeight
  <2>15. PaidBy(e.gone, i) \in Nat /\ invoice[i].balance \in Int /\ invoice[i].balance >= 0
    BY <1>5, PaidIsWeight DEF PaidInv, PaidTies, InvoiceRow
  <2> QED
    BY <2>13, <2>14, <2>15 DEF PayableCents, AtLeastZero
<1>8. DOMAIN e.invoice = {}
  BY <1>3
<1>9. PaidFits(e)
  BY <1>5, <1>6, <1>7, <1>8 DEF PaidFits, RowsFit
<1> QED
  BY <1>3, <1>9

LEMMA InvoiceFits ==
    ASSUME PaidInv, NEW i \in Invoices, NEW total \in Int, UpdateInvoice(i, total) \/ VoidInvoice(i)
    PROVE  \E e : PaidFits(e) /\ Commit(e)
<1>1. PICK inv \in InvoiceRow : inv = invoice[i]
  BY DEF PaidInv, PaidTies
<1>2. /\ inv.paid \in Int /\ inv.balance \in Int /\ inv.total \in Nat
      /\ inv.balance = inv.total - inv.paid /\ inv.balance >= 0
  BY <1>1 DEF PaidInv, PaidTies, InvoiceRow
<1>3. ASSUME NEW row \in InvoiceRow, NEW ar, Commit([Nothing EXCEPT !.invoice = Only(i, row), !.ar = ar]),
             row.paid = inv.paid, row.balance = row.total - row.paid, row.balance >= 0
      PROVE  \E e : PaidFits(e) /\ Commit(e)
  <2>1. PICK e : e = [Nothing EXCEPT !.invoice = Only(i, row), !.ar = ar]
    OBVIOUS
  <2>2. e.gone = EmptyBag /\ e.new = EmptyBag /\ e.invoice = Only(i, row)
    BY <2>1 DEF Nothing
  <2>3. DOMAIN e.invoice = {i} /\ e.invoice[i] = row
    BY <2>2 DEF Only
  <2>4. \A j \in Invoices : /\ PaidBy(e.new, j) = 0 /\ PaidBy(e.gone, j) = 0
                            /\ invoice[j].balance \in Int /\ invoice[j].balance >= 0
    BY <2>2, NoneFits DEF PaidInv, PaidTies, InvoiceRow
  <2>5. RowsFit(e)
    BY <2>2, NoneFits DEF RowsFit
  <2>6. PaidFits(e)
    BY <1>1, <1>3, <2>2, <2>3, <2>4, <2>5 DEF PaidFits
  <2> QED
    BY <1>3, <2>1, <2>6
<1>4. CASE UpdateInvoice(i, total)
  <2>1. PICK row : row = [inv EXCEPT !.total = total, !.balance = total - inv.paid]
    OBVIOUS
  <2>2. total > 0 /\ total >= inv.paid
    BY <1>1, <1>4 DEF UpdateInvoice
  <2>3. total \in Nat /\ total - inv.paid \in Int
    BY <1>2, <2>2
  <2>4. row \in InvoiceRow /\ row.paid = inv.paid /\ row.total = total /\ row.balance = total - inv.paid
    BY <1>1, <2>1, <2>3 DEF InvoiceRow
  <2>5. Commit([Nothing EXCEPT !.invoice = Only(i, row), !.ar = total - inv.total])
    BY <1>1, <1>4, <2>1 DEF UpdateInvoice
  <2>6. row.balance >= 0
    BY <1>2, <2>2, <2>4
  <2> QED
    BY <1>3, <2>4, <2>5, <2>6
<1>5. CASE VoidInvoice(i)
  <2>1. PICK row : row = [inv EXCEPT !.st = "void"]
    OBVIOUS
  <2>2. row \in InvoiceRow /\ row.paid = inv.paid /\ row.total = inv.total /\ row.balance = inv.balance
    BY <1>1, <2>1 DEF InvoiceRow
  <2>3. Commit([Nothing EXCEPT !.invoice = Only(i, row), !.ar = -inv.total])
    BY <1>1, <1>5, <2>1 DEF VoidInvoice, VoidInvoiceEffect
  <2> QED
    BY <1>2, <1>3, <2>2, <2>3
<1> QED
  BY <1>4, <1>5

LEMMA ApplyFits ==
    ASSUME PaidInv, NEW p \in Payments, NEW i \in Invoices, NEW x \in Int,
           NEW d \in DrawIds(p, IsKind(p, {"hold"})), ApplyCredit(p, i, x, d)
    PROVE  \E e : PaidFits(e) /\ Commit(e)
<1>1. x \in Nat /\ x <= PayableCents(invoice[i])
  BY DEF ApplyCredit, CreditUsable
<1>2. PICK e : e = ApplyCreditEffect(p, i, x, d)
  OBVIOUS
<1>3. Commit(e) /\ d \in Payments
  BY <1>2 DEF ApplyCredit, DrawIds
<1>4. ASSUME NEW row \in Application, row.amt = x, row.adj = 0, row.inv = i,
             e.gone = EmptyBag, e.invoice = <<>>, e.new = SetToBag({row})
      PROVE  PaidFits(e)
  <2>1. row.amt + row.adj <= PayableCents(invoice[row.inv])
    BY <1>1, <1>4
  <2> QED
    BY <1>4, <2>1, RowFits
<1>5. CASE IsKind(p, {"hold"})
  <2>1. PICK row : row = Row(d, i, x, 0, FALSE, None)
    OBVIOUS
  <2>2. row \in Application /\ row.amt = x /\ row.adj = 0 /\ row.inv = i
    BY <1>1, <1>3, <2>1 DEF Row, Application
  <2>3. e.gone = EmptyBag /\ e.invoice = <<>> /\ e.new = SetToBag({row})
    BY <1>2, <1>5, <2>1 DEF ApplyCreditEffect, Nothing
  <2> QED
    BY <1>3, <1>4, <2>2, <2>3
<1>6. CASE ~IsKind(p, {"hold"})
  <2>1. PICK row : row = Row(p, i, x, 0, TRUE, None)
    OBVIOUS
  <2>2. row \in Application /\ row.amt = x /\ row.adj = 0 /\ row.inv = i
    BY <1>1, <2>1 DEF Row, Application
  <2>3. e.gone = EmptyBag /\ e.invoice = <<>> /\ e.new = SetToBag({row})
    BY <1>2, <1>6, <2>1 DEF ApplyCreditEffect, Nothing
  <2> QED
    BY <1>3, <1>4, <2>2, <2>3
<1> QED
  BY <1>5, <1>6

\* A memo is applied as it is saved to no more than its invoice can take.
LEMMA CreateMemoFits ==
    ASSUME PaidInv, NEW m \in Payments, NEW total \in Int, NEW i \in Invoices, NEW on, on = {} \/ on = {i},
           CreateMemo(m, total, on)
    PROVE  \E e : PaidFits(e) /\ Commit(e)
<1>1. PICK open : open = PayableCents(invoice[i])
  OBVIOUS
<1>2. open \in Nat
  <2>1. PICK inv \in InvoiceRow : inv = invoice[i]
    BY DEF PaidInv, PaidTies
  <2> QED
    BY <1>1, <2>1 DEF PayableCents, AtLeastZero, InvoiceRow
<1>3. PICK row : row = Row(m, i, Smaller(total, open), 0, FALSE, None)
  OBVIOUS
<1>4. total > 0
  BY DEF CreateMemo
<1>5. Smaller(total, open) \in Nat /\ Smaller(total, open) <= open
  BY <1>2, <1>4 DEF Smaller
<1>6. row \in Application /\ row.amt = Smaller(total, open) /\ row.adj = 0 /\ row.inv = i
  BY <1>3, <1>5 DEF Row, Application
<1>7. PICK all : all = {Row(m, j, Smaller(total, PayableCents(invoice[j])), 0, FALSE, None) : j \in on}
  OBVIOUS
<1>8. PICK rows : rows = {r \in all : r.amt > 0}
  OBVIOUS
<1>9. rows = {} \/ rows = {row}
  <2>1. on = {} => all = {}
    BY <1>7
  <2>2. on = {i} => all = {row}
    BY <1>1, <1>3, <1>7
  <2> QED
    BY <1>8, <2>1, <2>2
<1>10. PICK e : e = [Nothing EXCEPT !.payment = Only(m, NewPayment("memo", total, 0, "bank", None, None)),
                                    !.new = SetToBag(rows), !.ar = -total]
  OBVIOUS
<1>11. Commit(e)
  BY <1>7, <1>8, <1>10 DEF CreateMemo
<1>12. e.gone = EmptyBag /\ e.new = SetToBag(rows) /\ e.invoice = <<>>
  BY <1>10 DEF Nothing
<1>13. CASE rows = {}
  <2>1. e.new = EmptyBag
    BY <1>12, <1>13 DEF EmptyBag
  <2> QED
    BY <1>11, <1>12, <2>1, PlainFits
<1>14. CASE rows = {row}
  <2>1. row.amt + row.adj <= PayableCents(invoice[row.inv])
    BY <1>1, <1>2, <1>5, <1>6
  <2>2. e.new = SetToBag({row})
    BY <1>12, <1>14
  <2>3. PaidFits(e)
    BY <1>6, <1>12, <2>1, <2>2, RowFits
  <2> QED
    BY <1>11, <2>3
<1> QED
  BY <1>9, <1>13, <1>14

\* Receipts and edits of them.
LEMMA ReceiveFits ==
    ASSUME PaidInv, NEW p \in Payments, NEW q \in Bodies, NEW d, Receive(p, q, d)
    PROVE  \E e : PaidFits(e) /\ Commit(e)
<1>1. PICK e : e = SettleEffect(p, q, d, {}, {})
  OBVIOUS
<1>2. e.gone = Copies({}) /\ e.new = Settlement(p, q, d) /\ e.invoice = <<>>
  BY <1>1 DEF SettleEffect, Nothing
<1>3. Settles(p, q, d, {}, {}) /\ Commit(e)
  BY <1>1 DEF Receive
<1>4. \A c \in q.credits : c.src # p
  BY DEF Receive, Unused, Settles, SourcesHold, IsKind
<1>5. {} \in SUBSET DOMAIN apps
  OBVIOUS
<1>6. PaidFits(e)
  BY <1>2, <1>3, <1>4, <1>5, SettleFits
<1> QED
  BY <1>3, <1>6

LEMMA UpdatePaymentFits ==
    ASSUME PaidInv, NEW p \in Payments, NEW q \in Bodies, NEW d, UpdatePayment(p, q, d)
    PROVE  \E e : PaidFits(e) /\ Commit(e)
<1>1. PICK gone : gone = SetAside(p)
  OBVIOUS
<1>2. PICK undrawn : undrawn = DrawsInside(p)
  OBVIOUS
<1>3. PICK e : e = [SettleEffect(p, q, d, gone, undrawn) EXCEPT
                       !.ar = @ + payment[p].total + payment[p].adj,
                       !.clearing = @ - InClearing(payment[p].to, payment[p].total)]
  OBVIOUS
<1>4. Settles(p, q, d, gone, undrawn) /\ Commit(e)
  BY <1>1, <1>2, <1>3 DEF UpdatePayment, MayUpdatePayment, UpdatePaymentEffect
<1>5. e.gone = Copies(gone) /\ e.new = Settlement(p, q, d) /\ e.invoice = <<>>
  BY <1>3 DEF SettleEffect, Nothing
<1>6. \A c \in q.credits : c.src # p
  BY DEF UpdatePayment, MayUpdatePayment, UpdatePaymentEffect
<1>7. gone \in SUBSET DOMAIN apps
  BY <1>1 DEF SetAside, RowsOf, LiveApplications, CreditsAppliedIn
<1>8. PaidFits(e)
  BY <1>4, <1>5, <1>6, <1>7, SettleFits
<1> QED
  BY <1>4, <1>8

\* Voids and taking a credit off take rows away.
LEMMA VoidPaymentFits ==
    ASSUME PaidInv, NEW p \in Payments, VoidPayment(p)
    PROVE  \E e : PaidFits(e) /\ Commit(e)
<1>1. PICK e : e = VoidPaymentEffect(p)
  OBVIOUS
<1>2. PICK R : R = RowsOf({p} \cup DrawsInside(p))
  OBVIOUS
<1>3. e.gone = Copies(R) /\ e.new = EmptyBag /\ e.invoice = <<>> /\ Commit(e)
  BY <1>1, <1>2 DEF VoidPaymentEffect, VoidPayment, Nothing
<1>4. R \in SUBSET DOMAIN apps
  BY <1>2 DEF RowsOf, LiveApplications, CreditsAppliedIn
<1>5. FiniteBag(e.gone) /\ WithinBag(e.gone, apps)
  BY <1>3, <1>4, CopiesFit
<1> QED
  BY <1>3, <1>5, TakingFits

LEMMA VoidMemoFits ==
    ASSUME PaidInv, NEW p \in Payments, VoidMemo(p)
    PROVE  \E e : PaidFits(e) /\ Commit(e)
<1>1. PICK R : R = LiveApplications(p)
  OBVIOUS
<1>2. PICK e : e = [Nothing EXCEPT !.gone = Copies(R), !.payment = Voided({p}), !.ar = payment[p].total]
  OBVIOUS
<1>3. e.gone = Copies(R) /\ e.new = EmptyBag /\ e.invoice = <<>> /\ Commit(e)
  BY <1>1, <1>2 DEF VoidMemo, Nothing
<1>4. R \in SUBSET DOMAIN apps
  BY <1>1 DEF LiveApplications
<1>5. FiniteBag(e.gone) /\ WithinBag(e.gone, apps)
  BY <1>3, <1>4, CopiesFit
<1> QED
  BY <1>3, <1>5, TakingFits

LEMMA OneRowGone ==
    ASSUME PaidInv, NEW r \in DOMAIN apps
    PROVE  FiniteBag(SetToBag({r})) /\ WithinBag(SetToBag({r}), apps)
<1>1. PICK G : G = SetToBag({r})
  OBVIOUS
<1>2. DOMAIN G = {r} /\ G[r] = 1
  BY <1>1 DEF SetToBag
<1>3. apps[r] \in Nat \ {0}
  BY DEF PaidInv, Typed, FiniteBag
<1>4. IsFiniteSet({r})
  BY FS_Singleton
<1>5. IsFiniteSet(DOMAIN G)
  BY <1>2, <1>4
<1>6. \A x \in DOMAIN G : x = r /\ G[x] = 1
  BY <1>2
<1> QED
  BY <1>1, <1>3, <1>5, <1>6 DEF FiniteBag, WithinBag

LEMMA UnapplyFits ==
    ASSUME PaidInv, NEW p \in Payments, NEW r \in DOMAIN apps, Unapply(p, r)
    PROVE  \E e : PaidFits(e) /\ Commit(e)
<1>1. PICK e : e = [Nothing EXCEPT !.gone = SetToBag({r})]
  OBVIOUS
<1>2. e.gone = SetToBag({r}) /\ e.new = EmptyBag /\ e.invoice = <<>> /\ Commit(e)
  BY <1>1 DEF Unapply, Nothing
<1> QED
  BY <1>2, OneRowGone, TakingFits

\* The other operations write no application rows.
LEMMA OthersFit ==
    ASSUME PaidInv, HoldStep \/ RefundStep \/ DepositStep \/ \E m \in Payments, total \in Amounts : UpdateMemo(m, total)
    PROVE  \E e : PaidFits(e) /\ Commit(e)
<1>1. PICK e : e.gone = EmptyBag /\ e.new = EmptyBag /\ e.invoice = <<>> /\ Commit(e)
  <2>1. CASE HoldStep
    BY <2>1, ZenonT(60) DEF HoldStep, ReceiveHold, UpdateHold, Nothing
  <2>2. CASE RefundStep
    <3>1. ASSUME NEW p, NEW total, NEW x, Commit(RefundEffect(p, total, x))
          PROVE  \E e : e.gone = EmptyBag /\ e.new = EmptyBag /\ e.invoice = <<>> /\ Commit(e)
      <4>1. PICK e : e = RefundEffect(p, total, x)
        OBVIOUS
      <4>2. e.gone = EmptyBag /\ e.new = EmptyBag /\ e.invoice = <<>>
        BY <4>1 DEF RefundEffect, Nothing
      <4> QED
        BY <3>1, <4>1, <4>2
    <3> QED
      BY <2>2, <3>1 DEF RefundStep, Refund, VoidRefund
  <2>3. CASE DepositStep
    <3>1. ASSUME NEW d, NEW st, NEW items, Commit(DepositEffect(d, st, items))
          PROVE  \E e : e.gone = EmptyBag /\ e.new = EmptyBag /\ e.invoice = <<>> /\ Commit(e)
      <4>1. PICK e : e = DepositEffect(d, st, items)
        OBVIOUS
      <4>2. e.gone = EmptyBag /\ e.new = EmptyBag /\ e.invoice = <<>>
        BY <4>1 DEF DepositEffect, Nothing
      <4> QED
        BY <3>1, <4>1, <4>2
    <3> QED
      BY <2>3, <3>1 DEF DepositStep, CreateDeposit, UpdateDeposit, VoidDeposit
  <2>4. CASE \E m \in Payments, total \in Amounts : UpdateMemo(m, total)
    BY <2>4 DEF UpdateMemo, Nothing
  <2> QED
    BY <2>1, <2>2, <2>3, <2>4
<1> QED
  BY <1>1, PlainFits

\* Every step of the next-state relation fits what the invoices can take.
LEMMA StepFits ==
    ASSUME PayInv, PaidInv, PaymentsNext
    PROVE  \E e : PaidFits(e) /\ Commit(e)
<1>1. CASE ReceiptStep
  <2>1. CASE \E p \in Payments, q \in Bodies : \E d \in DrawIds(p, FromHold(q) # {}) : Receive(p, q, d)
    BY <2>1, ReceiveFits
  <2>2. CASE \E p \in Payments, q \in Bodies : \E d \in DrawIds(p, FromHold(q) # {}) : UpdatePayment(p, q, d)
    BY <2>2, UpdatePaymentFits
  <2>3. CASE \E p \in Payments : VoidPayment(p)
    BY <2>3, VoidPaymentFits
  <2> QED
    BY <1>1, <2>1, <2>2, <2>3 DEF ReceiptStep, OfKind
<1>2. Amounts \subseteq Int
  BY PaymentsAssumption DEF Amounts
<1>3. CASE HoldStep \/ RefundStep \/ DepositStep
  BY <1>3, OthersFit
<1>4. CASE CreditStep
  BY <1>2, <1>4, ApplyFits, UnapplyFits DEF CreditStep
<1>5. CASE BounceStep
  BY <1>5, BounceFits, VoidBounceFits DEF BounceStep
<1>6. CASE MemoStep
  <2>1. CASE \E m \in Payments, total \in Amounts : UpdateMemo(m, total)
    BY <2>1, OthersFit
  <2>2. CASE \E m \in Payments : VoidMemo(m)
    BY <2>2, VoidMemoFits
  <2>3. CASE \E m \in Payments, total \in Amounts, i \in Invoices : \E on \in {{}, {i}} : CreateMemo(m, total, on)
    BY <1>2, <2>3, CreateMemoFits
  <2> QED
    BY <1>6, <2>1, <2>2, <2>3 DEF MemoStep
<1>7. CASE InvoiceStep
  <2>1. PICK i \in Invoices : VoidInvoice(i) \/ \E total \in Amounts : UpdateInvoice(i, total)
    BY <1>7 DEF InvoiceStep
  <2>2. PICK total \in Int : UpdateInvoice(i, total) \/ VoidInvoice(i)
    BY <1>2, <2>1
  <2> QED
    BY <2>2, InvoiceFits
<1> QED
  BY <1>1, <1>3, <1>4, <1>5, <1>6, <1>7 DEF PaymentsNext

LEMMA PaidInit == PaymentsInit => PaidInv
<1> SUFFICES ASSUME PaymentsInit PROVE PaidInv
  OBVIOUS
<1>1. PICK A : A = EmptyBag
  OBVIOUS
<1>2. DOMAIN A = {} /\ apps = A
  BY <1>1 DEF EmptyBag, SetToBag, PaymentsInit
<1>3. Typed(A)
  BY <1>1, <1>2, WeighNone DEF Typed
<1>4. \A i : PaidBy(A, i) = 0
  BY <1>1, <1>3, WeighNone, PaidIsWeight
<1>5. ASSUME NEW i \in Invoices PROVE PaidTies(i)
  <2>1. invoice[i] = [st |-> "posted", total |-> InvoiceTotal, paid |-> 0, balance |-> InvoiceTotal]
    BY DEF PaymentsInit
  <2>2. /\ invoice[i] \in InvoiceRow /\ invoice[i].paid = 0 /\ invoice[i].total = InvoiceTotal
        /\ invoice[i].balance = InvoiceTotal /\ InvoiceTotal \in Nat
    BY <2>1, PaymentsAssumption DEF InvoiceRow
  <2> QED
    BY <1>2, <1>4, <2>2 DEF PaidTies
<1> QED
  BY <1>2, <1>3, <1>5 DEF PaidInv, PaymentsInit

LEMMA PaidNext ==
    ASSUME PayInv, PaidInv, [PaymentsNext]_vars
    PROVE  PaidInv'
<1>1. CASE PaymentsNext
  <2>1. PICK e : PaidFits(e) /\ Commit(e)
    BY <1>1, StepFits
  <2> QED
    BY <2>1, FitsKeepsPaid
<1>2. CASE UNCHANGED vars
  <2>1. apps' = apps /\ invoice' = invoice
    BY <1>2 DEF vars
  <2>2. \A i : PaidBy(apps, i)' = PaidBy(apps, i)
    BY <2>1
  <2>3. Typed(apps)' <=> Typed(apps)
    BY <2>1
  <2> QED
    BY <2>1, <2>2, <2>3 DEF PaidInv, PaidTies
<1> QED
  BY <1>1, <1>2

\* PaidInv is inductive beside PayInv: moveInvoicePaid's sums, row by row.
THEOREM PaidInvariant == PaymentsSpec => [](PayInv /\ PaidInv)
<1>1. PaymentsInit => PayInv /\ PaidInv
  BY InitInv, PaidInit
<1>2. (PayInv /\ PaidInv) /\ [PaymentsNext]_vars => (PayInv /\ PaidInv)'
  BY NextInv, PaidNext
<1> QED
  BY <1>1, <1>2, PTL DEF PaymentsSpec

\* The amount_paid that moveInvoicePaid keeps by adding and taking away is on
\* every invoice what the live rows settle, and balance_due is never negative.
THEOREM PaidMatches == PaymentsSpec => []PaidMatchesApplications
<1>1. PaidInv => PaidMatchesApplications
  BY DEF PaidInv, PaidTies, PaidMatchesApplications, PaidBy
<1> QED
  BY <1>1, PaidInvariant, PTL

-----------------------------------------------------------------------------
(* No source gives more than it received.                                  *)

\* The cash of the rows of a payment, live or reversed; what a row of
\* payments draws on a held deposit, and the draws on one together.
CashOn(A, p) == Weigh(A, CashFrom(p))
DrawFor(row, p) == IF row.kind = "draw" /\ row.st = "posted" /\ row.from = p THEN row.total ELSE 0
Drawn(p) == SumOn([d \in Payments |-> DrawFor(payment[d], p)], Payments)

\* Reversed rows count: they come back when the bounce is voided.
CreditHolds(p) ==
    /\ payment[p].total \in Nat /\ refund[p] \in Nat
    /\ IsKind(p, {"payment", "memo"}) => refund[p] + CashOn(apps, p) <= payment[p].total
    /\ IsKind(p, {"hold"}) => refund[p] + Drawn(p) <= payment[p].total
    /\ IsKind(p, {"none"}) => refund[p] = 0
CreditInv == \A p \in Payments : CreditHolds(p)

RefundAfter(e, p) == IF p \in DOMAIN e.refund THEN e.refund[p] ELSE refund[p]
DrawnAfter(e, p) == SumOn([d \in Payments |-> DrawFor(After(e, d), p)], Payments)
CreditFits(e, p) ==
    /\ After(e, p).total \in Nat /\ RefundAfter(e, p) \in Nat
    /\ After(e, p).kind \in {"payment", "memo"} =>
          RefundAfter(e, p) + CashOn(apps, p) - CashOn(e.gone, p) + CashOn(e.new, p) <= After(e, p).total
    /\ After(e, p).kind = "hold" => RefundAfter(e, p) + DrawnAfter(e, p) <= After(e, p).total
    /\ After(e, p).kind = "none" => RefundAfter(e, p) = 0
InPayments(e) == DOMAIN e.payment \subseteq Payments /\ DOMAIN e.refund \subseteq Payments
CreditsFit(e) == RowsFit(e) /\ InPayments(e) /\ \A p \in Payments : CreditFits(e, p)

LEMMA CashIsNat == ASSUME NEW A, Typed(A), NEW p PROVE CashOn(A, p) \in Nat
<1>1. PICK V : V = CashFrom(p)
  OBVIOUS
<1>2. \A r \in DOMAIN A : V[r] \in Nat
  BY <1>1, WeightsAreNat DEF Typed
<1>3. FiniteBag(A)
  BY DEF Typed
<1> QED
  BY <1>1, <1>2, <1>3, WeighNat DEF CashOn

LEMMA CashAfter ==
    ASSUME PaidInv, NEW e, RowsFit(e), Commit(e), NEW p
    PROVE  CashOn(apps', p) = CashOn(apps, p) - CashOn(e.gone, p) + CashOn(e.new, p)
<1>1. PICK A, G, N, B : A = apps /\ G = e.gone /\ N = e.new /\ B = apps'
  OBVIOUS
<1>2. B = (A (-) G) (+) N
  BY <1>1 DEF Commit
<1>3. Typed(A) /\ Typed(G) /\ Typed(N) /\ WithinBag(G, A)
  BY <1>1, TypedRows DEF PaidInv, RowsFit
<1>4. FiniteBag(A) /\ FiniteBag(G) /\ FiniteBag(N) /\ DOMAIN A \cup DOMAIN N \subseteq Application
  BY <1>3 DEF Typed
<1>5. PICK V : V = CashFrom(p)
  OBVIOUS
<1>6. \A r \in DOMAIN A \cup DOMAIN N : V[r] \in Int
  BY <1>4, <1>5, WeightsAreNat
<1>7. Weigh(B, V) = Weigh(A, V) - Weigh(G, V) + Weigh(N, V)
  BY <1>2, <1>3, <1>4, <1>6, WeighAfter
<1> QED
  BY <1>1, <1>5, <1>7 DEF CashOn

LEMMA FitsKeepsCredit ==
    ASSUME PayInv, PaidInv, CreditInv, NEW e, CreditsFit(e), Commit(e)
    PROVE  CreditInv'
<1>1. RowsFit(e) /\ InPayments(e) /\ \A p \in Payments : CreditFits(e, p)
  BY DEF CreditsFit
<1>2. \A p \in Payments : payment'[p] = After(e, p) /\ refund'[p] = RefundAfter(e, p)
  BY <1>1 DEF Commit, Over, After, RefundAfter, PayInv, Tables, InPayments
<1>3. ASSUME NEW p \in Payments
      PROVE  SumOn([d \in Payments |-> DrawFor(payment'[d], p)], Payments) = DrawnAfter(e, p)
  <2>1. PICK f, g : f = [d \in Payments |-> DrawFor(payment'[d], p)] /\ g = [d \in Payments |-> DrawFor(After(e, d), p)]
    OBVIOUS
  <2>2. f = g
    BY <1>2, <2>1
  <2> QED
    BY <2>1, <2>2 DEF DrawnAfter
<1>4. ASSUME NEW p \in Payments PROVE CreditHolds(p)'
  <2>1. CreditFits(e, p) /\ payment'[p] = After(e, p) /\ refund'[p] = RefundAfter(e, p)
    BY <1>1, <1>2
  <2>2. CashOn(apps', p) = CashOn(apps, p) - CashOn(e.gone, p) + CashOn(e.new, p)
    BY <1>1, CashAfter
  <2>3. /\ Typed(apps) /\ Typed(e.gone) /\ Typed(e.new)
    BY <1>1, TypedRows DEF PaidInv
  <2>4. CashOn(apps, p) \in Nat /\ CashOn(e.gone, p) \in Nat /\ CashOn(e.new, p) \in Nat
    BY <2>3, CashIsNat
  <2>5. CashOn(apps, p)' = CashOn(apps', p)
    BY DEF CashOn
  <2>6. Drawn(p)' = DrawnAfter(e, p)
    BY <1>3 DEF Drawn
  <2>7. IsKind(p, {"payment", "memo"})' => refund'[p] + CashOn(apps, p)' <= payment'[p].total
    <3>1. SUFFICES ASSUME After(e, p).kind \in {"payment", "memo"}
                   PROVE  RefundAfter(e, p) + (CashOn(apps, p) - CashOn(e.gone, p) + CashOn(e.new, p)) <= After(e, p).total
      BY <2>1, <2>2, <2>5 DEF IsKind
    <3>2. RefundAfter(e, p) + CashOn(apps, p) - CashOn(e.gone, p) + CashOn(e.new, p) <= After(e, p).total
      BY <2>1, <3>1 DEF CreditFits
    <3>3. RefundAfter(e, p) \in Nat /\ After(e, p).total \in Nat
      BY <2>1 DEF CreditFits
    <3> QED
      BY <2>4, <3>2, <3>3
  <2> QED
    BY <2>1, <2>6, <2>7 DEF CreditHolds, CreditFits, IsKind
<1> QED
  BY <1>4 DEF CreditInv

-----------------------------------------------------------------------------
(* Draws.                                                                  *)

LEMMA DrawIsNat == ASSUME CreditInv, NEW d \in Payments, NEW p PROVE DrawFor(payment[d], p) \in Nat
BY DEF CreditInv, CreditHolds, DrawFor

\* The draws on p but for some of them.
LEMMA DrawnBut ==
    ASSUME CreditInv, NEW p \in Payments, NEW U,
           NEW f, \A d \in Payments : f[d] = IF d \in U THEN 0 ELSE DrawFor(payment[d], p)
    PROVE  TotalOf(LiveDraws(p) \ U) = SumOn(f, Payments) /\ TotalOf(LiveDraws(p) \ U) \in Nat
<1>1. PICK D : D = LiveDraws(p) \ U
  OBVIOUS
<1>2. PICK g : g = [d \in D |-> payment[d].total]
  OBVIOUS
<1>3. TotalOf(D) = SumOn(g, D)
  BY <1>2 DEF TotalOf, SumOver, SumOn
<1>4. D \in SUBSET Payments
  BY <1>1 DEF LiveDraws
<1>5. \A d \in D : g[d] \in Int /\ f[d] = g[d]
  BY <1>1, <1>2, <1>4, DrawIsNat DEF LiveDraws, IsKind, Posted, DrawFor
<1>6. \A d \in Payments \ D : f[d] = 0
  BY <1>1 DEF LiveDraws, IsKind, Posted, DrawFor
<1>7. IsFiniteSet(Payments)
  BY PaymentsAssumption
<1>8. SumOn(f, Payments) = SumOn(g, D)
  BY <1>4, <1>5, <1>6, <1>7, SumOnPadded
<1>9. \A d \in Payments : f[d] \in Nat
  BY DrawIsNat
<1>10. SumOn(f, Payments) \in Nat
  BY <1>7, <1>9, SumOnNonneg
<1> QED
  BY <1>1, <1>3, <1>8, <1>10

LEMMA DrawnIsTotal ==
    ASSUME CreditInv, NEW p \in Payments
    PROVE  TotalOf(LiveDraws(p)) = Drawn(p) /\ Drawn(p) \in Nat
<1>1. PICK f : f = [d \in Payments |-> DrawFor(payment[d], p)]
  OBVIOUS
<1>2. PICK U : U = {}
  OBVIOUS
<1>3. \A d \in Payments : f[d] = IF d \in U THEN 0 ELSE DrawFor(payment[d], p)
  BY <1>1, <1>2
<1>4. TotalOf(LiveDraws(p) \ U) = SumOn(f, Payments) /\ TotalOf(LiveDraws(p) \ U) \in Nat
  BY <1>3, DrawnBut
<1>5. LiveDraws(p) \ U = LiveDraws(p)
  BY <1>2
<1> QED
  BY <1>1, <1>4, <1>5 DEF Drawn

\* An effect that makes no draw, or one of n, over the draws it takes back.
LEMMA DrawnRises ==
    ASSUME CreditInv, NEW e, NEW p \in Payments, NEW U, NEW x \in Payments, NEW n \in Nat,
           DrawFor(payment[x], p) = 0, DrawFor(After(e, x), p) = n,
           \A d \in Payments \ {x} : /\ DrawFor(After(e, d), p) \in Int
                                     /\ DrawFor(After(e, d), p) <= IF d \in U THEN 0 ELSE DrawFor(payment[d], p)
    PROVE  DrawnAfter(e, p) \in Int /\ DrawnAfter(e, p) <= TotalOf(LiveDraws(p) \ U) + n
<1>1. PICK f : f = [d \in Payments |-> IF d \in U THEN 0 ELSE DrawFor(payment[d], p)]
  OBVIOUS
<1>2. PICK h : h = [d \in Payments |-> IF d = x THEN n ELSE f[d]]
  OBVIOUS
<1>3. PICK g : g = [d \in Payments |-> DrawFor(After(e, d), p)]
  OBVIOUS
<1>4. IsFiniteSet(Payments)
  BY PaymentsAssumption
<1>5. \A d \in Payments : f[d] \in Int /\ h[d] \in Int /\ g[d] \in Int
  <2>1. \A d \in Payments : f[d] \in Int
    BY <1>1, DrawIsNat
  <2>2. \A d \in Payments : h[d] \in Int
    BY <1>2, <2>1
  <2>3. \A d \in Payments : g[d] \in Int
    BY <1>3
  <2> QED
    BY <2>1, <2>2, <2>3
<1>6. f[x] = 0 /\ h[x] = n /\ \A d \in Payments \ {x} : h[d] = f[d]
  BY <1>1, <1>2
<1>7. SumOn(h, Payments) = SumOn(f, Payments) + h[x] - f[x]
  <2>1. (\A d \in Payments : f[d] \in Int /\ h[d] \in Int) /\ (\A d \in Payments \ {x} : h[d] = f[d])
    BY <1>5, <1>6
  <2> QED
    BY <1>4, <2>1, SumOnChange
<1>8. \A d \in Payments : g[d] \in Int /\ h[d] \in Int /\ g[d] <= h[d]
  BY <1>1, <1>2, <1>3, <1>5
<1>9. SumOn(g, Payments) <= SumOn(h, Payments)
  BY <1>4, <1>8, SumOnMonotone
<1>10. SumOn(f, Payments) \in Int /\ SumOn(g, Payments) \in Int
  BY <1>4, <1>5, SumOnType
<1>11. TotalOf(LiveDraws(p) \ U) = SumOn(f, Payments)
  <2>1. \A d \in Payments : f[d] = IF d \in U THEN 0 ELSE DrawFor(payment[d], p)
    BY <1>1
  <2> QED
    BY <2>1, DrawnBut
<1> QED
  BY <1>3, <1>6, <1>7, <1>9, <1>10, <1>11 DEF DrawnAfter

\* No row written is a posted draw.
DrawsNone(e) == \A d \in DOMAIN e.payment : e.payment[d].total \in Nat /\ (e.payment[d].kind # "draw" \/ e.payment[d].st # "posted")

LEMMA DrawnFalls ==
    ASSUME CreditInv, NEW e, DrawsNone(e), NEW p \in Payments
    PROVE  DrawnAfter(e, p) \in Int /\ DrawnAfter(e, p) <= Drawn(p)
<1>1. PICK f, g : f = [d \in Payments |-> DrawFor(payment[d], p)] /\ g = [d \in Payments |-> DrawFor(After(e, d), p)]
  OBVIOUS
<1>2. IsFiniteSet(Payments)
  BY PaymentsAssumption
<1>3. \A d \in Payments : g[d] \in Int /\ f[d] \in Int /\ g[d] <= f[d]
  <2>1. ASSUME NEW d \in Payments PROVE g[d] \in Int /\ f[d] \in Int /\ g[d] <= f[d]
    <3>1. f[d] \in Nat /\ f[d] = DrawFor(payment[d], p) /\ g[d] = DrawFor(After(e, d), p)
      BY <1>1, DrawIsNat
    <3>2. CASE d \in DOMAIN e.payment
      <4>1. g[d] = 0
        BY <3>1, <3>2 DEF After, DrawsNone, DrawFor
      <4> QED
        BY <3>1, <4>1
    <3>3. CASE d \notin DOMAIN e.payment
      <4>1. g[d] = f[d]
        BY <3>1, <3>3 DEF After
      <4> QED
        BY <3>1, <4>1
    <3> QED
      BY <3>2, <3>3
  <2> QED
    BY <2>1
<1>4. SumOn(g, Payments) <= SumOn(f, Payments)
  BY <1>2, <1>3, SumOnMonotone
<1>5. SumOn(g, Payments) \in Int
  BY <1>2, <1>3, SumOnType
<1> QED
  BY <1>1, <1>4, <1>5 DEF Drawn, DrawnAfter

\* An effect that leaves the credit of p no smaller.
Quiet(e, p) ==
    /\ After(e, p).kind = payment[p].kind /\ After(e, p).total = payment[p].total
    /\ RefundAfter(e, p) \in Nat /\ RefundAfter(e, p) <= refund[p]
    /\ CashOn(e.new, p) <= CashOn(e.gone, p)

LEMMA QuietFits ==
    ASSUME PaidInv, CreditInv, NEW e, RowsFit(e), NEW p \in Payments, Quiet(e, p),
           DrawnAfter(e, p) \in Int, DrawnAfter(e, p) <= Drawn(p)
    PROVE  CreditFits(e, p)
<1>1. CreditHolds(p)
  BY DEF CreditInv
<1>2. Typed(apps) /\ Typed(e.gone) /\ Typed(e.new)
  BY TypedRows DEF PaidInv
<1>3. CashOn(apps, p) \in Nat /\ CashOn(e.gone, p) \in Nat /\ CashOn(e.new, p) \in Nat
  BY <1>2, CashIsNat
<1>4. PICK ref, total, cash, gone, new :
         /\ ref = RefundAfter(e, p) /\ total = After(e, p).total /\ cash = CashOn(apps, p)
         /\ gone = CashOn(e.gone, p) /\ new = CashOn(e.new, p)
  OBVIOUS
<1>5. ref \in Nat /\ refund[p] \in Nat /\ ref <= refund[p] /\ total = payment[p].total /\ total \in Nat /\ new <= gone
  BY <1>1, <1>4 DEF Quiet, CreditHolds
<1>6. payment[p].kind \in {"payment", "memo"} => ref + cash - gone + new <= total
  BY <1>1, <1>3, <1>4, <1>5 DEF CreditHolds, IsKind
<1>7. payment[p].kind = "hold" => ref + DrawnAfter(e, p) <= total
  <2>1. Drawn(p) \in Nat
    BY DrawnIsTotal
  <2> QED
    BY <1>1, <1>5, <2>1 DEF CreditHolds, IsKind
<1>8. payment[p].kind = "none" => ref = 0
  BY <1>1, <1>5 DEF CreditHolds, IsKind
<1> QED
  BY <1>4, <1>5, <1>6, <1>7, <1>8 DEF CreditFits, Quiet

-----------------------------------------------------------------------------
(* The operations that give no credit away.                                *)

LEMMA QuietStep ==
    ASSUME PaidInv, CreditInv, NEW e, RowsFit(e), Commit(e), InPayments(e), DrawsNone(e),
           \A p \in Payments : Quiet(e, p)
    PROVE  CreditsFit(e)
<1>1. ASSUME NEW p \in Payments PROVE CreditFits(e, p)
  BY DrawnFalls, QuietFits
<1> QED
  BY <1>1 DEF CreditsFit

\* Taking rows away frees credit.
LEMMA TakenCash ==
    ASSUME PaidInv, NEW e, RowsFit(e), e.new = EmptyBag, NEW p
    PROVE  CashOn(e.new, p) = 0 /\ CashOn(e.gone, p) \in Nat /\ CashOn(e.new, p) <= CashOn(e.gone, p)
<1>1. CashOn(EmptyBag, p) = 0
  BY WeighNone DEF CashOn
<1>2. Typed(e.gone)
  BY TypedRows
<1>3. CashOn(e.gone, p) \in Nat
  BY <1>2, CashIsNat
<1> QED
  BY <1>1, <1>3

\* Voids of rows of D, with the application rows R.
LEMMA VoidQuiet ==
    ASSUME PayInv, PaidInv, CreditInv, NEW D \in SUBSET Payments, NEW R \in SUBSET DOMAIN apps,
           NEW e, Commit(e), e.gone = Copies(R), e.new = EmptyBag, e.payment = Voided(D), e.refund = <<>>
    PROVE  CreditsFit(e)
<1>1. FiniteBag(e.gone) /\ WithinBag(e.gone, apps)
  BY CopiesFit
<1>2. RowsFit(e)
  BY <1>1, NoneFits DEF RowsFit
<1>3. DOMAIN e.payment = D /\ DOMAIN e.refund = {}
  BY DEF Voided
<1>4. \A d \in D : payment[d].total \in Nat
  BY DEF CreditInv, CreditHolds
<1>5. ASSUME NEW d \in D
      PROVE  /\ e.payment[d].kind = payment[d].kind /\ e.payment[d].total = payment[d].total
             /\ e.payment[d].st # "posted"
  <2>1. e.payment[d] = [payment[d] EXCEPT !.st = "void"]
    BY DEF Voided
  <2>2. PaymentShape(payment[d])
    BY DEF PayInv, Tables
  <2> QED
    BY <2>1, <2>2 DEF PaymentShape
<1>6. DrawsNone(e)
  BY <1>3, <1>4, <1>5 DEF DrawsNone
<1>7. ASSUME NEW p \in Payments PROVE Quiet(e, p)
  <2>1. After(e, p).kind = payment[p].kind /\ After(e, p).total = payment[p].total
    BY <1>3, <1>5 DEF After
  <2>2. RefundAfter(e, p) = refund[p] /\ refund[p] \in Nat
    BY <1>3 DEF RefundAfter, CreditInv, CreditHolds
  <2>3. CashOn(e.new, p) <= CashOn(e.gone, p)
    BY <1>2, TakenCash
  <2> QED
    BY <2>1, <2>2, <2>3 DEF Quiet
<1> QED
  BY <1>2, <1>3, <1>6, <1>7, QuietStep DEF InPayments

\* Steps that write no payment row: the refunds fall, or stay, and the rows
\* added weigh what the ones taken away do.
LEMMA StillQuiet ==
    ASSUME PaidInv, CreditInv, NEW e, RowsFit(e), Commit(e), e.payment = <<>>, DOMAIN e.refund \subseteq Payments,
           \A p \in Payments : /\ RefundAfter(e, p) \in Nat /\ RefundAfter(e, p) <= refund[p]
                              /\ CashOn(e.new, p) <= CashOn(e.gone, p)
    PROVE  CreditsFit(e)
<1>1. DOMAIN e.payment = {}
  OBVIOUS
<1>2. DrawsNone(e) /\ InPayments(e)
  BY <1>1 DEF DrawsNone, InPayments
<1>3. \A p \in Payments : After(e, p) = payment[p]
  BY <1>1 DEF After
<1>4. \A p \in Payments : Quiet(e, p)
  BY <1>3 DEF Quiet
<1> QED
  BY <1>2, <1>4, QuietStep

LEMMA VoidPaymentCredit ==
    ASSUME PayInv, PaidInv, CreditInv, NEW p \in Payments, VoidPayment(p)
    PROVE  \E e : CreditsFit(e) /\ Commit(e)
<1>1. PICK e : e = VoidPaymentEffect(p)
  OBVIOUS
<1>2. PICK D : D = {p} \cup DrawsInside(p)
  OBVIOUS
<1>3. PICK R : R = RowsOf(D)
  OBVIOUS
<1>4. Commit(e)
  BY <1>1 DEF VoidPayment
<1>5. e.gone = Copies(R) /\ e.new = EmptyBag /\ e.payment = Voided(D) /\ e.refund = <<>>
  BY <1>1, <1>2, <1>3 DEF VoidPaymentEffect, Nothing
<1>6. R \in SUBSET DOMAIN apps /\ D \in SUBSET Payments
  BY <1>2, <1>3 DEF RowsOf, LiveApplications, CreditsAppliedIn, DrawsInside
<1>7. CreditsFit(e)
  BY <1>4, <1>5, <1>6, VoidQuiet
<1> QED
  BY <1>4, <1>7

LEMMA VoidMemoCredit ==
    ASSUME PayInv, PaidInv, CreditInv, NEW m \in Payments, VoidMemo(m)
    PROVE  \E e : CreditsFit(e) /\ Commit(e)
<1>1. PICK e : e = [Nothing EXCEPT !.gone = Copies(LiveApplications(m)), !.payment = Voided({m}), !.ar = payment[m].total]
  OBVIOUS
<1>2. PICK D, R : D = {m} /\ R = LiveApplications(m)
  OBVIOUS
<1>3. Commit(e)
  BY <1>1 DEF VoidMemo
<1>4. e.gone = Copies(R) /\ e.new = EmptyBag /\ e.payment = Voided(D) /\ e.refund = <<>>
  BY <1>1, <1>2 DEF Nothing
<1>5. R \in SUBSET DOMAIN apps /\ D \in SUBSET Payments
  BY <1>2 DEF LiveApplications
<1>6. CreditsFit(e)
  BY <1>3, <1>4, <1>5, VoidQuiet
<1> QED
  BY <1>3, <1>6

LEMMA UnapplyCredit ==
    ASSUME PayInv, PaidInv, CreditInv, NEW p \in Payments, NEW r \in DOMAIN apps, Unapply(p, r)
    PROVE  \E e : CreditsFit(e) /\ Commit(e)
<1>1. PICK e : e = [Nothing EXCEPT !.gone = SetToBag({r})]
  OBVIOUS
<1>2. e.gone = SetToBag({r}) /\ e.new = EmptyBag /\ e.payment = <<>> /\ e.refund = <<>> /\ Commit(e)
  BY <1>1 DEF Unapply, Nothing
<1>3. RowsFit(e)
  BY <1>2, OneRowGone, NoneFits DEF RowsFit
<1>4. \A x \in Payments : RefundAfter(e, x) \in Nat /\ RefundAfter(e, x) <= refund[x]
  BY <1>2 DEF RefundAfter, CreditInv, CreditHolds
<1>5. \A x : CashOn(e.new, x) <= CashOn(e.gone, x)
  BY <1>2, <1>3, TakenCash
<1>6. DOMAIN e.refund \subseteq Payments
  BY <1>2
<1> QED
  BY <1>2, <1>3, <1>4, <1>5, <1>6, StillQuiet

\* Reversed rows weigh what they weighed.
LEMMA MarkedCash ==
    ASSUME PaidInv, NEW R, R \in SUBSET DOMAIN apps, ReversedAlike(R), NEW by, by \in Payments \cup {None}, NEW p
    PROVE  Typed(Marked(R, by)) /\ CashOn(Marked(R, by), p) = CashOn(Copies(R), p)
<1>1. PICK V : V = CashFrom(p)
  OBVIOUS
<1>2. V \in [Application -> Int]
  BY <1>1, WeightsAreNat DEF CashFrom
<1>3. Typed(Marked(R, by)) /\ Weigh(Marked(R, by), V) = Weigh(Copies(R), Anew(R, by, V))
  BY <1>2, MarkedWeighs
<1>4. PICK U : U = Anew(R, by, V)
  OBVIOUS
<1>5. ASSUME NEW r \in R PROVE V[r] \in Int /\ U[r] = V[r]
  <2>1. r \in Application
    BY DEF PaidInv, Typed
  <2>2. PICK x : x = [r EXCEPT !.by = by]
    OBVIOUS
  <2>3. x \in Application /\ x.pay = r.pay /\ x.amt = r.amt
    BY <2>1, <2>2 DEF Application
  <2>4. V[x] = V[r]
    BY <1>1, <2>1, <2>3 DEF CashFrom
  <2>5. U[r] = V[x]
    BY <1>4, <2>2 DEF Anew
  <2> QED
    BY <1>2, <2>1, <2>4, <2>5
<1>6. FiniteBag(Copies(R)) /\ DOMAIN Copies(R) = R
  BY CopiesFit
<1>7. Weigh(Copies(R), U) = Weigh(Copies(R), V)
  BY <1>5, <1>6, WeighSame
<1> QED
  BY <1>1, <1>3, <1>4, <1>7 DEF CashOn

LEMMA BounceCredit ==
    ASSUME PayInv, PaidInv, CreditInv, NEW p \in Payments, BouncePayment(p) \/ VoidBounce(p)
    PROVE  \E e : CreditsFit(e) /\ Commit(e)
<1>1. ASSUME NEW R, R \in SUBSET DOMAIN apps, ReversedAlike(R), NEW by, by \in Payments \cup {None},
             NEW e, Commit(e), e.gone = Copies(R), e.new = Marked(R, by), e.payment = <<>>, e.refund = <<>>
      PROVE  CreditsFit(e)
  <2>1. \A x : Typed(e.new) /\ CashOn(e.new, x) = CashOn(e.gone, x)
    BY <1>1, MarkedCash
  <2>2. FiniteBag(e.gone) /\ WithinBag(e.gone, apps) /\ Typed(e.gone)
    BY <1>1, CopiesFit DEF Typed, PaidInv
  <2>3. RowsFit(e)
    BY <2>1, <2>2 DEF RowsFit
  <2>4. \A x : CashOn(e.gone, x) \in Nat
    BY <2>2, CashIsNat
  <2>5. \A x \in Payments : /\ RefundAfter(e, x) \in Nat /\ RefundAfter(e, x) <= refund[x]
                            /\ CashOn(e.new, x) <= CashOn(e.gone, x)
    BY <1>1, <2>1, <2>4 DEF RefundAfter, CreditInv, CreditHolds
  <2>6. DOMAIN e.refund \subseteq Payments
    BY <1>1
  <2> QED
    BY <1>1, <2>3, <2>5, <2>6, StillQuiet
<1>2. CASE BouncePayment(p)
  <2>1. PICK e, R : e = BounceEffect(p) /\ R = BounceRows(p)
    OBVIOUS
  <2>2. Commit(e) /\ e.gone = Copies(R) /\ e.new = Marked(R, p) /\ e.payment = <<>> /\ e.refund = <<>>
    BY <1>2, <2>1 DEF BouncePayment, BounceEffect, Nothing
  <2>3. R \in SUBSET DOMAIN apps /\ ReversedAlike(R)
    BY <2>1 DEF BounceRows, LiveApplications, ReversedAlike
  <2>4. CreditsFit(e)
    BY <1>1, <2>2, <2>3
  <2> QED
    BY <2>2, <2>4
<1>3. CASE VoidBounce(p)
  <2>1. PICK e, R : e = VoidBounceEffect(p) /\ R = ReversedBy(p)
    OBVIOUS
  <2>2. Commit(e) /\ e.gone = Copies(R) /\ e.new = Marked(R, None) /\ e.payment = <<>> /\ e.refund = <<>>
    BY <1>3, <2>1 DEF VoidBounce, VoidBounceEffect, Nothing
  <2>3. R \in SUBSET DOMAIN apps /\ ReversedAlike(R)
    BY <2>1 DEF ReversedBy, ReversedAlike
  <2>4. CreditsFit(e)
    BY <1>1, <2>2, <2>3
  <2> QED
    BY <2>2, <2>4
<1> QED
  BY <1>2, <1>3

\* Steps that write no application, payment or refund row.
LEMMA NothingCredit ==
    ASSUME PaidInv, CreditInv, NEW e, Commit(e), e.gone = EmptyBag, e.new = EmptyBag, e.payment = <<>>, e.refund = <<>>
    PROVE  CreditsFit(e)
<1>1. RowsFit(e)
  BY NoneFits DEF RowsFit
<1>2. \A x \in Payments : RefundAfter(e, x) \in Nat /\ RefundAfter(e, x) <= refund[x]
  BY DEF RefundAfter, CreditInv, CreditHolds
<1>3. \A x : CashOn(e.new, x) <= CashOn(e.gone, x)
  BY <1>1, TakenCash
<1>4. DOMAIN e.refund \subseteq Payments
  OBVIOUS
<1> QED
  BY <1>1, <1>2, <1>3, <1>4, StillQuiet

LEMMA OthersCredit ==
    ASSUME PaidInv, CreditInv, DepositStep \/ InvoiceStep
    PROVE  \E e : CreditsFit(e) /\ Commit(e)
<1>1. PICK e : e.gone = EmptyBag /\ e.new = EmptyBag /\ e.payment = <<>> /\ e.refund = <<>> /\ Commit(e)
  <2>1. CASE DepositStep
    <3>1. ASSUME NEW d, NEW st, NEW items, Commit(DepositEffect(d, st, items))
          PROVE  \E e : e.gone = EmptyBag /\ e.new = EmptyBag /\ e.payment = <<>> /\ e.refund = <<>> /\ Commit(e)
      <4>1. PICK e : e = DepositEffect(d, st, items)
        OBVIOUS
      <4>2. e.gone = EmptyBag /\ e.new = EmptyBag /\ e.payment = <<>> /\ e.refund = <<>>
        BY <4>1 DEF DepositEffect, Nothing
      <4> QED
        BY <3>1, <4>1, <4>2
    <3> QED
      BY <2>1, <3>1 DEF DepositStep, CreateDeposit, UpdateDeposit, VoidDeposit
  <2>2. CASE InvoiceStep
    <3>1. ASSUME NEW rows, NEW ar, Commit([Nothing EXCEPT !.invoice = rows, !.ar = ar])
          PROVE  \E e : e.gone = EmptyBag /\ e.new = EmptyBag /\ e.payment = <<>> /\ e.refund = <<>> /\ Commit(e)
      <4>1. PICK e : e = [Nothing EXCEPT !.invoice = rows, !.ar = ar]
        OBVIOUS
      <4>2. e.gone = EmptyBag /\ e.new = EmptyBag /\ e.payment = <<>> /\ e.refund = <<>>
        BY <4>1 DEF Nothing
      <4> QED
        BY <3>1, <4>1, <4>2
    <3> QED
      BY <2>2, <3>1 DEF InvoiceStep, UpdateInvoice, VoidInvoice, VoidInvoiceEffect
  <2> QED
    BY <2>1, <2>2
<1> QED
  BY <1>1, NothingCredit

-----------------------------------------------------------------------------
(* What the rows of a payment are worth.                                   *)

\* The rows of p outside G are R.
LEMMA CashLeft ==
    ASSUME PaidInv, NEW p, NEW G, G \in SUBSET DOMAIN apps, NEW R, R \in SUBSET (DOMAIN apps \ G),
           \A r \in R : r.pay = p, \A r \in DOMAIN apps \ G : r.pay = p => r \in R
    PROVE  Cash(apps, R) = CashOn(apps, p) - CashOn(Copies(G), p) /\ Cash(apps, R) \in Nat
<1>1. PICK V : V = CashFrom(p)
  OBVIOUS
<1>2. PICK F : F = [r \in DOMAIN apps |-> apps[r] * V[r]]
  OBVIOUS
<1>3. PICK f : f = [r \in R |-> apps[r] * r.amt]
  OBVIOUS
<1>4. PICK g : g = [r \in DOMAIN Copies(G) |-> Copies(G)[r] * V[r]]
  OBVIOUS
<1>5. \A r \in DOMAIN apps : r \in Application /\ apps[r] \in Nat /\ V[r] \in Nat
  BY <1>1, WeightsAreNat DEF PaidInv, Typed, FiniteBag
<1>6. \A r \in DOMAIN apps : F[r] \in Nat /\ F[r] \in Int
  BY <1>2, <1>5, NatProduct
<1>7. CashOn(apps, p) = SumOn(F, DOMAIN apps)
  BY <1>1, <1>2 DEF CashOn, Weigh
<1>8. IsFiniteSet(DOMAIN apps)
  BY DEF PaidInv, Typed, FiniteBag
<1>9. DOMAIN Copies(G) = G /\ (\A r \in G : Copies(G)[r] = apps[r])
  BY CopiesFit
<1>10. CashOn(Copies(G), p) = SumOn(g, G)
  BY <1>1, <1>4, <1>9 DEF CashOn, Weigh
<1>11. PICK S : S = DOMAIN apps \ G
  OBVIOUS
<1>12. IsFiniteSet(G) /\ IsFiniteSet(S) /\ G \cap S = {} /\ G \cup S = DOMAIN apps
  BY <1>8, <1>11, FS_Subset
<1>13. \A r \in G : F[r] \in Int /\ g[r] = F[r]
  BY <1>2, <1>4, <1>6, <1>9
<1>14. SumOn(g, G) = SumOn(F, G)
  BY <1>12, <1>13, SumOnSame
<1>15. \A r \in G \cup S : F[r] \in Int
  BY <1>6, <1>12
<1>16. SumOn(F, G \cup S) = SumOn(F, G) + SumOn(F, S)
  BY <1>12, <1>15, SumOnUnion
<1>17. \A r \in R : V[r] = r.amt
  BY <1>1, <1>5 DEF CashFrom
<1>18. \A r \in R : f[r] \in Int /\ F[r] = f[r]
  BY <1>2, <1>3, <1>6, <1>17
<1>19. \A r \in S \ R : F[r] = 0
  <2>1. ASSUME NEW r \in S \ R PROVE F[r] = 0
    <3>1. r \in DOMAIN apps /\ r.pay # p
      BY <1>11
    <3>2. V[r] = 0
      BY <1>1, <1>5, <3>1 DEF CashFrom
    <3> QED
      BY <1>2, <1>5, <3>1, <3>2
  <2> QED
    BY <2>1
<1>20. R \in SUBSET S
  BY <1>11
<1>21. SumOn(F, S) = SumOn(f, R)
  BY <1>12, <1>18, <1>19, <1>20, SumOnPadded
<1>22. Cash(apps, R) = SumOn(f, R)
  BY <1>3 DEF Cash, SumOf, SumOver, SumOn
<1>23. \A r \in S : F[r] \in Nat
  BY <1>6, <1>12
<1>24. SumOn(F, S) \in Nat /\ SumOn(F, G) \in Int
  BY <1>12, <1>15, <1>23, SumOnNonneg, SumOnType
<1> QED
  BY <1>7, <1>10, <1>12, <1>14, <1>16, <1>21, <1>22, <1>24

LEMMA CashPart ==
    ASSUME PaidInv, NEW S, S \in SUBSET DOMAIN apps, NEW R, R \in SUBSET S
    PROVE  Cash(apps, R) <= Cash(apps, S) /\ Cash(apps, R) \in Nat /\ Cash(apps, S) \in Nat
<1>1. PICK f, g : f = [r \in R |-> apps[r] * r.amt] /\ g = [r \in S |-> apps[r] * r.amt]
  OBVIOUS
<1>2. \A r \in S : apps[r] \in Nat /\ r.amt \in Nat
  BY Amounts0 DEF PaidInv, Typed, FiniteBag
<1>3. \A r \in S : g[r] \in Nat
  BY <1>1, <1>2, NatProduct
<1>4. IsFiniteSet(S) /\ IsFiniteSet(R)
  BY FS_Subset DEF PaidInv, Typed, FiniteBag
<1>5. PICK T : T = S \ R
  OBVIOUS
<1>6. IsFiniteSet(T) /\ R \cap T = {} /\ R \cup T = S
  BY <1>4, <1>5, FS_Subset
<1>7. (\A r \in R \cup T : g[r] \in Int) /\ (\A r \in T : g[r] \in Nat) /\ (\A r \in R : g[r] \in Nat)
  BY <1>3, <1>6
<1>8. SumOn(g, R \cup T) = SumOn(g, R) + SumOn(g, T)
  BY <1>4, <1>6, <1>7, SumOnUnion
<1>9. \A r \in R : g[r] \in Int /\ f[r] = g[r]
  BY <1>1, <1>7
<1>10. SumOn(f, R) = SumOn(g, R)
  BY <1>4, <1>9, SumOnSame
<1>11. SumOn(g, R) \in Nat /\ SumOn(g, T) \in Nat
  BY <1>4, <1>6, <1>7, SumOnNonneg
<1>12. Cash(apps, R) = SumOn(f, R) /\ Cash(apps, S) = SumOn(g, S)
  BY <1>1 DEF Cash, SumOf, SumOver, SumOn
<1> QED
  BY <1>6, <1>8, <1>10, <1>11, <1>12

\* No copies, no cash.
LEMMA NoCash == ASSUME NEW p PROVE CashOn(Copies({}), p) = 0
<1>1. DOMAIN Copies({}) = {}
  BY DEF Copies
<1> QED
  BY <1>1, SumOnEmpty DEF CashOn, Weigh

\* The rows of a receipt or memo that is not bounced are all live.
LEMMA LiveCash ==
    ASSUME PayInv, PaidInv, NEW p \in Payments, ~Bounced(p), IsKind(p, {"payment", "memo"}),
           NEW G, G \in SUBSET DOMAIN apps
    PROVE  /\ Cash(apps, LiveApplications(p) \ G) = CashOn(apps, p) - CashOn(Copies(G), p)
           /\ Cash(apps, LiveApplications(p) \ G) \in Nat
<1>1. \A r \in DOMAIN apps : r.pay = p => r.by = None
  BY DEF PayInv, BouncesStand, Owned, IsKind
<1>2. PICK R : R = LiveApplications(p) \ G
  OBVIOUS
<1>3. /\ R \in SUBSET (DOMAIN apps \ G) /\ (\A r \in R : r.pay = p)
      /\ (\A r \in DOMAIN apps \ G : r.pay = p => r \in R)
  BY <1>1, <1>2 DEF LiveApplications
<1> QED
  BY <1>2, <1>3, CashLeft

LEMMA LiveCashAll ==
    ASSUME PayInv, PaidInv, NEW p \in Payments, ~Bounced(p), IsKind(p, {"payment", "memo"})
    PROVE  Cash(apps, LiveApplications(p)) = CashOn(apps, p) /\ CashOn(apps, p) \in Nat
<1>1. PICK G : G = {}
  OBVIOUS
<1>2. Cash(apps, LiveApplications(p) \ G) = CashOn(apps, p) - CashOn(Copies(G), p)
  BY <1>1, LiveCash
<1>3. CashOn(Copies(G), p) = 0 /\ LiveApplications(p) \ G = LiveApplications(p)
  BY <1>1, NoCash
<1>4. CashOn(apps, p) \in Nat
  BY CashIsNat DEF PaidInv
<1> QED
  BY <1>2, <1>3, <1>4

\* A payment not inserted yet has given nothing.
LEMMA UnusedCredit ==
    ASSUME PayInv, PaidInv, CreditInv, NEW p \in Payments, Unused(p)
    PROVE  refund[p] = 0 /\ CashOn(apps, p) = 0 /\ Drawn(p) = 0
<1>1. \A r \in DOMAIN apps : r.pay # p
  BY UnusedIds
<1>2. PICK V : V = CashFrom(p)
  OBVIOUS
<1>3. \A r \in DOMAIN apps : V[r] = 0
  BY <1>1, <1>2 DEF CashFrom, PaidInv, Typed
<1>4. Weigh(apps, V) = 0
  BY <1>3, WeighZero DEF PaidInv, Typed
<1>5. refund[p] = 0
  BY DEF CreditInv, CreditHolds, Unused, IsKind
<1>6. PICK f : f = [d \in Payments |-> DrawFor(payment[d], p)]
  OBVIOUS
<1>7. \A d \in Payments : f[d] = 0
  BY <1>6 DEF DrawFor, PayInv, Kinship, Unused, IsKind
<1>8. SumOn(f, Payments) = 0
  BY <1>7, SumOnZero, PaymentsAssumption
<1> QED
  BY <1>2, <1>4, <1>5, <1>6, <1>8 DEF CashOn, Drawn

-----------------------------------------------------------------------------
(* Holds, memos and refunds.                                               *)

\* A payment row is written; the rows added are its own.
LEMMA RowWritten ==
    ASSUME PaidInv, CreditInv, NEW x \in Payments, NEW row, NEW e, Commit(e),
           e.gone = EmptyBag, Typed(e.new), e.refund = <<>>, e.payment = Only(x, row),
           row.kind \in {"hold", "memo"}, row.total \in Nat, \A p \in Payments \ {x} : CashOn(e.new, p) = 0,
           row.kind = "memo" => refund[x] + CashOn(apps, x) + CashOn(e.new, x) <= row.total,
           row.kind = "hold" => refund[x] + Drawn(x) <= row.total
    PROVE  CreditsFit(e)
<1>1. RowsFit(e) /\ DOMAIN e.payment = {x} /\ e.payment[x] = row /\ DOMAIN e.refund = {}
  BY NoneFits DEF RowsFit, Only
<1>2. InPayments(e) /\ DrawsNone(e)
  BY <1>1 DEF InPayments, DrawsNone
<1>3. \A p : CashOn(e.gone, p) = 0
  BY WeighNone DEF CashOn
<1>4. \A p \in Payments : RefundAfter(e, p) = refund[p] /\ refund[p] \in Nat
  BY <1>1 DEF RefundAfter, CreditInv, CreditHolds
<1>5. ASSUME NEW p \in Payments \ {x} PROVE CreditFits(e, p)
  <2>1. After(e, p) = payment[p]
    BY <1>1 DEF After
  <2>2. Quiet(e, p)
    BY <1>3, <1>4, <2>1 DEF Quiet
  <2> QED
    BY <1>1, <1>2, <2>2, DrawnFalls, QuietFits
<1>6. CreditFits(e, x)
  <2>1. After(e, x) = row
    BY <1>1 DEF After
  <2>2. CashOn(apps, x) \in Nat /\ CashOn(e.new, x) \in Nat
    BY CashIsNat DEF PaidInv
  <2>3. DrawnAfter(e, x) \in Int /\ DrawnAfter(e, x) <= Drawn(x) /\ Drawn(x) \in Nat
    BY <1>2, DrawnFalls, DrawnIsTotal
  <2>4. row.kind = "memo" => refund[x] + CashOn(apps, x) - 0 + CashOn(e.new, x) <= row.total
    BY <1>4, <2>2
  <2>5. row.kind = "hold" => refund[x] + DrawnAfter(e, x) <= row.total
    BY <1>4, <2>3
  <2> QED
    BY <1>3, <1>4, <2>1, <2>4, <2>5 DEF CreditFits
<1> QED
  BY <1>1, <1>2, <1>5, <1>6 DEF CreditsFit

LEMMA HoldCredit ==
    ASSUME PayInv, PaidInv, CreditInv, NEW p \in Payments, NEW amount \in Int, NEW to,
           ReceiveHold(p, amount, to) \/ UpdateHold(p, amount, to)
    PROVE  \E e : CreditsFit(e) /\ Commit(e)
<1>1. ASSUME NEW row, row.kind = "hold", row.total = amount, amount \in Nat, refund[p] + Drawn(p) <= amount,
             NEW held, NEW clearing,
             Commit([Nothing EXCEPT !.payment = Only(p, row), !.held = held, !.clearing = clearing])
      PROVE  \E e : CreditsFit(e) /\ Commit(e)
  <2>1. PICK e : e = [Nothing EXCEPT !.payment = Only(p, row), !.held = held, !.clearing = clearing]
    OBVIOUS
  <2>2. e.gone = EmptyBag /\ e.new = EmptyBag /\ e.refund = <<>> /\ e.payment = Only(p, row) /\ Commit(e)
    BY <1>1, <2>1 DEF Nothing
  <2>3. Typed(e.new) /\ \A x : CashOn(e.new, x) = 0
    BY <2>2, NoneFits, WeighNone DEF CashOn
  <2>4. CreditsFit(e)
    BY <1>1, <2>2, <2>3, RowWritten
  <2> QED
    BY <2>2, <2>4
<1>2. CASE ReceiveHold(p, amount, to)
  <2>1. PICK row : row = NewPayment("hold", amount, 0, to, None, None)
    OBVIOUS
  <2>2. row.kind = "hold" /\ row.total = amount
    BY <2>1 DEF NewPayment
  <2>3. amount \in Nat /\ Unused(p)
    BY <1>2 DEF ReceiveHold
  <2>4. refund[p] + Drawn(p) <= amount
    BY <2>3, UnusedCredit
  <2>5. Commit([Nothing EXCEPT !.payment = Only(p, row), !.held = amount, !.clearing = InClearing(to, amount)])
    BY <1>2, <2>1 DEF ReceiveHold
  <2> QED
    BY <1>1, <2>2, <2>3, <2>4, <2>5
<1>3. CASE UpdateHold(p, amount, to)
  <2>1. PICK row : row = [payment[p] EXCEPT !.total = amount, !.to = to]
    OBVIOUS
  <2>2. row.kind = "hold" /\ row.total = amount
    BY <1>3, <2>1 DEF UpdateHold, IsKind, PayInv, Tables, PaymentShape
  <2>3. amount > 0 /\ amount >= Cash(apps, LaterRows(p)) + refund[p] /\ LiveDraws(p) = {}
    BY <1>3 DEF UpdateHold, InUse
  <2>4. Drawn(p) = 0
    <3>1. TotalOf(LiveDraws(p)) = SumOn([d \in LiveDraws(p) |-> payment[d].total], LiveDraws(p))
      BY DEF TotalOf, SumOver, SumOn
    <3> QED
      BY <2>3, <3>1, DrawnIsTotal, SumOnEmpty
  <2>5. Cash(apps, LaterRows(p)) \in Nat
    BY CashPart DEF LaterRows, LiveApplications
  <2>6. refund[p] \in Nat
    BY DEF CreditInv, CreditHolds
  <2>7. amount \in Nat /\ refund[p] + Drawn(p) <= amount
    BY <2>3, <2>4, <2>5, <2>6
  <2>8. PICK old : old = payment[p]
    OBVIOUS
  <2>9. Commit([Nothing EXCEPT !.payment = Only(p, row), !.held = amount - old.total,
                               !.clearing = InClearing(to, amount) - InClearing(old.to, old.total)])
    BY <1>3, <2>1, <2>8 DEF UpdateHold
  <2> QED
    BY <1>1, <2>2, <2>7, <2>9
<1> QED
  BY <1>2, <1>3

LEMMA UpdateMemoCredit ==
    ASSUME PayInv, PaidInv, CreditInv, NEW m \in Payments, NEW total \in Int, UpdateMemo(m, total)
    PROVE  \E e : CreditsFit(e) /\ Commit(e)
<1>1. PICK row : row = [payment[m] EXCEPT !.total = total]
  OBVIOUS
<1>2. PICK e : e = [Nothing EXCEPT !.payment = Only(m, row), !.ar = payment[m].total - total]
  OBVIOUS
<1>3. e.gone = EmptyBag /\ e.new = EmptyBag /\ e.refund = <<>> /\ e.payment = Only(m, row) /\ Commit(e)
  BY <1>1, <1>2 DEF UpdateMemo, Nothing
<1>4. row.kind = "memo" /\ row.total = total
  BY <1>1 DEF UpdateMemo, IsKind, PayInv, Tables, PaymentShape
<1>5. total > 0 /\ total >= Cash(apps, LiveApplications(m)) + refund[m] /\ IsKind(m, {"memo"})
  BY DEF UpdateMemo
<1>6. ~Bounced(m) /\ IsKind(m, {"payment", "memo"})
  BY <1>5 DEF PayInv, BouncesStand, IsKind
<1>7. Cash(apps, LiveApplications(m)) = CashOn(apps, m) /\ CashOn(apps, m) \in Nat
  BY <1>6, LiveCashAll
<1>8. refund[m] \in Nat
  BY DEF CreditInv, CreditHolds
<1>9. Typed(e.new) /\ \A x : CashOn(e.new, x) = 0
  BY <1>3, NoneFits, WeighNone DEF CashOn
<1>10. total \in Nat /\ refund[m] + CashOn(apps, m) + CashOn(e.new, m) <= total
  BY <1>5, <1>7, <1>8, <1>9
<1>11. e.gone = EmptyBag /\ Typed(e.new) /\ e.refund = <<>> /\ e.payment = Only(m, row) /\ Commit(e)
  BY <1>3, <1>9
<1>12. row.kind \in {"hold", "memo"} /\ row.kind # "hold" /\ row.total \in Nat
  BY <1>4, <1>10
<1>13. refund[m] + CashOn(apps, m) + CashOn(e.new, m) <= row.total
  BY <1>4, <1>10
<1>14. \A p \in Payments \ {m} : CashOn(e.new, p) = 0
  BY <1>9
<1>15. CreditsFit(e)
  BY <1>11, <1>12, <1>13, <1>14, RowWritten
<1> QED
  BY <1>3, <1>15

LEMMA RefundCredit ==
    ASSUME PayInv, PaidInv, CreditInv, NEW p \in Payments, NEW x \in Int, Refund(p, x) \/ VoidRefund(p)
    PROVE  \E e : CreditsFit(e) /\ Commit(e)
<1>1. ASSUME NEW total \in Nat, NEW y, Commit(RefundEffect(p, total, y)),
             \/ total <= refund[p]
             \/ /\ IsKind(p, {"payment", "memo"}) => total + CashOn(apps, p) <= payment[p].total
                /\ IsKind(p, {"hold"}) => total + Drawn(p) <= payment[p].total
                /\ ~IsKind(p, {"none"})
      PROVE  \E e : CreditsFit(e) /\ Commit(e)
  <2>1. PICK e : e = RefundEffect(p, total, y)
    OBVIOUS
  <2>2. e.gone = EmptyBag /\ e.new = EmptyBag /\ e.payment = <<>> /\ e.refund = Only(p, total) /\ Commit(e)
    BY <1>1, <2>1 DEF RefundEffect, Nothing
  <2>3. DOMAIN e.refund = {p} /\ e.refund[p] = total /\ DOMAIN e.payment = {}
    BY <2>2 DEF Only
  <2>4. RowsFit(e) /\ InPayments(e) /\ DrawsNone(e)
    BY <2>2, <2>3, NoneFits DEF RowsFit, InPayments, DrawsNone
  <2>5. \A z : CashOn(e.new, z) = 0 /\ CashOn(e.gone, z) = 0
    BY <2>2, WeighNone DEF CashOn
  <2>6. \A z \in Payments : After(e, z) = payment[z] /\ refund[z] \in Nat /\ payment[z].total \in Nat
    BY <2>3 DEF After, CreditInv, CreditHolds
  <2>7. RefundAfter(e, p) = total /\ \A z \in Payments \ {p} : RefundAfter(e, z) = refund[z]
    BY <2>3 DEF RefundAfter
  <2>8. ASSUME NEW z \in Payments, z # p \/ total <= refund[p] PROVE CreditFits(e, z)
    <3>1. RefundAfter(e, z) \in Nat /\ RefundAfter(e, z) <= refund[z]
      BY <1>1, <2>6, <2>7, <2>8
    <3>2. Quiet(e, z)
      BY <2>5, <2>6, <3>1 DEF Quiet
    <3> QED
      BY <2>4, <3>2, DrawnFalls, QuietFits
  <2>9. ASSUME ~(total <= refund[p]) PROVE CreditFits(e, p)
    <3>1. DrawnAfter(e, p) \in Int /\ DrawnAfter(e, p) <= Drawn(p) /\ Drawn(p) \in Nat
      BY <2>4, DrawnFalls, DrawnIsTotal
    <3>2. CashOn(apps, p) \in Nat
      BY CashIsNat DEF PaidInv
    <3>3. /\ payment[p].kind \in {"payment", "memo"} => total + CashOn(apps, p) - 0 + 0 <= payment[p].total
          /\ payment[p].kind = "hold" => total + DrawnAfter(e, p) <= payment[p].total
          /\ payment[p].kind # "none"
      BY <1>1, <2>6, <2>9, <3>1, <3>2 DEF IsKind
    <3> QED
      BY <2>5, <2>6, <2>7, <3>3 DEF CreditFits
  <2>10. \A z \in Payments : CreditFits(e, z)
    BY <2>8, <2>9
  <2> QED
    BY <2>2, <2>4, <2>10 DEF CreditsFit
<1>2. CASE Refund(p, x)
  <2>1. x > 0 /\ x <= CreditRemaining(p) /\ refund[p] = 0 /\ ~Bounced(p) /\ Commit(RefundEffect(p, x, x))
    BY <1>2 DEF Refund, MayRefund
  <2>2. CreditRemaining(p) = CreditLeft(p, {}, {})
    BY DEF CreditRemaining
  <2>3. Posted(p) /\ ~IsKind(p, {"none"})
    BY <2>1, <2>2 DEF CreditLeft, PayInv, Tables, PaymentShape, Posted, IsKind
  <2>4. payment[p].total \in Nat /\ x \in Nat
    BY <2>1 DEF CreditInv, CreditHolds
  <2>5. IsKind(p, {"payment", "memo"}) => x + CashOn(apps, p) <= payment[p].total
    <3>1. ASSUME IsKind(p, {"payment", "memo"}) PROVE x + CashOn(apps, p) <= payment[p].total
      <4>1. Cash(apps, LiveApplications(p)) = CashOn(apps, p) /\ CashOn(apps, p) \in Nat
        BY <2>1, <3>1, LiveCashAll
      <4>2. LiveApplications(p) \ {} = LiveApplications(p)
        OBVIOUS
      <4>3. CreditRemaining(p) = AtLeastZero(payment[p].total - refund[p] - Cash(apps, LiveApplications(p)))
        BY <2>1, <2>2, <2>3, <3>1, <4>2 DEF CreditLeft, IsKind
      <4>4. CreditRemaining(p) = AtLeastZero(payment[p].total - CashOn(apps, p))
        BY <2>1, <2>4, <4>1, <4>3
      <4> QED
        BY <2>1, <2>4, <4>1, <4>4 DEF AtLeastZero
    <3> QED
      BY <3>1
  <2>6. IsKind(p, {"hold"}) => x + Drawn(p) <= payment[p].total
    <3>1. ASSUME IsKind(p, {"hold"}) PROVE x + Drawn(p) <= payment[p].total
      <4>1. TotalOf(LiveDraws(p)) = Drawn(p) /\ Drawn(p) \in Nat
        BY DrawnIsTotal
      <4>2. LiveDraws(p) \ {} = LiveDraws(p)
        OBVIOUS
      <4>3. CreditRemaining(p) = AtLeastZero(payment[p].total - refund[p] - TotalOf(LiveDraws(p)))
        BY <2>1, <2>2, <2>3, <3>1, <4>2 DEF CreditLeft, IsKind
      <4>4. CreditRemaining(p) = AtLeastZero(payment[p].total - Drawn(p))
        BY <2>1, <2>4, <4>1, <4>3
      <4> QED
        BY <2>1, <2>4, <4>1, <4>4 DEF AtLeastZero
    <3> QED
      BY <3>1
  <2> QED
    BY <1>1, <2>1, <2>3, <2>4, <2>5, <2>6
<1>3. CASE VoidRefund(p)
  <2>1. Commit(RefundEffect(p, 0, -refund[p])) /\ 0 <= refund[p]
    BY <1>3 DEF VoidRefund, CreditInv, CreditHolds
  <2> QED
    BY <1>1, <2>1
<1> QED
  BY <1>2, <1>3

\* One row.
LEMMA OneRowCash ==
    ASSUME NEW row \in Application, NEW p
    PROVE  Typed(SetToBag({row})) /\ CashOn(SetToBag({row}), p) = IF row.pay = p THEN row.amt ELSE 0
<1>1. PICK V : V = CashFrom(p)
  OBVIOUS
<1>2. V[row] = (IF row.pay = p THEN row.amt ELSE 0) /\ V[row] \in Int
  BY <1>1, WeightsAreNat DEF CashFrom
<1>3. IsFiniteSet({row}) /\ \A r \in {row} : V[r] \in Int
  BY <1>2, FS_Singleton
<1>4. FiniteBag(SetToBag({row})) /\ Weigh(SetToBag({row}), V) = SumOn(V, {row})
  BY <1>3, WeighSet
<1>5. SumOn(V, {row}) = V[row]
  BY <1>2, SumOnSingle
<1>6. DOMAIN SetToBag({row}) = {row}
  BY DEF SetToBag
<1> QED
  BY <1>1, <1>2, <1>4, <1>5, <1>6 DEF CashOn, Typed

LEMMA CreateMemoCredit ==
    ASSUME PayInv, PaidInv, CreditInv, NEW m \in Payments, NEW total \in Int, NEW i \in Invoices,
           NEW on, on = {} \/ on = {i}, CreateMemo(m, total, on)
    PROVE  \E e : CreditsFit(e) /\ Commit(e)
<1>1. PICK open : open = PayableCents(invoice[i])
  OBVIOUS
<1>2. open \in Nat
  <2>1. PICK inv \in InvoiceRow : inv = invoice[i]
    BY DEF PaidInv, PaidTies
  <2> QED
    BY <1>1, <2>1 DEF PayableCents, AtLeastZero, InvoiceRow
<1>3. PICK row : row = Row(m, i, Smaller(total, open), 0, FALSE, None)
  OBVIOUS
<1>4. total > 0 /\ total \in Nat /\ Unused(m)
  BY DEF CreateMemo
<1>5. Smaller(total, open) \in Nat /\ Smaller(total, open) <= total
  BY <1>2, <1>4 DEF Smaller
<1>6. row \in Application /\ row.amt = Smaller(total, open) /\ row.pay = m
  BY <1>3, <1>5 DEF Row, Application
<1>7. PICK all : all = {Row(m, j, Smaller(total, PayableCents(invoice[j])), 0, FALSE, None) : j \in on}
  OBVIOUS
<1>8. PICK rows : rows = {r \in all : r.amt > 0}
  OBVIOUS
<1>9. rows = {} \/ rows = {row}
  <2>1. on = {} => all = {}
    BY <1>7
  <2>2. on = {i} => all = {row}
    BY <1>1, <1>3, <1>7
  <2> QED
    BY <1>8, <2>1, <2>2
<1>10. PICK new : new = NewPayment("memo", total, 0, "bank", None, None)
  OBVIOUS
<1>11. PICK e : e = [Nothing EXCEPT !.payment = Only(m, new), !.new = SetToBag(rows), !.ar = -total]
  OBVIOUS
<1>12. Commit(e) /\ e.gone = EmptyBag /\ e.new = SetToBag(rows) /\ e.refund = <<>> /\ e.payment = Only(m, new)
  BY <1>7, <1>8, <1>10, <1>11 DEF CreateMemo, Nothing
<1>13. new.kind = "memo" /\ new.total = total
  BY <1>10 DEF NewPayment
<1>14. Typed(e.new) /\ CashOn(e.new, m) \in Nat /\ CashOn(e.new, m) <= total /\ \A p \in Payments \ {m} : CashOn(e.new, p) = 0
  <2>1. CASE rows = {}
    <3>1. e.new = EmptyBag
      BY <1>12, <2>1 DEF EmptyBag
    <3>2. Typed(EmptyBag) /\ \A p : CashOn(EmptyBag, p) = 0
      BY NoneFits, WeighNone DEF CashOn
    <3> QED
      BY <1>4, <3>1, <3>2
  <2>2. CASE rows = {row}
    <3>1. e.new = SetToBag({row})
      BY <1>12, <2>2
    <3>2. Typed(e.new) /\ \A p : CashOn(e.new, p) = IF row.pay = p THEN row.amt ELSE 0
      BY <1>6, <3>1, OneRowCash
    <3>3. CashOn(e.new, m) = Smaller(total, open) /\ \A p \in Payments \ {m} : CashOn(e.new, p) = 0
      BY <1>6, <3>2
    <3> QED
      BY <1>5, <3>2, <3>3
  <2> QED
    BY <1>9, <2>1, <2>2
<1>15. refund[m] = 0 /\ CashOn(apps, m) = 0
  BY <1>4, UnusedCredit
<1>16. refund[m] + CashOn(apps, m) + CashOn(e.new, m) <= new.total
  BY <1>4, <1>13, <1>14, <1>15
<1>17. CreditsFit(e)
  BY <1>4, <1>12, <1>13, <1>14, <1>16, RowWritten
<1> QED
  BY <1>12, <1>17

\* What is left of a source, over what an edit has set aside.
LEMMA CreditLeftIs ==
    ASSUME PayInv, PaidInv, CreditInv, NEW p \in Payments, NEW G, G \in SUBSET DOMAIN apps, NEW U,
           NEW x \in Nat \ {0}, x <= CreditLeft(p, G, U), IsKind(p, {"payment", "memo", "hold"})
    PROVE  /\ Posted(p) /\ ~Bounced(p)
           /\ IsKind(p, {"payment", "memo"}) =>
                 refund[p] + (CashOn(apps, p) - CashOn(Copies(G), p)) + x <= payment[p].total
           /\ IsKind(p, {"hold"}) => refund[p] + TotalOf(LiveDraws(p) \ U) + x <= payment[p].total
<1>1. Posted(p) /\ ~Bounced(p)
  BY DEF CreditLeft
<1>2. payment[p].total \in Nat /\ refund[p] \in Nat
  BY DEF CreditInv, CreditHolds
<1>3. ASSUME IsKind(p, {"payment", "memo"})
      PROVE  refund[p] + (CashOn(apps, p) - CashOn(Copies(G), p)) + x <= payment[p].total
  <2>1. PICK left : left = Cash(apps, LiveApplications(p) \ G)
    OBVIOUS
  <2>2. left = CashOn(apps, p) - CashOn(Copies(G), p) /\ left \in Nat
    BY <1>1, <1>3, <2>1, LiveCash
  <2>3. CreditLeft(p, G, U) = AtLeastZero(payment[p].total - refund[p] - left)
    BY <1>1, <1>3, <2>1 DEF CreditLeft, IsKind
  <2>4. refund[p] + left + x <= payment[p].total
    BY <1>2, <2>2, <2>3 DEF AtLeastZero
  <2> QED
    BY <2>2, <2>4
<1>4. ASSUME IsKind(p, {"hold"})
      PROVE  refund[p] + TotalOf(LiveDraws(p) \ U) + x <= payment[p].total
  <2>1. PICK f : f = [d \in Payments |-> IF d \in U THEN 0 ELSE DrawFor(payment[d], p)]
    OBVIOUS
  <2>2. \A d \in Payments : f[d] = IF d \in U THEN 0 ELSE DrawFor(payment[d], p)
    BY <2>1
  <2>3. TotalOf(LiveDraws(p) \ U) \in Nat
    BY <2>2, DrawnBut
  <2>4. CreditLeft(p, G, U) = AtLeastZero(payment[p].total - refund[p] - TotalOf(LiveDraws(p) \ U))
    BY <1>1, <1>4 DEF CreditLeft, IsKind
  <2> QED
    BY <1>2, <2>3, <2>4 DEF AtLeastZero
<1> QED
  BY <1>1, <1>3, <1>4

LEMMA ApplyCreditWithin ==
    ASSUME PayInv, PaidInv, CreditInv, NEW p \in Payments, NEW i \in Invoices, NEW x \in Int,
           NEW d \in DrawIds(p, IsKind(p, {"hold"})), ApplyCredit(p, i, x, d)
    PROVE  \E e : CreditsFit(e) /\ Commit(e)
<1>1. x \in Nat \ {0} /\ x <= CreditRemaining(p) /\ IsKind(p, {"payment", "memo", "hold"})
  BY DEF ApplyCredit, CreditUsable, IsKind
<1>2. PICK e : e = ApplyCreditEffect(p, i, x, d)
  OBVIOUS
<1>3. Commit(e) /\ d \in Payments
  BY <1>2 DEF ApplyCredit, DrawIds
<1>4. /\ IsKind(p, {"payment", "memo"}) => refund[p] + CashOn(apps, p) + x <= payment[p].total
      /\ IsKind(p, {"hold"}) => refund[p] + Drawn(p) + x <= payment[p].total
  <2>1. PICK G, U : G = {} /\ U = {}
    OBVIOUS
  <2>2. G \in SUBSET DOMAIN apps /\ x <= CreditLeft(p, G, U)
    BY <1>1, <2>1 DEF CreditRemaining
  <2>3. /\ IsKind(p, {"payment", "memo"}) =>
              refund[p] + (CashOn(apps, p) - CashOn(Copies(G), p)) + x <= payment[p].total
        /\ IsKind(p, {"hold"}) => refund[p] + TotalOf(LiveDraws(p) \ U) + x <= payment[p].total
    BY <1>1, <2>2, CreditLeftIs
  <2>4. CashOn(Copies(G), p) = 0 /\ LiveDraws(p) \ U = LiveDraws(p) /\ TotalOf(LiveDraws(p)) = Drawn(p)
    BY <2>1, NoCash, DrawnIsTotal
  <2>5. CashOn(apps, p) \in Nat
    BY CashIsNat DEF PaidInv
  <2>6. refund[p] \in Nat /\ payment[p].total \in Nat
    BY DEF CreditInv, CreditHolds
  <2>7. CashOn(apps, p) - CashOn(Copies(G), p) = CashOn(apps, p)
    BY <2>4, <2>5
  <2>8. TotalOf(LiveDraws(p) \ U) = Drawn(p)
    BY <2>4
  <2> QED
    BY <2>3, <2>7, <2>8
<1>5. \A z \in Payments : refund[z] \in Nat /\ payment[z].total \in Nat
  BY DEF CreditInv, CreditHolds
<1>6. \A z : CashOn(EmptyBag, z) = 0
  BY WeighNone DEF CashOn
<1>7. CASE IsKind(p, {"hold"})
  <2>1. PICK row, new : row = Row(d, i, x, 0, FALSE, None) /\ new = NewPayment("draw", x, 0, "bank", p, None)
    OBVIOUS
  <2>2. row \in Application /\ row.amt = x /\ row.pay = d
    BY <1>1, <1>3, <2>1 DEF Row, Application
  <2>3. e.gone = EmptyBag /\ e.new = SetToBag({row}) /\ e.payment = Only(d, new) /\ e.refund = <<>>
    BY <1>2, <1>7, <2>1 DEF ApplyCreditEffect, Nothing
  <2>4. Typed(e.new) /\ \A z \in Payments \ {d} : CashOn(e.new, z) = 0
    BY <2>2, <2>3, OneRowCash
  <2>5. DOMAIN e.payment = {d} /\ e.payment[d] = new /\ DOMAIN e.refund = {}
    BY <2>3 DEF Only
  <2>6. RowsFit(e) /\ InPayments(e)
    BY <1>3, <2>3, <2>4, <2>5, NoneFits DEF RowsFit, InPayments
  <2>7. d # p /\ Unused(d) /\ payment[d].kind = "none"
    BY <1>7 DEF DrawIds, Unused
  <2>8. After(e, d) = new /\ \A z \in Payments \ {d} : After(e, z) = payment[z]
    BY <2>5 DEF After
  <2>9. new.kind = "draw" /\ new.st = "posted" /\ new.from = p /\ new.total = x
    BY <2>1 DEF NewPayment
  <2>10. \A z \in Payments : RefundAfter(e, z) = refund[z]
    BY <2>5 DEF RefundAfter
  <2>11. ASSUME NEW z \in Payments, NEW n \in Nat, n = DrawFor(new, z)
         PROVE  DrawnAfter(e, z) \in Int /\ DrawnAfter(e, z) <= Drawn(z) + n /\ Drawn(z) \in Nat
    <3>1. PICK U : U = {}
      OBVIOUS
    <3>2. DrawFor(payment[d], z) = 0 /\ DrawFor(After(e, d), z) = n
      BY <2>7, <2>8, <2>11 DEF DrawFor
    <3>3. \A y \in Payments \ {d} : /\ DrawFor(After(e, y), z) \in Int
                                   /\ DrawFor(After(e, y), z) <= IF y \in U THEN 0 ELSE DrawFor(payment[y], z)
      BY <2>8, <3>1, DrawIsNat
    <3>4. DrawnAfter(e, z) \in Int /\ DrawnAfter(e, z) <= TotalOf(LiveDraws(z) \ U) + n
      BY <1>3, <2>11, <3>2, <3>3, DrawnRises
    <3>5. LiveDraws(z) \ U = LiveDraws(z) /\ TotalOf(LiveDraws(z)) = Drawn(z) /\ Drawn(z) \in Nat
      BY <3>1, DrawnIsTotal
    <3> QED
      BY <3>4, <3>5
  <2>12. ASSUME NEW z \in Payments \ {d, p} PROVE CreditFits(e, z)
    <3>1. DrawFor(new, z) = 0
      BY <2>9 DEF DrawFor
    <3>2. DrawnAfter(e, z) \in Int /\ DrawnAfter(e, z) <= Drawn(z)
      BY <2>11, <3>1
    <3>3. CashOn(e.new, z) = 0 /\ CashOn(e.gone, z) = 0
      BY <1>6, <2>3, <2>4
    <3>4. After(e, z) = payment[z] /\ RefundAfter(e, z) = refund[z] /\ refund[z] \in Nat
      BY <1>5, <2>8, <2>10
    <3>5. Quiet(e, z)
      BY <3>3, <3>4 DEF Quiet
    <3> QED
      BY <2>6, <3>2, <3>5, QuietFits
  <2>13. CreditFits(e, d)
    BY <1>1, <1>3, <1>5, <2>8, <2>9, <2>10 DEF CreditFits
  <2>14. CreditFits(e, p)
    <3>1. DrawFor(new, p) = x
      BY <2>9 DEF DrawFor
    <3>2. DrawnAfter(e, p) \in Int /\ DrawnAfter(e, p) <= Drawn(p) + x /\ Drawn(p) \in Nat
      BY <1>1, <2>11, <3>1
    <3>3. payment[p].kind = "hold" /\ After(e, p) = payment[p]
      BY <1>7, <2>7, <2>8 DEF IsKind
    <3>4. refund[p] + DrawnAfter(e, p) <= payment[p].total
      BY <1>1, <1>4, <1>5, <1>7, <3>2
    <3> QED
      BY <1>5, <2>10, <3>3, <3>4 DEF CreditFits
  <2>15. \A z \in Payments : CreditFits(e, z)
    BY <2>12, <2>13, <2>14
  <2> QED
    BY <1>3, <2>6, <2>15 DEF CreditsFit
<1>8. CASE ~IsKind(p, {"hold"})
  <2>1. PICK row : row = Row(p, i, x, 0, TRUE, None)
    OBVIOUS
  <2>2. row \in Application /\ row.amt = x /\ row.pay = p
    BY <1>1, <2>1 DEF Row, Application
  <2>3. e.gone = EmptyBag /\ e.new = SetToBag({row}) /\ e.payment = <<>> /\ e.refund = <<>>
    BY <1>2, <1>8, <2>1 DEF ApplyCreditEffect, Nothing
  <2>4. Typed(e.new) /\ CashOn(e.new, p) = x /\ \A z \in Payments \ {p} : CashOn(e.new, z) = 0
    BY <2>2, <2>3, OneRowCash
  <2>5. DOMAIN e.payment = {} /\ DOMAIN e.refund = {}
    BY <2>3
  <2>6. RowsFit(e) /\ InPayments(e) /\ DrawsNone(e)
    BY <2>3, <2>4, <2>5, NoneFits DEF RowsFit, InPayments, DrawsNone
  <2>7. \A z \in Payments : After(e, z) = payment[z] /\ RefundAfter(e, z) = refund[z]
    BY <2>5 DEF After, RefundAfter
  <2>8. ASSUME NEW z \in Payments \ {p} PROVE CreditFits(e, z)
    <3>1. CashOn(e.new, z) = 0 /\ CashOn(e.gone, z) = 0
      BY <1>6, <2>3, <2>4
    <3>2. After(e, z) = payment[z] /\ RefundAfter(e, z) = refund[z] /\ refund[z] \in Nat
      BY <1>5, <2>7
    <3>3. Quiet(e, z)
      BY <3>1, <3>2 DEF Quiet
    <3> QED
      BY <2>6, <3>3, DrawnFalls, QuietFits
  <2>9. CreditFits(e, p)
    <3>1. payment[p].kind \in {"payment", "memo"}
      BY <1>1, <1>8 DEF IsKind
    <3>2. CashOn(apps, p) \in Nat /\ CashOn(e.gone, p) = 0
      BY <1>6, <2>3, CashIsNat DEF PaidInv
    <3>3. refund[p] + CashOn(apps, p) - 0 + x <= payment[p].total
      BY <1>1, <1>4, <1>5, <3>1, <3>2 DEF IsKind
    <3> QED
      BY <1>5, <2>4, <2>7, <3>1, <3>2, <3>3 DEF CreditFits
  <2>10. \A z \in Payments : CreditFits(e, z)
    BY <2>8, <2>9
  <2> QED
    BY <1>3, <2>6, <2>10 DEF CreditsFit
<1> QED
  BY <1>7, <1>8

\* What a request's credit and cash take from each source.
LEMMA CreditCash ==
    ASSUME NEW p \in Payments, NEW q \in Bodies, NEW d \in DrawIds(p, FromHold(q) # {}),
           \A c \in q.credits : c.src # p, NEW z \in Payments,
           q.credits # {} => CreditRow(p, d, TheCredit(q.credits)) \in Application
    PROVE  /\ CreditWeight(p, d, q, CashFrom(z)) \in Nat
           /\ z = p => CreditWeight(p, d, q, CashFrom(z)) = 0
           /\ q.credits = {} => CreditWeight(p, d, q, CashFrom(z)) = 0
           /\ q.credits # {} /\ z # d =>
                 CreditWeight(p, d, q, CashFrom(z)) =
                   IF z = TheCredit(q.credits).src /\ ~IsKind(z, {"hold"}) THEN TheCredit(q.credits).amt ELSE 0
<1>1. CASE q.credits = {}
  BY <1>1 DEF CreditWeight
<1>2. CASE q.credits # {}
  <2>1. PICK c : q.credits = {c} /\ c.src \in Payments /\ c.inv \in Invoices /\ c.amt \in Nat \ {0}
    BY <1>2, OneCredit
  <2>2. TheCredit(q.credits) = c /\ FromHold(q) = (IF IsKind(c.src, {"hold"}) THEN {c} ELSE {})
    BY <2>1, TheOnlyCredit
  <2>3. PICK row : row = CreditRow(p, d, c)
    OBVIOUS
  <2>4. row \in Application
    BY <1>2, <2>2, <2>3
  <2>5. row.amt = c.amt /\ row.pay = IF IsKind(c.src, {"hold"}) THEN d ELSE c.src
    BY <2>3 DEF CreditRow, Row
  <2>6. CreditWeight(p, d, q, CashFrom(z)) = IF row.pay = z THEN row.amt ELSE 0
    BY <1>2, <2>2, <2>3, <2>4 DEF CreditWeight, CashFrom
  <2>7. row.pay # p
    BY <2>1, <2>2, <2>5 DEF DrawIds
  <2> QED
    BY <1>2, <2>1, <2>2, <2>5, <2>6, <2>7
<1> QED
  BY <1>1, <1>2

LEMMA SettlementCash ==
    ASSUME NEW p \in Payments, NEW q \in Bodies, NEW d \in DrawIds(p, FromHold(q) # {}),
           \A c \in q.credits : c.src # p, NEW z \in Payments
    PROVE  /\ Typed(Settlement(p, q, d)) /\ Total(q.cash) \in Nat
           /\ CashOn(Settlement(p, q, d), z) = (IF z = p THEN Total(q.cash) ELSE 0) + CreditWeight(p, d, q, CashFrom(z))
           /\ q.credits # {} => CreditRow(p, d, TheCredit(q.credits)) \in Application
<1>1. PICK V : V = CashFrom(z)
  OBVIOUS
<1>2. \A r \in Application : V[r] \in Int
  BY <1>1, WeightsAreNat
<1>3. PICK own : own = [i \in Invoices |-> IF q.cash[i] + q.adj[i] > 0
                                          THEN V[Row(p, i, q.cash[i], q.adj[i], FALSE, None)] ELSE 0]
  OBVIOUS
<1>4. \A i \in Invoices : own[i] = IF q.cash[i] + q.adj[i] > 0
                                   THEN V[Row(p, i, q.cash[i], q.adj[i], FALSE, None)] ELSE 0
  BY <1>3
<1>5. ASSUME NEW i \in Invoices
      PROVE  q.cash[i] \in Nat /\ own[i] = IF z = p THEN q.cash[i] ELSE 0
  <2>1. q.cash[i] \in Nat /\ q.adj[i] \in Nat
    BY OneCredit
  <2>2. PICK r : r = Row(p, i, q.cash[i], q.adj[i], FALSE, None)
    OBVIOUS
  <2>3. r \in Application /\ r.pay = p /\ r.amt = q.cash[i]
    BY <2>1, <2>2 DEF Row, Application
  <2>4. V[r] = IF z = p THEN q.cash[i] ELSE 0
    BY <1>1, <2>3 DEF CashFrom
  <2>5. own[i] = IF q.cash[i] + q.adj[i] > 0 THEN V[r] ELSE 0
    BY <1>3, <2>2
  <2> QED
    BY <2>1, <2>4, <2>5
<1>6. IsFiniteSet(Invoices)
  BY PaymentsAssumption
<1>7. PICK cash : cash = q.cash
  OBVIOUS
<1>8. Total(q.cash) = SumOn(cash, Invoices)
  BY <1>7 DEF Total, SumOver, SumOn
<1>9. Total(q.cash) \in Nat
  <2>1. \A i \in Invoices : cash[i] \in Nat
    BY <1>5, <1>7
  <2> QED
    BY <1>6, <1>8, <2>1, SumOnNonneg
<1>10. SumOn(own, Invoices) = IF z = p THEN Total(q.cash) ELSE 0
  <2>1. CASE z = p
    <3>1. \A i \in Invoices : cash[i] \in Int /\ own[i] = cash[i]
      BY <1>5, <1>7, <2>1
    <3>2. SumOn(own, Invoices) = SumOn(cash, Invoices)
      BY <1>6, <3>1, SumOnSame
    <3> QED
      BY <1>8, <2>1, <3>2
  <2>2. CASE z # p
    <3>1. \A i \in Invoices : own[i] = 0
      BY <1>5, <2>2
    <3>2. SumOn(own, Invoices) = 0
      BY <1>6, <3>1, SumOnZero
    <3> QED
      BY <2>2, <3>2
  <2> QED
    BY <2>1, <2>2
<1>11. /\ Typed(Settlement(p, q, d)) /\ SumOn(own, Invoices) \in Int
       /\ Weigh(Settlement(p, q, d), V) = SumOn(own, Invoices) + CreditWeight(p, d, q, V)
       /\ q.credits # {} => CreditRow(p, d, TheCredit(q.credits)) \in Application
  BY <1>2, <1>4, SettlementWeighs
<1> QED
  BY <1>1, <1>9, <1>10, <1>11 DEF CashOn

\* A settlement takes from each source no more than it had left.
LEMMA SettleCredit ==
    ASSUME PayInv, PaidInv, CreditInv, NEW p \in Payments, NEW q \in Bodies, NEW d,
           NEW gone \in SUBSET DOMAIN apps, NEW undrawn \in SUBSET Payments, NEW e,
           Settles(p, q, d, gone, undrawn), payment[p].kind \in {"none", "payment"},
           \A c \in q.credits : c.src # p, \A x \in undrawn : IsKind(x, {"draw"}),
           e.gone = Copies(gone), e.new = Settlement(p, q, d),
           e.payment = SettleEffect(p, q, d, gone, undrawn).payment, e.refund = <<>>,
           refund[p] + (CashOn(apps, p) - CashOn(e.gone, p)) + Total(q.cash) <= q.amount
    PROVE  CreditsFit(e)
<1>1. PICK receipt : receipt = NewPayment("payment", q.amount, Total(q.adj), q.to, None, None)
  OBVIOUS
<1>2. PICK draw : draw = NewPayment("draw", CreditIn(q.credits), 0, "bank", TheCredit(q.credits).src, p)
  OBVIOUS
<1>3. receipt.kind = "payment" /\ receipt.total = q.amount
  BY <1>1 DEF NewPayment
<1>4. /\ draw.kind = "draw" /\ draw.st = "posted" /\ draw.from = TheCredit(q.credits).src
      /\ draw.total = CreditIn(q.credits)
  BY <1>2 DEF NewPayment
<1>5. /\ d \in DrawIds(p, FromHold(q) # {}) /\ d \in Payments
      /\ d # p => Unused(d) /\ FromHold(q) # {}
      /\ d = p => FromHold(q) = {}
  BY DEF Settles, DrawIds
<1>6. p \notin undrawn /\ d \notin undrawn
  BY <1>5 DEF IsKind, Unused
<1>7. /\ DOMAIN e.payment = {p, d} \cup undrawn
      /\ e.payment[p] = receipt /\ (d # p => e.payment[d] = draw)
      /\ \A x \in undrawn : e.payment[x] = [payment[x] EXCEPT !.st = "void"]
  <2>1. e.payment = Over(Only(p, receipt), Over([x \in {d} \ {p} |-> draw], Voided(undrawn)))
    BY <1>1, <1>2 DEF SettleEffect, Nothing
  <2> QED
    BY <1>6, <2>1 DEF Over, Only, Voided
<1>8. /\ After(e, p) = receipt /\ (d # p => After(e, d) = draw)
      /\ \A z \in Payments \ ({p, d} \cup undrawn) : After(e, z) = payment[z]
  BY <1>7 DEF After
<1>9. ASSUME NEW x \in undrawn
      PROVE  After(e, x).kind = "draw" /\ After(e, x).st = "void" /\ After(e, x).total = payment[x].total
  <2>1. After(e, x) = [payment[x] EXCEPT !.st = "void"]
    BY <1>7 DEF After
  <2>2. PaymentShape(payment[x]) /\ payment[x].kind = "draw"
    BY DEF PayInv, Tables, IsKind
  <2> QED
    BY <2>1, <2>2 DEF PaymentShape
<1>10. \A z \in Payments : RefundAfter(e, z) = refund[z] /\ refund[z] \in Nat /\ payment[z].total \in Nat
  BY DEF RefundAfter, CreditInv, CreditHolds
<1>11. Typed(e.gone) /\ FiniteBag(e.gone) /\ WithinBag(e.gone, apps)
  BY CopiesFit DEF Typed, PaidInv
<1>12. \A z \in Payments :
          /\ Typed(e.new) /\ Total(q.cash) \in Nat
          /\ CashOn(e.new, z) = (IF z = p THEN Total(q.cash) ELSE 0) + CreditWeight(p, d, q, CashFrom(z))
          /\ q.credits # {} => CreditRow(p, d, TheCredit(q.credits)) \in Application
  BY <1>5, SettlementCash
<1>13. RowsFit(e) /\ InPayments(e)
  BY <1>5, <1>7, <1>11, <1>12 DEF RowsFit, InPayments
<1>14. CreditIn(q.credits) \in Nat /\ q.amount \in Nat /\ (q.credits # {} => CreditIn(q.credits) = TheCredit(q.credits).amt)
  <2>1. q.amount \in Nat
    BY PaymentsAssumption DEF Bodies, Amounts
  <2>2. CASE q.credits = {}
    BY <2>1, <2>2 DEF CreditIn
  <2>3. CASE q.credits # {}
    <3>1. PICK c : q.credits = {c} /\ c.amt \in Nat \ {0}
      BY <2>3, OneCredit
    <3> QED
      BY <2>1, <3>1, TheOnlyCredit
  <2> QED
    BY <2>2, <2>3
<1>15. \A z \in Payments : CashOn(apps, z) \in Nat /\ CashOn(e.gone, z) \in Nat
  BY <1>11, CashIsNat DEF PaidInv
\* What is drawn on each held deposit after the step.
<1>16. ASSUME NEW z \in Payments, NEW U \in SUBSET undrawn,
              NEW n \in Nat, n = IF d # p /\ TheCredit(q.credits).src = z THEN CreditIn(q.credits) ELSE 0
       PROVE  DrawnAfter(e, z) \in Int /\ DrawnAfter(e, z) <= TotalOf(LiveDraws(z) \ U) + n
  <2>1. DrawFor(payment[d], z) = 0 /\ DrawFor(payment[p], z) = 0
    BY <1>5 DEF DrawFor, Unused
  <2>2. DrawFor(receipt, z) = 0
    BY <1>3 DEF DrawFor
  <2>3. DrawFor(After(e, d), z) = n
    <3>1. CASE d = p
      BY <1>8, <1>16, <2>2, <3>1
    <3>2. CASE d # p
      BY <1>4, <1>8, <1>16, <3>2 DEF DrawFor
    <3> QED
      BY <3>1, <3>2
  <2>4. ASSUME NEW y \in Payments \ {d}
        PROVE  /\ DrawFor(After(e, y), z) \in Int
               /\ DrawFor(After(e, y), z) <= IF y \in U THEN 0 ELSE DrawFor(payment[y], z)
    <3>1. DrawFor(payment[y], z) \in Nat
      BY DrawIsNat
    <3>2. CASE y = p
      BY <1>8, <2>2, <3>1, <3>2
    <3>3. CASE y \in undrawn
      <4>1. DrawFor(After(e, y), z) = 0
        BY <1>9, <3>3 DEF DrawFor
      <4> QED
        BY <3>1, <4>1
    <3>4. CASE y \notin {p, d} \cup undrawn
      BY <1>8, <3>1, <3>4
    <3> QED
      BY <3>2, <3>3, <3>4
  <2>5. /\ DrawFor(payment[d], z) = 0 /\ DrawFor(After(e, d), z) = n /\ d \in Payments
        /\ \A y \in Payments \ {d} : /\ DrawFor(After(e, y), z) \in Int
                                     /\ DrawFor(After(e, y), z) <= IF y \in U THEN 0 ELSE DrawFor(payment[y], z)
    BY <1>5, <2>1, <2>3, <2>4
  <2> QED
    BY <2>5, DrawnRises
<1>17. CreditFits(e, p)
  <2>1. CreditWeight(p, d, q, CashFrom(p)) = 0
    BY <1>5, <1>12, CreditCash
  <2>2. CashOn(e.new, p) = Total(q.cash) /\ Total(q.cash) \in Nat
    BY <1>12, <2>1
  <2>3. refund[p] + CashOn(apps, p) - CashOn(e.gone, p) + CashOn(e.new, p) <= q.amount
    BY <1>10, <1>14, <1>15, <2>2
  <2> QED
    BY <1>3, <1>8, <1>10, <1>14, <2>3 DEF CreditFits
<1>18. ASSUME NEW z \in {d} \cup undrawn, z # p PROVE CreditFits(e, z)
  <2>1. After(e, z).kind = "draw" /\ After(e, z).total \in Nat
    BY <1>4, <1>8, <1>9, <1>10, <1>14, <1>18
  <2> QED
    BY <1>5, <1>10, <2>1 DEF CreditFits
<1>19. ASSUME NEW z \in Payments \ ({p, d} \cup undrawn) PROVE CreditFits(e, z)
  <2>1. After(e, z) = payment[z] /\ RefundAfter(e, z) = refund[z] /\ refund[z] \in Nat /\ payment[z].total \in Nat
    BY <1>8, <1>10
  <2>2. CashOn(e.new, z) = CreditWeight(p, d, q, CashFrom(z)) /\ CreditWeight(p, d, q, CashFrom(z)) \in Nat
    <3>1. CreditWeight(p, d, q, CashFrom(z)) \in Nat
      BY <1>5, <1>12, CreditCash
    <3> QED
      BY <1>12, <3>1
  <2>3. CASE q.credits # {} /\ TheCredit(q.credits).src = z
    <3>1. PICK c : q.credits = {c} /\ c.amt \in Nat \ {0} /\ TheCredit(q.credits) = c /\ c.src = z
      BY <2>3, OneCredit, TheOnlyCredit
    <3>2. c.amt <= CreditLeft(z, gone, undrawn) /\ IsKind(z, {"payment", "memo", "hold"})
      BY <3>1 DEF Settles, SourcesHold, IsKind
    <3>3. /\ IsKind(z, {"payment", "memo"}) =>
                refund[z] + (CashOn(apps, z) - CashOn(e.gone, z)) + c.amt <= payment[z].total
          /\ IsKind(z, {"hold"}) => refund[z] + TotalOf(LiveDraws(z) \ undrawn) + c.amt <= payment[z].total
      BY <3>1, <3>2, CreditLeftIs
    <3>4. ASSUME IsKind(z, {"payment", "memo"})
          PROVE  refund[z] + CashOn(apps, z) - CashOn(e.gone, z) + CashOn(e.new, z) <= payment[z].total
      <4>1. CashOn(e.new, z) = c.amt
        <5>1. CreditWeight(p, d, q, CashFrom(z)) = c.amt
          <6>1. q.credits # {} /\ z # d =>
                   CreditWeight(p, d, q, CashFrom(z)) =
                     IF z = TheCredit(q.credits).src /\ ~IsKind(z, {"hold"}) THEN TheCredit(q.credits).amt ELSE 0
            BY <1>5, <1>12, CreditCash
          <6>2. z # d /\ ~IsKind(z, {"hold"})
            BY <3>4 DEF IsKind
          <6> QED
            BY <2>3, <3>1, <6>1, <6>2
        <5> QED
          BY <2>2, <5>1
      <4> QED
        BY <1>15, <2>1, <3>1, <3>3, <3>4, <4>1
    <3>5. ASSUME IsKind(z, {"hold"})
          PROVE  refund[z] + DrawnAfter(e, z) <= payment[z].total
      <4>1. FromHold(q) = {c}
        BY <3>1, <3>5, TheOnlyCredit
      <4>2. d # p
        BY <1>5, <4>1
      <4>3. CreditIn(q.credits) = c.amt
        BY <1>14, <2>3, <3>1
      <4>4. undrawn \in SUBSET undrawn
        OBVIOUS
      <4>5. DrawnAfter(e, z) \in Int /\ DrawnAfter(e, z) <= TotalOf(LiveDraws(z) \ undrawn) + c.amt
        BY <1>14, <1>16, <2>3, <4>2, <4>3, <4>4
      <4>6. TotalOf(LiveDraws(z) \ undrawn) \in Nat
        <5>1. PICK f : f = [y \in Payments |-> IF y \in undrawn THEN 0 ELSE DrawFor(payment[y], z)]
          OBVIOUS
        <5>2. \A y \in Payments : f[y] = IF y \in undrawn THEN 0 ELSE DrawFor(payment[y], z)
          BY <5>1
        <5> QED
          BY <5>2, DrawnBut
      <4> QED
        BY <2>1, <3>1, <3>3, <3>5, <4>5, <4>6
    <3> QED
      BY <2>1, <3>2, <3>4, <3>5 DEF CreditFits, IsKind
  <2>4. CASE ~(q.credits # {} /\ TheCredit(q.credits).src = z)
    <3>1. CreditWeight(p, d, q, CashFrom(z)) = 0
      BY <1>5, <1>12, <2>4, CreditCash
    <3>2. Quiet(e, z)
      BY <1>15, <2>1, <2>2, <3>1 DEF Quiet
    <3>3. DrawnAfter(e, z) \in Int /\ DrawnAfter(e, z) <= Drawn(z)
      <4>1. PICK U : U = {}
        OBVIOUS
      <4>2. U \in SUBSET undrawn /\ 0 \in Nat /\ 0 = IF d # p /\ TheCredit(q.credits).src = z THEN CreditIn(q.credits) ELSE 0
        BY <1>5, <2>4, <4>1 DEF FromHold
      <4>3. DrawnAfter(e, z) \in Int /\ DrawnAfter(e, z) <= TotalOf(LiveDraws(z) \ U) + 0
        BY <1>16, <4>2
      <4>4. TotalOf(LiveDraws(z)) = Drawn(z) /\ Drawn(z) \in Nat /\ LiveDraws(z) \ U = LiveDraws(z)
        BY <4>1, DrawnIsTotal
      <4>5. TotalOf(LiveDraws(z) \ U) = Drawn(z)
        BY <4>4
      <4> QED
        BY <4>3, <4>4, <4>5
    <3> QED
      BY <1>13, <3>2, <3>3, QuietFits
  <2> QED
    BY <2>3, <2>4
<1>20. \A z \in Payments : CreditFits(e, z)
  BY <1>17, <1>18, <1>19
<1> QED
  BY <1>13, <1>20 DEF CreditsFit

LEMMA ReceiveCredit ==
    ASSUME PayInv, PaidInv, CreditInv, NEW p \in Payments, NEW q \in Bodies, NEW d, Receive(p, q, d)
    PROVE  \E e : CreditsFit(e) /\ Commit(e)
<1>1. PICK e, gone, undrawn : e = SettleEffect(p, q, d, gone, undrawn) /\ gone = {} /\ undrawn = {}
  OBVIOUS
<1>2. /\ e.gone = Copies(gone) /\ e.new = Settlement(p, q, d) /\ e.refund = <<>>
      /\ e.payment = SettleEffect(p, q, d, gone, undrawn).payment
  BY <1>1 DEF SettleEffect, Nothing
<1>3. Settles(p, q, d, gone, undrawn) /\ Commit(e) /\ Unused(p) /\ payment[p].kind = "none"
  BY <1>1 DEF Receive, Unused
<1>4. \A c \in q.credits : c.src # p
  BY <1>3 DEF Settles, SourcesHold, IsKind
<1>5. gone \in SUBSET DOMAIN apps /\ undrawn \in SUBSET Payments /\ \A x \in undrawn : IsKind(x, {"draw"})
  BY <1>1
<1>6. refund[p] = 0 /\ CashOn(apps, p) = 0 /\ CashOn(e.gone, p) = 0
  BY <1>1, <1>2, <1>3, UnusedCredit, NoCash
<1>7. Total(q.cash) \in Nat
  BY <1>3, <1>4, SettlementCash DEF Settles
<1>8. Total(q.cash) <= q.amount
  BY <1>3 DEF Settles, WellFormed
<1>9. refund[p] + (CashOn(apps, p) - CashOn(e.gone, p)) + Total(q.cash) <= q.amount
  BY <1>6, <1>7, <1>8
<1>10. CreditsFit(e)
  BY <1>2, <1>3, <1>4, <1>5, <1>9, SettleCredit
<1> QED
  BY <1>3, <1>10

LEMMA UpdatePaymentCredit ==
    ASSUME PayInv, PaidInv, CreditInv, NEW p \in Payments, NEW q \in Bodies, NEW d, UpdatePayment(p, q, d)
    PROVE  \E e : CreditsFit(e) /\ Commit(e)
<1>1. PICK gone : gone = SetAside(p)
  OBVIOUS
<1>2. PICK undrawn : undrawn = DrawsInside(p)
  OBVIOUS
<1>3. PICK e : e = [SettleEffect(p, q, d, gone, undrawn) EXCEPT
                       !.ar = @ + payment[p].total + payment[p].adj,
                       !.clearing = @ - InClearing(payment[p].to, payment[p].total)]
  OBVIOUS
<1>4. Settles(p, q, d, gone, undrawn) /\ Commit(e)
  BY <1>1, <1>2, <1>3 DEF UpdatePayment, MayUpdatePayment, UpdatePaymentEffect
<1>5. /\ e.gone = Copies(gone) /\ e.new = Settlement(p, q, d) /\ e.refund = <<>>
      /\ e.payment = SettleEffect(p, q, d, gone, undrawn).payment
  BY <1>3 DEF SettleEffect, Nothing
<1>6. /\ payment[p].kind = "payment" /\ ~Bounced(p) /\ \A c \in q.credits : c.src # p
  BY DEF UpdatePayment, MayUpdatePayment, UpdatePaymentEffect, Free, IsKind
<1>7. undrawn \in SUBSET Payments /\ \A x \in undrawn : IsKind(x, {"draw"})
  BY <1>2 DEF DrawsInside
<1>8. gone \in SUBSET DOMAIN apps
  BY <1>1 DEF SetAside, RowsOf, LiveApplications, CreditsAppliedIn
<1>9. PICK R, S : R = LiveApplications(p) \ gone /\ S = LaterRows(p)
  OBVIOUS
<1>10. S \in SUBSET DOMAIN apps /\ R \in SUBSET S
  BY <1>1, <1>9 DEF LaterRows, LiveApplications, SetAside
<1>11. Cash(apps, R) <= Cash(apps, S) /\ Cash(apps, R) \in Nat /\ Cash(apps, S) \in Nat
  BY <1>10, CashPart
<1>12. Cash(apps, R) = CashOn(apps, p) - CashOn(e.gone, p)
  BY <1>5, <1>6, <1>8, <1>9, LiveCash DEF IsKind
<1>13. q.amount - Total(q.cash) >= Cash(apps, S) + refund[p]
  BY <1>9 DEF UpdatePayment, MayUpdatePayment, UpdatePaymentEffect, InUse
<1>14. Total(q.cash) \in Nat
  BY <1>4, <1>6, SettlementCash DEF Settles
<1>15. q.amount \in Nat
  BY PaymentsAssumption DEF Bodies, Amounts
<1>16. refund[p] \in Nat
  BY DEF CreditInv, CreditHolds
<1>17. refund[p] + Cash(apps, R) + Total(q.cash) <= q.amount
  BY <1>11, <1>13, <1>14, <1>15, <1>16
<1>18. refund[p] + (CashOn(apps, p) - CashOn(e.gone, p)) + Total(q.cash) <= q.amount
  BY <1>12, <1>17
<1>19. CreditsFit(e)
  BY <1>4, <1>5, <1>6, <1>7, <1>8, <1>18, SettleCredit
<1> QED
  BY <1>4, <1>19

\* Every step of the next-state relation leaves each source within its total.
LEMMA StepCredit ==
    ASSUME PayInv, PaidInv, CreditInv, PaymentsNext
    PROVE  \E e : CreditsFit(e) /\ Commit(e)
<1>1. CASE ReceiptStep
  <2>1. CASE \E p \in Payments, q \in Bodies : \E d \in DrawIds(p, FromHold(q) # {}) : Receive(p, q, d)
    BY <2>1, ReceiveCredit
  <2>2. CASE \E p \in Payments, q \in Bodies : \E d \in DrawIds(p, FromHold(q) # {}) : UpdatePayment(p, q, d)
    BY <2>2, UpdatePaymentCredit
  <2>3. CASE \E p \in Payments : VoidPayment(p)
    BY <2>3, VoidPaymentCredit
  <2> QED
    BY <1>1, <2>1, <2>2, <2>3 DEF ReceiptStep, OfKind
<1>2. Amounts \subseteq Int
  BY PaymentsAssumption DEF Amounts
<1>3. CASE HoldStep
  BY <1>2, <1>3, HoldCredit DEF HoldStep
<1>4. CASE CreditStep
  BY <1>2, <1>4, ApplyCreditWithin, UnapplyCredit DEF CreditStep
<1>5. CASE BounceStep
  BY <1>5, BounceCredit DEF BounceStep
<1>6. CASE MemoStep
  <2>1. CASE \E m \in Payments, total \in Amounts : UpdateMemo(m, total)
    BY <1>2, <2>1, UpdateMemoCredit
  <2>2. CASE \E m \in Payments : VoidMemo(m)
    BY <2>2, VoidMemoCredit
  <2>3. CASE \E m \in Payments, total \in Amounts, i \in Invoices : \E on \in {{}, {i}} : CreateMemo(m, total, on)
    BY <1>2, <2>3, CreateMemoCredit
  <2> QED
    BY <1>6, <2>1, <2>2, <2>3 DEF MemoStep
<1>7. CASE RefundStep
  <2>1. PICK p \in Payments : VoidRefund(p) \/ \E x \in Amounts : Refund(p, x)
    BY <1>7 DEF RefundStep
  <2>2. PICK x \in Int : Refund(p, x) \/ VoidRefund(p)
    BY <1>2, <2>1
  <2> QED
    BY <2>2, RefundCredit
<1>8. CASE DepositStep \/ InvoiceStep
  BY <1>8, OthersCredit
<1> QED
  BY <1>1, <1>3, <1>4, <1>5, <1>6, <1>7, <1>8 DEF PaymentsNext

LEMMA CreditInit == PaymentsInit => CreditInv
BY DEF PaymentsInit, CreditInv, CreditHolds, NoPayment, IsKind

LEMMA CreditNext ==
    ASSUME PayInv, PaidInv, CreditInv, [PaymentsNext]_vars
    PROVE  CreditInv'
<1>1. CASE PaymentsNext
  <2>1. PICK e : CreditsFit(e) /\ Commit(e)
    BY <1>1, StepCredit
  <2> QED
    BY <2>1, FitsKeepsCredit
<1>2. CASE UNCHANGED vars
  <2>1. payment' = payment /\ refund' = refund /\ apps' = apps
    BY <1>2 DEF vars
  <2>2. \A p : CashOn(apps, p)' = CashOn(apps, p) /\ Drawn(p)' = Drawn(p)
    BY <2>1 DEF Drawn
  <2> QED
    BY <2>1, <2>2 DEF CreditInv, CreditHolds, IsKind
<1> QED
  BY <1>1, <1>2

\* No source gives more than it received. The inductive invariant counts the
\* rows a bounce reversed as given too: they come back with its void.
THEOREM CreditInvariant == PaymentsSpec => [](PayInv /\ PaidInv /\ CreditInv)
<1>1. PaymentsInit => CreditInv
  BY CreditInit
<1>2. (PayInv /\ PaidInv) /\ (PayInv /\ PaidInv)' /\ CreditInv /\ [PaymentsNext]_vars => CreditInv'
  BY CreditNext
<1> QED
  BY <1>1, <1>2, PaidInvariant, PTL DEF PaymentsSpec

LEMMA LiveWithinTotal ==
    ASSUME PayInv, PaidInv, CreditInv
    PROVE  CreditNotOverdrawn
<1>1. SUFFICES ASSUME NEW p \in Payments, IsKind(p, {"payment", "hold", "memo"})
               PROVE  Uses(p) <= payment[p].total
  BY DEF CreditNotOverdrawn
<1>2. CreditHolds(p)
  BY DEF CreditInv
<1>3. CASE IsKind(p, {"hold"})
  <2>1. TotalOf(LiveDraws(p)) = Drawn(p)
    BY DrawnIsTotal
  <2> QED
    BY <1>2, <1>3, <2>1 DEF CreditHolds, Uses
<1>4. CASE ~IsKind(p, {"hold"})
  <2>1. PICK G, R, S : G = {} /\ R = {r \in DOMAIN apps : r.pay = p} /\ S = LiveApplications(p)
    OBVIOUS
  <2>2. /\ G \in SUBSET DOMAIN apps /\ R \in SUBSET (DOMAIN apps \ G) /\ (\A r \in R : r.pay = p)
        /\ (\A r \in DOMAIN apps \ G : r.pay = p => r \in R)
    BY <2>1
  <2>3. Cash(apps, R) = CashOn(apps, p) - CashOn(Copies(G), p) /\ CashOn(Copies(G), p) = 0
    BY <2>1, <2>2, CashLeft, NoCash
  <2>4. R \in SUBSET DOMAIN apps /\ S \in SUBSET R
    BY <2>1 DEF LiveApplications
  <2>5. Cash(apps, S) <= Cash(apps, R) /\ Cash(apps, S) \in Nat /\ Cash(apps, R) \in Nat
    BY <2>4, CashPart
  <2>6. CashOn(apps, p) \in Nat
    BY CashIsNat DEF PaidInv
  <2>7. refund[p] + CashOn(apps, p) <= payment[p].total /\ refund[p] \in Nat /\ payment[p].total \in Nat
    BY <1>1, <1>2, <1>4 DEF CreditHolds, IsKind
  <2>8. refund[p] + Cash(apps, S) <= payment[p].total
    BY <2>3, <2>5, <2>6, <2>7
  <2> QED
    BY <1>4, <2>1, <2>8 DEF Uses
<1> QED
  BY <1>3, <1>4

\* A source never gives more than it received, through receipts, later
\* applications, draws, refunds, edits, bounces and their voids
\* (validateSources, CREDIT_IN_USE, applyCreditInTx, createCustomerRefund).
THEOREM NotOverdrawn == PaymentsSpec => []CreditNotOverdrawn
<1>1. PayInv /\ PaidInv /\ CreditInv => CreditNotOverdrawn
  BY LiveWithinTotal
<1> QED
  BY <1>1, CreditInvariant, PTL

-----------------------------------------------------------------------------
(* Discounts, draws and bounces: what the other tables say of a payment's  *)
(* row.  The control accounts need it, since what a void or a bounce takes *)
(* back is read from those tables.                                         *)

AdjFrom(p) == [r \in Application |-> IF r.pay = p THEN r.adj ELSE 0]
AdjOn(A, p) == Weigh(A, AdjFrom(p))

\* Only a receipt's own rows take a discount; no draw is applied inside another
\* payment's transaction.
RowKept(r) ==
    /\ r.adj > 0 => IsKind(r.pay, {"payment"}) /\ ~r.later /\ r.inside = None
    /\ r.inside # None => ~IsKind(r.pay, {"draw"})
\* What the bounce of a payment took off Accounts Receivable and the deposits.
Returned(p) ==
    IF IsKind(p, {"hold"}) THEN [at |-> HeldIn(p), ar |-> Drawn(p), held |-> payment[p].total - Drawn(p)]
                           ELSE [at |-> HeldIn(p), ar |-> payment[p].total + payment[p].adj, held |-> 0]
PaymentKept(p) ==
    /\ IsKind(p, {"payment"}) /\ Posted(p) => AdjOn(apps, p) = payment[p].adj
    /\ IsKind(p, {"draw"}) =>
          /\ payment[p].to = "bank"
          /\ payment[p].inside # None => IsKind(payment[p].inside, {"payment"})
          /\ Posted(p) => CashOn(apps, p) = payment[p].total /\ Posted(payment[p].from)
    /\ ~Posted(p) => refund[p] = 0
    /\ Bounced(p) => bounce[p] = Returned(p)
KeptInv == PayTypeOK /\ (\A r \in DOMAIN apps : RowKept(r)) /\ \A p \in Payments : PaymentKept(p)
AllPaid == PayInv /\ PaidInv /\ CreditInv

PaymentKeeps(e, p) ==
    /\ After(e, p).kind = "payment" /\ After(e, p).st = "posted" =>
          AdjOn(apps, p) - AdjOn(e.gone, p) + AdjOn(e.new, p) = After(e, p).adj
    /\ After(e, p).kind = "draw" =>
          /\ After(e, p).to = "bank"
          /\ After(e, p).inside # None => After(e, After(e, p).inside).kind = "payment"
          /\ After(e, p).st = "posted" =>
                /\ CashOn(apps, p) - CashOn(e.gone, p) + CashOn(e.new, p) = After(e, p).total
                /\ After(e, After(e, p).from).st = "posted"
    /\ After(e, p).st # "posted" => RefundAfter(e, p) = 0
TypesFit(e) ==
    /\ DOMAIN e.payment \subseteq Payments /\ DOMAIN e.refund \subseteq Payments /\ DOMAIN e.bounce \subseteq Payments
    /\ DOMAIN e.deposit \subseteq Deposits /\ DOMAIN e.invoice \subseteq Invoices
    /\ \A p \in DOMAIN e.payment : e.payment[p] \in PaymentRow /\ payment[p].kind \in {"none", e.payment[p].kind}
    /\ \A p \in DOMAIN e.refund : e.refund[p] \in Nat
    /\ \A d \in DOMAIN e.deposit : e.deposit[d] \in DepositRow
    /\ \A i \in DOMAIN e.invoice : e.invoice[i] \in InvoiceRow
    /\ e.ar \in Int /\ e.held \in Int /\ e.clearing \in Int
KeptFits(e) ==
    /\ RowsFit(e) /\ TypesFit(e)
    /\ \A r \in DOMAIN e.new :
          /\ r.adj > 0 => After(e, r.pay).kind = "payment" /\ ~r.later /\ r.inside = None
          /\ r.inside # None => After(e, r.pay).kind # "draw"
    /\ \A p \in DOMAIN e.bounce : \/ e.bounce[p] = NoBounce
                                  \/ e.bounce[p] = Returned(p) /\ e.payment = <<>> /\ e.deposit = <<>>
    /\ \A p \in Payments : PaymentKeeps(e, p)

\* The discounts of rows are amounts.
LEMMA AdjIsNat ==
    /\ \A p, r : r \in Application => AdjFrom(p)[r] \in Nat /\ AdjFrom(p)[r] \in Int
    /\ \A p : AdjFrom(p) \in [Application -> Int]
BY Amounts0 DEF AdjFrom

\* What a step changes of the discounts of a payment.
LEMMA AdjAfter ==
    ASSUME PaidInv, NEW e, RowsFit(e), Commit(e), NEW p
    PROVE  AdjOn(apps', p) = AdjOn(apps, p) - AdjOn(e.gone, p) + AdjOn(e.new, p)
<1>1. PICK A, G, N, B : A = apps /\ G = e.gone /\ N = e.new /\ B = apps'
  OBVIOUS
<1>2. B = (A (-) G) (+) N
  BY <1>1 DEF Commit
<1>3. Typed(A) /\ Typed(G) /\ Typed(N) /\ WithinBag(G, A)
  BY <1>1, TypedRows DEF PaidInv, RowsFit
<1>4. FiniteBag(A) /\ FiniteBag(G) /\ FiniteBag(N) /\ DOMAIN A \cup DOMAIN N \subseteq Application
  BY <1>3 DEF Typed
<1>5. PICK V : V = AdjFrom(p)
  OBVIOUS
<1>6. \A r \in DOMAIN A \cup DOMAIN N : V[r] \in Int
  BY <1>4, <1>5, AdjIsNat
<1>7. Weigh(B, V) = Weigh(A, V) - Weigh(G, V) + Weigh(N, V)
  BY <1>2, <1>3, <1>4, <1>6, WeighAfter
<1> QED
  BY <1>1, <1>5, <1>7 DEF AdjOn

\* The rows of the tables after the step.
LEMMA TablesAfter ==
    ASSUME AllPaid, NEW e, TypesFit(e), Commit(e)
    PROVE  /\ \A p \in Payments : payment'[p] = After(e, p) /\ refund'[p] = RefundAfter(e, p)
           /\ \A p \in Payments : bounce'[p] = IF p \in DOMAIN e.bounce THEN e.bounce[p] ELSE bounce[p]
           /\ payment' = [p \in Payments |-> After(e, p)]
           /\ refund' = [p \in Payments |-> RefundAfter(e, p)]
           /\ bounce' = [p \in Payments |-> IF p \in DOMAIN e.bounce THEN e.bounce[p] ELSE bounce[p]]
           /\ deposit' = [d \in Deposits |-> IF d \in DOMAIN e.deposit THEN e.deposit[d] ELSE deposit[d]]
           /\ invoice' = [i \in Invoices |-> IF i \in DOMAIN e.invoice THEN e.invoice[i] ELSE Moved(invoice, e.gone, e.new)[i]]
           /\ books' = [ar |-> books.ar + e.ar, held |-> books.held + e.held, clearing |-> books.clearing + e.clearing]
<1>1. /\ DOMAIN payment = Payments /\ DOMAIN refund = Payments /\ DOMAIN bounce = Payments
      /\ DOMAIN deposit = Deposits
  BY DEF AllPaid, PayInv, Tables
<1>2. DOMAIN Moved(invoice, e.gone, e.new) = Invoices
  BY DEF Moved
<1>3. payment' = [p \in Payments |-> After(e, p)]
  <2>1. payment' = Over(e.payment, payment) /\ DOMAIN e.payment \cup Payments = Payments
    BY DEF Commit, TypesFit
  <2> QED
    BY <1>1, <2>1 DEF Over, After
<1>4. refund' = [p \in Payments |-> RefundAfter(e, p)]
  <2>1. refund' = Over(e.refund, refund) /\ DOMAIN e.refund \cup Payments = Payments
    BY DEF Commit, TypesFit
  <2> QED
    BY <1>1, <2>1 DEF Over, RefundAfter
<1>5. bounce' = [p \in Payments |-> IF p \in DOMAIN e.bounce THEN e.bounce[p] ELSE bounce[p]]
  <2>1. bounce' = Over(e.bounce, bounce) /\ DOMAIN e.bounce \cup Payments = Payments
    BY DEF Commit, TypesFit
  <2> QED
    BY <1>1, <2>1 DEF Over
<1>6. deposit' = [d \in Deposits |-> IF d \in DOMAIN e.deposit THEN e.deposit[d] ELSE deposit[d]]
  <2>1. deposit' = Over(e.deposit, deposit) /\ DOMAIN e.deposit \cup Deposits = Deposits
    BY DEF Commit, TypesFit
  <2> QED
    BY <1>1, <2>1 DEF Over
<1>7. invoice' = [i \in Invoices |-> IF i \in DOMAIN e.invoice THEN e.invoice[i] ELSE Moved(invoice, e.gone, e.new)[i]]
  <2>1. PICK moved : moved = Moved(invoice, e.gone, e.new)
    OBVIOUS
  <2>2. invoice' = Over(e.invoice, moved) /\ DOMAIN e.invoice \cup Invoices = Invoices
    BY <2>1 DEF Commit, TypesFit
  <2> QED
    BY <1>2, <2>1, <2>2 DEF Over
<1>8. books' = [ar |-> books.ar + e.ar, held |-> books.held + e.held, clearing |-> books.clearing + e.clearing]
  BY DEF Commit
<1> QED
  BY <1>3, <1>4, <1>5, <1>6, <1>7, <1>8

\* A bounced payment keeps the draws on it as they are.
LEMMA BouncedDraws ==
    ASSUME PayInv, PaymentsNext, NEW p \in Payments, Bounced(p), Bounced(p)'
    PROVE  /\ payment'[p] = payment[p] /\ LiveDepositsFor(p)' = LiveDepositsFor(p)
           /\ Drawn(p)' = Drawn(p)
<1>1. PICK e : Lawful(e) /\ Commit(e)
  BY StepLawful
<1>2. Untouched(p)
  BY <1>1, LawfulReadOnly
<1>3. ASSUME NEW d \in Payments PROVE DrawFor(payment'[d], p) = DrawFor(payment[d], p)
  <2>1. d \in LiveDraws(p)' <=> d \in LiveDraws(p)
    BY <1>2 DEF Untouched
  <2>2. CASE d \in DOMAIN e.payment
    <3>1. payment'[d] = e.payment[d] /\ PaymentLawful(e, d, e.payment[d])
      BY <1>1, <2>2, PaymentsAfter DEF After, Lawful, PaymentsLawful
    <3>2. ~(e.payment[d].kind = "draw" /\ e.payment[d].from = p)
      BY <3>1 DEF PaymentLawful
    <3>3. DrawFor(payment'[d], p) = 0
      BY <3>1, <3>2 DEF DrawFor
    <3>4. d \notin LiveDraws(p)
      BY <2>1, <3>1, <3>2 DEF LiveDraws, IsKind
    <3>5. DrawFor(payment[d], p) = 0
      BY <3>4 DEF LiveDraws, DrawFor, IsKind, Posted
    <3> QED
      BY <3>3, <3>5
  <2>3. CASE d \notin DOMAIN e.payment
    BY <1>1, <2>3, PaymentsAfter DEF After
  <2> QED
    BY <2>2, <2>3
<1>4. [d \in Payments |-> DrawFor(payment'[d], p)] = [d \in Payments |-> DrawFor(payment[d], p)]
  BY <1>3
<1>5. Drawn(p)' = Drawn(p)
  BY <1>4 DEF Drawn
<1> QED
  BY <1>2, <1>5 DEF Untouched

\* Taking rows out and putting rows in leaves a bag.
LEMMA BagIsABag ==
    ASSUME NEW A, FiniteBag(A), NEW G, FiniteBag(G), WithinBag(G, A), NEW N, FiniteBag(N)
    PROVE  IsABag((A (-) G) (+) N)
<1>1. PICK B : B = (A (-) G) (+) N
  OBVIOUS
<1>2. FiniteBag(B)
  BY <1>1, BagAfter
<1>3. B = [r \in DOMAIN B |-> B[r]]
  BY <1>1 DEF (+)
<1>4. B \in [DOMAIN B -> {n \in Nat : n > 0}]
  BY <1>2, <1>3 DEF FiniteBag
<1> QED
  BY <1>1, <1>4 DEF IsABag

\* What a bounce takes back is an amount of its accounts.
LEMMA ReturnedTyped ==
    ASSUME AllPaid, PayTypeOK, NEW p \in Payments, IsKind(p, {"payment", "hold"})
    PROVE  Returned(p) \in Bounce
<1>1. payment[p] \in PaymentRow
  BY DEF PayTypeOK
<1>2. HeldIn(p) \in {"none", "clearing", "bank"}
  BY <1>1 DEF HeldIn, PaymentRow
<1>3. Drawn(p) \in Nat
  BY DrawnIsTotal DEF AllPaid
<1>4. IsKind(p, {"hold"}) => Drawn(p) <= payment[p].total
  <2>1. CreditHolds(p)
    BY DEF AllPaid, CreditInv
  <2> QED
    BY <1>3, <2>1 DEF CreditHolds
<1>5. payment[p].total \in Nat /\ payment[p].adj \in Nat
  BY <1>1 DEF PaymentRow
<1> QED
  BY <1>2, <1>3, <1>4, <1>5 DEF Returned, Bounce

\* The tables keep their types under an effect that keeps them.
LEMMA FitsKeepsTypes ==
    ASSUME AllPaid, AllPaid', PayTypeOK, NEW e, KeptFits(e), Commit(e),
           \A p \in DOMAIN e.bounce : IsKind(p, {"payment", "hold"})
    PROVE  PayTypeOK'
<1>1. TypesFit(e) /\ RowsFit(e)
  BY DEF KeptFits
<1>2. invoice' \in [Invoices -> InvoiceRow]
  <2>1. \A i \in Invoices : invoice'[i] \in InvoiceRow
    BY DEF AllPaid, PaidInv, PaidTies
  <2>2. invoice' = [i \in Invoices |-> IF i \in DOMAIN e.invoice THEN e.invoice[i] ELSE Moved(invoice, e.gone, e.new)[i]]
    BY <1>1, TablesAfter
  <2> QED
    BY <2>1, <2>2
<1>3. payment' \in [Payments -> PaymentRow]
  <2>1. \A p \in Payments : After(e, p) \in PaymentRow
    BY <1>1 DEF TypesFit, After, PayTypeOK
  <2>2. payment' = [p \in Payments |-> After(e, p)]
    BY <1>1, TablesAfter
  <2> QED
    BY <2>1, <2>2
<1>4. refund' \in [Payments -> Nat]
  <2>1. \A p \in Payments : refund'[p] \in Nat
    BY DEF AllPaid, CreditInv, CreditHolds
  <2>2. refund' = [p \in Payments |-> RefundAfter(e, p)]
    BY <1>1, TablesAfter
  <2> QED
    BY <2>1, <2>2
<1>5. bounce' \in [Payments -> Bounce]
  <2>1. \A p \in DOMAIN e.bounce : e.bounce[p] \in Bounce
    <3>1. NoBounce \in Bounce
      BY DEF NoBounce, Bounce
    <3> QED
      BY <1>1, <3>1, ReturnedTyped DEF KeptFits, TypesFit
  <2>2. bounce' = [p \in Payments |-> IF p \in DOMAIN e.bounce THEN e.bounce[p] ELSE bounce[p]]
    BY <1>1, TablesAfter
  <2>3. \A p \in Payments : bounce[p] \in Bounce
    BY DEF PayTypeOK
  <2> QED
    BY <2>1, <2>2, <2>3
<1>6. deposit' \in [Deposits -> [st : {"none", "posted", "void"}, items : SUBSET Payments]]
  <2>1. deposit' = [d \in Deposits |-> IF d \in DOMAIN e.deposit THEN e.deposit[d] ELSE deposit[d]]
    BY <1>1, TablesAfter
  <2>2. \A d \in Deposits : deposit[d] \in DepositRow
    BY DEF PayTypeOK, DepositRow
  <2>3. \A d \in DOMAIN e.deposit : e.deposit[d] \in DepositRow
    BY <1>1 DEF TypesFit
  <2> QED
    BY <2>1, <2>2, <2>3 DEF DepositRow
<1>7. books' \in [ar : Int, held : Int, clearing : Int]
  <2>1. books \in [ar : Int, held : Int, clearing : Int]
    BY DEF PayTypeOK
  <2>2. books' = [ar |-> books.ar + e.ar, held |-> books.held + e.held, clearing |-> books.clearing + e.clearing]
    BY <1>1, TablesAfter
  <2> QED
    BY <1>1, <2>1, <2>2 DEF TypesFit
<1>8. IsABag(apps') /\ \A r \in DOMAIN apps' : r \in Application
  <2>1. FiniteBag(apps) /\ FiniteBag(e.gone) /\ WithinBag(e.gone, apps) /\ FiniteBag(e.new)
    BY <1>1 DEF AllPaid, PaidInv, Typed, RowsFit
  <2>2. apps' = (apps (-) e.gone) (+) e.new
    BY DEF Commit
  <2>3. PICK A, G, N : A = apps /\ G = e.gone /\ N = e.new
    OBVIOUS
  <2>4. IsABag((A (-) G) (+) N)
    BY <2>1, <2>3, BagIsABag
  <2>5. Typed(apps)'
    BY DEF AllPaid, PaidInv
  <2> QED
    BY <2>2, <2>3, <2>4, <2>5 DEF Typed, FiniteBag
<1> QED
  BY <1>2, <1>3, <1>4, <1>5, <1>6, <1>7, <1>8 DEF PayTypeOK

\* A row keeps its discount to a receipt of its own.
LEMMA FitsKeepsRows ==
    ASSUME AllPaid, KeptInv, NEW e, KeptFits(e), Commit(e), NEW r \in DOMAIN apps'
    PROVE  RowKept(r)'
<1>1. TypesFit(e) /\ RowsFit(e)
  BY DEF KeptFits
<1>2. Typed(apps) /\ Typed(e.gone) /\ Typed(e.new) /\ WithinBag(e.gone, apps)
  BY <1>1, TypedRows DEF AllPaid, PaidInv, RowsFit
<1>3. PICK A, G, N, B : A = apps /\ G = e.gone /\ N = e.new /\ B = apps'
  OBVIOUS
<1>4. DOMAIN B \subseteq DOMAIN A \cup DOMAIN N
  <2>1. FiniteBag(A) /\ FiniteBag(G) /\ FiniteBag(N) /\ WithinBag(G, A)
    BY <1>2, <1>3 DEF Typed
  <2>2. B = (A (-) G) (+) N
    BY <1>3 DEF Commit
  <2> QED
    BY <2>1, <2>2, BagAfter
<1>5. r \in DOMAIN apps \cup DOMAIN e.new /\ r \in Application
  BY <1>2, <1>3, <1>4 DEF Typed
<1>6. r.pay \in Payments
  BY <1>5, Amounts0
<1>7. payment'[r.pay] = After(e, r.pay)
  BY <1>1, <1>6, TablesAfter
<1>8. CASE r \in DOMAIN e.new
  BY <1>7, <1>8 DEF KeptFits, RowKept, IsKind
<1>9. CASE r \notin DOMAIN e.new
  <2>1. r \in DOMAIN apps /\ RowKept(r) /\ payment[r.pay].kind # "none"
    BY <1>5, <1>9 DEF KeptInv, AllPaid, PayInv, Kinship, IsKind
  <2>2. After(e, r.pay).kind = payment[r.pay].kind
    BY <1>1, <2>1 DEF After, TypesFit
  <2> QED
    BY <1>7, <2>1, <2>2 DEF RowKept, IsKind
<1> QED
  BY <1>8, <1>9

\* A payment keeps its discounts, its cash and what its bounce took.
LEMMA FitsKeepsPayments ==
    ASSUME AllPaid, AllPaid', KeptInv, PaymentsNext, NEW e, KeptFits(e), Commit(e), NEW p \in Payments
    PROVE  PaymentKept(p)'
<1>1. TypesFit(e) /\ RowsFit(e) /\ PaymentKeeps(e, p)
  BY DEF KeptFits
<1>2. /\ payment'[p] = After(e, p) /\ refund'[p] = RefundAfter(e, p)
      /\ bounce'[p] = IF p \in DOMAIN e.bounce THEN e.bounce[p] ELSE bounce[p]
      /\ \A x \in Payments : payment'[x] = After(e, x)
  BY <1>1, TablesAfter
<1>3. /\ CashOn(apps, p)' = CashOn(apps, p) - CashOn(e.gone, p) + CashOn(e.new, p)
      /\ AdjOn(apps, p)' = AdjOn(apps, p) - AdjOn(e.gone, p) + AdjOn(e.new, p)
  <2>1. CashOn(apps', p) = CashOn(apps, p) - CashOn(e.gone, p) + CashOn(e.new, p)
    BY <1>1, CashAfter DEF AllPaid
  <2>2. AdjOn(apps', p) = AdjOn(apps, p) - AdjOn(e.gone, p) + AdjOn(e.new, p)
    BY <1>1, AdjAfter DEF AllPaid
  <2>3. CashOn(apps, p)' = CashOn(apps', p) /\ AdjOn(apps, p)' = AdjOn(apps', p)
    BY DEF CashOn, AdjOn
  <2> QED
    BY <2>1, <2>2, <2>3
<1>4. IsKind(p, {"payment"})' /\ Posted(p)' => AdjOn(apps, p)' = payment'[p].adj
  BY <1>1, <1>2, <1>3 DEF PaymentKeeps, IsKind, Posted
<1>5. ASSUME IsKind(p, {"draw"})'
      PROVE  /\ payment'[p].to = "bank"
             /\ payment'[p].inside # None => IsKind(payment[p].inside, {"payment"})'
             /\ Posted(p)' => CashOn(apps, p)' = payment'[p].total /\ Posted(payment[p].from)'
  <2>1. After(e, p).kind = "draw"
    BY <1>2, <1>5 DEF IsKind
  <2>2. After(e, p) \in PaymentRow
    BY <1>1 DEF After, TypesFit, KeptInv, PayTypeOK
  <2>3. After(e, p).inside # None => After(e, p).inside \in Payments
    BY <2>2 DEF PaymentRow
  <2>4. After(e, p).from \in Payments
    BY <1>2, <1>5 DEF AllPaid, PayInv, Kinship
  <2> QED
    BY <1>1, <1>2, <1>3, <2>1, <2>3, <2>4 DEF PaymentKeeps, IsKind, Posted
<1>6. ~Posted(p)' => refund'[p] = 0
  BY <1>1, <1>2 DEF PaymentKeeps, Posted
<1>7. ASSUME Bounced(p)' PROVE bounce'[p] = Returned(p)'
  <2>1. CASE p \in DOMAIN e.bounce
    <3>1. e.bounce[p] = Returned(p) /\ e.payment = <<>> /\ e.deposit = <<>>
      BY <1>2, <1>7, <2>1 DEF KeptFits, Bounced, NoBounce
    <3>2. \A x \in Payments : payment'[x] = payment[x]
      BY <1>2, <3>1 DEF After
    <3>3. deposit' = deposit
      <4>1. deposit' = [d \in Deposits |-> IF d \in DOMAIN e.deposit THEN e.deposit[d] ELSE deposit[d]]
        BY <1>1, TablesAfter
      <4>2. deposit = [d \in Deposits |-> deposit[d]]
        BY DEF KeptInv, PayTypeOK
      <4> QED
        BY <3>1, <4>1, <4>2
    <3>4. Drawn(p)' = Drawn(p)
      <4>1. [d \in Payments |-> DrawFor(payment'[d], p)] = [d \in Payments |-> DrawFor(payment[d], p)]
        BY <3>2
      <4> QED
        BY <4>1 DEF Drawn
    <3>5. HeldIn(p)' = HeldIn(p)
      BY <3>2, <3>3 DEF HeldIn, LiveDepositsFor
    <3>6. Returned(p)' = Returned(p)
      BY <3>2, <3>4, <3>5 DEF Returned, IsKind
    <3> QED
      BY <1>2, <2>1, <3>1, <3>6
  <2>2. CASE p \notin DOMAIN e.bounce
    <3>1. bounce'[p] = bounce[p] /\ Bounced(p)
      BY <1>2, <1>7, <2>2 DEF Bounced
    <3>2. /\ payment'[p] = payment[p] /\ LiveDepositsFor(p)' = LiveDepositsFor(p)
          /\ Drawn(p)' = Drawn(p)
      BY <1>7, <3>1, BouncedDraws DEF AllPaid
    <3>3. HeldIn(p)' = HeldIn(p)
      BY <3>2 DEF HeldIn
    <3>4. Returned(p)' = Returned(p)
      BY <3>2, <3>3 DEF Returned, IsKind
    <3>5. bounce[p] = Returned(p)
      BY <3>1 DEF KeptInv, PaymentKept
    <3> QED
      BY <3>1, <3>4, <3>5
  <2> QED
    BY <2>1, <2>2
<1> QED
  BY <1>4, <1>5, <1>6, <1>7 DEF PaymentKept

\* Every part of KeptInv is kept.
LEMMA FitsKeepsKept ==
    ASSUME AllPaid, AllPaid', KeptInv, PaymentsNext, NEW e, KeptFits(e), Commit(e),
           \A p \in DOMAIN e.bounce : IsKind(p, {"payment", "hold"})
    PROVE  KeptInv'
<1>1. PayTypeOK'
  BY FitsKeepsTypes DEF KeptInv
<1>2. \A r \in DOMAIN apps' : RowKept(r)'
  BY FitsKeepsRows
<1>3. \A p \in Payments : PaymentKept(p)'
  BY FitsKeepsPayments
<1> QED
  BY <1>1, <1>2, <1>3 DEF KeptInv

-----------------------------------------------------------------------------
(* The control accounts.                                                   *)

\* A payment stands while it is posted and neither it nor the held deposit it
\* draws on is bounced; what it then gives to Accounts Receivable, to Customer
\* Deposits and to Payments Clearing.
ArGive(row, n) == IF row.kind = "payment" THEN row.total + row.adj - n
                  ELSE IF row.kind = "memo" THEN row.total - n
                  ELSE IF row.kind = "draw" THEN row.total ELSE 0
HeldGive(row, n) == IF row.kind = "hold" THEN row.total - n ELSE IF row.kind = "draw" THEN -row.total ELSE 0
Stands(p) == Posted(p) /\ ~Bounced(p) /\ (IsKind(p, {"draw"}) => ~Bounced(payment[p].from))
ArOf(p) == IF Stands(p) THEN ArGive(payment[p], refund[p]) ELSE 0
HeldOf(p) == IF Stands(p) THEN HeldGive(payment[p], refund[p]) ELSE 0
ClearingOf(p) == IF Posted(p) /\ ~Bounced(p) /\ LiveDepositsFor(p) = {}
                 THEN InClearing(payment[p].to, payment[p].total) ELSE 0
BilledOf(row) == IF row.st = "posted" THEN row.total ELSE 0

Billed == SumOn([i \in Invoices |-> BilledOf(invoice[i])], Invoices)
Settled == SumOn([p \in Payments |-> ArOf(p)], Payments)
Held == SumOn([p \in Payments |-> HeldOf(p)], Payments)
Clearing == SumOn([p \in Payments |-> ClearingOf(p)], Payments)

\* What a refund of a draw adds to Accounts Receivable, standing or not.
RedrawnOf(row, n) == IF row.kind = "draw" THEN n ELSE 0
Redrawn == SumOn([p \in Payments |-> RedrawnOf(payment[p], refund[p])], Payments)

BooksInv ==
    /\ books.ar = Billed - Settled + Redrawn
    /\ books.held = Held
    /\ books.clearing = Clearing

\* The same after an effect.
StandsAfter(e, p) == /\ After(e, p).st = "posted" /\ ~BouncedAfter(e, p)
                     /\ After(e, p).kind = "draw" => ~BouncedAfter(e, After(e, p).from)
ArAfter(e, p) == IF StandsAfter(e, p) THEN ArGive(After(e, p), RefundAfter(e, p)) ELSE 0
HeldAfter(e, p) == IF StandsAfter(e, p) THEN HeldGive(After(e, p), RefundAfter(e, p)) ELSE 0
DepositAfter(e, d) == IF d \in DOMAIN e.deposit THEN e.deposit[d] ELSE deposit[d]
DepositsOf(e, p) == {d \in Deposits : DepositAfter(e, d).st = "posted" /\ p \in DepositAfter(e, d).items}
ClearingAfter(e, p) == IF After(e, p).st = "posted" /\ ~BouncedAfter(e, p) /\ DepositsOf(e, p) = {}
                       THEN InClearing(After(e, p).to, After(e, p).total) ELSE 0
InvoiceAfter(e, i) == IF i \in DOMAIN e.invoice THEN e.invoice[i] ELSE invoice[i]

BilledThen(e) == SumOn([i \in Invoices |-> BilledOf(InvoiceAfter(e, i))], Invoices)
SettledThen(e) == SumOn([p \in Payments |-> ArAfter(e, p)], Payments)
HeldThen(e) == SumOn([p \in Payments |-> HeldAfter(e, p)], Payments)
RedrawnThen(e) == SumOn([p \in Payments |-> RedrawnOf(After(e, p), RefundAfter(e, p))], Payments)
ClearingThen(e) == SumOn([p \in Payments |-> ClearingAfter(e, p)], Payments)

\* A sum over the payments moves with the one value that changes.
LEMMA OneChanges ==
    ASSUME NEW f, NEW g, NEW p \in Payments,
           \A x \in Payments : f[x] \in Int, \A x \in Payments : g[x] \in Int,
           \A x \in Payments \ {p} : g[x] = f[x]
    PROVE  SumOn(g, Payments) = SumOn(f, Payments) + g[p] - f[p] /\ SumOn(f, Payments) \in Int
<1>1. IsFiniteSet(Payments)
  BY PaymentsAssumption
<1>2. (\A x \in Payments : f[x] \in Int /\ g[x] \in Int) /\ (\A x \in Payments \ {p} : g[x] = f[x])
  OBVIOUS
<1>3. SumOn(g, Payments) = SumOn(f, Payments) + g[p] - f[p]
  BY <1>1, <1>2, SumOnChange
<1>4. SumOn(f, Payments) \in Int
  BY <1>1, SumOnType
<1> QED
  BY <1>3, <1>4

\* What an effect posts is what it changes of the sums.
ArFits(e) == e.ar = (BilledThen(e) - Billed) - (SettledThen(e) - Settled)
HeldFits(e) == e.held = HeldThen(e) - Held
ClearingFits(e) == e.clearing = ClearingThen(e) - Clearing
BooksFit(e) == ArFits(e) /\ HeldFits(e) /\ ClearingFits(e)
\* A refund of a draw, or its void: Accounts Receivable takes it all.
RedrawFits(e, p) ==
    /\ payment[p].kind = "draw" /\ DOMAIN e.refund = {p}
    /\ e.payment = <<>> /\ e.bounce = <<>> /\ e.deposit = <<>> /\ e.invoice = <<>>
    /\ e.ar = e.refund[p] - refund[p] /\ e.held = 0 /\ e.clearing = 0
BooksMove(e) == \/ BooksFit(e) /\ \A p \in DOMAIN e.refund : After(e, p).kind # "draw"
                \/ \E p \in Payments : RedrawFits(e, p)

\* What the tables give to the accounts are integers.
LEMMA PartsAreInt ==
    ASSUME PayTypeOK
    PROVE  /\ \A p \in Payments : ArOf(p) \in Int /\ HeldOf(p) \in Int /\ ClearingOf(p) \in Int
           /\ \A i \in Invoices : BilledOf(invoice[i]) \in Int
           /\ books.ar \in Int /\ books.held \in Int /\ books.clearing \in Int
<1>1. ASSUME NEW p \in Payments
      PROVE  ArOf(p) \in Int /\ HeldOf(p) \in Int /\ ClearingOf(p) \in Int
  <2>1. payment[p] \in PaymentRow /\ refund[p] \in Nat
    BY DEF PayTypeOK
  <2>2. payment[p].total \in Nat /\ payment[p].adj \in Nat
    BY <2>1 DEF PaymentRow
  <2> QED
    BY <2>1, <2>2 DEF ArOf, HeldOf, ClearingOf, ArGive, HeldGive, InClearing
<1>2. \A i \in Invoices : BilledOf(invoice[i]) \in Int
  BY DEF PayTypeOK, InvoiceRow, BilledOf
<1> QED
  BY <1>1, <1>2 DEF PayTypeOK

\* So are their sums.
LEMMA SumsAreInt ==
    ASSUME PayTypeOK
    PROVE  Billed \in Int /\ Settled \in Int /\ Held \in Int /\ Clearing \in Int
<1>1. PICK b, s, h, c : /\ b = [i \in Invoices |-> BilledOf(invoice[i])] /\ s = [p \in Payments |-> ArOf(p)]
                        /\ h = [p \in Payments |-> HeldOf(p)] /\ c = [p \in Payments |-> ClearingOf(p)]
  OBVIOUS
<1>2. /\ \A i \in Invoices : b[i] \in Int
      /\ \A p \in Payments : s[p] \in Int /\ h[p] \in Int /\ c[p] \in Int
  BY <1>1, PartsAreInt
<1>3. IsFiniteSet(Invoices) /\ IsFiniteSet(Payments)
  BY PaymentsAssumption
<1>4. SumOn(b, Invoices) \in Int
  BY <1>2, <1>3, SumOnType
<1>5. SumOn(s, Payments) \in Int /\ SumOn(h, Payments) \in Int /\ SumOn(c, Payments) \in Int
  BY <1>2, <1>3, SumOnType
<1> QED
  BY <1>1, <1>4, <1>5 DEF Billed, Settled, Held, Clearing

\* So are the sums after an effect.
LEMMA ThenAreInt ==
    ASSUME PayTypeOK, NEW e, TypesFit(e)
    PROVE  BilledThen(e) \in Int /\ SettledThen(e) \in Int /\ HeldThen(e) \in Int /\ ClearingThen(e) \in Int
<1>1. PICK b, s, h, c : /\ b = [i \in Invoices |-> BilledOf(InvoiceAfter(e, i))] /\ s = [p \in Payments |-> ArAfter(e, p)]
                        /\ h = [p \in Payments |-> HeldAfter(e, p)] /\ c = [p \in Payments |-> ClearingAfter(e, p)]
  OBVIOUS
<1>2. \A i \in Invoices : b[i] \in Int
  BY <1>1 DEF PayTypeOK, TypesFit, InvoiceAfter, InvoiceRow, BilledOf
<1>3. ASSUME NEW p \in Payments PROVE s[p] \in Int /\ h[p] \in Int /\ c[p] \in Int
  <2>1. After(e, p) \in PaymentRow /\ RefundAfter(e, p) \in Nat
    BY DEF PayTypeOK, TypesFit, After, RefundAfter
  <2>2. After(e, p).total \in Nat /\ After(e, p).adj \in Nat
    BY <2>1 DEF PaymentRow
  <2> QED
    BY <1>1, <2>1, <2>2 DEF ArAfter, HeldAfter, ClearingAfter, ArGive, HeldGive, InClearing
<1>4. IsFiniteSet(Invoices) /\ IsFiniteSet(Payments)
  BY PaymentsAssumption
<1>5. SumOn(b, Invoices) \in Int
  BY <1>2, <1>4, SumOnType
<1>6. \A p \in Payments : s[p] \in Int /\ h[p] \in Int /\ c[p] \in Int
  BY <1>3
<1>7. SumOn(s, Payments) \in Int /\ SumOn(h, Payments) \in Int /\ SumOn(c, Payments) \in Int
  BY <1>4, <1>6, SumOnType
<1> QED
  BY <1>1, <1>5, <1>7 DEF BilledThen, SettledThen, HeldThen, ClearingThen

\* What was refunded of draws is an integer.
LEMMA RedrawnIsInt ==
    ASSUME PayTypeOK
    PROVE  /\ \A p \in Payments : RedrawnOf(payment[p], refund[p]) \in Int
           /\ Redrawn \in Int
<1>1. PICK f : f = [p \in Payments |-> RedrawnOf(payment[p], refund[p])]
  OBVIOUS
<1>2. \A p \in Payments : f[p] \in Int
  BY <1>1 DEF PayTypeOK, RedrawnOf
<1>3. IsFiniteSet(Payments)
  BY PaymentsAssumption
<1>4. SumOn(f, Payments) \in Int
  BY <1>2, <1>3, SumOnType
<1> QED
  BY <1>1, <1>2, <1>4 DEF Redrawn

\* An effect that refunds no draw leaves what was refunded of draws.
LEMMA RedrawnStays ==
    ASSUME AllPaid, KeptInv, NEW e, TypesFit(e), \A p \in DOMAIN e.refund : After(e, p).kind # "draw"
    PROVE  RedrawnThen(e) = Redrawn
<1>1. ASSUME NEW p \in Payments PROVE RedrawnOf(After(e, p), RefundAfter(e, p)) = RedrawnOf(payment[p], refund[p])
  <2>1. payment[p].kind = "none" => refund[p] = 0
    BY DEF KeptInv, PaymentKept, AllPaid, PayInv, Tables, PaymentShape, Posted
  <2>2. payment[p].kind \in {"none", After(e, p).kind}
    BY DEF TypesFit, After
  <2>3. After(e, p).kind = "draw" => RefundAfter(e, p) = refund[p]
    BY DEF RefundAfter
  <2> QED
    BY <2>1, <2>2, <2>3 DEF RedrawnOf
<1>2. [p \in Payments |-> RedrawnOf(After(e, p), RefundAfter(e, p))] = [p \in Payments |-> RedrawnOf(payment[p], refund[p])]
  BY <1>1
<1> QED
  BY <1>2 DEF Redrawn, RedrawnThen

\* A refund of a draw changes no other sum.
LEMMA RedrawnMoves ==
    ASSUME PayTypeOK, NEW e, NEW p \in Payments, RedrawFits(e, p), e.refund[p] \in Nat
    PROVE  /\ BilledThen(e) = Billed /\ SettledThen(e) = Settled /\ HeldThen(e) = Held /\ ClearingThen(e) = Clearing
           /\ RedrawnThen(e) = Redrawn + (e.refund[p] - refund[p])
<1> USE DEF RedrawFits
<1>1. \A x \in Payments : After(e, x) = payment[x] /\ (BouncedAfter(e, x) <=> Bounced(x))
  BY DEF After, BouncedAfter, Bounced
<1>2. \A y : BouncedAfter(e, y) <=> Bounced(y)
  BY DEF BouncedAfter, Bounced
<1>3. \A x \in Payments : RefundAfter(e, x) = IF x = p THEN e.refund[p] ELSE refund[x]
  BY DEF RefundAfter
<1>4. \A x \in Payments : StandsAfter(e, x) <=> Stands(x)
  BY <1>1, <1>2 DEF StandsAfter, Stands, Posted, IsKind
<1>5. \A x \in Payments : /\ ArGive(payment[x], RefundAfter(e, x)) = ArGive(payment[x], refund[x])
                          /\ HeldGive(payment[x], RefundAfter(e, x)) = HeldGive(payment[x], refund[x])
  BY <1>3 DEF ArGive, HeldGive
<1>6. \A x \in Payments : ArAfter(e, x) = ArOf(x) /\ HeldAfter(e, x) = HeldOf(x)
  BY <1>1, <1>4, <1>5 DEF ArAfter, ArOf, HeldAfter, HeldOf
<1>7. \A x \in Payments : DepositsOf(e, x) = LiveDepositsFor(x)
  BY DEF DepositsOf, DepositAfter, LiveDepositsFor
<1>8. \A x \in Payments : ClearingAfter(e, x) = ClearingOf(x)
  BY <1>1, <1>7 DEF ClearingAfter, ClearingOf, Posted
<1>9. BilledThen(e) = Billed
  <2>1. [i \in Invoices |-> BilledOf(InvoiceAfter(e, i))] = [i \in Invoices |-> BilledOf(invoice[i])]
    BY DEF InvoiceAfter
  <2> QED
    BY <2>1 DEF Billed, BilledThen
<1>10. SettledThen(e) = Settled
  <2>1. [x \in Payments |-> ArAfter(e, x)] = [x \in Payments |-> ArOf(x)]
    BY <1>6
  <2> QED
    BY <2>1 DEF Settled, SettledThen
<1>11. HeldThen(e) = Held
  <2>1. [x \in Payments |-> HeldAfter(e, x)] = [x \in Payments |-> HeldOf(x)]
    BY <1>6
  <2> QED
    BY <2>1 DEF Held, HeldThen
<1>12. ClearingThen(e) = Clearing
  <2>1. [x \in Payments |-> ClearingAfter(e, x)] = [x \in Payments |-> ClearingOf(x)]
    BY <1>8
  <2> QED
    BY <2>1 DEF Clearing, ClearingThen
<1>13. RedrawnThen(e) = Redrawn + (e.refund[p] - refund[p])
  <2>1. PICK f, g : /\ f = [x \in Payments |-> RedrawnOf(payment[x], refund[x])]
                    /\ g = [x \in Payments |-> RedrawnOf(After(e, x), RefundAfter(e, x))]
    OBVIOUS
  <2>2. refund[p] \in Nat
    BY DEF PayTypeOK
  <2>3. \A x \in Payments : f[x] \in Int
    BY <2>1, RedrawnIsInt
  <2>4. f[p] = refund[p] /\ g[p] = e.refund[p]
    BY <1>1, <1>3, <2>1 DEF RedrawnOf
  <2>5. \A x \in Payments \ {p} : g[x] = f[x]
    BY <1>1, <1>3, <2>1
  <2>6. \A x \in Payments : g[x] \in Int
    BY <2>3, <2>4, <2>5
  <2>7. SumOn(g, Payments) = SumOn(f, Payments) + g[p] - f[p] /\ SumOn(f, Payments) \in Int
    BY <2>3, <2>5, <2>6, OneChanges
  <2>8. Redrawn = SumOn(f, Payments) /\ RedrawnThen(e) = SumOn(g, Payments)
    BY <2>1 DEF Redrawn, RedrawnThen
  <2> QED
    BY <2>2, <2>4, <2>7, <2>8
<1> QED
  BY <1>9, <1>10, <1>11, <1>12, <1>13

\* An effect that posts what it changes of the sums keeps the books.
LEMMA FitsKeepsBooks ==
    ASSUME AllPaid, KeptInv, BooksInv, NEW e, TypesFit(e), BooksMove(e), Commit(e),
           \A p \in Payments : After(e, p).kind = "draw" => After(e, p).from \in Payments
    PROVE  BooksInv'
<1>1. ASSUME NEW p \in Payments
      PROVE  /\ payment'[p] = After(e, p) /\ refund'[p] = RefundAfter(e, p)
             /\ Bounced(p)' <=> BouncedAfter(e, p)
  BY TablesAfter DEF Bounced, BouncedAfter
<1>2. ASSUME NEW p \in Payments PROVE Stands(p)' <=> StandsAfter(e, p)
  <2>1. Posted(p)' <=> After(e, p).st = "posted"
    BY <1>1 DEF Posted
  <2>2. IsKind(p, {"draw"})' <=> After(e, p).kind = "draw"
    BY <1>1 DEF IsKind
  <2>3. After(e, p).kind = "draw" => (Bounced(payment[p].from)' <=> BouncedAfter(e, After(e, p).from))
    <3>1. SUFFICES ASSUME After(e, p).kind = "draw" PROVE Bounced(payment[p].from)' <=> BouncedAfter(e, After(e, p).from)
      OBVIOUS
    <3>2. PICK x : x = After(e, p).from
      OBVIOUS
    <3>3. x \in Payments /\ payment'[p].from = x
      BY <1>1, <3>1, <3>2
    <3>4. bounce'[x].at # "none" <=> BouncedAfter(e, x)
      BY <1>1, <3>3 DEF Bounced
    <3> QED
      BY <3>2, <3>3, <3>4 DEF Bounced
  <2> QED
    BY <1>1, <2>1, <2>2, <2>3 DEF Stands, StandsAfter
<1>3. [p \in Payments |-> ArOf(p)]' = [p \in Payments |-> ArAfter(e, p)]
  <2>1. ASSUME NEW p \in Payments PROVE ArOf(p)' = ArAfter(e, p)
    BY <1>1, <1>2 DEF ArOf, ArAfter
  <2> QED
    BY <2>1
<1>4. [p \in Payments |-> HeldOf(p)]' = [p \in Payments |-> HeldAfter(e, p)]
  <2>1. ASSUME NEW p \in Payments PROVE HeldOf(p)' = HeldAfter(e, p)
    BY <1>1, <1>2 DEF HeldOf, HeldAfter
  <2> QED
    BY <2>1
<1>5. [p \in Payments |-> ClearingOf(p)]' = [p \in Payments |-> ClearingAfter(e, p)]
  <2>1. ASSUME NEW p \in Payments PROVE ClearingOf(p)' = ClearingAfter(e, p)
    <3>1. LiveDepositsFor(p)' = DepositsOf(e, p)
      <4>1. \A d \in Deposits : deposit'[d] = DepositAfter(e, d)
        BY TablesAfter DEF DepositAfter
      <4> QED
        BY <4>1 DEF LiveDepositsFor, DepositsOf
    <3>2. Posted(p)' <=> After(e, p).st = "posted"
      BY <1>1 DEF Posted
    <3> QED
      BY <1>1, <3>1, <3>2 DEF ClearingOf, ClearingAfter
  <2> QED
    BY <2>1
<1>6. [i \in Invoices |-> BilledOf(invoice'[i])] = [i \in Invoices |-> BilledOf(InvoiceAfter(e, i))]
  <2>1. ASSUME NEW i \in Invoices PROVE BilledOf(invoice'[i]) = BilledOf(InvoiceAfter(e, i))
    <3>1. CASE i \in DOMAIN e.invoice
      <4>1. invoice'[i] = e.invoice[i]
        BY <3>1, TablesAfter
      <4> QED
        BY <3>1, <4>1 DEF InvoiceAfter
    <3>2. CASE i \notin DOMAIN e.invoice
      <4>1. invoice'[i] = Moved(invoice, e.gone, e.new)[i]
        BY <3>2, TablesAfter
      <4>2. invoice[i] \in InvoiceRow
        BY DEF KeptInv, PayTypeOK
      <4>3. invoice'[i].st = invoice[i].st /\ invoice'[i].total = invoice[i].total
        BY <4>1, <4>2 DEF Moved, InvoiceRow
      <4> QED
        BY <3>2, <4>3 DEF InvoiceAfter, BilledOf
    <3> QED
      BY <3>1, <3>2
  <2> QED
    BY <2>1
<1>7. Settled' = SettledThen(e)
  BY <1>3 DEF Settled, SettledThen
<1>8. Held' = HeldThen(e)
  BY <1>4 DEF Held, HeldThen
<1>9. Clearing' = ClearingThen(e)
  BY <1>5 DEF Clearing, ClearingThen
<1>10. Billed' = BilledThen(e)
  BY <1>6 DEF Billed, BilledThen
<1>11. [p \in Payments |-> RedrawnOf(payment[p], refund[p])]' = [p \in Payments |-> RedrawnOf(After(e, p), RefundAfter(e, p))]
  BY <1>1
<1>12. Redrawn' = RedrawnThen(e)
  BY <1>11 DEF Redrawn, RedrawnThen
<1>13. books'.ar = books.ar + e.ar /\ books'.held = books.held + e.held /\ books'.clearing = books.clearing + e.clearing
  BY DEF Commit
<1>14. Billed \in Int /\ Settled \in Int /\ Held \in Int /\ Clearing \in Int /\ Redrawn \in Int
  BY SumsAreInt, RedrawnIsInt DEF KeptInv
<1>15. BilledThen(e) \in Int /\ SettledThen(e) \in Int /\ HeldThen(e) \in Int /\ ClearingThen(e) \in Int
  BY ThenAreInt DEF KeptInv
<1>16. books.ar = Billed - Settled + Redrawn /\ books.held = Held /\ books.clearing = Clearing
  BY DEF BooksInv
<1>17. /\ books.ar + e.ar = BilledThen(e) - SettledThen(e) + RedrawnThen(e)
       /\ books.held + e.held = HeldThen(e) /\ books.clearing + e.clearing = ClearingThen(e)
  <2>1. CASE BooksFit(e) /\ \A p \in DOMAIN e.refund : After(e, p).kind # "draw"
    <3>1. RedrawnThen(e) = Redrawn
      BY <2>1, RedrawnStays
    <3>2. /\ e.ar = (BilledThen(e) - Billed) - (SettledThen(e) - Settled)
          /\ e.held = HeldThen(e) - Held /\ e.clearing = ClearingThen(e) - Clearing
      BY <2>1 DEF BooksFit, ArFits, HeldFits, ClearingFits
    <3> QED
      BY <1>14, <1>15, <1>16, <3>1, <3>2
  <2>2. ASSUME NEW p \in Payments, RedrawFits(e, p)
        PROVE  /\ books.ar + e.ar = BilledThen(e) - SettledThen(e) + RedrawnThen(e)
               /\ books.held + e.held = HeldThen(e) /\ books.clearing + e.clearing = ClearingThen(e)
    <3>1. e.refund[p] \in Nat /\ refund[p] \in Nat
      BY <2>2 DEF RedrawFits, TypesFit, KeptInv, PayTypeOK
    <3>2. /\ BilledThen(e) = Billed /\ SettledThen(e) = Settled /\ HeldThen(e) = Held /\ ClearingThen(e) = Clearing
          /\ RedrawnThen(e) = Redrawn + (e.refund[p] - refund[p])
      BY <2>2, <3>1, RedrawnMoves DEF KeptInv
    <3>3. e.ar = e.refund[p] - refund[p] /\ e.held = 0 /\ e.clearing = 0
      BY <2>2 DEF RedrawFits
    <3> QED
      BY <1>14, <1>16, <3>1, <3>2, <3>3
  <2> QED
    BY <2>1, <2>2 DEF BooksMove
<1> QED
  BY <1>7, <1>8, <1>9, <1>10, <1>12, <1>13, <1>17 DEF BooksInv

-----------------------------------------------------------------------------
(* What an effect moves on an account.                                     *)

\* An effect moves a at p, b at d, and v[x] at the x in U.
Moves(p, a, d, b, U, v) ==
    p \in Payments /\ a \in Int /\ d \in Payments /\ b \in Int /\ U \in SUBSET Payments /\ \A x \in U : v[x] \in Int
ArMoves(e, p, a, d, b, U, v) ==
    Moves(p, a, d, b, U, v) /\ \A x \in Payments : ArAfter(e, x) = ArOf(x) + Shift(x, p, a, d, b, U, v)
HeldMoves(e, p, a, d, b, U, v) ==
    Moves(p, a, d, b, U, v) /\ \A x \in Payments : HeldAfter(e, x) = HeldOf(x) + Shift(x, p, a, d, b, U, v)

\* An effect that writes no invoice leaves what is billed.
LEMMA BilledStays ==
    ASSUME NEW e, e.invoice = <<>>
    PROVE  BilledThen(e) = Billed
<1>1. [i \in Invoices |-> BilledOf(InvoiceAfter(e, i))] = [i \in Invoices |-> BilledOf(invoice[i])]
  BY DEF InvoiceAfter
<1> QED
  BY <1>1 DEF Billed, BilledThen

\* Accounts Receivable under an effect that moves what a few payments give.
LEMMA ArShifts ==
    ASSUME PayTypeOK, NEW e, e.invoice = <<>>,
           NEW p, NEW a, NEW d, NEW b, NEW U, NEW v,
           ArMoves(e, p, a, d, b, U, v), e.ar = -(a + b + SumOn(v, U))
    PROVE  ArFits(e)
<1>1. PICK f, g : f = [x \in Payments |-> ArOf(x)] /\ g = [x \in Payments |-> ArAfter(e, x)]
  OBVIOUS
<1>2. \A x \in Payments : f[x] \in Int /\ g[x] = f[x] + Shift(x, p, a, d, b, U, v)
  BY <1>1, PartsAreInt DEF Moves, ArMoves
<1>3. IsFiniteSet(Payments)
  BY PaymentsAssumption
<1>4. SumOn(g, Payments) = SumOn(f, Payments) + a + b + SumOn(v, U) /\ SumOn(v, U) \in Int
  <2>1. Shifted(f, g, Payments, p, a, d, b, U, v)
    BY <1>2 DEF Shifted, Moves, ArMoves
  <2> QED
    BY <1>3, <2>1, SumOnShift
<1>5. SumOn(f, Payments) \in Int
  BY <1>2, <1>3, SumOnType
<1>6. Settled = SumOn(f, Payments) /\ SettledThen(e) = SumOn(g, Payments)
  BY <1>1 DEF Settled, SettledThen
<1>7. BilledThen(e) = Billed /\ Billed \in Int
  BY BilledStays, SumsAreInt
<1>10. a \in Int /\ b \in Int
  BY DEF Moves, ArMoves
<1> QED
  BY <1>4, <1>5, <1>6, <1>7, <1>10 DEF ArFits

\* Customer Deposits likewise.
LEMMA HeldShifts ==
    ASSUME PayTypeOK, NEW e, NEW p, NEW a, NEW d, NEW b, NEW U, NEW v,
           HeldMoves(e, p, a, d, b, U, v), e.held = a + b + SumOn(v, U)
    PROVE  HeldFits(e)
<1>1. PICK f, g : f = [x \in Payments |-> HeldOf(x)] /\ g = [x \in Payments |-> HeldAfter(e, x)]
  OBVIOUS
<1>2. \A x \in Payments : f[x] \in Int /\ g[x] = f[x] + Shift(x, p, a, d, b, U, v)
  BY <1>1, PartsAreInt DEF Moves, HeldMoves
<1>3. IsFiniteSet(Payments)
  BY PaymentsAssumption
<1>4. SumOn(g, Payments) = SumOn(f, Payments) + a + b + SumOn(v, U) /\ SumOn(v, U) \in Int
  <2>1. Shifted(f, g, Payments, p, a, d, b, U, v)
    BY <1>2 DEF Shifted, Moves, HeldMoves
  <2> QED
    BY <1>3, <2>1, SumOnShift
<1>5. SumOn(f, Payments) \in Int
  BY <1>2, <1>3, SumOnType
<1>6. Held = SumOn(f, Payments) /\ HeldThen(e) = SumOn(g, Payments)
  BY <1>1 DEF Held, HeldThen
<1>10. a \in Int /\ b \in Int
  BY DEF Moves, HeldMoves
<1> QED
  BY <1>4, <1>5, <1>6, <1>10 DEF HeldFits

\* Payments Clearing likewise.
LEMMA ClearingShifts ==
    ASSUME PayTypeOK, NEW e, NEW U \in SUBSET Payments, NEW v, \A x \in U : v[x] \in Int,
           \A x \in Payments : ClearingAfter(e, x) = ClearingOf(x) + IF x \in U THEN v[x] ELSE 0,
           e.clearing = SumOn(v, U)
    PROVE  ClearingFits(e)
<1>1. PICK f, g, w : /\ f = [x \in Payments |-> ClearingOf(x)] /\ g = [x \in Payments |-> ClearingAfter(e, x)]
                     /\ w = [x \in Payments |-> IF x \in U THEN v[x] ELSE 0]
  OBVIOUS
<1>2. \A x \in Payments : f[x] \in Int /\ w[x] \in Int /\ g[x] = f[x] + w[x]
  <2>1. ASSUME NEW x \in Payments PROVE f[x] \in Int /\ w[x] \in Int /\ g[x] = f[x] + w[x]
    <3>1. f[x] = ClearingOf(x) /\ ClearingOf(x) \in Int /\ g[x] = ClearingAfter(e, x)
      BY <1>1, PartsAreInt
    <3>2. x \in U => v[x] \in Int
      OBVIOUS
    <3> QED
      BY <1>1, <3>1, <3>2
  <2> QED
    BY <2>1
<1>3. IsFiniteSet(Payments)
  BY PaymentsAssumption
<1>4. SumOn(g, Payments) = SumOn(f, Payments) + SumOn(w, Payments)
  BY <1>2, <1>3, SumOnPlus
<1>5. SumOn(w, Payments) = SumOn(v, U)
  <2>1. /\ \A x \in U : v[x] \in Int /\ w[x] = v[x]
        /\ \A x \in Payments \ U : w[x] = 0
    BY <1>1
  <2> QED
    BY <1>3, <2>1, SumOnPadded
<1>6. Clearing = SumOn(f, Payments) /\ ClearingThen(e) = SumOn(g, Payments)
  BY <1>1 DEF Clearing, ClearingThen
<1>7. SumOn(f, Payments) \in Int /\ SumOn(w, Payments) \in Int
  BY <1>2, <1>3, SumOnType
<1> QED
  BY <1>4, <1>5, <1>6, <1>7 DEF ClearingFits

-----------------------------------------------------------------------------
(* What an effect leaves alone.                                            *)

\* A payment that is not written gives what it gave.
LEMMA LeftAlone ==
    ASSUME NEW e, e.bounce = <<>>, NEW x \in Payments, x \notin DOMAIN e.payment
    PROVE  /\ x \notin DOMAIN e.refund => ArAfter(e, x) = ArOf(x) /\ HeldAfter(e, x) = HeldOf(x)
           /\ e.deposit = <<>> => ClearingAfter(e, x) = ClearingOf(x)
<1>1. After(e, x) = payment[x] /\ (x \notin DOMAIN e.refund => RefundAfter(e, x) = refund[x])
  BY DEF After, RefundAfter
<1>2. \A y : BouncedAfter(e, y) <=> Bounced(y)
  BY DEF BouncedAfter, Bounced
<1>3. StandsAfter(e, x) <=> Stands(x)
  BY <1>1, <1>2 DEF StandsAfter, Stands, Posted, IsKind
<1>4. e.deposit = <<>> => DepositsOf(e, x) = LiveDepositsFor(x)
  BY DEF DepositsOf, DepositAfter, LiveDepositsFor
<1> QED
  BY <1>1, <1>2, <1>3, <1>4 DEF ArAfter, ArOf, HeldAfter, HeldOf, ClearingAfter, ClearingOf, Posted

\* The new row of a payment that is not bounced.
LEMMA WrittenRow ==
    ASSUME NEW e, e.bounce = <<>>, e.deposit = <<>>, NEW x \in Payments, ~Bounced(x)
    PROVE  /\ StandsAfter(e, x) <=> /\ After(e, x).st = "posted"
                                    /\ After(e, x).kind = "draw" => ~Bounced(After(e, x).from)
           /\ After(e, x).st = "posted" /\ LiveDepositsFor(x) = {} =>
                 ClearingAfter(e, x) = InClearing(After(e, x).to, After(e, x).total)
           /\ After(e, x).st # "posted" => ClearingAfter(e, x) = 0
           /\ LiveDepositsFor(x) # {} => ClearingAfter(e, x) = 0
<1>1. \A y : BouncedAfter(e, y) <=> Bounced(y)
  BY DEF BouncedAfter, Bounced
<1>2. DepositsOf(e, x) = LiveDepositsFor(x)
  BY DEF DepositsOf, DepositAfter, LiveDepositsFor
<1> QED
  BY <1>1, <1>2 DEF StandsAfter, ClearingAfter

\* What a payment gives after an effect is an integer.
LEMMA AfterAreInt ==
    ASSUME PayTypeOK, NEW e, TypesFit(e), NEW x \in Payments
    PROVE  /\ After(e, x) \in PaymentRow /\ RefundAfter(e, x) \in Nat
           /\ ArAfter(e, x) \in Int /\ HeldAfter(e, x) \in Int /\ ClearingAfter(e, x) \in Int
<1>1. After(e, x) \in PaymentRow /\ RefundAfter(e, x) \in Nat
  BY DEF PayTypeOK, TypesFit, After, RefundAfter
<1>2. After(e, x).total \in Nat /\ After(e, x).adj \in Nat
  BY <1>1 DEF PaymentRow
<1> QED
  BY <1>1, <1>2 DEF ArAfter, HeldAfter, ClearingAfter, ArGive, HeldGive, InClearing

\* An effect that writes one payment moves what that payment gives.
LEMMA OneMoves ==
    ASSUME PayTypeOK, NEW e, TypesFit(e), e.bounce = <<>>, e.deposit = <<>>, e.invoice = <<>>,
           NEW p \in Payments, DOMAIN e.payment \subseteq {p}, DOMAIN e.refund \subseteq {p},
           e.ar = ArOf(p) - ArAfter(e, p), e.held = HeldAfter(e, p) - HeldOf(p),
           e.clearing = ClearingAfter(e, p) - ClearingOf(p)
    PROVE  BooksFit(e)
<1>1. \A x \in Payments \ {p} : /\ ArAfter(e, x) = ArOf(x) /\ HeldAfter(e, x) = HeldOf(x)
                                /\ ClearingAfter(e, x) = ClearingOf(x)
  BY LeftAlone
<1>2. \A x \in Payments : /\ ArOf(x) \in Int /\ HeldOf(x) \in Int /\ ClearingOf(x) \in Int
                          /\ ArAfter(e, x) \in Int /\ HeldAfter(e, x) \in Int /\ ClearingAfter(e, x) \in Int
  BY PartsAreInt, AfterAreInt
<1>3. PICK a, b, c : a = ArAfter(e, p) - ArOf(p) /\ b = HeldAfter(e, p) - HeldOf(p) /\ c = ClearingAfter(e, p) - ClearingOf(p)
  OBVIOUS
<1>4. a \in Int /\ b \in Int /\ c \in Int
  BY <1>2, <1>3
<1>5. PICK U, v : U = {} /\ v = <<>>
  OBVIOUS
<1>6. U \in SUBSET Payments /\ (\A x \in U : v[x] \in Int) /\ SumOn(v, U) = 0
  BY <1>5, SumOnEmpty
<1>7. ArFits(e)
  <2>1. ArMoves(e, p, a, p, 0, U, v)
    BY <1>1, <1>2, <1>3, <1>4, <1>5, SMTT(60) DEF Shift, Moves, ArMoves
  <2>2. e.ar = -(a + 0 + SumOn(v, U))
    BY <1>2, <1>3, <1>4, <1>6
  <2> QED
    BY <1>4, <1>6, <2>1, <2>2, ArShifts
<1>8. HeldFits(e)
  <2>1. HeldMoves(e, p, b, p, 0, U, v)
    BY <1>1, <1>2, <1>3, <1>4, <1>5, SMTT(60) DEF Shift, Moves, HeldMoves
  <2>2. e.held = b + 0 + SumOn(v, U)
    BY <1>2, <1>3, <1>4, <1>6
  <2> QED
    BY <1>4, <1>6, <2>1, <2>2, HeldShifts
<1>9. ClearingFits(e)
  <2>1. PICK w : w = [x \in {p} |-> c]
    OBVIOUS
  <2>2. /\ {p} \in SUBSET Payments /\ \A x \in {p} : w[x] \in Int
        /\ w[p] = c
    BY <1>4, <2>1
  <2>3. \A x \in Payments : ClearingAfter(e, x) = ClearingOf(x) + IF x \in {p} THEN w[x] ELSE 0
    BY <1>1, <1>2, <1>3, <1>4, <2>2, SMTT(60)
  <2>4. e.clearing = SumOn(w, {p})
    BY <1>3, <1>4, <2>2, SumOnSingle
  <2> QED
    BY <2>2, <2>3, <2>4, ClearingShifts
<1> QED
  BY <1>7, <1>8, <1>9 DEF BooksFit

\* An effect that moves what p gives and what the payments of U give.
LEMMA GroupMoves ==
    ASSUME PayTypeOK, NEW e, TypesFit(e), e.invoice = <<>>,
           NEW p \in Payments, NEW U \in SUBSET Payments, p \notin U, NEW w, NEW v,
           \A x \in Payments : x # p /\ x \notin U => ArAfter(e, x) = ArOf(x) /\ HeldAfter(e, x) = HeldOf(x),
           \A x \in Payments : x # p => ClearingAfter(e, x) = ClearingOf(x),
           \A x \in U : w[x] = ArAfter(e, x) - ArOf(x) /\ v[x] = HeldAfter(e, x) - HeldOf(x),
           e.ar = -((ArAfter(e, p) - ArOf(p)) + SumOn(w, U)),
           e.held = (HeldAfter(e, p) - HeldOf(p)) + SumOn(v, U),
           e.clearing = ClearingAfter(e, p) - ClearingOf(p)
    PROVE  BooksFit(e)
<1>1. \A x \in Payments : /\ ArOf(x) \in Int /\ HeldOf(x) \in Int /\ ClearingOf(x) \in Int
                          /\ ArAfter(e, x) \in Int /\ HeldAfter(e, x) \in Int /\ ClearingAfter(e, x) \in Int
  BY PartsAreInt, AfterAreInt
<1>2. PICK a, b, c : a = ArAfter(e, p) - ArOf(p) /\ b = HeldAfter(e, p) - HeldOf(p) /\ c = ClearingAfter(e, p) - ClearingOf(p)
  OBVIOUS
<1>3. a \in Int /\ b \in Int /\ c \in Int /\ \A x \in U : w[x] \in Int /\ v[x] \in Int
  BY <1>1, <1>2, SMTT(60)
<1>4. IsFiniteSet(U)
  BY PaymentsAssumption, FS_Subset
<1>5. SumOn(w, U) \in Int /\ SumOn(v, U) \in Int
  BY <1>3, <1>4, SumOnType
<1>6. ArFits(e)
  <2>1. ASSUME NEW x \in Payments PROVE ArAfter(e, x) = ArOf(x) + Shift(x, p, a, p, 0, U, w)
    <3>1. CASE x = p
      BY <1>1, <1>2, <3>1 DEF Shift
    <3>2. CASE x \in U
      <4>1. w[x] = ArAfter(e, x) - ArOf(x) /\ x # p
        BY <3>2
      <4>2. Shift(x, p, a, p, 0, U, w) = 0 + 0 + w[x]
        BY <3>2, <4>1 DEF Shift
      <4> QED
        BY <1>1, <4>1, <4>2
    <3>3. CASE x # p /\ x \notin U
      BY <1>1, <3>3 DEF Shift
    <3> QED
      BY <3>1, <3>2, <3>3
  <2>2. ArMoves(e, p, a, p, 0, U, w)
    BY <1>3, <2>1 DEF ArMoves, Moves
  <2>3. e.ar = -(a + 0 + SumOn(w, U))
    BY <1>2, <1>3, <1>5
  <2> QED
    BY <2>2, <2>3, ArShifts
<1>7. HeldFits(e)
  <2>1. ASSUME NEW x \in Payments PROVE HeldAfter(e, x) = HeldOf(x) + Shift(x, p, b, p, 0, U, v)
    <3>1. CASE x = p
      BY <1>1, <1>2, <3>1 DEF Shift
    <3>2. CASE x \in U
      <4>1. v[x] = HeldAfter(e, x) - HeldOf(x) /\ x # p
        BY <3>2
      <4>2. Shift(x, p, b, p, 0, U, v) = 0 + 0 + v[x]
        BY <3>2, <4>1 DEF Shift
      <4> QED
        BY <1>1, <4>1, <4>2
    <3>3. CASE x # p /\ x \notin U
      BY <1>1, <3>3 DEF Shift
    <3> QED
      BY <3>1, <3>2, <3>3
  <2>2. HeldMoves(e, p, b, p, 0, U, v)
    BY <1>3, <2>1 DEF HeldMoves, Moves
  <2>3. e.held = b + 0 + SumOn(v, U)
    BY <1>2, <1>3, <1>5
  <2> QED
    BY <2>2, <2>3, HeldShifts
<1>8. ClearingFits(e)
  <2>1. PICK z, P : z = [x \in {p} |-> c] /\ P = {p}
    OBVIOUS
  <2>2. P \in SUBSET Payments /\ (\A x \in P : z[x] \in Int) /\ z[p] = c
    BY <1>3, <2>1
  <2>3. \A x \in Payments : ClearingAfter(e, x) = ClearingOf(x) + IF x \in P THEN z[x] ELSE 0
    BY <1>1, <1>2, <2>1, <2>2
  <2>4. e.clearing = SumOn(z, P)
    BY <1>2, <1>3, <2>1, <2>2, SumOnSingle
  <2> QED
    BY <2>2, <2>3, <2>4, ClearingShifts
<1> QED
  BY <1>6, <1>7, <1>8 DEF BooksFit

-----------------------------------------------------------------------------
(* What a step must show: its effect keeps the tables and the accounts.    *)
AccountsFit(e) ==
    /\ KeptFits(e) /\ BooksMove(e)
    /\ \A p \in DOMAIN e.bounce : IsKind(p, {"payment", "hold"})

\* The payments an effect does not write keep their discounts, draws their cash and their held deposit.
Framed(e) ==
    \A x \in Payments \ (DOMAIN e.payment \cup DOMAIN e.refund) :
        /\ IsKind(x, {"payment"}) /\ Posted(x) => AdjOn(e.gone, x) = AdjOn(e.new, x)
        /\ IsKind(x, {"draw"}) /\ Posted(x) => /\ CashOn(e.gone, x) = CashOn(e.new, x)
                                               /\ After(e, payment[x].from).st = "posted"

\* Discounts add up to an amount.
LEMMA AdjOnIsNat == ASSUME NEW A, Typed(A), NEW p PROVE AdjOn(A, p) \in Nat
<1>1. PICK V : V = AdjFrom(p)
  OBVIOUS
<1>2. FiniteBag(A) /\ \A r \in DOMAIN A : V[r] \in Nat
  BY <1>1, AdjIsNat DEF Typed
<1>3. Weigh(A, V) \in Nat
  BY <1>2, WeighNat
<1> QED
  BY <1>1, <1>3 DEF AdjOn

\* No rows, no discount and no cash.
LEMMA NoneWeigh == \A p : AdjOn(EmptyBag, p) = 0 /\ CashOn(EmptyBag, p) = 0
<1>1. ASSUME NEW p PROVE AdjOn(EmptyBag, p) = 0 /\ CashOn(EmptyBag, p) = 0
  <2>1. \A V : Weigh(EmptyBag, V) = 0
    BY WeighNone
  <2> QED
    BY <2>1 DEF AdjOn, CashOn
<1> QED
  BY <1>1

\* A payment the effect does not write is kept.
LEMMA FramedKeeps ==
    ASSUME AllPaid, KeptInv, NEW e, RowsFit(e), TypesFit(e), Framed(e),
           NEW x \in Payments, x \notin DOMAIN e.payment, x \notin DOMAIN e.refund
    PROVE  PaymentKeeps(e, x)
<1>1. After(e, x) = payment[x] /\ RefundAfter(e, x) = refund[x] /\ PaymentKept(x)
  BY DEF After, RefundAfter, KeptInv
<1>2. Typed(apps) /\ Typed(e.gone) /\ Typed(e.new)
  BY TypedRows DEF AllPaid, PaidInv
<1>3. /\ AdjOn(apps, x) \in Nat /\ AdjOn(e.gone, x) \in Nat /\ AdjOn(e.new, x) \in Nat
      /\ CashOn(apps, x) \in Nat /\ CashOn(e.gone, x) \in Nat /\ CashOn(e.new, x) \in Nat
  BY <1>2, AdjOnIsNat, CashIsNat
<1>4. IsKind(x, {"payment"}) /\ Posted(x) => AdjOn(e.gone, x) = AdjOn(e.new, x)
  BY DEF Framed
<1>5. IsKind(x, {"draw"}) /\ Posted(x) => CashOn(e.gone, x) = CashOn(e.new, x) /\ After(e, payment[x].from).st = "posted"
  BY DEF Framed
<1>6. After(e, x).kind = "payment" /\ After(e, x).st = "posted" =>
          AdjOn(apps, x) - AdjOn(e.gone, x) + AdjOn(e.new, x) = After(e, x).adj
  BY <1>1, <1>3, <1>4 DEF PaymentKept, IsKind, Posted
<1>7. ASSUME After(e, x).kind = "draw"
      PROVE  /\ After(e, x).to = "bank"
             /\ After(e, x).inside # None => After(e, After(e, x).inside).kind = "payment"
             /\ After(e, x).st = "posted" =>
                   /\ CashOn(apps, x) - CashOn(e.gone, x) + CashOn(e.new, x) = After(e, x).total
                   /\ After(e, After(e, x).from).st = "posted"
  <2>1. IsKind(x, {"draw"})
    BY <1>1, <1>7 DEF IsKind
  <2>2. After(e, x).inside # None => After(e, After(e, x).inside).kind = "payment"
    <3>1. SUFFICES ASSUME payment[x].inside # None PROVE After(e, payment[x].inside).kind = "payment"
      BY <1>1
    <3>2. payment[payment[x].inside].kind = "payment"
      BY <1>1, <2>1, <3>1 DEF PaymentKept, IsKind
    <3> QED
      BY <3>2 DEF After, TypesFit
  <2> QED
    BY <1>1, <1>3, <1>5, <2>1, <2>2 DEF PaymentKept, IsKind, Posted
<1>8. After(e, x).st # "posted" => RefundAfter(e, x) = 0
  BY <1>1 DEF PaymentKept, Posted
<1> QED
  BY <1>6, <1>7, <1>8 DEF PaymentKeeps

\* A draw's held deposit stays posted when no held deposit is voided.
LEMMA HoldsStay ==
    ASSUME AllPaid, KeptInv, NEW e, TypesFit(e),
           \A h \in DOMAIN e.payment : e.payment[h].kind = "hold" => e.payment[h].st = "posted",
           NEW x \in Payments, IsKind(x, {"draw"}), Posted(x)
    PROVE  After(e, payment[x].from).st = "posted"
<1>1. payment[x].from \in Payments /\ IsKind(payment[x].from, {"hold"})
  BY DEF AllPaid, PayInv, Kinship
<1>2. Posted(payment[x].from)
  BY DEF KeptInv, PaymentKept
<1>3. PICK h : h = payment[x].from
  OBVIOUS
<1>4. h \in DOMAIN e.payment => e.payment[h].kind = "hold"
  BY <1>1, <1>3 DEF TypesFit, IsKind
<1> QED
  BY <1>2, <1>3, <1>4 DEF After, Posted

\* An effect that writes one held deposit or memo, or no more than one refund.
LEMMA OneKeeps ==
    ASSUME AllPaid, KeptInv, NEW e, TypesFit(e), e.gone = EmptyBag, e.new = EmptyBag, e.bounce = <<>>,
           NEW p \in Payments, DOMAIN e.payment \subseteq {p}, DOMAIN e.refund \subseteq {p},
           \/ After(e, p).kind \in {"hold", "memo"}
           \/ After(e, p) = payment[p],
           After(e, p).st = "posted"
    PROVE  KeptFits(e)
<1>1. RowsFit(e)
  <2>1. FiniteBag(EmptyBag) /\ WithinBag(EmptyBag, apps) /\ Typed(EmptyBag)
    BY NoneFits DEF AllPaid
  <2> QED
    BY <2>1 DEF RowsFit
<1>2. AdjOn(e.gone, p) = 0 /\ AdjOn(e.new, p) = 0
  BY NoneWeigh
<1>3. Framed(e)
  <2>1. ASSUME NEW x \in Payments
        PROVE  /\ IsKind(x, {"payment"}) /\ Posted(x) => AdjOn(e.gone, x) = AdjOn(e.new, x)
               /\ IsKind(x, {"draw"}) /\ Posted(x) => CashOn(e.gone, x) = CashOn(e.new, x)
    OBVIOUS
  <2>2. \A h \in DOMAIN e.payment : e.payment[h].kind = "hold" => e.payment[h].st = "posted"
    BY DEF After
  <2>3. ASSUME NEW x \in Payments, IsKind(x, {"draw"}), Posted(x) PROVE After(e, payment[x].from).st = "posted"
    BY <2>2, <2>3, HoldsStay
  <2> QED
    BY <2>1, <2>3 DEF Framed
<1>4. PaymentKeeps(e, p)
  <2>1. After(e, p).kind = "payment" => After(e, p) = payment[p]
    OBVIOUS
  <2>2. PaymentKept(p) /\ AdjOn(apps, p) \in Nat
    BY AdjOnIsNat DEF KeptInv, AllPaid, PaidInv
  <2>3. ASSUME After(e, p).kind = "draw"
        PROVE  /\ After(e, p).to = "bank"
               /\ After(e, p).inside # None => After(e, After(e, p).inside).kind = "payment"
               /\ CashOn(apps, p) = After(e, p).total /\ CashOn(apps, p) \in Nat
               /\ After(e, After(e, p).from).st = "posted"
    <3>1. After(e, p) = payment[p] /\ IsKind(p, {"draw"}) /\ Posted(p)
      BY <2>3 DEF IsKind, Posted
    <3>2. \A h \in DOMAIN e.payment : e.payment[h].kind = "hold" => e.payment[h].st = "posted"
      BY DEF After
    <3>3. After(e, payment[p].from).st = "posted"
      BY <3>1, <3>2, HoldsStay
    <3>4. payment[p].inside # None => After(e, payment[p].inside).kind = "payment"
      <4>1. SUFFICES ASSUME payment[p].inside # None PROVE After(e, payment[p].inside).kind = "payment"
        OBVIOUS
      <4>2. payment[payment[p].inside].kind = "payment"
        BY <2>2, <3>1, <4>1 DEF PaymentKept, IsKind
      <4> QED
        BY <4>2 DEF After, TypesFit
    <3>5. CashOn(apps, p) \in Nat
      BY CashIsNat DEF AllPaid, PaidInv
    <3> QED
      BY <2>2, <3>1, <3>3, <3>4, <3>5 DEF PaymentKept
  <2>4. After(e, p).kind = "payment" => AdjOn(apps, p) = After(e, p).adj
    BY <2>1, <2>2 DEF PaymentKept, IsKind, Posted
  <2>5. CashOn(e.gone, p) = 0 /\ CashOn(e.new, p) = 0
    BY NoneWeigh
  <2> QED
    BY <1>2, <2>2, <2>3, <2>4, <2>5 DEF PaymentKeeps
<1>5. \A x \in Payments : PaymentKeeps(e, x)
  <2>1. ASSUME NEW x \in Payments, x # p PROVE PaymentKeeps(e, x)
    <3>1. x \notin DOMAIN e.payment /\ x \notin DOMAIN e.refund
      BY <2>1
    <3> QED
      BY <1>1, <1>3, <3>1, FramedKeeps
  <2> QED
    BY <1>4, <2>1
<1>6. DOMAIN e.new = {}
  BY DEF EmptyBag, SetToBag
<1>7. DOMAIN e.bounce = {}
  OBVIOUS
<1> QED
  BY <1>1, <1>5, <1>6, <1>7 DEF KeptFits

\* A held deposit or a credit memo is written, and nothing else.
LEMMA RowAccounts ==
    ASSUME AllPaid, KeptInv, NEW e, NEW p \in Payments, NEW row \in PaymentRow,
           e.gone = EmptyBag, e.new = EmptyBag, e.bounce = <<>>, e.refund = <<>>, e.deposit = <<>>, e.invoice = <<>>,
           e.payment = Only(p, row), row.kind \in {"hold", "memo"}, row.st = "posted",
           payment[p].kind \in {"none", row.kind}, ~Bounced(p),
           e.ar \in Int, e.held \in Int, e.clearing \in Int,
           e.ar = ArOf(p) - ArGive(row, refund[p]), e.held = HeldGive(row, refund[p]) - HeldOf(p),
           e.clearing = (IF LiveDepositsFor(p) = {} THEN InClearing(row.to, row.total) ELSE 0) - ClearingOf(p)
    PROVE  AccountsFit(e)
<1>1. DOMAIN e.payment = {p} /\ e.payment[p] = row /\ After(e, p) = row /\ RefundAfter(e, p) = refund[p]
  BY DEF Only, After, RefundAfter
<1>2. TypesFit(e)
  BY <1>1 DEF TypesFit
<1>3. KeptFits(e)
  BY <1>1, <1>2, OneKeeps
<1>4. StandsAfter(e, p)
  BY <1>1 DEF StandsAfter, BouncedAfter, Bounced
<1>5. ArAfter(e, p) = ArGive(row, refund[p]) /\ HeldAfter(e, p) = HeldGive(row, refund[p])
  BY <1>1, <1>4 DEF ArAfter, HeldAfter
<1>6. ClearingAfter(e, p) = IF LiveDepositsFor(p) = {} THEN InClearing(row.to, row.total) ELSE 0
  BY <1>1, WrittenRow
<1>7. PayTypeOK
  BY DEF KeptInv
<1>8. BooksFit(e)
  BY <1>1, <1>2, <1>5, <1>6, <1>7, OneMoves
<1> QED
  BY <1>3, <1>8 DEF AccountsFit, BooksMove

\* An id without a payment gives nothing.
LEMMA UnusedGives ==
    ASSUME AllPaid, KeptInv, NEW p \in Payments, Unused(p)
    PROVE  /\ ~Posted(p) /\ ~Bounced(p) /\ LiveDepositsFor(p) = {} /\ refund[p] = 0
           /\ ArOf(p) = 0 /\ HeldOf(p) = 0 /\ ClearingOf(p) = 0
<1>1. ~Posted(p) /\ ~Bounced(p) /\ LiveDepositsFor(p) = {}
  BY UnusedIds DEF AllPaid
<1>2. refund[p] = 0
  BY <1>1 DEF KeptInv, PaymentKept
<1> QED
  BY <1>1, <1>2 DEF ArOf, HeldOf, ClearingOf, Stands

\* receiveHold and updateHold post what they change of a held deposit.
LEMMA HoldAccounts ==
    ASSUME AllPaid, KeptInv, NEW p \in Payments, NEW amount \in Int, NEW to \in Places,
           ReceiveHold(p, amount, to) \/ UpdateHold(p, amount, to)
    PROVE  \E e : AccountsFit(e) /\ Commit(e)
<1>0. to \in {"clearing", "bank"} /\ None \in Payments \cup {None} /\ "hold" \in Kinds
  BY PaymentsAssumption DEF Kinds
<1>1. CASE ReceiveHold(p, amount, to)
  <2>0. Unused(p) /\ amount > 0 /\ amount \in Nat
    BY <1>1 DEF ReceiveHold
  <2>1. PICK row : row = NewPayment("hold", amount, 0, to, None, None)
    OBVIOUS
  <2>2. PICK e : e = [Nothing EXCEPT !.payment = Only(p, row), !.held = amount, !.clearing = InClearing(to, amount)]
    OBVIOUS
  <2>3. /\ e.payment = Only(p, row) /\ e.gone = EmptyBag /\ e.new = EmptyBag
        /\ e.bounce = <<>> /\ e.refund = <<>> /\ e.deposit = <<>> /\ e.invoice = <<>>
        /\ e.ar = 0 /\ e.held = amount /\ e.clearing = InClearing(to, amount)
    BY <2>2 DEF Nothing
  <2>4. row \in PaymentRow /\ row.kind = "hold" /\ row.st = "posted" /\ row.to = to /\ row.total = amount
    <3>1. "hold" \in Kinds /\ amount \in Nat /\ 0 \in Nat /\ to \in {"clearing", "bank"} /\ None \in Payments \cup {None}
      BY <1>0, <2>0
    <3> QED
      BY <2>1, <3>1 DEF NewPayment, PaymentRow
  <2>5. /\ ~Bounced(p) /\ LiveDepositsFor(p) = {} /\ refund[p] = 0
        /\ ArOf(p) = 0 /\ HeldOf(p) = 0 /\ ClearingOf(p) = 0
    BY <2>0, UnusedGives
  <2>6. payment[p].kind \in {"none", row.kind}
    BY <2>0 DEF Unused
  <2>7. e.ar \in Int /\ e.held \in Int /\ e.clearing \in Int
    BY <2>0, <2>3 DEF InClearing
  <2>8. e.ar = ArOf(p) - ArGive(row, refund[p]) /\ e.held = HeldGive(row, refund[p]) - HeldOf(p)
    BY <2>0, <2>3, <2>4, <2>5 DEF ArGive, HeldGive
  <2>9. e.clearing = (IF LiveDepositsFor(p) = {} THEN InClearing(row.to, row.total) ELSE 0) - ClearingOf(p)
    BY <2>3, <2>4, <2>5, <2>7
  <2>10. AccountsFit(e)
    BY <2>3, <2>4, <2>5, <2>6, <2>7, <2>8, <2>9, RowAccounts
  <2>11. Commit(e)
    BY <1>1, <2>1, <2>2 DEF ReceiveHold
  <2> QED
    BY <2>10, <2>11
<1>2. CASE UpdateHold(p, amount, to)
  <2>0. /\ payment[p].kind = "hold" /\ payment[p].st = "posted" /\ ~Bounced(p) /\ LiveDepositsFor(p) = {}
        /\ amount \in Nat /\ payment[p] \in PaymentRow /\ refund[p] \in Nat
    BY <1>2 DEF UpdateHold, IsKind, Free, Posted, KeptInv, PayTypeOK
  <2>1. PICK row : row = [payment[p] EXCEPT !.total = amount, !.to = to]
    OBVIOUS
  <2>2. PICK e : e = [Nothing EXCEPT !.payment = Only(p, row), !.held = amount - payment[p].total,
                         !.clearing = InClearing(to, amount) - InClearing(payment[p].to, payment[p].total)]
    OBVIOUS
  <2>3. /\ e.payment = Only(p, row) /\ e.gone = EmptyBag /\ e.new = EmptyBag
        /\ e.bounce = <<>> /\ e.refund = <<>> /\ e.deposit = <<>> /\ e.invoice = <<>>
        /\ e.ar = 0 /\ e.held = amount - payment[p].total
        /\ e.clearing = InClearing(to, amount) - InClearing(payment[p].to, payment[p].total)
    BY <2>2 DEF Nothing
  <2>4. row \in PaymentRow /\ row.kind = "hold" /\ row.st = "posted" /\ row.to = to /\ row.total = amount
    BY <1>0, <2>0, <2>1 DEF PaymentRow
  <2>5. payment[p].total \in Nat
    BY <2>0 DEF PaymentRow
  <2>6. /\ ArOf(p) = 0 /\ HeldOf(p) = payment[p].total - refund[p]
        /\ ClearingOf(p) = InClearing(payment[p].to, payment[p].total)
    BY <2>0 DEF ArOf, HeldOf, ClearingOf, Stands, ArGive, HeldGive, Posted, IsKind
  <2>7. e.ar \in Int /\ e.held \in Int /\ e.clearing \in Int
    BY <2>0, <2>3, <2>5 DEF InClearing
  <2>8. e.ar = ArOf(p) - ArGive(row, refund[p]) /\ e.held = HeldGive(row, refund[p]) - HeldOf(p)
    BY <2>0, <2>3, <2>4, <2>5, <2>6 DEF ArGive, HeldGive
  <2>9. e.clearing = (IF LiveDepositsFor(p) = {} THEN InClearing(row.to, row.total) ELSE 0) - ClearingOf(p)
    BY <2>0, <2>3, <2>4, <2>6
  <2>10. AccountsFit(e)
    BY <2>0, <2>3, <2>4, <2>7, <2>8, <2>9, RowAccounts
  <2>11. Commit(e)
    BY <1>2, <2>1, <2>2 DEF UpdateHold
  <2> QED
    BY <2>10, <2>11
<1> QED
  BY <1>1, <1>2

\* updateCreditMemo posts what it changes of the memo's total.
LEMMA UpdateMemoAccounts ==
    ASSUME AllPaid, KeptInv, NEW m \in Payments, NEW total \in Int, UpdateMemo(m, total)
    PROVE  \E e : AccountsFit(e) /\ Commit(e)
<1>0. /\ payment[m].kind = "memo" /\ payment[m].st = "posted" /\ total \in Nat
      /\ payment[m] \in PaymentRow /\ refund[m] \in Nat /\ payment[m].to = "bank"
  BY DEF UpdateMemo, IsKind, Posted, KeptInv, PayTypeOK, AllPaid, PayInv, Kinship
<1>1. ~Bounced(m)
  BY <1>0 DEF AllPaid, PayInv, BouncesStand, IsKind
<1>2. PICK row : row = [payment[m] EXCEPT !.total = total]
  OBVIOUS
<1>3. PICK e : e = [Nothing EXCEPT !.payment = Only(m, row), !.ar = payment[m].total - total]
  OBVIOUS
<1>4. /\ e.payment = Only(m, row) /\ e.gone = EmptyBag /\ e.new = EmptyBag
      /\ e.bounce = <<>> /\ e.refund = <<>> /\ e.deposit = <<>> /\ e.invoice = <<>>
      /\ e.ar = payment[m].total - total /\ e.held = 0 /\ e.clearing = 0
  BY <1>3 DEF Nothing
<1>5. row \in PaymentRow /\ row.kind = "memo" /\ row.st = "posted" /\ row.to = "bank" /\ row.total = total
  BY <1>0, <1>2 DEF PaymentRow
<1>6. payment[m].total \in Nat
  BY <1>0 DEF PaymentRow
<1>7. ArOf(m) = payment[m].total - refund[m] /\ HeldOf(m) = 0 /\ ClearingOf(m) = 0
  BY <1>0, <1>1 DEF ArOf, HeldOf, ClearingOf, Stands, ArGive, HeldGive, Posted, IsKind, InClearing
<1>8. e.ar \in Int /\ e.held \in Int /\ e.clearing \in Int
  BY <1>0, <1>4, <1>6
<1>9. e.ar = ArOf(m) - ArGive(row, refund[m]) /\ e.held = HeldGive(row, refund[m]) - HeldOf(m)
  BY <1>0, <1>4, <1>5, <1>6, <1>7 DEF ArGive, HeldGive
<1>10. e.clearing = (IF LiveDepositsFor(m) = {} THEN InClearing(row.to, row.total) ELSE 0) - ClearingOf(m)
  BY <1>4, <1>5, <1>7 DEF InClearing
<1>11. AccountsFit(e)
  BY <1>0, <1>1, <1>4, <1>5, <1>8, <1>9, <1>10, RowAccounts
<1>12. Commit(e)
  BY <1>2, <1>3 DEF UpdateMemo
<1> QED
  BY <1>11, <1>12

\* A refund takes from the account its source stands in; its void gives it back.
LEMMA RefundAccounts ==
    ASSUME AllPaid, KeptInv, NEW p \in Payments, NEW x \in Int,
           Refund(p, x) \/ VoidRefund(p)
    PROVE  \E e : AccountsFit(e) /\ Commit(e)
<1>1. ASSUME NEW n \in Nat, NEW y, Commit(RefundEffect(p, n, y)), y = n - refund[p],
             Posted(p), ~Bounced(p), ~IsKind(p, {"none"})
      PROVE  \E e : AccountsFit(e) /\ Commit(e)
  <2>1. PICK e : e = RefundEffect(p, n, y)
    OBVIOUS
  <2>2. /\ e.gone = EmptyBag /\ e.new = EmptyBag /\ e.payment = <<>> /\ e.refund = Only(p, n)
        /\ e.bounce = <<>> /\ e.deposit = <<>> /\ e.invoice = <<>> /\ e.clearing = 0
        /\ e.held = (IF payment[p].kind = "hold" THEN -y ELSE 0) /\ e.ar = (IF payment[p].kind = "hold" THEN 0 ELSE y)
        /\ Commit(e)
    BY <1>1, <2>1 DEF RefundEffect, Nothing, IsKind
  <2>3. DOMAIN e.refund = {p} /\ e.refund[p] = n /\ After(e, p) = payment[p] /\ RefundAfter(e, p) = n
    BY <2>2 DEF Only, After, RefundAfter
  <2>4. payment[p] \in PaymentRow /\ refund[p] \in Nat /\ PayTypeOK
    BY DEF KeptInv, PayTypeOK
  <2>5. payment[p].total \in Nat /\ payment[p].adj \in Nat /\ payment[p].kind \in {"payment", "hold", "draw", "memo"}
    BY <1>1, <2>4 DEF PaymentRow, Kinds, IsKind
  <2>6. y \in Int
    BY <1>1, <2>4
  <2>7. TypesFit(e)
    <3>1. e.ar \in Int /\ e.held \in Int /\ e.clearing \in Int
      BY <2>2, <2>6
    <3> QED
      BY <2>2, <2>3, <3>1 DEF TypesFit
  <2>8. KeptFits(e)
    BY <1>1, <2>2, <2>3, <2>5, <2>7, OneKeeps DEF Posted
  <2>9. CASE payment[p].kind = "draw"
    <3>1. RedrawFits(e, p)
      BY <1>1, <2>2, <2>3, <2>9 DEF RedrawFits
    <3> QED
      BY <2>2, <2>8, <3>1 DEF AccountsFit, BooksMove
  <2>10. CASE payment[p].kind \in {"payment", "hold", "memo"}
    <3>1. Stands(p) /\ StandsAfter(e, p)
      BY <1>1, <2>2, <2>3, <2>10 DEF Stands, StandsAfter, BouncedAfter, Bounced, Posted, IsKind
    <3>2. /\ ArOf(p) = ArGive(payment[p], refund[p]) /\ ArAfter(e, p) = ArGive(payment[p], n)
          /\ HeldOf(p) = HeldGive(payment[p], refund[p]) /\ HeldAfter(e, p) = HeldGive(payment[p], n)
      BY <2>3, <3>1 DEF ArOf, ArAfter, HeldOf, HeldAfter
    <3>3. e.ar = ArOf(p) - ArAfter(e, p) /\ e.held = HeldAfter(e, p) - HeldOf(p)
      BY <1>1, <2>2, <2>4, <2>5, <3>2, <2>10, SMTT(60) DEF ArGive, HeldGive
    <3>4. e.clearing = ClearingAfter(e, p) - ClearingOf(p)
      <4>1. ClearingAfter(e, p) = ClearingOf(p) /\ ClearingOf(p) \in Int
        BY <2>2, <2>4, LeftAlone, PartsAreInt
      <4> QED
        BY <2>2, <4>1
    <3>5. BooksFit(e)
      BY <2>2, <2>3, <2>4, <2>7, <3>3, <3>4, OneMoves
    <3> QED
      BY <2>2, <2>3, <2>8, <2>10, <3>5 DEF AccountsFit, BooksMove
  <2> QED
    BY <2>5, <2>9, <2>10
<1>2. CASE Refund(p, x)
  <2>1. /\ x > 0 /\ x <= CreditRemaining(p) /\ refund[p] = 0 /\ ~Bounced(p) /\ Commit(RefundEffect(p, x, x))
    BY <1>2 DEF Refund, MayRefund
  <2>2. CreditRemaining(p) = CreditLeft(p, {}, {})
    BY DEF CreditRemaining
  <2>3. Posted(p)
    BY <2>1, <2>2 DEF CreditLeft
  <2>4. ~IsKind(p, {"none"})
    BY <2>1, <2>3 DEF AllPaid, PayInv, Tables, PaymentShape, Posted, IsKind
  <2>5. x \in Nat /\ x = x - refund[p]
    BY <2>1
  <2> QED
    BY <1>1, <2>1, <2>3, <2>4, <2>5
<1>3. CASE VoidRefund(p)
  <2>1. Commit(RefundEffect(p, 0, -refund[p])) /\ refund[p] > 0 /\ refund[p] \in Nat
    BY <1>3 DEF VoidRefund, KeptInv, PayTypeOK
  <2>2. PaymentKept(p)
    BY DEF KeptInv
  <2>3. Posted(p)
    BY <2>1, <2>2 DEF PaymentKept, IsKind
  <2>4. ~Bounced(p) /\ ~IsKind(p, {"none"})
    BY <2>1, <2>3 DEF AllPaid, PayInv, Tables, PaymentShape, BouncesStand, Posted, IsKind
  <2>5. -refund[p] = 0 - refund[p]
    BY <2>1
  <2> QED
    BY <1>1, <2>1, <2>3, <2>4, <2>5
<1> QED
  BY <1>2, <1>3

-----------------------------------------------------------------------------
(* Voids.                                                                  *)

\* Rows that take no discount, and none of a payment.
LEMMA NoDiscount ==
    ASSUME NEW A, FiniteBag(A), DOMAIN A \subseteq Application, NEW x, \A r \in DOMAIN A : r.pay = x => r.adj = 0
    PROVE  AdjOn(A, x) = 0
<1>1. PICK V : V = AdjFrom(x)
  OBVIOUS
<1>2. \A r \in DOMAIN A : V[r] = 0
  BY <1>1 DEF AdjFrom
<1>3. Weigh(A, V) = 0
  BY <1>2, WeighZero
<1> QED
  BY <1>1, <1>3 DEF AdjOn

\* Rows of other payments take no cash of this one.
LEMMA NoCashOf ==
    ASSUME NEW A, FiniteBag(A), DOMAIN A \subseteq Application, NEW x, \A r \in DOMAIN A : r.pay # x
    PROVE  CashOn(A, x) = 0
<1>1. PICK V : V = CashFrom(x)
  OBVIOUS
<1>2. \A r \in DOMAIN A : V[r] = 0
  BY <1>1 DEF CashFrom
<1>3. Weigh(A, V) = 0
  BY <1>2, WeighZero
<1> QED
  BY <1>1, <1>3 DEF CashOn

\* Rows of the table can be taken out of it.
LEMMA TakenRows ==
    ASSUME AllPaid, KeptInv, NEW R \in SUBSET DOMAIN apps
    PROVE  /\ FiniteBag(Copies(R)) /\ WithinBag(Copies(R), apps) /\ DOMAIN Copies(R) = R
           /\ R \subseteq Application /\ \A r \in R : RowKept(r)
           /\ FiniteBag(EmptyBag) /\ Typed(EmptyBag) /\ DOMAIN EmptyBag = {}
<1>1. PaidInv
  BY DEF AllPaid
<1>2. R \subseteq Application
  BY <1>1 DEF PaidInv, Typed
<1>3. DOMAIN EmptyBag = {}
  BY DEF EmptyBag, SetToBag
<1>4. FiniteBag(Copies(R)) /\ WithinBag(Copies(R), apps) /\ DOMAIN Copies(R) = R
  BY <1>1, CopiesFit
<1>5. FiniteBag(EmptyBag) /\ Typed(EmptyBag)
  BY <1>1, NoneFits
<1> QED
  BY <1>2, <1>3, <1>4, <1>5 DEF KeptInv

\* Voiding payments with all their rows keeps the tables.
LEMMA VoidKept ==
    ASSUME AllPaid, KeptInv, NEW D \in SUBSET Payments, NEW R \in SUBSET DOMAIN apps, NEW e,
           e.gone = Copies(R), e.new = EmptyBag, e.payment = Voided(D),
           e.bounce = <<>>, e.refund = <<>>, e.deposit = <<>>, e.invoice = <<>>,
           e.ar \in Int, e.held \in Int, e.clearing \in Int,
           \A x \in D : Posted(x) /\ refund[x] = 0 /\ (IsKind(x, {"hold"}) => LiveDraws(x) = {}),
           \A r \in R : r.pay \in D \/ r.inside # None
    PROVE  TypesFit(e) /\ KeptFits(e)
<1>1. DOMAIN e.payment = D /\ \A x \in D : e.payment[x] = [payment[x] EXCEPT !.st = "void"]
  BY DEF Voided
<1>2. \A x \in Payments : payment[x] \in PaymentRow /\ refund[x] \in Nat /\ PaymentKept(x)
  BY DEF KeptInv, PayTypeOK
<1>3. \A x \in D : /\ e.payment[x] \in PaymentRow /\ e.payment[x].st = "void" /\ e.payment[x].kind = payment[x].kind
                   /\ e.payment[x].to = payment[x].to /\ e.payment[x].inside = payment[x].inside
  BY <1>1, <1>2 DEF PaymentRow
<1>4. TypesFit(e)
  BY <1>1, <1>3 DEF TypesFit
<1>5. /\ FiniteBag(Copies(R)) /\ WithinBag(Copies(R), apps) /\ DOMAIN Copies(R) = R
      /\ R \subseteq Application /\ \A r \in R : RowKept(r)
      /\ FiniteBag(EmptyBag) /\ Typed(EmptyBag) /\ DOMAIN EmptyBag = {}
  BY TakenRows
<1>6. RowsFit(e)
  BY <1>5 DEF RowsFit
<1>7. Framed(e)
  <2>1. ASSUME NEW x \in Payments \ (DOMAIN e.payment \cup DOMAIN e.refund), IsKind(x, {"payment"})
        PROVE  AdjOn(e.gone, x) = AdjOn(e.new, x)
    <3>1. \A r \in R : r.pay = x => r.adj = 0
      BY <1>1, <1>5, <2>1, Amounts0 DEF RowKept
    <3>2. AdjOn(Copies(R), x) = 0
      BY <1>5, <3>1, NoDiscount
    <3> QED
      BY <3>2, NoneWeigh
  <2>2. ASSUME NEW x \in Payments \ (DOMAIN e.payment \cup DOMAIN e.refund), IsKind(x, {"draw"})
        PROVE  CashOn(e.gone, x) = CashOn(e.new, x)
    <3>1. \A r \in R : r.pay # x
      BY <1>1, <1>5, <2>2 DEF RowKept
    <3>2. CashOn(Copies(R), x) = 0
      BY <1>5, <3>1, NoCashOf
    <3> QED
      BY <3>2, NoneWeigh
  <2>3. ASSUME NEW x \in Payments \ (DOMAIN e.payment \cup DOMAIN e.refund), IsKind(x, {"draw"}), Posted(x)
        PROVE  After(e, payment[x].from).st = "posted"
    <3>1. PICK h : h = payment[x].from
      OBVIOUS
    <3>2. h \in Payments /\ IsKind(h, {"hold"}) /\ Posted(h)
      BY <1>2, <2>3, <3>1 DEF AllPaid, PayInv, Kinship, PaymentKept
    <3>3. x \in LiveDraws(h)
      BY <2>3, <3>1 DEF LiveDraws
    <3>4. h \notin D
      BY <3>2, <3>3
    <3> QED
      BY <1>1, <3>1, <3>2, <3>4 DEF After, Posted
  <2> QED
    BY <2>1, <2>2, <2>3 DEF Framed
<1>8. \A x \in Payments : PaymentKeeps(e, x)
  <2>1. ASSUME NEW x \in Payments, x \notin D PROVE PaymentKeeps(e, x)
    <3>1. x \notin DOMAIN e.payment /\ x \notin DOMAIN e.refund
      BY <1>1, <2>1
    <3> QED
      BY <1>4, <1>6, <1>7, <3>1, FramedKeeps
  <2>2. ASSUME NEW x \in D PROVE PaymentKeeps(e, x)
    <3>1. /\ After(e, x).st = "void" /\ After(e, x).kind = payment[x].kind /\ RefundAfter(e, x) = 0
          /\ After(e, x).to = payment[x].to /\ After(e, x).inside = payment[x].inside
      BY <1>1, <1>3 DEF After, RefundAfter
    <3>2. ASSUME payment[x].kind = "draw", payment[x].inside # None PROVE After(e, payment[x].inside).kind = "payment"
      <4>1. payment[payment[x].inside].kind = "payment"
        BY <1>2, <3>2 DEF PaymentKept, IsKind
      <4> QED
        BY <4>1, <1>4 DEF After, TypesFit
    <3>3. payment[x].kind = "draw" => payment[x].to = "bank"
      BY <1>2 DEF PaymentKept, IsKind
    <3> QED
      BY <3>1, <3>2, <3>3 DEF PaymentKeeps
  <2> QED
    BY <2>1, <2>2
<1>9. DOMAIN e.new = {} /\ DOMAIN e.bounce = {}
  BY <1>5
<1> QED
  BY <1>4, <1>6, <1>8, <1>9 DEF KeptFits

\* TotalOf is a sum over its payments.
LEMMA TotalIsSum == ASSUME NEW D PROVE TotalOf(D) = SumOn([d \in D |-> payment[d].total], D)
BY DEF TotalOf, SumOver, SumOn

\* The kinds, spelt out.
LEMMA SourceOf == \A p : /\ IsKind(p, {"draw"}) <=> payment[p].kind = "draw"
                         /\ IsKind(p, {"hold"}) <=> payment[p].kind = "hold"
                         /\ IsKind(p, {"payment"}) <=> payment[p].kind = "payment"
                         /\ IsKind(p, {"memo"}) <=> payment[p].kind = "memo"
                         /\ Posted(p) <=> payment[p].st = "posted"
BY DEF IsKind, Posted

\* What a posted, unbounced payment gives.
LEMMA PostedGives ==
    ASSUME PayTypeOK, NEW x \in Payments, Posted(x), ~Bounced(x), payment[x].kind = "draw" => ~Bounced(payment[x].from)
    PROVE  /\ Stands(x) /\ ArOf(x) = ArGive(payment[x], refund[x]) /\ HeldOf(x) = HeldGive(payment[x], refund[x])
           /\ ClearingOf(x) = IF LiveDepositsFor(x) = {} THEN InClearing(payment[x].to, payment[x].total) ELSE 0
           /\ payment[x].total \in Nat /\ payment[x].adj \in Nat /\ refund[x] \in Nat
<1>1. payment[x] \in PaymentRow /\ refund[x] \in Nat
  BY DEF PayTypeOK
<1>2. payment[x].total \in Nat /\ payment[x].adj \in Nat
  BY <1>1 DEF PaymentRow
<1>3. Stands(x)
  BY DEF Stands, IsKind
<1> QED
  BY <1>1, <1>2, <1>3 DEF ArOf, HeldOf, ClearingOf

\* voidPayment takes back what the payment and the draws inside it gave.
LEMMA VoidPaymentAccounts ==
    ASSUME AllPaid, KeptInv, NEW p \in Payments, VoidPayment(p)
    PROVE  \E e : AccountsFit(e) /\ Commit(e)
<1>1. PICK e : e = VoidPaymentEffect(p)
  OBVIOUS
<1>2. PICK I, D, R, out : I = DrawsInside(p) /\ D = {p} \cup I /\ R = RowsOf(D) /\ out = TotalOf(I)
  OBVIOUS
<1>3. PICK row : row = payment[p]
  OBVIOUS
<1>30. PICK l, m, n : /\ l = IF row.kind = "draw" THEN row.total ELSE 0
                      /\ m = IF row.kind = "payment" THEN row.total + row.adj ELSE 0
                      /\ n = IF row.kind = "hold" THEN row.total ELSE 0
  OBVIOUS
<1>4. /\ e.gone = Copies(R) /\ e.new = EmptyBag /\ e.payment = Voided(D)
      /\ e.bounce = <<>> /\ e.refund = <<>> /\ e.deposit = <<>> /\ e.invoice = <<>>
      /\ e.ar = out + l + m /\ e.held = (out + l) - n /\ e.clearing = -InClearing(row.to, row.total)
      /\ Commit(e)
  <2>1. /\ e.gone = Copies(R) /\ e.new = EmptyBag /\ e.payment = Voided(D)
        /\ e.bounce = <<>> /\ e.refund = <<>> /\ e.deposit = <<>> /\ e.invoice = <<>>
        /\ e.clearing = -InClearing(row.to, row.total)
    BY <1>1, <1>2, <1>3 DEF VoidPaymentEffect, Nothing
  <2>2. e.ar = TotalOf(I) + (IF row.kind = "draw" THEN row.total ELSE 0)
                          + (IF row.kind = "payment" THEN row.total + row.adj ELSE 0)
    BY <1>1, <1>2, <1>3 DEF VoidPaymentEffect, Nothing
  <2>3. e.held = (TotalOf(I) + (IF row.kind = "draw" THEN row.total ELSE 0))
                            - (IF row.kind = "hold" THEN row.total ELSE 0)
    BY <1>1, <1>2, <1>3 DEF VoidPaymentEffect, Nothing
  <2>4. e.ar = out + l + m /\ e.held = (out + l) - n
    BY <1>2, <1>30, <2>2, <2>3
  <2>5. Commit(e)
    BY <1>1 DEF VoidPayment
  <2> QED
    BY <2>1, <2>4, <2>5
<1>5. PayTypeOK /\ (\A x \in Payments : PaymentKept(x)) /\ \A x \in Payments : payment[x] \in PaymentRow
  BY DEF KeptInv, PayTypeOK
<1>6. I \in SUBSET Payments /\ D \in SUBSET Payments /\ \A x \in I : payment[x].kind = "draw" /\ Posted(x) /\ payment[x].inside = p
  BY <1>2 DEF DrawsInside, IsKind
<1>7. row.kind \in {"payment", "hold", "draw"} /\ \A x \in D : Releasable(x)
  BY <1>2, <1>3 DEF VoidPayment, MayVoidPayment, IsKind
<1>8. p \notin I
  <2>1. SUFFICES ASSUME p \in I PROVE FALSE
    OBVIOUS
  <2>2. payment[p].kind = "draw" /\ payment[p].inside = p
    BY <1>6, <2>1
  <2>3. p # None
    BY PaymentsAssumption
  <2> QED
    BY <1>5, <2>2, <2>3 DEF PaymentKept, IsKind
<1>9. \A x \in D : /\ Posted(x) /\ ~Bounced(x) /\ LiveDepositsFor(x) = {} /\ refund[x] = 0
                   /\ payment[x].kind = "draw" => ~Bounced(payment[x].from)
                   /\ IsKind(x, {"hold"}) => LiveDraws(x) = {}
  BY <1>7, ReleasableFacts DEF Releasable, IsKind
<1>10. \A x \in D : /\ Stands(x) /\ ArOf(x) = ArGive(payment[x], 0) /\ HeldOf(x) = HeldGive(payment[x], 0)
                    /\ ClearingOf(x) = InClearing(payment[x].to, payment[x].total)
                    /\ payment[x].total \in Nat /\ payment[x].adj \in Nat
  BY <1>5, <1>6, <1>9, PostedGives
<1>11. out = SumOn([d \in I |-> payment[d].total], I)
  BY <1>2, TotalIsSum
<1>12. IsFiniteSet(Payments) /\ IsFiniteSet(I)
  BY <1>6, PaymentsAssumption, FS_Subset
<1>13. PICK v, w : v = [x \in I |-> payment[x].total] /\ w = [x \in I |-> -payment[x].total]
  OBVIOUS
<1>14. \A x \in I : /\ v[x] \in Int /\ w[x] \in Int /\ w[x] = -v[x]
                    /\ v[x] = payment[x].total /\ w[x] = -payment[x].total
  BY <1>2, <1>10, <1>13
<1>15. SumOn(v, I) = out /\ SumOn(w, I) = -out /\ out \in Int
  <2>1. SumOn(v, I) \in Int
    BY <1>12, <1>14, SumOnType
  <2>2. SumOn(w, I) = -SumOn(v, I)
    BY <1>12, <1>14, SumOnNegated
  <2> QED
    BY <1>11, <1>13, <2>1, <2>2
<1>16. row.total \in Nat /\ row.adj \in Nat
  BY <1>2, <1>3, <1>10
<1>17. e.ar \in Int /\ e.held \in Int /\ e.clearing \in Int
  BY <1>4, <1>15, <1>16, <1>30 DEF InClearing
<1>18. KeptFits(e) /\ TypesFit(e)
  <2>1. R \in SUBSET DOMAIN apps
    BY <1>2 DEF RowsOf, LiveApplications, CreditsAppliedIn
  <2>2. \A r \in R : r.pay \in D \/ r.inside # None
    <3>1. \A r \in R : r.pay \in D \/ r.inside \in D
      BY <1>2 DEF RowsOf, LiveApplications, CreditsAppliedIn
    <3> QED
      BY <1>6, <3>1, PaymentsAssumption
  <2> QED
    BY <1>4, <1>6, <1>9, <1>17, <2>1, <2>2, VoidKept
<1>19. DOMAIN e.payment = D /\ \A x \in D : After(e, x).st = "void"
  <2>1. \A x \in D : payment[x] \in PaymentRow
    BY <1>5, <1>6
  <2> QED
    BY <1>4, <2>1 DEF Voided, After, PaymentRow
<1>20. \A x \in D : ArAfter(e, x) = 0 /\ HeldAfter(e, x) = 0 /\ ClearingAfter(e, x) = 0
  BY <1>19 DEF ArAfter, HeldAfter, ClearingAfter, StandsAfter
<1>21. \A x \in Payments \ D : ArAfter(e, x) = ArOf(x) /\ HeldAfter(e, x) = HeldOf(x) /\ ClearingAfter(e, x) = ClearingOf(x)
  BY <1>4, <1>19, LeftAlone
<1>22. \A x \in Payments : ArOf(x) \in Int /\ HeldOf(x) \in Int /\ ClearingOf(x) \in Int
  BY <1>5, PartsAreInt
<1>23. \A x \in I : /\ ArOf(x) = payment[x].total /\ HeldOf(x) = -payment[x].total /\ ClearingOf(x) = 0
  BY <1>2, <1>5, <1>6, <1>10 DEF ArGive, HeldGive, InClearing, PaymentKept, IsKind
<1>24. \A x \in I : w[x] = ArAfter(e, x) - ArOf(x) /\ v[x] = HeldAfter(e, x) - HeldOf(x)
  BY <1>2, <1>10, <1>14, <1>20, <1>23
<1>25. \A x \in Payments : x # p /\ x \notin I => ArAfter(e, x) = ArOf(x) /\ HeldAfter(e, x) = HeldOf(x)
  BY <1>2, <1>21
<1>26. \A x \in Payments : x # p => ClearingAfter(e, x) = ClearingOf(x)
  BY <1>2, <1>20, <1>21, <1>23
<1>27. ArAfter(e, p) = 0 /\ HeldAfter(e, p) = 0 /\ ClearingAfter(e, p) = 0 /\ ClearingOf(p) = InClearing(row.to, row.total)
  BY <1>2, <1>3, <1>10, <1>20
<1>28. /\ e.ar = -((ArAfter(e, p) - ArOf(p)) + SumOn(w, I))
       /\ e.held = (HeldAfter(e, p) - HeldOf(p)) + SumOn(v, I)
       /\ e.clearing = ClearingAfter(e, p) - ClearingOf(p)
  <2>1. l \in Int /\ m \in Int /\ ArOf(p) = l + m
    BY <1>2, <1>3, <1>7, <1>10, <1>16, <1>30 DEF ArGive
  <2>2. n \in Int /\ HeldOf(p) = n - l
    BY <1>2, <1>3, <1>7, <1>10, <1>16, <1>30 DEF HeldGive
  <2>3. ClearingOf(p) \in Int
    BY <1>22
  <2> QED
    BY <1>4, <1>15, <1>27, <2>1, <2>2, <2>3
<1>29. BooksFit(e)
  BY <1>4, <1>5, <1>6, <1>8, <1>18, <1>24, <1>25, <1>26, <1>28, GroupMoves
<1> QED
  BY <1>4, <1>18, <1>29 DEF AccountsFit, BooksMove

-----------------------------------------------------------------------------
(* Rows that take no discount.                                             *)

\* The rows an effect takes away and adds are of payments it writes, or take
\* no discount and are of no draw.
QuietRow(e, r) == \/ r.pay \in DOMAIN e.payment
                  \/ r.adj = 0 /\ ~IsKind(r.pay, {"draw"})
\* An effect whose rows carry no discount keeps the tables.
LEMMA QuietKept ==
    ASSUME AllPaid, KeptInv, NEW e, RowsFit(e), TypesFit(e), e.bounce = <<>>, e.refund = <<>>,
           \A h \in DOMAIN e.payment : e.payment[h].kind = "hold" => e.payment[h].st = "posted",
           \A r \in DOMAIN e.gone \cup DOMAIN e.new : QuietRow(e, r),
           \A x \in DOMAIN e.payment : PaymentKeeps(e, x),
           \A r \in DOMAIN e.new : /\ r.adj > 0 => After(e, r.pay).kind = "payment" /\ ~r.later /\ r.inside = None
                                   /\ r.inside # None => After(e, r.pay).kind # "draw"
    PROVE  KeptFits(e)
<1>1. Typed(e.gone) /\ Typed(e.new)
  BY TypedRows DEF AllPaid
<1>2. PICK G, N : G = e.gone /\ N = e.new
  OBVIOUS
<1>3. FiniteBag(G) /\ DOMAIN G \subseteq Application /\ FiniteBag(N) /\ DOMAIN N \subseteq Application
  BY <1>1, <1>2 DEF Typed
<1>4. Framed(e)
  <2>1. ASSUME NEW x \in Payments, x \notin DOMAIN e.payment PROVE AdjOn(e.gone, x) = AdjOn(e.new, x)
    <3>1. \A r \in DOMAIN G : r.pay = x => r.adj = 0
      BY <1>2, <2>1 DEF QuietRow
    <3>2. \A r \in DOMAIN N : r.pay = x => r.adj = 0
      BY <1>2, <2>1 DEF QuietRow
    <3>3. AdjOn(G, x) = 0
      BY <1>3, <3>1, NoDiscount
    <3>4. AdjOn(N, x) = 0
      BY <1>3, <3>2, NoDiscount
    <3> QED
      BY <1>2, <3>3, <3>4
  <2>2. ASSUME NEW x \in Payments, x \notin DOMAIN e.payment, IsKind(x, {"draw"}) PROVE CashOn(e.gone, x) = CashOn(e.new, x)
    <3>1. \A r \in DOMAIN G : r.pay # x
      BY <1>2, <2>2 DEF QuietRow
    <3>2. \A r \in DOMAIN N : r.pay # x
      BY <1>2, <2>2 DEF QuietRow
    <3>3. CashOn(G, x) = 0
      BY <1>3, <3>1, NoCashOf
    <3>4. CashOn(N, x) = 0
      BY <1>3, <3>2, NoCashOf
    <3> QED
      BY <1>2, <3>3, <3>4
  <2>3. ASSUME NEW x \in Payments, IsKind(x, {"draw"}), Posted(x) PROVE After(e, payment[x].from).st = "posted"
    BY <2>3, HoldsStay
  <2> QED
    BY <2>1, <2>2, <2>3 DEF Framed
<1>5. \A x \in Payments : PaymentKeeps(e, x)
  <2>1. ASSUME NEW x \in Payments, x \notin DOMAIN e.payment PROVE PaymentKeeps(e, x)
    <3>1. x \notin DOMAIN e.refund
      OBVIOUS
    <3> QED
      BY <1>4, <2>1, <3>1, FramedKeeps
  <2> QED
    BY <2>1
<1>6. DOMAIN e.bounce = {}
  OBVIOUS
<1> QED
  BY <1>5, <1>6 DEF KeptFits

\* No row of another table moves, and nothing is posted.
LEMMA StillBooks ==
    ASSUME AllPaid, KeptInv, NEW e, TypesFit(e), NEW p \in Payments,
           e.payment = <<>>, e.bounce = <<>>, e.refund = <<>>, e.deposit = <<>>, e.invoice = <<>>,
           e.ar = 0, e.held = 0, e.clearing = 0
    PROVE  BooksFit(e)
<1>1. PayTypeOK
  BY DEF KeptInv
<1>2. ArAfter(e, p) = ArOf(p) /\ HeldAfter(e, p) = HeldOf(p) /\ ClearingAfter(e, p) = ClearingOf(p)
  BY LeftAlone
<1>3. ArOf(p) \in Int /\ HeldOf(p) \in Int /\ ClearingOf(p) \in Int
  BY <1>1, PartsAreInt
<1> QED
  BY <1>1, <1>2, <1>3, OneMoves

\* voidCreditMemo takes back what the memo gave.
LEMMA VoidMemoAccounts ==
    ASSUME AllPaid, KeptInv, NEW m \in Payments, VoidMemo(m)
    PROVE  \E e : AccountsFit(e) /\ Commit(e)
<1>1. /\ payment[m].kind = "memo" /\ Posted(m) /\ refund[m] = 0 /\ payment[m].to = "bank"
      /\ ~Bounced(m) /\ PayTypeOK /\ payment[m] \in PaymentRow
  BY DEF VoidMemo, IsKind, KeptInv, PayTypeOK, AllPaid, PayInv, Kinship, BouncesStand
<1>2. PICK R, D : R = LiveApplications(m) /\ D = {m}
  OBVIOUS
<1>3. PICK e : e = [Nothing EXCEPT !.gone = Copies(R), !.payment = Voided(D), !.ar = payment[m].total]
  OBVIOUS
<1>4. /\ e.gone = Copies(R) /\ e.new = EmptyBag /\ e.payment = Voided(D)
      /\ e.bounce = <<>> /\ e.refund = <<>> /\ e.deposit = <<>> /\ e.invoice = <<>>
      /\ e.ar = payment[m].total /\ e.held = 0 /\ e.clearing = 0 /\ Commit(e)
  BY <1>2, <1>3 DEF VoidMemo, Nothing
<1>5. R \in SUBSET DOMAIN apps /\ \A r \in R : r.pay \in D
  BY <1>2 DEF LiveApplications
<1>6. e.ar \in Int /\ e.held \in Int /\ e.clearing \in Int /\ payment[m].total \in Nat
  BY <1>1, <1>4 DEF PaymentRow
<1>7. TypesFit(e) /\ KeptFits(e)
  <2>1. D \in SUBSET Payments /\ \A x \in D : Posted(x) /\ refund[x] = 0 /\ (IsKind(x, {"hold"}) => LiveDraws(x) = {})
    BY <1>1, <1>2 DEF IsKind
  <2> QED
    BY <1>4, <1>5, <1>6, <2>1, VoidKept
<1>8. DOMAIN e.payment = {m} /\ After(e, m).st = "void"
  BY <1>1, <1>2, <1>4 DEF Voided, After, PaymentRow
<1>9. ArAfter(e, m) = 0 /\ HeldAfter(e, m) = 0 /\ ClearingAfter(e, m) = 0
  BY <1>8 DEF ArAfter, HeldAfter, ClearingAfter, StandsAfter
<1>10. ArOf(m) = payment[m].total /\ HeldOf(m) = 0 /\ ClearingOf(m) = 0
  BY <1>1, <1>6, PostedGives DEF ArGive, HeldGive, InClearing
<1>11. BooksFit(e)
  BY <1>1, <1>4, <1>6, <1>7, <1>8, <1>9, <1>10, OneMoves
<1> QED
  BY <1>4, <1>7, <1>11 DEF AccountsFit, BooksMove

\* A row taken off an invoice moves no account.
LEMMA UnapplyAccounts ==
    ASSUME AllPaid, KeptInv, NEW p \in Payments, NEW r \in DOMAIN apps, Unapply(p, r)
    PROVE  \E e : AccountsFit(e) /\ Commit(e)
<1>1. PICK e : e = [Nothing EXCEPT !.gone = SetToBag({r})]
  OBVIOUS
<1>2. /\ e.gone = SetToBag({r}) /\ e.new = EmptyBag /\ e.payment = <<>> /\ e.ar = 0 /\ e.held = 0 /\ e.clearing = 0
      /\ e.bounce = <<>> /\ e.refund = <<>> /\ e.deposit = <<>> /\ e.invoice = <<>> /\ Commit(e)
  BY <1>1 DEF Unapply, Nothing
<1>3. r.pay = p /\ r.adj = 0 /\ ~IsKind(p, {"draw"})
  BY DEF Unapply, LiveApplications, IsKind
<1>4. FiniteBag(SetToBag({r})) /\ WithinBag(SetToBag({r}), apps) /\ DOMAIN SetToBag({r}) = {r}
  BY OneRowGone DEF AllPaid, SetToBag
<1>5. Typed(EmptyBag) /\ DOMAIN EmptyBag = {}
  BY NoneFits DEF AllPaid, EmptyBag, SetToBag
<1>6. RowsFit(e) /\ TypesFit(e)
  BY <1>2, <1>4, <1>5 DEF RowsFit, TypesFit
<1>7. \A y \in DOMAIN e.gone \cup DOMAIN e.new : QuietRow(e, y)
  BY <1>2, <1>3, <1>4, <1>5 DEF QuietRow
<1>8. KeptFits(e)
  <2>1. DOMAIN e.payment = {} /\ DOMAIN e.new = {}
    BY <1>2, <1>5
  <2>2. \A h \in DOMAIN e.payment : e.payment[h].kind = "hold" => e.payment[h].st = "posted"
    BY <2>1
  <2>3. \A y \in DOMAIN e.payment : PaymentKeeps(e, y)
    BY <2>1
  <2>4. \A y \in DOMAIN e.new : /\ y.adj > 0 => After(e, y.pay).kind = "payment" /\ ~y.later /\ y.inside = None
                                /\ y.inside # None => After(e, y.pay).kind # "draw"
    BY <2>1
  <2> QED
    BY <1>2, <1>6, <1>7, <2>2, <2>3, <2>4, QuietKept
<1>9. BooksFit(e)
  BY <1>2, <1>6, StillBooks
<1> QED
  BY <1>2, <1>8, <1>9 DEF AccountsFit, BooksMove

\* A draw moves its amount from the held deposits to Accounts Receivable; credit
\* of another source moves nothing.
LEMMA ApplyCreditAccounts ==
    ASSUME AllPaid, KeptInv, NEW p \in Payments, NEW i \in Invoices, NEW x \in Int,
           NEW d \in DrawIds(p, IsKind(p, {"hold"})), ApplyCredit(p, i, x, d)
    PROVE  \E e : AccountsFit(e) /\ Commit(e)
<1>1. /\ x \in Nat /\ x > 0 /\ Posted(p) /\ ~Bounced(p) /\ IsKind(p, {"payment", "memo", "hold"})
      /\ d \in Payments
  BY DEF ApplyCredit, CreditUsable, IsKind, DrawIds
<1>2. PICK e : e = ApplyCreditEffect(p, i, x, d) /\ Commit(e)
  BY DEF ApplyCredit
<1>3. Typed(EmptyBag) /\ DOMAIN EmptyBag = {} /\ FiniteBag(EmptyBag) /\ WithinBag(EmptyBag, apps)
  BY NoneFits DEF AllPaid, EmptyBag, SetToBag
<1>4. PayTypeOK
  BY DEF KeptInv
<1>5. CASE IsKind(p, {"hold"})
  <2>1. PICK row, new : row = Row(d, i, x, 0, FALSE, None) /\ new = NewPayment("draw", x, 0, "bank", p, None)
    OBVIOUS
  <2>2. /\ row \in Application /\ row.amt = x /\ row.pay = d /\ row.adj = 0 /\ row.inside = None
    BY <1>1, <2>1 DEF Row, Application
  <2>3. /\ e.gone = EmptyBag /\ e.new = SetToBag({row}) /\ e.payment = Only(d, new)
        /\ e.bounce = <<>> /\ e.refund = <<>> /\ e.deposit = <<>> /\ e.invoice = <<>>
        /\ e.ar = -x /\ e.held = -x /\ e.clearing = 0
    BY <1>2, <1>5, <2>1 DEF ApplyCreditEffect, Nothing
  <2>4. /\ new \in PaymentRow /\ new.kind = "draw" /\ new.st = "posted" /\ new.to = "bank" /\ new.total = x
        /\ new.from = p /\ new.inside = None
    <3>1. p \in Payments \cup {None} /\ None \in Payments \cup {None} /\ "draw" \in Kinds /\ 0 \in Nat
          /\ x \in Nat /\ "bank" \in {"clearing", "bank"}
      BY <1>1 DEF Kinds
    <3> QED
      BY <2>1, <3>1 DEF NewPayment, PaymentRow
  <2>5. d # p /\ Unused(d)
    BY <1>5 DEF DrawIds
  <2>6. /\ ~Bounced(d) /\ LiveDepositsFor(d) = {} /\ refund[d] = 0 /\ ArOf(d) = 0 /\ HeldOf(d) = 0 /\ ClearingOf(d) = 0
        /\ CashOn(apps, d) = 0
    BY <1>1, <2>5, UnusedGives, UnusedCredit DEF AllPaid
  <2>7. DOMAIN e.payment = {d} /\ e.payment[d] = new /\ After(e, d) = new /\ RefundAfter(e, d) = 0 /\ After(e, p) = payment[p]
    BY <2>3, <2>5, <2>6 DEF Only, After, RefundAfter
  <2>8. Typed(e.new) /\ DOMAIN e.new = {row} /\ CashOn(e.new, d) = x
    BY <2>2, <2>3, OneRowCash DEF SetToBag
  <2>9. e.ar \in Int /\ e.held \in Int /\ e.clearing \in Int
    BY <1>1, <2>3
  <2>10. RowsFit(e) /\ TypesFit(e)
    <3>1. payment[d].kind = "none"
      BY <2>5 DEF Unused
    <3> QED
      BY <1>1, <1>3, <2>3, <2>4, <2>7, <2>8, <2>9, <3>1 DEF RowsFit, TypesFit
  <2>11. PaymentKeeps(e, d)
    <3>1. CashOn(e.gone, d) = 0
      BY <2>3, NoneWeigh
    <3>2. After(e, After(e, d).from).st = "posted"
      BY <1>1, <2>4, <2>7 DEF Posted
    <3>3. CashOn(apps, d) - CashOn(e.gone, d) + CashOn(e.new, d) = After(e, d).total
      BY <1>1, <2>4, <2>6, <2>7, <2>8, <3>1
    <3> QED
      BY <2>4, <2>7, <3>2, <3>3 DEF PaymentKeeps
  <2>12. KeptFits(e)
    <3>1. \A r \in DOMAIN e.gone \cup DOMAIN e.new : QuietRow(e, r)
      BY <1>3, <2>2, <2>3, <2>7, <2>8 DEF QuietRow
    <3>2. \A h \in DOMAIN e.payment : e.payment[h].kind = "hold" => e.payment[h].st = "posted"
      BY <2>4, <2>7
    <3>3. \A r \in DOMAIN e.new : /\ r.adj > 0 => After(e, r.pay).kind = "payment" /\ ~r.later /\ r.inside = None
                                  /\ r.inside # None => After(e, r.pay).kind # "draw"
      BY <2>2, <2>8
    <3>4. \A y \in DOMAIN e.payment : PaymentKeeps(e, y)
      BY <2>7, <2>11
    <3> QED
      BY <2>3, <2>10, <3>1, <3>2, <3>3, <3>4, QuietKept
  <2>13. StandsAfter(e, d)
    BY <1>1, <2>3, <2>4, <2>6, <2>7 DEF StandsAfter, BouncedAfter, Bounced
  <2>14. ArAfter(e, d) = x /\ HeldAfter(e, d) = -x /\ ClearingAfter(e, d) = 0
    <3>1. ClearingAfter(e, d) = InClearing(After(e, d).to, After(e, d).total)
      BY <1>1, <2>3, <2>4, <2>6, <2>7, WrittenRow
    <3> QED
      BY <2>4, <2>7, <2>13, <3>1 DEF ArAfter, HeldAfter, ArGive, HeldGive, InClearing
  <2>15. BooksFit(e)
    <3>1. e.ar = ArOf(d) - ArAfter(e, d) /\ e.held = HeldAfter(e, d) - HeldOf(d) /\ e.clearing = ClearingAfter(e, d) - ClearingOf(d)
      BY <1>1, <2>3, <2>6, <2>14
    <3> QED
      BY <1>1, <1>4, <2>3, <2>7, <2>10, <3>1, OneMoves
  <2> QED
    BY <1>2, <2>3, <2>12, <2>15 DEF AccountsFit, BooksMove
<1>6. CASE ~IsKind(p, {"hold"})
  <2>1. PICK row : row = Row(p, i, x, 0, TRUE, None)
    OBVIOUS
  <2>2. /\ row \in Application /\ row.pay = p /\ row.adj = 0 /\ row.inside = None
    BY <1>1, <2>1 DEF Row, Application
  <2>3. /\ e.gone = EmptyBag /\ e.new = SetToBag({row}) /\ e.payment = <<>>
        /\ e.bounce = <<>> /\ e.refund = <<>> /\ e.deposit = <<>> /\ e.invoice = <<>>
        /\ e.ar = 0 /\ e.held = 0 /\ e.clearing = 0
    BY <1>2, <1>6, <2>1 DEF ApplyCreditEffect, Nothing
  <2>4. Typed(e.new) /\ DOMAIN e.new = {row}
    BY <2>2, <2>3, OneRowCash DEF SetToBag
  <2>5. RowsFit(e) /\ TypesFit(e)
    BY <1>3, <2>3, <2>4 DEF RowsFit, TypesFit
  <2>6. KeptFits(e)
    <3>1. \A r \in DOMAIN e.gone \cup DOMAIN e.new : QuietRow(e, r)
      BY <1>1, <1>3, <1>6, <2>2, <2>3, <2>4 DEF QuietRow, IsKind
    <3>2. \A r \in DOMAIN e.new : /\ r.adj > 0 => After(e, r.pay).kind = "payment" /\ ~r.later /\ r.inside = None
                                  /\ r.inside # None => After(e, r.pay).kind # "draw"
      BY <2>2, <2>4
    <3>3. DOMAIN e.payment = {}
      BY <2>3
    <3>4. \A h \in DOMAIN e.payment : e.payment[h].kind = "hold" => e.payment[h].st = "posted"
      BY <3>3
    <3>5. \A y \in DOMAIN e.payment : PaymentKeeps(e, y)
      BY <3>3
    <3> QED
      BY <2>3, <2>5, <3>1, <3>2, <3>4, <3>5, QuietKept
  <2>7. BooksFit(e)
    BY <2>3, <2>5, StillBooks
  <2> QED
    BY <1>2, <2>3, <2>6, <2>7 DEF AccountsFit, BooksMove
<1> QED
  BY <1>5, <1>6

\* A credit memo takes its total off Accounts Receivable.
LEMMA CreateMemoAccounts ==
    ASSUME AllPaid, KeptInv, NEW m \in Payments, NEW total \in Int, NEW i \in Invoices,
           NEW on, on = {} \/ on = {i}, CreateMemo(m, total, on)
    PROVE  \E e : AccountsFit(e) /\ Commit(e)
<1>1. PICK open : open = PayableCents(invoice[i])
  OBVIOUS
<1>2. open \in Nat
  <2>1. PICK inv \in InvoiceRow : inv = invoice[i]
    BY DEF KeptInv, PayTypeOK
  <2> QED
    BY <1>1, <2>1 DEF PayableCents, AtLeastZero, InvoiceRow
<1>3. PICK row : row = Row(m, i, Smaller(total, open), 0, FALSE, None)
  OBVIOUS
<1>4. total > 0 /\ total \in Nat /\ Unused(m)
  BY DEF CreateMemo
<1>5. Smaller(total, open) \in Nat
  BY <1>2, <1>4 DEF Smaller
<1>6. row \in Application /\ row.pay = m /\ row.adj = 0 /\ row.inside = None
  BY <1>3, <1>5 DEF Row, Application
<1>7. PICK all : all = {Row(m, j, Smaller(total, PayableCents(invoice[j])), 0, FALSE, None) : j \in on}
  OBVIOUS
<1>8. PICK rows : rows = {r \in all : r.amt > 0}
  OBVIOUS
<1>9. rows = {} \/ rows = {row}
  <2>1. on = {} => all = {}
    BY <1>7
  <2>2. on = {i} => all = {row}
    BY <1>1, <1>3, <1>7
  <2> QED
    BY <1>8, <2>1, <2>2
<1>10. PICK new : new = NewPayment("memo", total, 0, "bank", None, None)
  OBVIOUS
<1>11. PICK e : e = [Nothing EXCEPT !.payment = Only(m, new), !.new = SetToBag(rows), !.ar = -total]
  OBVIOUS
<1>12. /\ Commit(e) /\ e.gone = EmptyBag /\ e.new = SetToBag(rows) /\ e.payment = Only(m, new)
       /\ e.bounce = <<>> /\ e.refund = <<>> /\ e.deposit = <<>> /\ e.invoice = <<>>
       /\ e.ar = -total /\ e.held = 0 /\ e.clearing = 0
  BY <1>7, <1>8, <1>10, <1>11 DEF CreateMemo, Nothing
<1>13. new \in PaymentRow /\ new.kind = "memo" /\ new.st = "posted" /\ new.to = "bank" /\ new.total = total
  <2>1. "memo" \in Kinds /\ 0 \in Nat /\ total \in Nat /\ "bank" \in {"clearing", "bank"} /\ None \in Payments \cup {None}
    BY <1>4 DEF Kinds
  <2> QED
    BY <1>10, <2>1 DEF NewPayment, PaymentRow
<1>14. Typed(e.new) /\ DOMAIN e.new \subseteq {row}
  <2>1. CASE rows = {}
    <3>1. e.new = EmptyBag
      BY <1>12, <2>1 DEF EmptyBag
    <3> QED
      BY <3>1, NoneFits DEF AllPaid, EmptyBag, SetToBag
  <2>2. CASE rows = {row}
    BY <1>6, <1>12, <2>2, OneRowCash DEF SetToBag
  <2> QED
    BY <1>9, <2>1, <2>2
<1>15. Typed(EmptyBag) /\ DOMAIN EmptyBag = {} /\ FiniteBag(EmptyBag) /\ WithinBag(EmptyBag, apps)
  BY NoneFits DEF AllPaid, EmptyBag, SetToBag
<1>16. /\ ~Bounced(m) /\ LiveDepositsFor(m) = {} /\ refund[m] = 0
       /\ ArOf(m) = 0 /\ HeldOf(m) = 0 /\ ClearingOf(m) = 0
  BY <1>4, UnusedGives
<1>17. DOMAIN e.payment = {m} /\ e.payment[m] = new /\ After(e, m) = new /\ RefundAfter(e, m) = 0
  BY <1>12, <1>16 DEF Only, After, RefundAfter
<1>18. RowsFit(e) /\ TypesFit(e)
  <2>1. payment[m].kind = "none"
    BY <1>4 DEF Unused
  <2>2. e.ar \in Int /\ e.held \in Int /\ e.clearing \in Int
    BY <1>4, <1>12
  <2> QED
    BY <1>12, <1>13, <1>14, <1>15, <1>17, <2>1, <2>2 DEF RowsFit, TypesFit
<1>19. KeptFits(e)
  <2>1. PaymentKeeps(e, m)
    BY <1>13, <1>17 DEF PaymentKeeps
  <2>2. \A r \in DOMAIN e.gone \cup DOMAIN e.new : QuietRow(e, r)
    BY <1>6, <1>12, <1>14, <1>15, <1>17 DEF QuietRow
  <2>3. \A h \in DOMAIN e.payment : e.payment[h].kind = "hold" => e.payment[h].st = "posted"
    BY <1>13, <1>17
  <2>4. \A r \in DOMAIN e.new : /\ r.adj > 0 => After(e, r.pay).kind = "payment" /\ ~r.later /\ r.inside = None
                                /\ r.inside # None => After(e, r.pay).kind # "draw"
    BY <1>6, <1>14
  <2>5. \A y \in DOMAIN e.payment : PaymentKeeps(e, y)
    BY <1>17, <2>1
  <2> QED
    BY <1>12, <1>18, <2>2, <2>3, <2>4, <2>5, QuietKept
<1>20. StandsAfter(e, m)
  BY <1>12, <1>13, <1>16, <1>17 DEF StandsAfter, BouncedAfter, Bounced
<1>21. ArAfter(e, m) = total /\ HeldAfter(e, m) = 0 /\ ClearingAfter(e, m) = 0
  <2>1. ClearingAfter(e, m) = InClearing(After(e, m).to, After(e, m).total)
    BY <1>12, <1>13, <1>16, <1>17, WrittenRow
  <2> QED
    BY <1>4, <1>13, <1>17, <1>20, <2>1 DEF ArAfter, HeldAfter, ArGive, HeldGive, InClearing
<1>22. BooksFit(e)
  <2>1. /\ e.ar = ArOf(m) - ArAfter(e, m) /\ e.held = HeldAfter(e, m) - HeldOf(m)
        /\ e.clearing = ClearingAfter(e, m) - ClearingOf(m)
    BY <1>4, <1>12, <1>16, <1>21
  <2>2. PayTypeOK
    BY DEF KeptInv
  <2> QED
    BY <1>12, <1>17, <1>18, <2>1, <2>2, OneMoves
<1> QED
  BY <1>12, <1>19, <1>22 DEF AccountsFit, BooksMove

-----------------------------------------------------------------------------
(* Bounces.                                                                *)

\* Marking rows reversed, or live again, keeps their discounts.
LEMMA MarkedAdj ==
    ASSUME PaidInv, NEW R, R \in SUBSET DOMAIN apps, ReversedAlike(R), NEW by, by \in Payments \cup {None}, NEW p
    PROVE  AdjOn(Marked(R, by), p) = AdjOn(Copies(R), p)
<1>1. PICK V : V = AdjFrom(p)
  OBVIOUS
<1>2. V \in [Application -> Int]
  BY <1>1, AdjIsNat
<1>3. Typed(Marked(R, by)) /\ Weigh(Marked(R, by), V) = Weigh(Copies(R), Anew(R, by, V))
  BY <1>2, MarkedWeighs
<1>4. PICK U : U = Anew(R, by, V)
  OBVIOUS
<1>5. ASSUME NEW r \in R PROVE V[r] \in Int /\ U[r] = V[r]
  <2>1. r \in Application
    BY DEF PaidInv, Typed
  <2>2. PICK x : x = [r EXCEPT !.by = by]
    OBVIOUS
  <2>3. x \in Application /\ x.pay = r.pay /\ x.adj = r.adj
    BY <2>1, <2>2 DEF Application
  <2>4. V[x] = V[r]
    BY <1>1, <2>1, <2>3 DEF AdjFrom
  <2>5. U[r] = V[x]
    BY <1>4, <2>2 DEF Anew
  <2> QED
    BY <1>2, <2>1, <2>4, <2>5
<1>6. FiniteBag(Copies(R)) /\ DOMAIN Copies(R) = R
  BY CopiesFit
<1>7. Weigh(Copies(R), U) = Weigh(Copies(R), V)
  BY <1>5, <1>6, WeighSame
<1> QED
  BY <1>1, <1>3, <1>4, <1>7 DEF AdjOn

\* The discounts on the live rows of an unbounced receipt are what the receipt says.
LEMMA LiveAdj ==
    ASSUME AllPaid, KeptInv, NEW p \in Payments, Posted(p), ~Bounced(p), IsKind(p, {"payment"})
    PROVE  SumOf(apps, LiveApplications(p), LAMBDA r : r.adj) = payment[p].adj
<1>1. PICK R, V : R = LiveApplications(p) /\ V = AdjFrom(p)
  OBVIOUS
<1>2. PICK f : f = [r \in R |-> apps[r] * r.adj]
  OBVIOUS
<1>3. SumOf(apps, LiveApplications(p), LAMBDA r : r.adj) = SumOn(f, R)
  BY <1>1, <1>2 DEF SumOf, SumOver, SumOn
<1>4. FiniteBag(apps) /\ DOMAIN apps \subseteq Application /\ R \in SUBSET DOMAIN apps
  BY <1>1 DEF AllPaid, PaidInv, Typed, LiveApplications
<1>5. \A r \in R : V[r] = r.adj /\ V[r] \in Int
  BY <1>1, <1>4, AdjIsNat DEF AdjFrom, LiveApplications
<1>6. \A r \in DOMAIN apps \ R : V[r] = 0
  <2>1. ASSUME NEW r \in DOMAIN apps, r.pay = p PROVE r \in R
    <3>1. r.by = None
      <4>1. SUFFICES ASSUME r.by # None PROVE FALSE
        OBVIOUS
      <4>2. Bounced(r.by) /\ Owned(r, r.by)
        BY <4>1 DEF AllPaid, PayInv, BouncesStand
      <4> QED
        BY <2>1, <4>2 DEF Owned, IsKind
    <3> QED
      BY <1>1, <2>1, <3>1 DEF LiveApplications
  <2> QED
    BY <1>1, <1>4, <2>1 DEF AdjFrom
<1>7. \A r \in R : f[r] = apps[r] * V[r]
  BY <1>2, <1>5
<1>8. Weigh(apps, V) = SumOn(f, R)
  BY <1>4, <1>5, <1>6, <1>7, WeighPart
<1>9. AdjOn(apps, p) = payment[p].adj
  BY DEF KeptInv, PaymentKept
<1> QED
  BY <1>1, <1>3, <1>8, <1>9 DEF AdjOn

\* The rows of a bounce are marked, and come back, as they are.
LEMMA MarkedKept ==
    ASSUME AllPaid, KeptInv, NEW R, R \in SUBSET DOMAIN apps, ReversedAlike(R), NEW by, by \in Payments \cup {None},
           NEW e, e.gone = Copies(R), e.new = Marked(R, by), TypesFit(e),
           e.payment = <<>>, e.refund = <<>>, e.deposit = <<>>,
           \A p \in DOMAIN e.bounce : e.bounce[p] = NoBounce \/ e.bounce[p] = Returned(p)
    PROVE  KeptFits(e)
<1>1. Typed(e.new) /\ \A x : CashOn(e.new, x) = CashOn(e.gone, x) /\ AdjOn(e.new, x) = AdjOn(e.gone, x)
  BY MarkedCash, MarkedAdj DEF AllPaid
<1>2. RowsFit(e)
  BY <1>1, TakenRows DEF RowsFit
<1>3. \A x \in Payments : After(e, x) = payment[x]
  BY DEF After
<1>4. Framed(e)
  <2>1. ASSUME NEW x \in Payments, IsKind(x, {"draw"}), Posted(x) PROVE After(e, payment[x].from).st = "posted"
    <3>1. DOMAIN e.payment = {}
      OBVIOUS
    <3>2. \A h \in DOMAIN e.payment : e.payment[h].kind = "hold" => e.payment[h].st = "posted"
      BY <3>1
    <3> QED
      BY <2>1, <3>2, HoldsStay
  <2> QED
    BY <1>1, <2>1 DEF Framed
<1>5. \A x \in Payments : PaymentKeeps(e, x)
  BY <1>2, <1>4, FramedKeeps
<1>6. ASSUME NEW q \in DOMAIN e.new
      PROVE  /\ q.adj > 0 => After(e, q.pay).kind = "payment" /\ ~q.later /\ q.inside = None
             /\ q.inside # None => After(e, q.pay).kind # "draw"
  <2>1. PICK r \in R : q = [r EXCEPT !.by = by]
    BY <1>6 DEF Marked
  <2>2. r \in Application /\ RowKept(r)
    BY <2>1, TakenRows
  <2>3. q.adj = r.adj /\ q.pay = r.pay /\ q.later = r.later /\ q.inside = r.inside /\ r.pay \in Payments
    BY <2>1, <2>2 DEF Application
  <2>4. After(e, q.pay) = payment[r.pay]
    BY <1>3, <2>3
  <2> QED
    BY <2>2, <2>3, <2>4 DEF RowKept, IsKind
<1> QED
  BY <1>2, <1>5, <1>6 DEF KeptFits

\* An effect turns p's bounce on or off: what p and the draws on it give.
Turns(e, p) ==
    /\ e.payment = <<>> /\ e.refund = <<>> /\ e.deposit = <<>>
    /\ DOMAIN e.bounce = {p} /\ IsKind(p, {"payment", "hold"}) /\ Posted(p) /\ refund[p] = 0
\* A bounce, or its void, moves what the payment and the draws on it give.
LEMMA TurnedGives ==
    ASSUME AllPaid, KeptInv, NEW e, NEW p \in Payments, Turns(e, p)
    PROVE  /\ LiveDraws(p) \in SUBSET Payments /\ p \notin LiveDraws(p) /\ (IsKind(p, {"payment"}) => LiveDraws(p) = {})
           /\ \A x \in Payments : x # p /\ x \notin LiveDraws(p) => ArAfter(e, x) = ArOf(x) /\ HeldAfter(e, x) = HeldOf(x)
           /\ \A x \in Payments : x # p => ClearingAfter(e, x) = ClearingOf(x)
           /\ \A x \in LiveDraws(p) :
                 /\ payment[x].total \in Nat
                 /\ ArOf(x) = (IF Bounced(p) THEN 0 ELSE payment[x].total) /\ HeldOf(x) = -ArOf(x)
                 /\ ArAfter(e, x) = (IF BouncedAfter(e, p) THEN 0 ELSE payment[x].total) /\ HeldAfter(e, x) = -ArAfter(e, x)
           /\ payment[p].total \in Nat /\ payment[p].adj \in Nat
           /\ ArOf(p) = IF Bounced(p) THEN 0 ELSE ArGive(payment[p], 0)
           /\ ArAfter(e, p) = IF BouncedAfter(e, p) THEN 0 ELSE ArGive(payment[p], 0)
           /\ HeldOf(p) = IF Bounced(p) THEN 0 ELSE HeldGive(payment[p], 0)
           /\ HeldAfter(e, p) = IF BouncedAfter(e, p) THEN 0 ELSE HeldGive(payment[p], 0)
           /\ ClearingOf(p) = IF Bounced(p) THEN 0 ELSE InClearing(HeldIn(p), payment[p].total)
           /\ ClearingAfter(e, p) = IF BouncedAfter(e, p) THEN 0 ELSE InClearing(HeldIn(p), payment[p].total)
<1>1. \A x \in Payments : After(e, x) = payment[x] /\ RefundAfter(e, x) = refund[x]
  BY DEF Turns, After, RefundAfter
<1>2. \A x \in Payments : payment[x] \in PaymentRow
  BY DEF KeptInv, PayTypeOK
<1>3. \A x \in Payments : payment[x].total \in Nat /\ payment[x].adj \in Nat
  BY <1>2 DEF PaymentRow
<1>4. \A x : x # p => (BouncedAfter(e, x) <=> Bounced(x))
  BY DEF Turns, BouncedAfter, Bounced
<1>5. \A x : DepositsOf(e, x) = LiveDepositsFor(x)
  BY DEF Turns, DepositsOf, DepositAfter, LiveDepositsFor
<1>6. p \notin LiveDraws(p) /\ LiveDraws(p) \in SUBSET Payments
  BY DEF LiveDraws, Turns, IsKind
<1>7. IsKind(p, {"payment"}) => LiveDraws(p) = {}
  BY DEF LiveDraws, AllPaid, PayInv, Kinship, IsKind
<1>8. ASSUME NEW x \in Payments, x # p, x \notin LiveDraws(p) PROVE ArAfter(e, x) = ArOf(x) /\ HeldAfter(e, x) = HeldOf(x)
  <2>1. IsKind(x, {"draw"}) /\ Posted(x) => payment[x].from # p
    BY <1>8 DEF LiveDraws
  <2>2. StandsAfter(e, x) <=> Stands(x)
    BY <1>1, <1>4, <1>8, <2>1 DEF StandsAfter, Stands, Posted, IsKind
  <2> QED
    BY <1>1, <2>2 DEF ArAfter, ArOf, HeldAfter, HeldOf
<1>9. ASSUME NEW x \in Payments, x # p PROVE ClearingAfter(e, x) = ClearingOf(x)
  BY <1>1, <1>4, <1>5, <1>9 DEF ClearingAfter, ClearingOf, Posted
<1>10. ASSUME NEW x \in LiveDraws(p)
       PROVE  /\ payment[x].total \in Nat
              /\ ArOf(x) = (IF Bounced(p) THEN 0 ELSE payment[x].total) /\ HeldOf(x) = -ArOf(x)
              /\ ArAfter(e, x) = (IF BouncedAfter(e, p) THEN 0 ELSE payment[x].total) /\ HeldAfter(e, x) = -ArAfter(e, x)
  <2>1. x \in Payments /\ payment[x].kind = "draw" /\ payment[x].st = "posted" /\ payment[x].from = p /\ x # p
    BY <1>6 DEF LiveDraws, IsKind, Posted
  <2>2. ~Bounced(x)
    BY <2>1 DEF AllPaid, PayInv, BouncesStand, IsKind
  <2>3. (Stands(x) <=> ~Bounced(p)) /\ (StandsAfter(e, x) <=> ~BouncedAfter(e, p))
    BY <1>1, <1>4, <2>1, <2>2 DEF Stands, StandsAfter, Posted, IsKind
  <2> QED
    BY <1>1, <1>3, <2>1, <2>3 DEF ArOf, ArAfter, HeldOf, HeldAfter, ArGive, HeldGive
<1>11. (Stands(p) <=> ~Bounced(p)) /\ (StandsAfter(e, p) <=> ~BouncedAfter(e, p))
  BY <1>1 DEF Stands, StandsAfter, Turns, Posted, IsKind
<1>12. /\ ArOf(p) = (IF Bounced(p) THEN 0 ELSE ArGive(payment[p], 0))
       /\ ArAfter(e, p) = (IF BouncedAfter(e, p) THEN 0 ELSE ArGive(payment[p], 0))
       /\ HeldOf(p) = (IF Bounced(p) THEN 0 ELSE HeldGive(payment[p], 0))
       /\ HeldAfter(e, p) = (IF BouncedAfter(e, p) THEN 0 ELSE HeldGive(payment[p], 0))
  BY <1>1, <1>11 DEF Turns, ArOf, ArAfter, HeldOf, HeldAfter
<1>13. /\ ClearingOf(p) = (IF Bounced(p) THEN 0 ELSE InClearing(HeldIn(p), payment[p].total))
       /\ ClearingAfter(e, p) = (IF BouncedAfter(e, p) THEN 0 ELSE InClearing(HeldIn(p), payment[p].total))
  BY <1>1, <1>5 DEF Turns, ClearingOf, ClearingAfter, HeldIn, InClearing, Posted
<1> QED
  BY <1>3, <1>6, <1>7, <1>8, <1>9, <1>10, <1>12, <1>13

\* A bounce takes back what the payment, and the draws on it, gave.
LEMMA BounceAccounts ==
    ASSUME AllPaid, KeptInv, NEW p \in Payments, BouncePayment(p) \/ VoidBounce(p)
    PROVE  \E e : AccountsFit(e) /\ Commit(e)
<1>0. PayTypeOK /\ payment[p] \in PaymentRow
  BY DEF KeptInv, PayTypeOK
<1>1. PICK U, out : U = LiveDraws(p) /\ out = Drawn(p)
  OBVIOUS
<1>2. out = TotalOf(U) /\ out \in Nat
  BY <1>1, DrawnIsTotal DEF AllPaid
<1>3. PICK v, w : v = [x \in U |-> payment[x].total] /\ w = [x \in U |-> -payment[x].total]
  OBVIOUS
<1>4. U \in SUBSET Payments /\ IsFiniteSet(U) /\ \A x \in U : payment[x].total \in Nat
  BY <1>0, <1>1, PaymentsAssumption, FS_Subset DEF LiveDraws, PayTypeOK, PaymentRow
<1>5. SumOn(v, U) = out /\ SumOn(w, U) = -out
  <2>1. SumOn(v, U) = out
    BY <1>2, <1>3, TotalIsSum
  <2>2. \A x \in U : v[x] \in Int /\ w[x] = -v[x]
    BY <1>3, <1>4
  <2>3. SumOn(w, U) = -SumOn(v, U)
    BY <1>4, <2>2, SumOnNegated
  <2> QED
    BY <2>1, <2>3
<1>6. PICK b : b = Returned(p)
  OBVIOUS
<1>9. ASSUME IsKind(p, {"payment", "hold"}), IsKind(p, {"payment"}) => U = {}
      PROVE  b.ar = ArGive(payment[p], 0) + out /\ b.held = HeldGive(payment[p], 0) - out /\ b.at = HeldIn(p)
  <2>1. payment[p].total \in Nat /\ payment[p].adj \in Nat
    BY <1>0 DEF PaymentRow
  <2>2. CASE payment[p].kind = "hold"
    <3>1. b = [at |-> HeldIn(p), ar |-> out, held |-> payment[p].total - out]
      BY <1>1, <1>6, <2>2 DEF Returned, IsKind
    <3>2. ArGive(payment[p], 0) = 0 /\ HeldGive(payment[p], 0) = payment[p].total
      BY <2>1, <2>2 DEF ArGive, HeldGive
    <3> QED
      BY <1>2, <2>1, <3>1, <3>2
  <2>3. CASE payment[p].kind # "hold"
    <3>1. payment[p].kind = "payment" /\ U = {}
      BY <1>9, <2>3 DEF IsKind
    <3>2. out = 0
      BY <1>5, <3>1, SumOnEmpty
    <3> QED
      BY <1>6, <2>1, <3>1, <3>2 DEF Returned, ArGive, HeldGive, IsKind
  <2> QED
    BY <2>2, <2>3
<1>7. CASE BouncePayment(p)
  <2>1. PICK e, R : e = BounceEffect(p) /\ R = BounceRows(p)
    OBVIOUS
  <2>2. MayBounce(p) /\ Commit(e)
    BY <1>7, <2>1 DEF BouncePayment
  <2>3. IsKind(p, {"payment", "hold"}) /\ Posted(p) /\ ~Bounced(p) /\ refund[p] = 0
    BY <2>2 DEF MayBounce
  <2>4. /\ e.gone = Copies(R) /\ e.new = Marked(R, p) /\ e.bounce = Only(p, b)
        /\ e.payment = <<>> /\ e.refund = <<>> /\ e.deposit = <<>> /\ e.invoice = <<>>
        /\ e.ar = b.ar /\ e.held = -b.held /\ e.clearing = -InClearing(b.at, payment[p].total)
    <3>1. CASE IsKind(p, {"hold"})
      <4>1. b = [at |-> HeldIn(p), ar |-> TotalOf(LiveDraws(p)), held |-> payment[p].total - TotalOf(LiveDraws(p))]
        BY <1>1, <1>2, <1>6, <3>1 DEF Returned
      <4> QED
        BY <2>1, <3>1, <4>1 DEF BounceEffect, Nothing
    <3>2. CASE ~IsKind(p, {"hold"})
      <4>1. IsKind(p, {"payment"}) /\ BounceRows(p) = LiveApplications(p)
        BY <2>3, <3>2 DEF IsKind, BounceRows
      <4>2. SumOf(apps, LiveApplications(p), LAMBDA r : r.adj) = payment[p].adj
        BY <2>3, <4>1, LiveAdj
      <4>3. SumOf(apps, BounceRows(p), LAMBDA r : r.adj) = payment[p].adj
        BY <4>1, <4>2
      <4>4. b = [at |-> HeldIn(p), ar |-> payment[p].total + SumOf(apps, BounceRows(p), LAMBDA r : r.adj), held |-> 0]
        BY <1>6, <3>2, <4>3 DEF Returned
      <4> QED
        BY <2>1, <3>2, <4>4 DEF BounceEffect, Nothing
    <3> QED
      BY <3>1, <3>2
  <2>5. DOMAIN e.bounce = {p} /\ e.bounce[p] = b /\ Turns(e, p)
    BY <2>3, <2>4 DEF Only, Turns
  <2>6. b \in Bounce /\ b.at # "none" /\ BouncedAfter(e, p)
    <3>1. b \in Bounce
      BY <1>6, <2>3, ReturnedTyped DEF KeptInv
    <3>2. HeldIn(p) # "none"
      BY <1>0 DEF HeldIn, PaymentRow
    <3>3. b.at = HeldIn(p)
      BY <1>6 DEF Returned
    <3> QED
      BY <2>5, <3>1, <3>2, <3>3 DEF BouncedAfter
  <2>7. payment[p].total \in Nat /\ payment[p].adj \in Nat
    BY <1>0 DEF PaymentRow
  <2>8. TypesFit(e)
    <3>1. b.ar \in Nat /\ b.held \in Nat
      BY <2>6 DEF Bounce
    <3>2. e.ar \in Int /\ e.held \in Int /\ e.clearing \in Int
      BY <2>4, <2>7, <3>1 DEF InClearing
    <3> QED
      BY <2>4, <2>5, <3>2 DEF TypesFit
  <2>9. KeptFits(e)
    <3>1. R \in SUBSET DOMAIN apps /\ ReversedAlike(R) /\ p \in Payments \cup {None}
      BY <2>1 DEF BounceRows, LiveApplications, ReversedAlike
    <3>2. \A x \in DOMAIN e.bounce : e.bounce[x] = NoBounce \/ e.bounce[x] = Returned(x)
      BY <1>6, <2>5
    <3> QED
      BY <2>4, <2>8, <3>1, <3>2, MarkedKept
  <2>10. /\ p \notin U
         /\ \A x \in Payments : x # p /\ x \notin U => ArAfter(e, x) = ArOf(x) /\ HeldAfter(e, x) = HeldOf(x)
         /\ \A x \in Payments : x # p => ClearingAfter(e, x) = ClearingOf(x)
         /\ \A x \in U : ArOf(x) = payment[x].total /\ HeldOf(x) = -ArOf(x) /\ ArAfter(e, x) = 0 /\ HeldAfter(e, x) = -0
         /\ ArOf(p) = ArGive(payment[p], 0) /\ HeldOf(p) = HeldGive(payment[p], 0)
         /\ ArAfter(e, p) = 0 /\ HeldAfter(e, p) = 0 /\ ClearingAfter(e, p) = 0
         /\ ClearingOf(p) = InClearing(HeldIn(p), payment[p].total)
         /\ IsKind(p, {"payment"}) => U = {}
    BY <1>1, <2>3, <2>5, <2>6, TurnedGives
  <2>11. \A x \in U : w[x] = ArAfter(e, x) - ArOf(x) /\ v[x] = HeldAfter(e, x) - HeldOf(x)
    BY <1>3, <1>4, <2>10
  <2>12. b.ar = ArGive(payment[p], 0) + out /\ b.held = HeldGive(payment[p], 0) - out /\ b.at = HeldIn(p)
    BY <2>3, <2>10, <1>9
  <2>13. /\ e.ar = -((ArAfter(e, p) - ArOf(p)) + SumOn(w, U))
         /\ e.held = (HeldAfter(e, p) - HeldOf(p)) + SumOn(v, U)
         /\ e.clearing = ClearingAfter(e, p) - ClearingOf(p)
    <3>1. ArOf(p) \in Int /\ HeldOf(p) \in Int /\ ClearingOf(p) \in Int
      BY <1>0, PartsAreInt
    <3> QED
      BY <1>2, <1>5, <2>4, <2>10, <2>12, <3>1
  <2>14. BooksFit(e)
    BY <1>0, <1>4, <2>4, <2>8, <2>10, <2>11, <2>13, GroupMoves
  <2>15. \A x \in DOMAIN e.bounce : IsKind(x, {"payment", "hold"})
    BY <2>3, <2>5
  <2> QED
    BY <2>2, <2>4, <2>9, <2>14, <2>15 DEF AccountsFit, BooksMove
<1>8. CASE VoidBounce(p)
  <2>1. PICK e, R : e = VoidBounceEffect(p) /\ R = ReversedBy(p)
    OBVIOUS
  <2>2. Bounced(p) /\ Commit(e)
    BY <1>8, <2>1 DEF VoidBounce, MayVoidBounce
  <2>3. IsKind(p, {"payment", "hold"}) /\ Posted(p) /\ refund[p] = 0 /\ bounce[p] = b
    BY <1>6, <2>2 DEF AllPaid, PayInv, BouncesStand, KeptInv, PaymentKept
  <2>4. /\ e.gone = Copies(R) /\ e.new = Marked(R, None) /\ e.bounce = Only(p, NoBounce)
        /\ e.payment = <<>> /\ e.refund = <<>> /\ e.deposit = <<>> /\ e.invoice = <<>>
        /\ e.ar = -b.ar /\ e.held = b.held /\ e.clearing = InClearing(b.at, payment[p].total)
    BY <2>1, <2>3 DEF VoidBounceEffect, Nothing
  <2>5. DOMAIN e.bounce = {p} /\ e.bounce[p] = NoBounce /\ Turns(e, p) /\ ~BouncedAfter(e, p)
    BY <2>3, <2>4 DEF Only, Turns, BouncedAfter, NoBounce
  <2>6. b \in Bounce
    BY <1>6, <2>3, ReturnedTyped DEF KeptInv
  <2>7. payment[p].total \in Nat /\ payment[p].adj \in Nat
    BY <1>0 DEF PaymentRow
  <2>8. TypesFit(e)
    <3>1. b.ar \in Nat /\ b.held \in Nat
      BY <2>6 DEF Bounce
    <3>2. e.ar \in Int /\ e.held \in Int /\ e.clearing \in Int
      BY <2>4, <2>7, <3>1 DEF InClearing
    <3> QED
      BY <2>4, <2>5, <3>2 DEF TypesFit
  <2>9. KeptFits(e)
    <3>1. R \in SUBSET DOMAIN apps /\ ReversedAlike(R) /\ None \in Payments \cup {None}
      BY <2>1 DEF ReversedBy, ReversedAlike
    <3>2. \A x \in DOMAIN e.bounce : e.bounce[x] = NoBounce \/ e.bounce[x] = Returned(x)
      BY <2>5
    <3> QED
      BY <2>4, <2>8, <3>1, <3>2, MarkedKept
  <2>10. /\ p \notin U
         /\ \A x \in Payments : x # p /\ x \notin U => ArAfter(e, x) = ArOf(x) /\ HeldAfter(e, x) = HeldOf(x)
         /\ \A x \in Payments : x # p => ClearingAfter(e, x) = ClearingOf(x)
         /\ \A x \in U : ArOf(x) = 0 /\ HeldOf(x) = -0 /\ ArAfter(e, x) = payment[x].total /\ HeldAfter(e, x) = -ArAfter(e, x)
         /\ ArOf(p) = 0 /\ HeldOf(p) = 0 /\ ClearingOf(p) = 0
         /\ ArAfter(e, p) = ArGive(payment[p], 0) /\ HeldAfter(e, p) = HeldGive(payment[p], 0)
         /\ ClearingAfter(e, p) = InClearing(HeldIn(p), payment[p].total)
         /\ IsKind(p, {"payment"}) => U = {}
    BY <1>1, <2>2, <2>5, TurnedGives
  <2>11. \A x \in U : v[x] = ArAfter(e, x) - ArOf(x) /\ w[x] = HeldAfter(e, x) - HeldOf(x)
    BY <1>3, <1>4, <2>10
  <2>12. b.ar = ArGive(payment[p], 0) + out /\ b.held = HeldGive(payment[p], 0) - out /\ b.at = HeldIn(p)
    BY <2>3, <2>10, <1>9
  <2>13. /\ e.ar = -((ArAfter(e, p) - ArOf(p)) + SumOn(v, U))
         /\ e.held = (HeldAfter(e, p) - HeldOf(p)) + SumOn(w, U)
         /\ e.clearing = ClearingAfter(e, p) - ClearingOf(p)
    <3>1. ArAfter(e, p) \in Int /\ HeldAfter(e, p) \in Int /\ ClearingAfter(e, p) \in Int
      BY <1>0, <2>8, AfterAreInt
    <3> QED
      BY <1>2, <1>5, <2>4, <2>10, <2>12, <3>1
  <2>14. BooksFit(e)
    BY <1>0, <1>4, <2>4, <2>8, <2>10, <2>11, <2>13, GroupMoves
  <2>15. \A x \in DOMAIN e.bounce : IsKind(x, {"payment", "hold"})
    BY <2>3, <2>5
  <2> QED
    BY <2>2, <2>4, <2>9, <2>14, <2>15 DEF AccountsFit, BooksMove
<1> QED
  BY <1>7, <1>8

-----------------------------------------------------------------------------
(* Deposits and invoices.                                                  *)

\* An effect that writes no payment, no bounce, no refund and no application row.
OtherTables(e) ==
    /\ e.gone = EmptyBag /\ e.new = EmptyBag
    /\ e.payment = <<>> /\ e.bounce = <<>> /\ e.refund = <<>>

\* An effect on other tables leaves payments and their rows as they are.
LEMMA OthersKept ==
    ASSUME AllPaid, KeptInv, NEW e, OtherTables(e), TypesFit(e)
    PROVE  /\ KeptFits(e) /\ DOMAIN e.bounce = {}
           /\ \A x \in Payments : ArAfter(e, x) = ArOf(x) /\ HeldAfter(e, x) = HeldOf(x)
<1>1. DOMAIN EmptyBag = {} /\ Typed(EmptyBag) /\ FiniteBag(EmptyBag) /\ WithinBag(EmptyBag, apps)
  BY NoneFits DEF AllPaid, EmptyBag, SetToBag
<1>2. RowsFit(e) /\ DOMAIN e.payment = {} /\ DOMAIN e.new = {} /\ DOMAIN e.gone = {} /\ DOMAIN e.bounce = {}
  BY <1>1 DEF RowsFit, OtherTables
<1>3. KeptFits(e)
  <2>1. \A h \in DOMAIN e.payment : e.payment[h].kind = "hold" => e.payment[h].st = "posted"
    BY <1>2
  <2>2. \A y \in DOMAIN e.payment : PaymentKeeps(e, y)
    BY <1>2
  <2>3. \A y \in DOMAIN e.new : /\ y.adj > 0 => After(e, y.pay).kind = "payment" /\ ~y.later /\ y.inside = None
                                /\ y.inside # None => After(e, y.pay).kind # "draw"
    BY <1>2
  <2>4. \A r \in DOMAIN e.gone \cup DOMAIN e.new : QuietRow(e, r)
    BY <1>2
  <2>5. e.bounce = <<>> /\ e.refund = <<>>
    BY DEF OtherTables
  <2> QED
    BY <1>2, <2>1, <2>2, <2>3, <2>4, <2>5, QuietKept
<1>4. ASSUME NEW x \in Payments PROVE ArAfter(e, x) = ArOf(x) /\ HeldAfter(e, x) = HeldOf(x)
  <2>1. x \notin DOMAIN e.payment /\ x \notin DOMAIN e.refund /\ e.bounce = <<>>
    BY DEF OtherTables
  <2> QED
    BY <2>1, LeftAlone
<1> QED
  BY <1>2, <1>3, <1>4

\* Customer Deposits stay where no payment gives more or less to it.
LEMMA HeldStays ==
    ASSUME PayTypeOK, NEW e, e.held = 0, \A x \in Payments : HeldAfter(e, x) = HeldOf(x)
    PROVE  HeldFits(e)
<1>1. [p \in Payments |-> HeldAfter(e, p)] = [p \in Payments |-> HeldOf(p)]
  OBVIOUS
<1>2. HeldThen(e) = Held /\ Held \in Int
  BY <1>1, SumsAreInt DEF Held, HeldThen
<1> QED
  BY <1>2 DEF HeldFits

\* What payments give to Accounts Receivable stays.
LEMMA SettledStays ==
    ASSUME PayTypeOK, NEW e, \A x \in Payments : ArAfter(e, x) = ArOf(x)
    PROVE  SettledThen(e) = Settled /\ Settled \in Int
<1>1. [p \in Payments |-> ArAfter(e, p)] = [p \in Payments |-> ArOf(p)]
  OBVIOUS
<1> QED
  BY <1>1, SumsAreInt DEF Settled, SettledThen

\* A deposit empties Payments Clearing of what its items hold there, and gives
\* back what the items it leaves held.
LEMMA DepositAccounts ==
    ASSUME AllPaid, KeptInv, NEW d \in Deposits, NEW items \in SUBSET Payments,
           CreateDeposit(d, items) \/ UpdateDeposit(d, items) \/ VoidDeposit(d)
    PROVE  \E e : AccountsFit(e) /\ Commit(e)
<1>1. ASSUME NEW st \in {"posted", "void"}, NEW held \in SUBSET Payments, Commit(DepositEffect(d, st, held)),
             deposit[d].st = "posted" => SourcesUnbounced(d),
             \A p \in held : st = "posted" /\ Depositable(p, d)
      PROVE  \E e : AccountsFit(e) /\ Commit(e)
  <2>1. PICK e, row, old : e = DepositEffect(d, st, held) /\ row = [st |-> st, items |-> held] /\ old = deposit[d].items
    OBVIOUS
  <2>2. /\ e.payment = <<>> /\ e.gone = EmptyBag /\ e.new = EmptyBag
        /\ e.bounce = <<>> /\ e.refund = <<>> /\ e.deposit = Only(d, row) /\ e.invoice = <<>>
        /\ e.ar = 0 /\ e.held = 0 /\ e.clearing = TotalOf(old) - TotalOf(held)
    BY <2>1 DEF DepositEffect, Nothing
  <2>3. row \in DepositRow /\ row.st = st /\ row.items = held /\ (st # "posted" => held = {})
    BY <1>1, <2>1 DEF DepositRow
  <2>4. PayTypeOK /\ old \in SUBSET Payments /\ DOMAIN e.deposit = {d} /\ e.deposit[d] = row
    BY <2>1, <2>2 DEF KeptInv, PayTypeOK, Only
  <2>5. \A x \in Payments : payment[x].total \in Nat
    BY <2>4 DEF PayTypeOK, PaymentRow
  <2>6. PICK f, g, v : /\ f = [x \in Payments |-> IF x \in old THEN payment[x].total ELSE 0]
                       /\ g = [x \in Payments |-> IF x \in held THEN payment[x].total ELSE 0]
                       /\ v = [x \in Payments |-> f[x] - g[x]]
    OBVIOUS
  <2>7. \A x \in Payments : f[x] \in Int /\ g[x] \in Int /\ v[x] \in Int /\ f[x] = v[x] + g[x]
    BY <2>5, <2>6
  <2>8. IsFiniteSet(Payments)
    BY PaymentsAssumption
  <2>9. TotalOf(old) = SumOn(f, Payments) /\ TotalOf(held) = SumOn(g, Payments)
    <3>1. ASSUME NEW D \in SUBSET Payments, NEW h, \A x \in Payments : h[x] = IF x \in D THEN payment[x].total ELSE 0
          PROVE  TotalOf(D) = SumOn(h, Payments)
      <4>1. PICK k : k = [x \in D |-> payment[x].total]
        OBVIOUS
      <4>2. /\ \A x \in D : k[x] \in Int /\ h[x] = k[x]
            /\ \A x \in Payments \ D : h[x] = 0
        BY <2>5, <3>1, <4>1
      <4>3. SumOn(h, Payments) = SumOn(k, D)
        BY <2>8, <4>2, SumOnPadded
      <4> QED
        BY <4>1, <4>3, TotalIsSum
    <3>2. \A x \in Payments : f[x] = IF x \in old THEN payment[x].total ELSE 0
      BY <2>6
    <3>3. \A x \in Payments : g[x] = IF x \in held THEN payment[x].total ELSE 0
      BY <2>6
    <3> QED
      BY <2>4, <3>1, <3>2, <3>3
  <2>10. e.clearing = SumOn(v, Payments) /\ SumOn(v, Payments) \in Int
    <3>1. SumOn(f, Payments) = SumOn(v, Payments) + SumOn(g, Payments)
      BY <2>7, <2>8, SumOnPlus
    <3>2. SumOn(v, Payments) \in Int /\ SumOn(g, Payments) \in Int
      BY <2>7, <2>8, SumOnType
    <3> QED
      BY <2>2, <2>9, <3>1, <3>2
  <2>11. TypesFit(e)
    BY <2>2, <2>3, <2>4, <2>10 DEF TypesFit
  <2>12. OtherTables(e)
    BY <2>2 DEF OtherTables
  <2>13. /\ KeptFits(e) /\ DOMAIN e.bounce = {}
         /\ \A x \in Payments : ArAfter(e, x) = ArOf(x) /\ HeldAfter(e, x) = HeldOf(x)
    BY <2>11, <2>12, OthersKept
  <2>14. HeldFits(e)
    BY <2>2, <2>4, <2>13, HeldStays
  <2>15. ArFits(e)
    <3>1. SettledThen(e) = Settled /\ Settled \in Int
      BY <2>4, <2>13, SettledStays
    <3>2. BilledThen(e) = Billed /\ Billed \in Int
      BY <2>2, <2>4, BilledStays, SumsAreInt
    <3> QED
      BY <2>2, <3>1, <3>2 DEF ArFits
  <2>16. ASSUME NEW x \in Payments PROVE ClearingAfter(e, x) = ClearingOf(x) + v[x]
    <3>1. After(e, x) = payment[x] /\ (BouncedAfter(e, x) <=> Bounced(x))
      BY <2>2 DEF After, BouncedAfter, Bounced
    <3>2. DepositsOf(e, x) = (LiveDepositsFor(x) \ {d}) \cup (IF x \in held THEN {d} ELSE {})
      BY <2>3, <2>4 DEF DepositsOf, DepositAfter, LiveDepositsFor
    <3>3. x \in old => /\ Posted(x) /\ payment[x].to = "clearing" /\ LiveDepositsFor(x) = {d}
                       /\ deposit[d].st = "posted" /\ ~Bounced(x)
      <4>1. x \in old => Posted(x) /\ payment[x].to = "clearing" /\ LiveDepositsFor(x) = {d}
        BY <2>1 DEF AllPaid, PayInv, DepositsHoldPostedItems
      <4>2. x \in old => deposit[d].st = "posted"
        BY <4>1 DEF LiveDepositsFor
      <4> QED
        BY <1>1, <2>1, <4>1, <4>2 DEF SourcesUnbounced
    <3>4. x \notin old => d \notin LiveDepositsFor(x)
      BY <2>1 DEF LiveDepositsFor
    <3>5. x \in held => /\ Posted(x) /\ ~Bounced(x) /\ payment[x].to = "clearing" /\ LiveDepositsFor(x) \ {d} = {}
      BY <1>1 DEF Depositable
    <3>6. v[x] = (IF x \in old THEN payment[x].total ELSE 0) - (IF x \in held THEN payment[x].total ELSE 0)
      BY <2>6
    <3>7. Posted(x) <=> After(e, x).st = "posted"
      BY <3>1 DEF Posted
    <3>8. PICK n \in Nat : n = payment[x].total
      BY <2>5
    <3>9. CASE x \in old /\ x \in held
      <4>1. DepositsOf(e, x) # {} /\ LiveDepositsFor(x) # {}
        BY <3>2, <3>3, <3>9
      <4> QED
        BY <3>6, <3>8, <3>9, <4>1 DEF ClearingAfter, ClearingOf
    <3>10. CASE x \in old /\ x \notin held
      <4>1. DepositsOf(e, x) = {} /\ LiveDepositsFor(x) # {}
        BY <3>2, <3>3, <3>10
      <4>2. ClearingAfter(e, x) = n
        BY <3>1, <3>3, <3>7, <3>8, <3>10, <4>1 DEF ClearingAfter, InClearing
      <4>3. ClearingOf(x) = 0
        BY <4>1 DEF ClearingOf
      <4> QED
        BY <3>6, <3>8, <3>10, <4>2, <4>3
    <3>11. CASE x \notin old /\ x \in held
      <4>1. DepositsOf(e, x) # {} /\ LiveDepositsFor(x) = {}
        BY <3>2, <3>4, <3>5, <3>11
      <4>2. ClearingOf(x) = n
        BY <3>5, <3>8, <3>11, <4>1 DEF ClearingOf, InClearing
      <4>3. ClearingAfter(e, x) = 0
        BY <4>1 DEF ClearingAfter
      <4> QED
        BY <3>6, <3>8, <3>11, <4>2, <4>3
    <3>12. CASE x \notin old /\ x \notin held
      <4>1. DepositsOf(e, x) = LiveDepositsFor(x)
        BY <3>2, <3>4, <3>12
      <4>2. ClearingAfter(e, x) = ClearingOf(x)
        BY <3>1, <3>7, <4>1 DEF ClearingAfter, ClearingOf
      <4>3. ClearingOf(x) \in Int
        BY <2>4, PartsAreInt
      <4> QED
        BY <3>6, <3>12, <4>2, <4>3
    <3> QED
      BY <3>9, <3>10, <3>11, <3>12
  <2>17. ClearingFits(e)
    <3>1. PICK U : U = Payments
      OBVIOUS
    <3>2. U \in SUBSET Payments /\ \A x \in U : v[x] \in Int
      BY <2>7, <3>1
    <3>3. \A x \in Payments : ClearingAfter(e, x) = ClearingOf(x) + IF x \in U THEN v[x] ELSE 0
      BY <2>16, <3>1
    <3>4. e.clearing = SumOn(v, U)
      BY <2>10, <3>1
    <3> QED
      BY <2>4, <3>2, <3>3, <3>4, ClearingShifts
  <2> QED
    BY <1>1, <2>1, <2>2, <2>13, <2>14, <2>15, <2>17 DEF AccountsFit, BooksFit, BooksMove
<1>2. CASE CreateDeposit(d, items)
  BY <1>1, <1>2 DEF CreateDeposit, MayCreateDeposit
<1>3. CASE UpdateDeposit(d, items)
  BY <1>1, <1>3 DEF UpdateDeposit, MayUpdateDeposit
<1>4. CASE VoidDeposit(d)
  BY <1>1, <1>4 DEF VoidDeposit, MayVoidDeposit
<1> QED
  BY <1>2, <1>3, <1>4

\* Accounts Receivable moves by what an edit changes of the invoice's total, and
\* by all of it when the invoice is voided.
LEMMA InvoiceAccounts ==
    ASSUME AllPaid, KeptInv, NEW i \in Invoices, NEW total \in Int, UpdateInvoice(i, total) \/ VoidInvoice(i)
    PROVE  \E e : AccountsFit(e) /\ Commit(e)
<1>1. PayTypeOK /\ invoice[i] \in InvoiceRow
  BY DEF KeptInv, PayTypeOK
<1>2. ASSUME NEW row, NEW ar, Commit([Nothing EXCEPT !.invoice = Only(i, row), !.ar = ar]),
             row \in InvoiceRow, ar \in Int, ar = BilledOf(row) - BilledOf(invoice[i])
      PROVE  \E e : AccountsFit(e) /\ Commit(e)
  <2>1. PICK e : e = [Nothing EXCEPT !.invoice = Only(i, row), !.ar = ar]
    OBVIOUS
  <2>2. /\ e.payment = <<>> /\ e.gone = EmptyBag /\ e.new = EmptyBag
        /\ e.bounce = <<>> /\ e.refund = <<>> /\ e.deposit = <<>> /\ e.invoice = Only(i, row)
        /\ e.ar = ar /\ e.held = 0 /\ e.clearing = 0
    BY <2>1 DEF Nothing
  <2>3. DOMAIN e.invoice = {i} /\ e.invoice[i] = row
    BY <2>2 DEF Only
  <2>4. TypesFit(e) /\ OtherTables(e)
    BY <1>2, <2>2, <2>3 DEF TypesFit, OtherTables
  <2>5. /\ KeptFits(e) /\ DOMAIN e.bounce = {}
        /\ \A x \in Payments : ArAfter(e, x) = ArOf(x) /\ HeldAfter(e, x) = HeldOf(x)
    BY <2>4, OthersKept
  <2>6. HeldFits(e)
    BY <1>1, <2>2, <2>5, HeldStays
  <2>7. PICK f, g : f = [j \in Invoices |-> BilledOf(invoice[j])] /\ g = [j \in Invoices |-> BilledOf(InvoiceAfter(e, j))]
    OBVIOUS
  <2>8. BilledOf(row) \in Int /\ BilledOf(invoice[i]) \in Int
    BY <1>1, <1>2 DEF BilledOf, InvoiceRow
  <2>9. /\ \A j \in Invoices : f[j] \in Int /\ g[j] \in Int
        /\ \A j \in Invoices \ {i} : g[j] = f[j]
        /\ f[i] = BilledOf(invoice[i]) /\ g[i] = BilledOf(row)
    <3>1. \A j \in Invoices : f[j] \in Int
      BY <1>1, <2>7, PartsAreInt
    <3>2. \A j \in Invoices \ {i} : g[j] = f[j]
      BY <2>3, <2>7 DEF InvoiceAfter
    <3>3. f[i] = BilledOf(invoice[i]) /\ g[i] = BilledOf(row)
      BY <2>3, <2>7 DEF InvoiceAfter
    <3> QED
      BY <2>8, <3>1, <3>2, <3>3
  <2>10. SumOn(g, Invoices) = SumOn(f, Invoices) + g[i] - f[i] /\ SumOn(f, Invoices) \in Int
    <3>1. IsFiniteSet(Invoices)
      BY PaymentsAssumption
    <3>2. SumOn(f, Invoices) \in Int
      BY <2>9, <3>1, SumOnType
    <3>3. (\A y \in Invoices : f[y] \in Int /\ g[y] \in Int) /\ \A y \in Invoices \ {i} : g[y] = f[y]
      BY <2>9
    <3>4. SumOn(g, Invoices) = SumOn(f, Invoices) + g[i] - f[i]
      BY <3>1, <3>3, SumOnChange
    <3> QED
      BY <3>2, <3>4
  <2>11. SumOn(f, Invoices) = Billed /\ BilledThen(e) = SumOn(g, Invoices)
    BY <2>7 DEF Billed, BilledThen
  <2>12. SettledThen(e) = Settled /\ Settled \in Int
    BY <1>1, <2>5, SettledStays
  <2>13. e.ar = BilledThen(e) - Billed /\ BilledThen(e) - Billed \in Int
    BY <1>2, <2>2, <2>8, <2>9, <2>10, <2>11
  <2>14. ArFits(e)
    BY <2>12, <2>13 DEF ArFits
  <2>15. ClearingFits(e)
    <3>1. \A x \in Payments : ClearingAfter(e, x) = ClearingOf(x)
      BY <2>2, LeftAlone
    <3>2. [x \in Payments |-> ClearingAfter(e, x)] = [x \in Payments |-> ClearingOf(x)]
      BY <3>1
    <3>3. ClearingThen(e) = Clearing /\ Clearing \in Int
      BY <1>1, <3>2, SumsAreInt DEF Clearing, ClearingThen
    <3> QED
      BY <2>2, <3>3 DEF ClearingFits
  <2> QED
    BY <1>2, <2>1, <2>2, <2>5, <2>6, <2>14, <2>15 DEF AccountsFit, BooksFit, BooksMove
<1>3. CASE UpdateInvoice(i, total)
  <2>1. PICK row : row = [invoice[i] EXCEPT !.total = total, !.balance = total - invoice[i].paid]
    OBVIOUS
  <2>2. total \in Nat /\ invoice[i].paid \in Int /\ invoice[i].total \in Nat /\ invoice[i].st = "posted"
    BY <1>1, <1>3 DEF UpdateInvoice, InvoiceRow
  <2>3. row \in InvoiceRow /\ row.st = "posted" /\ row.total = total
    <3>0. total - invoice[i].paid \in Int
      BY <2>2
    <3>1. PICK inv \in InvoiceRow, rest \in Int : inv = invoice[i] /\ rest = total - invoice[i].paid
      BY <1>1, <3>0, Zenon
    <3>2. row = [inv EXCEPT !.total = total, !.balance = rest] /\ inv.st = "posted"
      BY <2>1, <2>2, <3>1
    <3> QED
      BY <2>2, <3>2 DEF InvoiceRow
  <2>4. Commit([Nothing EXCEPT !.invoice = Only(i, row), !.ar = total - invoice[i].total])
    BY <1>3, <2>1 DEF UpdateInvoice
  <2>5. total - invoice[i].total = BilledOf(row) - BilledOf(invoice[i]) /\ total - invoice[i].total \in Int
    BY <2>2, <2>3 DEF BilledOf
  <2> QED
    BY <1>2, <2>3, <2>4, <2>5
<1>4. CASE VoidInvoice(i)
  <2>1. PICK row : row = [invoice[i] EXCEPT !.st = "void"]
    OBVIOUS
  <2>2. row \in InvoiceRow /\ row.st = "void" /\ invoice[i].total \in Nat /\ invoice[i].st = "posted"
    BY <1>1, <1>4, <2>1 DEF InvoiceRow, VoidInvoice, MayVoidInvoice
  <2>3. Commit([Nothing EXCEPT !.invoice = Only(i, row), !.ar = -invoice[i].total])
    BY <1>4, <2>1 DEF VoidInvoice, VoidInvoiceEffect
  <2>4. -invoice[i].total = BilledOf(row) - BilledOf(invoice[i]) /\ -invoice[i].total \in Int
    BY <2>2 DEF BilledOf
  <2> QED
    BY <1>2, <2>2, <2>3, <2>4
<1> QED
  BY <1>3, <1>4

-----------------------------------------------------------------------------
(* Receipts and their edits.                                               *)

\* The rows of a settlement: of the receipt, of the draw its credit posts, or of
\* the source that gives the credit.
LEMMA SettlementShape ==
    ASSUME NEW p \in Payments, NEW q \in Bodies, NEW d \in DrawIds(p, FromHold(q) # {}),
           NEW r \in DOMAIN Settlement(p, q, d)
    PROVE  \/ r.pay = p /\ ~r.later /\ r.inside = None
           \/ \E c \in q.credits :
                 /\ r.adj = 0
                 /\ IF IsKind(c.src, {"hold"}) THEN r.pay = d /\ r.inside = None ELSE r.pay = c.src
<1>1. r \in {Row(p, i, q.cash[i], q.adj[i], FALSE, None) : i \in {j \in Invoices : q.cash[j] + q.adj[j] > 0}}
              \cup {IF c \in FromHold(q) THEN Row(d, c.inv, c.amt, 0, FALSE, None)
                                         ELSE Row(c.src, c.inv, c.amt, 0, TRUE, p) : c \in q.credits}
  BY DEF Settlement, SetToBag
<1>2. CASE \E i \in Invoices : r = Row(p, i, q.cash[i], q.adj[i], FALSE, None)
  BY <1>2 DEF Row
<1>3. CASE \E c \in q.credits : r = IF c \in FromHold(q) THEN Row(d, c.inv, c.amt, 0, FALSE, None)
                                                         ELSE Row(c.src, c.inv, c.amt, 0, TRUE, p)
  BY <1>3 DEF Row, FromHold
<1> QED
  BY <1>1, <1>2, <1>3

\* A settlement's rows carry the discounts of its body.
LEMMA SettlementAdj ==
    ASSUME NEW p \in Payments, NEW q \in Bodies, NEW d \in DrawIds(p, FromHold(q) # {}),
           \A c \in q.credits : c.src # p
    PROVE  Total(q.adj) \in Nat /\ AdjOn(Settlement(p, q, d), p) = Total(q.adj)
<1>1. PICK V : V = AdjFrom(p)
  OBVIOUS
<1>2. \A r \in Application : V[r] \in Int
  BY <1>1, AdjIsNat
<1>3. PICK own : own = [i \in Invoices |-> IF q.cash[i] + q.adj[i] > 0
                                          THEN V[Row(p, i, q.cash[i], q.adj[i], FALSE, None)] ELSE 0]
  OBVIOUS
<1>4. \A i \in Invoices : own[i] = IF q.cash[i] + q.adj[i] > 0
                                   THEN V[Row(p, i, q.cash[i], q.adj[i], FALSE, None)] ELSE 0
  BY <1>3
<1>5. ASSUME NEW i \in Invoices
      PROVE  q.adj[i] \in Nat /\ own[i] = q.adj[i]
  <2>1. q.cash[i] \in Nat /\ q.adj[i] \in Nat
    BY OneCredit
  <2>2. PICK r : r = Row(p, i, q.cash[i], q.adj[i], FALSE, None)
    OBVIOUS
  <2>3. r \in Application /\ r.pay = p /\ r.adj = q.adj[i]
    BY <2>1, <2>2 DEF Row, Application
  <2>4. V[r] = q.adj[i]
    BY <1>1, <2>3 DEF AdjFrom
  <2>5. own[i] = IF q.cash[i] + q.adj[i] > 0 THEN V[r] ELSE 0
    BY <1>3, <2>2
  <2> QED
    BY <2>1, <2>4, <2>5
<1>6. IsFiniteSet(Invoices)
  BY PaymentsAssumption
<1>7. PICK adj : adj = q.adj
  OBVIOUS
<1>8. Total(q.adj) = SumOn(adj, Invoices)
  BY <1>7 DEF Total, SumOver, SumOn
<1>9. Total(q.adj) \in Nat
  <2>1. \A i \in Invoices : adj[i] \in Nat
    BY <1>5, <1>7
  <2> QED
    BY <1>6, <1>8, <2>1, SumOnNonneg
<1>10. SumOn(own, Invoices) = Total(q.adj)
  <2>1. \A i \in Invoices : adj[i] \in Int /\ own[i] = adj[i]
    BY <1>5, <1>7
  <2>2. SumOn(own, Invoices) = SumOn(adj, Invoices)
    BY <1>6, <2>1, SumOnSame
  <2> QED
    BY <1>8, <2>2
<1>11. /\ Typed(Settlement(p, q, d)) /\ SumOn(own, Invoices) \in Int
       /\ Weigh(Settlement(p, q, d), V) = SumOn(own, Invoices) + CreditWeight(p, d, q, V)
       /\ q.credits # {} => CreditRow(p, d, TheCredit(q.credits)) \in Application
  BY <1>2, <1>4, SettlementWeighs
<1>12. CreditWeight(p, d, q, V) = 0
  <2>1. CASE q.credits = {}
    BY <2>1 DEF CreditWeight
  <2>2. CASE q.credits # {}
    <3>1. PICK row : row = CreditRow(p, d, TheCredit(q.credits))
      OBVIOUS
    <3>2. row \in Application /\ row.adj = 0
      BY <1>11, <2>2, <3>1 DEF CreditRow, Row
    <3>3. V[row] = 0
      BY <1>1, <3>2 DEF AdjFrom
    <3> QED
      BY <2>2, <3>1, <3>3 DEF CreditWeight
  <2> QED
    BY <2>1, <2>2
<1> QED
  BY <1>1, <1>9, <1>10, <1>11, <1>12 DEF AdjOn

\* The draw a request posts takes the whole of its credit.
LEMMA DrawnCash ==
    ASSUME NEW p \in Payments, NEW q \in Bodies, NEW d \in DrawIds(p, FromHold(q) # {}), d # p,
           \A c \in q.credits : c.src # p
    PROVE  CashOn(Settlement(p, q, d), d) = CreditIn(q.credits)
<1>1. FromHold(q) # {} /\ d \in Payments
  BY DEF DrawIds
<1>2. PICK c : q.credits = {c} /\ c.src \in Payments /\ c.inv \in Invoices /\ c.amt \in Nat \ {0}
  BY <1>1, OneCredit DEF FromHold
<1>3. TheCredit(q.credits) = c /\ IsKind(c.src, {"hold"}) /\ CreditIn(q.credits) = c.amt
  BY <1>1, <1>2, TheOnlyCredit
<1>4. /\ CashOn(Settlement(p, q, d), d) = (IF d = p THEN Total(q.cash) ELSE 0) + CreditWeight(p, d, q, CashFrom(d))
      /\ q.credits # {} => CreditRow(p, d, TheCredit(q.credits)) \in Application
  BY <1>1, SettlementCash
<1>5. PICK row : row = CreditRow(p, d, c)
  OBVIOUS
<1>6. row \in Application /\ row.pay = d /\ row.amt = c.amt
  BY <1>2, <1>3, <1>4, <1>5 DEF CreditRow, Row
<1>7. CashFrom(d)[row] = c.amt
  BY <1>6 DEF CashFrom
<1>8. CreditWeight(p, d, q, CashFrom(d)) = c.amt
  BY <1>2, <1>3, <1>5, <1>7 DEF CreditWeight
<1> QED
  BY <1>2, <1>3, <1>4, <1>8

\* The discounts of a payment are on rows that are all taken away.
LEMMA DiscountsGone ==
    ASSUME AllPaid, NEW p, NEW gone \in SUBSET DOMAIN apps, \A r \in DOMAIN apps : r.pay = p /\ r.adj > 0 => r \in gone
    PROVE  AdjOn(apps, p) = AdjOn(Copies(gone), p)
<1>1. PICK V, A, C : V = AdjFrom(p) /\ A = apps /\ C = Copies(gone)
  OBVIOUS
<1>2. FiniteBag(A) /\ DOMAIN A \subseteq Application
  BY <1>1 DEF AllPaid, PaidInv, Typed
<1>3. FiniteBag(C) /\ DOMAIN C = gone /\ \A r \in gone : C[r] = A[r]
  BY <1>1, CopiesFit DEF AllPaid
<1>4. \A r \in gone : V[r] \in Int
  BY <1>1, <1>2, AdjIsNat
<1>5. \A r \in DOMAIN A \ gone : V[r] = 0
  BY <1>1, <1>2, Amounts0 DEF AdjFrom
<1>6. PICK f : f = [r \in gone |-> A[r] * V[r]]
  OBVIOUS
<1>7. gone \in SUBSET DOMAIN A /\ \A r \in gone : f[r] = A[r] * V[r]
  BY <1>1, <1>6
<1>8. Weigh(A, V) = SumOn(f, gone)
  BY <1>2, <1>4, <1>5, <1>7, WeighPart
<1>9. gone \in SUBSET DOMAIN C /\ (\A r \in DOMAIN C \ gone : V[r] = 0) /\ \A r \in gone : f[r] = C[r] * V[r]
  BY <1>3, <1>7
<1>10. Weigh(C, V) = SumOn(f, gone)
  BY <1>3, <1>4, <1>9, WeighPart
<1> QED
  BY <1>1, <1>8, <1>10 DEF AdjOn

\* A receipt written over the rows `gone` and the draws `undrawn`.
Settling(e, p, q, d, gone, undrawn) ==
    /\ Settles(p, q, d, gone, undrawn)
    /\ payment[p].kind \in {"none", "payment"} /\ ~Bounced(p) /\ LiveDepositsFor(p) = {}
    /\ \A c \in q.credits : c.src # p
    /\ \A x \in undrawn : IsKind(x, {"draw"}) /\ Releasable(x)
    /\ \A r \in gone : r.pay = p \/ r.inside # None \/ r.pay \in undrawn
    /\ \A r \in DOMAIN apps : r.pay = p /\ r.adj > 0 => r \in gone
    /\ e.gone = Copies(gone) /\ e.new = Settlement(p, q, d)
    /\ e.payment = SettleEffect(p, q, d, gone, undrawn).payment
    /\ e.bounce = <<>> /\ e.refund = <<>> /\ e.deposit = <<>> /\ e.invoice = <<>>
    /\ e.ar = ArOf(p) + refund[p] - (q.amount + Total(q.adj) + (CreditIn(FromHold(q)) - TotalOf(undrawn)))
    /\ e.held = -(CreditIn(FromHold(q)) - TotalOf(undrawn))
    /\ e.clearing = InClearing(q.to, q.amount) - ClearingOf(p)

\* The payment rows it writes: the receipt, a draw, the draws it takes back.
Written(e, p, q, d, undrawn) ==
    /\ d \in Payments /\ p \notin undrawn /\ d \notin undrawn
    /\ DOMAIN e.payment = {p, d} \cup undrawn
    /\ After(e, p) \in PaymentRow /\ After(e, p).kind = "payment" /\ After(e, p).st = "posted"
    /\ After(e, p).to = q.to /\ After(e, p).total = q.amount /\ After(e, p).adj = Total(q.adj)
    /\ d # p => /\ Unused(d) /\ After(e, d) \in PaymentRow /\ After(e, d).kind = "draw" /\ After(e, d).st = "posted"
                /\ After(e, d).to = "bank" /\ After(e, d).total = CreditIn(FromHold(q)) /\ After(e, d).inside = p
                /\ CreditIn(q.credits) = CreditIn(FromHold(q))
                /\ After(e, d).from \in Payments \ ({p, d} \cup undrawn) /\ ~Bounced(After(e, d).from)
                /\ Posted(After(e, d).from)
    /\ d = p => CreditIn(FromHold(q)) = 0
    /\ CreditIn(FromHold(q)) \in Nat /\ q.amount \in Nat /\ Total(q.adj) \in Nat
    /\ \A x \in undrawn : /\ After(e, x) \in PaymentRow /\ After(e, x).kind = "draw" /\ After(e, x).st = "void"
                          /\ After(e, x).to = payment[x].to /\ After(e, x).inside = payment[x].inside

\* What receivePayment and updatePayment write, table by table.
LEMMA SettleWrites ==
    ASSUME AllPaid, KeptInv, NEW p \in Payments, NEW q \in Bodies, NEW d, NEW gone, NEW undrawn \in SUBSET Payments,
           NEW e, Settling(e, p, q, d, gone, undrawn)
    PROVE  Written(e, p, q, d, undrawn)
<1>1. PICK receipt, draw : /\ receipt = NewPayment("payment", q.amount, Total(q.adj), q.to, None, None)
                           /\ draw = NewPayment("draw", CreditIn(q.credits), 0, "bank", TheCredit(q.credits).src, p)
  OBVIOUS
<1>2. /\ d \in DrawIds(p, FromHold(q) # {}) /\ d \in Payments
      /\ d # p => Unused(d) /\ FromHold(q) # {}
      /\ d = p => FromHold(q) = {}
  BY DEF Settling, Settles, DrawIds
<1>3. \A c \in q.credits : c.src # p
  BY DEF Settling
<1>4. p \notin undrawn /\ d \notin undrawn
  BY <1>2 DEF IsKind, Unused, Settling
<1>5. /\ DOMAIN e.payment = {p, d} \cup undrawn
      /\ e.payment[p] = receipt /\ (d # p => e.payment[d] = draw)
      /\ \A x \in undrawn : e.payment[x] = [payment[x] EXCEPT !.st = "void"]
  <2>1. e.payment = Over(Only(p, receipt), Over([x \in {d} \ {p} |-> draw], Voided(undrawn)))
    BY <1>1 DEF SettleEffect, Nothing, Settling
  <2> QED
    BY <1>4, <2>1 DEF Over, Only, Voided
<1>6. After(e, p) = receipt /\ (d # p => After(e, d) = draw)
  BY <1>5 DEF After
<1>7. q.amount \in Nat /\ q.to \in {"clearing", "bank"}
  BY OneCredit, PaymentsAssumption DEF Bodies, Amounts
<1>8. Total(q.adj) \in Nat
  BY <1>2, <1>3, SettlementAdj
<1>9. /\ receipt \in PaymentRow /\ receipt.kind = "payment" /\ receipt.st = "posted" /\ receipt.to = q.to
      /\ receipt.total = q.amount /\ receipt.adj = Total(q.adj)
  <2>1. "payment" \in Kinds /\ None \in Payments \cup {None}
    BY DEF Kinds
  <2> QED
    BY <1>1, <1>7, <1>8, <2>1 DEF NewPayment, PaymentRow
<1>10. ASSUME d # p
       PROVE  /\ draw \in PaymentRow /\ draw.kind = "draw" /\ draw.st = "posted" /\ draw.to = "bank" /\ draw.inside = p
              /\ draw.total = CreditIn(FromHold(q)) /\ CreditIn(q.credits) = CreditIn(FromHold(q))
              /\ CreditIn(FromHold(q)) \in Nat
              /\ draw.from \in Payments \ ({p, d} \cup undrawn) /\ ~Bounced(draw.from) /\ Posted(draw.from)
  <2>1. PICK c : q.credits = {c} /\ c.src \in Payments /\ c.inv \in Invoices /\ c.amt \in Nat \ {0}
    BY <1>2, <1>10, OneCredit DEF FromHold
  <2>2. TheCredit(q.credits) = c /\ IsKind(c.src, {"hold"}) /\ FromHold(q) = {c} /\ CreditIn(q.credits) = c.amt
    BY <1>2, <1>10, <2>1, TheOnlyCredit
  <2>3. CreditIn(FromHold(q)) = c.amt
    BY <2>1, <2>2
  <2>4. /\ draw \in PaymentRow /\ draw.kind = "draw" /\ draw.st = "posted" /\ draw.to = "bank"
        /\ draw.total = c.amt /\ draw.from = c.src /\ draw.inside = p
    <3>1. "draw" \in Kinds /\ c.src \in Payments \cup {None} /\ p \in Payments \cup {None} /\ c.amt \in Nat /\ 0 \in Nat
      BY <2>1 DEF Kinds
    <3>2. draw = NewPayment("draw", c.amt, 0, "bank", c.src, p)
      BY <1>1, <2>2
    <3> QED
      BY <3>1, <3>2 DEF NewPayment, PaymentRow
  <2>5. ~Bounced(c.src) /\ c.amt <= CreditLeft(c.src, gone, undrawn)
    BY <2>1 DEF Settling, Settles, SourcesHold
  <2>6. Posted(c.src)
    BY <2>1, <2>5 DEF CreditLeft
  <2>7. c.src \notin {p, d} \cup undrawn
    BY <1>2, <1>3, <1>10, <2>1, <2>2 DEF IsKind, Unused, Settling
  <2> QED
    BY <2>1, <2>2, <2>3, <2>4, <2>5, <2>6, <2>7
<1>11. d = p => CreditIn(FromHold(q)) = 0
  BY <1>2 DEF CreditIn
<1>12. ASSUME NEW x \in undrawn
       PROVE  /\ After(e, x) \in PaymentRow /\ After(e, x).kind = "draw" /\ After(e, x).st = "void"
              /\ After(e, x).to = payment[x].to /\ After(e, x).inside = payment[x].inside
  <2>1. After(e, x) = [payment[x] EXCEPT !.st = "void"]
    BY <1>5 DEF After
  <2>2. payment[x] \in PaymentRow /\ payment[x].kind = "draw"
    BY DEF KeptInv, PayTypeOK, Settling, IsKind
  <2> QED
    BY <2>1, <2>2 DEF PaymentRow
<1>13. CreditIn(FromHold(q)) \in Nat
  BY <1>10, <1>11
<1> QED
  BY <1>2, <1>4, <1>5, <1>6, <1>7, <1>8, <1>9, <1>10, <1>11, <1>12, <1>13 DEF Written

\* What they write keeps the tables.
LEMMA SettleKept ==
    ASSUME AllPaid, KeptInv, NEW p \in Payments, NEW q \in Bodies, NEW d,
           NEW gone \in SUBSET DOMAIN apps, NEW undrawn \in SUBSET Payments,
           NEW e, Settling(e, p, q, d, gone, undrawn)
    PROVE  TypesFit(e) /\ KeptFits(e)
<1>1. Written(e, p, q, d, undrawn)
  BY SettleWrites
<1>2. /\ d \in DrawIds(p, FromHold(q) # {}) /\ d \in Payments /\ (d = p => FromHold(q) = {})
      /\ \A c \in q.credits : c.src # p
      /\ e.gone = Copies(gone) /\ e.new = Settlement(p, q, d)
      /\ e.bounce = <<>> /\ e.refund = <<>> /\ e.deposit = <<>> /\ e.invoice = <<>>
  BY DEF Settling, Settles, DrawIds
<1>3. /\ FiniteBag(Copies(gone)) /\ WithinBag(Copies(gone), apps) /\ DOMAIN Copies(gone) = gone
      /\ gone \subseteq Application /\ \A r \in gone : RowKept(r)
  BY TakenRows
<1>4. Typed(Settlement(p, q, d))
  BY <1>2, SettlementCash
<1>5. RowsFit(e)
  BY <1>2, <1>3, <1>4 DEF RowsFit
<1>6. TotalOf(undrawn) \in Int /\ ArOf(p) \in Int /\ ClearingOf(p) \in Int /\ refund[p] \in Nat
  <2>1. PICK f : f = [x \in undrawn |-> payment[x].total]
    OBVIOUS
  <2>2. \A x \in undrawn : f[x] \in Int
    BY <2>1 DEF KeptInv, PayTypeOK, PaymentRow
  <2>3. IsFiniteSet(undrawn)
    BY PaymentsAssumption, FS_Subset
  <2>4. SumOn(f, undrawn) \in Int
    BY <2>2, <2>3, SumOnType
  <2>5. TotalOf(undrawn) \in Int
    BY <2>1, <2>4, TotalIsSum
  <2>6. PayTypeOK
    BY DEF KeptInv
  <2> QED
    BY <2>5, <2>6, PartsAreInt DEF PayTypeOK
<1>7. e.ar \in Int /\ e.held \in Int /\ e.clearing \in Int
  BY <1>1, <1>6, SMTT(60) DEF Written, Settling, InClearing
<1>8. TypesFit(e)
  <2>1. \A x \in DOMAIN e.payment : e.payment[x] = After(e, x)
    BY DEF After
  <2>2. \A x \in DOMAIN e.payment : e.payment[x] \in PaymentRow /\ payment[x].kind \in {"none", e.payment[x].kind}
    BY <1>1, <2>1 DEF Written, Settling, Unused, IsKind
  <2>3. DOMAIN e.payment \subseteq Payments
    BY <1>1 DEF Written
  <2> QED
    BY <1>2, <1>7, <2>2, <2>3 DEF TypesFit
<1>9. \A h \in DOMAIN e.payment : e.payment[h].kind = "hold" => e.payment[h].st = "posted"
  <2>1. \A x \in DOMAIN e.payment : e.payment[x] = After(e, x)
    BY DEF After
  <2> QED
    BY <1>1, <2>1 DEF Written
<1>10. \A r \in DOMAIN e.gone : QuietRow(e, r)
  <2>1. ASSUME NEW r \in gone PROVE QuietRow(e, r)
    <3>1. r.pay = p \/ r.inside # None \/ r.pay \in undrawn
      BY DEF Settling
    <3>2. RowKept(r) /\ r.adj \in Nat /\ r \in Application
      BY <1>3, Amounts0
    <3>3. r.inside # None => r.adj = 0 /\ ~IsKind(r.pay, {"draw"})
      BY <3>2 DEF RowKept
    <3> QED
      BY <1>1, <3>1, <3>3 DEF QuietRow, Written
  <2> QED
    BY <1>2, <1>3, <2>1
\* The source of a credit that is no held deposit.
<1>11. \A c \in q.credits : IsKind(c.src, {"payment", "hold", "memo"}) /\ c.src \in Payments
  <2>1. \A c \in q.credits : c.src \in Payments
    BY OneCredit
  <2> QED
    BY <2>1 DEF Settling, Settles, SourcesHold
<1>12. ASSUME NEW r \in DOMAIN e.new
       PROVE  /\ QuietRow(e, r)
              /\ r.adj > 0 => After(e, r.pay).kind = "payment" /\ ~r.later /\ r.inside = None
              /\ r.inside # None => After(e, r.pay).kind # "draw"
  <2>1. \/ r.pay = p /\ ~r.later /\ r.inside = None
        \/ \E c \in q.credits :
              /\ r.adj = 0
              /\ IF IsKind(c.src, {"hold"}) THEN r.pay = d /\ r.inside = None ELSE r.pay = c.src
    BY <1>2, <1>12, SettlementShape
  <2>2. CASE r.pay = p /\ ~r.later /\ r.inside = None
    BY <1>1, <2>2 DEF Written, QuietRow
  <2>3. ASSUME NEW c \in q.credits, r.adj = 0,
               IF IsKind(c.src, {"hold"}) THEN r.pay = d /\ r.inside = None ELSE r.pay = c.src
        PROVE  /\ QuietRow(e, r)
               /\ r.adj > 0 => After(e, r.pay).kind = "payment" /\ ~r.later /\ r.inside = None
               /\ r.inside # None => After(e, r.pay).kind # "draw"
    <3>1. CASE IsKind(c.src, {"hold"})
      BY <1>1, <2>3, <3>1 DEF Written, QuietRow
    <3>2. CASE ~IsKind(c.src, {"hold"})
      <4>1. r.pay = c.src /\ payment[c.src].kind \in {"payment", "memo"} /\ c.src \in Payments
        BY <1>11, <2>3, <3>2 DEF IsKind
      <4>2. c.src \notin DOMAIN e.payment
        BY <1>1, <1>2, <4>1 DEF Written, Unused, Settling, IsKind
      <4>3. After(e, c.src) = payment[c.src]
        BY <4>2 DEF After
      <4> QED
        BY <2>3, <4>1, <4>3 DEF QuietRow, IsKind
    <3> QED
      BY <3>1, <3>2
  <2> QED
    BY <2>1, <2>2, <2>3
<1>13. PaymentKeeps(e, p)
  <2>1. AdjOn(apps, p) = AdjOn(e.gone, p) /\ AdjOn(e.new, p) = Total(q.adj)
    BY <1>2, DiscountsGone, SettlementAdj DEF Settling
  <2>2. AdjOn(apps, p) \in Nat
    BY AdjOnIsNat DEF AllPaid, PaidInv
  <2>3. Total(q.adj) \in Nat
    BY <1>1 DEF Written
  <2> QED
    BY <1>1, <2>1, <2>2, <2>3 DEF PaymentKeeps, Written
<1>14. ASSUME d # p PROVE PaymentKeeps(e, d)
  <2>1. /\ After(e, d).kind = "draw" /\ After(e, d).to = "bank" /\ After(e, d).inside = p /\ After(e, p).kind = "payment"
        /\ After(e, d).from \notin DOMAIN e.payment /\ Posted(After(e, d).from) /\ After(e, d).st = "posted"
        /\ Unused(d) /\ After(e, d).total = CreditIn(q.credits)
    BY <1>1, <1>14 DEF Written
  <2>2. RefundAfter(e, d) = 0 /\ CashOn(apps, d) = 0
    <3>1. refund[d] = 0 /\ CashOn(apps, d) = 0
      BY <1>2, <2>1, UnusedGives, UnusedCredit DEF AllPaid
    <3> QED
      BY <1>2, <3>1 DEF RefundAfter
  <2>3. CashOn(e.gone, d) = 0
    <3>1. \A r \in gone : r.pay # d
      <4>1. \A r \in gone : IsKind(r.pay, {"payment", "draw", "memo"})
        BY DEF AllPaid, PayInv, Kinship
      <4> QED
        BY <2>1, <4>1 DEF IsKind, Unused
    <3>2. PICK G : G = Copies(gone)
      OBVIOUS
    <3>3. FiniteBag(G) /\ DOMAIN G \subseteq Application /\ \A r \in DOMAIN G : r.pay # d
      BY <1>3, <3>1, <3>2
    <3>4. CashOn(G, d) = 0
      BY <3>3, NoCashOf
    <3> QED
      BY <1>2, <3>2, <3>4
  <2>4. CashOn(e.new, d) = CreditIn(q.credits)
    BY <1>2, <1>14, DrawnCash
  <2>5. After(e, After(e, d).from).st = "posted"
    <3>1. PICK x : x = After(e, d).from
      OBVIOUS
    <3>2. After(e, x) = payment[x]
      BY <2>1, <3>1 DEF After
    <3> QED
      BY <2>1, <3>1, <3>2 DEF Posted
  <2>6. CashOn(apps, d) - CashOn(e.gone, d) + CashOn(e.new, d) = After(e, d).total
    <3>1. CreditIn(q.credits) \in Nat
      BY <1>1, <1>14 DEF Written
    <3> QED
      BY <2>1, <2>2, <2>3, <2>4, <3>1
  <2> QED
    BY <2>1, <2>2, <2>5, <2>6 DEF PaymentKeeps
<1>15. ASSUME NEW x \in undrawn PROVE PaymentKeeps(e, x)
  <2>1. /\ After(e, x).kind = "draw" /\ After(e, x).st = "void"
        /\ After(e, x).to = payment[x].to /\ After(e, x).inside = payment[x].inside
    BY <1>1 DEF Written
  <2>2. IsKind(x, {"draw"}) /\ refund[x] = 0
    BY DEF Settling, Releasable
  <2>3. payment[x].to = "bank" /\ (payment[x].inside # None => IsKind(payment[x].inside, {"payment"}))
    BY <2>2 DEF KeptInv, PaymentKept
  <2>4. payment[x].inside # None => After(e, payment[x].inside).kind = "payment"
    <3>1. PICK y : y = payment[x].inside
      OBVIOUS
    <3>2. CASE y \in DOMAIN e.payment
      BY <1>8, <2>3, <3>1, <3>2 DEF TypesFit, After, IsKind
    <3>3. CASE y \notin DOMAIN e.payment
      BY <2>3, <3>1, <3>3 DEF After, IsKind
    <3> QED
      BY <3>1, <3>2, <3>3
  <2>5. RefundAfter(e, x) = 0
    BY <1>2, <2>2 DEF RefundAfter
  <2> QED
    BY <2>1, <2>3, <2>4, <2>5 DEF PaymentKeeps
<1>16. \A x \in DOMAIN e.payment : PaymentKeeps(e, x)
  BY <1>1, <1>13, <1>14, <1>15 DEF Written
<1>17. \A r \in DOMAIN e.gone \cup DOMAIN e.new : QuietRow(e, r)
  BY <1>10, <1>12
<1>18. \A r \in DOMAIN e.new : /\ r.adj > 0 => After(e, r.pay).kind = "payment" /\ ~r.later /\ r.inside = None
                               /\ r.inside # None => After(e, r.pay).kind # "draw"
  BY <1>12
<1> QED
  BY <1>2, <1>5, <1>8, <1>9, <1>16, <1>17, <1>18, QuietKept

\* What a settlement moves: the receipt at p, the draw at d, the draws of undrawn.
LEMMA SettleBooks ==
    ASSUME AllPaid, KeptInv, NEW p \in Payments, NEW q \in Bodies, NEW d,
           NEW gone \in SUBSET DOMAIN apps, NEW undrawn \in SUBSET Payments,
           NEW e, Settling(e, p, q, d, gone, undrawn)
    PROVE  BooksFit(e)
<1>1. Written(e, p, q, d, undrawn) /\ TypesFit(e) /\ PayTypeOK
  BY SettleWrites, SettleKept DEF KeptInv
<1>2. /\ e.bounce = <<>> /\ e.refund = <<>> /\ e.deposit = <<>> /\ e.invoice = <<>>
      /\ payment[p].kind \in {"none", "payment"} /\ ~Bounced(p) /\ LiveDepositsFor(p) = {}
      /\ e.ar = ArOf(p) + refund[p] - (q.amount + Total(q.adj) + (CreditIn(FromHold(q)) - TotalOf(undrawn)))
      /\ e.held = -(CreditIn(FromHold(q)) - TotalOf(undrawn))
      /\ e.clearing = InClearing(q.to, q.amount) - ClearingOf(p)
      /\ \A x \in undrawn : IsKind(x, {"draw"}) /\ Releasable(x)
  BY DEF Settling
<1>3. PICK b, out, amount, adj : /\ b = CreditIn(FromHold(q)) /\ out = TotalOf(undrawn)
                                 /\ amount = q.amount /\ adj = Total(q.adj)
  OBVIOUS
<1>4. b \in Int /\ amount \in Nat /\ adj \in Nat
  BY <1>1, <1>3 DEF Written
<1>5. /\ d \in Payments /\ p \notin undrawn /\ d \notin undrawn /\ DOMAIN e.payment = {p, d} \cup undrawn
      /\ After(e, p).kind = "payment" /\ After(e, p).st = "posted" /\ After(e, p).to = q.to
      /\ After(e, p).total = amount /\ After(e, p).adj = adj
      /\ d = p => b = 0
      /\ d # p => /\ Unused(d) /\ After(e, d).kind = "draw" /\ After(e, d).st = "posted" /\ After(e, d).to = "bank"
                  /\ After(e, d).total = b /\ ~Bounced(After(e, d).from)
  BY <1>1, <1>3 DEF Written
<1>6. \A x \in Payments : /\ ArOf(x) \in Int /\ HeldOf(x) \in Int /\ ClearingOf(x) \in Int /\ refund[x] \in Nat
                          /\ ArAfter(e, x) \in Int /\ HeldAfter(e, x) \in Int /\ ClearingAfter(e, x) \in Int
                          /\ RefundAfter(e, x) = refund[x]
  BY <1>1, <1>2, PartsAreInt, AfterAreInt DEF PayTypeOK, RefundAfter
\* At the receipt.
<1>7. /\ ArAfter(e, p) = amount + adj - refund[p] /\ HeldAfter(e, p) = 0 /\ HeldOf(p) = 0
      /\ ClearingAfter(e, p) = InClearing(q.to, amount)
  <2>1. StandsAfter(e, p) /\ ClearingAfter(e, p) = InClearing(After(e, p).to, After(e, p).total)
    BY <1>2, <1>5, WrittenRow
  <2>2. HeldOf(p) = 0
    <3>1. payment[p].kind # "hold" /\ payment[p].kind # "draw"
      BY <1>2
    <3> QED
      BY <3>1 DEF HeldOf, HeldGive
  <2> QED
    BY <1>4, <1>5, <1>6, <2>1, <2>2 DEF ArAfter, HeldAfter, ArGive, HeldGive
\* At the draw.
<1>8. d # p => /\ ArOf(d) = 0 /\ HeldOf(d) = 0 /\ ClearingOf(d) = 0
               /\ ArAfter(e, d) = b /\ HeldAfter(e, d) = -b /\ ClearingAfter(e, d) = 0
  <2>1. SUFFICES ASSUME d # p
                 PROVE  /\ ArOf(d) = 0 /\ HeldOf(d) = 0 /\ ClearingOf(d) = 0
                        /\ ArAfter(e, d) = b /\ HeldAfter(e, d) = -b /\ ClearingAfter(e, d) = 0
    OBVIOUS
  <2>2. ~Bounced(d) /\ LiveDepositsFor(d) = {} /\ ArOf(d) = 0 /\ HeldOf(d) = 0 /\ ClearingOf(d) = 0
    BY <1>5, <2>1, UnusedGives
  <2>3. StandsAfter(e, d) /\ ClearingAfter(e, d) = InClearing(After(e, d).to, After(e, d).total)
    BY <1>2, <1>5, <2>1, <2>2, WrittenRow
  <2> QED
    BY <1>5, <2>1, <2>2, <2>3 DEF ArAfter, HeldAfter, ArGive, HeldGive, InClearing
\* At the draws taken back.
<1>9. ASSUME NEW x \in undrawn
      PROVE  /\ payment[x].total \in Nat /\ ArOf(x) = payment[x].total /\ HeldOf(x) = -payment[x].total
             /\ ClearingOf(x) = 0 /\ ArAfter(e, x) = 0 /\ HeldAfter(e, x) = 0 /\ ClearingAfter(e, x) = 0
  <2>1. IsKind(x, {"draw"}) /\ Releasable(x) /\ payment[x].kind = "draw" /\ x \in Payments
    BY <1>2 DEF IsKind
  <2>2. Posted(x) /\ ~Bounced(x) /\ LiveDepositsFor(x) = {} /\ ~Bounced(payment[x].from)
    BY <2>1, ReleasableFacts
  <2>3. payment[x].to = "bank"
    BY <2>1 DEF KeptInv, PaymentKept
  <2>4. /\ ArOf(x) = ArGive(payment[x], refund[x]) /\ HeldOf(x) = HeldGive(payment[x], refund[x])
        /\ ClearingOf(x) = InClearing(payment[x].to, payment[x].total) /\ payment[x].total \in Nat
    BY <1>1, <2>1, <2>2, PostedGives
  <2>5. After(e, x).st = "void"
    BY <1>1 DEF Written
  <2> QED
    BY <2>1, <2>3, <2>4, <2>5 DEF ArGive, HeldGive, InClearing, ArAfter, HeldAfter, ClearingAfter, StandsAfter
<1>10. \A x \in Payments \ ({p, d} \cup undrawn) :
          ArAfter(e, x) = ArOf(x) /\ HeldAfter(e, x) = HeldOf(x) /\ ClearingAfter(e, x) = ClearingOf(x)
  BY <1>2, <1>5, LeftAlone
<1>11. PICK U, v, w, a : /\ U = undrawn /\ v = [x \in U |-> -payment[x].total] /\ w = [x \in U |-> payment[x].total]
                         /\ a = ArAfter(e, p) - ArOf(p)
  OBVIOUS
<1>12. \A x \in U : v[x] \in Int /\ w[x] \in Int /\ v[x] = -w[x] /\ v[x] = -payment[x].total /\ w[x] = payment[x].total
  BY <1>9, <1>11
<1>13. SumOn(w, U) = out /\ SumOn(v, U) = -out /\ out \in Int
  <2>1. IsFiniteSet(U)
    BY <1>11, PaymentsAssumption, FS_Subset
  <2>2. SumOn(w, U) \in Int
    BY <1>12, <2>1, SumOnType
  <2>3. \A x \in U : w[x] \in Int /\ v[x] = -w[x]
    BY <1>12
  <2>4. SumOn(v, U) = -SumOn(w, U)
    BY <2>1, <2>3, SumOnNegated
  <2>5. SumOn(w, U) = out
    BY <1>3, <1>11, TotalIsSum
  <2> QED
    BY <2>2, <2>4, <2>5
<1>14. a \in Int /\ -b \in Int /\ U \in SUBSET Payments
  BY <1>4, <1>6, <1>11
<1>15. ArFits(e)
  <2>1. ASSUME NEW x \in Payments PROVE ArAfter(e, x) = ArOf(x) + Shift(x, p, a, d, b, U, v)
    <3>1. CASE x = p
      BY <1>4, <1>5, <1>6, <1>11, <3>1 DEF Shift
    <3>2. CASE x # p /\ x = d
      BY <1>4, <1>5, <1>8, <1>11, <3>2 DEF Shift
    <3>3. CASE x \in undrawn
      BY <1>5, <1>9, <1>11, <1>12, <3>3 DEF Shift
    <3>4. CASE x \notin {p, d} \cup undrawn
      BY <1>6, <1>10, <1>11, <3>4 DEF Shift
    <3> QED
      BY <3>1, <3>2, <3>3, <3>4
  <2>2. Moves(p, a, d, b, U, v)
    BY <1>4, <1>5, <1>12, <1>14 DEF Moves
  <2>3. ArMoves(e, p, a, d, b, U, v)
    BY <2>1, <2>2 DEF ArMoves
  <2>4. e.ar = -(a + b + SumOn(v, U))
    <3>1. e.ar = ArOf(p) + refund[p] - (amount + adj + (b - out))
      BY <1>2, <1>3
    <3> QED
      BY <1>4, <1>6, <1>7, <1>11, <1>13, <3>1
  <2> QED
    BY <1>1, <1>2, <2>3, <2>4, ArShifts
<1>16. HeldFits(e)
  <2>1. PICK c : c = -b
    OBVIOUS
  <2>2. ASSUME NEW x \in Payments PROVE HeldAfter(e, x) = HeldOf(x) + Shift(x, p, 0, d, c, U, w)
    <3>1. CASE x = p
      BY <1>4, <1>5, <1>7, <1>11, <2>1, <3>1 DEF Shift
    <3>2. CASE x # p /\ x = d
      BY <1>4, <1>5, <1>8, <1>11, <2>1, <3>2 DEF Shift
    <3>3. CASE x \in undrawn
      BY <1>5, <1>9, <1>11, <1>12, <3>3 DEF Shift
    <3>4. CASE x \notin {p, d} \cup undrawn
      BY <1>6, <1>10, <1>11, <3>4 DEF Shift
    <3> QED
      BY <3>1, <3>2, <3>3, <3>4
  <2>3. Moves(p, 0, d, c, U, w)
    BY <1>4, <1>5, <1>12, <1>14, <2>1 DEF Moves
  <2>4. HeldMoves(e, p, 0, d, c, U, w)
    BY <2>2, <2>3 DEF HeldMoves
  <2>5. e.held = 0 + c + SumOn(w, U)
    <3>1. e.held = -(b - out)
      BY <1>2, <1>3
    <3> QED
      BY <1>4, <1>13, <2>1, <3>1
  <2> QED
    BY <1>1, <2>4, <2>5, HeldShifts
<1>17. ClearingFits(e)
  <2>1. PICK z, P, c : z = [x \in {p} |-> c] /\ P = {p} /\ c = ClearingAfter(e, p) - ClearingOf(p)
    <3>1. PICK n : n = ClearingAfter(e, p) - ClearingOf(p)
      OBVIOUS
    <3>2. [x \in {p} |-> n] = [x \in {p} |-> n]
      OBVIOUS
    <3> QED
      BY <3>1, <3>2
  <2>2. c \in Int /\ P \in SUBSET Payments /\ (\A x \in P : z[x] \in Int) /\ z[p] = c
    BY <1>6, <2>1
  <2>3. ASSUME NEW x \in Payments PROVE ClearingAfter(e, x) = ClearingOf(x) + IF x \in P THEN z[x] ELSE 0
    <3>1. CASE x = p
      BY <1>6, <2>1, <2>2, <3>1
    <3>2. CASE x # p
      <4>1. ClearingAfter(e, x) = ClearingOf(x)
        BY <1>8, <1>9, <1>10, <3>2
      <4> QED
        BY <1>6, <2>1, <3>2, <4>1
    <3> QED
      BY <3>1, <3>2
  <2>4. e.clearing = SumOn(z, P)
    <3>1. SumOn(z, P) = c
      BY <2>1, <2>2, SumOnSingle
    <3> QED
      BY <1>2, <1>3, <1>7, <2>1, <3>1
  <2> QED
    BY <1>1, <2>2, <2>3, <2>4, ClearingShifts
<1> QED
  BY <1>15, <1>16, <1>17 DEF BooksFit

\* receivePayment posts what the payment and the draw inside it give.
LEMMA ReceiveAccounts ==
    ASSUME AllPaid, KeptInv, NEW p \in Payments, NEW q \in Bodies, NEW d, Receive(p, q, d)
    PROVE  \E e : AccountsFit(e) /\ Commit(e)
<1>1. PICK e, gone, undrawn : e = SettleEffect(p, q, d, gone, undrawn) /\ gone = {} /\ undrawn = {}
  OBVIOUS
<1>2. Settles(p, q, d, gone, undrawn) /\ Commit(e) /\ Unused(p) /\ payment[p].kind = "none"
  BY <1>1 DEF Receive, Unused
<1>3. /\ e.gone = Copies(gone) /\ e.new = Settlement(p, q, d)
      /\ e.payment = SettleEffect(p, q, d, gone, undrawn).payment
      /\ e.bounce = <<>> /\ e.refund = <<>> /\ e.deposit = <<>> /\ e.invoice = <<>>
      /\ e.ar = -(q.amount + Total(q.adj) + (CreditIn(FromHold(q)) - TotalOf(undrawn)))
      /\ e.held = -(CreditIn(FromHold(q)) - TotalOf(undrawn)) /\ e.clearing = InClearing(q.to, q.amount)
  BY <1>1 DEF SettleEffect, Nothing
<1>4. ~Bounced(p) /\ LiveDepositsFor(p) = {} /\ refund[p] = 0 /\ ArOf(p) = 0 /\ ClearingOf(p) = 0
  BY <1>2, UnusedGives
<1>5. \A c \in q.credits : c.src # p
  BY <1>2 DEF Settles, SourcesHold, IsKind
<1>6. \A r \in DOMAIN apps : r.pay # p
  BY <1>2 DEF AllPaid, PayInv, Kinship, IsKind
<1>7. Settling(e, p, q, d, gone, undrawn)
  <2>1. PICK m, n, c : /\ m = q.amount + Total(q.adj) + (CreditIn(FromHold(q)) - TotalOf(undrawn))
                       /\ n = InClearing(q.to, q.amount) /\ c = CreditIn(FromHold(q))
    OBVIOUS
  <2>2. q.amount \in Nat /\ Total(q.adj) \in Nat
    <3>1. d \in DrawIds(p, FromHold(q) # {})
      BY <1>2 DEF Settles
    <3> QED
      BY <1>5, <3>1, SettlementAdj, PaymentsAssumption DEF Bodies, Amounts
  <2>3. TotalOf(undrawn) = 0
    <3>1. TotalOf(undrawn) = SumOn([x \in undrawn |-> payment[x].total], undrawn)
      BY TotalIsSum
    <3> QED
      BY <1>1, <3>1, SumOnEmpty
  <2>4. c \in Int
    <3>1. CASE q.credits = {}
      BY <2>1, <3>1 DEF CreditIn, FromHold
    <3>2. CASE q.credits # {}
      <4>1. PICK k : q.credits = {k} /\ k.amt \in Nat \ {0}
        BY <3>2, OneCredit
      <4>2. FromHold(q) = {} \/ FromHold(q) = {k}
        BY <4>1 DEF FromHold
      <4> QED
        BY <2>1, <4>1, <4>2 DEF CreditIn, TheCredit
    <3> QED
      BY <3>1, <3>2
  <2>5. m \in Int /\ n \in Int
    BY <2>1, <2>2, <2>3, <2>4 DEF InClearing
  <2>6. e.ar = ArOf(p) + refund[p] - (q.amount + Total(q.adj) + (CreditIn(FromHold(q)) - TotalOf(undrawn)))
    BY <1>3, <1>4, <2>1, <2>5
  <2>7. e.clearing = InClearing(q.to, q.amount) - ClearingOf(p)
    BY <1>3, <1>4, <2>1, <2>5
  <2>8. /\ \A x \in undrawn : IsKind(x, {"draw"}) /\ Releasable(x)
        /\ \A r \in gone : r.pay = p \/ r.inside # None \/ r.pay \in undrawn
        /\ \A r \in DOMAIN apps : r.pay = p /\ r.adj > 0 => r \in gone
    BY <1>1, <1>6
  <2> QED
    BY <1>2, <1>3, <1>4, <1>5, <2>6, <2>7, <2>8 DEF Settling
<1>8. gone \in SUBSET DOMAIN apps /\ undrawn \in SUBSET Payments
  BY <1>1
<1>9. KeptFits(e)
  BY <1>7, <1>8, SettleKept
<1>10. BooksFit(e)
  BY <1>7, <1>8, SettleBooks
<1> QED
  BY <1>2, <1>3, <1>7, <1>9, <1>10 DEF AccountsFit, BooksMove, Settling

\* updatePayment posts the difference, its old draws taken back.
LEMMA UpdatePaymentAccounts ==
    ASSUME AllPaid, KeptInv, NEW p \in Payments, NEW q \in Bodies, NEW d, UpdatePayment(p, q, d)
    PROVE  \E e : AccountsFit(e) /\ Commit(e)
<1>1. PICK gone, undrawn, full : /\ gone = SetAside(p) /\ undrawn = DrawsInside(p)
                                 /\ full = SettleEffect(p, q, d, gone, undrawn)
  OBVIOUS
<1>2. PICK e : e = [full EXCEPT !.ar = @ + payment[p].total + payment[p].adj,
                                !.clearing = @ - InClearing(payment[p].to, payment[p].total)]
  OBVIOUS
<1>3. Settles(p, q, d, gone, undrawn) /\ Commit(e)
  BY <1>1, <1>2 DEF UpdatePayment, MayUpdatePayment, UpdatePaymentEffect
<1>4. /\ payment[p].kind = "payment" /\ Posted(p) /\ ~Bounced(p) /\ LiveDepositsFor(p) = {}
      /\ \A c \in q.credits : c.src # p
      /\ \A x \in undrawn : IsKind(x, {"draw"}) /\ Releasable(x)
  BY <1>1 DEF UpdatePayment, MayUpdatePayment, UpdatePaymentEffect, Free, IsKind, DrawsInside
<1>5. undrawn \in SUBSET Payments /\ gone \in SUBSET DOMAIN apps
  BY <1>1 DEF SetAside, RowsOf, LiveApplications, CreditsAppliedIn, DrawsInside
<1>6. PICK m, c, n, o : /\ m = q.amount + Total(q.adj) + (CreditIn(FromHold(q)) - TotalOf(undrawn))
                        /\ c = CreditIn(FromHold(q)) - TotalOf(undrawn)
                        /\ n = InClearing(q.to, q.amount) /\ o = InClearing(payment[p].to, payment[p].total)
  OBVIOUS
<1>7. /\ full.gone = Copies(gone) /\ full.new = Settlement(p, q, d)
      /\ full.bounce = <<>> /\ full.refund = <<>> /\ full.deposit = <<>> /\ full.invoice = <<>>
      /\ full.ar = -m /\ full.held = -c /\ full.clearing = n
      /\ full.payment = SettleEffect(p, q, d, gone, undrawn).payment
      /\ DOMAIN full = {"gone", "new", "invoice", "payment", "bounce", "refund", "deposit", "ar", "held", "clearing"}
  BY <1>1, <1>6 DEF SettleEffect, Nothing
<1>8. /\ e.gone = Copies(gone) /\ e.new = Settlement(p, q, d)
      /\ e.payment = SettleEffect(p, q, d, gone, undrawn).payment
      /\ e.bounce = <<>> /\ e.refund = <<>> /\ e.deposit = <<>> /\ e.invoice = <<>>
      /\ e.ar = -m + payment[p].total + payment[p].adj /\ e.held = -c /\ e.clearing = n - o
  BY <1>2, <1>6, <1>7
<1>9. /\ ArOf(p) = payment[p].total + payment[p].adj - refund[p] /\ ClearingOf(p) = o
      /\ payment[p].total \in Nat /\ payment[p].adj \in Nat /\ refund[p] \in Nat
  BY <1>4, <1>6, PostedGives DEF ArGive, KeptInv
<1>10. m \in Int
  <2>1. q.amount \in Nat /\ Total(q.adj) \in Nat
    <3>1. d \in DrawIds(p, FromHold(q) # {})
      BY <1>3 DEF Settles
    <3> QED
      BY <1>4, <3>1, SettlementAdj, PaymentsAssumption DEF Bodies, Amounts
  <2>2. TotalOf(undrawn) \in Int
    <3>1. PICK f : f = [x \in undrawn |-> payment[x].total]
      OBVIOUS
    <3>2. \A x \in undrawn : f[x] \in Int
      BY <1>5, <3>1 DEF KeptInv, PayTypeOK, PaymentRow
    <3>3. IsFiniteSet(undrawn)
      BY <1>5, PaymentsAssumption, FS_Subset
    <3>4. SumOn(f, undrawn) \in Int
      BY <3>2, <3>3, SumOnType
    <3> QED
      BY <3>1, <3>4, TotalIsSum
  <2>3. CreditIn(FromHold(q)) \in Int
    <3>1. CASE q.credits = {}
      BY <3>1 DEF CreditIn, FromHold
    <3>2. CASE q.credits # {}
      <4>1. PICK k : q.credits = {k} /\ k.amt \in Nat \ {0}
        BY <3>2, OneCredit
      <4>2. FromHold(q) = {} \/ FromHold(q) = {k}
        BY <4>1 DEF FromHold
      <4> QED
        BY <4>1, <4>2 DEF CreditIn, TheCredit
    <3> QED
      BY <3>1, <3>2
  <2> QED
    BY <1>6, <2>1, <2>2, <2>3
<1>11. \A r \in DOMAIN apps : r.pay = p /\ r.adj > 0 => r \in gone
  <2>1. ASSUME NEW r \in DOMAIN apps, r.pay = p, r.adj > 0 PROVE r \in gone
    <3>1. ~r.later
      BY <2>1 DEF KeptInv, RowKept
    <3>2. r.by = None
      <4>1. SUFFICES ASSUME r.by # None PROVE FALSE
        OBVIOUS
      <4>2. Bounced(r.by) /\ Owned(r, r.by)
        BY <4>1 DEF AllPaid, PayInv, BouncesStand
      <4> QED
        BY <1>4, <2>1, <4>2 DEF Owned, IsKind
    <3>3. r \in LiveApplications(p) \ LaterRows(p)
      BY <2>1, <3>1, <3>2 DEF LiveApplications, LaterRows
    <3> QED
      BY <1>1, <3>3 DEF SetAside
  <2> QED
    BY <2>1
<1>12. \A r \in gone : r.pay = p \/ r.inside # None \/ r.pay \in undrawn
  <2>1. \A r \in gone : r.pay = p \/ r.inside = p \/ r.pay \in undrawn \/ r.inside \in undrawn
    BY <1>1 DEF SetAside, RowsOf, LiveApplications, CreditsAppliedIn
  <2>2. None \notin Payments
    BY PaymentsAssumption
  <2> QED
    BY <1>5, <2>1, <2>2
<1>13. Settling(e, p, q, d, gone, undrawn)
  <2>1. e.ar = ArOf(p) + refund[p] - (q.amount + Total(q.adj) + (CreditIn(FromHold(q)) - TotalOf(undrawn)))
    <3>1. e.ar = ArOf(p) + refund[p] - m
      BY <1>8, <1>9, <1>10
    <3> QED
      BY <1>6, <3>1
  <2>2. /\ e.held = -(CreditIn(FromHold(q)) - TotalOf(undrawn))
        /\ e.clearing = InClearing(q.to, q.amount) - ClearingOf(p)
    BY <1>6, <1>8, <1>9
  <2> QED
    BY <1>3, <1>4, <1>8, <1>11, <1>12, <2>1, <2>2 DEF Settling
<1>14. KeptFits(e)
  BY <1>5, <1>13, SettleKept
<1>15. BooksFit(e)
  BY <1>5, <1>13, SettleBooks
<1> QED
  BY <1>3, <1>8, <1>13, <1>14, <1>15 DEF AccountsFit, BooksMove, Settling

-----------------------------------------------------------------------------
(* The control accounts tie out.                                           *)

\* Every step of the next-state relation commits an effect that keeps the
\* tables and the accounts.
LEMMA StepAccounts ==
    ASSUME AllPaid, KeptInv, PaymentsNext
    PROVE  \E e : AccountsFit(e) /\ Commit(e)
<1>1. CASE ReceiptStep
  <2>1. CASE \E p \in Payments, q \in Bodies : \E d \in DrawIds(p, FromHold(q) # {}) : Receive(p, q, d)
    BY <2>1, ReceiveAccounts
  <2>2. CASE \E p \in Payments, q \in Bodies : \E d \in DrawIds(p, FromHold(q) # {}) : UpdatePayment(p, q, d)
    BY <2>2, UpdatePaymentAccounts
  <2>3. CASE \E p \in Payments : VoidPayment(p)
    BY <2>3, VoidPaymentAccounts
  <2> QED
    BY <1>1, <2>1, <2>2, <2>3 DEF ReceiptStep, OfKind
<1>2. Amounts \subseteq Int /\ 0 \in Int
  BY PaymentsAssumption DEF Amounts
<1>3. CASE HoldStep
  BY <1>2, <1>3, HoldAccounts DEF HoldStep
<1>4. CASE CreditStep
  <2>1. PICK p \in Payments : \/ \E i \in Invoices, x \in Amounts : \E d \in DrawIds(p, IsKind(p, {"hold"})) : ApplyCredit(p, i, x, d)
                              \/ \E r \in DOMAIN apps : Unapply(p, r)
    BY <1>4 DEF CreditStep
  <2>2. CASE \E r \in DOMAIN apps : Unapply(p, r)
    BY <2>2, UnapplyAccounts
  <2>3. CASE \E i \in Invoices, x \in Amounts : \E d \in DrawIds(p, IsKind(p, {"hold"})) : ApplyCredit(p, i, x, d)
    <3>1. PICK i \in Invoices, x \in Amounts : \E d \in DrawIds(p, IsKind(p, {"hold"})) : ApplyCredit(p, i, x, d)
      BY <2>3
    <3>2. PICK d \in DrawIds(p, IsKind(p, {"hold"})) : ApplyCredit(p, i, x, d)
      BY <3>1
    <3>3. x \in Int
      BY <1>2
    <3> QED
      BY <3>2, <3>3, ApplyCreditAccounts
  <2> QED
    BY <2>1, <2>2, <2>3
<1>5. CASE BounceStep
  BY <1>5, BounceAccounts DEF BounceStep
<1>6. CASE MemoStep
  <2>1. CASE \E m \in Payments, total \in Amounts : UpdateMemo(m, total)
    BY <1>2, <2>1, UpdateMemoAccounts
  <2>2. CASE \E m \in Payments : VoidMemo(m)
    BY <2>2, VoidMemoAccounts
  <2>3. CASE \E m \in Payments, total \in Amounts, i \in Invoices : \E on \in {{}, {i}} : CreateMemo(m, total, on)
    BY <1>2, <2>3, CreateMemoAccounts
  <2> QED
    BY <1>6, <2>1, <2>2, <2>3 DEF MemoStep
<1>7. CASE RefundStep
  <2>1. PICK p \in Payments : VoidRefund(p) \/ \E x \in Amounts : Refund(p, x)
    BY <1>7 DEF RefundStep
  <2>2. PICK x \in Int : Refund(p, x) \/ VoidRefund(p)
    BY <1>2, <2>1
  <2> QED
    BY <2>2, RefundAccounts
<1>8. CASE DepositStep
  <2>1. PICK d \in Deposits : \/ \E items \in SUBSET Payments : CreateDeposit(d, items) \/ UpdateDeposit(d, items)
                              \/ VoidDeposit(d)
    BY <1>8 DEF DepositStep
  <2>2. {} \in SUBSET Payments
    OBVIOUS
  <2>3. PICK items \in SUBSET Payments : CreateDeposit(d, items) \/ UpdateDeposit(d, items) \/ VoidDeposit(d)
    BY <2>1, <2>2
  <2> QED
    BY <2>3, DepositAccounts
<1>9. CASE InvoiceStep
  <2>1. PICK i \in Invoices : VoidInvoice(i) \/ \E total \in Amounts : UpdateInvoice(i, total)
    BY <1>9 DEF InvoiceStep
  <2>2. PICK total \in Int : UpdateInvoice(i, total) \/ VoidInvoice(i)
    BY <1>2, <2>1
  <2> QED
    BY <2>2, InvoiceAccounts
<1> QED
  BY <1>1, <1>3, <1>4, <1>5, <1>6, <1>7, <1>8, <1>9 DEF PaymentsNext

\* At first there is no payment.
LEMMA KeptInit == PaymentsInit => KeptInv
<1> SUFFICES ASSUME PaymentsInit PROVE KeptInv
  OBVIOUS
<1>1. /\ \A p \in Payments : payment[p] = NoPayment /\ bounce[p] = NoBounce /\ refund[p] = 0
      /\ DOMAIN apps = {} /\ IsABag(apps)
  <2>1. DOMAIN EmptyBag = {} /\ IsABag(EmptyBag)
    BY DEF EmptyBag, SetToBag, IsABag
  <2> QED
    BY <2>1 DEF PaymentsInit
<1>2. PayTypeOK
  <2>1. invoice \in [Invoices -> InvoiceRow]
    BY PaymentsAssumption DEF PaymentsInit, InvoiceRow
  <2>2. NoPayment \in PaymentRow /\ NoBounce \in Bounce
    BY DEF NoPayment, PaymentRow, NoBounce, Bounce
  <2>3. payment \in [Payments -> PaymentRow] /\ bounce \in [Payments -> Bounce] /\ refund \in [Payments -> Nat]
    BY <2>2 DEF PaymentsInit
  <2>4. deposit \in [Deposits -> [st : {"none", "posted", "void"}, items : SUBSET Payments]]
    BY DEF PaymentsInit
  <2>5. books \in [ar : Int, held : Int, clearing : Int]
    <3>1. Cardinality(Invoices) \in Nat /\ InvoiceTotal \in Nat
      BY PaymentsAssumption, FS_CardinalityType
    <3>2. InvoiceTotal * Cardinality(Invoices) \in Int
      BY <3>1
    <3> QED
      BY <3>2 DEF PaymentsInit
  <2> QED
    BY <1>1, <2>1, <2>3, <2>4, <2>5 DEF PayTypeOK
<1>3. \A p \in Payments : PaymentKept(p)
  BY <1>1 DEF PaymentKept, IsKind, Posted, Bounced, NoPayment, NoBounce
<1> QED
  BY <1>1, <1>2, <1>3 DEF KeptInv

\* A product with one more.
LEMMA OneMore == \A c, n \in Int : c * (n + 1) = c * n + c
OBVIOUS

\* A sum of one constant.
LEMMA SumOnConstant ==
    ASSUME NEW S, IsFiniteSet(S), NEW c \in Int, NEW f, \A x \in S : f[x] = c
    PROVE  SumOn(f, S) = c * Cardinality(S)
<1>1. PICK D : D = {T \in SUBSET S : SumOn(f, T) = c * Cardinality(T)}
  OBVIOUS
<1>2. {} \in D
  <2>1. Cardinality({}) = 0 /\ c * 0 = 0
    BY FS_EmptySet
  <2> QED
    BY <1>1, <2>1, SumOnEmpty
<1>3. ASSUME NEW T \in SUBSET S, NEW x \in S, T \in D, x \notin T
      PROVE  T \cup {x} \in D
  <2>1. IsFiniteSet(T) /\ \A y \in T : f[y] \in Int
    BY FS_Subset
  <2>2. Cardinality(T) \in Int /\ Cardinality(T \cup {x}) = Cardinality(T) + 1
    <3>1. Cardinality(T) \in Nat
      BY <2>1, FS_CardinalityType
    <3>2. Cardinality(T \cup {x}) = Cardinality(T) + 1
      BY <1>3, <2>1, FS_AddElement
    <3> QED
      BY <3>1, <3>2
  <2>3. SumOn(f, T \cup {x}) = SumOn(f, T) + f[x]
    BY <1>3, <2>1, SumOnAdd
  <2>4. c * (Cardinality(T) + 1) = c * Cardinality(T) + c
    BY <2>2, OneMore
  <2>5. SumOn(f, T \cup {x}) = c * Cardinality(T \cup {x})
    BY <1>1, <1>3, <2>2, <2>3, <2>4
  <2> QED
    BY <1>1, <2>5
<1>4. SUBSET S \subseteq D
  BY <1>2, <1>3, SetInduction
<1>5. S \in D
  BY <1>4
<1> QED
  BY <1>1, <1>5

\* At first Accounts Receivable is what the invoices bill.
LEMMA BooksInit == PaymentsInit => BooksInv
<1> SUFFICES ASSUME PaymentsInit PROVE BooksInv
  OBVIOUS
<1>1. IsFiniteSet(Invoices) /\ IsFiniteSet(Payments) /\ InvoiceTotal \in Int
  BY PaymentsAssumption
<1>2. \A p \in Payments : ~Posted(p)
  BY DEF PaymentsInit, NoPayment, Posted
<1>3. PICK f : f = [i \in Invoices |-> BilledOf(invoice[i])]
  OBVIOUS
<1>4. \A i \in Invoices : f[i] = InvoiceTotal
  BY <1>3 DEF PaymentsInit, BilledOf
<1>5. SumOn(f, Invoices) = InvoiceTotal * Cardinality(Invoices)
  BY <1>1, <1>4, SumOnConstant
<1>6. PICK g, h, k, l : /\ g = [p \in Payments |-> ArOf(p)] /\ h = [p \in Payments |-> HeldOf(p)]
                        /\ k = [p \in Payments |-> ClearingOf(p)]
                        /\ l = [p \in Payments |-> RedrawnOf(payment[p], refund[p])]
  OBVIOUS
<1>7. \A p \in Payments : g[p] = 0 /\ h[p] = 0 /\ k[p] = 0 /\ l[p] = 0
  BY <1>2, <1>6 DEF ArOf, HeldOf, ClearingOf, Stands, RedrawnOf, PaymentsInit
<1>8. SumOn(g, Payments) = 0 /\ SumOn(h, Payments) = 0 /\ SumOn(k, Payments) = 0 /\ SumOn(l, Payments) = 0
  BY <1>1, <1>7, SumOnZero
<1>9. Billed = InvoiceTotal * Cardinality(Invoices) /\ Settled = 0 /\ Held = 0 /\ Clearing = 0 /\ Redrawn = 0
  BY <1>3, <1>5, <1>6, <1>8 DEF Billed, Settled, Held, Clearing, Redrawn
<1>10. books.ar = InvoiceTotal * Cardinality(Invoices) /\ books.held = 0 /\ books.clearing = 0
  BY DEF PaymentsInit
<1>11. Cardinality(Invoices) \in Int
  BY <1>1, FS_CardinalityType
<1>12. PICK n \in Int : n = InvoiceTotal * Cardinality(Invoices)
  BY <1>1, <1>11, Product
<1> QED
  BY <1>9, <1>10, <1>12 DEF BooksInv

\* Every step keeps the tables.
LEMMA KeptNext == AllPaid /\ AllPaid' /\ KeptInv /\ [PaymentsNext]_vars => KeptInv'
<1> SUFFICES ASSUME AllPaid, AllPaid', KeptInv, [PaymentsNext]_vars PROVE KeptInv'
  OBVIOUS
<1>1. CASE PaymentsNext
  <2>1. PICK e : AccountsFit(e) /\ Commit(e)
    BY <1>1, StepAccounts
  <2>2. KeptFits(e) /\ \A p \in DOMAIN e.bounce : IsKind(p, {"payment", "hold"})
    BY <2>1 DEF AccountsFit, BooksMove
  <2> QED
    BY <1>1, <2>1, <2>2, FitsKeepsKept
<1>2. CASE UNCHANGED vars
  <2>1. /\ payment' = payment /\ refund' = refund /\ apps' = apps /\ invoice' = invoice
        /\ bounce' = bounce /\ deposit' = deposit /\ books' = books
    BY <1>2 DEF vars
  <2>2. PayTypeOK'
    BY <2>1 DEF KeptInv, PayTypeOK
  <2>3. \A r \in DOMAIN apps : RowKept(r)'
    BY <2>1 DEF KeptInv, RowKept, IsKind
  <2>4. ASSUME NEW p \in Payments PROVE PaymentKept(p)'
    <3>1. CashOn(apps, p)' = CashOn(apps, p) /\ AdjOn(apps, p)' = AdjOn(apps, p) /\ Drawn(p)' = Drawn(p)
      BY <2>1 DEF CashOn, AdjOn, Drawn
    <3>2. LiveDepositsFor(p)' = LiveDepositsFor(p)
      BY <2>1 DEF LiveDepositsFor
    <3>3. Returned(p)' = Returned(p)
      BY <2>1, <3>1, <3>2 DEF Returned, HeldIn, IsKind
    <3>4. PaymentKept(p)
      BY DEF KeptInv
    <3> QED
      BY <2>1, <3>1, <3>3, <3>4 DEF PaymentKept, IsKind, Posted, Bounced
  <2> QED
    BY <2>1, <2>2, <2>3, <2>4 DEF KeptInv
<1> QED
  BY <1>1, <1>2

\* Every step keeps the books.
LEMMA BooksNext ==
    ASSUME AllPaid, AllPaid', KeptInv, BooksInv, [PaymentsNext]_vars
    PROVE  BooksInv'
<1>1. CASE PaymentsNext
  <2>1. PICK e : AccountsFit(e) /\ Commit(e)
    BY <1>1, StepAccounts
  <2>2. TypesFit(e) /\ BooksMove(e)
    BY <2>1 DEF AccountsFit, KeptFits
  <2>3. ASSUME NEW p \in Payments, After(e, p).kind = "draw" PROVE After(e, p).from \in Payments
    <3>1. payment'[p] = After(e, p)
      BY <2>1, <2>2, TablesAfter
    <3> QED
      BY <2>3, <3>1 DEF AllPaid, PayInv, Kinship, IsKind
  <2> QED
    BY <2>1, <2>2, <2>3, FitsKeepsBooks
<1>2. CASE UNCHANGED vars
  <2>1. /\ payment' = payment /\ refund' = refund /\ invoice' = invoice
        /\ bounce' = bounce /\ deposit' = deposit /\ books' = books
    BY <1>2 DEF vars
  <2>2. \A p : ArOf(p)' = ArOf(p) /\ HeldOf(p)' = HeldOf(p) /\ ClearingOf(p)' = ClearingOf(p)
    BY <2>1 DEF ArOf, HeldOf, ClearingOf, Stands, Posted, Bounced, IsKind, LiveDepositsFor
  <2>3. Billed' = Billed /\ Settled' = Settled /\ Held' = Held /\ Clearing' = Clearing /\ Redrawn' = Redrawn
    BY <2>1, <2>2 DEF Billed, Settled, Held, Clearing, Redrawn
  <2> QED
    BY <2>1, <2>3 DEF BooksInv
<1> QED
  BY <1>1, <1>2

-----------------------------------------------------------------------------
(* What the payments give is what the invoices take.                       *)

\* A bag weighed by a sum.
LEMMA WeighPlus ==
    ASSUME NEW A, FiniteBag(A), NEW V, NEW W, NEW U,
           \A r \in DOMAIN A : V[r] \in Int /\ W[r] \in Int /\ U[r] = V[r] + W[r]
    PROVE  Weigh(A, U) = Weigh(A, V) + Weigh(A, W)
<1>1. PICK f, g, h : /\ f = [r \in DOMAIN A |-> A[r] * V[r]] /\ g = [r \in DOMAIN A |-> A[r] * W[r]]
                     /\ h = [r \in DOMAIN A |-> A[r] * U[r]]
  OBVIOUS
<1>2. \A r \in DOMAIN A : A[r] \in Int
  BY DEF FiniteBag
<1>3. \A a, v, w \in Int : a * v \in Int /\ a * w \in Int /\ a * (v + w) = a * v + a * w
  OBVIOUS
<1>4. \A r \in DOMAIN A : f[r] \in Int /\ g[r] \in Int /\ h[r] = f[r] + g[r]
  BY <1>1, <1>2, <1>3
<1>5. SumOn(h, DOMAIN A) = SumOn(f, DOMAIN A) + SumOn(g, DOMAIN A)
  BY <1>4, SumOnPlus DEF FiniteBag
<1> QED
  BY <1>1, <1>5 DEF Weigh

\* A weight spread over the keys of the rows weighs the same in all.
LEMMA Spread ==
    ASSUME NEW A, FiniteBag(A), NEW K, IsFiniteSet(K), NEW key, NEW W,
           \A r \in DOMAIN A : key[r] \in K /\ W[r] \in Int,
           NEW V, \A k \in K : \A r \in DOMAIN A : V[k][r] = IF key[r] = k THEN W[r] ELSE 0
    PROVE  SumOn([k \in K |-> Weigh(A, V[k])], K) = Weigh(A, W)
<1>1. PICK D : D = DOMAIN A
  OBVIOUS
<1>2. PICK t : t = [r \in D |-> [k \in K |-> A[r] * V[k][r]]]
  OBVIOUS
<1>3. IsFiniteSet(D) /\ \A r \in D : A[r] \in Int
  BY <1>1 DEF FiniteBag
<1>4. \A r \in D : \A k \in K : V[k][r] \in Int /\ t[r][k] = A[r] * V[k][r]
  BY <1>1, <1>2
<1>5. \A r \in D : \A k \in K : t[r][k] \in Int
  BY <1>3, <1>4, Product
<1>6. SumOn(ByRow(t, D, K), D) = SumOn(ByColumn(t, D, K), K)
  BY <1>3, <1>5, SumOnTable
<1>7. ByColumn(t, D, K) = [k \in K |-> Weigh(A, V[k])]
  <2>1. ASSUME NEW k \in K PROVE SumOn(Column(t, D, k), D) = Weigh(A, V[k])
    <3>1. Column(t, D, k) = [r \in DOMAIN A |-> A[r] * V[k][r]]
      BY <1>1, <1>4 DEF Column
    <3> QED
      BY <1>1, <3>1 DEF Weigh
  <2> QED
    BY <2>1 DEF ByColumn
<1>8. ByRow(t, D, K) = [r \in DOMAIN A |-> A[r] * W[r]]
  <2>1. ASSUME NEW r \in D PROVE SumOn(t[r], K) = A[r] * W[r]
    <3>1. PICK f, x : f = t[r] /\ x = key[r]
      OBVIOUS
    <3>2. x \in K /\ V[x][r] = W[r]
      BY <1>1, <3>1
    <3>3. f[x] = A[r] * W[r] /\ f[x] \in Int
      BY <1>4, <1>5, <3>1, <3>2
    <3>4. \A y \in K \ {x} : f[y] = 0
      <4>1. ASSUME NEW y \in K \ {x} PROVE f[y] = 0
        <5>1. V[y][r] = 0
          BY <1>1, <3>1
        <5>2. f[y] = A[r] * V[y][r]
          BY <1>4, <3>1
        <5> QED
          BY <1>3, <5>1, <5>2
      <4> QED
        BY <4>1
    <3>5. SumOn(f, K) = f[x]
      BY <3>2, <3>3, <3>4, SumOnOnly
    <3> QED
      BY <3>1, <3>3, <3>5
  <2> QED
    BY <1>1, <2>1 DEF ByRow
<1> QED
  BY <1>1, <1>6, <1>7, <1>8 DEF Weigh

\* What the live rows of a payment settle.
LiveFrom(p) == [r \in Application |-> IF r.pay = p /\ r.by = None THEN r.amt + r.adj ELSE 0]
LiveWeight == [r \in Application |-> IF r.by = None THEN r.amt + r.adj ELSE 0]
LiveOn(p) == Weigh(apps, LiveFrom(p))

\* What invoices have been paid is what payments have given.
LEMMA TakenIsGiven ==
    ASSUME PaidInv
    PROVE  SumOn([i \in Invoices |-> PaidBy(apps, i)], Invoices) = SumOn([p \in Payments |-> LiveOn(p)], Payments)
<1>1. PICK A, W : A = apps /\ W = LiveWeight
  OBVIOUS
<1>2. FiniteBag(A) /\ DOMAIN A \subseteq Application /\ Typed(A)
  BY <1>1 DEF PaidInv, Typed
<1>3. \A r \in DOMAIN A : /\ r \in Application /\ W[r] \in Int /\ r.inv \in Invoices /\ r.pay \in Payments
                          /\ W[r] = IF r.by = None THEN r.amt + r.adj ELSE 0
  BY <1>1, <1>2, Amounts0 DEF LiveWeight
<1>4. SumOn([i \in Invoices |-> PaidBy(apps, i)], Invoices) = Weigh(A, W)
  <2>1. PICK V, key : V = [i \in Invoices |-> OnInvoice(i)] /\ key = [r \in DOMAIN A |-> r.inv]
    OBVIOUS
  <2>2. \A r \in DOMAIN A : key[r] \in Invoices /\ W[r] \in Int
    BY <1>3, <2>1
  <2>3. \A i \in Invoices : \A r \in DOMAIN A : V[i][r] = IF key[r] = i THEN W[r] ELSE 0
    BY <1>3, <2>1 DEF OnInvoice
  <2>4. SumOn([i \in Invoices |-> Weigh(A, V[i])], Invoices) = Weigh(A, W)
    BY <1>2, <2>2, <2>3, Spread, PaymentsAssumption
  <2>5. \A i \in Invoices : Weigh(A, V[i]) = PaidBy(apps, i)
    BY <1>1, <1>2, <2>1, PaidIsWeight
  <2>6. [i \in Invoices |-> Weigh(A, V[i])] = [i \in Invoices |-> PaidBy(apps, i)]
    BY <2>5
  <2> QED
    BY <2>4, <2>6
<1>5. SumOn([p \in Payments |-> LiveOn(p)], Payments) = Weigh(A, W)
  <2>1. PICK V, key : V = [p \in Payments |-> LiveFrom(p)] /\ key = [r \in DOMAIN A |-> r.pay]
    OBVIOUS
  <2>2. \A r \in DOMAIN A : key[r] \in Payments /\ W[r] \in Int
    BY <1>3, <2>1
  <2>3. \A p \in Payments : \A r \in DOMAIN A : V[p][r] = IF key[r] = p THEN W[r] ELSE 0
    BY <1>3, <2>1 DEF LiveFrom
  <2>4. SumOn([p \in Payments |-> Weigh(A, V[p])], Payments) = Weigh(A, W)
    BY <1>2, <2>2, <2>3, Spread, PaymentsAssumption
  <2>5. \A p \in Payments : Weigh(A, V[p]) = LiveOn(p)
    BY <1>1, <2>1 DEF LiveOn
  <2>6. [p \in Payments |-> Weigh(A, V[p])] = [p \in Payments |-> LiveOn(p)]
    BY <2>5
  <2> QED
    BY <2>4, <2>6
<1> QED
  BY <1>4, <1>5

\* It is an amount.
LEMMA LiveOnIsNat == ASSUME PaidInv, NEW p PROVE LiveOn(p) \in Nat
<1>1. PICK V : V = LiveFrom(p)
  OBVIOUS
<1>2. FiniteBag(apps) /\ \A r \in DOMAIN apps : V[r] \in Nat
  BY <1>1, Amounts0 DEF PaidInv, Typed, LiveFrom
<1> QED
  BY <1>1, <1>2, WeighNat DEF LiveOn

\* A payment that stands has all its rows live.
LEMMA StandingLive ==
    ASSUME AllPaid, NEW p \in Payments, Stands(p)
    PROVE  LiveOn(p) = CashOn(apps, p) + AdjOn(apps, p)
<1>1. PICK U, V, W : U = LiveFrom(p) /\ V = CashFrom(p) /\ W = AdjFrom(p)
  OBVIOUS
<1>2. FiniteBag(apps) /\ DOMAIN apps \subseteq Application
  BY DEF AllPaid, PaidInv, Typed
<1>3. \A r \in DOMAIN apps : r.pay = p => r.by = None
  BY DEF AllPaid, PayInv, BouncesStand, Owned, Stands
<1>4. \A r \in DOMAIN apps : V[r] \in Int /\ W[r] \in Int /\ U[r] = V[r] + W[r]
  BY <1>1, <1>2, <1>3, Amounts0 DEF LiveFrom, CashFrom, AdjFrom
<1>5. Weigh(apps, U) = Weigh(apps, V) + Weigh(apps, W)
  BY <1>2, <1>4, WeighPlus
<1> QED
  BY <1>1, <1>5 DEF LiveOn, CashOn, AdjOn

\* A payment that does not stand, or is a held deposit, settles nothing.
LEMMA FallenGivesNothing ==
    ASSUME AllPaid, NEW p \in Payments, ~Stands(p) \/ IsKind(p, {"hold"})
    PROVE  LiveOn(p) = 0
<1>1. PICK U : U = LiveFrom(p)
  OBVIOUS
<1>2. FiniteBag(apps) /\ DOMAIN apps \subseteq Application
  BY DEF AllPaid, PaidInv, Typed
<1>3. \A r \in DOMAIN apps : r.by = None => r.pay # p
  BY DEF AllPaid, PayInv, LiveRowsStand, Kinship, Stands, IsKind
<1>4. \A r \in DOMAIN apps : U[r] = 0
  BY <1>1, <1>2, <1>3 DEF LiveFrom
<1> QED
  BY <1>1, <1>2, <1>4, WeighZero DEF LiveOn

\* Only a receipt's own rows take a discount.
LEMMA NoAdj ==
    ASSUME AllPaid, KeptInv, NEW p \in Payments, ~IsKind(p, {"payment"})
    PROVE  AdjOn(apps, p) = 0
<1>1. PICK V : V = AdjFrom(p)
  OBVIOUS
<1>2. FiniteBag(apps) /\ DOMAIN apps \subseteq Application
  BY DEF AllPaid, PaidInv, Typed
<1>3. ASSUME NEW r \in DOMAIN apps PROVE V[r] = 0
  <2>1. RowKept(r) /\ r \in Application /\ r.adj \in Nat
    BY <1>2, Amounts0 DEF KeptInv
  <2> QED
    BY <1>1, <2>1 DEF RowKept, AdjFrom
<1> QED
  BY <1>1, <1>2, <1>3, WeighZero DEF AdjOn

Credit(p, K) == IF IsKind(p, K) THEN CreditRemaining(p) ELSE 0

\* The credit that is left of a receipt or memo, and of a held deposit.
LEMMA CreditIs ==
    ASSUME AllPaid, NEW p \in Payments
    PROVE  /\ CreditRemaining(p) \in Nat
           /\ ~Posted(p) \/ Bounced(p) => CreditRemaining(p) = 0
           /\ Posted(p) /\ ~Bounced(p) /\ IsKind(p, {"payment", "memo"}) =>
                 CreditRemaining(p) = (payment[p].total - refund[p]) - CashOn(apps, p)
           /\ Posted(p) /\ ~Bounced(p) /\ IsKind(p, {"hold"}) =>
                 CreditRemaining(p) = (payment[p].total - refund[p]) - Drawn(p)
<1>1. CreditHolds(p) /\ payment[p].total \in Nat /\ refund[p] \in Nat
  BY DEF AllPaid, CreditInv, CreditHolds
<1>2. ~Posted(p) \/ Bounced(p) => CreditRemaining(p) = 0
  BY DEF CreditRemaining, CreditLeft
<1>3. LiveDraws(p) \ {} = LiveDraws(p) /\ LiveApplications(p) \ {} = LiveApplications(p)
  OBVIOUS
<1>4. ASSUME Posted(p), ~Bounced(p), IsKind(p, {"payment", "memo"})
      PROVE  CreditRemaining(p) = (payment[p].total - refund[p]) - CashOn(apps, p) /\ CreditRemaining(p) \in Nat
  <2>1. Cash(apps, LiveApplications(p)) = CashOn(apps, p) /\ CashOn(apps, p) \in Nat
    BY <1>4, LiveCashAll DEF AllPaid
  <2>2. refund[p] + CashOn(apps, p) <= payment[p].total
    BY <1>1, <1>4 DEF CreditHolds
  <2>3. CreditRemaining(p) = AtLeastZero((payment[p].total - refund[p]) - CashOn(apps, p))
    BY <1>3, <1>4, <2>1 DEF CreditRemaining, CreditLeft, IsKind
  <2> QED
    BY <1>1, <2>1, <2>2, <2>3 DEF AtLeastZero
<1>5. ASSUME Posted(p), ~Bounced(p), IsKind(p, {"hold"})
      PROVE  CreditRemaining(p) = (payment[p].total - refund[p]) - Drawn(p) /\ CreditRemaining(p) \in Nat
  <2>1. TotalOf(LiveDraws(p)) = Drawn(p) /\ Drawn(p) \in Nat
    BY DrawnIsTotal DEF AllPaid
  <2>2. refund[p] + Drawn(p) <= payment[p].total
    BY <1>1, <1>5 DEF CreditHolds
  <2>3. CreditRemaining(p) = AtLeastZero((payment[p].total - refund[p]) - Drawn(p))
    BY <1>3, <1>5, <2>1 DEF CreditRemaining, CreditLeft, IsKind
  <2> QED
    BY <1>1, <2>1, <2>2, <2>3 DEF AtLeastZero
<1>6. ASSUME Posted(p), ~Bounced(p), ~IsKind(p, {"payment", "memo", "hold"})
      PROVE  CreditRemaining(p) \in Nat
  <2>1. LiveApplications(p) \in SUBSET LiveApplications(p) /\ LiveApplications(p) \in SUBSET DOMAIN apps
    BY DEF LiveApplications
  <2>2. Cash(apps, LiveApplications(p)) \in Nat
    BY <2>1, CashPart DEF AllPaid
  <2>3. CreditRemaining(p) = AtLeastZero((payment[p].total - refund[p]) - Cash(apps, LiveApplications(p)))
    BY <1>3, <1>6 DEF CreditRemaining, CreditLeft, IsKind
  <2> QED
    BY <1>1, <2>2, <2>3 DEF AtLeastZero
<1> QED
  BY <1>2, <1>4, <1>5, <1>6 DEF IsKind

\* What a standing payment gives to Accounts Receivable is what it settles and what is left.
LEMMA GivenBy ==
    ASSUME AllPaid, KeptInv, NEW p \in Payments
    PROVE  ArOf(p) = LiveOn(p) + Credit(p, {"payment", "memo"})
<1>1. payment[p] \in PaymentRow /\ refund[p] \in Nat
  BY DEF KeptInv, PayTypeOK
<1>2. payment[p].total \in Nat /\ payment[p].adj \in Nat /\ payment[p].kind \in {"none", "payment", "hold", "draw", "memo"}
  BY <1>1 DEF PaymentRow, Kinds
<1>3. LiveOn(p) \in Nat /\ CashOn(apps, p) \in Nat /\ AdjOn(apps, p) \in Nat
  BY LiveOnIsNat, CashIsNat, AdjOnIsNat DEF AllPaid, PaidInv
<1>4. CASE ~Stands(p)
  <2>1. LiveOn(p) = 0 /\ ArOf(p) = 0
    BY <1>4, FallenGivesNothing DEF ArOf
  <2>2. Credit(p, {"payment", "memo"}) = 0
    BY <1>4, CreditIs DEF Credit, Stands, IsKind
  <2> QED
    BY <2>1, <2>2
<1>5. CASE Stands(p)
  <2>0. Posted(p) /\ ~Bounced(p) /\ ArOf(p) = ArGive(payment[p], refund[p])
    BY <1>5 DEF Stands, ArOf
  <2>1. CASE payment[p].kind = "payment"
    <3>1. IsKind(p, {"payment"}) /\ IsKind(p, {"payment", "memo"})
      BY <2>1 DEF IsKind
    <3>2. LiveOn(p) = CashOn(apps, p) + AdjOn(apps, p)
      BY <1>5, StandingLive
    <3>3. AdjOn(apps, p) = payment[p].adj
      BY <2>0, <3>1 DEF KeptInv, PaymentKept
    <3>4. Credit(p, {"payment", "memo"}) = (payment[p].total - refund[p]) - CashOn(apps, p)
      BY <2>0, <3>1, CreditIs DEF Credit
    <3>5. ArOf(p) = (payment[p].total + payment[p].adj) - refund[p]
      BY <1>1, <1>2, <2>0, <2>1 DEF ArGive
    <3> QED
      BY <1>1, <1>2, <1>3, <3>2, <3>3, <3>4, <3>5
  <2>2. CASE payment[p].kind = "memo"
    <3>1. ~IsKind(p, {"payment"}) /\ IsKind(p, {"payment", "memo"})
      BY <2>2 DEF IsKind
    <3>2. LiveOn(p) = CashOn(apps, p) + AdjOn(apps, p)
      BY <1>5, StandingLive
    <3>3. AdjOn(apps, p) = 0
      BY <3>1, NoAdj
    <3>4. Credit(p, {"payment", "memo"}) = (payment[p].total - refund[p]) - CashOn(apps, p)
      BY <2>0, <3>1, CreditIs DEF Credit
    <3>5. ArOf(p) = payment[p].total - refund[p]
      BY <2>0, <2>2 DEF ArGive
    <3> QED
      BY <1>1, <1>2, <1>3, <3>2, <3>3, <3>4, <3>5
  <2>3. CASE payment[p].kind = "draw"
    <3>1. IsKind(p, {"draw"}) /\ ~IsKind(p, {"payment"}) /\ ~IsKind(p, {"payment", "memo"})
      BY <2>3 DEF IsKind
    <3>2. LiveOn(p) = CashOn(apps, p) + AdjOn(apps, p)
      BY <1>5, StandingLive
    <3>3. AdjOn(apps, p) = 0
      BY <3>1, NoAdj
    <3>4. CashOn(apps, p) = payment[p].total
      BY <2>0, <3>1 DEF KeptInv, PaymentKept
    <3>5. Credit(p, {"payment", "memo"}) = 0 /\ ArOf(p) = payment[p].total
      BY <2>0, <2>3, <3>1 DEF Credit, ArGive
    <3> QED
      BY <1>3, <3>2, <3>3, <3>4, <3>5
  <2>4. CASE payment[p].kind = "hold"
    <3>1. LiveOn(p) = 0
      BY <2>4, FallenGivesNothing DEF IsKind
    <3>2. Credit(p, {"payment", "memo"}) = 0 /\ ArOf(p) = 0
      BY <2>0, <2>4 DEF Credit, ArGive, IsKind
    <3> QED
      BY <3>1, <3>2
  <2>5. payment[p].kind # "none"
    BY <2>0 DEF AllPaid, PayInv, Tables, PaymentShape, Posted
  <2> QED
    BY <1>2, <2>1, <2>2, <2>3, <2>4, <2>5
<1> QED
  BY <1>4, <1>5

\* What an invoice is open for is what it bills less what it has been paid.
LEMMA OpenIs ==
    ASSUME AllPaid, NEW i \in Invoices
    PROVE  Open(i) = BilledOf(invoice[i]) - PaidBy(apps, i) /\ PaidBy(apps, i) \in Nat /\ BilledOf(invoice[i]) \in Nat
<1>1. PaidTies(i) /\ Typed(apps)
  BY DEF AllPaid, PaidInv
<1>2. PaidBy(apps, i) \in Nat /\ PaidBy(apps, i) = Weigh(apps, OnInvoice(i))
  BY <1>1, PaidIsWeight
<1>3. BilledOf(invoice[i]) \in Nat
  BY <1>1 DEF PaidTies, InvoiceRow, BilledOf
<1>4. CASE invoice[i].st = "posted"
  BY <1>1, <1>2, <1>3, <1>4 DEF PaidTies, Open, BilledOf
<1>5. CASE invoice[i].st # "posted"
  <2>1. PICK V : V = OnInvoice(i)
    OBVIOUS
  <2>2. \A r \in DOMAIN apps : V[r] = 0
    BY <1>1, <1>5, <2>1 DEF Typed, OnInvoice, AllPaid, PayInv, LiveRowsStand
  <2>3. PaidBy(apps, i) = 0
    BY <1>1, <1>2, <2>1, <2>2, WeighZero DEF Typed
  <2> QED
    BY <1>3, <1>5, <2>3 DEF Open, BilledOf
<1> QED
  BY <1>2, <1>3, <1>4, <1>5

\* The credits of the kinds K, summed over all the payments.
LEMMA CreditOfIs ==
    ASSUME AllPaid, NEW K
    PROVE  CreditOf(K) = SumOn([p \in Payments |-> Credit(p, K)], Payments) /\ CreditOf(K) \in Int
<1>1. PICK S, f, g : /\ S = OfKind(K) /\ f = [p \in S |-> CreditRemaining(p)]
                     /\ g = [p \in Payments |-> Credit(p, K)]
  OBVIOUS
<1>2. S \in SUBSET Payments /\ IsFiniteSet(Payments)
  BY <1>1, PaymentsAssumption DEF OfKind
<1>3. \A p \in S : f[p] \in Int /\ g[p] = f[p]
  BY <1>1, <1>2, CreditIs DEF Credit, OfKind
<1>4. \A p \in Payments \ S : g[p] = 0
  BY <1>1 DEF Credit, OfKind
<1>5. SumOn(g, Payments) = SumOn(f, S)
  BY <1>2, <1>3, <1>4, SumOnPadded
<1>6. IsFiniteSet(S)
  BY <1>2, FS_Subset
<1>7. SumOn(f, S) \in Int
  BY <1>3, <1>6, SumOnType
<1>8. CreditOf(K) = SumOn(f, S)
  BY <1>1 DEF CreditOf, SumOver, SumOn
<1> QED
  BY <1>1, <1>5, <1>7, <1>8

\* What BooksInv has of refunded draws is what ControlAccountsTieOut adds.
LEMMA RedrawnIs ==
    ASSUME AllPaid, KeptInv
    PROVE  Redrawn = RefundedOfDraws
<1>1. PICK S, f, g : /\ S = OfKind({"draw"}) /\ f = [p \in S |-> refund[p]]
                     /\ g = [p \in Payments |-> RedrawnOf(payment[p], refund[p])]
  OBVIOUS
<1>2. S \in SUBSET Payments /\ IsFiniteSet(Payments)
  BY <1>1, PaymentsAssumption DEF OfKind
<1>3. \A p \in S : f[p] \in Int /\ g[p] = f[p]
  BY <1>1, <1>2 DEF OfKind, IsKind, RedrawnOf, KeptInv, PayTypeOK
<1>4. \A p \in Payments \ S : g[p] = 0
  BY <1>1 DEF OfKind, IsKind, RedrawnOf
<1>5. SumOn(g, Payments) = SumOn(f, S)
  BY <1>2, <1>3, <1>4, SumOnPadded
<1>6. RefundedOfDraws = SumOn(f, S)
  BY <1>1 DEF RefundedOfDraws, SumOver, SumOn
<1>7. Redrawn = SumOn(g, Payments)
  BY <1>1 DEF Redrawn
<1> QED
  BY <1>5, <1>6, <1>7

\* Accounts Receivable is the open invoices less the unapplied credit.
LEMMA ReceivableTies ==
    ASSUME AllPaid, KeptInv
    PROVE  Billed - Settled = SumOver([i \in Invoices |-> Open(i)], Invoices) - CreditOf({"payment", "memo"})
<1>1. PICK f, g, h : /\ f = [i \in Invoices |-> BilledOf(invoice[i])] /\ g = [i \in Invoices |-> PaidBy(apps, i)]
                     /\ h = [i \in Invoices |-> Open(i)]
  OBVIOUS
<1>2. PICK a, l, c : /\ a = [p \in Payments |-> ArOf(p)] /\ l = [p \in Payments |-> LiveOn(p)]
                     /\ c = [p \in Payments |-> Credit(p, {"payment", "memo"})]
  OBVIOUS
<1>3. IsFiniteSet(Invoices) /\ IsFiniteSet(Payments)
  BY PaymentsAssumption
<1>4. \A i \in Invoices : f[i] \in Int /\ g[i] \in Int /\ h[i] = f[i] - g[i]
  BY <1>1, OpenIs
<1>5. \A p \in Payments : l[p] \in Int /\ c[p] \in Int /\ a[p] = l[p] + c[p]
  <2>1. ASSUME NEW p \in Payments PROVE l[p] \in Int /\ c[p] \in Int /\ a[p] = l[p] + c[p]
    <3>1. LiveOn(p) \in Int /\ Credit(p, {"payment", "memo"}) \in Int
      BY LiveOnIsNat, CreditIs DEF AllPaid, Credit
    <3>2. ArOf(p) = LiveOn(p) + Credit(p, {"payment", "memo"})
      BY GivenBy
    <3> QED
      BY <1>2, <3>1, <3>2
  <2> QED
    BY <2>1
<1>6. SumOn(h, Invoices) = SumOn(f, Invoices) - SumOn(g, Invoices)
  BY <1>3, <1>4, SumOnMinus
<1>7. SumOn(a, Payments) = SumOn(l, Payments) + SumOn(c, Payments)
  BY <1>3, <1>5, SumOnPlus
<1>8. SumOn(g, Invoices) = SumOn(l, Payments)
  BY <1>1, <1>2, TakenIsGiven DEF AllPaid
<1>9. SumOn(f, Invoices) \in Int /\ SumOn(g, Invoices) \in Int
  BY <1>3, <1>4, SumOnType
<1>10. SumOn(c, Payments) \in Int
  BY <1>3, <1>5, SumOnType
<1>11. CreditOf({"payment", "memo"}) = SumOn(c, Payments)
  BY <1>2, CreditOfIs
<1>12. Billed = SumOn(f, Invoices) /\ Settled = SumOn(a, Payments)
       /\ SumOver([i \in Invoices |-> Open(i)], Invoices) = SumOn(h, Invoices)
  BY <1>1, <1>2 DEF Billed, Settled, SumOver, SumOn
<1> QED
  BY <1>6, <1>7, <1>8, <1>9, <1>10, <1>11, <1>12

\* What is drawn on a held deposit that stands.
DrawsHeld == [h \in Payments |-> [d \in Payments |-> IF Stands(h) /\ IsKind(h, {"hold"}) THEN DrawFor(payment[d], h) ELSE 0]]
DrawnHeld(d) == IF Stands(d) /\ IsKind(d, {"draw"}) THEN payment[d].total ELSE 0

\* A standing draw is on one held deposit, which stands.
LEMMA DrawnOnce ==
    ASSUME AllPaid, KeptInv, NEW d \in Payments
    PROVE  SumOn(Column(DrawsHeld, Payments, d), Payments) = DrawnHeld(d)
<1>1. PICK f : f = Column(DrawsHeld, Payments, d)
  OBVIOUS
<1>2. \A h \in Payments : f[h] = IF Stands(h) /\ IsKind(h, {"hold"}) THEN DrawFor(payment[d], h) ELSE 0
  BY <1>1 DEF Column, DrawsHeld
<1>3. payment[d].total \in Int /\ IsFiniteSet(Payments)
  BY PaymentsAssumption DEF AllPaid, CreditInv, CreditHolds
<1>4. CASE Stands(d) /\ IsKind(d, {"draw"})
  <2>1. PICK x : x = payment[d].from
    OBVIOUS
  <2>2. x \in Payments /\ IsKind(x, {"hold"}) /\ Posted(x) /\ ~Bounced(x) /\ Posted(d)
    BY <1>4, <2>1 DEF AllPaid, PayInv, Kinship, Stands, KeptInv, PaymentKept
  <2>3. Stands(x)
    BY <2>2 DEF Stands, IsKind
  <2>4. f[x] = payment[d].total
    BY <1>2, <1>4, <2>1, <2>2, <2>3 DEF DrawFor, IsKind, Posted
  <2>5. \A y \in Payments \ {x} : f[y] = 0
    BY <1>2, <2>1 DEF DrawFor
  <2>6. SumOn(f, Payments) = f[x]
    BY <1>3, <2>2, <2>4, <2>5, SumOnOnly
  <2> QED
    BY <1>1, <1>4, <2>4, <2>6 DEF DrawnHeld
<1>5. CASE ~(Stands(d) /\ IsKind(d, {"draw"}))
  <2>1. ~Bounced(d) \/ ~IsKind(d, {"draw"})
    BY DEF AllPaid, PayInv, BouncesStand, IsKind
  <2>2. \A h \in Payments : f[h] = 0
    BY <1>2, <1>5, <2>1 DEF Stands, DrawFor, IsKind, Posted
  <2>3. SumOn(f, Payments) = 0
    BY <1>3, <2>2, SumOnZero
  <2> QED
    BY <1>1, <1>5, <2>3 DEF DrawnHeld
<1> QED
  BY <1>4, <1>5

\* The draws on a held deposit that stands are what is drawn of it.
LEMMA DrawsHeldOn ==
    ASSUME AllPaid, NEW h \in Payments
    PROVE  /\ SumOn(DrawsHeld[h], Payments) = IF Stands(h) /\ IsKind(h, {"hold"}) THEN Drawn(h) ELSE 0
           /\ \A d \in Payments : DrawsHeld[h][d] \in Int
<1>1. IsFiniteSet(Payments)
  BY PaymentsAssumption
<1>2. PICK f, g : f = DrawsHeld[h] /\ g = [d \in Payments |-> DrawFor(payment[d], h)]
  OBVIOUS
<1>3. \A d \in Payments : g[d] \in Int
  BY <1>2, DrawIsNat DEF AllPaid
<1>4. \A d \in Payments : f[d] = IF Stands(h) /\ IsKind(h, {"hold"}) THEN g[d] ELSE 0
  BY <1>2 DEF DrawsHeld
<1>5. CASE Stands(h) /\ IsKind(h, {"hold"})
  <2>1. \A d \in Payments : g[d] \in Int /\ f[d] = g[d]
    BY <1>3, <1>4, <1>5
  <2>2. SumOn(f, Payments) = SumOn(g, Payments)
    BY <1>1, <2>1, SumOnSame
  <2> QED
    BY <1>2, <1>5, <2>1, <2>2 DEF Drawn
<1>6. CASE ~(Stands(h) /\ IsKind(h, {"hold"}))
  <2>1. \A d \in Payments : f[d] = 0
    BY <1>4, <1>6
  <2>2. SumOn(f, Payments) = 0
    BY <1>1, <2>1, SumOnZero
  <2> QED
    BY <1>2, <1>6, <2>1, <2>2
<1> QED
  BY <1>5, <1>6

\* Customer Deposits is the credit left of the held deposits.
LEMMA HeldTies ==
    ASSUME AllPaid, KeptInv
    PROVE  Held = CreditOf({"hold"})
<1>1. IsFiniteSet(Payments)
  BY PaymentsAssumption
<1>2. PICK t, row, col : /\ t = DrawsHeld /\ row = ByRow(DrawsHeld, Payments, Payments)
                         /\ col = ByColumn(DrawsHeld, Payments, Payments)
  OBVIOUS
<1>3. \A p \in Payments : \A d \in Payments : t[p][d] \in Int
  BY <1>2, DrawsHeldOn
<1>4. SumOn(row, Payments) = SumOn(col, Payments)
  BY <1>1, <1>2, <1>3, SumOnTable
<1>5. \A p \in Payments : /\ row[p] = IF Stands(p) /\ IsKind(p, {"hold"}) THEN Drawn(p) ELSE 0
                          /\ col[p] = DrawnHeld(p)
  BY <1>2, DrawsHeldOn, DrawnOnce DEF ByRow, ByColumn
<1>6. PICK f, c, n : /\ f = [p \in Payments |-> HeldOf(p)] /\ c = [p \in Payments |-> Credit(p, {"hold"})]
                     /\ n = [p \in Payments |-> row[p] - col[p]]
  OBVIOUS
<1>7. ASSUME NEW p \in Payments
      PROVE  c[p] \in Int /\ row[p] \in Int /\ col[p] \in Int /\ f[p] = c[p] + (row[p] - col[p])
  <2>1. /\ payment[p].total \in Nat /\ refund[p] \in Nat /\ Drawn(p) \in Nat /\ CreditRemaining(p) \in Nat
        /\ payment[p].kind \in {"none", "payment", "hold", "draw", "memo"}
    BY DrawnIsTotal, CreditIs DEF AllPaid, CreditInv, CreditHolds, PayInv, Tables, PaymentShape, Kinds
  <2>2. f[p] = HeldOf(p) /\ c[p] = Credit(p, {"hold"})
    BY <1>6
  <2>3. CASE Stands(p) /\ payment[p].kind = "hold"
    <3>1. row[p] = Drawn(p) /\ col[p] = 0
      BY <1>5, <2>3 DEF DrawnHeld, IsKind
    <3>2. c[p] = (payment[p].total - refund[p]) - Drawn(p)
      BY <2>2, <2>3, CreditIs DEF Credit, IsKind, Stands
    <3>3. f[p] = payment[p].total - refund[p]
      BY <2>2, <2>3 DEF HeldOf, HeldGive
    <3> QED
      BY <2>1, <3>1, <3>2, <3>3
  <2>4. CASE Stands(p) /\ payment[p].kind = "draw"
    <3>1. row[p] = 0 /\ col[p] = payment[p].total
      BY <1>5, <2>4 DEF DrawnHeld, IsKind
    <3>2. c[p] = 0 /\ f[p] = -payment[p].total
      BY <2>2, <2>4 DEF Credit, HeldOf, HeldGive, IsKind
    <3> QED
      BY <2>1, <3>1, <3>2
  <2>5. CASE ~Stands(p) \/ payment[p].kind \notin {"hold", "draw"}
    <3>1. row[p] = 0 /\ col[p] = 0
      BY <1>5, <2>5 DEF DrawnHeld, IsKind
    <3>2. f[p] = 0
      BY <2>2, <2>5 DEF HeldOf, HeldGive
    <3>3. c[p] = 0
      BY <2>2, <2>5, CreditIs DEF Credit, Stands, IsKind
    <3> QED
      BY <3>1, <3>2, <3>3
  <2> QED
    BY <2>3, <2>4, <2>5
<1>8. SumOn(n, Payments) = SumOn(row, Payments) - SumOn(col, Payments)
  <2>1. \A p \in Payments : row[p] \in Int /\ col[p] \in Int /\ n[p] = row[p] - col[p]
    BY <1>6, <1>7
  <2> QED
    BY <1>1, <2>1, SumOnMinus
<1>9. SumOn(f, Payments) = SumOn(c, Payments) + SumOn(n, Payments)
  <2>1. \A p \in Payments : c[p] \in Int /\ n[p] \in Int /\ f[p] = c[p] + n[p]
    BY <1>6, <1>7
  <2> QED
    BY <1>1, <2>1, SumOnPlus
<1>10. SumOn(row, Payments) \in Int /\ SumOn(c, Payments) \in Int
  BY <1>1, <1>7, SumOnType
<1>11. CreditOf({"hold"}) = SumOn(c, Payments)
  BY <1>6, CreditOfIs
<1>12. Held = SumOn(f, Payments)
  BY <1>6 DEF Held
<1> QED
  BY <1>4, <1>8, <1>9, <1>10, <1>11, <1>12

\* Payments Clearing is what waits there for a deposit.
LEMMA ClearingTies ==
    ASSUME AllPaid, KeptInv
    PROVE  Clearing = TotalOf(Pending)
<1>1. IsFiniteSet(Payments)
  BY PaymentsAssumption
<1>2. PICK S, f, g : /\ S = Pending /\ f = [p \in S |-> payment[p].total]
                     /\ g = [p \in Payments |-> ClearingOf(p)]
  OBVIOUS
<1>3. S \in SUBSET Payments
  BY <1>2 DEF Pending
<1>4. \A p \in Payments : payment[p].total \in Nat
  BY DEF AllPaid, CreditInv, CreditHolds
<1>5. \A p : LiveDepositsFor(p) \ {None} = LiveDepositsFor(p)
  BY PaymentsAssumption DEF LiveDepositsFor
<1>6. \A p \in S : f[p] \in Int /\ g[p] = f[p]
  BY <1>2, <1>3, <1>4, <1>5 DEF Pending, Depositable, ClearingOf, InClearing
<1>7. \A p \in Payments \ S : g[p] = 0
  BY <1>2, <1>4, <1>5 DEF Pending, Depositable, ClearingOf, InClearing
<1>8. SumOn(g, Payments) = SumOn(f, S)
  BY <1>1, <1>3, <1>6, <1>7, SumOnPadded
<1>9. TotalOf(S) = SumOn(f, S)
  BY <1>2, TotalIsSum
<1> QED
  BY <1>2, <1>8, <1>9 DEF Clearing

\* The tables hold together, draws as sources of a refund or not: no step leaves
\* a row or a bounce that the others do not account for.
THEOREM KeptInvariant == PaymentsSpec => [](AllPaid /\ KeptInv)
<1>1. PaymentsInit => KeptInv
  BY KeptInit
<1>2. AllPaid /\ AllPaid' /\ KeptInv /\ [PaymentsNext]_vars => KeptInv'
  BY KeptNext
<1>3. PaymentsSpec => []AllPaid
  BY CreditInvariant, PTL DEF AllPaid
<1> QED
  BY <1>1, <1>2, <1>3, PTL DEF PaymentsSpec

\* Every table keeps its type: amounts stay integers, totals, discounts and
\* refunds are never negative, and the rows are those of the tables' columns, for
\* any constants and every operation of Payments.
THEOREM PayTypes == PaymentsSpec => []PayTypeOK
<1>1. KeptInv => PayTypeOK
  BY DEF KeptInv
<1> QED
  BY <1>1, KeptInvariant, PTL

\* The books are what the tables say.
THEOREM BooksInvariant == PaymentsSpec => []BooksInv
<1>1. PaymentsInit => BooksInv
  BY BooksInit
<1>2. (AllPaid /\ KeptInv) /\ (AllPaid /\ KeptInv)' /\ BooksInv /\ [PaymentsNext]_vars => BooksInv'
  BY BooksNext
<1> QED
  BY <1>1, <1>2, KeptInvariant, PTL DEF PaymentsSpec

\* The control accounts tie out: after any sequence of operations Accounts
\* Receivable is what invoices are open for less the credit of receipts and memos,
\* and what was refunded of draws (createCustomerRefund takes that out of A/R, and
\* it stays there); Customer Deposits is the credit left of held deposits, Payments
\* Clearing what waits for a deposit.
THEOREM TieOut == PaymentsSpec => []ControlAccountsTieOut
<1>1. ASSUME AllPaid, KeptInv, BooksInv PROVE ControlAccountsTieOut
  BY <1>1, ReceivableTies, HeldTies, ClearingTies, RedrawnIs DEF BooksInv, ControlAccountsTieOut
<1> QED
  BY <1>1, KeptInvariant, BooksInvariant, PTL
=============================================================================
