------------------------------ MODULE Payments ------------------------------
(***************************************************************************)
(* Customer payments (payment.service.ts) with what they touch: invoices,  *)
(* bank deposits (deposit.service.ts), credit memos and customer refunds,  *)
(* of one customer of one company.  Every operation is one step here, as   *)
(* its database transaction is under the row locks it takes; PaymentLocks  *)
(* takes those locks one by one and is shown to implement this module.     *)
(*                                                                         *)
(* A payment is an ordinary receipt, a held deposit ("hold"), a draw on a  *)
(* held deposit, or a credit memo (a credit source like a receipt).  The   *)
(* rows of payment_applications say which source settles which invoice;    *)
(* the balances of the control accounts are kept beside them, moved by the *)
(* journal lines each operation posts.  Amounts are whole cents.  Dates,   *)
(* and with them the closing date, are left out: they only refuse more.    *)
(***************************************************************************)
EXTENDS Integers, FiniteSets, Bags, FiniteSetsExt

CONSTANTS
    Invoices,     \* invoices
    Payments,     \* ids of receipts, held deposits, draws and credit memos
    Deposits,     \* ids of bank deposits
    InvoiceTotal, \* the total an invoice starts with
    MaxAmount,    \* bound: the largest amount a request names
    Adjustments,  \* bound: the discounts and write-offs a request takes
    MaxApplied,   \* bound: invoices a request applies cash or an adjustment to
    Places,       \* where receipts go: Payments Clearing, a bank account
    Operations,   \* bound: the operations the instance requests
    None

ASSUME PaymentsAssumption ==
    /\ IsFiniteSet(Invoices) /\ IsFiniteSet(Payments) /\ IsFiniteSet(Deposits)
    /\ InvoiceTotal \in Nat \ {0} /\ MaxAmount \in Nat
    /\ Adjustments \in SUBSET Nat
    /\ Places \in SUBSET {"clearing", "bank"}
    /\ None \notin Payments /\ None \notin Deposits

VARIABLES
    invoice,  \* the invoice rows: status, total, amount_paid, balance_due
    payment,  \* the payment rows; of kind "none" before they are inserted
    apps,     \* a bag of the payment_applications rows that are not voided
    bounce,   \* the live returned_payment of a payment, or NoBounce
    refund,   \* the total of the live customer_refund of a source
    deposit,  \* bank deposits with the items their deposit_lines name
    books     \* balances of A/R, Customer Deposits and Payments Clearing

vars == <<invoice, payment, apps, bounce, refund, deposit, books>>

Kinds == {"payment", "hold", "draw", "memo"}

InvoiceRow == [st : {"posted", "void"}, total : Nat, paid : Int, balance : Int]
PaymentRow == [kind : Kinds \cup {"none"}, st : {"none", "posted", "void"}, total : Nat, adj : Nat,
               to : {"clearing", "bank"}, from : Payments \cup {None}, inside : Payments \cup {None}]
\* applied later (applied_date set), inside another payment
\* (applied_in_txn_id), reversed by the bounce of a payment.
Application == [pay : Payments, inv : Invoices, amt : Nat, adj : Nat, later : BOOLEAN,
                inside : Payments \cup {None}, by : Payments \cup {None}]
Bounce == [at : {"none", "clearing", "bank"}, ar : Nat, held : Nat]

NoPayment == [kind |-> "none", st |-> "none", total |-> 0, adj |-> 0, to |-> "bank", from |-> None, inside |-> None]
NoBounce == [at |-> "none", ar |-> 0, held |-> 0]

\* Type correctness of the rows and of the control accounts.
PayTypeOK ==
    /\ invoice \in [Invoices -> InvoiceRow]
    /\ payment \in [Payments -> PaymentRow]
    /\ IsABag(apps) /\ \A r \in DOMAIN apps : r \in Application
    /\ bounce \in [Payments -> Bounce]
    /\ refund \in [Payments -> Nat]
    /\ deposit \in [Deposits -> [st : {"none", "posted", "void"}, items : SUBSET Payments]]
    /\ books \in [ar : Int, held : Int, clearing : Int]

PaymentsInit ==
    /\ invoice = [i \in Invoices |-> [st |-> "posted", total |-> InvoiceTotal, paid |-> 0, balance |-> InvoiceTotal]]
    /\ payment = [p \in Payments |-> NoPayment]
    /\ apps = EmptyBag
    /\ bounce = [p \in Payments |-> NoBounce]
    /\ refund = [p \in Payments |-> 0]
    /\ deposit = [d \in Deposits |-> [st |-> "none", items |-> {}]]
    /\ books = [ar |-> InvoiceTotal * Cardinality(Invoices), held |-> 0, clearing |-> 0]

-----------------------------------------------------------------------------
(* What the rows say. *)

IsKind(p, K) == payment[p].kind \in K
Posted(p) == payment[p].st = "posted"
\* A live bounce: a posted returned_payment names the payment.
Bounced(p) == bounce[p].at # "none"

SettledBy(r) == r.amt + r.adj
SumOver(f, S) == MapThenSumSet(LAMBDA x : f[x], S)
SumOf(A, R, Val(_)) == SumOver([r \in R |-> A[r] * Val(r)], R)
Cash(A, R) == SumOf(A, R, LAMBDA r : r.amt)

LiveApplications(p) == {r \in DOMAIN apps : r.pay = p /\ r.by = None}
CreditsAppliedIn(p) == {r \in DOMAIN apps : r.inside = p /\ r.by = None}
ReversedBy(p) == {r \in DOMAIN apps : r.by = p}
Reversal(p) == [r \in ReversedBy(p) |-> apps[r]]

LiveDraws(p) == {d \in Payments : IsKind(d, {"draw"}) /\ Posted(d) /\ payment[d].from = p}
DrawsInside(p) == {d \in Payments : IsKind(d, {"draw"}) /\ Posted(d) /\ payment[d].inside = p}
TotalOf(D) == SumOver([d \in D |-> payment[d].total], D)

Smaller(m, n) == IF m < n THEN m ELSE n
AtLeastZero(n) == IF n < 0 THEN 0 ELSE n

\* What is left of a source once the rows `gone` and the draws `undrawn` are
\* taken back (none of them, except in the middle of an edit).
CreditLeft(p, gone, undrawn) ==
    IF ~Posted(p) \/ Bounced(p) THEN 0
    ELSE AtLeastZero(payment[p].total - refund[p] -
             IF payment[p].kind = "hold" THEN TotalOf(LiveDraws(p) \ undrawn)
             ELSE Cash(apps, LiveApplications(p) \ gone))
CreditRemaining(p) == CreditLeft(p, {}, {})

\* A paid invoice (balance 0) and a void one take nothing.
PayableCents(inv) == IF inv.st = "posted" THEN AtLeastZero(inv.balance) ELSE 0

LiveDepositsFor(p) == {d \in Deposits : deposit[d].st = "posted" /\ p \in deposit[d].items}

PaidBy(A, i) == SumOf(A, {r \in DOMAIN A : r.inv = i /\ r.by = None}, SettledBy)
\* moveInvoicePaid for the rows taken away and the rows added.
Moved(invs, gone, new) ==
    [i \in Invoices |->
        LET paid == invs[i].paid + PaidBy(new, i) - PaidBy(gone, i)
        IN [invs[i] EXCEPT !.paid = paid, !.balance = @ - (paid - invs[i].paid)]]

Copies(R) == [r \in R |-> apps[r]]

Row(p, i, amt, adj, later, inside) ==
    [pay |-> p, inv |-> i, amt |-> amt, adj |-> adj, later |-> later, inside |-> inside, by |-> None]
\* Mutant: the row is inserted as a draft.
NewDraft(kind, total, adj, to, from, inside) ==
    [kind |-> kind, st |-> "draft", total |-> total, adj |-> adj, to |-> to, from |-> from, inside |-> inside]
NewPayment(kind, total, adj, to, from, inside) ==
    [kind |-> kind, st |-> "posted", total |-> total, adj |-> adj, to |-> to, from |-> from, inside |-> inside]
Voided(D) == [d \in D |-> [payment[d] EXCEPT !.st = "void"]]
InClearing(to, n) == IF to = "clearing" THEN n ELSE 0

\* What an operation writes: the application rows it takes away and adds, the
\* rows of the other tables it writes, what it posts to the control accounts.
Only(x, row) == [y \in {x} |-> row]
Over(new, old) == [x \in DOMAIN new \cup DOMAIN old |-> IF x \in DOMAIN new THEN new[x] ELSE old[x]]

Nothing == [gone |-> EmptyBag, new |-> EmptyBag, invoice |-> <<>>, payment |-> <<>>, bounce |-> <<>>,
            refund |-> <<>>, deposit |-> <<>>, ar |-> 0, held |-> 0, clearing |-> 0]

Commit(e) ==
    /\ invoice' = Over(e.invoice, Moved(invoice, e.gone, e.new))
    /\ payment' = Over(e.payment, payment)
    /\ apps' = (apps (-) e.gone) (+) e.new
    /\ bounce' = Over(e.bounce, bounce)
    /\ refund' = Over(e.refund, refund)
    /\ deposit' = Over(e.deposit, deposit)
    /\ books' = [ar |-> books.ar + e.ar, held |-> books.held + e.held, clearing |-> books.clearing + e.clearing]

-----------------------------------------------------------------------------
(* The body of a receipt: the amount, where the money goes, the cash and    *)
(* the discount or write-off on each invoice, and credits of other sources. *)
(* Bound: at most one credit in a request.                                  *)

Total(f) == SumOver(f, Invoices)
TheCredit(C) == CHOOSE c \in C : TRUE
CreditIn(C) == IF C = {} THEN 0 ELSE TheCredit(C).amt
On(q, i) == q.cash[i] + q.adj[i] + CreditIn({c \in q.credits : c.inv = i})
FromHold(q) == {c \in q.credits : IsKind(c.src, {"hold"})}

Unused(p) == payment[p].kind = "none"
\* The id of the draw a request on p posts; p stands for none.
DrawIds(p, posts) == IF posts THEN {d \in Payments \ {p} : Unused(d)} ELSE {p}

\* parseSettlement
WellFormed(q) ==
    /\ Total(q.cash) <= q.amount
    /\ q.amount > 0 \/ Total(q.adj) > 0

\* validateSources, over what an edit has set aside
SourcesHold(q, gone, undrawn) ==
    \A c \in q.credits : /\ IsKind(c.src, {"payment", "hold", "memo"}) /\ ~Bounced(c.src)
                         /\ c.amt <= CreditLeft(c.src, gone, undrawn)
\* validateInvoices
InvoicesTake(q, invs) == \A i \in Invoices : On(q, i) <= PayableCents(invs[i])

\* The rows writeSettlement inserts; d is the draw of a credit that is a hold.
Settlement(p, q, d) ==
    SetToBag({Row(p, i, q.cash[i], q.adj[i], FALSE, None) : i \in {j \in Invoices : q.cash[j] + q.adj[j] > 0}}
               \cup {IF c \in FromHold(q) THEN Row(d, c.inv, c.amt, 0, FALSE, None)
                                          ELSE Row(c.src, c.inv, c.amt, 0, TRUE, p) : c \in q.credits})

\* A receipt settled over the rows `gone` and the draws `undrawn` of an edit.
Settles(p, q, d, gone, undrawn) ==
    /\ d \in DrawIds(p, FromHold(q) # {}) /\ WellFormed(q)
    /\ SourcesHold(q, gone, undrawn)
    /\ InvoicesTake(q, Moved(invoice, Copies(gone), EmptyBag))
SettleEffect(p, q, d, gone, undrawn) ==
    LET drawn == CreditIn(FromHold(q)) - TotalOf(undrawn)
        draw == [x \in {d} \ {p} |-> NewPayment("draw", CreditIn(q.credits), 0, "bank", TheCredit(q.credits).src, p)]
    IN [Nothing EXCEPT
           !.gone = Copies(gone), !.new = Settlement(p, q, d),
           !.payment = Over(Only(p, NewPayment("payment", q.amount, Total(q.adj), q.to, None, None)), Over(draw, Voided(undrawn))),
           !.ar = -(q.amount + Total(q.adj) + drawn), !.held = -drawn, !.clearing = InClearing(q.to, q.amount)]

Receive(p, q, d) == Unused(p) /\ Settles(p, q, d, {}, {}) /\ Commit(SettleEffect(p, q, d, {}, {}))

ReceiveHold(p, amount, to) ==
    /\ Unused(p) /\ amount > 0
    /\ Commit([Nothing EXCEPT !.payment = Only(p, NewPayment("hold", amount, 0, to, None, None)),
                              !.held = amount, !.clearing = InClearing(to, amount)])

-----------------------------------------------------------------------------
(* Voiding a receipt, a held deposit or a draw takes the draws made inside  *)
(* it along; so does an edit, which makes them again.                       *)

\* Mutant: a deposited payment is edited and voided like any other.
FreeThoughDeposited(p) == Posted(p) /\ ~Bounced(p)
Free(p) == Posted(p) /\ ~Bounced(p) /\ LiveDepositsFor(p) = {}

\* releasePaymentForVoidInTx of one payment
Releasable(p) ==
    /\ Free(p) /\ refund[p] = 0
    /\ payment[p].kind = "hold" => LiveDraws(p) = {}
    /\ payment[p].kind = "draw" => ~Bounced(payment[p].from)

RowsOf(D) == UNION {LiveApplications(d) \cup CreditsAppliedIn(d) : d \in D}

MayVoidPayment(p) ==
    /\ IsKind(p, {"payment", "hold", "draw"})
    /\ \A x \in {p} \cup DrawsInside(p) : Releasable(x)
VoidPaymentEffect(p) ==
    LET inner == DrawsInside(p)
        row == payment[p]
        drawn == TotalOf(inner) + IF row.kind = "draw" THEN row.total ELSE 0
    IN [Nothing EXCEPT
           !.gone = Copies(RowsOf({p} \cup inner)), !.payment = Voided({p} \cup inner),
           !.ar = drawn + IF row.kind = "payment" THEN row.total + row.adj ELSE 0,
           !.held = drawn - IF row.kind = "hold" THEN row.total ELSE 0,
           !.clearing = -InClearing(row.to, row.total)]
VoidPayment(p) == MayVoidPayment(p) /\ Commit(VoidPaymentEffect(p))

LaterRows(p) == {r \in LiveApplications(p) : r.later}
\* Mutant: what was refunded is forgotten.
InUseWithoutRefunds(p) == Cash(apps, LaterRows(p))
\* The credit an edit must leave room for (CREDIT_IN_USE).
InUse(p) == Cash(apps, LaterRows(p)) + refund[p]
\* The rows an edit sets aside: its own, the credits applied inside it.
SetAside(p) == (LiveApplications(p) \ LaterRows(p)) \cup CreditsAppliedIn(p) \cup RowsOf(DrawsInside(p))

\* An edit that changes nothing but the memo is a stutter here, deposited or not.
MayUpdatePayment(p, q) ==
    /\ IsKind(p, {"payment"}) /\ Free(p) /\ payment[p].total > 0
    /\ \A c \in q.credits : c.src # p
    /\ q.amount - Total(q.cash) >= InUse(p)
    /\ \A x \in DrawsInside(p) : Releasable(x)
UpdatePaymentEffect(p, q, d) ==
    LET new == SettleEffect(p, q, d, SetAside(p), DrawsInside(p))
        old == payment[p]
    IN [new EXCEPT !.ar = @ + old.total + old.adj, !.clearing = @ - InClearing(old.to, old.total)]
UpdatePayment(p, q, d) ==
    /\ MayUpdatePayment(p, q) /\ Settles(p, q, d, SetAside(p), DrawsInside(p))
    /\ Commit(UpdatePaymentEffect(p, q, d))

UpdateHold(p, amount, to) ==
    /\ IsKind(p, {"hold"}) /\ Free(p) /\ LiveDraws(p) = {}
    /\ amount > 0 /\ amount >= InUse(p)
    /\ LET old == payment[p]
       IN Commit([Nothing EXCEPT !.payment = Only(p, [old EXCEPT !.total = amount, !.to = to]),
                     !.held = amount - old.total, !.clearing = InClearing(to, amount) - InClearing(old.to, old.total)])

-----------------------------------------------------------------------------
(* Credit applied later, and taken off again.                               *)

CreditUsable(p, x) ==
    /\ IsKind(p, {"payment", "hold", "memo"}) /\ Posted(p) /\ ~Bounced(p)
    /\ x > 0 /\ x <= CreditRemaining(p)
ApplyCreditEffect(p, i, x, d) ==
    IF IsKind(p, {"hold"})
    THEN [Nothing EXCEPT !.payment = Only(d, NewPayment("draw", x, 0, "bank", p, None)),
                         !.new = SetToBag({Row(d, i, x, 0, FALSE, None)}), !.ar = -x, !.held = -x]
    ELSE [Nothing EXCEPT !.new = SetToBag({Row(p, i, x, 0, TRUE, None)})]
ApplyCredit(p, i, x, d) ==
    /\ CreditUsable(p, x) /\ x <= PayableCents(invoice[i])
    /\ d \in DrawIds(p, IsKind(p, {"hold"}))
    /\ Commit(ApplyCreditEffect(p, i, x, d))

\* Takes one row of an invoice off: which of several is not determined.
Unapply(p, r) ==
    /\ IsKind(p, {"payment", "memo"}) /\ Posted(p) /\ ~Bounced(p)
    /\ r \in LiveApplications(p) /\ r.adj = 0
    /\ Commit([Nothing EXCEPT !.gone = SetToBag({r})])

-----------------------------------------------------------------------------
(* Bounces.                                                                 *)

BounceRows(p) == UNION {LiveApplications(d) : d \in IF IsKind(p, {"hold"}) THEN LiveDraws(p) ELSE {p}}
\* Mutant: the account the payment went to, though a deposit emptied it.
HeldWhereReceived(p) == payment[p].to
\* heldIn: the bank of its deposit, else the account it went to.
HeldIn(p) == IF LiveDepositsFor(p) # {} THEN "bank" ELSE payment[p].to

\* The same rows, each reversed by a bounce or back to live.
Marked(R, by) == [q \in {[r EXCEPT !.by = by] : r \in R} |-> apps[CHOOSE r \in R : [r EXCEPT !.by = by] = q]]

MayBounce(p) ==
    /\ IsKind(p, {"payment", "hold"}) /\ Posted(p) /\ ~Bounced(p)
    /\ refund[p] = 0 /\ payment[p].total > 0
BounceEffect(p) ==
    LET rows == BounceRows(p)
        drawn == TotalOf(LiveDraws(p))
        b == IF IsKind(p, {"hold"}) THEN [at |-> HeldIn(p), ar |-> drawn, held |-> payment[p].total - drawn]
             ELSE [at |-> HeldIn(p), ar |-> payment[p].total + SumOf(apps, rows, LAMBDA r : r.adj), held |-> 0]
    IN [Nothing EXCEPT !.gone = Copies(rows), !.new = Marked(rows, p), !.bounce = Only(p, b),
           !.ar = b.ar, !.held = -b.held, !.clearing = -InClearing(b.at, payment[p].total)]
BouncePayment(p) == MayBounce(p) /\ Commit(BounceEffect(p))

\* Mutant: the payment a credit was applied in is not looked at.
MayComeBackOnInvoice(r) == invoice[r.inv].st = "posted"
\* What reapplyBounceForVoidInTx asks of a row before it is live again.
MayComeBack(r) == invoice[r.inv].st = "posted" /\ (r.inside # None => Posted(r.inside))

\* Mutant: the invoices are not asked whether they still take the rows.
MayVoidBounceUnchecked(p) == Bounced(p) /\ \A r \in ReversedBy(p) : MayComeBack(r)
\* Voiding the returned_payment.
MayVoidBounce(p) ==
    /\ Bounced(p)
    /\ \A r \in ReversedBy(p) : MayComeBack(r)
    /\ \A i \in Invoices : SumOf(apps, {r \in ReversedBy(p) : r.inv = i}, SettledBy) <= PayableCents(invoice[i])
VoidBounceEffect(p) ==
    LET rows == ReversedBy(p)
        b == bounce[p]
    IN [Nothing EXCEPT !.gone = Copies(rows), !.new = Marked(rows, None), !.bounce = Only(p, NoBounce),
           !.ar = -b.ar, !.held = b.held, !.clearing = InClearing(b.at, payment[p].total)]
VoidBounce(p) == MayVoidBounce(p) /\ Commit(VoidBounceEffect(p))

-----------------------------------------------------------------------------
(* Credit memos and refunds.                                                *)

\* A memo may be applied to one invoice as it is saved: min(total, balance).
CreateMemo(m, total, on) ==
    LET rows == {r \in {Row(m, i, Smaller(total, PayableCents(invoice[i])), 0, FALSE, None) : i \in on} : r.amt > 0}
    IN /\ Unused(m) /\ total > 0
       /\ Commit([Nothing EXCEPT !.payment = Only(m, NewPayment("memo", total, 0, "bank", None, None)),
                                 !.new = SetToBag(rows), !.ar = -total])

UpdateMemo(m, total) ==
    /\ IsKind(m, {"memo"}) /\ Posted(m)
    /\ total > 0 /\ total >= Cash(apps, LiveApplications(m)) + refund[m]
    /\ Commit([Nothing EXCEPT !.payment = Only(m, [payment[m] EXCEPT !.total = total]), !.ar = payment[m].total - total])

VoidMemo(m) ==
    /\ IsKind(m, {"memo"}) /\ Posted(m) /\ refund[m] = 0
    /\ Commit([Nothing EXCEPT !.gone = Copies(LiveApplications(m)), !.payment = Voided({m}), !.ar = payment[m].total])

\* The account a refund of p comes out of loses x: Customer Deposits or A/R.
RefundEffect(p, total, x) ==
    IF IsKind(p, {"hold"}) THEN [Nothing EXCEPT !.refund = Only(p, total), !.held = -x]
                           ELSE [Nothing EXCEPT !.refund = Only(p, total), !.ar = x]

\* createCustomerRefund, of any customer payment or memo: a draw is one, and
\* has credit left while the held deposit behind it is bounced.
\* Bound: one live refund of a source.
MayRefund(p, x) ==
    /\ ~Unused(p) /\ ~Bounced(p)
    /\ refund[p] = 0 /\ x > 0 /\ x <= CreditRemaining(p)
Refund(p, x) == MayRefund(p, x) /\ Commit(RefundEffect(p, x, x))

VoidRefund(p) == refund[p] > 0 /\ Commit(RefundEffect(p, 0, -refund[p]))

-----------------------------------------------------------------------------
(* Bank deposits: each takes the whole of what its items hold in Payments   *)
(* Clearing.                                                                *)

\* lockAndValidateSources, for deposit d
Depositable(p, d) ==
    /\ Posted(p) /\ ~Bounced(p) /\ LiveDepositsFor(p) \ {d} = {}
    /\ payment[p].to = "clearing" /\ payment[p].total > 0

\* Mutant: the bounced items of a deposit do not stop a change of it.
SourcesUnchecked(d) == TRUE
\* assertDepositSourcesNotBounced
SourcesUnbounced(d) == \A p \in deposit[d].items : ~Bounced(p)

DepositEffect(d, st, items) ==
    [Nothing EXCEPT !.deposit = Only(d, [st |-> st, items |-> items]),
                    !.clearing = TotalOf(deposit[d].items) - TotalOf(items)]

MayCreateDeposit(d, items) ==
    /\ deposit[d].st = "none" /\ items # {}
    /\ \A p \in items : Depositable(p, d)
CreateDeposit(d, items) == MayCreateDeposit(d, items) /\ Commit(DepositEffect(d, "posted", items))

MayUpdateDeposit(d, items) ==
    /\ deposit[d].st = "posted" /\ SourcesUnbounced(d)
    /\ \A p \in items : Depositable(p, d)
UpdateDeposit(d, items) == MayUpdateDeposit(d, items) /\ Commit(DepositEffect(d, "posted", items))

\* A delete releases the same links and takes back the same lines.
MayVoidDeposit(d) == deposit[d].st = "posted" /\ SourcesUnbounced(d)
VoidDeposit(d) == MayVoidDeposit(d) /\ Commit(DepositEffect(d, "void", {}))

-----------------------------------------------------------------------------
(* Invoices.                                                                *)

UpdateInvoice(i, total) ==
    LET inv == invoice[i]
    IN /\ inv.st = "posted" /\ inv.balance > 0
       /\ total > 0 /\ total >= inv.paid
       /\ Commit([Nothing EXCEPT !.invoice = Only(i, [inv EXCEPT !.total = total, !.balance = total - inv.paid]),
                                 !.ar = total - inv.total])

\* assertInvoiceUnapplied
Unapplied(i) == \A r \in DOMAIN apps : ~(r.inv = i /\ r.by = None /\ Posted(r.pay))

MayVoidInvoice(i) == invoice[i].st = "posted" /\ Unapplied(i)
VoidInvoiceEffect(i) == [Nothing EXCEPT !.invoice = Only(i, [invoice[i] EXCEPT !.st = "void"]), !.ar = -invoice[i].total]
VoidInvoice(i) == MayVoidInvoice(i) /\ Commit(VoidInvoiceEffect(i))

-----------------------------------------------------------------------------
Amounts == 0 .. MaxAmount
Credits == {{}} \cup {{[src |-> s, inv |-> i, amt |-> x]} : s \in Payments, i \in Invoices, x \in 1 .. MaxAmount}
Applied(V) == {f \in [Invoices -> V \cup {0}] : Cardinality({i \in Invoices : f[i] > 0}) <= MaxApplied}
Bodies == [amount : Amounts, to : Places, cash : Applied(Amounts), adj : Applied(Adjustments), credits : Credits]

OfKind(K) == {p \in Payments : IsKind(p, K)}
ReceiptStep ==
    \/ \E p \in {x \in Payments : Unused(x)}, q \in Bodies : \E d \in DrawIds(p, FromHold(q) # {}) : Receive(p, q, d)
    \/ \E p \in OfKind({"payment"}), q \in Bodies : \E d \in DrawIds(p, FromHold(q) # {}) : UpdatePayment(p, q, d)
    \/ \E p \in Payments : VoidPayment(p)
HoldStep ==
    \E p \in Payments, amount \in Amounts, to \in Places : ReceiveHold(p, amount, to) \/ UpdateHold(p, amount, to)
CreditStep ==
    \E p \in Payments :
       \/ \E i \in Invoices, x \in Amounts : \E d \in DrawIds(p, IsKind(p, {"hold"})) : ApplyCredit(p, i, x, d)
       \/ \E r \in DOMAIN apps : Unapply(p, r)
BounceStep == \E p \in Payments : BouncePayment(p) \/ VoidBounce(p)
MemoStep ==
    \E m \in Payments :
       \/ \E total \in Amounts, i \in Invoices : \E on \in {{}, {i}} : CreateMemo(m, total, on)
       \/ \E total \in Amounts : UpdateMemo(m, total)
       \/ VoidMemo(m)
RefundStep == \E p \in Payments : VoidRefund(p) \/ \E x \in Amounts : Refund(p, x)
DepositStep ==
    \E d \in Deposits :
       \/ \E items \in SUBSET Payments : CreateDeposit(d, items) \/ UpdateDeposit(d, items)
       \/ VoidDeposit(d)
InvoiceStep == \E i \in Invoices : VoidInvoice(i) \/ \E total \in Amounts : UpdateInvoice(i, total)

PaymentsNext ==
    \/ "hold" \in Operations /\ HoldStep
    \/ "credit" \in Operations /\ CreditStep
    \/ "bounce" \in Operations /\ BounceStep
    \/ "memo" \in Operations /\ MemoStep
    \/ "refund" \in Operations /\ RefundStep
    \/ "deposit" \in Operations /\ DepositStep
    \/ "invoice" \in Operations /\ InvoiceStep
    \/ ReceiptStep

PaymentsSpec == PaymentsInit /\ [][PaymentsNext]_vars
-----------------------------------------------------------------------------
(* Properties.                                                              *)

\* moveInvoicePaid keeps amount_paid by adding and taking away: on every
\* invoice it is what the live rows settle, and balance_due is never negative.
PaidMatchesApplications ==
    \A i \in Invoices :
        /\ invoice[i].paid = SumOf(apps, {r \in DOMAIN apps : r.inv = i /\ r.by = None}, SettledBy)
        /\ invoice[i].balance = invoice[i].total - invoice[i].paid
        /\ invoice[i].balance >= 0

Uses(p) == refund[p] + IF IsKind(p, {"hold"}) THEN TotalOf(LiveDraws(p)) ELSE Cash(apps, LiveApplications(p))

\* A source never gives more than it received, through receipts, later
\* applications, draws, refunds, edits, bounces and their voids
\* (validateSources, CREDIT_IN_USE, applyCreditInTx, createCustomerRefund).
CreditNotOverdrawn ==
    \A p \in Payments : IsKind(p, {"payment", "hold", "memo"}) => Uses(p) <= payment[p].total

Open(i) == IF invoice[i].st = "posted" THEN invoice[i].balance ELSE 0
CreditOf(K) == SumOver([p \in OfKind(K) |-> CreditRemaining(p)], OfKind(K))
Pending == {p \in Payments : Depositable(p, None)}

\* What was refunded of draws; it is taken out of A/R, not Customer Deposits.
RefundedOfDraws == SumOver([p \in OfKind({"draw"}) |-> refund[p]], OfKind({"draw"}))

\* The journal lines every operation posts keep the control accounts equal to
\* their subledgers: A/R is the open invoices less the open credits, and what
\* was refunded of draws, which no credit makes up for; Customer Deposits is
\* what is left of the held deposits, Payments Clearing the items
\* listPendingDepositItems shows.
ControlAccountsTieOut ==
    /\ books.ar = SumOver([i \in Invoices |-> Open(i)], Invoices) - CreditOf({"payment", "memo"}) + RefundedOfDraws
    /\ books.held = CreditOf({"hold"})
    /\ books.clearing = TotalOf(Pending)

\* A live application stands on posted, unbounced money and a posted invoice:
\* its source, the held deposit behind a draw, the payment it was applied in
\* (releasePaymentForVoidInTx, reapplyBounceForVoidInTx, assertInvoiceUnapplied).
LiveRowsStand ==
    \A r \in DOMAIN apps : r.by = None =>
        /\ invoice[r.inv].st = "posted"
        /\ Posted(r.pay) /\ ~Bounced(r.pay)
        /\ IsKind(r.pay, {"draw"}) => Posted(payment[r.pay].from) /\ ~Bounced(payment[r.pay].from)
        /\ r.inside # None => Posted(r.inside)

\* Each item of a posted deposit is posted, went to Payments Clearing and is in
\* no other posted deposit (TXN_DEPOSITED, ALREADY_DEPOSITED).
DepositsHoldPostedItems ==
    \A d \in Deposits : \A p \in deposit[d].items :
        Posted(p) /\ payment[p].to = "clearing" /\ LiveDepositsFor(p) = {d}

\* While a payment is bounced nothing about it changes: its row, the draws made
\* on it, its refunds, the deposit that holds it and the rows its bounce took
\* back wait for the bounce to be voided (409 PAYMENT_BOUNCED).
BouncedIsReadOnly ==
    [][\A p \in Payments : Bounced(p) /\ Bounced(p)' =>
          /\ payment'[p] = payment[p] /\ refund'[p] = refund[p]
          /\ LiveDepositsFor(p)' = LiveDepositsFor(p) /\ LiveDraws(p)' = LiveDraws(p)
          /\ Reversal(p)' = Reversal(p)]_vars
=============================================================================
