---------------------------- MODULE PaymentLocks ----------------------------
(***************************************************************************)
(* Concurrent writes on customer payments, with the row locks of           *)
(* payment.service.ts, deposit.service.ts and voidTransactionInTx (E-B1).  *)
(* A request reads what its payment is linked to, locks the deposits       *)
(* holding it and then the payments in id order, one row at a time, reads  *)
(* the links again and what its checks need, locks the invoices, checks    *)
(* them and commits what it computed from those reads.  Statements see     *)
(* what is committed (READ COMMITTED).  ImplementsPayments says that each   *)
(* commit is then one operation of Payments.                               *)
(***************************************************************************)
EXTENDS Payments

CONSTANTS
    Requests,    \* the requests
    Menu,        \* bound: the operations requested
    Starts,      \* bound: states of the tables the requests meet
    MaxRequests  \* bound: operations begun in all

\* The operations there are: on a payment, an invoice or a deposit.  A new
\* row's id comes with the operation: its payment's or its draw's (NewIds).
Ops ==
    [op : {"bounce", "voidPayment", "voidBounce"}, p : Payments, draw : {None}]
      \cup [op : {"unapply"}, p : Payments, draw : {None}, i : Invoices]
      \cup [op : {"refund"}, p : Payments, draw : {None}, x : Amounts]
      \cup {o \in [op : {"applyCredit"}, p : Payments, draw : Payments, i : Invoices, x : Amounts] : o.draw # o.p}
      \cup {o \in [op : {"receive", "updatePayment"}, p : Payments, draw : Payments, q : Bodies] : o.draw # o.p}
      \cup [op : {"createDeposit", "updateDeposit"}, p : {None}, draw : {None}, d : Deposits, items : SUBSET Payments]
      \cup [op : {"voidDeposit"}, p : {None}, draw : {None}, d : Deposits]
      \cup [op : {"voidInvoice"}, p : {None}, draw : {None}, i : Invoices]

\* Ids are numbers here, for ORDER BY id; Payments takes these operations.
ASSUME LocksAssumption ==
    /\ Menu \subseteq Ops
    /\ Payments \cup Invoices \cup Deposits \subseteq Nat
    /\ {"credit", "bounce", "refund", "deposit", "invoice"} \subseteq Operations

VARIABLES
    req,     \* the request each worker is on
    begun,   \* how many operations have begun
    returns  \* how many returned_payment rows a payment has had

lvars == <<vars, req, begun, returns>>

Idle == [st |-> "idle", op |-> None, ret |-> 0, queue |-> {}, held |-> {}, effect |-> Nothing]

LocksInit ==
    /\ \E s \in Starts : /\ invoice = s.invoice /\ payment = s.payment /\ apps = s.apps /\ bounce = s.bounce
                         /\ refund = s.refund /\ deposit = s.deposit /\ books = s.books
    /\ req = [r \in Requests |-> Idle] /\ begun = 0
    /\ returns = [p \in Payments |-> IF Bounced(p) THEN 1 ELSE 0]

-----------------------------------------------------------------------------
(* The rows an operation locks.  Each SELECT ... FOR UPDATE takes the rows   *)
(* of one table in id order; `turn` is the payment whose rows they are, for  *)
(* a void takes those of the draws inside the payment one draw at a time.    *)

Rows(table, ids, turn) == {[table |-> table, id |-> x, turn |-> turn] : x \in ids}

\* Mutant: the payments before the deposits.
PaymentsFirst == [payment |-> 1, deposit |-> 2, invoice |-> 3]
\* The one lock order of the tables (E-B1).
LockRank == [deposit |-> 1, payment |-> 2, invoice |-> 3]
Before(o, a, b) ==
    \/ LockRank[a.table] < LockRank[b.table]
    \/ a.table = b.table /\ a.turn = b.turn /\ a.id < b.id
    \/ a.table = b.table /\ a.turn # b.turn /\ a.turn # o.p /\ (b.turn = o.p \/ a.turn < b.turn)

SomeId(S) == S \ {None}
PostedReceipts == {x \in Payments : IsKind(x, {"payment", "hold", "draw"}) /\ Posted(x)}

\* paymentScope: the payments a write on p touches
ScopeOf(p) ==
    LET inside == {x \in PostedReceipts : payment[x].inside = p}
    IN SomeId({p} \cup {r.inside : r \in LiveApplications(p)} \cup {r.pay : r \in CreditsAppliedIn(p)}
                  \cup {payment[x].from : x \in {p} \cup inside}
                  \cup inside \cup {x \in PostedReceipts : payment[x].from = p})

Scoped == {"bounce", "voidPayment", "voidBounce", "unapply", "updatePayment"}
SourcesOf(q) == {c.src : c \in q.credits}

\* What is locked with the scope: by the void of a bounce the payments of the
\* rows it reversed (lockForVoidInTx), by an edit the sources of its credits.
Extra(o) ==
    CASE o.op = "voidBounce" -> SomeId({r.pay : r \in ReversedBy(o.p)} \cup {r.inside : r \in ReversedBy(o.p)})
      [] o.op = "updatePayment" -> SourcesOf(o.q)
      [] OTHER -> {}

\* The rows locked before anything is checked.
FirstLocks(o) ==
    CASE o.op \in Scoped -> Rows("deposit", LiveDepositsFor(o.p), o.p)
                              \cup Rows("payment", ScopeOf(o.p) \cup Extra(o), o.p)  \* lockPaymentScope
      [] o.op = "receive" -> Rows("payment", SourcesOf(o.q), o.p)
      [] o.op \in {"applyCredit", "refund"} -> Rows("payment", {o.p}, o.p)
      [] o.op = "createDeposit" -> Rows("payment", o.items, o.p)
      [] o.op \in {"updateDeposit", "voidDeposit"} -> Rows("deposit", {o.d}, o.p)
      [] o.op = "voidInvoice" -> Rows("invoice", {o.i}, o.p)

InvoicesOf(R) == {r.inv : r \in R}

\* Voiding or editing a payment voids the draws made inside it first, one by
\* one, each with its invoices; then come the invoices of its own.
DrawLocks(p) == UNION {Rows("invoice", InvoicesOf(RowsOf({x})), x) : x \in DrawsInside(p)}
VoidLocks(p) == DrawLocks(p) \cup Rows("invoice", InvoicesOf(RowsOf({p})), p)
OwnRows(p) == (LiveApplications(p) \ LaterRows(p)) \cup CreditsAppliedIn(p)
SettledIn(q) == {i \in Invoices : On(q, i) > 0}
UpdateLocks(p, q) == DrawLocks(p) \cup Rows("invoice", InvoicesOf(OwnRows(p)) \cup SettledIn(q), p)

\* The rows locked once the first are held and checked.
SecondLocks(o) ==
    CASE o.op = "bounce" -> Rows("invoice", InvoicesOf(BounceRows(o.p)), o.p)
      [] o.op = "voidPayment" -> VoidLocks(o.p)
      [] o.op = "voidBounce" -> Rows("invoice", InvoicesOf(ReversedBy(o.p)), o.p)
      [] o.op \in {"unapply", "applyCredit"} -> Rows("invoice", {o.i}, o.p)
      [] o.op = "receive" -> Rows("invoice", SettledIn(o.q), o.p)
      [] o.op = "updatePayment" -> UpdateLocks(o.p, o.q)
      [] o.op = "updateDeposit" -> Rows("payment", o.items, o.p)
      [] OTHER -> {}

-----------------------------------------------------------------------------
(* What is checked under the first locks, and what under all of them.       *)

\* Mutant: the links are not read again.
NeverStale(o, held) == FALSE
\* 409 STALE: the links read again hold a row that is not locked.
Stale(o, held) ==
    /\ o.op \in Scoped
    /\ ~({<<"deposit", d>> : d \in LiveDepositsFor(o.p)} \cup {<<"payment", x>> : x \in ScopeOf(o.p)} \subseteq held)

RowsOn(o) == {r \in LiveApplications(o.p) : r.inv = o.i /\ r.adj = 0}

FirstCheck(o) ==
    CASE o.op = "bounce" -> MayBounce(o.p)
      [] o.op = "voidPayment" -> MayVoidPayment(o.p)
      [] o.op = "voidBounce" -> Bounced(o.p)
      [] o.op = "unapply" -> IsKind(o.p, {"payment"}) /\ Posted(o.p) /\ ~Bounced(o.p) /\ RowsOn(o) # {}
      [] o.op = "receive" -> WellFormed(o.q) /\ SourcesHold(o.q, {}, {})
      [] o.op = "updatePayment" -> WellFormed(o.q) /\ MayUpdatePayment(o.p, o.q)
      [] o.op = "applyCredit" -> CreditUsable(o.p, o.x)
      [] o.op = "refund" -> MayRefund(o.p, o.x)
      [] o.op = "createDeposit" -> MayCreateDeposit(o.d, o.items)
      [] o.op = "updateDeposit" -> deposit[o.d].st = "posted" /\ SourcesUnbounced(o.d)
      [] o.op = "voidDeposit" -> MayVoidDeposit(o.d)
      [] o.op = "voidInvoice" -> MayVoidInvoice(o.i)

\* The draw an operation posts has an id nobody else has.
DrawOf(o, posts) == IF posts THEN o.draw ELSE o.p

Effect(o) ==
    CASE o.op = "bounce" -> BounceEffect(o.p)
      [] o.op = "voidPayment" -> VoidPaymentEffect(o.p)
      [] o.op = "voidBounce" -> VoidBounceEffect(o.p)
      [] o.op = "unapply" -> [Nothing EXCEPT !.gone = SetToBag({CHOOSE r \in RowsOn(o) : TRUE})]
      [] o.op = "receive" -> SettleEffect(o.p, o.q, DrawOf(o, FromHold(o.q) # {}), {}, {})
      [] o.op = "updatePayment" -> UpdatePaymentEffect(o.p, o.q, DrawOf(o, FromHold(o.q) # {}))
      [] o.op = "applyCredit" -> ApplyCreditEffect(o.p, o.i, o.x, DrawOf(o, IsKind(o.p, {"hold"})))
      [] o.op = "refund" -> RefundEffect(o.p, o.x, o.x)
      [] o.op \in {"createDeposit", "updateDeposit"} -> DepositEffect(o.d, "posted", o.items)
      [] o.op = "voidDeposit" -> DepositEffect(o.d, "void", {})
      [] o.op = "voidInvoice" -> VoidInvoiceEffect(o.i)

\* updatePayment's validateSources and validateInvoices, over what it sets aside
EditHolds(p, q) ==
    /\ SourcesHold(q, SetAside(p), DrawsInside(p))
    /\ InvoicesTake(q, Moved(invoice, Copies(SetAside(p)), EmptyBag))

SecondCheck(o) ==
    CASE o.op = "voidBounce" -> MayVoidBounce(o.p)
      [] o.op = "receive" -> InvoicesTake(o.q, invoice)
      [] o.op = "updatePayment" -> EditHolds(o.p, o.q)
      [] o.op = "applyCredit" -> o.x <= PayableCents(invoice[o.i])
      [] o.op = "updateDeposit" -> \A p \in o.items : Depositable(p, o.d)
      [] OTHER -> TRUE

-----------------------------------------------------------------------------
Holder(row) == {r \in Requests : row \in req[r].held}

\* The ids of the rows an operation inserts, and the rows it names.
NewIds(o) ==
    {<<"payment", x>> : x \in SomeId({o.draw} \cup IF o.op = "receive" THEN {o.p} ELSE {})}
      \cup {<<"deposit", d>> : d \in IF o.op = "createDeposit" THEN {o.d} ELSE {}}
Named(o) ==
    {<<"payment", x>> : x \in CASE o.op = "receive" -> SourcesOf(o.q)
                                [] o.op = "updatePayment" -> {o.p} \cup SourcesOf(o.q)
                                [] o.op \in {"createDeposit", "updateDeposit"} -> o.items
                                [] OTHER -> SomeId({o.p})}
      \cup {<<"deposit", d>> : d \in IF o.op \in {"updateDeposit", "voidDeposit"} THEN {o.d} ELSE {}}
InUseId(row) == IF row[1] = "payment" THEN ~Unused(row[2]) ELSE deposit[row[2]].st # "none"
\* Ids are random: a new row's is nobody else's, and no row is named before
\* there is one (404).
Fresh(o) ==
    /\ \A row \in NewIds(o) : ~InUseId(row) /\ \A s \in Requests : req[s] # Idle => row \notin NewIds(req[s].op)
    /\ \A row \in Named(o) : InUseId(row)

\* The void of a bounce names one returned_payment of the payment, its last.
Begin(r, o) ==
    /\ req[r] = Idle /\ begun < MaxRequests /\ Fresh(o)
    /\ o.op = "voidBounce" => returns[o.p] > 0
    /\ begun' = begun + 1
    /\ req' = [req EXCEPT ![r] = [st |-> "first", op |-> o, ret |-> IF o.op = "voidBounce" THEN returns[o.p] ELSE 0,
                                  queue |-> FirstLocks(o), held |-> {}, effect |-> Nothing]]
    /\ UNCHANGED <<vars, returns>>

\* The row a request asks for next.
NextRows(r) == {w \in req[r].queue : \A v \in req[r].queue \ {w} : Before(req[r].op, w, v)}
RowOf(w) == <<w.table, w.id>>

\* SELECT ... FOR UPDATE takes the next row, or waits for who holds it.
Lock(r) ==
    \E w \in NextRows(r) :
        /\ Holder(RowOf(w)) \subseteq {r}
        /\ req' = [req EXCEPT ![r].queue = @ \ {w}, ![r].held = @ \cup {RowOf(w)}]
        /\ UNCHANGED <<vars, begun, returns>>

Locked(r, st) == req[r].st = st /\ req[r].queue = {}

\* The links stand, so do the checks; a returned_payment named is the live one.
LinksStand(r) ==
    LET o == req[r].op
    IN /\ ~Stale(o, req[r].held) /\ FirstCheck(o)
       /\ o.op = "voidBounce" => req[r].ret = returns[o.p]

\* A change of a deposit reads its items, and computes its lines, once they
\* are locked; the others have read all they write under the first locks.
ReadsLater(o) == o.op = "updateDeposit"
EffectRead(q) == IF ReadsLater(q.op) THEN q.effect ELSE Effect(q.op)
EffectReadLater(q) == IF ReadsLater(q.op) THEN Effect(q.op) ELSE q.effect

CheckLinks(r) ==
    LET o == req[r].op
    IN /\ Locked(r, "first") /\ LinksStand(r)
       /\ req' = [req EXCEPT ![r] = [@ EXCEPT !.st = "second", !.queue = SecondLocks(o), !.effect = EffectRead(req[r])]]
       /\ UNCHANGED <<vars, begun, returns>>

CheckInvoices(r) ==
    LET o == req[r].op
    IN /\ Locked(r, "second") /\ SecondCheck(o)
       /\ req' = [req EXCEPT ![r] = [@ EXCEPT !.st = "commit", !.effect = EffectReadLater(req[r])]]
       /\ UNCHANGED <<vars, begun, returns>>

\* A refused request rolls back: its locks go, nothing was written.
Refuse(r) ==
    /\ \/ Locked(r, "first") /\ ~LinksStand(r)
       \/ Locked(r, "second") /\ ~SecondCheck(req[r].op)
    /\ req' = [req EXCEPT ![r] = Idle]
    /\ UNCHANGED <<vars, begun, returns>>

CommitStep(r) ==
    /\ req[r].st = "commit"
    /\ Commit(req[r].effect)
    /\ req' = [req EXCEPT ![r] = Idle]
    /\ returns' = IF req[r].op.op = "bounce" THEN [returns EXCEPT ![req[r].op.p] = @ + 1] ELSE returns
    /\ UNCHANGED begun

WaitsFor(r) == UNION {Holder(RowOf(w)) : w \in NextRows(r)} \ {r}

\* PostgreSQL ends one of two transactions that wait on each other (40P01).
DeadlockAbort(r) ==
    /\ \E s \in WaitsFor(r) : r \in WaitsFor(s)
    /\ req' = [req EXCEPT ![r] = Idle]
    /\ UNCHANGED <<vars, begun, returns>>

LocksNext ==
    \E r \in Requests :
       \/ \E o \in Menu : Begin(r, o)
       \/ Lock(r) \/ CheckLinks(r) \/ CheckInvoices(r) \/ Refuse(r) \/ CommitStep(r)
       \/ DeadlockAbort(r)

LocksSpec == LocksInit /\ [][LocksNext]_lvars

-----------------------------------------------------------------------------
(* Properties.                                                              *)

\* Each commit is one operation of Payments on the tables as they are then:
\* what was read before the last lock was granted still holds (E-B1).
ImplementsPayments == [][vars' # vars => PaymentsNext]_vars

\* The operations that lock invoices draw by draw before those of their own.
LocksByDraw(o) == o.op \in {"voidPayment", "updatePayment"} /\ DrawsInside(o.p) # {}

\* "the one lock order (E-B1)": of two requests that wait on each other, one
\* voids or edits a receipt with draws made inside it, whose invoices it locks
\* draw by draw.
OneLockOrder ==
    \A r, s \in Requests :
        s \in WaitsFor(r) /\ r \in WaitsFor(s) => \E x \in {r, s} : LocksByDraw(req[x].op)
=============================================================================
