------------------------- MODULE PaymentLocksProofs -------------------------
(***************************************************************************)
(* Proofs about PaymentLocks, for any requests, payments, invoices and     *)
(* deposits: every commit of a concurrent execution is one operation of    *)
(* Payments on the tables as they are then, so every invariant proved of   *)
(* Payments holds under the row locks; and two requests wait on each other *)
(* only where one voids or edits a receipt with draws made inside it.      *)
(*                                                                         *)
(* The argument is rely and guarantee.  A commit writes only rows that its *)
(* request holds or inserts, and rows linked to no other (Footprint,       *)
(* EffectFootprint); so it leaves every other request's rows, and all that *)
(* is linked to them, as they were (Undisturbed, CommitElsewhere); so what  *)
(* a request has read under its locks still stands (ReadsStay, ChecksStay). *)
(* LockInv says just that of every request (ReadStands).                   *)
(***************************************************************************)
EXTENDS PaymentLocks, PaymentsProofs

-----------------------------------------------------------------------------
(* The operations and what they name.                                      *)

OnPayment == Scoped \cup {"refund", "applyCredit", "receive"}

LEMMA OpIs ==
    ASSUME NEW o \in Ops
    PROVE  /\ o.op \in OnPayment \cup {"createDeposit", "updateDeposit", "voidDeposit", "voidInvoice"}
           /\ o.op \in OnPayment => o.p \in Payments
           /\ o.op \notin OnPayment => o.p = None
           /\ o.op \in {"unapply", "applyCredit", "voidInvoice"} => o.i \in Invoices
           /\ o.op \in {"refund", "applyCredit"} => o.x \in Amounts
           /\ o.op \in {"applyCredit", "receive", "updatePayment"} => o.draw \in Payments /\ o.draw # o.p
           /\ o.op \notin {"applyCredit", "receive", "updatePayment"} => o.draw = None
           /\ o.op \in {"receive", "updatePayment"} => o.q \in Bodies
           /\ o.op \in {"createDeposit", "updateDeposit"} => o.items \in SUBSET Payments
           /\ o.op \in {"createDeposit", "updateDeposit", "voidDeposit"} => o.d \in Deposits
BY DEF Ops, OnPayment, Scoped

-----------------------------------------------------------------------------
(* What a commit writes, and what the rows in hand keep meanwhile.         *)

\* A receipt in no deposit written anew: it is on no other payment.
Rewritten(x, row) ==
    /\ IsKind(x, {"payment"}) /\ LiveDepositsFor(x) = {}
    /\ row.kind = "payment" /\ row.st = "posted" /\ row.from = None /\ row.inside = None

\* An effect writes rows of P, D and I only.  It inserts rows, voids them or
\* edits a receipt, and what these rows are linked to is in P, D and I too.
WritesPayment(x, row, P) ==
    \/ /\ Unused(x) /\ row.from \in P \cup {None} /\ row.inside \in P \cup {None}
       /\ row.kind # "draw" => row.from = None
    \/ ~Unused(x) /\ payment[x].from \in P \cup {None} /\ row = [payment[x] EXCEPT !.st = "void"]
    \/ Rewritten(x, row)
Footprint(e, P, D, I) ==
    /\ DOMAIN e.payment \subseteq P /\ DOMAIN e.bounce \subseteq P /\ DOMAIN e.refund \subseteq P
    /\ DOMAIN e.deposit \subseteq D /\ DOMAIN e.invoice \subseteq I
    /\ \A x \in DOMAIN e.payment : WritesPayment(x, e.payment[x], P)
    /\ \A x \in DOMAIN e.bounce : LiveDepositsFor(x) \subseteq D
    /\ \A d \in DOMAIN e.deposit : e.deposit[d].items \subseteq P /\ e.deposit[d].st # "none"
    /\ \A r \in DOMAIN e.gone \cup DOMAIN e.new :
          r.pay \in P /\ r.inside \in P \cup {None} /\ r.by \in P \cup {None} /\ r.inv \in I

\* A commit that writes none of the rows P, D and I leaves what they say, and
\* what is linked to them, as it was.
SamePayments(P) ==
    /\ \A x \in P : payment'[x] = payment[x] /\ bounce'[x] = bounce[x] /\ refund'[x] = refund[x]
    /\ \A x \in Payments \ P :
          \/ payment'[x] = payment[x]
          \/ Unused(x) /\ payment'[x].from \notin P /\ payment'[x].inside \notin P
          \/ ~Unused(x) /\ payment[x].from \notin P /\ payment'[x] = [payment[x] EXCEPT !.st = "void"]
          \/ Rewritten(x, payment'[x])
SameRows(P, I) ==
    \A r \in DOMAIN apps \cup DOMAIN apps' :
       r.pay \in P \/ r.inside \in P \/ r.by \in P \/ r.inv \in I =>
          r \in DOMAIN apps /\ r \in DOMAIN apps' /\ apps'[r] = apps[r]
SameDeposits(P, D) ==
    /\ \A d \in D : deposit'[d] = deposit[d]
    /\ \A d \in Deposits \ D : deposit'[d] = deposit[d] \/ deposit'[d].items \cap P = {}
SameBounces(D) == \A x \in Payments : bounce'[x] = bounce[x] \/ LiveDepositsFor(x) \cap D = {}
Undisturbed(P, D, I) ==
    /\ P \subseteq Payments /\ D \subseteq Deposits /\ I \subseteq Invoices
    /\ SamePayments(P) /\ SameRows(P, I) /\ SameDeposits(P, D) /\ SameBounces(D)
    /\ \A i \in I : invoice'[i] = invoice[i]

LEMMA NoneWrites ==
    ASSUME NEW P \in SUBSET Payments, NEW D \in SUBSET Deposits, NEW I \in SUBSET Invoices, UNCHANGED vars
    PROVE  Undisturbed(P, D, I)
BY DEF Undisturbed, SamePayments, SameRows, SameDeposits, SameBounces, vars

\* The rows a commit does not name keep their copies.
LEMMA RowsApart ==
    ASSUME AllPaid, NEW e, Commit(e), NEW r, r \notin DOMAIN e.gone, r \notin DOMAIN e.new
    PROVE  (r \in DOMAIN apps' <=> r \in DOMAIN apps) /\ (r \in DOMAIN apps => apps'[r] = apps[r])
<1> DEFINE left == apps (-) e.gone
<1>1. apps' = left (+) e.new
  BY DEF Commit
<1>2. \A x \in DOMAIN apps : apps[x] \in Nat \ {0}
  BY DEF AllPaid, PayInv, Tables
<1>3. (r \in DOMAIN left <=> r \in DOMAIN apps) /\ (r \in DOMAIN apps => left[r] = apps[r])
  BY <1>2 DEF (-)
<1> HIDE DEF left
<1>4. /\ DOMAIN (left (+) e.new) = DOMAIN left \cup DOMAIN e.new
      /\ r \in DOMAIN left => (left (+) e.new)[r] = left[r] + 0
  BY DEF (+)
<1> QED
  BY <1>1, <1>2, <1>3, <1>4

\* Nothing is summed over no row.
LEMMA NothingPaid ==
    ASSUME NEW A, NEW i, \A r \in DOMAIN A : r.inv # i
    PROVE  PaidBy(A, i) = 0
<1>1. PICK R : R = {r \in DOMAIN A : r.inv = i /\ r.by = None}
  OBVIOUS
<1>2. PICK f : f = [r \in R |-> A[r] * SettledBy(r)]
  OBVIOUS
<1>3. PaidBy(A, i) = SumOn(f, R)
  BY <1>1, <1>2 DEF PaidBy, SumOf, SumOver, SumOn
<1>4. R = {}
  BY <1>1
<1> QED
  BY <1>3, <1>4, SumOnEmpty

\* An invoice no row of the effect is on stays as it is.
LEMMA InvoiceApart ==
    ASSUME AllPaid, NEW e, Commit(e), NEW i \in Invoices, i \notin DOMAIN e.invoice,
           \A r \in DOMAIN e.gone \cup DOMAIN e.new : r.inv # i
    PROVE  invoice'[i] = invoice[i]
<1>1. PaidBy(e.new, i) = 0 /\ PaidBy(e.gone, i) = 0
  BY NothingPaid
<1>2. invoice' = Over(e.invoice, Moved(invoice, e.gone, e.new))
  BY DEF Commit
<1>3. DOMAIN Moved(invoice, e.gone, e.new) = Invoices
  BY DEF Moved
<1>4. invoice'[i] = Moved(invoice, e.gone, e.new)[i]
  BY <1>2, <1>3 DEF Over
<1>5. PICK row : row = invoice[i]
  OBVIOUS
<1>6. row \in InvoiceRow
  BY <1>5 DEF AllPaid, PaidInv, PaidTies
<1>7. row.paid \in Int /\ row.balance \in Int
  BY <1>6 DEF InvoiceRow
<1>8. PICK paid : paid = row.paid + PaidBy(e.new, i) - PaidBy(e.gone, i)
  OBVIOUS
<1>9. paid = row.paid
  BY <1>1, <1>7, <1>8
<1>10. Moved(invoice, e.gone, e.new)[i] = [row EXCEPT !.paid = paid, !.balance = @ - (paid - row.paid)]
  BY <1>5, <1>8 DEF Moved
<1>11. row.balance - (paid - row.paid) = row.balance
  BY <1>7, <1>9
<1>12. [row EXCEPT !.paid = paid, !.balance = @ - (paid - row.paid)] = row
  BY <1>6, <1>9, <1>11 DEF InvoiceRow
<1> QED
  BY <1>4, <1>5, <1>10, <1>12

\* A commit leaves alone what is in hand elsewhere.
LEMMA CommitElsewhere ==
    ASSUME AllPaid, NEW e, Commit(e), NEW P, NEW D, NEW I, Footprint(e, P, D, I),
           NEW P2 \in SUBSET Payments, NEW D2 \in SUBSET Deposits, NEW I2 \in SUBSET Invoices,
           P \cap P2 = {}, D \cap D2 = {}, I \cap I2 = {}, P \subseteq Payments, D \subseteq Deposits
    PROVE  Undisturbed(P2, D2, I2)
<1>1. /\ DOMAIN payment = Payments /\ DOMAIN bounce = Payments /\ DOMAIN refund = Payments
      /\ DOMAIN deposit = Deposits
  BY DEF AllPaid, PayInv, Tables
<1>2. /\ payment' = Over(e.payment, payment) /\ bounce' = Over(e.bounce, bounce)
      /\ refund' = Over(e.refund, refund) /\ deposit' = Over(e.deposit, deposit)
  BY DEF Commit
<1>3. /\ DOMAIN e.payment \subseteq P /\ DOMAIN e.bounce \subseteq P /\ DOMAIN e.refund \subseteq P
      /\ DOMAIN e.deposit \subseteq D /\ DOMAIN e.invoice \subseteq I
  BY DEF Footprint
<1>4. None \notin P2
  BY PaymentsAssumption
<1>5. SamePayments(P2)
  <2>1. \A x \in P2 : payment'[x] = payment[x] /\ bounce'[x] = bounce[x] /\ refund'[x] = refund[x]
    BY <1>1, <1>2, <1>3 DEF Over
  <2>2. \A x \in Payments : payment'[x] = IF x \in DOMAIN e.payment THEN e.payment[x] ELSE payment[x]
    BY <1>1, <1>2 DEF Over
  <2>3. \A x \in DOMAIN e.payment : WritesPayment(x, e.payment[x], P)
    BY DEF Footprint
  <2>4. ASSUME NEW x \in Payments \ P2, x \in DOMAIN e.payment
        PROVE  \/ Unused(x) /\ payment'[x].from \notin P2 /\ payment'[x].inside \notin P2
               \/ ~Unused(x) /\ payment[x].from \notin P2 /\ payment'[x] = [payment[x] EXCEPT !.st = "void"]
               \/ Rewritten(x, payment'[x])
    BY <1>4, <2>2, <2>3, <2>4 DEF WritesPayment
  <2> QED
    BY <2>1, <2>2, <2>4 DEF SamePayments
<1>6. SameRows(P2, I2)
  <2>1. SUFFICES ASSUME NEW r \in DOMAIN apps \cup DOMAIN apps',
                        r.pay \in P2 \/ r.inside \in P2 \/ r.by \in P2 \/ r.inv \in I2
                 PROVE  r \in DOMAIN apps /\ r \in DOMAIN apps' /\ apps'[r] = apps[r]
    BY DEF SameRows
  <2>2. r \notin DOMAIN e.gone /\ r \notin DOMAIN e.new
    BY <1>4, <2>1 DEF Footprint
  <2> QED
    BY <2>1, <2>2, RowsApart
<1>7. SameDeposits(P2, D2)
  <2>1. \A d \in Deposits : deposit'[d] = IF d \in DOMAIN e.deposit THEN e.deposit[d] ELSE deposit[d]
    BY <1>1, <1>2 DEF Over
  <2>2. \A d \in DOMAIN e.deposit : e.deposit[d].items \subseteq P
    BY DEF Footprint
  <2> QED
    BY <1>3, <2>1, <2>2 DEF SameDeposits
<1>8. SameBounces(D2)
  <2>1. \A x \in Payments : bounce'[x] = IF x \in DOMAIN e.bounce THEN e.bounce[x] ELSE bounce[x]
    BY <1>1, <1>2 DEF Over
  <2>2. \A x \in DOMAIN e.bounce : LiveDepositsFor(x) \subseteq D
    BY DEF Footprint
  <2> QED
    BY <2>1, <2>2 DEF SameBounces
<1>9. \A i \in I2 : invoice'[i] = invoice[i]
  <2>1. ASSUME NEW i \in I2
        PROVE  \A r \in DOMAIN e.gone \cup DOMAIN e.new : r.inv # i
    BY DEF Footprint
  <2> QED
    BY <1>3, <2>1, InvoiceApart
<1> QED
  BY <1>5, <1>6, <1>7, <1>8, <1>9 DEF Undisturbed

-----------------------------------------------------------------------------
(* What is read about the rows in hand stays.                              *)

LEMMA RowsStay ==
    ASSUME NEW P, NEW D, NEW I, Undisturbed(P, D, I), NEW p \in P
    PROVE  /\ LiveApplications(p)' = LiveApplications(p) /\ CreditsAppliedIn(p)' = CreditsAppliedIn(p)
           /\ ReversedBy(p)' = ReversedBy(p)
           /\ \A r \in LiveApplications(p) \cup CreditsAppliedIn(p) \cup ReversedBy(p) : apps'[r] = apps[r]
<1>1. SameRows(P, I)
  BY DEF Undisturbed
<1> QED
  BY <1>1 DEF SameRows, LiveApplications, CreditsAppliedIn, ReversedBy

\* The draws on a payment and, where they are in hand, those made inside it.
LEMMA DrawsStay ==
    ASSUME AllPaid, NEW P, NEW D, NEW I, Undisturbed(P, D, I), NEW p \in P
    PROVE  /\ LiveDraws(p)' = LiveDraws(p)
           /\ \A d \in LiveDraws(p) : payment'[d] = payment[d]
           /\ DrawsInside(p) \subseteq P => DrawsInside(p)' = DrawsInside(p)
<1>1. SamePayments(P) /\ P \subseteq Payments
  BY DEF Undisturbed
<1>2. \A x \in Payments : PaymentShape(payment[x])
  BY DEF AllPaid, PayInv, Tables
<1>3. ASSUME NEW x \in Payments, x \notin P
      PROVE  /\ IsKind(x, {"draw"}) /\ payment[x].from = p /\ Posted(x) => payment'[x] = payment[x]
             /\ payment'[x].kind = "draw" /\ payment'[x].from = p => payment'[x] = payment[x]
             /\ payment'[x].kind = "draw" /\ Posted(x)' => payment'[x] = payment[x] \/ payment'[x].inside # p
  <2>1. CASE payment'[x] = payment[x]
    BY <2>1
  <2>2. CASE Unused(x) /\ payment'[x].from \notin P /\ payment'[x].inside \notin P
    BY <1>2, <2>2 DEF Unused, Posted, PaymentShape
  <2>3. CASE ~Unused(x) /\ payment[x].from \notin P /\ payment'[x] = [payment[x] EXCEPT !.st = "void"]
    <3>1. payment'[x].from = payment[x].from /\ payment'[x].st = "void"
      BY <1>2, <2>3 DEF PaymentShape
    <3> QED
      BY <2>3, <3>1 DEF Posted
  <2>4. CASE Rewritten(x, payment'[x])
    BY <2>4 DEF Rewritten, IsKind
  <2> QED
    BY <1>1, <1>3, <2>1, <2>2, <2>3, <2>4 DEF SamePayments
<1>4. \A x \in P : payment'[x] = payment[x]
  BY <1>1 DEF SamePayments
<1>5. /\ LiveDraws(p)' = LiveDraws(p)
      /\ \A d \in LiveDraws(p) : payment'[d] = payment[d]
  BY <1>3, <1>4 DEF LiveDraws, IsKind, Posted
<1>6. ASSUME DrawsInside(p) \subseteq P
      PROVE  DrawsInside(p)' = DrawsInside(p)
  BY <1>1, <1>3, <1>4, <1>6 DEF DrawsInside, IsKind, Posted
<1> QED
  BY <1>5, <1>6

LEMMA DepositsStay ==
    ASSUME NEW P, NEW D, NEW I, Undisturbed(P, D, I), NEW p \in P, LiveDepositsFor(p) \subseteq D
    PROVE  LiveDepositsFor(p)' = LiveDepositsFor(p)
<1>1. SameDeposits(P, D) /\ D \subseteq Deposits
  BY DEF Undisturbed
<1> QED
  BY <1>1 DEF SameDeposits, LiveDepositsFor

\* The links of a payment, all in hand.
LEMMA ScopeStays ==
    ASSUME AllPaid, NEW P, NEW D, NEW I, Undisturbed(P, D, I), NEW p \in P, ScopeOf(p) \subseteq P
    PROVE  ScopeOf(p)' = ScopeOf(p)
<1>1. SamePayments(P) /\ P \subseteq Payments
  BY DEF Undisturbed
<1>2. \A x \in Payments : PaymentShape(payment[x])
  BY DEF AllPaid, PayInv, Tables
<1>3. None \notin P
  BY <1>1, PaymentsAssumption
<1>4. PICK inside : inside = {x \in PostedReceipts : payment[x].inside = p}
  OBVIOUS
<1>5. PICK drawn : drawn = {x \in PostedReceipts : payment[x].from = p}
  OBVIOUS
<1>6. inside \subseteq P /\ drawn \subseteq P
  <2>1. \A x \in Payments : x # None
    BY PaymentsAssumption
  <2> QED
    BY <1>4, <1>5, <2>1 DEF ScopeOf, SomeId, PostedReceipts
<1>7. \A x \in P : payment'[x] = payment[x]
  BY <1>1 DEF SamePayments
<1>8. ASSUME NEW x \in Payments, x \notin P, Posted(x)', payment'[x].inside = p \/ payment'[x].from = p
      PROVE  payment'[x] = payment[x]
  <2>1. CASE Unused(x) /\ payment'[x].from \notin P /\ payment'[x].inside \notin P
    BY <1>8, <2>1
  <2>2. CASE ~Unused(x) /\ payment[x].from \notin P /\ payment'[x] = [payment[x] EXCEPT !.st = "void"]
    BY <1>2, <1>8, <2>2 DEF Posted, PaymentShape
  <2>3. CASE Rewritten(x, payment'[x])
    BY <1>3, <1>8, <2>3 DEF Rewritten
  <2> QED
    BY <1>1, <1>8, <2>1, <2>2, <2>3 DEF SamePayments
<1>9. {x \in PostedReceipts' : payment'[x].inside = p} = inside
  BY <1>1, <1>4, <1>6, <1>7, <1>8 DEF PostedReceipts, IsKind, Posted
<1>10. {x \in PostedReceipts' : payment'[x].from = p} = drawn
  BY <1>1, <1>5, <1>6, <1>7, <1>8 DEF PostedReceipts, IsKind, Posted
<1>11. {payment'[x].from : x \in {p} \cup inside} = {payment[x].from : x \in {p} \cup inside}
  BY <1>6, <1>7
<1>12. LiveApplications(p)' = LiveApplications(p) /\ CreditsAppliedIn(p)' = CreditsAppliedIn(p)
  BY RowsStay
<1>13. ScopeOf(p) = SomeId({p} \cup {r.inside : r \in LiveApplications(p)} \cup {r.pay : r \in CreditsAppliedIn(p)}
                             \cup {payment[x].from : x \in {p} \cup inside} \cup inside \cup drawn)
  BY <1>4, <1>5 DEF ScopeOf
<1>14. ScopeOf(p)' = SomeId({p} \cup {r.inside : r \in LiveApplications(p)'} \cup {r.pay : r \in CreditsAppliedIn(p)'}
                              \cup {payment'[x].from : x \in {p} \cup inside} \cup inside \cup drawn)
  BY <1>9, <1>10 DEF ScopeOf
<1> QED
  BY <1>11, <1>12, <1>13, <1>14

\* The payments an operation is linked to are in its scope.
LEMMA InScope ==
    ASSUME AllPaid, NEW p \in Payments
    PROVE  /\ p \in ScopeOf(p) /\ DrawsInside(p) \subseteq ScopeOf(p) /\ LiveDraws(p) \subseteq ScopeOf(p)
           /\ \A r \in LiveApplications(p) : r.inside \in ScopeOf(p) \cup {None}
           /\ \A r \in CreditsAppliedIn(p) : r.pay \in ScopeOf(p) \cup {None}
           /\ \A x \in {p} \cup DrawsInside(p) : payment[x].from \in ScopeOf(p) \cup {None}
<1>1. \A x \in Payments : x # None
  BY PaymentsAssumption
<1>2. DrawsInside(p) \subseteq {x \in PostedReceipts : payment[x].inside = p}
  BY DEF DrawsInside, PostedReceipts, IsKind, Posted
<1>3. LiveDraws(p) \subseteq {x \in PostedReceipts : payment[x].from = p}
  BY DEF LiveDraws, PostedReceipts, IsKind, Posted
<1> QED
  BY <1>1, <1>2, <1>3 DEF ScopeOf, SomeId, PostedReceipts

\* No edit elsewhere reaches the row: it is in hand, in a deposit or no receipt.
Firm(x, P) == ~Unused(x) /\ (x \in P \/ ~IsKind(x, {"payment"}) \/ LiveDepositsFor(x) # {})

\* Such a row keeps its total.
LEMMA FirmStays ==
    ASSUME AllPaid, NEW P, NEW D, NEW I, Undisturbed(P, D, I), NEW x \in Payments, Firm(x, P)
    PROVE  payment'[x].total = payment[x].total
<1>1. PaymentShape(payment[x])
  BY DEF AllPaid, PayInv, Tables
<1>2. \/ payment'[x] = payment[x]
      \/ payment'[x] = [payment[x] EXCEPT !.st = "void"]
  <2>1. SamePayments(P)
    BY DEF Undisturbed
  <2>2. CASE x \in P
    BY <2>1, <2>2 DEF SamePayments
  <2>3. CASE x \in Payments \ P
    BY <2>1, <2>3 DEF SamePayments, Firm, Rewritten
  <2> QED
    BY <2>2, <2>3
<1>3. CASE payment'[x] = payment[x]
  BY <1>3
<1>4. CASE payment'[x] = [payment[x] EXCEPT !.st = "void"]
  <2>1. PICK row : row = payment[x]
    OBVIOUS
  <2>2. "total" \in DOMAIN row
    BY <1>1, <2>1 DEF PaymentShape
  <2>3. payment'[x] = [row EXCEPT !.st = "void"]
    BY <1>4, <2>1
  <2>4. payment'[x].total = row.total
    BY <2>2, <2>3
  <2> QED
    BY <2>1, <2>4
<1> QED
  BY <1>2, <1>3, <1>4

LEMMA TotalStays ==
    ASSUME AllPaid, NEW P, NEW D, NEW I, Undisturbed(P, D, I), NEW S, S \in SUBSET Payments, \A x \in S : Firm(x, P)
    PROVE  TotalOf(S)' = TotalOf(S)
<1>1. \A x \in S : payment'[x].total = payment[x].total
  BY FirmStays
<1>2. [x \in S |-> payment'[x].total] = [x \in S |-> payment[x].total]
  BY <1>1
<1> QED
  BY <1>2 DEF TotalOf

LEMMA CashStays ==
    ASSUME NEW R, \A r \in R : apps'[r] = apps[r]
    PROVE  Cash(apps, R)' = Cash(apps, R)
<1>1. [r \in R |-> apps'[r] * r.amt] = [r \in R |-> apps[r] * r.amt]
  OBVIOUS
<1> QED
  BY <1>1 DEF Cash, SumOf

LEMMA CreditLeftStays ==
    ASSUME AllPaid, NEW P, NEW D, NEW I, Undisturbed(P, D, I), NEW p \in P, NEW gone, NEW undrawn
    PROVE  CreditLeft(p, gone, undrawn)' = CreditLeft(p, gone, undrawn)
<1>1. payment'[p] = payment[p] /\ bounce'[p] = bounce[p] /\ refund'[p] = refund[p]
  BY DEF Undisturbed, SamePayments
<1>2. PICK R : R = LiveApplications(p) \ gone
  OBVIOUS
<1>3. PICK S : S = LiveDraws(p) \ undrawn
  OBVIOUS
<1>4. R = LiveApplications(p)' \ gone /\ \A r \in R : apps'[r] = apps[r]
  BY <1>2, RowsStay
<1>5. S = LiveDraws(p)' \ undrawn /\ S \in SUBSET Payments /\ \A x \in S : Firm(x, P)
  <2>1. S = LiveDraws(p)' \ undrawn
    BY <1>3, DrawsStay
  <2> QED
    BY <1>3, <2>1 DEF LiveDraws, IsKind, Unused, Firm
<1>6. Cash(apps, R)' = Cash(apps, R) /\ TotalOf(S)' = TotalOf(S)
  BY <1>4, <1>5, CashStays, TotalStays
<1>7. CreditLeft(p, gone, undrawn) =
        IF ~Posted(p) \/ Bounced(p) THEN 0
        ELSE AtLeastZero(payment[p].total - refund[p] - IF payment[p].kind = "hold" THEN TotalOf(S) ELSE Cash(apps, R))
  BY <1>2, <1>3 DEF CreditLeft
<1>8. CreditLeft(p, gone, undrawn)' =
        IF ~Posted(p)' \/ Bounced(p)' THEN 0
        ELSE AtLeastZero(payment'[p].total - refund'[p] - IF payment'[p].kind = "hold" THEN TotalOf(S)' ELSE Cash(apps, R)')
  BY <1>4, <1>5 DEF CreditLeft
<1> QED
  BY <1>1, <1>6, <1>7, <1>8 DEF Posted, Bounced

LEMMA CreditStays ==
    ASSUME AllPaid, NEW P, NEW D, NEW I, Undisturbed(P, D, I), NEW p \in P
    PROVE  CreditLeft(p, {}, {})' = CreditLeft(p, {}, {})
BY CreditLeftStays

-----------------------------------------------------------------------------
(* What each operation writes.                                             *)

LEMMA BagDomains == DOMAIN EmptyBag = {} /\ DOMAIN <<>> = {} /\ \A S : DOMAIN SetToBag(S) = S
BY DEF EmptyBag, SetToBag

\* The tables an effect writes no row of.
Unwritten(e, names) ==
    /\ "payment" \in names => e.payment = <<>>
    /\ "bounce" \in names => e.bounce = <<>>
    /\ "refund" \in names => e.refund = <<>>
    /\ "deposit" \in names => e.deposit = <<>>
    /\ "invoice" \in names => e.invoice = <<>>
    /\ "rows" \in names => e.gone = EmptyBag /\ e.new = EmptyBag

\* Rows in hand: a row's payments and its invoice.
RowIn(r, P, I) == r.pay \in P /\ r.inside \in P \cup {None} /\ r.by \in P \cup {None} /\ r.inv \in I

LEMMA BounceFootprint ==
    ASSUME AllPaid, KeptInv, NEW p \in Payments, NEW P, NEW D, NEW I, ScopeOf(p) \subseteq P,
           LiveDepositsFor(p) \subseteq D, InvoicesOf(BounceRows(p)) \subseteq I
    PROVE  Footprint(BounceEffect(p), P, D, I)
<1>1. PICK e : e = BounceEffect(p)
  OBVIOUS
<1>2. PICK R : R = BounceRows(p)
  OBVIOUS
<1>3. /\ Unwritten(e, {"payment", "refund", "deposit", "invoice"})
      /\ DOMAIN e.bounce = {p} /\ e.gone = Copies(R) /\ e.new = Marked(R, p)
  BY <1>1, <1>2 DEF BounceEffect, Nothing, Only, Unwritten
<1>4. p \in P /\ LiveDraws(p) \subseteq P /\ \A r \in LiveApplications(p) : r.inside \in P \cup {None}
  BY InScope
<1>5. ASSUME NEW r \in R
      PROVE  r \in DOMAIN apps /\ r.by = None /\ RowIn(r, P, I)
  <2>1. r.inv \in I
    BY <1>2 DEF InvoicesOf
  <2>2. CASE r \in LiveApplications(p)
    BY <1>4, <2>1, <2>2 DEF LiveApplications, RowIn
  <2>3. CASE \E d \in LiveDraws(p) : r \in LiveApplications(d)
    <3>1. r \in DOMAIN apps /\ r.pay \in LiveDraws(p) /\ r.by = None
      BY <2>3 DEF LiveApplications
    <3>2. r.inside = None
      BY <3>1 DEF KeptInv, RowKept, LiveDraws
    <3> QED
      BY <1>4, <2>1, <3>1, <3>2 DEF RowIn
  <2> QED
    BY <1>2, <2>2, <2>3 DEF BounceRows
<1>6. R \in SUBSET DOMAIN apps
  BY <1>5
<1>7. \A r \in DOMAIN e.gone : RowIn(r, P, I)
  BY <1>3, <1>5 DEF Copies
<1>8. \A r \in DOMAIN e.new : RowIn(r, P, I)
  <2>1. \A q \in DOMAIN Marked(R, p) : q.by = p /\ \E r \in R : q.pay = r.pay /\ q.inv = r.inv /\ q.inside = r.inside
    BY <1>6, MarkedRows DEF AllPaid
  <2> QED
    BY <1>3, <1>4, <1>5, <2>1 DEF RowIn
<1> QED
  BY <1>1, <1>3, <1>4, <1>7, <1>8, BagDomains DEF Footprint, Unwritten, RowIn

LEMMA VoidBounceFootprint ==
    ASSUME AllPaid, NEW p \in Payments, NEW P, NEW D, NEW I, p \in P,
           \A r \in ReversedBy(p) : r.pay \in P /\ r.inside \in P \cup {None},
           LiveDepositsFor(p) \subseteq D, InvoicesOf(ReversedBy(p)) \subseteq I
    PROVE  Footprint(VoidBounceEffect(p), P, D, I)
<1>1. PICK e : e = VoidBounceEffect(p)
  OBVIOUS
<1>2. PICK R : R = ReversedBy(p)
  OBVIOUS
<1>3. /\ Unwritten(e, {"payment", "refund", "deposit", "invoice"})
      /\ DOMAIN e.bounce = {p} /\ e.gone = Copies(R) /\ e.new = Marked(R, None)
  BY <1>1, <1>2 DEF VoidBounceEffect, Nothing, Only, Unwritten
<1>4. R \in SUBSET DOMAIN apps /\ \A r \in R : RowIn(r, P, I)
  BY <1>2 DEF ReversedBy, InvoicesOf, RowIn
<1>5. \A r \in DOMAIN e.gone : RowIn(r, P, I)
  BY <1>3, <1>4 DEF Copies
<1>6. \A r \in DOMAIN e.new : RowIn(r, P, I)
  <2>1. \A q \in DOMAIN Marked(R, None) : q.by = None /\ \E r \in R : q.pay = r.pay /\ q.inv = r.inv /\ q.inside = r.inside
    BY <1>4, MarkedRows DEF AllPaid
  <2> QED
    BY <1>3, <1>4, <2>1 DEF RowIn
<1> QED
  BY <1>1, <1>3, <1>5, <1>6, BagDomains DEF Footprint, Unwritten, RowIn

\* The rows of a payment and of the draws made inside it.
LEMMA RowsOfIn ==
    ASSUME AllPaid, KeptInv, NEW p \in Payments, NEW P, NEW I, ScopeOf(p) \subseteq P,
           NEW r \in RowsOf({p} \cup DrawsInside(p)), r.inv \in I
    PROVE  r.by = None /\ RowIn(r, P, I)
<1>1. PICK V : V = {p} \cup DrawsInside(p)
  OBVIOUS
<1>2. /\ p \in P /\ V \subseteq P
      /\ \A y \in LiveApplications(p) : y.inside \in P \cup {None}
      /\ \A y \in CreditsAppliedIn(p) : y.pay \in P \cup {None}
  BY <1>1, InScope
<1>3. \A x \in DrawsInside(p) : IsKind(x, {"draw"}) /\ x \in Payments
  BY DEF DrawsInside
<1>4. PICK x \in V : r \in LiveApplications(x) \cup CreditsAppliedIn(x)
  BY <1>1 DEF RowsOf
<1>5. r \in DOMAIN apps /\ r.by = None
  BY <1>4 DEF LiveApplications, CreditsAppliedIn
<1>6. RowShape(r) /\ (r.inside # None => IsKind(r.inside, {"payment"}))
  BY <1>5 DEF AllPaid, PayInv, Tables, Kinship
<1>7. CASE x = p
  <2>1. r.pay # None
    BY <1>6, PaymentsAssumption DEF RowShape
  <2> QED
    BY <1>2, <1>4, <1>5, <1>7, <2>1 DEF LiveApplications, CreditsAppliedIn, RowIn
<1>8. CASE x \in DrawsInside(p)
  <2>1. x # None
    BY <1>3, <1>8, PaymentsAssumption
  <2>2. r.inside # x
    BY <1>3, <1>6, <1>8, <2>1 DEF IsKind
  <2>3. r.pay = x
    BY <1>4, <2>2 DEF LiveApplications, CreditsAppliedIn
  <2>4. r.inside = None
    BY <1>3, <1>5, <1>8, <2>3 DEF KeptInv, RowKept
  <2> QED
    BY <1>2, <1>4, <1>5, <2>3, <2>4 DEF RowIn
<1> QED
  BY <1>1, <1>4, <1>7, <1>8

LEMMA VoidPaymentFootprint ==
    ASSUME AllPaid, KeptInv, NEW p \in Payments, NEW P, NEW D, NEW I, ScopeOf(p) \subseteq P, ~Unused(p),
           InvoicesOf(RowsOf({p} \cup DrawsInside(p))) \subseteq I
    PROVE  Footprint(VoidPaymentEffect(p), P, D, I)
<1>1. PICK e : e = VoidPaymentEffect(p)
  OBVIOUS
<1>2. PICK V : V = {p} \cup DrawsInside(p)
  OBVIOUS
<1>3. /\ Unwritten(e, {"bounce", "refund", "deposit", "invoice"})
      /\ e.payment = Voided(V) /\ e.gone = Copies(RowsOf(V)) /\ e.new = EmptyBag
  BY <1>1, <1>2 DEF VoidPaymentEffect, Nothing, Unwritten
<1>4. p \in P /\ V \subseteq P /\ \A x \in V : payment[x].from \in P \cup {None}
  BY <1>2, InScope
<1>5. \A x \in DrawsInside(p) : IsKind(x, {"draw"}) /\ x \in Payments
  BY DEF DrawsInside
<1>6. DOMAIN e.payment = V /\ \A x \in V : WritesPayment(x, e.payment[x], P)
  BY <1>2, <1>3, <1>4, <1>5 DEF Voided, WritesPayment, Unused, IsKind
<1>7. ASSUME NEW r \in RowsOf(V)
      PROVE  RowIn(r, P, I)
  <2>1. r.inv \in I
    BY <1>2 DEF InvoicesOf
  <2> QED
    BY <1>2, <2>1, RowsOfIn
<1>8. \A r \in DOMAIN e.gone \cup DOMAIN e.new : RowIn(r, P, I)
  BY <1>3, <1>7, BagDomains DEF Copies
<1> QED
  BY <1>1, <1>3, <1>4, <1>6, <1>8, BagDomains DEF Footprint, Unwritten, RowIn

LEMMA UnapplyFootprint ==
    ASSUME AllPaid, NEW p \in Payments, NEW P, NEW D, NEW I, ScopeOf(p) \subseteq P,
           NEW r \in LiveApplications(p), r.inv \in I
    PROVE  Footprint([Nothing EXCEPT !.gone = SetToBag({r})], P, D, I)
<1>1. PICK e : e = [Nothing EXCEPT !.gone = SetToBag({r})]
  OBVIOUS
<1>2. Unwritten(e, {"payment", "bounce", "refund", "deposit", "invoice"}) /\ e.gone = SetToBag({r}) /\ e.new = EmptyBag
  BY <1>1 DEF Nothing, Unwritten
<1>3. r.pay = p /\ r.by = None /\ p \in P /\ r.inside \in P \cup {None}
  BY InScope DEF LiveApplications
<1>4. \A x \in DOMAIN e.gone \cup DOMAIN e.new : RowIn(x, P, I)
  BY <1>2, <1>3, BagDomains DEF RowIn
<1> QED
  BY <1>1, <1>2, <1>4, BagDomains DEF Footprint, Unwritten, RowIn

LEMMA RefundFootprint ==
    ASSUME NEW p, NEW x, NEW P, NEW D, NEW I, p \in P
    PROVE  Footprint(RefundEffect(p, x, x), P, D, I)
<1>1. PICK e : e = RefundEffect(p, x, x)
  OBVIOUS
<1>2. Unwritten(e, {"payment", "bounce", "deposit", "invoice", "rows"}) /\ DOMAIN e.refund = {p}
  BY <1>1 DEF RefundEffect, Nothing, Only, Unwritten
<1> QED
  BY <1>1, <1>2, BagDomains DEF Footprint, Unwritten

LEMMA DepositFootprint ==
    ASSUME NEW d, NEW st, st # "none", NEW items, NEW P, NEW D, NEW I, d \in D, items \subseteq P
    PROVE  Footprint(DepositEffect(d, st, items), P, D, I)
<1>1. PICK e : e = DepositEffect(d, st, items)
  OBVIOUS
<1>2. /\ Unwritten(e, {"payment", "bounce", "refund", "invoice", "rows"})
      /\ DOMAIN e.deposit = {d} /\ e.deposit[d] = [st |-> st, items |-> items]
  BY <1>1 DEF DepositEffect, Nothing, Only, Unwritten
<1> QED
  BY <1>1, <1>2, BagDomains DEF Footprint, Unwritten

LEMMA VoidInvoiceFootprint ==
    ASSUME NEW i, NEW P, NEW D, NEW I, i \in I
    PROVE  Footprint(VoidInvoiceEffect(i), P, D, I)
<1>1. PICK e : e = VoidInvoiceEffect(i)
  OBVIOUS
<1>2. Unwritten(e, {"payment", "bounce", "refund", "deposit", "rows"}) /\ DOMAIN e.invoice = {i}
  BY <1>1 DEF VoidInvoiceEffect, Nothing, Only, Unwritten
<1> QED
  BY <1>1, <1>2, BagDomains DEF Footprint, Unwritten

LEMMA ApplyCreditFootprint ==
    ASSUME AllPaid, NEW p \in Payments, NEW i, NEW x, NEW d,
           NEW P, NEW D, NEW I, p \in P, i \in I, IsKind(p, {"hold"}) => Unused(d) /\ d \in P
    PROVE  Footprint(ApplyCreditEffect(p, i, x, d), P, D, I)
<1>1. PICK e : e = ApplyCreditEffect(p, i, x, d)
  OBVIOUS
<1>2. Unwritten(e, {"bounce", "refund", "deposit", "invoice"}) /\ e.gone = EmptyBag
  BY <1>1 DEF ApplyCreditEffect, Nothing, Unwritten
<1>3. CASE IsKind(p, {"hold"})
  <2>1. /\ DOMAIN e.payment = {d} /\ e.payment[d] = NewPayment("draw", x, 0, "bank", p, None)
        /\ e.new = SetToBag({Row(d, i, x, 0, FALSE, None)})
    BY <1>1, <1>3 DEF ApplyCreditEffect, Nothing, Only
  <2>2. WritesPayment(d, e.payment[d], P)
    BY <1>3, <2>1 DEF WritesPayment, NewPayment
  <2>3. \A r \in DOMAIN e.gone \cup DOMAIN e.new : RowIn(r, P, I)
    BY <1>2, <1>3, <2>1, BagDomains DEF RowIn, Row
  <2> QED
    BY <1>1, <1>2, <1>3, <2>1, <2>2, <2>3, BagDomains DEF Footprint, Unwritten, RowIn
<1>4. CASE ~IsKind(p, {"hold"})
  <2>1. e.payment = <<>> /\ e.new = SetToBag({Row(p, i, x, 0, TRUE, None)})
    BY <1>1, <1>4 DEF ApplyCreditEffect, Nothing
  <2>2. \A r \in DOMAIN e.gone \cup DOMAIN e.new : RowIn(r, P, I)
    BY <1>2, <2>1, BagDomains DEF RowIn, Row
  <2> QED
    BY <1>1, <1>2, <2>1, <2>2, BagDomains DEF Footprint, Unwritten, RowIn
<1> QED
  BY <1>3, <1>4

\* The source of the draw of a request.
LEMMA SourceIn ==
    ASSUME NEW q \in Bodies, NEW P, SourcesOf(q) \subseteq P, FromHold(q) # {}
    PROVE  TheCredit(q.credits).src \in P
<1>1. PICK c : q.credits = {c}
  BY OneCredit DEF FromHold
<1> QED
  BY <1>1, TheOnlyCredit DEF SourcesOf

\* The rows a receipt inserts.
LEMMA SettlementIn ==
    ASSUME AllPaid, NEW p \in Payments, NEW q \in Bodies, NEW d \in DrawIds(p, FromHold(q) # {}),
           NEW P, NEW I, p \in P, d \in P, SourcesOf(q) \subseteq P, SettledIn(q) \subseteq I,
           NEW r \in DOMAIN Settlement(p, q, d)
    PROVE  RowIn(r, P, I)
<1>1. RowShape(r) /\ r.by = None
  BY SettlementRows
<1>2. \/ r.pay = p /\ r.inside = None /\ q.cash[r.inv] + q.adj[r.inv] > 0
      \/ \E c \in q.credits : /\ r.inv = c.inv
                              /\ \/ r.pay = d /\ r.inside = None
                                 \/ r.pay = c.src /\ r.inside = p
  BY SettlementRows
<1>3. r.inv \in Invoices
  BY <1>1 DEF RowShape
<1>4. On(q, r.inv) > 0
  <2>1. /\ On(q, r.inv) \in Nat /\ On(q, r.inv) >= q.cash[r.inv] + q.adj[r.inv]
        /\ (\E c \in q.credits : c.inv = r.inv) => On(q, r.inv) > 0
    BY <1>3, TakenOn
  <2>2. q.cash[r.inv] \in Nat /\ q.adj[r.inv] \in Nat
    BY <1>3, OneCredit
  <2> QED
    BY <1>2, <2>1, <2>2
<1>5. r.inv \in I
  BY <1>3, <1>4 DEF SettledIn
<1> QED
  BY <1>1, <1>2, <1>5 DEF RowIn, SourcesOf

LEMMA ReceiveFootprint ==
    ASSUME AllPaid, NEW p \in Payments, NEW q \in Bodies, NEW d \in DrawIds(p, FromHold(q) # {}),
           Unused(p), NEW P, NEW D, NEW I, p \in P, d \in P, SourcesOf(q) \subseteq P, SettledIn(q) \subseteq I
    PROVE  Footprint(SettleEffect(p, q, d, {}, {}), P, D, I)
<1>1. PICK e : e = SettleEffect(p, q, d, {}, {})
  OBVIOUS
<1>2. PICK own : own = NewPayment("payment", q.amount, Total(q.adj), q.to, None, None)
  OBVIOUS
<1>3. PICK draw : draw = [x \in {d} \ {p} |-> NewPayment("draw", CreditIn(q.credits), 0, "bank", TheCredit(q.credits).src, p)]
  OBVIOUS
<1>4. /\ Unwritten(e, {"bounce", "refund", "deposit", "invoice"})
      /\ e.payment = Over(Only(p, own), Over(draw, Voided({})))
      /\ e.gone = Copies({}) /\ e.new = Settlement(p, q, d)
  BY <1>1, <1>2, <1>3 DEF SettleEffect, Nothing, Unwritten
<1>5. Unused(d)
  BY DEF DrawIds
<1>6. d # p => TheCredit(q.credits).src \in P
  BY SourceIn DEF DrawIds
<1>7. /\ DOMAIN e.payment = {p, d} /\ e.payment[p] = own
      /\ d # p => e.payment[d] = NewPayment("draw", CreditIn(q.credits), 0, "bank", TheCredit(q.credits).src, p)
  <2>1. DOMAIN Voided({}) = {}
    BY DEF Voided
  <2>2. DOMAIN Over(draw, Voided({})) = {d} \ {p} /\ (d # p => Over(draw, Voided({}))[d] = draw[d])
    BY <1>3, <2>1 DEF Over
  <2> QED
    BY <1>3, <1>4, <2>2 DEF Over, Only
<1>8. WritesPayment(p, own, P)
  BY <1>2 DEF WritesPayment, NewPayment
<1>9. d # p => WritesPayment(d, e.payment[d], P)
  BY <1>5, <1>6, <1>7 DEF WritesPayment, NewPayment
<1>10. DOMAIN e.gone = {}
  BY <1>4 DEF Copies
<1>11. \A r \in DOMAIN e.new : RowIn(r, P, I)
  BY <1>4, SettlementIn
<1> QED
  BY <1>1, <1>4, <1>7, <1>8, <1>9, <1>10, <1>11, BagDomains DEF Footprint, Unwritten, RowIn

LEMMA UpdateFootprint ==
    ASSUME AllPaid, KeptInv, NEW p \in Payments, NEW q \in Bodies, NEW d \in DrawIds(p, FromHold(q) # {}),
           MayUpdatePayment(p, q), NEW P, NEW D, NEW I, ScopeOf(p) \subseteq P, d \in P, SourcesOf(q) \subseteq P,
           InvoicesOf(SetAside(p)) \cup SettledIn(q) \subseteq I
    PROVE  Footprint(UpdatePaymentEffect(p, q, d), P, D, I)
<1>1. PICK e : e = UpdatePaymentEffect(p, q, d)
  OBVIOUS
<1>2. PICK own : own = NewPayment("payment", q.amount, Total(q.adj), q.to, None, None)
  OBVIOUS
<1>3. PICK draw : draw = [x \in {d} \ {p} |-> NewPayment("draw", CreditIn(q.credits), 0, "bank", TheCredit(q.credits).src, p)]
  OBVIOUS
<1>4. PICK N : N = DrawsInside(p)
  OBVIOUS
<1>5. /\ Unwritten(e, {"bounce", "refund", "deposit", "invoice"})
      /\ e.payment = Over(Only(p, own), Over(draw, Voided(N)))
      /\ e.gone = Copies(SetAside(p)) /\ e.new = Settlement(p, q, d)
  BY <1>1, <1>2, <1>3, <1>4 DEF UpdatePaymentEffect, SettleEffect, Nothing, Unwritten
<1>6. /\ IsKind(p, {"payment"}) /\ LiveDepositsFor(p) = {}
      /\ d # p => Unused(d)
  BY DEF MayUpdatePayment, Free, DrawIds
<1>7. p \in P /\ N \subseteq P /\ \A x \in N : payment[x].from \in P \cup {None} /\ ~Unused(x)
  BY <1>4, InScope DEF DrawsInside, IsKind, Unused
<1>8. d # p => TheCredit(q.credits).src \in P
  BY SourceIn DEF DrawIds
<1>9. /\ DOMAIN Voided(N) = N /\ \A x \in N : Voided(N)[x] = [payment[x] EXCEPT !.st = "void"]
      /\ DOMAIN draw = {d} \ {p} /\ \A x \in DOMAIN draw : draw[x] = NewPayment("draw", CreditIn(q.credits), 0, "bank", TheCredit(q.credits).src, p)
  BY <1>3 DEF Voided
<1>10. /\ DOMAIN e.payment = {p, d} \cup N /\ e.payment[p] = own
       /\ d # p => e.payment[d] = NewPayment("draw", CreditIn(q.credits), 0, "bank", TheCredit(q.credits).src, p)
       /\ \A x \in N \ {p, d} : e.payment[x] = [payment[x] EXCEPT !.st = "void"]
  <2>1. PICK w : w = Over(draw, Voided(N))
    OBVIOUS
  <2>2. /\ DOMAIN w = ({d} \ {p}) \cup N /\ (d # p => w[d] = draw[d])
        /\ \A x \in N \ {p, d} : w[x] = Voided(N)[x]
    BY <1>9, <2>1 DEF Over
  <2>3. DOMAIN e.payment = {p} \cup DOMAIN w /\ e.payment[p] = own /\ \A x \in DOMAIN w \ {p} : e.payment[x] = w[x]
    BY <1>5, <2>1 DEF Over, Only
  <2> QED
    BY <1>9, <2>2, <2>3
<1>11. WritesPayment(p, own, P)
  BY <1>2, <1>6 DEF WritesPayment, Rewritten, NewPayment
<1>12. d # p => WritesPayment(d, e.payment[d], P)
  BY <1>6, <1>7, <1>8, <1>10 DEF WritesPayment, NewPayment
<1>13. \A x \in N \ {p, d} : WritesPayment(x, e.payment[x], P)
  BY <1>7, <1>10 DEF WritesPayment
<1>14. DOMAIN e.payment \subseteq P /\ \A x \in DOMAIN e.payment : WritesPayment(x, e.payment[x], P)
  BY <1>7, <1>10, <1>11, <1>12, <1>13
<1>15. ASSUME NEW r \in DOMAIN e.gone
       PROVE  RowIn(r, P, I)
  <2>1. r \in SetAside(p)
    BY <1>5 DEF Copies
  <2>2. r \in RowsOf({p} \cup DrawsInside(p)) /\ r.inv \in I
    BY <2>1 DEF SetAside, RowsOf, InvoicesOf
  <2> QED
    BY <2>2, RowsOfIn
<1>16. \A r \in DOMAIN e.new : RowIn(r, P, I)
  BY <1>5, <1>7, SettlementIn
<1> QED
  BY <1>1, <1>5, <1>14, <1>15, <1>16, BagDomains DEF Footprint, Unwritten, RowIn

-----------------------------------------------------------------------------
(* What an operation has read, and what it computed from it, stays.        *)

LEMMA CopiesStay ==
    ASSUME NEW R, \A r \in R : apps'[r] = apps[r], NEW by
    PROVE  Copies(R)' = Copies(R) /\ Marked(R, by)' = Marked(R, by)
<1>1. Copies(R)' = Copies(R)
  BY DEF Copies
<1>2. PICK Q : Q = {[r EXCEPT !.by = by] : r \in R}
  OBVIOUS
<1>3. ASSUME NEW q \in Q
      PROVE  (CHOOSE r \in R : [r EXCEPT !.by = by] = q) \in R
  <2>1. \E r \in R : [r EXCEPT !.by = by] = q
    BY <1>2
  <2> QED
    BY <2>1
<1>4. [q \in Q |-> apps'[CHOOSE r \in R : [r EXCEPT !.by = by] = q]] = [q \in Q |-> apps[CHOOSE r \in R : [r EXCEPT !.by = by] = q]]
  BY <1>3
<1>5. Marked(R, by)' = Marked(R, by)
  BY <1>2, <1>4 DEF Marked
<1> QED
  BY <1>1, <1>5

LEMMA BounceRowsStay ==
    ASSUME AllPaid, NEW P, NEW D, NEW I, Undisturbed(P, D, I), NEW p \in P, ScopeOf(p) \subseteq P
    PROVE  BounceRows(p)' = BounceRows(p) /\ \A r \in BounceRows(p) : apps'[r] = apps[r]
<1>1. p \in Payments
  BY DEF Undisturbed
<1>2. payment'[p] = payment[p]
  BY DEF Undisturbed, SamePayments
<1>3. PICK S : S = IF IsKind(p, {"hold"}) THEN LiveDraws(p) ELSE {p}
  OBVIOUS
<1>4. S = (IF IsKind(p, {"hold"}) THEN LiveDraws(p) ELSE {p})'
  BY <1>2, <1>3, DrawsStay DEF IsKind
<1>5. S \subseteq P
  BY <1>1, <1>3, InScope
<1>6. \A d \in S : LiveApplications(d)' = LiveApplications(d) /\ \A r \in LiveApplications(d) : apps'[r] = apps[r]
  BY <1>5, RowsStay
<1>7. BounceRows(p) = UNION {LiveApplications(d) : d \in S}
  BY <1>3 DEF BounceRows
<1>8. BounceRows(p)' = UNION {LiveApplications(d)' : d \in S}
  BY <1>4 DEF BounceRows
<1> QED
  BY <1>6, <1>7, <1>8

LEMMA BounceStays ==
    ASSUME AllPaid, NEW P, NEW D, NEW I, Undisturbed(P, D, I), NEW p \in P, ScopeOf(p) \subseteq P,
           LiveDepositsFor(p) \subseteq D
    PROVE  MayBounce(p)' = MayBounce(p) /\ BounceEffect(p)' = BounceEffect(p)
<1>1. p \in Payments
  BY DEF Undisturbed
<1>2. payment'[p] = payment[p] /\ bounce'[p] = bounce[p] /\ refund'[p] = refund[p]
  BY DEF Undisturbed, SamePayments
<1>3. MayBounce(p)' = MayBounce(p)
  BY <1>2 DEF MayBounce, IsKind, Posted, Bounced
<1>4. PICK R : R = BounceRows(p)
  OBVIOUS
<1>5. R = BounceRows(p)' /\ \A r \in R : apps'[r] = apps[r]
  BY <1>4, BounceRowsStay
<1>6. PICK S : S = LiveDraws(p)
  OBVIOUS
<1>7. S = LiveDraws(p)' /\ S \in SUBSET Payments /\ \A x \in S : Firm(x, P)
  <2>1. S = LiveDraws(p)'
    BY <1>6, DrawsStay
  <2> QED
    BY <1>6, <2>1 DEF LiveDraws, IsKind, Unused, Firm
<1>8. Copies(R)' = Copies(R) /\ Marked(R, p)' = Marked(R, p)
  BY <1>5, CopiesStay
<1>9. TotalOf(S)' = TotalOf(S)
  BY <1>7, TotalStays
<1>10. HeldIn(p)' = HeldIn(p)
  BY <1>2, DepositsStay DEF HeldIn
<1>11. [r \in R |-> apps'[r] * r.adj] = [r \in R |-> apps[r] * r.adj]
  BY <1>5
<1>12. SumOf(apps, R, LAMBDA r : r.adj)' = SumOf(apps, R, LAMBDA r : r.adj)
  BY <1>11 DEF SumOf
<1>13. PICK a : a = SumOf(apps, R, LAMBDA r : r.adj)
  OBVIOUS
<1>14. PICK b : b = IF IsKind(p, {"hold"}) THEN [at |-> HeldIn(p), ar |-> TotalOf(S), held |-> payment[p].total - TotalOf(S)]
                    ELSE [at |-> HeldIn(p), ar |-> payment[p].total + a, held |-> 0]
  OBVIOUS
<1>15. BounceEffect(p) =
         [Nothing EXCEPT !.gone = Copies(R), !.new = Marked(R, p), !.bounce = Only(p, b),
            !.ar = b.ar, !.held = -b.held, !.clearing = -InClearing(b.at, payment[p].total)]
  BY <1>4, <1>6, <1>13, <1>14 DEF BounceEffect
<1>16. BounceEffect(p)' =
         [Nothing EXCEPT !.gone = Copies(R)', !.new = Marked(R, p)', !.bounce = Only(p, b),
            !.ar = b.ar, !.held = -b.held, !.clearing = -InClearing(b.at, payment[p].total)]
  BY <1>2, <1>5, <1>7, <1>9, <1>10, <1>12, <1>13, <1>14 DEF BounceEffect, IsKind
<1> QED
  BY <1>3, <1>8, <1>15, <1>16

LEMMA RowsOfStay ==
    ASSUME NEW P, NEW D, NEW I, Undisturbed(P, D, I), NEW S, S \in SUBSET P
    PROVE  RowsOf(S)' = RowsOf(S) /\ \A r \in RowsOf(S) : apps'[r] = apps[r]
<1>1. \A d \in S : /\ LiveApplications(d)' = LiveApplications(d) /\ CreditsAppliedIn(d)' = CreditsAppliedIn(d)
                   /\ \A r \in LiveApplications(d) \cup CreditsAppliedIn(d) : apps'[r] = apps[r]
  BY RowsStay
<1> QED
  BY <1>1 DEF RowsOf

LEMMA ReleasableStays ==
    ASSUME AllPaid, NEW P, NEW D, NEW I, Undisturbed(P, D, I), NEW x \in P, Releasable(x), payment[x].from \in P \cup {None}
    PROVE  Releasable(x)'
<1>1. x \in Payments
  BY DEF Undisturbed
<1>2. \A y \in P : payment'[y] = payment[y] /\ bounce'[y] = bounce[y] /\ refund'[y] = refund[y]
  BY DEF Undisturbed, SamePayments
<1>3. LiveDepositsFor(x)' = LiveDepositsFor(x) /\ LiveDraws(x)' = LiveDraws(x)
  BY DepositsStay, DrawsStay, ReleasableFacts
<1>4. payment[x].kind = "draw" => payment[x].from \in P
  <2>1. payment[x].kind = "draw" => payment[x].from \in Payments
    BY <1>1 DEF AllPaid, PayInv, Kinship, IsKind
  <2> QED
    BY <2>1, PaymentsAssumption
<1> QED
  BY <1>2, <1>3, <1>4 DEF Releasable, Free, Posted, Bounced

LEMMA DrawLocksStay ==
    ASSUME AllPaid, NEW P, NEW D, NEW I, Undisturbed(P, D, I), NEW p \in P, DrawsInside(p) \subseteq P
    PROVE  DrawLocks(p)' = DrawLocks(p)
<1>1. PICK N : N = DrawsInside(p)
  OBVIOUS
<1>2. N = DrawsInside(p)'
  BY <1>1, DrawsStay
<1>3. \A x \in N : RowsOf({x})' = RowsOf({x})
  BY <1>1, RowsOfStay
<1>4. DrawLocks(p) = UNION {Rows("invoice", InvoicesOf(RowsOf({x})), x) : x \in N}
  BY <1>1 DEF DrawLocks
<1>5. DrawLocks(p)' = UNION {Rows("invoice", InvoicesOf(RowsOf({x})'), x) : x \in N}
  BY <1>2 DEF DrawLocks
<1> QED
  BY <1>3, <1>4, <1>5

LEMMA VoidPaymentStays ==
    ASSUME AllPaid, NEW P, NEW D, NEW I, Undisturbed(P, D, I), NEW p \in P, ScopeOf(p) \subseteq P, MayVoidPayment(p)
    PROVE  /\ MayVoidPayment(p)' /\ VoidPaymentEffect(p)' = VoidPaymentEffect(p)
           /\ VoidLocks(p)' = VoidLocks(p)
<1>1. p \in Payments
  BY DEF Undisturbed
<1>2. PICK N : N = DrawsInside(p)
  OBVIOUS
<1>3. N \subseteq P /\ N = DrawsInside(p)' /\ N \in SUBSET Payments /\ \A x \in N : Firm(x, P)
  <2>1. N \subseteq P
    BY <1>1, <1>2, InScope
  <2>2. N = DrawsInside(p)'
    BY <1>2, <2>1, DrawsStay
  <2> QED
    BY <1>2, <2>1, <2>2 DEF DrawsInside, IsKind, Unused, Firm
<1>4. \A x \in P : payment'[x] = payment[x] /\ bounce'[x] = bounce[x] /\ refund'[x] = refund[x]
  BY DEF Undisturbed, SamePayments
<1>5. MayVoidPayment(p)'
  <2>1. IsKind(p, {"payment", "hold", "draw"})'
    BY <1>4 DEF MayVoidPayment, IsKind
  <2>2. ASSUME NEW x \in {p} \cup N
        PROVE  Releasable(x)'
    <3>1. x \in P /\ Releasable(x) /\ payment[x].from \in P \cup {None}
      BY <1>1, <1>2, <1>3, InScope DEF MayVoidPayment
    <3> QED
      BY <3>1, ReleasableStays
  <2> QED
    BY <1>3, <2>1, <2>2 DEF MayVoidPayment
<1>6. PICK V : V = {p} \cup N
  OBVIOUS
<1>7. V \in SUBSET P
  BY <1>3, <1>6
<1>8. RowsOf(V)' = RowsOf(V) /\ Copies(RowsOf(V))' = Copies(RowsOf(V))
  <2>1. PICK R : R = RowsOf(V)
    OBVIOUS
  <2>2. R = RowsOf(V)' /\ \A r \in R : apps'[r] = apps[r]
    BY <1>7, <2>1, RowsOfStay
  <2>3. Copies(R)' = Copies(R)
    BY <2>2, CopiesStay
  <2> QED
    BY <2>1, <2>2, <2>3 DEF Copies
<1>9. Voided(V)' = Voided(V)
  BY <1>4, <1>7 DEF Voided
<1>10. TotalOf(N)' = TotalOf(N)
  BY <1>3, TotalStays
<1>11. PICK row : row = payment[p]
  OBVIOUS
<1>12. row = payment'[p]
  BY <1>4, <1>11
<1>13. PICK drawn : drawn = TotalOf(N) + IF row.kind = "draw" THEN row.total ELSE 0
  OBVIOUS
<1>14. VoidPaymentEffect(p) =
         [Nothing EXCEPT !.gone = Copies(RowsOf(V)), !.payment = Voided(V),
            !.ar = drawn + IF row.kind = "payment" THEN row.total + row.adj ELSE 0,
            !.held = drawn - IF row.kind = "hold" THEN row.total ELSE 0,
            !.clearing = -InClearing(row.to, row.total)]
  BY <1>2, <1>6, <1>11, <1>13 DEF VoidPaymentEffect
<1>15. VoidPaymentEffect(p)' =
         [Nothing EXCEPT !.gone = Copies(RowsOf(V))', !.payment = Voided(V)',
            !.ar = drawn + IF row.kind = "payment" THEN row.total + row.adj ELSE 0,
            !.held = drawn - IF row.kind = "hold" THEN row.total ELSE 0,
            !.clearing = -InClearing(row.to, row.total)]
  BY <1>3, <1>6, <1>10, <1>12, <1>13 DEF VoidPaymentEffect
<1>16. VoidLocks(p)' = VoidLocks(p)
  <2>1. PICK R : R = RowsOf({p})
    OBVIOUS
  <2>2. R = RowsOf({p})'
    BY <2>1, RowsOfStay
  <2>3. DrawLocks(p)' = DrawLocks(p)
    BY <1>2, <1>3, DrawLocksStay
  <2>4. VoidLocks(p) = DrawLocks(p) \cup Rows("invoice", InvoicesOf(R), p)
    BY <2>1 DEF VoidLocks
  <2>5. VoidLocks(p)' = DrawLocks(p)' \cup Rows("invoice", InvoicesOf(R), p)
    BY <2>2 DEF VoidLocks, Rows, InvoicesOf
  <2> QED
    BY <2>3, <2>4, <2>5
<1> QED
  BY <1>5, <1>8, <1>9, <1>14, <1>15, <1>16

LEMMA VoidBounceStays ==
    ASSUME AllPaid, NEW P, NEW D, NEW I, Undisturbed(P, D, I), NEW p \in P
    PROVE  Bounced(p)' = Bounced(p) /\ VoidBounceEffect(p)' = VoidBounceEffect(p) /\ ReversedBy(p)' = ReversedBy(p)
<1>1. payment'[p] = payment[p] /\ bounce'[p] = bounce[p]
  BY DEF Undisturbed, SamePayments
<1>2. PICK R : R = ReversedBy(p)
  OBVIOUS
<1>3. R = ReversedBy(p)' /\ \A r \in R : apps'[r] = apps[r]
  BY <1>2, RowsStay
<1>4. Copies(R)' = Copies(R) /\ Marked(R, None)' = Marked(R, None)
  BY <1>3, CopiesStay
<1>5. PICK b : b = bounce[p]
  OBVIOUS
<1>6. VoidBounceEffect(p) =
        [Nothing EXCEPT !.gone = Copies(R), !.new = Marked(R, None), !.bounce = Only(p, NoBounce),
           !.ar = -b.ar, !.held = b.held, !.clearing = InClearing(b.at, payment[p].total)]
  BY <1>2, <1>5 DEF VoidBounceEffect
<1>7. VoidBounceEffect(p)' =
        [Nothing EXCEPT !.gone = Copies(R)', !.new = Marked(R, None)', !.bounce = Only(p, NoBounce),
           !.ar = -b.ar, !.held = b.held, !.clearing = InClearing(b.at, payment[p].total)]
  BY <1>1, <1>3, <1>5 DEF VoidBounceEffect
<1> QED
  BY <1>1, <1>2, <1>3, <1>4, <1>6, <1>7 DEF Bounced

LEMMA MayVoidBounceStays ==
    ASSUME AllPaid, AllPaid', NEW P, NEW D, NEW I, Undisturbed(P, D, I), NEW p \in P, MayVoidBounce(p),
           \A r \in ReversedBy(p) : r.inside \in P \cup {None} /\ r.inv \in I
    PROVE  MayVoidBounce(p)'
<1>1. PICK R : R = ReversedBy(p)
  OBVIOUS
<1>2. R = ReversedBy(p)' /\ \A r \in R : apps'[r] = apps[r]
  BY <1>1, RowsStay
<1>3. \A x \in P : payment'[x] = payment[x] /\ bounce'[x] = bounce[x]
  BY DEF Undisturbed, SamePayments
<1>4. \A i \in I : invoice'[i] = invoice[i]
  BY DEF Undisturbed
<1>5. Bounced(p)'
  BY <1>3 DEF MayVoidBounce, Bounced
<1>6. \A r \in R : MayComeBack(r)'
  <2>1. \A r \in R : MayComeBack(r) /\ r.inside \in P \cup {None} /\ r.inv \in I
    BY <1>1 DEF MayVoidBounce
  <2> QED
    BY <1>3, <1>4, <2>1 DEF MayComeBack, Posted
<1>7. ASSUME NEW i \in Invoices
      PROVE  SumOf(apps, {r \in R : r.inv = i}, SettledBy)' <= PayableCents(invoice'[i])
  <2>1. PICK Q : Q = {r \in R : r.inv = i}
    OBVIOUS
  <2>2. PICK f : f = [r \in Q |-> apps[r] * SettledBy(r)]
    OBVIOUS
  <2>3. f = [r \in Q |-> apps'[r] * SettledBy(r)]
    BY <1>2, <2>1, <2>2
  <2>4. SumOf(apps, {r \in R : r.inv = i}, SettledBy) = SumOn(f, Q)
    BY <2>1, <2>2 DEF SumOf, SumOver, SumOn
  <2>5. SumOf(apps, {r \in R : r.inv = i}, SettledBy)' = SumOn(f, Q)
    <3>1. SumOf(apps, Q, SettledBy)' = SumOf(apps, Q, SettledBy)
      <4>1. [r \in Q |-> apps'[r] * SettledBy(r)] = [r \in Q |-> apps[r] * SettledBy(r)]
        BY <2>2, <2>3
      <4> QED
        BY <4>1 DEF SumOf
    <3> QED
      BY <2>1, <2>4, <3>1
  <2>6. CASE i \in I
    <3>1. SumOf(apps, {r \in R : r.inv = i}, SettledBy) <= PayableCents(invoice[i])
      BY <1>1 DEF MayVoidBounce
    <3> QED
      BY <1>4, <2>4, <2>5, <2>6, <3>1
  <2>7. CASE i \notin I
    <3>1. Q = {}
      BY <1>1, <2>1, <2>7
    <3>2. SumOn(f, Q) = 0
      BY <3>1, SumOnEmpty
    <3>3. PICK row : row = invoice'[i]
      OBVIOUS
    <3>4. row \in InvoiceRow
      BY <3>3 DEF AllPaid, PaidInv, PaidTies
    <3>5. 0 <= PayableCents(row)
      BY <3>4 DEF InvoiceRow, PayableCents, AtLeastZero
    <3> QED
      BY <2>5, <3>2, <3>3, <3>5
  <2> QED
    BY <2>6, <2>7
<1> QED
  BY <1>2, <1>5, <1>6, <1>7 DEF MayVoidBounce

LEMMA ReceiveStays ==
    ASSUME AllPaid, NEW P, NEW D, NEW I, Undisturbed(P, D, I), NEW q, SourcesOf(q) \subseteq P, NEW p, NEW d
    PROVE  /\ SourcesHold(q, {}, {})' = SourcesHold(q, {}, {}) /\ FromHold(q)' = FromHold(q)
           /\ SettleEffect(p, q, d, {}, {})' = SettleEffect(p, q, d, {}, {})
<1>1. \A c \in q.credits : c.src \in P
  BY DEF SourcesOf
<1>2. \A x \in P : payment'[x] = payment[x] /\ bounce'[x] = bounce[x]
  BY DEF Undisturbed, SamePayments
<1>3. \A c \in q.credits : CreditLeft(c.src, {}, {})' = CreditLeft(c.src, {}, {})
  BY <1>1, CreditStays
<1>4. SourcesHold(q, {}, {})' = SourcesHold(q, {}, {})
  BY <1>1, <1>2, <1>3 DEF SourcesHold, IsKind, Bounced
<1>5. FromHold(q)' = FromHold(q)
  BY <1>1, <1>2 DEF FromHold, IsKind
<1>6. TotalOf({})' = TotalOf({})
  BY TotalStays
<1>7. Copies({})' = Copies({}) /\ Voided({})' = Voided({})
  BY DEF Copies, Voided
<1>8. Settlement(p, q, d)' = Settlement(p, q, d)
  BY <1>5 DEF Settlement
<1>9. SettleEffect(p, q, d, {}, {})' = SettleEffect(p, q, d, {}, {})
  BY <1>5, <1>6, <1>7, <1>8 DEF SettleEffect
<1> QED
  BY <1>4, <1>5, <1>9

\* What an edit sets aside, and what it leaves room for.
LEMMA SetAsideStays ==
    ASSUME AllPaid, NEW P, NEW D, NEW I, Undisturbed(P, D, I), NEW p \in P, DrawsInside(p) \subseteq P
    PROVE  /\ SetAside(p)' = SetAside(p) /\ OwnRows(p)' = OwnRows(p) /\ InUse(p)' = InUse(p)
           /\ \A r \in SetAside(p) : apps'[r] = apps[r]
<1>1. PICK N : N = DrawsInside(p)
  OBVIOUS
<1>2. N = DrawsInside(p)'
  BY <1>1, DrawsStay
<1>3. /\ LiveApplications(p)' = LiveApplications(p) /\ CreditsAppliedIn(p)' = CreditsAppliedIn(p)
      /\ \A r \in LiveApplications(p) \cup CreditsAppliedIn(p) : apps'[r] = apps[r]
  BY RowsStay
<1>4. RowsOf(N)' = RowsOf(N) /\ \A r \in RowsOf(N) : apps'[r] = apps[r]
  BY <1>1, RowsOfStay
<1>5. LaterRows(p)' = LaterRows(p) /\ \A r \in LaterRows(p) : apps'[r] = apps[r]
  BY <1>3 DEF LaterRows
<1>6. OwnRows(p)' = OwnRows(p)
  BY <1>3, <1>5 DEF OwnRows
<1>7. SetAside(p) = (LiveApplications(p) \ LaterRows(p)) \cup CreditsAppliedIn(p) \cup RowsOf(N)
  BY <1>1 DEF SetAside
<1>8. SetAside(p)' = (LiveApplications(p)' \ LaterRows(p)') \cup CreditsAppliedIn(p)' \cup RowsOf(N)'
  BY <1>2 DEF SetAside, RowsOf
<1>9. InUse(p)' = InUse(p)
  <2>1. PICK R : R = LaterRows(p)
    OBVIOUS
  <2>2. R = LaterRows(p)' /\ Cash(apps, R)' = Cash(apps, R)
    BY <1>5, <2>1, CashStays
  <2>3. refund'[p] = refund[p]
    BY DEF Undisturbed, SamePayments
  <2>4. InUse(p) = Cash(apps, R) + refund[p]
    BY <2>1 DEF InUse
  <2>5. InUse(p)' = Cash(apps, R)' + refund'[p]
    BY <2>2 DEF InUse, Cash, SumOf
  <2> QED
    BY <2>2, <2>3, <2>4, <2>5
<1>10. SetAside(p)' = SetAside(p)
  BY <1>3, <1>4, <1>5, <1>7, <1>8
<1>11. \A r \in SetAside(p) : apps'[r] = apps[r]
  BY <1>3, <1>4, <1>7
<1> QED
  BY <1>6, <1>9, <1>10, <1>11

LEMMA UpdateStays ==
    ASSUME AllPaid, NEW P, NEW D, NEW I, Undisturbed(P, D, I), NEW p \in P, ScopeOf(p) \subseteq P,
           NEW q, SourcesOf(q) \subseteq P, NEW d, MayUpdatePayment(p, q)
    PROVE  /\ MayUpdatePayment(p, q)' /\ UpdatePaymentEffect(p, q, d)' = UpdatePaymentEffect(p, q, d)
           /\ UpdateLocks(p, q)' = UpdateLocks(p, q) /\ FromHold(q)' = FromHold(q)
<1>1. p \in Payments
  BY DEF Undisturbed
<1>2. PICK N : N = DrawsInside(p)
  OBVIOUS
<1>3. N \subseteq P /\ N = DrawsInside(p)' /\ N \in SUBSET Payments /\ \A x \in N : Firm(x, P)
  <2>1. N \subseteq P
    BY <1>1, <1>2, InScope
  <2>2. N = DrawsInside(p)'
    BY <1>2, <2>1, DrawsStay
  <2> QED
    BY <1>2, <2>1, <2>2 DEF DrawsInside, IsKind, Unused, Firm
<1>4. \A x \in P : payment'[x] = payment[x] /\ bounce'[x] = bounce[x] /\ refund'[x] = refund[x]
  BY DEF Undisturbed, SamePayments
<1>5. PICK G : G = SetAside(p)
  OBVIOUS
<1>6. G = SetAside(p)' /\ OwnRows(p)' = OwnRows(p) /\ InUse(p)' = InUse(p) /\ \A r \in G : apps'[r] = apps[r]
  BY <1>2, <1>3, <1>5, SetAsideStays
<1>7. MayUpdatePayment(p, q)'
  <2>1. /\ IsKind(p, {"payment"}) /\ Free(p) /\ payment[p].total > 0 /\ \A c \in q.credits : c.src # p
        /\ q.amount - Total(q.cash) >= InUse(p)
        /\ \A x \in N : Releasable(x)
    BY <1>2 DEF MayUpdatePayment
  <2>2. \A x \in N : payment[x].from \in P \cup {None}
    BY <1>1, <1>2, InScope
  <2>3. \A x \in N : Releasable(x)'
    BY <1>3, <2>1, <2>2, ReleasableStays
  <2>4. LiveDepositsFor(p)' = {}
    BY <2>1, DepositsStay DEF Free
  <2>5. IsKind(p, {"payment"})' /\ Free(p)' /\ payment'[p].total > 0
    BY <1>4, <2>1, <2>4 DEF IsKind, Free, Posted, Bounced
  <2>6. q.amount - Total(q.cash)' >= InUse(p)'
    BY <1>6, <2>1 DEF Total
  <2> QED
    BY <1>3, <2>1, <2>3, <2>5, <2>6 DEF MayUpdatePayment
<1>8. FromHold(q)' = FromHold(q)
  <2>1. \A c \in q.credits : c.src \in P
    BY DEF SourcesOf
  <2> QED
    BY <1>4, <2>1 DEF FromHold, IsKind
<1>9. UpdateLocks(p, q)' = UpdateLocks(p, q)
  <2>1. PICK R : R = OwnRows(p)
    OBVIOUS
  <2>2. R = OwnRows(p)' /\ SettledIn(q)' = SettledIn(q)
    BY <1>6, <2>1 DEF SettledIn, On
  <2>3. DrawLocks(p)' = DrawLocks(p)
    BY <1>2, <1>3, DrawLocksStay
  <2>4. UpdateLocks(p, q) = DrawLocks(p) \cup Rows("invoice", InvoicesOf(R) \cup SettledIn(q), p)
    BY <2>1 DEF UpdateLocks
  <2>5. UpdateLocks(p, q)' = DrawLocks(p)' \cup Rows("invoice", InvoicesOf(R) \cup SettledIn(q)', p)
    BY <2>2 DEF UpdateLocks, Rows, InvoicesOf
  <2> QED
    BY <2>2, <2>3, <2>4, <2>5
<1>10. SettleEffect(p, q, d, G, N)' = SettleEffect(p, q, d, G, N)
  <2>1. TotalOf(N)' = TotalOf(N)
    BY <1>3, TotalStays
  <2>2. Copies(G)' = Copies(G) /\ Voided(N)' = Voided(N)
    <3>1. Copies(G)' = Copies(G)
      BY <1>6, CopiesStay
    <3>2. Voided(N)' = Voided(N)
      BY <1>3, <1>4 DEF Voided
    <3> QED
      BY <3>1, <3>2
  <2>3. Settlement(p, q, d)' = Settlement(p, q, d)
    BY <1>8 DEF Settlement
  <2> QED
    BY <1>8, <2>1, <2>2, <2>3 DEF SettleEffect
<1>11. PICK old : old = payment[p]
  OBVIOUS
<1>12. PICK e : e = SettleEffect(p, q, d, G, N)
  OBVIOUS
<1>13. UpdatePaymentEffect(p, q, d) = [e EXCEPT !.ar = @ + old.total + old.adj, !.clearing = @ - InClearing(old.to, old.total)]
  BY <1>2, <1>5, <1>11, <1>12 DEF UpdatePaymentEffect
<1>14. UpdatePaymentEffect(p, q, d)' = [e EXCEPT !.ar = @ + old.total + old.adj, !.clearing = @ - InClearing(old.to, old.total)]
  <2>1. old = payment'[p] /\ e = SettleEffect(p, q, d, G, N)'
    BY <1>4, <1>10, <1>11, <1>12
  <2>2. e = SettleEffect(p, q, d, SetAside(p), DrawsInside(p))'
    BY <1>3, <1>6, <2>1 DEF SettleEffect, Copies, Voided, TotalOf
  <2> QED
    BY <2>1, <2>2 DEF UpdatePaymentEffect
<1> QED
  BY <1>7, <1>8, <1>9, <1>13, <1>14

LEMMA CreditUseStays ==
    ASSUME AllPaid, NEW P, NEW D, NEW I, Undisturbed(P, D, I), NEW p \in P, NEW i, NEW x, NEW d
    PROVE  /\ CreditUsable(p, x)' = CreditUsable(p, x) /\ MayRefund(p, x)' = MayRefund(p, x)
           /\ IsKind(p, {"hold"})' = IsKind(p, {"hold"})
           /\ ApplyCreditEffect(p, i, x, d)' = ApplyCreditEffect(p, i, x, d)
           /\ RefundEffect(p, x, x)' = RefundEffect(p, x, x)
<1>1. payment'[p] = payment[p] /\ bounce'[p] = bounce[p] /\ refund'[p] = refund[p]
  BY DEF Undisturbed, SamePayments
<1>2. CreditRemaining(p)' = CreditRemaining(p)
  BY CreditStays DEF CreditRemaining
<1>3. CreditUsable(p, x)' = CreditUsable(p, x) /\ MayRefund(p, x)' = MayRefund(p, x)
  BY <1>1, <1>2 DEF CreditUsable, MayRefund, IsKind, Unused, Posted, Bounced
<1>4. IsKind(p, {"hold"})' = IsKind(p, {"hold"})
  BY <1>1 DEF IsKind
<1> QED
  BY <1>3, <1>4 DEF ApplyCreditEffect, RefundEffect

LEMMA DepositableStays ==
    ASSUME NEW P, NEW D, NEW I, Undisturbed(P, D, I), NEW p \in P, NEW d, Depositable(p, d), LiveDepositsFor(p) \subseteq D
    PROVE  Depositable(p, d)'
<1>1. payment'[p] = payment[p] /\ bounce'[p] = bounce[p]
  BY DEF Undisturbed, SamePayments
<1>2. LiveDepositsFor(p)' = LiveDepositsFor(p)
  BY DepositsStay
<1> QED
  BY <1>1, <1>2 DEF Depositable, Posted, Bounced

\* The items of a deposit in hand are not bounced meanwhile.
LEMMA UnbouncedStays ==
    ASSUME AllPaid, NEW P, NEW D, NEW I, Undisturbed(P, D, I), NEW d \in D
    PROVE  /\ deposit'[d] = deposit[d]
           /\ deposit[d].st = "posted" /\ SourcesUnbounced(d) => SourcesUnbounced(d)'
<1>1. d \in Deposits /\ deposit'[d] = deposit[d]
  BY DEF Undisturbed, SameDeposits
<1>2. PICK S : S = deposit[d].items
  OBVIOUS
<1>3. S \in SUBSET Payments
  BY <1>1, <1>2 DEF AllPaid, PayInv, Tables, DepositRow
<1>4. ASSUME deposit[d].st = "posted", SourcesUnbounced(d)
      PROVE  SourcesUnbounced(d)'
  <2>1. ASSUME NEW x \in S
        PROVE  ~Bounced(x)'
    <3>1. x \in Payments /\ d \in LiveDepositsFor(x)
      BY <1>1, <1>2, <1>3, <1>4 DEF LiveDepositsFor
    <3>2. bounce'[x] = bounce[x]
      BY <3>1 DEF Undisturbed, SameBounces
    <3> QED
      BY <1>2, <1>4, <3>2 DEF SourcesUnbounced, Bounced
  <2> QED
    BY <1>1, <1>2, <2>1 DEF SourcesUnbounced
<1> QED
  BY <1>1, <1>4

\* A deposit in hand, and what a change of it takes out of Payments Clearing.
LEMMA DepositStays ==
    ASSUME AllPaid, NEW P, NEW D, NEW I, Undisturbed(P, D, I), NEW d \in D, NEW st,
           NEW items, items \subseteq P, \A x \in items : ~Unused(x)
    PROVE  DepositEffect(d, st, items)' = DepositEffect(d, st, items)
<1>1. d \in Deposits /\ deposit'[d] = deposit[d]
  BY DEF Undisturbed, SameDeposits
<1>2. PICK S : S = deposit[d].items
  OBVIOUS
<1>3. S \in SUBSET Payments
  BY <1>1, <1>2 DEF AllPaid, PayInv, Tables, DepositRow
<1>4. \A x \in S : Firm(x, P)
  <2>1. \A x \in S : Posted(x) /\ LiveDepositsFor(x) # {} /\ PaymentShape(payment[x])
    BY <1>1, <1>2, <1>3 DEF AllPaid, PayInv, Tables, DepositsHoldPostedItems
  <2> QED
    BY <2>1 DEF Posted, Unused, PaymentShape, Firm
<1>5. TotalOf(S)' = TotalOf(S) /\ TotalOf(items)' = TotalOf(items)
  <2>1. items \in SUBSET Payments /\ \A x \in items : Firm(x, P)
    BY DEF Firm, Undisturbed
  <2> QED
    BY <1>3, <1>4, <2>1, TotalStays
<1>6. DepositEffect(d, st, items) =
        [Nothing EXCEPT !.deposit = Only(d, [st |-> st, items |-> items]), !.clearing = TotalOf(S) - TotalOf(items)]
  BY <1>2 DEF DepositEffect
<1>7. DepositEffect(d, st, items)' =
        [Nothing EXCEPT !.deposit = Only(d, [st |-> st, items |-> items]), !.clearing = TotalOf(S)' - TotalOf(items)']
  BY <1>1, <1>2 DEF DepositEffect
<1> QED
  BY <1>1, <1>5, <1>6, <1>7

LEMMA VoidInvoiceStays ==
    ASSUME AllPaid, NEW P, NEW D, NEW I, Undisturbed(P, D, I), NEW i \in I, MayVoidInvoice(i)
    PROVE  MayVoidInvoice(i)' /\ VoidInvoiceEffect(i)' = VoidInvoiceEffect(i)
<1>1. invoice'[i] = invoice[i]
  BY DEF Undisturbed
<1>2. Unapplied(i)'
  <2>1. \A r \in DOMAIN apps' : r.inv = i => r \in DOMAIN apps
    BY DEF Undisturbed, SameRows
  <2>2. \A r \in DOMAIN apps : r.by = None => Posted(r.pay)
    BY DEF AllPaid, PayInv, LiveRowsStand
  <2> QED
    BY <2>1, <2>2 DEF Unapplied, MayVoidInvoice
<1> QED
  BY <1>1, <1>2 DEF MayVoidInvoice, VoidInvoiceEffect

LEMMA UnapplyStays ==
    ASSUME NEW P, NEW D, NEW I, Undisturbed(P, D, I), NEW o, o.p \in P
    PROVE  RowsOn(o)' = RowsOn(o)
BY RowsStay DEF RowsOn

LEMMA TakeStays ==
    ASSUME AllPaid', NEW P, NEW D, NEW I, Undisturbed(P, D, I), NEW q \in Bodies, InvoicesTake(q, invoice),
           SettledIn(q) \subseteq I
    PROVE  InvoicesTake(q, invoice)'
<1>1. \A i \in I : invoice'[i] = invoice[i]
  BY DEF Undisturbed
<1>2. ASSUME NEW i \in Invoices, i \notin I
      PROVE  On(q, i) <= PayableCents(invoice'[i])
  <2>1. On(q, i) \in Nat /\ ~(On(q, i) > 0)
    BY <1>2, TakenOn DEF SettledIn
  <2>2. PICK row : row = invoice'[i]
    OBVIOUS
  <2>3. row \in InvoiceRow
    BY <2>2 DEF AllPaid, PaidInv, PaidTies
  <2>4. PayableCents(row) \in Nat
    BY <2>3 DEF InvoiceRow, PayableCents, AtLeastZero
  <2> QED
    BY <2>1, <2>2, <2>4
<1>3. \A i \in Invoices : On(q, i) <= PayableCents(invoice'[i])
  BY <1>1, <1>2 DEF InvoicesTake
<1>4. \A i \in Invoices : On(q, i)' = On(q, i)
  BY DEF On
<1> QED
  BY <1>3, <1>4 DEF InvoicesTake

\* What an invoice owes without the rows an edit sets aside is a number.
LEMMA OwedIsInt ==
    ASSUME NEW invs, NEW i \in Invoices, NEW inv \in InvoiceRow, inv = invs[i], NEW gone, Typed(gone)
    PROVE  Moved(invs, gone, EmptyBag)[i].balance \in Int
<1>1. PaidBy(gone, i) \in Nat
  BY PaidIsWeight
<1>2. PaidBy(EmptyBag, i) = 0
  BY BagDomains, NothingPaid
<1>3. inv.paid \in Int /\ inv.balance \in Int
  BY DEF InvoiceRow
<1>4. PICK paid : paid = inv.paid + PaidBy(EmptyBag, i) - PaidBy(gone, i)
  OBVIOUS
<1>5. PICK new : new = [inv EXCEPT !.paid = paid, !.balance = @ - (paid - inv.paid)]
  OBVIOUS
<1>6. new = Moved(invs, gone, EmptyBag)[i]
  BY <1>4, <1>5 DEF Moved
<1>7. new.balance = inv.balance - (paid - inv.paid)
  BY <1>5 DEF InvoiceRow
<1> QED
  BY <1>1, <1>2, <1>3, <1>4, <1>6, <1>7

LEMMA EditHoldsStay ==
    ASSUME AllPaid, AllPaid', NEW P, NEW D, NEW I, Undisturbed(P, D, I), NEW p \in P, ScopeOf(p) \subseteq P,
           NEW q \in Bodies, SourcesOf(q) \subseteq P, SettledIn(q) \subseteq I, EditHolds(p, q)
    PROVE  EditHolds(p, q)'
<1>1. p \in Payments
  BY DEF Undisturbed
<1>2. PICK N : N = DrawsInside(p)
  OBVIOUS
<1>3. PICK G : G = SetAside(p)
  OBVIOUS
<1>4. N \subseteq P /\ N = DrawsInside(p)'
  <2>1. N \subseteq P
    BY <1>1, <1>2, InScope
  <2> QED
    BY <1>2, <2>1, DrawsStay
<1>5. G = SetAside(p)' /\ \A r \in G : apps'[r] = apps[r]
  BY <1>2, <1>3, <1>4, SetAsideStays
<1>6. SourcesHold(q, G, N)'
  <2>1. \A c \in q.credits : c.src \in P
    BY DEF SourcesOf
  <2>2. \A x \in P : payment'[x] = payment[x] /\ bounce'[x] = bounce[x]
    BY DEF Undisturbed, SamePayments
  <2>3. \A c \in q.credits : CreditLeft(c.src, G, N)' = CreditLeft(c.src, G, N)
    BY <2>1, CreditLeftStays
  <2>4. SourcesHold(q, G, N)
    BY <1>2, <1>3 DEF EditHolds
  <2> QED
    BY <2>1, <2>2, <2>3, <2>4 DEF SourcesHold, IsKind, Bounced
<1>7. PICK gone : gone = Copies(G)
  OBVIOUS
<1>8. gone = Copies(G)'
  BY <1>5, <1>7, CopiesStay
<1>9. Typed(gone)
  <2>1. G \subseteq DOMAIN apps
    BY <1>3 DEF SetAside, RowsOf, LiveApplications, CreditsAppliedIn
  <2> QED
    BY <1>7, <2>1, CopiesFit DEF Typed, AllPaid, PaidInv
<1>10. ASSUME NEW i \in Invoices
       PROVE  On(q, i) <= PayableCents(Moved(invoice', gone, EmptyBag)[i])
  <2>1. CASE i \in I
    <3>1. invoice'[i] = invoice[i]
      BY <2>1 DEF Undisturbed
    <3>2. Moved(invoice', gone, EmptyBag)[i] = Moved(invoice, gone, EmptyBag)[i]
      BY <3>1 DEF Moved
    <3>3. On(q, i) <= PayableCents(Moved(invoice, gone, EmptyBag)[i])
      BY <1>3, <1>7 DEF EditHolds, InvoicesTake
    <3> QED
      BY <3>2, <3>3
  <2>2. CASE i \notin I
    <3>1. On(q, i) = 0
      BY <2>2, TakenOn DEF SettledIn
    <3>2. PICK new : new = Moved(invoice', gone, EmptyBag)[i]
      OBVIOUS
    <3>3. new.balance \in Int
      <4>1. PICK inv \in InvoiceRow : inv = invoice'[i]
        BY DEF AllPaid, PaidInv, PaidTies
      <4> QED
        BY <1>9, <3>2, <4>1, OwedIsInt
    <3>4. 0 <= PayableCents(new)
      BY <3>3 DEF PayableCents, AtLeastZero
    <3> QED
      BY <3>1, <3>2, <3>4
  <2> QED
    BY <2>1, <2>2
<1>11. \A i \in Invoices : On(q, i)' = On(q, i)
  BY DEF On
<1>12. EditHolds(p, q)' <=> /\ SourcesHold(q, SetAside(p), DrawsInside(p))'
                            /\ \A i \in Invoices : On(q, i)' <= PayableCents(Moved(invoice', Copies(SetAside(p))', EmptyBag)[i])
  BY DEF EditHolds, InvoicesTake
<1>13. SourcesHold(q, SetAside(p), DrawsInside(p))'
  BY <1>4, <1>5, <1>6 DEF SourcesHold, CreditLeft
<1>14. Copies(SetAside(p))' = gone
  BY <1>5, <1>8 DEF Copies
<1> QED
  BY <1>10, <1>11, <1>12, <1>13, <1>14

-----------------------------------------------------------------------------
(* The rows of an operation, as sets of table and id.                      *)

PaymentsIn(H) == {x \in Payments : <<"payment", x>> \in H}
DepositsIn(H) == {d \in Deposits : <<"deposit", d>> \in H}
InvoicesIn(H) == {i \in Invoices : <<"invoice", i>> \in H}
Holds(H, W) == \A w \in W : RowOf(w) \in H

LEMMA HoldsRows ==
    ASSUME NEW H, NEW t, NEW ids, NEW u
    PROVE  Holds(H, Rows(t, ids, u)) <=> \A x \in ids : <<t, x>> \in H
<1>1. \A x \in ids : LET w == [table |-> t, id |-> x, turn |-> u] IN w \in Rows(t, ids, u) /\ RowOf(w) = <<t, x>>
  BY DEF Rows, RowOf
<1>2. \A w \in Rows(t, ids, u) : \E x \in ids : RowOf(w) = <<t, x>>
  BY DEF Rows, RowOf
<1> QED
  BY <1>1, <1>2 DEF Holds

\* Only a draw is on another payment.
FromKept == \A p \in Payments : ~IsKind(p, {"draw"}) => payment[p].from = None

\* What a payment is linked to is in use.
LEMMA ScopeInUse ==
    ASSUME AllPaid, KeptInv, FromKept, NEW p \in Payments, ~Unused(p)
    PROVE  /\ ScopeOf(p) \subseteq Payments /\ \A x \in ScopeOf(p) : ~Unused(x)
           /\ \A r \in ReversedBy(p) : /\ r.pay \in Payments /\ ~Unused(r.pay)
                                       /\ r.inside # None => r.inside \in Payments /\ ~Unused(r.inside)
<1>1. ASSUME NEW r \in DOMAIN apps
      PROVE  /\ r.pay \in Payments /\ ~Unused(r.pay)
             /\ r.inside # None => r.inside \in Payments /\ ~Unused(r.inside)
  <2>1. RowShape(r) /\ IsKind(r.pay, {"payment", "draw", "memo"}) /\ (r.inside # None => IsKind(r.inside, {"payment"}))
    BY DEF AllPaid, PayInv, Tables, Kinship
  <2> QED
    BY <2>1 DEF RowShape, IsKind, Unused
<1>2. ASSUME NEW x \in Payments, payment[x].from # None
      PROVE  payment[x].from \in Payments /\ ~Unused(payment[x].from)
  <2>1. IsKind(x, {"draw"})
    BY <1>2 DEF FromKept
  <2>2. payment[x].from \in Payments /\ IsKind(payment[x].from, {"hold"})
    BY <2>1 DEF AllPaid, PayInv, Kinship
  <2> QED
    BY <2>2 DEF IsKind, Unused
<1>3. \A x \in PostedReceipts : x \in Payments /\ ~Unused(x)
  BY DEF PostedReceipts, IsKind, Unused
<1>4. ASSUME NEW x \in ScopeOf(p)
      PROVE  x \in Payments /\ ~Unused(x)
  <2>1. x # None
    BY DEF ScopeOf, SomeId
  <2>2. \/ x = p \/ x \in PostedReceipts
        \/ \E r \in LiveApplications(p) : x = r.inside
        \/ \E r \in CreditsAppliedIn(p) : x = r.pay
        \/ \E y \in {p} \cup PostedReceipts : x = payment[y].from
    BY DEF ScopeOf, SomeId
  <2>3. CASE \E r \in LiveApplications(p) : x = r.inside
    BY <1>1, <2>1, <2>3 DEF LiveApplications
  <2>4. CASE \E r \in CreditsAppliedIn(p) : x = r.pay
    BY <1>1, <2>4 DEF CreditsAppliedIn
  <2>5. CASE \E y \in {p} \cup PostedReceipts : x = payment[y].from
    BY <1>2, <1>3, <2>1, <2>5
  <2> QED
    BY <1>3, <2>2, <2>3, <2>4, <2>5
<1>5. ReversedBy(p) \subseteq DOMAIN apps
  BY DEF ReversedBy
<1> QED
  BY <1>1, <1>4, <1>5

\* What is in hand with the first locks of an operation.
LEMMA FirstInHand ==
    ASSUME AllPaid, KeptInv, FromKept, NEW o \in Ops, \A row \in Named(o) : InUseId(row),
           NEW H, Holds(H, FirstLocks(o)), NewIds(o) \subseteq H
    PROVE  /\ o.op \in Scoped => /\ o.p \in PaymentsIn(H) /\ ScopeOf(o.p) \subseteq PaymentsIn(H)
                                 /\ LiveDepositsFor(o.p) \subseteq DepositsIn(H)
                                 /\ ~Unused(o.p)
           /\ o.op = "voidBounce" => \A r \in ReversedBy(o.p) : r.pay \in PaymentsIn(H) /\ r.inside \in PaymentsIn(H) \cup {None}
           /\ o.op \in {"applyCredit", "refund"} => o.p \in PaymentsIn(H) /\ ~Unused(o.p)
           /\ o.op = "applyCredit" => o.draw \in PaymentsIn(H)
           /\ o.op = "receive" => o.p \in PaymentsIn(H) /\ o.draw \in PaymentsIn(H) /\ SourcesOf(o.q) \subseteq PaymentsIn(H)
           /\ o.op = "updatePayment" => o.draw \in PaymentsIn(H) /\ SourcesOf(o.q) \subseteq PaymentsIn(H)
           /\ o.op = "createDeposit" => o.items \subseteq PaymentsIn(H)
           /\ o.op \in {"createDeposit", "updateDeposit"} => \A x \in o.items : ~Unused(x)
           /\ o.op \in {"createDeposit", "updateDeposit", "voidDeposit"} => o.d \in DepositsIn(H)
           /\ o.op = "voidInvoice" => o.i \in InvoicesIn(H)
<1>1. \A x \in Payments : x # None
  BY PaymentsAssumption
<1>2. CASE o.op \in Scoped
  <2>1. o.p \in Payments
    BY <1>2, OpIs DEF OnPayment
  <2>2. <<"payment", o.p>> \in Named(o)
    BY <1>1, <1>2, <2>1 DEF Named, SomeId, Scoped
  <2>3. ~Unused(o.p)
    BY <2>2 DEF InUseId
  <2>4. FirstLocks(o) = Rows("deposit", LiveDepositsFor(o.p), o.p) \cup Rows("payment", ScopeOf(o.p) \cup Extra(o), o.p)
    BY <1>2 DEF FirstLocks, Scoped
  <2>5. Holds(H, Rows("deposit", LiveDepositsFor(o.p), o.p)) /\ Holds(H, Rows("payment", ScopeOf(o.p) \cup Extra(o), o.p))
    BY <2>4 DEF Holds
  <2>6. /\ \A d \in LiveDepositsFor(o.p) : <<"deposit", d>> \in H
        /\ \A x \in ScopeOf(o.p) \cup Extra(o) : <<"payment", x>> \in H
    BY <2>5, HoldsRows
  <2>7. ScopeOf(o.p) \subseteq PaymentsIn(H) /\ o.p \in PaymentsIn(H) /\ LiveDepositsFor(o.p) \subseteq DepositsIn(H)
    <3>1. LiveDepositsFor(o.p) \subseteq Deposits
      BY DEF LiveDepositsFor
    <3> QED
      BY <2>1, <2>3, <2>6, <3>1, InScope, ScopeInUse DEF PaymentsIn, DepositsIn
  <2>8. ASSUME o.op = "voidBounce", NEW r \in ReversedBy(o.p)
        PROVE  r.pay \in PaymentsIn(H) /\ r.inside \in PaymentsIn(H) \cup {None}
    <3>1. r.pay \in Payments /\ (r.inside # None => r.inside \in Payments)
      BY <2>1, <2>3, <2>8, ScopeInUse
    <3>2. r.pay \in Extra(o) /\ (r.inside # None => r.inside \in Extra(o))
      BY <1>1, <2>8, <3>1 DEF Extra, SomeId
    <3> QED
      BY <2>6, <3>1, <3>2 DEF PaymentsIn
  <2>9. ASSUME o.op = "updatePayment"
        PROVE  o.draw \in PaymentsIn(H) /\ SourcesOf(o.q) \subseteq PaymentsIn(H)
    <3>1. o.draw \in Payments /\ o.q \in Bodies
      BY <2>9, OpIs
    <3>2. SourcesOf(o.q) \subseteq Payments
      BY <3>1 DEF Bodies, Credits, SourcesOf
    <3>3. SourcesOf(o.q) = Extra(o)
      BY <2>9 DEF Extra
    <3>4. <<"payment", o.draw>> \in H
      BY <1>1, <2>9, <3>1 DEF NewIds, SomeId
    <3> QED
      BY <2>6, <3>1, <3>2, <3>3, <3>4 DEF PaymentsIn
  <2> QED
    BY <1>2, <2>3, <2>7, <2>8, <2>9 DEF Scoped
<1>3. CASE o.op \in {"applyCredit", "refund"}
  <2>1. o.p \in Payments
    BY <1>3, OpIs DEF OnPayment
  <2>2. <<"payment", o.p>> \in Named(o)
    BY <1>1, <1>3, <2>1 DEF Named, SomeId
  <2>3. ~Unused(o.p)
    BY <2>2 DEF InUseId
  <2>4. FirstLocks(o) = Rows("payment", {o.p}, o.p)
    BY <1>3 DEF FirstLocks, Scoped
  <2>5. o.p \in PaymentsIn(H)
    BY <2>1, <2>4, HoldsRows DEF PaymentsIn
  <2>6. o.op = "applyCredit" => o.draw \in PaymentsIn(H)
    BY <1>1, OpIs DEF NewIds, SomeId, PaymentsIn
  <2> QED
    BY <1>3, <2>3, <2>5, <2>6 DEF Scoped
<1>4. CASE o.op = "receive"
  <2>1. o.p \in Payments /\ o.draw \in Payments /\ o.q \in Bodies
    BY <1>4, OpIs DEF OnPayment
  <2>2. o.p \in PaymentsIn(H) /\ o.draw \in PaymentsIn(H)
    BY <1>1, <1>4, <2>1 DEF NewIds, SomeId, PaymentsIn
  <2>3. FirstLocks(o) = Rows("payment", SourcesOf(o.q), o.p)
    BY <1>4 DEF FirstLocks, Scoped
  <2>4. SourcesOf(o.q) \subseteq Payments
    BY <2>1 DEF Bodies, Credits, SourcesOf
  <2>5. SourcesOf(o.q) \subseteq PaymentsIn(H)
    BY <2>3, <2>4, HoldsRows DEF PaymentsIn
  <2> QED
    BY <1>4, <2>2, <2>5 DEF Scoped
<1>5. CASE o.op \in {"createDeposit", "updateDeposit"}
  <2>1. o.items \in SUBSET Payments /\ o.d \in Deposits
    BY <1>5, OpIs
  <2>2. \A x \in o.items : <<"payment", x>> \in Named(o)
    BY <1>5 DEF Named
  <2>3. \A x \in o.items : ~Unused(x)
    BY <2>2 DEF InUseId
  <2>4. ASSUME o.op = "createDeposit"
        PROVE  o.items \subseteq PaymentsIn(H) /\ o.d \in DepositsIn(H)
    <3>1. FirstLocks(o) = Rows("payment", o.items, o.p)
      BY <2>4 DEF FirstLocks, Scoped
    <3>2. o.items \subseteq PaymentsIn(H)
      BY <2>1, <3>1, HoldsRows DEF PaymentsIn
    <3> QED
      BY <2>1, <2>4, <3>2 DEF NewIds, DepositsIn
  <2>5. ASSUME o.op = "updateDeposit"
        PROVE  o.d \in DepositsIn(H)
    <3>1. FirstLocks(o) = Rows("deposit", {o.d}, o.p)
      BY <2>5 DEF FirstLocks, Scoped
    <3> QED
      BY <2>1, <3>1, HoldsRows DEF DepositsIn
  <2> QED
    BY <1>5, <2>3, <2>4, <2>5 DEF Scoped
<1>6. CASE o.op = "voidDeposit"
  <2>1. FirstLocks(o) = Rows("deposit", {o.d}, o.p) /\ o.d \in Deposits
    BY <1>6, OpIs DEF FirstLocks, Scoped
  <2>2. o.d \in DepositsIn(H)
    BY <2>1, HoldsRows DEF DepositsIn
  <2> QED
    BY <1>6, <2>2 DEF Scoped
<1>7. CASE o.op = "voidInvoice"
  <2>1. FirstLocks(o) = Rows("invoice", {o.i}, o.p) /\ o.i \in Invoices
    BY <1>7, OpIs DEF FirstLocks, Scoped
  <2>2. o.i \in InvoicesIn(H)
    BY <2>1, HoldsRows DEF InvoicesIn
  <2> QED
    BY <1>7, <2>2 DEF Scoped
<1> QED
  BY <1>2, <1>3, <1>4, <1>5, <1>6, <1>7, OpIs DEF OnPayment

\* What an operation has checked under its first locks, what it locks next and
\* what it will write stay, whatever else commits.
LEMMA ReadsStay ==
    ASSUME AllPaid, KeptInv, FromKept, NEW o \in Ops, \A row \in Named(o) : InUseId(row),
           NEW H, Undisturbed(PaymentsIn(H), DepositsIn(H), InvoicesIn(H)),
           Holds(H, FirstLocks(o)), NewIds(o) \subseteq H, FirstCheck(o)
    PROVE  /\ FirstCheck(o)' /\ FirstLocks(o)' = FirstLocks(o) /\ SecondLocks(o)' = SecondLocks(o)
           /\ ~ReadsLater(o) => Effect(o)' = Effect(o)
<1>1. PICK P, D, I : P = PaymentsIn(H) /\ D = DepositsIn(H) /\ I = InvoicesIn(H)
  OBVIOUS
<1>2. Undisturbed(P, D, I)
  BY <1>1
<1>3. PICK p : p = o.p
  OBVIOUS
<1>4. ASSUME o.op \in Scoped
      PROVE  /\ p \in P /\ ScopeOf(p) \subseteq P /\ LiveDepositsFor(p) \subseteq D /\ p \in Payments
             /\ ScopeOf(p)' = ScopeOf(p) /\ LiveDepositsFor(p)' = LiveDepositsFor(p) /\ Extra(o)' = Extra(o)
             /\ FirstLocks(o)' = FirstLocks(o)
  <2>1. p \in P /\ ScopeOf(p) \subseteq P /\ LiveDepositsFor(p) \subseteq D
    BY <1>1, <1>3, <1>4, FirstInHand
  <2>2. p \in Payments
    BY <1>1, <2>1 DEF PaymentsIn
  <2>3. ScopeOf(p)' = ScopeOf(p) /\ LiveDepositsFor(p)' = LiveDepositsFor(p) /\ ReversedBy(p)' = ReversedBy(p)
    BY <1>2, <2>1, ScopeStays, DepositsStay, RowsStay
  <2>4. Extra(o)' = Extra(o)
    BY <1>3, <2>3 DEF Extra, SourcesOf
  <2>5. FirstLocks(o)' = FirstLocks(o)
    <3>1. FirstLocks(o) = Rows("deposit", LiveDepositsFor(p), p) \cup Rows("payment", ScopeOf(p) \cup Extra(o), p)
      BY <1>3, <1>4 DEF FirstLocks, Scoped
    <3>2. FirstLocks(o)' = Rows("deposit", LiveDepositsFor(p)', p) \cup Rows("payment", ScopeOf(p)' \cup Extra(o)', p)
      BY <1>3, <1>4 DEF FirstLocks, Scoped
    <3> QED
      BY <2>3, <2>4, <3>1, <3>2
  <2> QED
    BY <2>1, <2>2, <2>3, <2>4, <2>5
<1>5. o.op \notin Scoped => FirstLocks(o)' = FirstLocks(o)
  <2>1. \A q : SourcesOf(q)' = SourcesOf(q)
    BY DEF SourcesOf
  <2> QED
    BY <2>1, OpIs DEF FirstLocks, OnPayment, Scoped, Rows
<1>6. CASE o.op = "bounce"
  <2>1. /\ MayBounce(p) /\ Effect(o) = BounceEffect(p)
        /\ SecondLocks(o) = Rows("invoice", InvoicesOf(BounceRows(p)), p)
    BY <1>3, <1>6 DEF FirstCheck, Effect, SecondLocks
  <2>2. /\ FirstCheck(o)' <=> MayBounce(p)'
        /\ Effect(o)' = BounceEffect(p)'
        /\ SecondLocks(o)' = Rows("invoice", InvoicesOf(BounceRows(p)'), p)
    BY <1>3, <1>6 DEF FirstCheck, Effect, SecondLocks, InvoicesOf
  <2>3. MayBounce(p)' = MayBounce(p) /\ BounceEffect(p)' = BounceEffect(p) /\ BounceRows(p)' = BounceRows(p)
    BY <1>2, <1>4, <1>6, BounceStays, BounceRowsStay DEF Scoped
  <2> QED
    BY <1>4, <1>6, <2>1, <2>2, <2>3 DEF Scoped
<1>7. CASE o.op = "voidPayment"
  <2>1. MayVoidPayment(p) /\ Effect(o) = VoidPaymentEffect(p) /\ SecondLocks(o) = VoidLocks(p)
    BY <1>3, <1>7 DEF FirstCheck, Effect, SecondLocks
  <2>2. /\ FirstCheck(o)' <=> MayVoidPayment(p)'
        /\ Effect(o)' = VoidPaymentEffect(p)' /\ SecondLocks(o)' = VoidLocks(p)'
    BY <1>3, <1>7 DEF FirstCheck, Effect, SecondLocks
  <2>3. MayVoidPayment(p)' /\ VoidPaymentEffect(p)' = VoidPaymentEffect(p) /\ VoidLocks(p)' = VoidLocks(p)
    BY <1>2, <1>4, <1>7, <2>1, VoidPaymentStays DEF Scoped
  <2> QED
    BY <1>4, <1>7, <2>1, <2>2, <2>3 DEF Scoped
<1>8. CASE o.op = "voidBounce"
  <2>1. /\ Bounced(p) /\ Effect(o) = VoidBounceEffect(p)
        /\ SecondLocks(o) = Rows("invoice", InvoicesOf(ReversedBy(p)), p)
    BY <1>3, <1>8 DEF FirstCheck, Effect, SecondLocks
  <2>2. /\ FirstCheck(o)' <=> Bounced(p)'
        /\ Effect(o)' = VoidBounceEffect(p)'
        /\ SecondLocks(o)' = Rows("invoice", InvoicesOf(ReversedBy(p)'), p)
    BY <1>3, <1>8 DEF FirstCheck, Effect, SecondLocks, InvoicesOf
  <2>3. Bounced(p)' = Bounced(p) /\ VoidBounceEffect(p)' = VoidBounceEffect(p) /\ ReversedBy(p)' = ReversedBy(p)
    BY <1>2, <1>4, <1>8, VoidBounceStays DEF Scoped
  <2> QED
    BY <1>4, <1>8, <2>1, <2>2, <2>3 DEF Scoped
<1>9. CASE o.op = "unapply"
  <2>1. PICK R : R = RowsOn(o)
    OBVIOUS
  <2>2. RowsOn(o)' = R
    BY <1>2, <1>3, <1>4, <1>9, <2>1, UnapplyStays DEF Scoped
  <2>3. payment'[p] = payment[p] /\ bounce'[p] = bounce[p]
    BY <1>2, <1>4, <1>9 DEF Scoped, Undisturbed, SamePayments
  <2>4. /\ IsKind(p, {"payment"}) /\ Posted(p) /\ ~Bounced(p) /\ R # {}
        /\ Effect(o) = [Nothing EXCEPT !.gone = SetToBag({CHOOSE r \in R : TRUE})]
        /\ SecondLocks(o) = Rows("invoice", {o.i}, p)
    BY <1>3, <1>9, <2>1 DEF FirstCheck, Effect, SecondLocks
  <2>5. /\ FirstCheck(o)' <=> IsKind(p, {"payment"})' /\ Posted(p)' /\ ~Bounced(p)' /\ R # {}
        /\ Effect(o)' = [Nothing EXCEPT !.gone = SetToBag({CHOOSE r \in R : TRUE})]
        /\ SecondLocks(o)' = Rows("invoice", {o.i}, p)
    BY <1>3, <1>9, <2>2 DEF FirstCheck, Effect, SecondLocks
  <2> QED
    BY <1>4, <1>9, <2>3, <2>4, <2>5 DEF Scoped, IsKind, Posted, Bounced
<1>10. CASE o.op = "receive"
  <2>1. PICK q : q = o.q
    OBVIOUS
  <2>2. SourcesOf(q) \subseteq P
    BY <1>1, <1>10, <2>1, FirstInHand
  <2>3. PICK d : d = DrawOf(o, FromHold(q) # {})
    OBVIOUS
  <2>4. d = DrawOf(o, FromHold(q)' # {})
    BY <1>2, <2>2, <2>3, ReceiveStays
  <2>5. /\ WellFormed(q) /\ SourcesHold(q, {}, {}) /\ Effect(o) = SettleEffect(p, q, d, {}, {})
        /\ SecondLocks(o) = Rows("invoice", SettledIn(q), p)
    BY <1>3, <1>10, <2>1, <2>3 DEF FirstCheck, Effect, SecondLocks
  <2>6. /\ FirstCheck(o)' <=> WellFormed(q)' /\ SourcesHold(q, {}, {})'
        /\ Effect(o)' = SettleEffect(p, q, d, {}, {})'
        /\ SecondLocks(o)' = Rows("invoice", SettledIn(q), p)
    BY <1>3, <1>10, <2>1, <2>4 DEF FirstCheck, Effect, SecondLocks, DrawOf, SettledIn, On
  <2>7. WellFormed(q)' = WellFormed(q)
    BY DEF WellFormed
  <2> QED
    BY <1>2, <1>5, <1>10, <2>2, <2>5, <2>6, <2>7, ReceiveStays DEF Scoped
<1>11. CASE o.op = "applyCredit"
  <2>1. PICK i, x : i = o.i /\ x = o.x
    OBVIOUS
  <2>2. p \in P
    BY <1>1, <1>3, <1>11, FirstInHand
  <2>3. PICK d : d = DrawOf(o, IsKind(p, {"hold"}))
    OBVIOUS
  <2>4. d = DrawOf(o, IsKind(p, {"hold"})')
    BY <1>2, <2>2, <2>3, CreditUseStays
  <2>5. CreditUsable(p, x) /\ Effect(o) = ApplyCreditEffect(p, i, x, d) /\ SecondLocks(o) = Rows("invoice", {i}, p)
    BY <1>3, <1>11, <2>1, <2>3 DEF FirstCheck, Effect, SecondLocks
  <2>6. /\ FirstCheck(o)' <=> CreditUsable(p, x)'
        /\ Effect(o)' = ApplyCreditEffect(p, i, x, d)' /\ SecondLocks(o)' = Rows("invoice", {i}, p)
    BY <1>3, <1>11, <2>1, <2>4 DEF FirstCheck, Effect, SecondLocks, DrawOf
  <2> QED
    BY <1>2, <1>5, <1>11, <2>2, <2>5, <2>6, CreditUseStays DEF Scoped
<1>12. CASE o.op = "refund"
  <2>1. PICK x : x = o.x
    OBVIOUS
  <2>2. p \in P
    BY <1>1, <1>3, <1>12, FirstInHand
  <2>3. MayRefund(p, x) /\ Effect(o) = RefundEffect(p, x, x) /\ SecondLocks(o) = {}
    BY <1>3, <1>12, <2>1 DEF FirstCheck, Effect, SecondLocks
  <2>4. (FirstCheck(o)' <=> MayRefund(p, x)') /\ Effect(o)' = RefundEffect(p, x, x)' /\ SecondLocks(o)' = {}
    BY <1>3, <1>12, <2>1 DEF FirstCheck, Effect, SecondLocks
  <2> QED
    BY <1>2, <1>5, <1>12, <2>2, <2>3, <2>4, CreditUseStays DEF Scoped
<1>13. CASE o.op = "createDeposit"
  <2>1. PICK d, items : d = o.d /\ items = o.items
    OBVIOUS
  <2>2. d \in D /\ items \subseteq P /\ items \in SUBSET Payments /\ \A x \in items : ~Unused(x)
    BY <1>1, <1>13, <2>1, FirstInHand DEF PaymentsIn
  <2>3. /\ MayCreateDeposit(d, items) /\ Effect(o) = DepositEffect(d, "posted", items) /\ SecondLocks(o) = {}
    BY <1>13, <2>1 DEF FirstCheck, Effect, SecondLocks
  <2>4. /\ FirstCheck(o)' <=> MayCreateDeposit(d, items)'
        /\ Effect(o)' = DepositEffect(d, "posted", items)' /\ SecondLocks(o)' = {}
    BY <1>13, <2>1 DEF FirstCheck, Effect, SecondLocks
  <2>5. deposit'[d] = deposit[d] /\ DepositEffect(d, "posted", items)' = DepositEffect(d, "posted", items)
    BY <1>2, <2>2, DepositStays, UnbouncedStays
  <2>6. ASSUME NEW x \in items
        PROVE  Depositable(x, d)'
    <3>1. Depositable(x, d) /\ LiveDepositsFor(x) \subseteq D
      BY <2>2, <2>3 DEF MayCreateDeposit, Depositable
    <3> QED
      BY <1>2, <2>2, <3>1, DepositableStays
  <2> QED
    BY <1>5, <1>13, <2>3, <2>4, <2>5, <2>6 DEF Scoped, MayCreateDeposit
<1>14. CASE o.op = "updateDeposit"
  <2>1. PICK d, items : d = o.d /\ items = o.items
    OBVIOUS
  <2>2. d \in D
    BY <1>1, <1>14, <2>1, FirstInHand
  <2>3. deposit[d].st = "posted" /\ SourcesUnbounced(d) /\ SecondLocks(o) = Rows("payment", items, p)
    BY <1>3, <1>14, <2>1 DEF FirstCheck, SecondLocks
  <2>4. /\ FirstCheck(o)' <=> deposit'[d].st = "posted" /\ SourcesUnbounced(d)'
        /\ SecondLocks(o)' = Rows("payment", items, p)
    BY <1>3, <1>14, <2>1 DEF FirstCheck, SecondLocks
  <2>5. deposit'[d] = deposit[d] /\ SourcesUnbounced(d)'
    BY <1>2, <2>2, <2>3, UnbouncedStays
  <2> QED
    BY <1>5, <1>14, <2>3, <2>4, <2>5 DEF Scoped, ReadsLater
<1>15. CASE o.op = "voidDeposit"
  <2>1. PICK d : d = o.d
    OBVIOUS
  <2>2. d \in D
    BY <1>1, <1>15, <2>1, FirstInHand
  <2>3. MayVoidDeposit(d) /\ Effect(o) = DepositEffect(d, "void", {}) /\ SecondLocks(o) = {}
    BY <1>15, <2>1 DEF FirstCheck, Effect, SecondLocks
  <2>4. /\ FirstCheck(o)' <=> MayVoidDeposit(d)'
        /\ Effect(o)' = DepositEffect(d, "void", {})' /\ SecondLocks(o)' = {}
    BY <1>15, <2>1 DEF FirstCheck, Effect, SecondLocks
  <2>5. /\ deposit'[d] = deposit[d] /\ DepositEffect(d, "void", {})' = DepositEffect(d, "void", {})
        /\ deposit[d].st = "posted" /\ SourcesUnbounced(d) => SourcesUnbounced(d)'
    <3>1. DepositEffect(d, "void", {})' = DepositEffect(d, "void", {})
      BY <1>2, <2>2, DepositStays
    <3> QED
      BY <1>2, <2>2, <3>1, UnbouncedStays
  <2> QED
    BY <1>5, <1>15, <2>3, <2>4, <2>5 DEF Scoped, MayVoidDeposit
<1>16. CASE o.op = "voidInvoice"
  <2>1. PICK i : i = o.i
    OBVIOUS
  <2>2. i \in I
    BY <1>1, <1>16, <2>1, FirstInHand
  <2>3. MayVoidInvoice(i) /\ Effect(o) = VoidInvoiceEffect(i) /\ SecondLocks(o) = {}
    BY <1>16, <2>1 DEF FirstCheck, Effect, SecondLocks
  <2>4. (FirstCheck(o)' <=> MayVoidInvoice(i)') /\ Effect(o)' = VoidInvoiceEffect(i)' /\ SecondLocks(o)' = {}
    BY <1>16, <2>1 DEF FirstCheck, Effect, SecondLocks
  <2> QED
    BY <1>2, <1>5, <1>16, <2>2, <2>3, <2>4, VoidInvoiceStays DEF Scoped
<1>17. CASE o.op = "updatePayment"
  <2>1. PICK q : q = o.q
    OBVIOUS
  <2>2. SourcesOf(q) \subseteq P
    BY <1>1, <1>17, <2>1, FirstInHand
  <2>3. PICK d : d = DrawOf(o, FromHold(q) # {})
    OBVIOUS
  <2>4. /\ WellFormed(q) /\ MayUpdatePayment(p, q) /\ Effect(o) = UpdatePaymentEffect(p, q, d)
        /\ SecondLocks(o) = UpdateLocks(p, q)
    BY <1>3, <1>17, <2>1, <2>3 DEF FirstCheck, Effect, SecondLocks
  <2>5. /\ MayUpdatePayment(p, q)' /\ UpdatePaymentEffect(p, q, d)' = UpdatePaymentEffect(p, q, d)
        /\ UpdateLocks(p, q)' = UpdateLocks(p, q) /\ FromHold(q)' = FromHold(q)
    BY <1>2, <1>4, <1>17, <2>2, <2>4, UpdateStays DEF Scoped
  <2>6. d = DrawOf(o, FromHold(q)' # {})
    BY <2>3, <2>5
  <2>7. /\ FirstCheck(o)' <=> WellFormed(q)' /\ MayUpdatePayment(p, q)'
        /\ Effect(o)' = UpdatePaymentEffect(p, q, d)' /\ SecondLocks(o)' = UpdateLocks(p, q)'
    BY <1>3, <1>17, <2>1, <2>6 DEF FirstCheck, Effect, SecondLocks, DrawOf
  <2>8. WellFormed(q)' = WellFormed(q)
    BY DEF WellFormed
  <2> QED
    BY <1>4, <1>17, <2>4, <2>5, <2>7, <2>8 DEF Scoped
<1> QED
  BY <1>6, <1>7, <1>8, <1>9, <1>10, <1>11, <1>12, <1>13, <1>14, <1>15, <1>16, <1>17, OpIs DEF OnPayment, Scoped

\* What it has checked under its second locks stays.
LEMMA ChecksStay ==
    ASSUME AllPaid, AllPaid', KeptInv, FromKept, NEW o \in Ops, \A row \in Named(o) : InUseId(row),
           NEW H, Undisturbed(PaymentsIn(H), DepositsIn(H), InvoicesIn(H)),
           Holds(H, FirstLocks(o)), Holds(H, SecondLocks(o)), NewIds(o) \subseteq H,
           SecondCheck(o)
    PROVE  SecondCheck(o)'
<1>1. PICK P, D, I : P = PaymentsIn(H) /\ D = DepositsIn(H) /\ I = InvoicesIn(H)
  OBVIOUS
<1>2. Undisturbed(P, D, I)
  BY <1>1
<1>3. PICK p : p = o.p
  OBVIOUS
<1>4. CASE o.op = "voidBounce"
  <2>1. p \in P /\ \A r \in ReversedBy(p) : r.inside \in P \cup {None}
    BY <1>1, <1>3, <1>4, FirstInHand DEF Scoped
  <2>2. MayVoidBounce(p) /\ SecondLocks(o) = Rows("invoice", InvoicesOf(ReversedBy(p)), p)
    BY <1>3, <1>4 DEF SecondCheck, SecondLocks
  <2>3. SecondCheck(o)' <=> MayVoidBounce(p)'
    BY <1>3, <1>4 DEF SecondCheck
  <2>4. \A r \in ReversedBy(p) : r.inv \in I
    <3>1. \A i \in InvoicesOf(ReversedBy(p)) : <<"invoice", i>> \in H
      BY <2>2, HoldsRows
    <3>2. \A r \in ReversedBy(p) : r.inv \in Invoices
      BY DEF ReversedBy, AllPaid, PayInv, Tables, RowShape
    <3> QED
      BY <1>1, <3>1, <3>2 DEF InvoicesOf, InvoicesIn
  <2> QED
    BY <1>2, <2>1, <2>2, <2>3, <2>4, MayVoidBounceStays
<1>5. CASE o.op = "receive"
  <2>1. PICK q : q = o.q
    OBVIOUS
  <2>2. q \in Bodies /\ InvoicesTake(q, invoice) /\ SecondLocks(o) = Rows("invoice", SettledIn(q), p)
    BY <1>3, <1>5, <2>1, OpIs DEF SecondCheck, SecondLocks
  <2>3. SecondCheck(o)' <=> InvoicesTake(q, invoice)'
    BY <1>5, <2>1 DEF SecondCheck, InvoicesTake, On
  <2>4. SettledIn(q) \subseteq I
    BY <1>1, <2>2, HoldsRows DEF InvoicesIn, SettledIn
  <2> QED
    BY <1>2, <2>2, <2>3, <2>4, TakeStays
<1>6. CASE o.op = "applyCredit"
  <2>1. PICK i : i = o.i
    OBVIOUS
  <2>2. i \in Invoices /\ o.x <= PayableCents(invoice[i]) /\ SecondLocks(o) = Rows("invoice", {i}, p)
    BY <1>3, <1>6, <2>1, OpIs DEF SecondCheck, SecondLocks
  <2>3. i \in I
    BY <1>1, <2>2, HoldsRows DEF InvoicesIn
  <2>4. SecondCheck(o)' <=> o.x <= PayableCents(invoice'[i])
    BY <1>6, <2>1 DEF SecondCheck
  <2> QED
    BY <1>2, <2>2, <2>3, <2>4 DEF Undisturbed
<1>7. CASE o.op = "updateDeposit"
  <2>1. PICK d, items : d = o.d /\ items = o.items
    OBVIOUS
  <2>2. items \in SUBSET Payments /\ d \in D
    BY <1>1, <1>7, <2>1, OpIs, FirstInHand
  <2>3. (\A x \in items : Depositable(x, d)) /\ SecondLocks(o) = Rows("payment", items, p)
    BY <1>3, <1>7, <2>1 DEF SecondCheck, SecondLocks
  <2>4. SecondCheck(o)' <=> \A x \in items : Depositable(x, d)'
    BY <1>7, <2>1 DEF SecondCheck
  <2>5. items \subseteq P
    BY <1>1, <2>2, <2>3, HoldsRows DEF PaymentsIn
  <2>6. ASSUME NEW x \in items
        PROVE  Depositable(x, d)'
    <3>1. Depositable(x, d) /\ LiveDepositsFor(x) \subseteq D
      BY <2>2, <2>3 DEF Depositable
    <3> QED
      BY <1>2, <2>5, <3>1, DepositableStays
  <2> QED
    BY <2>4, <2>6
<1>8. CASE o.op = "updatePayment"
  <2>1. PICK q : q = o.q
    OBVIOUS
  <2>2. q \in Bodies /\ EditHolds(p, q) /\ SecondLocks(o) = UpdateLocks(p, q)
    BY <1>3, <1>8, <2>1, OpIs DEF SecondCheck, SecondLocks
  <2>3. SecondCheck(o)' <=> EditHolds(p, q)'
    BY <1>3, <1>8, <2>1 DEF SecondCheck
  <2>4. SettledIn(q) \subseteq I
    <3>1. \A i \in SettledIn(q) : [table |-> "invoice", id |-> i, turn |-> p] \in SecondLocks(o)
      BY <2>2 DEF UpdateLocks, Rows
    <3> QED
      BY <1>1, <3>1 DEF Holds, RowOf, InvoicesIn, SettledIn
  <2>5. p \in P /\ ScopeOf(p) \subseteq P /\ SourcesOf(q) \subseteq P
    BY <1>1, <1>3, <1>8, <2>1, FirstInHand DEF Scoped
  <2> QED
    BY <1>2, <2>2, <2>3, <2>4, <2>5, EditHoldsStay
<1>9. CASE o.op \notin {"voidBounce", "receive", "applyCredit", "updateDeposit", "updatePayment"}
  BY <1>9 DEF SecondCheck
<1> QED
  BY <1>4, <1>5, <1>6, <1>7, <1>8, <1>9

\* And what it writes stays, that of a change of a deposit included.
LEMMA EffectStays ==
    ASSUME AllPaid, KeptInv, FromKept, NEW o \in Ops, \A row \in Named(o) : InUseId(row),
           NEW H, Undisturbed(PaymentsIn(H), DepositsIn(H), InvoicesIn(H)),
           Holds(H, FirstLocks(o)), Holds(H, SecondLocks(o)), NewIds(o) \subseteq H, FirstCheck(o)
    PROVE  Effect(o)' = Effect(o)
<1>1. PICK P, D, I : P = PaymentsIn(H) /\ D = DepositsIn(H) /\ I = InvoicesIn(H)
  OBVIOUS
<1>2. ASSUME ReadsLater(o)
      PROVE  Effect(o)' = Effect(o)
  <2>1. PICK d, items : d = o.d /\ items = o.items
    OBVIOUS
  <2>2. o.op = "updateDeposit"
    BY <1>2 DEF ReadsLater
  <2>3. items \in SUBSET Payments /\ d \in D /\ \A x \in items : ~Unused(x)
    BY <1>1, <2>1, <2>2, OpIs, FirstInHand
  <2>4. SecondLocks(o) = Rows("payment", items, o.p)
    BY <2>1, <2>2 DEF SecondLocks
  <2>5. items \subseteq P
    BY <1>1, <2>3, <2>4, HoldsRows DEF PaymentsIn
  <2>6. Effect(o) = DepositEffect(d, "posted", items) /\ Effect(o)' = DepositEffect(d, "posted", items)'
    BY <2>1, <2>2 DEF Effect
  <2> QED
    BY <1>1, <2>3, <2>5, <2>6, DepositStays
<1> QED
  BY <1>2, ReadsStay

\* The invoices of the draws inside a payment are locked with them.
LEMMA DrawLocksHeld ==
    ASSUME AllPaid, NEW p, NEW H, Holds(H, DrawLocks(p)), NEW r \in RowsOf(DrawsInside(p))
    PROVE  r.inv \in InvoicesIn(H)
<1>1. PICK x \in DrawsInside(p) : r \in LiveApplications(x) \cup CreditsAppliedIn(x)
  BY DEF RowsOf
<1>2. r \in RowsOf({x}) /\ r \in DOMAIN apps
  BY <1>1 DEF RowsOf, LiveApplications, CreditsAppliedIn
<1>3. Rows("invoice", InvoicesOf(RowsOf({x})), x) \subseteq DrawLocks(p)
  BY <1>1 DEF DrawLocks
<1>4. Holds(H, Rows("invoice", InvoicesOf(RowsOf({x})), x))
  BY <1>3 DEF Holds
<1>5. \A i \in InvoicesOf(RowsOf({x})) : <<"invoice", i>> \in H
  BY <1>4, HoldsRows
<1>6. r.inv \in Invoices
  BY <1>2 DEF AllPaid, PayInv, Tables, RowShape
<1> QED
  BY <1>2, <1>5, <1>6 DEF InvoicesOf, InvoicesIn

\* All an operation writes, and all it is linked to, is in hand when it commits.
LEMMA EffectFootprint ==
    ASSUME AllPaid, KeptInv, FromKept, NEW o \in Ops, \A row \in Named(o) : InUseId(row),
           \A row \in NewIds(o) : ~InUseId(row),
           NEW H, Holds(H, FirstLocks(o)), Holds(H, SecondLocks(o)), NewIds(o) \subseteq H,
           FirstCheck(o)
    PROVE  Footprint(Effect(o), PaymentsIn(H), DepositsIn(H), InvoicesIn(H))
<1>1. PICK P, D, I : P = PaymentsIn(H) /\ D = DepositsIn(H) /\ I = InvoicesIn(H)
  OBVIOUS
<1>2. PICK p : p = o.p
  OBVIOUS
<1>3. o.op \in Scoped => p \in P /\ p \in Payments /\ ScopeOf(p) \subseteq P /\ LiveDepositsFor(p) \subseteq D /\ ~Unused(p)
  BY <1>1, <1>2, FirstInHand DEF PaymentsIn
<1>4. \A r \in DOMAIN apps : r.inv \in Invoices
  BY DEF AllPaid, PayInv, Tables, RowShape
<1>5. \A x \in Payments : x # None
  BY PaymentsAssumption
<1>6. CASE o.op = "bounce"
  <2>1. Effect(o) = BounceEffect(p) /\ SecondLocks(o) = Rows("invoice", InvoicesOf(BounceRows(p)), p)
    BY <1>2, <1>6 DEF Effect, SecondLocks
  <2>2. InvoicesOf(BounceRows(p)) \subseteq I
    <3>1. \A i \in InvoicesOf(BounceRows(p)) : <<"invoice", i>> \in H
      BY <2>1, HoldsRows
    <3>2. BounceRows(p) \subseteq DOMAIN apps
      BY DEF BounceRows, LiveApplications
    <3> QED
      BY <1>1, <1>4, <3>1, <3>2 DEF InvoicesOf, InvoicesIn
  <2>3. Footprint(BounceEffect(p), P, D, I)
    BY <1>3, <1>6, <2>2, BounceFootprint DEF Scoped
  <2> QED
    BY <1>1, <2>1, <2>3
<1>7. CASE o.op = "voidPayment"
  <2>1. Effect(o) = VoidPaymentEffect(p) /\ SecondLocks(o) = VoidLocks(p)
    BY <1>2, <1>7 DEF Effect, SecondLocks
  <2>2. ASSUME NEW r \in RowsOf({p} \cup DrawsInside(p))
        PROVE  r.inv \in I
    <3>1. Holds(H, DrawLocks(p)) /\ Holds(H, Rows("invoice", InvoicesOf(RowsOf({p})), p))
      BY <2>1 DEF VoidLocks, Holds
    <3>2. CASE r \in RowsOf(DrawsInside(p))
      BY <1>1, <3>1, <3>2, DrawLocksHeld
    <3>3. CASE r \in RowsOf({p})
      <4>1. r \in DOMAIN apps
        BY <3>3 DEF RowsOf, LiveApplications, CreditsAppliedIn
      <4>2. \A i \in InvoicesOf(RowsOf({p})) : <<"invoice", i>> \in H
        BY <3>1, HoldsRows
      <4> QED
        BY <1>1, <1>4, <3>3, <4>1, <4>2 DEF InvoicesIn, InvoicesOf
    <3> QED
      BY <3>2, <3>3 DEF RowsOf
  <2>3. InvoicesOf(RowsOf({p} \cup DrawsInside(p))) \subseteq I
    BY <2>2 DEF InvoicesOf
  <2>4. Footprint(VoidPaymentEffect(p), P, D, I)
    BY <1>3, <1>7, <2>3, VoidPaymentFootprint DEF Scoped
  <2> QED
    BY <1>1, <2>1, <2>4
<1>8. CASE o.op = "voidBounce"
  <2>1. Effect(o) = VoidBounceEffect(p) /\ SecondLocks(o) = Rows("invoice", InvoicesOf(ReversedBy(p)), p)
    BY <1>2, <1>8 DEF Effect, SecondLocks
  <2>2. InvoicesOf(ReversedBy(p)) \subseteq I
    <3>1. \A i \in InvoicesOf(ReversedBy(p)) : <<"invoice", i>> \in H
      BY <2>1, HoldsRows
    <3>2. ReversedBy(p) \subseteq DOMAIN apps
      BY DEF ReversedBy
    <3> QED
      BY <1>1, <1>4, <3>1, <3>2 DEF InvoicesOf, InvoicesIn
  <2>3. \A r \in ReversedBy(p) : r.pay \in P /\ r.inside \in P \cup {None}
    BY <1>1, <1>2, <1>8, FirstInHand
  <2>4. Footprint(VoidBounceEffect(p), P, D, I)
    BY <1>3, <1>8, <2>2, <2>3, VoidBounceFootprint DEF Scoped
  <2> QED
    BY <1>1, <2>1, <2>4
<1>9. CASE o.op = "unapply"
  <2>1. PICK r : r = CHOOSE x \in RowsOn(o) : TRUE
    OBVIOUS
  <2>2. RowsOn(o) # {} /\ Effect(o) = [Nothing EXCEPT !.gone = SetToBag({r})] /\ SecondLocks(o) = Rows("invoice", {o.i}, p)
    BY <1>2, <1>9, <2>1 DEF Effect, SecondLocks, FirstCheck
  <2>3. r \in LiveApplications(p) /\ r.inv = o.i
    BY <1>2, <2>1, <2>2 DEF RowsOn
  <2>4. r.inv \in I
    <3>1. <<"invoice", o.i>> \in H
      BY <2>2, HoldsRows
    <3> QED
      BY <1>1, <1>4, <2>3, <3>1 DEF InvoicesIn, LiveApplications
  <2>5. Footprint([Nothing EXCEPT !.gone = SetToBag({r})], P, D, I)
    BY <1>3, <1>9, <2>3, <2>4, UnapplyFootprint DEF Scoped
  <2> QED
    BY <1>1, <2>2, <2>5
<1>10. CASE o.op = "receive"
  <2>1. PICK q : q = o.q
    OBVIOUS
  <2>2. PICK d : d = DrawOf(o, FromHold(q) # {})
    OBVIOUS
  <2>3. /\ Effect(o) = SettleEffect(p, q, d, {}, {}) /\ q \in Bodies
        /\ SecondLocks(o) = Rows("invoice", SettledIn(q), p)
    BY <1>2, <1>10, <2>1, <2>2, OpIs DEF Effect, SecondLocks
  <2>4. SourcesOf(q) \subseteq P /\ o.draw \in P /\ p \in P /\ p \in Payments /\ o.draw \in Payments /\ o.draw # p
    BY <1>1, <1>2, <1>10, <2>1, FirstInHand, OpIs DEF PaymentsIn
  <2>5. <<"payment", p>> \in NewIds(o) /\ <<"payment", o.draw>> \in NewIds(o)
    BY <1>2, <1>5, <1>10, <2>4 DEF NewIds, SomeId
  <2>6. Unused(p) /\ Unused(o.draw)
    BY <2>5 DEF InUseId
  <2>7. d \in DrawIds(p, FromHold(q) # {}) /\ d \in P
    BY <1>2, <2>2, <2>4, <2>6 DEF DrawIds, DrawOf
  <2>8. SettledIn(q) \subseteq I
    BY <1>1, <2>3, HoldsRows DEF InvoicesIn, SettledIn
  <2>9. Footprint(SettleEffect(p, q, d, {}, {}), P, D, I)
    BY <2>3, <2>4, <2>6, <2>7, <2>8, ReceiveFootprint
  <2> QED
    BY <1>1, <2>3, <2>9
<1>11. CASE o.op = "applyCredit"
  <2>1. PICK i, x : i = o.i /\ x = o.x
    OBVIOUS
  <2>2. PICK d : d = DrawOf(o, IsKind(p, {"hold"}))
    OBVIOUS
  <2>3. /\ Effect(o) = ApplyCreditEffect(p, i, x, d) /\ i \in Invoices
        /\ SecondLocks(o) = Rows("invoice", {i}, p)
    BY <1>2, <1>11, <2>1, <2>2, OpIs DEF Effect, SecondLocks
  <2>4. o.draw \in P /\ p \in P /\ p \in Payments /\ o.draw \in Payments
    BY <1>1, <1>2, <1>11, FirstInHand DEF PaymentsIn
  <2>5. <<"payment", o.draw>> \in NewIds(o)
    BY <1>5, <1>11, <2>4 DEF NewIds, SomeId
  <2>6. Unused(o.draw)
    BY <2>5 DEF InUseId
  <2>7. i \in I
    BY <1>1, <2>3, HoldsRows DEF InvoicesIn
  <2>8. Footprint(ApplyCreditEffect(p, i, x, d), P, D, I)
    BY <2>2, <2>4, <2>6, <2>7, ApplyCreditFootprint DEF DrawOf
  <2> QED
    BY <1>1, <2>3, <2>8
<1>12. CASE o.op = "refund"
  <2>1. Effect(o) = RefundEffect(p, o.x, o.x) /\ p \in P
    BY <1>1, <1>2, <1>12, FirstInHand DEF Effect
  <2> QED
    BY <1>1, <2>1, RefundFootprint
<1>13. CASE o.op = "createDeposit"
  <2>1. Effect(o) = DepositEffect(o.d, "posted", o.items) /\ o.d \in D /\ o.items \subseteq P
    BY <1>1, <1>13, FirstInHand DEF Effect
  <2> QED
    BY <1>1, <2>1, DepositFootprint
<1>14. CASE o.op = "updateDeposit"
  <2>1. Effect(o) = DepositEffect(o.d, "posted", o.items) /\ o.d \in D /\ SecondLocks(o) = Rows("payment", o.items, p)
    BY <1>1, <1>2, <1>14, FirstInHand DEF Effect, SecondLocks
  <2>2. o.items \subseteq P
    BY <1>1, <1>14, <2>1, HoldsRows, OpIs DEF PaymentsIn
  <2> QED
    BY <1>1, <2>1, <2>2, DepositFootprint
<1>15. CASE o.op = "voidDeposit"
  <2>1. Effect(o) = DepositEffect(o.d, "void", {}) /\ o.d \in D
    BY <1>1, <1>15, FirstInHand DEF Effect
  <2> QED
    BY <1>1, <2>1, DepositFootprint
<1>16. CASE o.op = "voidInvoice"
  <2>1. Effect(o) = VoidInvoiceEffect(o.i) /\ o.i \in I
    BY <1>1, <1>16, FirstInHand DEF Effect
  <2> QED
    BY <1>1, <2>1, VoidInvoiceFootprint
<1>17. CASE o.op = "updatePayment"
  <2>1. PICK q : q = o.q
    OBVIOUS
  <2>2. PICK d : d = DrawOf(o, FromHold(q) # {})
    OBVIOUS
  <2>3. /\ Effect(o) = UpdatePaymentEffect(p, q, d) /\ MayUpdatePayment(p, q) /\ q \in Bodies
        /\ SecondLocks(o) = UpdateLocks(p, q)
    BY <1>2, <1>17, <2>1, <2>2, OpIs DEF Effect, FirstCheck, SecondLocks
  <2>4. SourcesOf(q) \subseteq P /\ o.draw \in P /\ o.draw \in Payments /\ o.draw # p
    BY <1>1, <1>2, <1>17, <2>1, FirstInHand, OpIs
  <2>5. <<"payment", o.draw>> \in NewIds(o)
    BY <1>5, <1>17, <2>4 DEF NewIds, SomeId
  <2>6. Unused(o.draw)
    BY <2>5 DEF InUseId
  <2>7. d \in DrawIds(p, FromHold(q) # {}) /\ d \in P
    BY <1>2, <1>3, <1>17, <2>2, <2>4, <2>6 DEF DrawIds, DrawOf, Scoped
  <2>8. Holds(H, DrawLocks(p)) /\ Holds(H, Rows("invoice", InvoicesOf(OwnRows(p)) \cup SettledIn(q), p))
    BY <2>3 DEF UpdateLocks, Holds
  <2>9. \A i \in InvoicesOf(OwnRows(p)) \cup SettledIn(q) : <<"invoice", i>> \in H
    BY <2>8, HoldsRows
  <2>10. SettledIn(q) \subseteq I
    BY <1>1, <2>9 DEF InvoicesIn, SettledIn
  <2>11. ASSUME NEW r \in SetAside(p)
         PROVE  r.inv \in I
    <3>1. CASE r \in RowsOf(DrawsInside(p))
      BY <1>1, <2>8, <3>1, DrawLocksHeld
    <3>2. CASE r \in OwnRows(p)
      <4>1. r \in DOMAIN apps
        BY <3>2 DEF OwnRows, LiveApplications, CreditsAppliedIn
      <4> QED
        BY <1>1, <1>4, <2>9, <3>2, <4>1 DEF InvoicesOf, InvoicesIn
    <3> QED
      BY <3>1, <3>2 DEF SetAside, OwnRows
  <2>12. InvoicesOf(SetAside(p)) \cup SettledIn(q) \subseteq I
    BY <2>10, <2>11 DEF InvoicesOf
  <2>13. Footprint(UpdatePaymentEffect(p, q, d), P, D, I)
    BY <1>3, <1>17, <2>3, <2>4, <2>7, <2>12, UpdateFootprint DEF Scoped
  <2> QED
    BY <1>1, <2>3, <2>13
<1> QED
  BY <1>6, <1>7, <1>8, <1>9, <1>10, <1>11, <1>12, <1>13, <1>14, <1>15, <1>16, <1>17, OpIs DEF OnPayment, Scoped

-----------------------------------------------------------------------------
(* A commit is an operation of Payments.                                   *)

LEMMA NothingMoved ==
    ASSUME AllPaid, NEW i \in Invoices
    PROVE  Moved(invoice, Copies({}), EmptyBag)[i] = invoice[i]
<1>1. PICK row : row = invoice[i]
  OBVIOUS
<1>2. row \in InvoiceRow
  BY <1>1 DEF AllPaid, PaidInv, PaidTies
<1>3. DOMAIN Copies({}) = {}
  BY DEF Copies
<1>4. PaidBy(EmptyBag, i) = 0 /\ PaidBy(Copies({}), i) = 0
  BY <1>3, BagDomains, NothingPaid
<1>5. PICK paid : paid = row.paid + PaidBy(EmptyBag, i) - PaidBy(Copies({}), i)
  OBVIOUS
<1>6. row.paid \in Int /\ row.balance \in Int
  BY <1>2 DEF InvoiceRow
<1>7. paid = row.paid /\ row.balance - (paid - row.paid) = row.balance
  BY <1>4, <1>5, <1>6
<1>8. Moved(invoice, Copies({}), EmptyBag)[i] = [row EXCEPT !.paid = paid, !.balance = @ - (paid - row.paid)]
  BY <1>1, <1>5 DEF Moved
<1>9. [row EXCEPT !.paid = paid, !.balance = @ - (paid - row.paid)] = row
  BY <1>2, <1>7 DEF InvoiceRow
<1> QED
  BY <1>1, <1>8, <1>9

\* What was checked, if it still holds, is what the operation of Payments asks.
LEMMA OneOperation ==
    ASSUME AllPaid, NEW o \in Ops, \A row \in NewIds(o) : ~InUseId(row),
           FirstCheck(o), SecondCheck(o), Commit(Effect(o))
    PROVE  PaymentsNext
<1>1. PICK p : p = o.p
  OBVIOUS
<1>2. \A x \in Payments : x # None
  BY PaymentsAssumption
<1>3. {"credit", "bounce", "refund", "deposit", "invoice"} \subseteq Operations
  BY LocksAssumption
<1>4. o.op \in OnPayment => p \in Payments
  BY <1>1, OpIs
<1>5. CASE o.op = "bounce"
  <2>1. MayBounce(p) /\ Commit(BounceEffect(p))
    BY <1>1, <1>5 DEF FirstCheck, Effect
  <2> QED
    BY <1>3, <1>4, <1>5, <2>1 DEF OnPayment, Scoped, BouncePayment, BounceStep, PaymentsNext
<1>6. CASE o.op = "voidPayment"
  <2>1. MayVoidPayment(p) /\ Commit(VoidPaymentEffect(p))
    BY <1>1, <1>6 DEF FirstCheck, Effect
  <2> QED
    BY <1>4, <1>6, <2>1 DEF OnPayment, Scoped, VoidPayment, ReceiptStep, PaymentsNext
<1>7. CASE o.op = "voidBounce"
  <2>1. MayVoidBounce(p) /\ Commit(VoidBounceEffect(p))
    BY <1>1, <1>7 DEF SecondCheck, Effect
  <2> QED
    BY <1>3, <1>4, <1>7, <2>1 DEF OnPayment, Scoped, VoidBounce, BounceStep, PaymentsNext
<1>8. CASE o.op = "unapply"
  <2>1. PICK r : r = CHOOSE x \in RowsOn(o) : TRUE
    OBVIOUS
  <2>2. /\ IsKind(p, {"payment"}) /\ Posted(p) /\ ~Bounced(p) /\ RowsOn(o) # {}
        /\ Commit([Nothing EXCEPT !.gone = SetToBag({r})])
    BY <1>1, <1>8, <2>1 DEF FirstCheck, Effect
  <2>3. r \in LiveApplications(p) /\ r.adj = 0 /\ r \in DOMAIN apps
    BY <1>1, <2>1, <2>2 DEF RowsOn, LiveApplications
  <2>4. Unapply(p, r)
    BY <2>2, <2>3 DEF Unapply, IsKind
  <2> QED
    BY <1>3, <1>4, <1>8, <2>3, <2>4 DEF OnPayment, Scoped, CreditStep, PaymentsNext
<1>9. CASE o.op = "receive"
  <2>1. PICK q : q = o.q
    OBVIOUS
  <2>2. PICK d : d = DrawOf(o, FromHold(q) # {})
    OBVIOUS
  <2>3. p \in Payments /\ o.draw \in Payments /\ o.draw # p /\ q \in Bodies
    BY <1>1, <1>9, <2>1, OpIs DEF OnPayment
  <2>4. <<"payment", p>> \in NewIds(o) /\ <<"payment", o.draw>> \in NewIds(o)
    BY <1>1, <1>2, <1>9, <2>3 DEF NewIds, SomeId
  <2>5. Unused(p) /\ Unused(o.draw)
    BY <2>4 DEF InUseId
  <2>6. d \in DrawIds(p, FromHold(q) # {})
    BY <1>1, <2>2, <2>3, <2>5 DEF DrawIds, DrawOf
  <2>7. /\ WellFormed(q) /\ SourcesHold(q, {}, {}) /\ InvoicesTake(q, invoice)
        /\ Commit(SettleEffect(p, q, d, {}, {}))
    BY <1>1, <1>9, <2>1, <2>2 DEF FirstCheck, SecondCheck, Effect
  <2>8. InvoicesTake(q, Moved(invoice, Copies({}), EmptyBag))
    BY <2>7, NothingMoved DEF InvoicesTake
  <2>9. Receive(p, q, d)
    BY <2>5, <2>6, <2>7, <2>8 DEF Receive, Settles
  <2> QED
    BY <2>3, <2>5, <2>6, <2>9 DEF ReceiptStep, PaymentsNext
<1>10. CASE o.op = "applyCredit"
  <2>1. PICK i, x : i = o.i /\ x = o.x
    OBVIOUS
  <2>2. PICK d : d = DrawOf(o, IsKind(p, {"hold"}))
    OBVIOUS
  <2>3. /\ p \in Payments /\ o.draw \in Payments /\ o.draw # p /\ i \in Invoices /\ x \in Amounts
    BY <1>1, <1>10, <2>1, OpIs DEF OnPayment
  <2>4. <<"payment", o.draw>> \in NewIds(o)
    BY <1>2, <1>10, <2>3 DEF NewIds, SomeId
  <2>5. Unused(o.draw)
    BY <2>4 DEF InUseId
  <2>6. d \in DrawIds(p, IsKind(p, {"hold"}))
    BY <1>1, <2>2, <2>3, <2>5 DEF DrawIds, DrawOf
  <2>7. /\ CreditUsable(p, x) /\ x <= PayableCents(invoice[i])
        /\ Commit(ApplyCreditEffect(p, i, x, d))
    BY <1>1, <1>10, <2>1, <2>2 DEF FirstCheck, SecondCheck, Effect
  <2>8. ApplyCredit(p, i, x, d)
    BY <2>6, <2>7 DEF ApplyCredit
  <2> QED
    BY <1>3, <2>3, <2>6, <2>8 DEF CreditStep, PaymentsNext
<1>11. CASE o.op = "refund"
  <2>1. PICK x : x = o.x
    OBVIOUS
  <2>2. p \in Payments /\ x \in Amounts
    BY <1>1, <1>11, <2>1, OpIs DEF OnPayment
  <2>3. MayRefund(p, x) /\ Commit(RefundEffect(p, x, x))
    BY <1>1, <1>11, <2>1 DEF FirstCheck, Effect
  <2> QED
    BY <1>3, <2>2, <2>3 DEF Refund, RefundStep, PaymentsNext
<1>12. CASE o.op \in {"createDeposit", "updateDeposit"}
  <2>1. PICK d, items : d = o.d /\ items = o.items
    OBVIOUS
  <2>2. d \in Deposits /\ items \in SUBSET Payments
    BY <1>12, <2>1, OpIs
  <2>3. Commit(DepositEffect(d, "posted", items))
    BY <1>12, <2>1 DEF Effect
  <2>4. CASE o.op = "createDeposit"
    <3>1. MayCreateDeposit(d, items)
      BY <2>1, <2>4 DEF FirstCheck
    <3> QED
      BY <1>3, <2>2, <2>3, <3>1 DEF CreateDeposit, DepositStep, PaymentsNext
  <2>5. CASE o.op = "updateDeposit"
    <3>1. MayUpdateDeposit(d, items)
      BY <2>1, <2>5 DEF FirstCheck, SecondCheck, MayUpdateDeposit
    <3> QED
      BY <1>3, <2>2, <2>3, <3>1 DEF UpdateDeposit, DepositStep, PaymentsNext
  <2> QED
    BY <1>12, <2>4, <2>5
<1>13. CASE o.op = "voidDeposit"
  <2>1. PICK d : d = o.d
    OBVIOUS
  <2>2. d \in Deposits /\ MayVoidDeposit(d) /\ Commit(DepositEffect(d, "void", {}))
    BY <1>13, <2>1, OpIs DEF FirstCheck, Effect
  <2> QED
    BY <1>3, <2>2 DEF VoidDeposit, DepositStep, PaymentsNext
<1>14. CASE o.op = "voidInvoice"
  <2>1. PICK i : i = o.i
    OBVIOUS
  <2>2. i \in Invoices /\ MayVoidInvoice(i) /\ Commit(VoidInvoiceEffect(i))
    BY <1>14, <2>1, OpIs DEF FirstCheck, Effect
  <2> QED
    BY <1>3, <2>2 DEF VoidInvoice, InvoiceStep, PaymentsNext
<1>15. CASE o.op = "updatePayment"
  <2>1. PICK q : q = o.q
    OBVIOUS
  <2>2. PICK d : d = DrawOf(o, FromHold(q) # {})
    OBVIOUS
  <2>3. p \in Payments /\ o.draw \in Payments /\ o.draw # p /\ q \in Bodies
    BY <1>1, <1>15, <2>1, OpIs DEF OnPayment, Scoped
  <2>4. <<"payment", o.draw>> \in NewIds(o)
    BY <1>2, <1>15, <2>3 DEF NewIds, SomeId
  <2>5. Unused(o.draw)
    BY <2>4 DEF InUseId
  <2>6. d \in DrawIds(p, FromHold(q) # {})
    BY <1>1, <2>2, <2>3, <2>5 DEF DrawIds, DrawOf
  <2>7. /\ WellFormed(q) /\ MayUpdatePayment(p, q) /\ EditHolds(p, q)
        /\ Commit(UpdatePaymentEffect(p, q, d))
    BY <1>1, <1>15, <2>1, <2>2 DEF FirstCheck, SecondCheck, Effect
  <2>8. UpdatePayment(p, q, d)
    BY <2>6, <2>7 DEF UpdatePayment, Settles, EditHolds
  <2>9. p \in OfKind({"payment"})
    BY <2>3, <2>7 DEF OfKind, MayUpdatePayment, IsKind
  <2> QED
    BY <2>3, <2>6, <2>8, <2>9 DEF ReceiptStep, PaymentsNext
<1> QED
  BY <1>5, <1>6, <1>7, <1>8, <1>9, <1>10, <1>11, <1>12, <1>13, <1>14, <1>15, OpIs DEF OnPayment, Scoped

-----------------------------------------------------------------------------
(* What holds of the requests under way.                                   *)

RowsIn(W) == {RowOf(w) : w \in W}
UsedRows == {<<"payment", x>> : x \in {y \in Payments : ~Unused(y)}}
              \cup {<<"deposit", d>> : d \in {y \in Deposits : deposit[y].st # "none"}}
              \cup {<<"invoice", i>> : i \in Invoices}

RequestShape(q) ==
    /\ DOMAIN q = {"st", "op", "ret", "queue", "held", "effect"}
    /\ q.st \in {"idle", "first", "second", "commit"} /\ (q.st = "idle" => q = Idle)
    /\ q.st # "idle" => q.op \in Menu

\* What a request names and locks is in use, its new rows are not.
RowsUsed(q) ==
    /\ Named(q.op) \cup q.held \cup RowsIn(q.queue) \subseteq UsedRows
    /\ NewIds(q.op) \cap UsedRows = {}

\* The rows a request asks for first are those its checks are about: of an edit
\* the sources of its credits, of a void of a bounce the payments of the rows it
\* reversed, as long as its returned_payment is the live one.
Asked(q) ==
    q.st = "first" =>
        LET H == q.held \cup RowsIn(q.queue)
        IN /\ q.op.op \notin Scoped => Holds(H, FirstLocks(q.op))
           /\ q.op.op = "updatePayment" => SourcesOf(q.op.q) \subseteq PaymentsIn(H)
           /\ q.op.op = "voidBounce" =>
                 /\ q.ret \in Nat /\ q.ret <= returns[q.op.p]
                 /\ q.ret = returns[q.op.p] /\ Bounced(q.op.p) => Extra(q.op) \subseteq PaymentsIn(H)

\* What was read is what is there, that of a change of a deposit once its items
\* are locked.
ReadStands(q) ==
    q.st \in {"second", "commit"} =>
        /\ FirstCheck(q.op)
        /\ Holds(q.held, FirstLocks(q.op)) /\ Holds(q.held \cup RowsIn(q.queue), SecondLocks(q.op))
        /\ q.st = "second" /\ ~ReadsLater(q.op) => q.effect = Effect(q.op)
        /\ q.st = "commit" => q.queue = {} /\ SecondCheck(q.op) /\ q.effect = Effect(q.op)

Good(q) == RequestShape(q) /\ (q.st # "idle" => RowsUsed(q) /\ Asked(q) /\ ReadStands(q))
Apart(q1, q2) ==
    /\ q1.held \cap q2.held = {}
    /\ q1.st # "idle" /\ q2.st # "idle" => NewIds(q1.op) \cap NewIds(q2.op) = {}

LockInv ==
    /\ DOMAIN req = Requests /\ returns \in [Payments -> Nat]
    /\ \A q \in {req[r] : r \in Requests} : Good(q)
    /\ \A r, s \in Requests : r # s => Apart(req[r], req[s])
TablesInv == AllPaid /\ KeptInv /\ FromKept

\* The rows in hand: those held, and the ids of the new ones.
Hand(q) == q.held \cup NewIds(q.op)
LeavesAlone(q) == Undisturbed(PaymentsIn(Hand(q)), DepositsIn(Hand(q)), InvoicesIn(Hand(q)))

LEMMA InMenu == ASSUME NEW q, RequestShape(q), q.st # "idle" PROVE q.op \in Ops
BY LocksAssumption DEF RequestShape

LEMMA UsedIds ==
    /\ \A x \in Payments : <<"payment", x>> \in UsedRows <=> ~Unused(x)
    /\ \A d \in Deposits : <<"deposit", d>> \in UsedRows <=> deposit[d].st # "none"
BY DEF UsedRows

LEMMA IdsOf ==
    ASSUME NEW o \in Ops, NEW row \in Named(o) \cup NewIds(o)
    PROVE  (\E x \in Payments : row = <<"payment", x>>) \/ (\E d \in Deposits : row = <<"deposit", d>>)
<1>1. \A x \in Payments : x # None
  BY PaymentsAssumption
<1>2. CASE row \in NewIds(o)
  BY <1>1, <1>2, OpIs DEF NewIds, SomeId, OnPayment
<1>3. CASE row \in Named(o)
  <2>1. CASE \E d \in (IF o.op \in {"updateDeposit", "voidDeposit"} THEN {o.d} ELSE {}) : row = <<"deposit", d>>
    BY <2>1, OpIs
  <2>2. CASE \E x \in (CASE o.op = "receive" -> SourcesOf(o.q)
                         [] o.op = "updatePayment" -> {o.p} \cup SourcesOf(o.q)
                         [] o.op \in {"createDeposit", "updateDeposit"} -> o.items
                         [] OTHER -> SomeId({o.p})) : row = <<"payment", x>>
    <3>1. CASE o.op \in {"receive", "updatePayment"}
      <4>1. SourcesOf(o.q) \subseteq Payments
        BY <3>1, OpIs DEF Bodies, Credits, SourcesOf
      <4>2. o.p \in Payments
        BY <3>1, OpIs DEF OnPayment, Scoped
      <4> QED
        BY <2>2, <3>1, <4>1, <4>2
    <3>2. CASE o.op \in {"createDeposit", "updateDeposit"}
      BY <2>2, <3>2, OpIs
    <3>3. CASE o.op \notin {"receive", "updatePayment", "createDeposit", "updateDeposit"}
      BY <2>2, <3>3, OpIs DEF SomeId
    <3> QED
      BY <3>1, <3>2, <3>3
  <2> QED
    BY <1>3, <2>1, <2>2 DEF Named
<1> QED
  BY <1>2, <1>3

LEMMA UsedMeans ==
    ASSUME NEW o \in Ops
    PROVE  /\ Named(o) \subseteq UsedRows <=> \A row \in Named(o) : InUseId(row)
           /\ NewIds(o) \cap UsedRows = {} <=> \A row \in NewIds(o) : ~InUseId(row)
<1>1. ASSUME NEW row \in Named(o) \cup NewIds(o)
      PROVE  row \in UsedRows <=> InUseId(row)
  BY IdsOf, UsedIds DEF InUseId
<1> QED
  BY <1>1

\* Nothing that is in use goes out of use.
LEMMA UsedStay ==
    ASSUME AllPaid, NEW e, Commit(e), NEW P \in SUBSET Payments, NEW D \in SUBSET Deposits, NEW I, Footprint(e, P, D, I)
    PROVE  UsedRows \subseteq UsedRows'
<1>1. /\ DOMAIN payment = Payments /\ DOMAIN deposit = Deposits
      /\ \A x \in Payments : PaymentShape(payment[x])
  BY DEF AllPaid, PayInv, Tables
<1>2. payment' = Over(e.payment, payment) /\ deposit' = Over(e.deposit, deposit)
  BY DEF Commit
<1>3. ASSUME NEW x \in Payments, ~Unused(x)
      PROVE  ~Unused(x)'
  <2>1. x \in DOMAIN e.payment => WritesPayment(x, e.payment[x], P)
    BY DEF Footprint
  <2>2. payment'[x] = IF x \in DOMAIN e.payment THEN e.payment[x] ELSE payment[x]
    BY <1>1, <1>2 DEF Over
  <2> QED
    BY <1>1, <1>3, <2>1, <2>2 DEF WritesPayment, Rewritten, Unused, PaymentShape
<1>4. ASSUME NEW d \in Deposits, deposit[d].st # "none"
      PROVE  deposit'[d].st # "none"
  <2>1. d \in DOMAIN e.deposit => e.deposit[d].st # "none"
    BY DEF Footprint
  <2>2. deposit'[d] = IF d \in DOMAIN e.deposit THEN e.deposit[d] ELSE deposit[d]
    BY <1>1, <1>2 DEF Over
  <2> QED
    BY <1>4, <2>1, <2>2
<1> QED
  BY <1>3, <1>4 DEF UsedRows

LEMMA FromStays ==
    ASSUME AllPaid, FromKept, NEW e, Commit(e), NEW P, NEW D, NEW I, Footprint(e, P, D, I)
    PROVE  FromKept'
<1>1. DOMAIN payment = Payments /\ \A x \in Payments : PaymentShape(payment[x])
  BY DEF AllPaid, PayInv, Tables
<1>2. payment' = Over(e.payment, payment)
  BY DEF Commit
<1>3. ASSUME NEW x \in Payments, payment'[x].kind # "draw"
      PROVE  payment'[x].from = None
  <2>1. x \in DOMAIN e.payment => WritesPayment(x, e.payment[x], P)
    BY DEF Footprint
  <2>2. payment'[x] = IF x \in DOMAIN e.payment THEN e.payment[x] ELSE payment[x]
    BY <1>1, <1>2 DEF Over
  <2>3. payment[x].kind # "draw" => payment[x].from = None
    BY DEF FromKept, IsKind
  <2> QED
    BY <1>1, <1>3, <2>1, <2>2, <2>3 DEF WritesPayment, Rewritten, PaymentShape
<1> QED
  BY <1>3 DEF FromKept, IsKind

\* What the returned_payment a request names says of the payment's bounce.
ReturnStays(q) ==
    q.st = "first" /\ q.op.op = "voidBounce" =>
        /\ returns[q.op.p] <= returns'[q.op.p]
        /\ returns'[q.op.p] = returns[q.op.p] /\ Bounced(q.op.p)' =>
              Bounced(q.op.p) /\ ReversedBy(q.op.p)' = ReversedBy(q.op.p)

LEMMA HoldsMore == ASSUME NEW H, NEW G, H \subseteq G, NEW W, Holds(H, W) PROVE Holds(G, W)
BY DEF Holds

\* A request stays as it should be while the rows in its hand are left alone.
LEMMA GoodStays ==
    ASSUME TablesInv, AllPaid', NEW q, Good(q), LeavesAlone(q), UsedRows \subseteq UsedRows',
           returns \in [Payments -> Nat], returns' \in [Payments -> Nat], ReturnStays(q)
    PROVE  Good(q)'
<1>1. RequestShape(q)'
  BY DEF Good, RequestShape
<1>2. SUFFICES ASSUME q.st # "idle"
               PROVE  RowsUsed(q)' /\ Asked(q)' /\ ReadStands(q)'
  BY <1>1 DEF Good
<1>3. PICK o : o = q.op
  OBVIOUS
<1>4. o \in Ops /\ RowsUsed(q) /\ Asked(q) /\ ReadStands(q)
  BY <1>2, <1>3, InMenu DEF Good
<1>5. PICK H : H = Hand(q)
  OBVIOUS
<1>6. Undisturbed(PaymentsIn(H), DepositsIn(H), InvoicesIn(H)) /\ NewIds(o) \subseteq H /\ q.held \subseteq H
  BY <1>3, <1>5 DEF LeavesAlone, Hand
<1>7. (\A row \in Named(o) : InUseId(row)) /\ NewIds(o) \cap UsedRows = {}
  BY <1>3, <1>4, UsedMeans DEF RowsUsed
<1>8. RowsUsed(q)'
  <2>1. ASSUME NEW row \in NewIds(o)
        PROVE  row \notin UsedRows'
    <3>1. CASE \E x \in Payments : row = <<"payment", x>>
      <4>1. PICK x \in Payments : row = <<"payment", x>>
        BY <3>1
      <4>2. x \in PaymentsIn(H) /\ Unused(x)
        BY <1>6, <1>7, <2>1, <4>1, UsedIds DEF PaymentsIn
      <4>3. payment'[x] = payment[x]
        BY <1>6, <4>2 DEF Undisturbed, SamePayments
      <4> QED
        BY <4>1, <4>2, <4>3 DEF UsedRows, Unused
    <3>2. CASE \E d \in Deposits : row = <<"deposit", d>>
      <4>1. PICK d \in Deposits : row = <<"deposit", d>>
        BY <3>2
      <4>2. d \in DepositsIn(H) /\ deposit[d].st = "none"
        BY <1>6, <1>7, <2>1, <4>1, UsedIds DEF DepositsIn
      <4>3. deposit'[d] = deposit[d]
        BY <1>6, <4>2 DEF Undisturbed, SameDeposits
      <4> QED
        BY <4>1, <4>2, <4>3 DEF UsedRows
    <3> QED
      BY <1>4, <2>1, <3>1, <3>2, IdsOf
  <2> QED
    BY <1>3, <1>4, <2>1 DEF RowsUsed
<1>9. Asked(q)'
  <2>1. ASSUME q.st = "first", NEW G, G = q.held \cup RowsIn(q.queue)
        PROVE  /\ o.op \notin Scoped => Holds(G, FirstLocks(o)')
               /\ o.op = "updatePayment" => SourcesOf(o.q) \subseteq PaymentsIn(G)
               /\ o.op = "voidBounce" =>
                     /\ q.ret \in Nat /\ q.ret <= returns'[o.p]
                     /\ q.ret = returns'[o.p] /\ Bounced(o.p)' => Extra(o)' \subseteq PaymentsIn(G)
    <3>1. /\ o.op \notin Scoped => Holds(G, FirstLocks(o))
          /\ o.op = "updatePayment" => SourcesOf(o.q) \subseteq PaymentsIn(G)
          /\ o.op = "voidBounce" =>
                /\ q.ret \in Nat /\ q.ret <= returns[o.p]
                /\ q.ret = returns[o.p] /\ Bounced(o.p) => Extra(o) \subseteq PaymentsIn(G)
      BY <1>3, <1>4, <2>1 DEF Asked
    <3>2. o.op \notin Scoped => FirstLocks(o)' = FirstLocks(o)
      <4>1. \A body : SourcesOf(body)' = SourcesOf(body)
        BY DEF SourcesOf
      <4> QED
        BY <1>4, <4>1, OpIs DEF FirstLocks, OnPayment, Scoped, Rows
    <3>3. ASSUME o.op = "voidBounce"
          PROVE  /\ q.ret \in Nat /\ q.ret <= returns'[o.p]
                 /\ q.ret = returns'[o.p] /\ Bounced(o.p)' => Extra(o)' \subseteq PaymentsIn(G)
      <4>1. o.p \in Payments
        BY <1>4, <3>3, OpIs DEF OnPayment, Scoped
      <4>2. q.ret \in Nat /\ returns[o.p] \in Nat /\ returns'[o.p] \in Nat /\ q.ret <= returns[o.p] /\ returns[o.p] <= returns'[o.p]
        BY <1>3, <2>1, <3>1, <3>3, <4>1 DEF ReturnStays
      <4>3. ASSUME q.ret = returns'[o.p], Bounced(o.p)'
            PROVE  Extra(o)' \subseteq PaymentsIn(G)
        <5>1. q.ret = returns[o.p] /\ returns'[o.p] = returns[o.p]
          BY <4>2, <4>3
        <5>2. Bounced(o.p) /\ ReversedBy(o.p)' = ReversedBy(o.p)
          BY <1>3, <2>1, <3>3, <4>3, <5>1 DEF ReturnStays
        <5>3. Extra(o)' = Extra(o)
          BY <3>3, <5>2 DEF Extra
        <5> QED
          BY <3>1, <3>3, <5>1, <5>2, <5>3
      <4> QED
        BY <4>2, <4>3
    <3> QED
      BY <3>1, <3>2, <3>3
  <2>2. PICK G : G = q.held \cup RowsIn(q.queue)
    OBVIOUS
  <2>3. G = (q.held \cup RowsIn(q.queue))'
    BY <2>2 DEF RowsIn, RowOf
  <2> QED
    BY <1>3, <2>1, <2>2, <2>3 DEF Asked, Holds, PaymentsIn, SourcesOf
<1>10. ReadStands(q)'
  <2>1. ASSUME q.st \in {"second", "commit"}
        PROVE  /\ FirstCheck(o)' /\ FirstLocks(o)' = FirstLocks(o) /\ SecondLocks(o)' = SecondLocks(o)
               /\ ~ReadsLater(o) => Effect(o)' = Effect(o)
               /\ q.st = "commit" => SecondCheck(o)' /\ Effect(o)' = Effect(o)
    <3>1. FirstCheck(o) /\ Holds(q.held, FirstLocks(o))
      BY <1>3, <1>4, <2>1 DEF ReadStands
    <3>2. Holds(H, FirstLocks(o))
      BY <1>6, <3>1, HoldsMore
    <3>3. /\ FirstCheck(o)' /\ FirstLocks(o)' = FirstLocks(o) /\ SecondLocks(o)' = SecondLocks(o)
          /\ ~ReadsLater(o) => Effect(o)' = Effect(o)
      BY <1>4, <1>6, <1>7, <3>1, <3>2, ReadsStay DEF TablesInv
    <3>4. ASSUME q.st = "commit"
          PROVE  SecondCheck(o)' /\ Effect(o)' = Effect(o)
      <4>1. SecondCheck(o) /\ q.queue = {} /\ Holds(q.held \cup RowsIn(q.queue), SecondLocks(o))
        BY <1>3, <1>4, <2>1, <3>4 DEF ReadStands
      <4>2. q.held \cup RowsIn(q.queue) \subseteq H
        BY <1>6, <4>1 DEF RowsIn
      <4>3. Holds(H, SecondLocks(o))
        BY <4>1, <4>2, HoldsMore
      <4>4. SecondCheck(o)'
        BY <1>4, <1>6, <1>7, <3>2, <4>1, <4>3, ChecksStay DEF TablesInv
      <4>5. Effect(o)' = Effect(o)
        BY <1>4, <1>6, <1>7, <3>1, <3>2, <4>3, EffectStays DEF TablesInv
      <4> QED
        BY <4>4, <4>5
    <3> QED
      BY <3>3, <3>4
  <2> QED
    BY <1>3, <1>4, <2>1 DEF ReadStands, ReadsLater, Holds, RowsIn, RowOf
<1> QED
  BY <1>8, <1>9, <1>10

LEMMA RowsOfIds ==
    ASSUME NEW t, NEW ids, NEW u
    PROVE  RowsIn(Rows(t, ids, u)) = {<<t, x>> : x \in ids}
<1>1. \A x \in ids : LET w == [table |-> t, id |-> x, turn |-> u] IN w \in Rows(t, ids, u) /\ RowOf(w) = <<t, x>>
  BY DEF Rows, RowOf
<1>2. \A w \in Rows(t, ids, u) : \E x \in ids : RowOf(w) = <<t, x>>
  BY DEF Rows, RowOf
<1> QED
  BY <1>1, <1>2 DEF RowsIn

LEMMA HeldRows == ASSUME NEW W PROVE Holds(RowsIn(W), W)
BY DEF Holds, RowsIn

\* The rows an operation locks are in use.
LEMMA LocksUsed ==
    ASSUME TablesInv, NEW o \in Ops, Named(o) \subseteq UsedRows
    PROVE  RowsIn(FirstLocks(o)) \subseteq UsedRows /\ RowsIn(SecondLocks(o)) \subseteq UsedRows
<1>1. \A x \in Payments : x # None
  BY PaymentsAssumption
<1>2. \A r \in DOMAIN apps : r.inv \in Invoices
  BY DEF TablesInv, AllPaid, PayInv, Tables, RowShape
<1>3. \A i \in Invoices : <<"invoice", i>> \in UsedRows
  BY DEF UsedRows
<1>4. ASSUME NEW R \in SUBSET DOMAIN apps, NEW u
      PROVE  RowsIn(Rows("invoice", InvoicesOf(R), u)) \subseteq UsedRows
  BY <1>2, <1>3, RowsOfIds DEF InvoicesOf
<1>5. ASSUME o.op \in Scoped \cup {"refund", "applyCredit"}
      PROVE  o.p \in Payments /\ ~Unused(o.p) /\ RowsIn(Rows("payment", {o.p}, o.p)) \subseteq UsedRows
  <2>1. o.p \in Payments
    BY <1>5, OpIs DEF OnPayment
  <2>2. <<"payment", o.p>> \in Named(o)
    BY <1>1, <1>5, <2>1 DEF Named, SomeId, Scoped
  <2>3. RowsIn(Rows("payment", {o.p}, o.p)) \subseteq UsedRows
    BY <2>2, RowsOfIds
  <2> QED
    BY <2>1, <2>2, <2>3, UsedIds
<1>6. RowsIn({}) = {}
  BY DEF RowsIn
<1>7. RowsIn(FirstLocks(o)) \subseteq UsedRows
  <2>1. CASE o.op \in Scoped
    <3>1. FirstLocks(o) = Rows("deposit", LiveDepositsFor(o.p), o.p) \cup Rows("payment", ScopeOf(o.p) \cup Extra(o), o.p)
      BY <2>1 DEF FirstLocks, Scoped
    <3>2. RowsIn(Rows("deposit", LiveDepositsFor(o.p), o.p)) \subseteq UsedRows
      BY RowsOfIds, UsedIds DEF LiveDepositsFor
    <3>3. \A x \in ScopeOf(o.p) : x \in Payments /\ ~Unused(x)
      BY <1>5, <2>1, ScopeInUse DEF TablesInv
    <3>4. \A x \in Extra(o) : x \in Payments /\ ~Unused(x)
      <4>1. \A r \in ReversedBy(o.p) : /\ r.pay \in Payments /\ ~Unused(r.pay)
                                       /\ r.inside # None => r.inside \in Payments /\ ~Unused(r.inside)
        BY <1>5, <2>1, ScopeInUse DEF TablesInv
      <4>2. o.op = "updatePayment" => \A x \in SourcesOf(o.q) : x \in Payments /\ ~Unused(x)
        <5>1. o.op = "updatePayment" => o.q \in Bodies
          BY OpIs
        <5>2. o.op = "updatePayment" => \A x \in SourcesOf(o.q) : x \in Payments /\ <<"payment", x>> \in Named(o)
          BY <5>1 DEF Bodies, Credits, SourcesOf, Named
        <5> QED
          BY <5>2, UsedIds
      <4> QED
        BY <4>1, <4>2 DEF Extra, SomeId
    <3>5. RowsIn(Rows("payment", ScopeOf(o.p) \cup Extra(o), o.p)) \subseteq UsedRows
      BY <3>3, <3>4, RowsOfIds, UsedIds
    <3>6. \A V, W : RowsIn(V) \subseteq UsedRows /\ RowsIn(W) \subseteq UsedRows => RowsIn(V \cup W) \subseteq UsedRows
      BY DEF RowsIn
    <3> QED
      BY <3>1, <3>2, <3>5, <3>6
  <2>2. CASE o.op = "receive"
    <3>1. FirstLocks(o) = Rows("payment", SourcesOf(o.q), o.p)
      BY <2>2 DEF FirstLocks, Scoped
    <3>2. \A x \in SourcesOf(o.q) : <<"payment", x>> \in Named(o)
      BY <2>2 DEF Named
    <3> QED
      BY <3>1, <3>2, RowsOfIds
  <2>3. CASE o.op \in {"applyCredit", "refund"}
    <3>1. FirstLocks(o) = Rows("payment", {o.p}, o.p)
      BY <2>3 DEF FirstLocks, Scoped
    <3> QED
      BY <1>5, <2>3, <3>1
  <2>4. CASE o.op = "createDeposit"
    <3>1. FirstLocks(o) = Rows("payment", o.items, o.p)
      BY <2>4 DEF FirstLocks, Scoped
    <3>2. \A x \in o.items : <<"payment", x>> \in Named(o)
      BY <2>4 DEF Named
    <3> QED
      BY <3>1, <3>2, RowsOfIds
  <2>5. CASE o.op \in {"updateDeposit", "voidDeposit"}
    <3>1. FirstLocks(o) = Rows("deposit", {o.d}, o.p)
      BY <2>5 DEF FirstLocks, Scoped
    <3>2. <<"deposit", o.d>> \in Named(o)
      BY <2>5 DEF Named
    <3> QED
      BY <3>1, <3>2, RowsOfIds
  <2>6. CASE o.op = "voidInvoice"
    <3>1. FirstLocks(o) = Rows("invoice", {o.i}, o.p) /\ o.i \in Invoices
      BY <2>6, OpIs DEF FirstLocks, Scoped
    <3> QED
      BY <1>3, <3>1, RowsOfIds
  <2> QED
    BY <2>1, <2>2, <2>3, <2>4, <2>5, <2>6, OpIs DEF OnPayment
<1>8. \A V, W : RowsIn(V) \subseteq UsedRows /\ RowsIn(W) \subseteq UsedRows => RowsIn(V \cup W) \subseteq UsedRows
  BY DEF RowsIn
<1>9. RowsIn(DrawLocks(o.p)) \subseteq UsedRows
  <2>1. \A x : RowsOf({x}) \in SUBSET DOMAIN apps
    BY DEF RowsOf, LiveApplications, CreditsAppliedIn
  <2>2. ASSUME NEW w \in DrawLocks(o.p)
        PROVE  RowOf(w) \in UsedRows
    <3>1. PICK x : w \in Rows("invoice", InvoicesOf(RowsOf({x})), x)
      BY DEF DrawLocks
    <3>2. RowOf(w) \in RowsIn(Rows("invoice", InvoicesOf(RowsOf({x})), x))
      BY <3>1 DEF RowsIn
    <3> QED
      BY <1>4, <2>1, <3>2
  <2> QED
    BY <2>2 DEF RowsIn
<1>10. RowsIn(SecondLocks(o)) \subseteq UsedRows
  <2>1. CASE o.op = "bounce"
    <3>1. SecondLocks(o) = Rows("invoice", InvoicesOf(BounceRows(o.p)), o.p) /\ BounceRows(o.p) \in SUBSET DOMAIN apps
      BY <2>1 DEF SecondLocks, BounceRows, LiveApplications
    <3> QED
      BY <1>4, <3>1
  <2>2. CASE o.op = "voidPayment"
    <3>1. SecondLocks(o) = DrawLocks(o.p) \cup Rows("invoice", InvoicesOf(RowsOf({o.p})), o.p)
      BY <2>2 DEF SecondLocks, VoidLocks
    <3>2. RowsOf({o.p}) \in SUBSET DOMAIN apps
      BY DEF RowsOf, LiveApplications, CreditsAppliedIn
    <3> QED
      BY <1>4, <1>8, <1>9, <3>1, <3>2
  <2>3. CASE o.op = "voidBounce"
    <3>1. SecondLocks(o) = Rows("invoice", InvoicesOf(ReversedBy(o.p)), o.p) /\ ReversedBy(o.p) \in SUBSET DOMAIN apps
      BY <2>3 DEF SecondLocks, ReversedBy
    <3> QED
      BY <1>4, <3>1
  <2>4. CASE o.op \in {"unapply", "applyCredit"}
    <3>1. SecondLocks(o) = Rows("invoice", {o.i}, o.p) /\ o.i \in Invoices
      BY <2>4, OpIs DEF SecondLocks
    <3> QED
      BY <1>3, <3>1, RowsOfIds
  <2>5. CASE o.op = "receive"
    <3>1. SecondLocks(o) = Rows("invoice", SettledIn(o.q), o.p)
      BY <2>5 DEF SecondLocks
    <3> QED
      BY <1>3, <3>1, RowsOfIds DEF SettledIn
  <2>6. CASE o.op = "updateDeposit"
    <3>1. SecondLocks(o) = Rows("payment", o.items, o.p)
      BY <2>6 DEF SecondLocks
    <3>2. \A x \in o.items : <<"payment", x>> \in Named(o)
      BY <2>6 DEF Named
    <3> QED
      BY <3>1, <3>2, RowsOfIds
  <2>7. CASE o.op \in {"refund", "createDeposit", "voidDeposit", "voidInvoice"}
    <3>1. SecondLocks(o) = {}
      BY <2>7 DEF SecondLocks
    <3> QED
      BY <1>6, <3>1
  <2>8. CASE o.op = "updatePayment"
    <3>1. SecondLocks(o) = DrawLocks(o.p) \cup Rows("invoice", InvoicesOf(OwnRows(o.p)) \cup SettledIn(o.q), o.p)
      BY <2>8 DEF SecondLocks, UpdateLocks
    <3>2. OwnRows(o.p) \in SUBSET DOMAIN apps
      BY DEF OwnRows, LiveApplications, CreditsAppliedIn
    <3>3. \A i \in InvoicesOf(OwnRows(o.p)) \cup SettledIn(o.q) : i \in Invoices
      BY <1>2, <3>2 DEF InvoicesOf, SettledIn
    <3>4. RowsIn(Rows("invoice", InvoicesOf(OwnRows(o.p)) \cup SettledIn(o.q), o.p)) \subseteq UsedRows
      BY <1>3, <3>3, RowsOfIds
    <3> QED
      BY <1>8, <1>9, <3>1, <3>4
  <2> QED
    BY <2>1, <2>2, <2>3, <2>4, <2>5, <2>6, <2>7, <2>8, OpIs DEF OnPayment, Scoped
<1> QED
  BY <1>7, <1>10

-----------------------------------------------------------------------------
(* Each step of a request keeps it as it should be.                        *)

LEMMA BeginGood ==
    ASSUME TablesInv, LockInv, NEW o \in Menu, Fresh(o), o.op = "voidBounce" => returns[o.p] > 0,
           NEW q, q = [st |-> "first", op |-> o, ret |-> IF o.op = "voidBounce" THEN returns[o.p] ELSE 0,
                       queue |-> FirstLocks(o), held |-> {}, effect |-> Nothing]
    PROVE  Good(q) /\ \A s \in Requests : Apart(q, req[s]) /\ Apart(req[s], q)
<1>1. o \in Ops
  BY LocksAssumption
<1>2. RequestShape(q) /\ q.st = "first" /\ q.op = o /\ q.queue = FirstLocks(o) /\ q.held = {}
  BY DEF RequestShape
<1>3. RowsUsed(q)
  <2>1. Named(o) \subseteq UsedRows /\ NewIds(o) \cap UsedRows = {}
    BY <1>1, UsedMeans DEF Fresh
  <2> QED
    BY <1>1, <1>2, <2>1, LocksUsed DEF RowsUsed
<1>4. Asked(q)
  <2>1. PICK G : G = q.held \cup RowsIn(q.queue)
    OBVIOUS
  <2>2. Holds(G, FirstLocks(o))
    BY <1>2, <2>1, HeldRows
  <2>3. ASSUME o.op = "voidBounce"
        PROVE  q.ret = returns[o.p] /\ q.ret \in Nat /\ Extra(o) \subseteq PaymentsIn(G)
    <3>1. o.p \in Payments /\ q.ret = returns[o.p]
      BY <1>1, <2>3, OpIs DEF OnPayment, Scoped
    <3>2. q.ret \in Nat
      BY <3>1 DEF LockInv
    <3>3. FirstLocks(o) = Rows("deposit", LiveDepositsFor(o.p), o.p) \cup Rows("payment", ScopeOf(o.p) \cup Extra(o), o.p)
      BY <2>3 DEF FirstLocks, Scoped
    <3>4. Holds(G, Rows("payment", ScopeOf(o.p) \cup Extra(o), o.p))
      BY <2>2, <3>3 DEF Holds
    <3>5. \A x \in Extra(o) : <<"payment", x>> \in G
      BY <3>4, HoldsRows
    <3>6. <<"payment", o.p>> \in Named(o)
      <4>1. o.p # None
        BY <3>1, PaymentsAssumption
      <4> QED
        BY <2>3, <4>1 DEF Named, SomeId
    <3>7. ~Unused(o.p)
      BY <3>6 DEF Fresh, InUseId
    <3>8. \A x \in Extra(o) : x \in Payments
      <4>1. \A r \in ReversedBy(o.p) : /\ r.pay \in Payments
                                       /\ r.inside # None => r.inside \in Payments
        BY <3>1, <3>7, ScopeInUse DEF TablesInv
      <4> QED
        BY <2>3, <4>1 DEF Extra, SomeId
    <3> QED
      BY <3>1, <3>2, <3>5, <3>8 DEF PaymentsIn
  <2>4. ASSUME o.op = "updatePayment"
        PROVE  SourcesOf(o.q) \subseteq PaymentsIn(G)
    <3>1. FirstLocks(o) = Rows("deposit", LiveDepositsFor(o.p), o.p) \cup Rows("payment", ScopeOf(o.p) \cup Extra(o), o.p)
      BY <2>4 DEF FirstLocks, Scoped
    <3>2. Holds(G, Rows("payment", ScopeOf(o.p) \cup Extra(o), o.p))
      BY <2>2, <3>1 DEF Holds
    <3>3. \A x \in Extra(o) : <<"payment", x>> \in G
      BY <3>2, HoldsRows
    <3>4. Extra(o) = SourcesOf(o.q)
      BY <2>4 DEF Extra
    <3>5. SourcesOf(o.q) \subseteq Payments
      BY <1>1, <2>4, OpIs DEF SourcesOf, Bodies, Credits
    <3> QED
      BY <3>3, <3>4, <3>5 DEF PaymentsIn
  <2> QED
    BY <1>2, <2>1, <2>2, <2>3, <2>4 DEF Asked
<1>5. ASSUME NEW s \in Requests
      PROVE  Apart(q, req[s]) /\ Apart(req[s], q)
  <2>1. Good(req[s]) /\ RequestShape(Idle) /\ Idle.st = "idle"
    BY DEF LockInv, RequestShape, Idle
  <2>2. req[s].st # "idle" => NewIds(o) \cap NewIds(req[s].op) = {}
    BY <2>1 DEF Fresh
  <2> QED
    BY <1>2, <2>2 DEF Apart
<1> QED
  BY <1>2, <1>3, <1>4, <1>5 DEF Good, ReadStands

LEMMA LockGood ==
    ASSUME NEW q, Good(q), q.st # "idle", NEW w \in q.queue,
           NEW n, n = [q EXCEPT !.queue = @ \ {w}, !.held = @ \cup {RowOf(w)}]
    PROVE  Good(n) /\ n.st = q.st /\ n.op = q.op /\ n.held = q.held \cup {RowOf(w)}
<1>1. RequestShape(q) /\ RowsUsed(q) /\ Asked(q) /\ ReadStands(q)
  BY DEF Good
<1>2. /\ DOMAIN n = DOMAIN q /\ n.st = q.st /\ n.op = q.op /\ n.ret = q.ret /\ n.effect = q.effect
      /\ n.queue = q.queue \ {w} /\ n.held = q.held \cup {RowOf(w)}
  BY <1>1 DEF RequestShape
<1>3. n.held \cup RowsIn(n.queue) = q.held \cup RowsIn(q.queue)
  BY <1>2 DEF RowsIn
<1>4. RequestShape(n)
  BY <1>1, <1>2 DEF RequestShape
<1>5. RowsUsed(n)
  BY <1>1, <1>2, <1>3 DEF RowsUsed
<1>6. Asked(n)
  BY <1>1, <1>2, <1>3 DEF Asked
<1>7. ReadStands(n)
  BY <1>1, <1>2, <1>3 DEF ReadStands, Holds
<1> QED
  BY <1>2, <1>4, <1>5, <1>6, <1>7 DEF Good

LEMMA LinksGood ==
    ASSUME TablesInv, NEW q, Good(q), q.st = "first", q.queue = {}, ~Stale(q.op, q.held), FirstCheck(q.op),
           q.op.op = "voidBounce" => q.ret = returns[q.op.p],
           NEW n, n = [q EXCEPT !.st = "second", !.queue = SecondLocks(q.op), !.effect = EffectRead(q)]
    PROVE  Good(n) /\ n.st # "idle" /\ n.op = q.op /\ n.held = q.held
<1>1. RequestShape(q) /\ RowsUsed(q) /\ Asked(q)
  BY DEF Good
<1>2. PICK o : o = q.op
  OBVIOUS
<1>3. /\ DOMAIN n = DOMAIN q /\ n.st = "second" /\ n.op = o /\ n.ret = q.ret
      /\ ~ReadsLater(o) => n.effect = Effect(o)
      /\ n.queue = SecondLocks(o) /\ n.held = q.held
  BY <1>1, <1>2 DEF RequestShape, EffectRead
<1>4. RequestShape(n)
  BY <1>1, <1>2, <1>3 DEF RequestShape
<1>5. o \in Ops
  BY <1>1, <1>2, InMenu
<1>6. q.held \cup RowsIn(q.queue) = q.held
  BY DEF RowsIn
<1>7. RowsUsed(n)
  BY <1>1, <1>2, <1>3, <1>5, LocksUsed DEF RowsUsed
<1>8. Holds(q.held, FirstLocks(o))
  <2>1. CASE o.op \notin Scoped
    BY <1>1, <1>2, <1>6, <2>1 DEF Asked
  <2>2. CASE o.op \in Scoped
    <3>1. /\ \A d \in LiveDepositsFor(o.p) : <<"deposit", d>> \in q.held
          /\ \A x \in ScopeOf(o.p) : <<"payment", x>> \in q.held
      BY <1>2, <2>2 DEF Stale
    <3>2. \A x \in Extra(o) : <<"payment", x>> \in q.held
      <4>1. CASE o.op = "voidBounce"
        <5>1. Bounced(o.p)
          BY <1>2, <4>1 DEF FirstCheck
        <5>2. Extra(o) \subseteq PaymentsIn(q.held)
          BY <1>1, <1>2, <1>6, <4>1, <5>1 DEF Asked
        <5> QED
          BY <5>2 DEF PaymentsIn
      <4>2. CASE o.op = "updatePayment"
        <5>1. SourcesOf(o.q) \subseteq PaymentsIn(q.held)
          BY <1>1, <1>2, <1>6, <4>2 DEF Asked
        <5> QED
          BY <4>2, <5>1 DEF PaymentsIn, Extra
      <4>3. CASE o.op \notin {"voidBounce", "updatePayment"}
        BY <4>3 DEF Extra
      <4> QED
        BY <4>1, <4>2, <4>3
    <3>3. FirstLocks(o) = Rows("deposit", LiveDepositsFor(o.p), o.p) \cup Rows("payment", ScopeOf(o.p) \cup Extra(o), o.p)
      BY <2>2 DEF FirstLocks, Scoped
    <3>4. /\ Holds(q.held, Rows("deposit", LiveDepositsFor(o.p), o.p))
          /\ Holds(q.held, Rows("payment", ScopeOf(o.p) \cup Extra(o), o.p))
      BY <3>1, <3>2, HoldsRows
    <3> QED
      BY <3>3, <3>4 DEF Holds
  <2> QED
    BY <2>1, <2>2
<1>9. Holds(n.held \cup RowsIn(n.queue), SecondLocks(o))
  BY <1>3 DEF Holds, RowsIn
<1>10. ReadStands(n)
  BY <1>2, <1>3, <1>8, <1>9 DEF ReadStands
<1> QED
  BY <1>2, <1>3, <1>4, <1>7, <1>10 DEF Good, Asked

LEMMA InvoicesGood ==
    ASSUME NEW q, Good(q), q.st = "second", q.queue = {}, SecondCheck(q.op),
           NEW n, n = [q EXCEPT !.st = "commit", !.effect = EffectReadLater(q)]
    PROVE  Good(n) /\ n.st # "idle" /\ n.op = q.op /\ n.held = q.held
<1>1. RequestShape(q) /\ RowsUsed(q) /\ ReadStands(q)
  BY DEF Good
<1>2. /\ DOMAIN n = DOMAIN q /\ n.st = "commit" /\ n.op = q.op /\ n.ret = q.ret
      /\ n.queue = q.queue /\ n.held = q.held
  BY <1>1 DEF RequestShape
<1>3. n.effect = Effect(q.op)
  BY <1>1 DEF RequestShape, ReadStands, EffectReadLater
<1> QED
  BY <1>1, <1>2, <1>3 DEF Good, RequestShape, RowsUsed, Asked, ReadStands

LEMMA IdleGood == Good(Idle) /\ \A q : Apart(Idle, q) /\ Apart(q, Idle)
BY DEF Good, RequestShape, Idle, Apart

\* A commit leaves alone what is in the hands of the others.
LEMMA CommitApart ==
    ASSUME TablesInv, LockInv, NEW r \in Requests, req[r].st = "commit", Commit(req[r].effect)
    PROVE  /\ Footprint(req[r].effect, PaymentsIn(Hand(req[r])), DepositsIn(Hand(req[r])), InvoicesIn(Hand(req[r])))
           /\ \A s \in Requests : s # r /\ req[s].st # "idle" => LeavesAlone(req[s])
<1>1. PICK q : q = req[r]
  OBVIOUS
<1>2. PICK o : o = q.op
  OBVIOUS
<1>3. Good(q) /\ RequestShape(q) /\ RowsUsed(q) /\ ReadStands(q) /\ o \in Ops
  BY <1>1, <1>2, InMenu DEF LockInv, Good
<1>4. /\ FirstCheck(o) /\ q.effect = Effect(o) /\ Holds(q.held, FirstLocks(o))
      /\ Holds(q.held \cup RowsIn(q.queue), SecondLocks(o)) /\ q.queue = {}
  BY <1>1, <1>2, <1>3 DEF ReadStands
<1>5. PICK H : H = Hand(q)
  OBVIOUS
<1>6. Holds(H, FirstLocks(o)) /\ Holds(H, SecondLocks(o)) /\ NewIds(o) \subseteq H
  <2>1. q.held \subseteq H /\ q.held \cup RowsIn(q.queue) \subseteq H /\ NewIds(o) \subseteq H
    BY <1>2, <1>4, <1>5 DEF Hand, RowsIn
  <2> QED
    BY <1>4, <2>1, HoldsMore
<1>7. (\A row \in Named(o) : InUseId(row)) /\ (\A row \in NewIds(o) : ~InUseId(row))
  <2>1. Named(o) \subseteq UsedRows /\ NewIds(o) \cap UsedRows = {}
    BY <1>2, <1>3 DEF RowsUsed
  <2> QED
    BY <1>3, <2>1, UsedMeans
<1>8. PICK P, D, I : P = PaymentsIn(H) /\ D = DepositsIn(H) /\ I = InvoicesIn(H)
  OBVIOUS
<1>9. Footprint(q.effect, P, D, I)
  BY <1>3, <1>4, <1>6, <1>7, <1>8, EffectFootprint DEF TablesInv
<1>10. ASSUME NEW s \in Requests, s # r, req[s].st # "idle"
       PROVE  LeavesAlone(req[s])
  <2>1. PICK t : t = req[s]
    OBVIOUS
  <2>2. Good(t) /\ RowsUsed(t) /\ Apart(q, t)
    BY <1>1, <1>10, <2>1 DEF LockInv, Good
  <2>3. PICK G : G = Hand(t)
    OBVIOUS
  <2>4. H \cap G = {}
    BY <1>1, <1>3, <1>5, <1>10, <2>1, <2>2, <2>3 DEF Apart, Hand, RowsUsed
  <2>5. PICK P2, D2, I2 : P2 = PaymentsIn(G) /\ D2 = DepositsIn(G) /\ I2 = InvoicesIn(G)
    OBVIOUS
  <2>6. /\ P2 \in SUBSET Payments /\ D2 \in SUBSET Deposits /\ I2 \in SUBSET Invoices
        /\ P \subseteq Payments /\ D \subseteq Deposits
        /\ P \cap P2 = {} /\ D \cap D2 = {} /\ I \cap I2 = {}
    BY <1>8, <2>4, <2>5 DEF PaymentsIn, DepositsIn, InvoicesIn
  <2>7. AllPaid /\ Commit(q.effect)
    BY <1>1 DEF TablesInv
  <2>8. Undisturbed(P2, D2, I2)
    BY <1>9, <2>6, <2>7, CommitElsewhere
  <2> QED
    BY <2>1, <2>3, <2>5, <2>8 DEF LeavesAlone
<1> QED
  BY <1>1, <1>5, <1>8, <1>9, <1>10

\* Only the bounce of a payment bounces it.
LEMMA BounceOnly ==
    ASSUME AllPaid, NEW o \in Ops, Commit(Effect(o)), NEW p \in Payments, Bounced(p)', ~Bounced(p)
    PROVE  o.op = "bounce" /\ o.p = p
<1>1. PICK e : e = Effect(o)
  OBVIOUS
<1>2. p \in DOMAIN e.bounce /\ e.bounce[p].at # "none"
  <2>1. bounce' = Over(e.bounce, bounce) /\ DOMAIN bounce = Payments
    BY <1>1 DEF Commit, AllPaid, PayInv, Tables
  <2> QED
    BY <2>1 DEF Over, Bounced
<1>3. o.op \in {"bounce", "voidBounce"}
  <2>1. SUFFICES ASSUME o.op \notin {"bounce", "voidBounce"}
                 PROVE  e.bounce = <<>>
    BY <1>2, BagDomains
  <2>2. CASE o.op = "voidPayment"
    BY <1>1, <2>2 DEF Effect, VoidPaymentEffect, Nothing
  <2>3. CASE o.op = "unapply"
    BY <1>1, <2>3 DEF Effect, Nothing
  <2>4. CASE o.op = "receive"
    BY <1>1, <2>4 DEF Effect, SettleEffect, Nothing
  <2>5. CASE o.op = "applyCredit"
    BY <1>1, <2>5 DEF Effect, ApplyCreditEffect, Nothing
  <2>6. CASE o.op = "refund"
    BY <1>1, <2>6 DEF Effect, RefundEffect, Nothing
  <2>7. CASE o.op \in {"createDeposit", "updateDeposit"}
    BY <1>1, <2>7 DEF Effect, DepositEffect, Nothing
  <2>8. CASE o.op = "voidDeposit"
    BY <1>1, <2>8 DEF Effect, DepositEffect, Nothing
  <2>9. CASE o.op = "voidInvoice"
    BY <1>1, <2>9 DEF Effect, VoidInvoiceEffect, Nothing
  <2>10. CASE o.op = "updatePayment"
    BY <1>1, <2>10 DEF Effect, UpdatePaymentEffect, SettleEffect, Nothing
  <2> QED
    BY <2>1, <2>2, <2>3, <2>4, <2>5, <2>6, <2>7, <2>8, <2>9, <2>10, OpIs DEF OnPayment, Scoped
<1>4. CASE o.op = "bounce"
  <2>1. e = BounceEffect(o.p)
    BY <1>1, <1>4 DEF Effect
  <2>2. DOMAIN e.bounce = {o.p}
    BY <2>1 DEF BounceEffect, Nothing, Only
  <2> QED
    BY <1>2, <1>4, <2>2
<1>5. CASE o.op = "voidBounce"
  <2>1. e = VoidBounceEffect(o.p)
    BY <1>1, <1>5 DEF Effect
  <2>2. e.bounce = Only(o.p, NoBounce)
    BY <2>1 DEF VoidBounceEffect, Nothing
  <2> QED
    BY <1>2, <2>2 DEF Only, NoBounce
<1> QED
  BY <1>3, <1>4, <1>5

LEMMA ReversalStays ==
    ASSUME AllPaid, PaymentsNext, NEW p \in Payments, Bounced(p), Bounced(p)'
    PROVE  ReversedBy(p)' = ReversedBy(p)
<1>1. PayInv
  BY DEF AllPaid
<1>2. PICK e : Lawful(e) /\ Commit(e)
  BY <1>1, StepLawful
<1>3. Untouched(p)
  BY <1>1, <1>2, LawfulReadOnly
<1>4. Reversal(p)' = Reversal(p)
  BY <1>3 DEF Untouched
<1>5. DOMAIN Reversal(p) = ReversedBy(p) /\ DOMAIN Reversal(p)' = ReversedBy(p)'
  BY DEF Reversal
<1> QED
  BY <1>4, <1>5

-----------------------------------------------------------------------------
(* The invariant of the requests is inductive.                             *)

LEMMA Replaced ==
    ASSUME LockInv, NEW r \in Requests, NEW n, NEW f, f = req, req' = [f EXCEPT ![r] = n],
           returns' \in [Payments -> Nat], Good(n)',
           \A s \in Requests \ {r} : Good(f[s])' /\ Apart(n, f[s]) /\ Apart(f[s], n)
    PROVE  LockInv'
<1>1. DOMAIN f = Requests
  BY DEF LockInv
<1>2. DOMAIN req' = Requests /\ req'[r] = n /\ \A s \in Requests \ {r} : req'[s] = f[s]
  BY <1>1
<1>3. \A q \in {req'[s] : s \in Requests} : Good(q)'
  BY <1>2
<1>4. ASSUME NEW s \in Requests, NEW t \in Requests, s # t
      PROVE  Apart(req'[s], req'[t])
  <2>1. s # r /\ t # r => Apart(f[s], f[t])
    BY <1>4 DEF LockInv
  <2> QED
    BY <1>2, <1>4, <2>1
<1>5. \A s, t \in Requests : s # t => Apart(req[s], req[t])'
  BY <1>4 DEF Apart, NewIds, SomeId
<1> QED
  BY <1>2, <1>3, <1>5 DEF LockInv

\* A step that writes no table changes nothing a request has read.
LEMMA QuietStays ==
    ASSUME TablesInv, AllPaid', LockInv, UNCHANGED <<vars, returns>>, NEW q, Good(q)
    PROVE  Good(q)'
<1>1. LeavesAlone(q)
  <2>1. PICK H : H = Hand(q)
    OBVIOUS
  <2>2. PaymentsIn(H) \in SUBSET Payments /\ DepositsIn(H) \in SUBSET Deposits /\ InvoicesIn(H) \in SUBSET Invoices
    BY DEF PaymentsIn, DepositsIn, InvoicesIn
  <2>3. UNCHANGED vars
    OBVIOUS
  <2>4. Undisturbed(PaymentsIn(H), DepositsIn(H), InvoicesIn(H))
    BY <2>2, <2>3, NoneWrites
  <2> QED
    BY <2>1, <2>4 DEF LeavesAlone
<1>2. UsedRows \subseteq UsedRows'
  BY DEF UsedRows, Unused, vars
<1>3. ReturnStays(q)
  <2>1. ASSUME q.st = "first", q.op.op = "voidBounce"
        PROVE  returns[q.op.p] \in Nat
    <3>1. q.op \in Ops
      BY <2>1, InMenu DEF Good
    <3> QED
      BY <2>1, <3>1, OpIs DEF OnPayment, Scoped, LockInv
  <2>2. \A p : Bounced(p)' = Bounced(p) /\ ReversedBy(p)' = ReversedBy(p)
    BY DEF Bounced, ReversedBy, vars
  <2> QED
    BY <2>1, <2>2 DEF ReturnStays
<1>4. returns \in [Payments -> Nat] /\ returns' \in [Payments -> Nat]
  BY DEF LockInv
<1> QED
  BY <1>1, <1>2, <1>3, <1>4, GoodStays

\* A request that goes on, or ends, without writing a table.
LEMMA GoesOn ==
    ASSUME TablesInv, AllPaid', LockInv, UNCHANGED <<vars, returns>>, NEW r \in Requests, NEW n, Good(n),
           NEW f, f = req, req' = [f EXCEPT ![r] = n],
           \A s \in Requests \ {r} : Apart(n, f[s]) /\ Apart(f[s], n)
    PROVE  LockInv'
<1>1. returns' \in [Payments -> Nat]
  BY DEF LockInv
<1>2. Good(n)'
  BY QuietStays
<1>3. ASSUME NEW s \in Requests \ {r}
      PROVE  Good(f[s])' /\ Apart(n, f[s]) /\ Apart(f[s], n)
  <2>1. PICK t : t = f[s]
    OBVIOUS
  <2>2. Good(t)
    BY <2>1 DEF LockInv
  <2>3. Good(t)'
    BY <2>2, QuietStays
  <2> QED
    BY <2>1, <2>3
<1> QED
  BY <1>1, <1>2, <1>3, Replaced

LEMMA Commits ==
    ASSUME TablesInv, AllPaid', LockInv, NEW r \in Requests, CommitStep(r), PaymentsNext
    PROVE  LockInv'
<1>1. PICK f : f = req
  OBVIOUS
<1>2. PICK q : q = f[r]
  OBVIOUS
<1>3. PICK o : o = q.op
  OBVIOUS
<1>4. Good(q) /\ q.st = "commit" /\ ReadStands(q) /\ o \in Ops
  BY <1>1, <1>2, <1>3, InMenu DEF LockInv, CommitStep, Good
<1>5. q.effect = Effect(o) /\ Commit(Effect(o)) /\ Commit(q.effect)
  BY <1>1, <1>2, <1>3, <1>4 DEF ReadStands, CommitStep
<1>6. /\ Footprint(q.effect, PaymentsIn(Hand(q)), DepositsIn(Hand(q)), InvoicesIn(Hand(q)))
      /\ \A s \in Requests : s # r /\ f[s].st # "idle" => LeavesAlone(f[s])
  BY <1>1, <1>2, <1>4, <1>5, CommitApart
<1>7. UsedRows \subseteq UsedRows'
  <2>1. PICK P, D, I : P = PaymentsIn(Hand(q)) /\ D = DepositsIn(Hand(q)) /\ I = InvoicesIn(Hand(q))
    OBVIOUS
  <2>2. P \in SUBSET Payments /\ D \in SUBSET Deposits /\ Footprint(q.effect, P, D, I)
    BY <1>6, <2>1 DEF PaymentsIn, DepositsIn
  <2> QED
    BY <1>5, <2>2, UsedStay DEF TablesInv
<1>8. returns \in [Payments -> Nat] /\ returns' \in [Payments -> Nat] /\ \A p \in Payments : returns[p] <= returns'[p]
  <2>1. returns \in [Payments -> Nat]
    BY DEF LockInv
  <2>2. returns' = IF o.op = "bounce" THEN [returns EXCEPT ![o.p] = @ + 1] ELSE returns
    BY <1>1, <1>2, <1>3 DEF CommitStep
  <2>3. PICK n : n = returns
    OBVIOUS
  <2>4. CASE o.op = "bounce"
    <3>1. o.p \in Payments
      BY <1>4, <2>4, OpIs DEF OnPayment, Scoped
    <3>2. returns' = [n EXCEPT ![o.p] = n[o.p] + 1]
      BY <2>2, <2>3, <2>4
    <3>3. n \in [Payments -> Nat]
      BY <2>1, <2>3
    <3>4. returns' \in [Payments -> Nat]
      BY <3>1, <3>2, <3>3
    <3>5. \A p \in Payments : n[p] \in Nat /\ (returns'[p] = n[p] \/ returns'[p] = n[p] + 1)
      BY <3>1, <3>2, <3>3
    <3>6. \A p \in Payments : n[p] <= returns'[p]
      BY <3>5
    <3> QED
      BY <2>1, <2>3, <3>4, <3>6
  <2>5. CASE o.op # "bounce"
    <3>1. returns' = n /\ \A p \in Payments : n[p] \in Nat
      BY <2>1, <2>2, <2>3, <2>5
    <3>2. \A p \in Payments : n[p] <= n[p]
      BY <3>1
    <3> QED
      BY <2>1, <2>3, <3>1, <3>2
  <2> QED
    BY <2>4, <2>5
<1>9. ASSUME NEW p \in Payments, returns'[p] = returns[p], Bounced(p)'
      PROVE  Bounced(p) /\ ReversedBy(p)' = ReversedBy(p)
  <2>1. Bounced(p)
    <3>1. SUFFICES ASSUME ~Bounced(p)
                   PROVE  FALSE
      OBVIOUS
    <3>2. o.op = "bounce" /\ o.p = p
      BY <1>4, <1>5, <1>9, <3>1, BounceOnly DEF TablesInv
    <3>3. returns' = [returns EXCEPT ![p] = @ + 1]
      BY <1>1, <1>2, <1>3, <3>2 DEF CommitStep
    <3>4. returns[p] \in Nat /\ returns'[p] = returns[p] + 1
      BY <1>8, <3>3
    <3> QED
      BY <1>9, <3>4
  <2> QED
    BY <1>9, <2>1, ReversalStays DEF TablesInv
<1>10. ASSUME NEW s \in Requests \ {r}
       PROVE  Good(f[s])' /\ Apart(Idle, f[s]) /\ Apart(f[s], Idle)
  <2>1. PICK t : t = f[s]
    OBVIOUS
  <2>2. Good(t)
    BY <1>1, <2>1 DEF LockInv
  <2>3. CASE t.st = "idle"
    <3>1. t = Idle
      BY <2>2, <2>3 DEF Good, RequestShape
    <3>2. Good(t)'
      BY <2>2, <2>3 DEF Good, RequestShape
    <3> QED
      BY <2>1, <3>2, IdleGood
  <2>4. CASE t.st # "idle"
    <3>1. LeavesAlone(t)
      BY <1>6, <2>1, <2>4
    <3>2. t.op \in Ops
      BY <2>2, <2>4, InMenu DEF Good
    <3>3. t.op.op = "voidBounce" => t.op.p \in Payments
      BY <3>2, OpIs DEF OnPayment, Scoped
    <3>4. ReturnStays(t)
      BY <1>8, <1>9, <3>3 DEF ReturnStays
    <3>5. Good(t)'
      BY <1>7, <1>8, <2>2, <3>1, <3>4, GoodStays
    <3> QED
      BY <2>1, <3>5, IdleGood
  <2> QED
    BY <2>3, <2>4
<1>11. req' = [f EXCEPT ![r] = Idle]
  BY <1>1 DEF CommitStep
<1>12. Good(Idle)'
  BY DEF Good, RequestShape, Idle
<1> QED
  BY <1>1, <1>8, <1>10, <1>11, <1>12, Replaced

\* Each commit is one operation of Payments.
LEMMA CommitIsOperation ==
    ASSUME TablesInv, LockInv, NEW r \in Requests, CommitStep(r)
    PROVE  PaymentsNext
<1>1. PICK q : q = req[r]
  OBVIOUS
<1>2. PICK o : o = q.op
  OBVIOUS
<1>3. Good(q) /\ q.st = "commit" /\ ReadStands(q) /\ RowsUsed(q) /\ o \in Ops
  BY <1>1, <1>2, InMenu DEF LockInv, CommitStep, Good
<1>4. FirstCheck(o) /\ SecondCheck(o) /\ Commit(Effect(o))
  BY <1>1, <1>2, <1>3 DEF ReadStands, CommitStep
<1>5. \A row \in NewIds(o) : ~InUseId(row)
  BY <1>2, <1>3, UsedMeans DEF RowsUsed
<1> QED
  BY <1>3, <1>4, <1>5, OneOperation DEF TablesInv

LEMMA LocksTables ==
    ASSUME TablesInv, LockInv, [LocksNext]_lvars
    PROVE  TablesInv' /\ [PaymentsNext]_vars /\ (vars' # vars => PaymentsNext)
<1>1. CASE \E r \in Requests : CommitStep(r)
  <2>1. PICK r \in Requests : CommitStep(r)
    BY <1>1
  <2>2. PaymentsNext
    BY <2>1, CommitIsOperation
  <2>3. AllPaid'
    BY <2>2, NextInv, PaidNext, CreditNext DEF TablesInv, AllPaid
  <2>4. KeptInv'
    BY <2>2, <2>3, KeptNext DEF TablesInv
  <2>5. FromKept'
    <3>1. PICK e : e = req[r].effect
      OBVIOUS
    <3>2. Commit(e) /\ req[r].st = "commit"
      BY <2>1, <3>1 DEF CommitStep
    <3>3. PICK P, D, I : Footprint(e, P, D, I)
      BY <3>1, <3>2, CommitApart
    <3> QED
      BY <3>2, <3>3, FromStays DEF TablesInv
  <2> QED
    BY <2>2, <2>3, <2>4, <2>5 DEF TablesInv
<1>2. CASE UNCHANGED vars
  <2>1. [PaymentsNext]_vars /\ (vars' # vars => PaymentsNext)
    BY <1>2
  <2>2. AllPaid'
    BY <2>1, NextInv, PaidNext, CreditNext DEF TablesInv, AllPaid
  <2>3. KeptInv'
    BY <2>1, <2>2, KeptNext DEF TablesInv
  <2>4. FromKept'
    BY <1>2 DEF TablesInv, FromKept, IsKind, vars
  <2> QED
    BY <2>1, <2>2, <2>3, <2>4 DEF TablesInv
<1>3. (\E r \in Requests : CommitStep(r)) \/ UNCHANGED vars
  BY DEF LocksNext, Begin, Lock, CheckLinks, CheckInvoices, Refuse, DeadlockAbort, lvars
<1> QED
  BY <1>1, <1>2, <1>3

LEMMA LockNext ==
    ASSUME TablesInv, LockInv, [LocksNext]_lvars
    PROVE  LockInv'
<1>1. AllPaid' /\ [PaymentsNext]_vars
  BY LocksTables DEF TablesInv
<1>2. PICK f : f = req
  OBVIOUS
<1>3. \A s \in Requests : Good(f[s])
  BY <1>2 DEF LockInv
<1>4. \A s, t \in Requests : s # t => Apart(f[s], f[t])
  BY <1>2 DEF LockInv
<1>5. ASSUME NEW r \in Requests, NEW o \in Menu, Begin(r, o)
      PROVE  LockInv'
  <2>1. PICK n : n = [st |-> "first", op |-> o, ret |-> IF o.op = "voidBounce" THEN returns[o.p] ELSE 0,
                      queue |-> FirstLocks(o), held |-> {}, effect |-> Nothing]
    OBVIOUS
  <2>2. req' = [f EXCEPT ![r] = n] /\ UNCHANGED <<vars, returns>> /\ Fresh(o) /\ (o.op = "voidBounce" => returns[o.p] > 0)
    BY <1>2, <1>5, <2>1 DEF Begin
  <2>3. Good(n) /\ \A s \in Requests : Apart(n, f[s]) /\ Apart(f[s], n)
    BY <1>2, <2>1, <2>2, BeginGood
  <2> QED
    BY <1>1, <1>2, <2>2, <2>3, GoesOn
<1>6. ASSUME NEW r \in Requests, Lock(r)
      PROVE  LockInv'
  <2>1. PICK w \in NextRows(r) :
            /\ Holder(RowOf(w)) \subseteq {r}
            /\ req' = [req EXCEPT ![r].queue = @ \ {w}, ![r].held = @ \cup {RowOf(w)}]
            /\ UNCHANGED <<vars, begun, returns>>
    BY <1>6 DEF Lock
  <2>2. PICK q : q = f[r]
    OBVIOUS
  <2>3. PICK n : n = [q EXCEPT !.queue = @ \ {w}, !.held = @ \cup {RowOf(w)}]
    OBVIOUS
  <2>4. w \in q.queue
    BY <1>2, <2>2 DEF NextRows
  <2>5. Good(q) /\ q.st # "idle"
    BY <1>3, <2>2, <2>4 DEF Good, RequestShape, Idle
  <2>6. Good(n) /\ n.st = q.st /\ n.op = q.op /\ n.held = q.held \cup {RowOf(w)}
    BY <2>3, <2>4, <2>5, LockGood
  <2>7. req' = [f EXCEPT ![r] = n]
    <3>1. req[r] = q
      BY <1>2, <2>2
    <3>2. [req[r] EXCEPT !.queue = @ \ {w}, !.held = @ \cup {RowOf(w)}] = n
      BY <2>3, <3>1
    <3>3. req' = [req EXCEPT ![r] = n]
      BY <2>1, <3>2
    <3> QED
      BY <1>2, <3>3
  <2>8. ASSUME NEW s \in Requests \ {r}
        PROVE  Apart(n, f[s]) /\ Apart(f[s], n)
    <3>1. RowOf(w) \notin f[s].held
      BY <1>2, <2>1 DEF Holder
    <3>2. Apart(q, f[s]) /\ Apart(f[s], q)
      BY <1>4, <2>2
    <3> QED
      BY <2>6, <3>1, <3>2 DEF Apart
  <2> QED
    BY <1>1, <1>2, <2>1, <2>6, <2>7, <2>8, GoesOn
<1>7. ASSUME NEW r \in Requests, CheckLinks(r)
      PROVE  LockInv'
  <2>1. PICK q : q = f[r]
    OBVIOUS
  <2>2. PICK n : n = [q EXCEPT !.st = "second", !.queue = SecondLocks(q.op), !.effect = EffectRead(q)]
    OBVIOUS
  <2>3. /\ q.st = "first" /\ q.queue = {} /\ ~Stale(q.op, q.held) /\ FirstCheck(q.op)
        /\ q.op.op = "voidBounce" => q.ret = returns[q.op.p]
        /\ req' = [f EXCEPT ![r] = n] /\ UNCHANGED <<vars, returns>>
    BY <1>2, <1>7, <2>1, <2>2 DEF CheckLinks, Locked, LinksStand
  <2>4. Good(q)
    BY <1>3, <2>1
  <2>5. Good(n) /\ n.st # "idle" /\ n.op = q.op /\ n.held = q.held
    BY <2>2, <2>3, <2>4, LinksGood
  <2>6. \A s \in Requests \ {r} : Apart(n, f[s]) /\ Apart(f[s], n)
    BY <1>4, <2>1, <2>3, <2>5 DEF Apart
  <2> QED
    BY <1>1, <1>2, <2>3, <2>5, <2>6, GoesOn
<1>8. ASSUME NEW r \in Requests, CheckInvoices(r)
      PROVE  LockInv'
  <2>1. PICK q : q = f[r]
    OBVIOUS
  <2>2. PICK n : n = [q EXCEPT !.st = "commit", !.effect = EffectReadLater(q)]
    OBVIOUS
  <2>3. /\ q.st = "second" /\ q.queue = {} /\ SecondCheck(q.op)
        /\ req' = [f EXCEPT ![r] = n] /\ UNCHANGED <<vars, returns>>
    BY <1>2, <1>8, <2>1, <2>2 DEF CheckInvoices, Locked
  <2>4. Good(q)
    BY <1>3, <2>1
  <2>5. Good(n) /\ n.st # "idle" /\ n.op = q.op /\ n.held = q.held
    BY <2>2, <2>3, <2>4, InvoicesGood
  <2>6. \A s \in Requests \ {r} : Apart(n, f[s]) /\ Apart(f[s], n)
    BY <1>4, <2>1, <2>3, <2>5 DEF Apart
  <2> QED
    BY <1>1, <1>2, <2>3, <2>5, <2>6, GoesOn
<1>9. ASSUME NEW r \in Requests, Refuse(r) \/ DeadlockAbort(r)
      PROVE  LockInv'
  <2>1. req' = [f EXCEPT ![r] = Idle] /\ UNCHANGED <<vars, returns>>
    BY <1>2, <1>9 DEF Refuse, DeadlockAbort
  <2>2. Good(Idle) /\ \A s \in Requests \ {r} : Apart(Idle, f[s]) /\ Apart(f[s], Idle)
    BY IdleGood
  <2> QED
    BY <1>1, <1>2, <2>1, <2>2, GoesOn
<1>10. ASSUME NEW r \in Requests, CommitStep(r)
       PROVE  LockInv'
  BY <1>1, <1>10, CommitIsOperation, Commits
<1>11. CASE UNCHANGED lvars
  <2>1. UNCHANGED <<vars, returns>> /\ req' = f
    BY <1>2, <1>11 DEF lvars
  <2>2. ASSUME NEW q \in {f[s] : s \in Requests}
        PROVE  Good(q)'
    BY <1>1, <1>3, <2>1, QuietStays
  <2>3. {req'[s] : s \in Requests} = {f[s] : s \in Requests}
    BY <2>1
  <2>4. \A s, t \in Requests : s # t => Apart(req[s], req[t])'
    BY <1>4, <2>1 DEF Apart, NewIds, SomeId
  <2> QED
    BY <1>2, <2>1, <2>2, <2>3, <2>4 DEF LockInv
<1> QED
  BY <1>5, <1>6, <1>7, <1>8, <1>9, <1>10, <1>11 DEF LocksNext
-----------------------------------------------------------------------------
(* Payments keeps FromKept too: only a draw has a source.                  *)

\* The payments an effect writes are draws, have no source or keep theirs.
FromFits(e) ==
    \A x \in DOMAIN e.payment :
       \/ e.payment[x].kind = "draw" \/ e.payment[x].from = None
       \/ x \in Payments /\ e.payment[x].kind = payment[x].kind /\ e.payment[x].from = payment[x].from

LEMMA FromFitsKeeps ==
    ASSUME AllPaid, FromKept, NEW e, FromFits(e), Commit(e)
    PROVE  FromKept'
<1>1. DOMAIN payment = Payments /\ payment' = Over(e.payment, payment)
  BY DEF AllPaid, PayInv, Tables, Commit
<1>2. ASSUME NEW x \in Payments, payment'[x].kind # "draw"
      PROVE  payment'[x].from = None
  <2>1. payment'[x] = IF x \in DOMAIN e.payment THEN e.payment[x] ELSE payment[x]
    BY <1>1 DEF Over
  <2> QED
    BY <1>2, <2>1 DEF FromFits, FromKept, IsKind
<1> QED
  BY <1>2 DEF FromKept, IsKind

LEMMA NoPaymentFits == \A e : e.payment = <<>> => FromFits(e)
BY BagDomains DEF FromFits

\* A row that is voided, or whose amounts are edited, keeps its source.
LEMMA EditedFrom ==
    ASSUME AllPaid, NEW x \in Payments
    PROVE  /\ \A D : x \in D => Voided(D)[x].kind = payment[x].kind /\ Voided(D)[x].from = payment[x].from
           /\ \A n, to : LET row == [payment[x] EXCEPT !.total = n, !.to = to]
                         IN row.kind = payment[x].kind /\ row.from = payment[x].from
           /\ \A n : LET row == [payment[x] EXCEPT !.total = n]
                     IN row.kind = payment[x].kind /\ row.from = payment[x].from
<1>1. PaymentShape(payment[x])
  BY DEF AllPaid, PayInv, Tables
<1> QED
  BY <1>1 DEF Voided, PaymentShape

LEMMA SettleFrom ==
    ASSUME AllPaid, NEW p, NEW q, NEW d, NEW R, NEW D \in SUBSET Payments
    PROVE  FromFits(SettleEffect(p, q, d, R, D))
<1>1. PICK e : e = SettleEffect(p, q, d, R, D)
  OBVIOUS
<1>2. PICK own, draw, gone :
         /\ own = Only(p, NewPayment("payment", q.amount, Total(q.adj), q.to, None, None))
         /\ draw = [x \in {d} \ {p} |-> NewPayment("draw", CreditIn(q.credits), 0, "bank", TheCredit(q.credits).src, p)]
         /\ gone = Voided(D)
  OBVIOUS
<1>3. e.payment = Over(own, Over(draw, gone))
  BY <1>1, <1>2 DEF SettleEffect, Nothing
<1>4. own[p].from = None /\ DOMAIN own = {p}
  BY <1>2 DEF Only, NewPayment
<1>5. \A x \in DOMAIN draw : draw[x].kind = "draw"
  BY <1>2 DEF NewPayment
<1>6. DOMAIN gone = D
  BY <1>2 DEF Voided
<1>7. ASSUME NEW x \in DOMAIN e.payment, x # p, x \notin DOMAIN draw
      PROVE  x \in D /\ e.payment[x] = gone[x]
  BY <1>3, <1>4, <1>6, <1>7 DEF Over
<1>8. \A x \in D : gone[x].kind = payment[x].kind /\ gone[x].from = payment[x].from
  BY <1>2, EditedFrom
<1>9. \A x \in DOMAIN e.payment : x = p => e.payment[x] = own[p]
  BY <1>3, <1>4 DEF Over
<1>10. \A x \in DOMAIN e.payment : x # p /\ x \in DOMAIN draw => e.payment[x] = draw[x]
  BY <1>3, <1>4 DEF Over
<1> QED
  BY <1>1, <1>4, <1>5, <1>7, <1>8, <1>9, <1>10 DEF FromFits

LEMMA PaymentsFrom ==
    ASSUME AllPaid, PaymentsNext
    PROVE  \E e : FromFits(e) /\ Commit(e)
<1> USE DEF Nothing
<1>1. CASE ReceiptStep
  <2>1. ASSUME NEW p \in Payments, NEW q \in Bodies, NEW d, Receive(p, q, d)
        PROVE  \E e : FromFits(e) /\ Commit(e)
    BY <2>1, SettleFrom DEF Receive
  <2>2. ASSUME NEW p \in Payments, NEW q \in Bodies, NEW d, UpdatePayment(p, q, d)
        PROVE  \E e : FromFits(e) /\ Commit(e)
    <3>1. PICK D : D = DrawsInside(p)
      OBVIOUS
    <3>2. D \in SUBSET Payments
      BY <3>1 DEF DrawsInside
    <3>3. PICK new : new = SettleEffect(p, q, d, SetAside(p), D)
      OBVIOUS
    <3>4. PICK e : e = [new EXCEPT !.ar = @ + payment[p].total + payment[p].adj,
                                   !.clearing = @ - InClearing(payment[p].to, payment[p].total)]
      OBVIOUS
    <3>5. FromFits(new) /\ Commit(e)
      BY <2>2, <3>1, <3>2, <3>3, <3>4, SettleFrom DEF UpdatePayment, UpdatePaymentEffect
    <3>6. e.payment = new.payment
      BY <3>3, <3>4 DEF SettleEffect
    <3> QED
      BY <3>5, <3>6 DEF FromFits
  <2>3. ASSUME NEW p \in Payments, VoidPayment(p)
        PROVE  \E e : FromFits(e) /\ Commit(e)
    <3>1. PICK e : e = VoidPaymentEffect(p)
      OBVIOUS
    <3>2. PICK D : D = {p} \cup DrawsInside(p)
      OBVIOUS
    <3>3. e.payment = Voided(D) /\ DOMAIN Voided(D) = D /\ D \subseteq Payments
      BY <3>1, <3>2 DEF VoidPaymentEffect, Voided, DrawsInside
    <3>4. FromFits(e)
      BY <3>3, EditedFrom DEF FromFits
    <3> QED
      BY <2>3, <3>1, <3>4 DEF VoidPayment
  <2> QED
    BY <1>1, <2>1, <2>2, <2>3 DEF ReceiptStep, OfKind
<1>2. CASE HoldStep
  <2>1. ASSUME NEW p \in Payments, NEW n \in Amounts, NEW to \in Places, ReceiveHold(p, n, to)
        PROVE  \E e : FromFits(e) /\ Commit(e)
    <3>1. PICK e : e = [Nothing EXCEPT !.payment = Only(p, NewPayment("hold", n, 0, to, None, None)),
                                       !.held = n, !.clearing = InClearing(to, n)]
      OBVIOUS
    <3>2. FromFits(e)
      BY <3>1 DEF FromFits, Only, NewPayment
    <3> QED
      BY <2>1, <3>1, <3>2 DEF ReceiveHold
  <2>2. ASSUME NEW p \in Payments, NEW n \in Amounts, NEW to \in Places, UpdateHold(p, n, to)
        PROVE  \E e : FromFits(e) /\ Commit(e)
    <3>1. PICK row : row = [payment[p] EXCEPT !.total = n, !.to = to]
      OBVIOUS
    <3>2. PICK e : e = [Nothing EXCEPT !.payment = Only(p, row),
                     !.held = n - payment[p].total,
                     !.clearing = InClearing(to, n) - InClearing(payment[p].to, payment[p].total)]
      OBVIOUS
    <3>3. row.kind = payment[p].kind /\ row.from = payment[p].from
      BY <3>1, EditedFrom
    <3>4. FromFits(e)
      BY <3>2, <3>3 DEF FromFits, Only
    <3>5. Commit(e)
      BY <2>2, <3>1, <3>2 DEF UpdateHold
    <3> QED
      BY <3>4, <3>5
  <2> QED
    BY <1>2, <2>1, <2>2 DEF HoldStep
<1>3. CASE CreditStep
  <2>1. ASSUME NEW p \in Payments, NEW i, NEW x, NEW d, ApplyCredit(p, i, x, d)
        PROVE  \E e : FromFits(e) /\ Commit(e)
    <3>1. PICK e : e = ApplyCreditEffect(p, i, x, d)
      OBVIOUS
    <3>2. e.payment = <<>> \/ e.payment = Only(d, NewPayment("draw", x, 0, "bank", p, None))
      BY <3>1 DEF ApplyCreditEffect
    <3>3. FromFits(e)
      BY <3>2, NoPaymentFits DEF FromFits, Only, NewPayment
    <3> QED
      BY <2>1, <3>1, <3>3 DEF ApplyCredit
  <2>2. ASSUME NEW p \in Payments, NEW r, Unapply(p, r)
        PROVE  \E e : FromFits(e) /\ Commit(e)
    BY <2>2, NoPaymentFits DEF Unapply
  <2> QED
    BY <1>3, <2>1, <2>2 DEF CreditStep
<1>4. CASE BounceStep
  <2>1. ASSUME NEW p \in Payments, BouncePayment(p)
        PROVE  \E e : FromFits(e) /\ Commit(e)
    <3>1. BounceEffect(p).payment = <<>>
      BY DEF BounceEffect
    <3> QED
      BY <2>1, <3>1, NoPaymentFits DEF BouncePayment
  <2>2. ASSUME NEW p \in Payments, VoidBounce(p)
        PROVE  \E e : FromFits(e) /\ Commit(e)
    <3>1. VoidBounceEffect(p).payment = <<>>
      BY DEF VoidBounceEffect
    <3> QED
      BY <2>2, <3>1, NoPaymentFits DEF VoidBounce
  <2> QED
    BY <1>4, <2>1, <2>2 DEF BounceStep
<1>5. CASE MemoStep
  <2>1. ASSUME NEW m \in Payments, NEW n, NEW on, CreateMemo(m, n, on)
        PROVE  \E e : FromFits(e) /\ Commit(e)
    <3>1. PICK A : Commit([Nothing EXCEPT !.payment = Only(m, NewPayment("memo", n, 0, "bank", None, None)),
                                          !.new = A, !.ar = -n])
      BY <2>1 DEF CreateMemo
    <3>2. PICK e : e = [Nothing EXCEPT !.payment = Only(m, NewPayment("memo", n, 0, "bank", None, None)),
                                       !.new = A, !.ar = -n]
      OBVIOUS
    <3>3. FromFits(e)
      BY <3>2 DEF FromFits, Only, NewPayment
    <3> QED
      BY <3>1, <3>2, <3>3
  <2>2. ASSUME NEW m \in Payments, NEW n \in Amounts, UpdateMemo(m, n)
        PROVE  \E e : FromFits(e) /\ Commit(e)
    <3>1. PICK row : row = [payment[m] EXCEPT !.total = n]
      OBVIOUS
    <3>2. PICK e : e = [Nothing EXCEPT !.payment = Only(m, row), !.ar = payment[m].total - n]
      OBVIOUS
    <3>3. row.kind = payment[m].kind /\ row.from = payment[m].from
      BY <3>1, EditedFrom
    <3>4. FromFits(e)
      BY <3>2, <3>3 DEF FromFits, Only
    <3> QED
      BY <2>2, <3>1, <3>2, <3>4 DEF UpdateMemo
  <2>3. ASSUME NEW m \in Payments, VoidMemo(m)
        PROVE  \E e : FromFits(e) /\ Commit(e)
    <3>1. PICK e : e = [Nothing EXCEPT !.gone = Copies(LiveApplications(m)), !.payment = Voided({m}), !.ar = payment[m].total]
      OBVIOUS
    <3>2. e.payment = Voided({m}) /\ DOMAIN Voided({m}) = {m}
      BY <3>1 DEF Voided
    <3>3. FromFits(e)
      BY <3>2, EditedFrom DEF FromFits
    <3> QED
      BY <2>3, <3>1, <3>3 DEF VoidMemo
  <2> QED
    BY <1>5, <2>1, <2>2, <2>3 DEF MemoStep
<1>6. CASE RefundStep \/ DepositStep \/ InvoiceStep
  <2>1. \A p, n, x : RefundEffect(p, n, x).payment = <<>>
    BY DEF RefundEffect
  <2>2. \A d, st, items : DepositEffect(d, st, items).payment = <<>>
    BY DEF DepositEffect
  <2>3. PICK e : e.payment = <<>> /\ Commit(e)
    <3>1. CASE RefundStep
      BY <2>1, <3>1 DEF RefundStep, VoidRefund, Refund
    <3>2. CASE DepositStep
      BY <2>2, <3>2 DEF DepositStep, CreateDeposit, UpdateDeposit, VoidDeposit
    <3>3. ASSUME NEW i \in Invoices, NEW n, VoidInvoice(i) \/ UpdateInvoice(i, n)
          PROVE  \E e : e.payment = <<>> /\ Commit(e)
      BY <3>3 DEF VoidInvoice, VoidInvoiceEffect, UpdateInvoice
    <3> QED
      BY <1>6, <3>1, <3>2, <3>3 DEF InvoiceStep
  <2> QED
    BY <2>3, NoPaymentFits
<1> QED
  BY <1>1, <1>2, <1>3, <1>4, <1>5, <1>6 DEF PaymentsNext

LEMMA FromNext == ASSUME AllPaid, FromKept, [PaymentsNext]_vars PROVE FromKept'
<1>1. CASE PaymentsNext
  BY <1>1, PaymentsFrom, FromFitsKeeps
<1>2. CASE UNCHANGED vars
  BY <1>2 DEF vars, FromKept, IsKind
<1> QED
  BY <1>1, <1>2

\* The hypothesis of the theorems below holds of every state of Payments: it is
\* what its operations keep, with the rows of the tables accounting for each other
\* and draws alone having a source.
THEOREM TablesInvariant == PaymentsSpec => []TablesInv
<1>1. PaymentsInit => FromKept
  BY DEF PaymentsInit, FromKept, NoPayment
<1>2. (AllPaid /\ KeptInv) /\ FromKept /\ [PaymentsNext]_vars => FromKept'
  BY FromNext
<1> QED
  BY <1>1, <1>2, KeptInvariant, PTL DEF PaymentsSpec, TablesInv

-----------------------------------------------------------------------------
(* The theorems.                                                           *)

LEMMA LockInit ==
    ASSUME LocksInit
    PROVE  LockInv
<1>1. req = [r \in Requests |-> Idle] /\ returns = [p \in Payments |-> IF Bounced(p) THEN 1 ELSE 0]
  BY DEF LocksInit
<1>2. \A r \in Requests : Good(req[r])
  BY <1>1, IdleGood
<1>3. \A r, s \in Requests : r # s => Apart(req[r], req[s])
  BY <1>1, IdleGood
<1> QED
  BY <1>1, <1>2, <1>3 DEF LockInv

\* Whatever the requests do, and in whatever order their statements run, each row
\* is held by one request at a time, and what a request read before its last lock
\* was granted is what is there when it commits; the tables keep every invariant
\* proved of Payments.  The tables the requests meet satisfy those invariants.
THEOREM LocksInvariant == TablesInv /\ LocksSpec => [](TablesInv /\ LockInv)
<1>1. LocksInit => LockInv
  BY LockInit
<1>2. TablesInv /\ LockInv /\ [LocksNext]_lvars => TablesInv' /\ LockInv'
  BY LocksTables, LockNext
<1> QED
  BY <1>1, <1>2, PTL DEF LocksSpec

\* Every commit of a concurrent execution is one operation of Payments on the
\* tables as they are at that moment, for any number of requests (E-B1).
THEOREM LocksRefinePayments == TablesInv /\ LocksSpec => ImplementsPayments
<1>1. TablesInv /\ LockInv /\ [LocksNext]_lvars => (vars' # vars => PaymentsNext)
  BY LocksTables
<1>2. TablesInv /\ LockInv /\ [LocksNext]_lvars => [vars' # vars => PaymentsNext]_vars
  BY <1>1
<1> QED
  BY <1>2, LocksInvariant, PTL DEF LocksSpec, ImplementsPayments

\* The concurrent requests keep what the operations of Payments keep: no source
\* gives more than it received, paid amounts are what the live rows settle, those
\* rows stand on posted and unbounced money, each deposited item is in one deposit.
THEOREM TablesUnderLocks ==
    TablesInv /\ LocksSpec =>
        [](PaidMatchesApplications /\ CreditNotOverdrawn /\ LiveRowsStand /\ DepositsHoldPostedItems)
<1>1. TablesInv => PaidMatchesApplications /\ CreditNotOverdrawn /\ LiveRowsStand /\ DepositsHoldPostedItems
  <2>1. ASSUME TablesInv
        PROVE  PayInv /\ PaidInv /\ CreditInv
    BY <2>1 DEF TablesInv, AllPaid
  <2>2. PaidInv => PaidMatchesApplications
    BY DEF PaidInv, PaidTies, PaidMatchesApplications, PaidBy
  <2>3. PayInv => LiveRowsStand /\ DepositsHoldPostedItems
    BY DEF PayInv
  <2> QED
    BY <2>1, <2>2, <2>3, LiveWithinTotal
<1> QED
  BY <1>1, LocksInvariant, PTL

-----------------------------------------------------------------------------
(* The lock order.                                                         *)

\* The order of all locks but those taken draw by draw.
RowLess(a, b) == LockRank[a[1]] < LockRank[b[1]] \/ (a[1] = b[1] /\ a[2] < b[2])

\* The tables of the rows an operation locks first.
FirstTables(o) ==
    IF o.op = "updateDeposit" THEN {"deposit"} ELSE IF o.op = "voidInvoice" THEN {"invoice"} ELSE {"deposit", "payment"}

\* What a request holds comes before what it still has to lock.
InOrder(q) ==
    /\ q.st = "first" => \A row \in q.held \cup RowsIn(q.queue) : row[1] \in FirstTables(q.op)
    /\ q.st = "first" \/ (q.st = "second" /\ ~LocksByDraw(q.op)) =>
          \A w \in q.queue : w.turn = q.op.p /\ \A row \in q.held : RowLess(row, RowOf(w))
OrderInv == \A q \in {req[r] : r \in Requests} : InOrder(q)

LEMMA Ranks == LockRank["deposit"] = 1 /\ LockRank["payment"] = 2 /\ LockRank["invoice"] = 3
BY DEF LockRank

LEMMA RowsAre ==
    ASSUME NEW t, NEW ids, NEW u, NEW w \in Rows(t, ids, u)
    PROVE  w.table = t /\ w.turn = u /\ RowOf(w)[1] = t
BY DEF Rows, RowOf

LEMMA FirstTurns ==
    ASSUME NEW o \in Ops, NEW w \in FirstLocks(o)
    PROVE  w.turn = o.p /\ RowOf(w)[1] \in FirstTables(o)
<1>1. CASE o.op \in Scoped
  <2>1. w \in Rows("deposit", LiveDepositsFor(o.p), o.p) \cup Rows("payment", ScopeOf(o.p) \cup Extra(o), o.p)
    BY <1>1 DEF FirstLocks, Scoped
  <2> QED
    BY <1>1, <2>1, RowsAre DEF FirstTables, Scoped
<1>2. CASE o.op \in {"receive", "applyCredit", "refund", "createDeposit"}
  <2>1. PICK ids : w \in Rows("payment", ids, o.p)
    BY <1>2 DEF FirstLocks, Scoped
  <2> QED
    BY <1>2, <2>1, RowsAre DEF FirstTables
<1>3. CASE o.op \in {"updateDeposit", "voidDeposit"}
  <2>1. w \in Rows("deposit", {o.d}, o.p)
    BY <1>3 DEF FirstLocks, Scoped
  <2> QED
    BY <1>3, <2>1, RowsAre DEF FirstTables
<1>4. CASE o.op = "voidInvoice"
  <2>1. w \in Rows("invoice", {o.i}, o.p)
    BY <1>4 DEF FirstLocks, Scoped
  <2> QED
    BY <1>4, <2>1, RowsAre DEF FirstTables
<1> QED
  BY <1>1, <1>2, <1>3, <1>4, OpIs DEF OnPayment

LEMMA SecondTurns ==
    ASSUME NEW o \in Ops, NEW w \in SecondLocks(o), ~LocksByDraw(o), NEW row, row[1] \in FirstTables(o)
    PROVE  w.turn = o.p /\ RowLess(row, RowOf(w))
<1>1. CASE o.op = "voidPayment"
  <2>1. DrawsInside(o.p) = {}
    BY <1>1 DEF LocksByDraw
  <2>2. w \in DrawLocks(o.p) \cup Rows("invoice", InvoicesOf(RowsOf({o.p})), o.p) /\ DrawLocks(o.p) = {}
    BY <1>1, <2>1 DEF SecondLocks, VoidLocks, DrawLocks
  <2>3. w \in Rows("invoice", InvoicesOf(RowsOf({o.p})), o.p)
    BY <2>2
  <2> QED
    BY <1>1, <2>3, RowsAre, Ranks DEF FirstTables, RowLess
<1>2. CASE o.op \in {"bounce", "voidBounce", "unapply", "applyCredit", "receive"}
  <2>1. PICK ids : w \in Rows("invoice", ids, o.p)
    BY <1>2 DEF SecondLocks
  <2> QED
    BY <1>2, <2>1, RowsAre, Ranks DEF FirstTables, RowLess
<1>3. CASE o.op = "updateDeposit"
  <2>1. w \in Rows("payment", o.items, o.p)
    BY <1>3 DEF SecondLocks
  <2> QED
    BY <1>3, <2>1, RowsAre, Ranks DEF FirstTables, RowLess
<1>4. CASE o.op \in {"refund", "createDeposit", "voidDeposit", "voidInvoice"}
  BY <1>4 DEF SecondLocks
<1>5. CASE o.op = "updatePayment"
  <2>1. DrawsInside(o.p) = {}
    BY <1>5 DEF LocksByDraw
  <2>2. PICK ids : w \in DrawLocks(o.p) \cup Rows("invoice", ids, o.p)
    BY <1>5 DEF SecondLocks, UpdateLocks
  <2>3. w \in Rows("invoice", ids, o.p)
    BY <2>1, <2>2 DEF DrawLocks
  <2> QED
    BY <1>5, <2>3, RowsAre, Ranks DEF FirstTables, RowLess
<1> QED
  BY <1>1, <1>2, <1>3, <1>4, <1>5, OpIs DEF OnPayment, Scoped

\* SELECT ... FOR UPDATE with ORDER BY id: the next row is before those left.
LEMMA LockOrdered ==
    ASSUME NEW q, RequestShape(q), InOrder(q), NEW w \in q.queue,
           \A v \in q.queue \ {w} : Before(q.op, w, v),
           NEW n, n = [q EXCEPT !.queue = @ \ {w}, !.held = @ \cup {RowOf(w)}]
    PROVE  InOrder(n)
<1>1. /\ n.st = q.st /\ n.op = q.op
      /\ n.queue = q.queue \ {w} /\ n.held = q.held \cup {RowOf(w)}
  BY DEF RequestShape
<1>2. n.held \cup RowsIn(n.queue) = q.held \cup RowsIn(q.queue)
  BY <1>1 DEF RowsIn
<1>3. ASSUME q.st = "first" \/ (q.st = "second" /\ ~LocksByDraw(q.op)), NEW v \in n.queue
      PROVE  v.turn = q.op.p /\ \A row \in n.held : RowLess(row, RowOf(v))
  <2>1. v \in q.queue \ {w} /\ v.turn = q.op.p /\ w.turn = q.op.p /\ \A row \in q.held : RowLess(row, RowOf(v))
    BY <1>1, <1>3 DEF InOrder
  <2>2. Before(q.op, w, v)
    BY <2>1
  <2>3. RowLess(RowOf(w), RowOf(v))
    BY <2>1, <2>2 DEF Before, RowLess, RowOf
  <2> QED
    BY <1>1, <2>1, <2>3
<1> QED
  BY <1>1, <1>2, <1>3 DEF InOrder

LEMMA LinksOrdered ==
    ASSUME NEW q, RequestShape(q), q.op \in Ops, InOrder(q), q.st = "first",
           NEW n, n = [q EXCEPT !.st = "second", !.queue = SecondLocks(q.op), !.effect = EffectRead(q)]
    PROVE  InOrder(n)
<1>1. n.st = "second" /\ n.op = q.op /\ n.queue = SecondLocks(q.op) /\ n.held = q.held
  BY DEF RequestShape
<1>2. \A row \in q.held : row[1] \in FirstTables(q.op)
  BY DEF InOrder
<1>3. ASSUME ~LocksByDraw(q.op), NEW w \in SecondLocks(q.op)
      PROVE  w.turn = q.op.p /\ \A row \in q.held : RowLess(row, RowOf(w))
  <2>1. PICK row : row = <<IF q.op.op = "voidInvoice" THEN "invoice" ELSE "deposit", 0>>
    OBVIOUS
  <2>2. row[1] \in FirstTables(q.op)
    BY <2>1 DEF FirstTables
  <2> QED
    BY <1>2, <1>3, <2>2, SecondTurns
<1> QED
  BY <1>1, <1>3 DEF InOrder

\* Whether draws are inside the payment a request voids or edits is settled once its
\* links are locked.
LEMMA ByDrawStays ==
    ASSUME TablesInv, NEW q, Good(q), q.st = "second", LeavesAlone(q)
    PROVE  LocksByDraw(q.op)' <=> LocksByDraw(q.op)
<1>1. PICK o, H : o = q.op /\ H = Hand(q)
  OBVIOUS
<1>2. o \in Ops /\ RowsUsed(q) /\ ReadStands(q)
  BY <1>1, InMenu DEF Good
<1>3. \A row \in Named(o) : InUseId(row)
  BY <1>1, <1>2, UsedMeans DEF RowsUsed
<1>4. Holds(H, FirstLocks(o)) /\ NewIds(o) \subseteq H
  <2>1. Holds(q.held, FirstLocks(o)) /\ q.held \subseteq H /\ NewIds(o) \subseteq H
    BY <1>1, <1>2 DEF ReadStands, Hand
  <2> QED
    BY <2>1, HoldsMore
<1>5. CASE o.op \in {"voidPayment", "updatePayment"}
  <2>1. o.p \in PaymentsIn(H) /\ ScopeOf(o.p) \subseteq PaymentsIn(H)
    BY <1>2, <1>3, <1>4, <1>5, FirstInHand DEF TablesInv, Scoped
  <2>2. DrawsInside(o.p) \subseteq PaymentsIn(H)
    BY <1>2, <1>5, <2>1, InScope, OpIs DEF TablesInv, OnPayment, Scoped
  <2>3. PICK P, D, I : P = PaymentsIn(H) /\ D = DepositsIn(H) /\ I = InvoicesIn(H)
    OBVIOUS
  <2>4. Undisturbed(P, D, I) /\ o.p \in P /\ DrawsInside(o.p) \subseteq P
    BY <1>1, <2>1, <2>2, <2>3 DEF LeavesAlone
  <2>5. DrawsInside(o.p)' = DrawsInside(o.p)
    BY <2>4, DrawsStay DEF TablesInv
  <2> QED
    BY <1>1, <2>5 DEF LocksByDraw
<1>6. CASE o.op \notin {"voidPayment", "updatePayment"}
  BY <1>1, <1>6 DEF LocksByDraw
<1> QED
  BY <1>5, <1>6

LEMMA OrderStays ==
    ASSUME NEW q, InOrder(q), q.st = "second" => (LocksByDraw(q.op)' <=> LocksByDraw(q.op))
    PROVE  InOrder(q)'
BY DEF InOrder

LEMMA OrderReplaced ==
    ASSUME LockInv, OrderInv, NEW r \in Requests, NEW n, NEW f, f = req, req' = [f EXCEPT ![r] = n],
           InOrder(n)', \A s \in Requests \ {r} : f[s].st = "second" => (LocksByDraw(f[s].op)' <=> LocksByDraw(f[s].op))
    PROVE  OrderInv'
<1>1. DOMAIN f = Requests
  BY DEF LockInv
<1>2. req'[r] = n /\ \A s \in Requests \ {r} : req'[s] = f[s]
  BY <1>1
<1>3. ASSUME NEW s \in Requests \ {r}
      PROVE  InOrder(f[s])'
  <2>1. PICK q : q = f[s]
    OBVIOUS
  <2>2. InOrder(q) /\ (q.st = "second" => (LocksByDraw(q.op)' <=> LocksByDraw(q.op)))
    BY <2>1 DEF OrderInv
  <2> QED
    BY <2>1, <2>2, OrderStays
<1>4. \A q \in {req'[s] : s \in Requests} : InOrder(q)'
  BY <1>2, <1>3
<1> QED
  BY <1>4 DEF OrderInv

LEMMA IdleOrdered == InOrder(Idle)
BY DEF InOrder, Idle

LEMMA OrderNext ==
    ASSUME TablesInv, LockInv, OrderInv, [LocksNext]_lvars
    PROVE  OrderInv'
<1>1. PICK f : f = req
  OBVIOUS
<1>2. \A s \in Requests : Good(f[s]) /\ RequestShape(f[s]) /\ InOrder(f[s])
  BY <1>1 DEF LockInv, OrderInv, Good
<1>3. ASSUME UNCHANGED vars
      PROVE  \A o : LocksByDraw(o)' <=> LocksByDraw(o)
  BY <1>3 DEF vars, LocksByDraw, DrawsInside, IsKind, Posted
<1>4. ASSUME UNCHANGED vars, NEW r \in Requests, NEW n, req' = [f EXCEPT ![r] = n], InOrder(n)
      PROVE  OrderInv'
  <2>1. InOrder(n)'
    BY <1>3, <1>4, OrderStays
  <2> QED
    BY <1>1, <1>3, <1>4, <2>1, OrderReplaced
<1>5. ASSUME NEW r \in Requests, NEW o \in Menu, Begin(r, o)
      PROVE  OrderInv'
  <2>1. PICK n : n = [st |-> "first", op |-> o, ret |-> IF o.op = "voidBounce" THEN returns[o.p] ELSE 0,
                      queue |-> FirstLocks(o), held |-> {}, effect |-> Nothing]
    OBVIOUS
  <2>2. req' = [f EXCEPT ![r] = n] /\ UNCHANGED vars
    BY <1>1, <1>5, <2>1 DEF Begin
  <2>3. o \in Ops
    BY LocksAssumption
  <2>4. InOrder(n)
    BY <2>1, <2>3, FirstTurns DEF InOrder, RowsIn
  <2> QED
    BY <1>4, <2>2, <2>4
<1>6. ASSUME NEW r \in Requests, Lock(r)
      PROVE  OrderInv'
  <2>1. PICK w \in NextRows(r) :
            /\ req' = [req EXCEPT ![r].queue = @ \ {w}, ![r].held = @ \cup {RowOf(w)}]
            /\ UNCHANGED vars
    BY <1>6 DEF Lock
  <2>2. PICK q : q = f[r]
    OBVIOUS
  <2>3. PICK n : n = [q EXCEPT !.queue = @ \ {w}, !.held = @ \cup {RowOf(w)}]
    OBVIOUS
  <2>4. w \in q.queue /\ \A v \in q.queue \ {w} : Before(q.op, w, v)
    BY <1>1, <2>2 DEF NextRows
  <2>5. InOrder(n)
    BY <1>2, <2>2, <2>3, <2>4, LockOrdered
  <2>6. req' = [f EXCEPT ![r] = n]
    BY <1>1, <2>1, <2>2, <2>3
  <2> QED
    BY <1>4, <2>1, <2>5, <2>6
<1>7. ASSUME NEW r \in Requests, CheckLinks(r)
      PROVE  OrderInv'
  <2>1. PICK q : q = f[r]
    OBVIOUS
  <2>2. PICK n : n = [q EXCEPT !.st = "second", !.queue = SecondLocks(q.op), !.effect = EffectRead(q)]
    OBVIOUS
  <2>3. q.st = "first" /\ req' = [f EXCEPT ![r] = n] /\ UNCHANGED vars
    BY <1>1, <1>7, <2>1, <2>2 DEF CheckLinks, Locked
  <2>4. InOrder(n)
    BY <1>2, <2>1, <2>2, <2>3, InMenu, LinksOrdered
  <2> QED
    BY <1>4, <2>3, <2>4
<1>8. ASSUME NEW r \in Requests, CheckInvoices(r)
      PROVE  OrderInv'
  <2>1. PICK n : n = [f[r] EXCEPT !.st = "commit", !.effect = EffectReadLater(f[r])]
    OBVIOUS
  <2>2. req' = [f EXCEPT ![r] = n] /\ UNCHANGED vars
    BY <1>1, <1>8, <2>1 DEF CheckInvoices
  <2>3. n.st = "commit"
    BY <1>2, <2>1 DEF RequestShape
  <2>4. InOrder(n)
    BY <2>3 DEF InOrder
  <2> QED
    BY <1>4, <2>2, <2>4
<1>9. ASSUME NEW r \in Requests, Refuse(r) \/ DeadlockAbort(r)
      PROVE  OrderInv'
  <2>1. req' = [f EXCEPT ![r] = Idle] /\ UNCHANGED vars
    BY <1>1, <1>9 DEF Refuse, DeadlockAbort
  <2> QED
    BY <1>4, <2>1, IdleOrdered
<1>10. ASSUME NEW r \in Requests, CommitStep(r)
       PROVE  OrderInv'
  <2>1. req[r].st = "commit" /\ Commit(req[r].effect) /\ req' = [f EXCEPT ![r] = Idle]
    BY <1>1, <1>10 DEF CommitStep
  <2>2. \A s \in Requests : s # r /\ f[s].st # "idle" => LeavesAlone(f[s])
    BY <1>1, <2>1, CommitApart
  <2>3. ASSUME NEW s \in Requests \ {r}, f[s].st = "second"
        PROVE  LocksByDraw(f[s].op)' <=> LocksByDraw(f[s].op)
    BY <1>2, <2>2, <2>3, ByDrawStays
  <2>4. InOrder(Idle)'
    BY DEF InOrder, Idle
  <2> QED
    BY <1>1, <2>1, <2>3, <2>4, OrderReplaced
<1>11. CASE UNCHANGED lvars
  <2>1. UNCHANGED vars /\ req' = f
    BY <1>1, <1>11 DEF lvars
  <2>2. ASSUME NEW s \in Requests
        PROVE  InOrder(f[s])'
    BY <1>2, <1>3, <2>1, OrderStays
  <2>3. \A q \in {req'[s] : s \in Requests} : InOrder(q)'
    BY <2>1, <2>2
  <2> QED
    BY <2>3 DEF OrderInv
<1> QED
  BY <1>5, <1>6, <1>7, <1>8, <1>9, <1>10, <1>11 DEF LocksNext

\* Two requests that wait on each other.
LEMMA OrderBreaksTies ==
    ASSUME LockInv, OrderInv
    PROVE  OneLockOrder
<1>1. SUFFICES ASSUME NEW r \in Requests, NEW s \in Requests, s \in WaitsFor(r), r \in WaitsFor(s),
                      ~LocksByDraw(req[r].op), ~LocksByDraw(req[s].op)
               PROVE  FALSE
  BY DEF OneLockOrder, LocksByDraw
<1>2. ASSUME NEW x \in Requests, NEW y \in Requests, y \in WaitsFor(x), ~LocksByDraw(req[x].op)
      PROVE  \E w : /\ RowOf(w) \in req[y].held
                    /\ \A row \in req[x].held : RowLess(row, RowOf(w))
  <2>1. PICK w \in NextRows(x) : y \in Holder(RowOf(w))
    BY <1>2 DEF WaitsFor
  <2>2. w \in req[x].queue /\ RowOf(w) \in req[y].held
    BY <2>1 DEF NextRows, Holder
  <2>3. Good(req[x]) /\ InOrder(req[x])
    BY DEF LockInv, OrderInv
  <2>4. req[x].st \in {"first", "second"}
    BY <2>2, <2>3 DEF Good, RequestShape, ReadStands, Idle
  <2> QED
    BY <1>2, <2>2, <2>3, <2>4 DEF InOrder
<1>3. PICK v : RowOf(v) \in req[s].held /\ \A row \in req[r].held : RowLess(row, RowOf(v))
  BY <1>1, <1>2
<1>4. PICK w : RowOf(w) \in req[r].held /\ \A row \in req[s].held : RowLess(row, RowOf(w))
  BY <1>1, <1>2
<1>5. PICK a, b : a = RowOf(v) /\ b = RowOf(w)
  OBVIOUS
<1>6. RowLess(a, b) /\ RowLess(b, a)
  BY <1>3, <1>4, <1>5
<1>7. a \in UsedRows /\ b \in UsedRows
  <2>1. \A x \in Requests : Good(req[x])
    BY DEF LockInv
  <2>2. \A x \in Requests : req[x].held \subseteq UsedRows
    BY <2>1 DEF Good, RowsUsed, RequestShape, Idle
  <2> QED
    BY <1>3, <1>4, <1>5, <2>2
<1>8. \A row \in UsedRows : row[1] \in {"deposit", "payment", "invoice"} /\ row[2] \in Nat
  BY LocksAssumption DEF UsedRows
<1>9. LockRank[a[1]] \in Nat /\ LockRank[b[1]] \in Nat /\ a[2] \in Nat /\ b[2] \in Nat
  BY <1>7, <1>8, Ranks
<1>10. a[1] = b[1] => LockRank[a[1]] = LockRank[b[1]]
  OBVIOUS
<1> QED
  BY <1>6, <1>9, <1>10 DEF RowLess

\* Of two requests that wait on each other one voids or edits a receipt with draws
\* made inside it; every other write locks deposits, payments, invoices, each by id
\* (E-B1), for any number of requests, payments, deposits and invoices.
THEOREM LockOrder == TablesInv /\ LocksSpec => []OneLockOrder
<1>1. LocksInit => OrderInv
  <2>1. LocksInit => \A q \in {req[r] : r \in Requests} : q = Idle
    BY DEF LocksInit
  <2> QED
    BY <2>1, IdleOrdered DEF OrderInv
<1>2. (TablesInv /\ LockInv) /\ OrderInv /\ [LocksNext]_lvars => OrderInv'
  BY OrderNext
<1>3. (TablesInv /\ LockInv) /\ OrderInv => OneLockOrder
  BY OrderBreaksTies
<1> QED
  BY <1>1, <1>2, <1>3, LocksInvariant, PTL DEF LocksSpec
=============================================================================
