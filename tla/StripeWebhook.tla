--------------------------- MODULE StripeWebhook ---------------------------
(***************************************************************************)
(* Online payments of invoices (services/stripe.service.ts,                *)
(* routes/stripe-webhook.routes.ts).                                       *)
(*                                                                         *)
(* Stripe reports a charge with one event and sends it again until it is   *)
(* answered 2xx, to every configured endpoint: several deliveries of one   *)
(* event may be at work together.  A delivery claims the event by          *)
(* inserting its id in stripe_webhook_log, commits that, and then goes     *)
(* through reads, one posting transaction and two more writes, each        *)
(* committed by itself.  The process can die between any two of them.      *)
(*                                                                         *)
(* The company has its Stripe keys and its Payments Clearing account.      *)
(* Refund events and failed payments post nothing to an invoice; they are  *)
(* left out.  Amounts are cents.                                           *)
(***************************************************************************)
EXTENDS Naturals, FiniteSets

CONSTANTS
    Charges,      \* payment intents, each with the one event that reports it
    Invoices,
    Handlers,     \* webhook requests the server works on at a time
    InvoiceTotal, \* the total of an invoice
    MaxAmount,    \* bound: the largest amount a customer is charged
    MaxFaults,    \* bound: deliveries that end without an answer
    MaxRepeats,   \* bound: deliveries of an event that was answered
    None

ASSUME StripeConstants ==
    /\ InvoiceTotal \in Nat \ {0} /\ MaxAmount \in Nat
    /\ MaxFaults \in Nat /\ MaxRepeats \in Nat
    /\ None \notin Charges

VARIABLES
    intent,   \* the payment intents at Stripe
    answered, \* the events Stripe has an answer for
    invoice,  \* invoice rows: status and balance due
    log,      \* the row of stripe_webhook_log of each event
    receipts, \* how many customer payments were posted for a charge
    stamped,  \* charges some payment row names (stripe_payment_intent_id)
    handler,  \* the delivery a request is on, and what it has read
    faults, repeats

vars == <<intent, answered, invoice, log, receipts, stamped, handler, faults, repeats>>
stripe == <<intent, answered, faults, repeats>>
books == <<invoice, receipts, stamped>>

Idle == [st |-> "idle", c |-> None, payable |-> 0]
NoIntent == [st |-> "none", inv |-> None, amt |-> 0]

Init ==
    /\ intent = [c \in Charges |-> NoIntent]
    /\ answered = {}
    /\ invoice = [i \in Invoices |-> [st |-> "posted", balance |-> InvoiceTotal]]
    /\ log = [c \in Charges |-> "none"]
    /\ receipts = [c \in Charges |-> 0]
    /\ stamped = {}
    /\ handler = [h \in Handlers |-> Idle]
    /\ faults = 0 /\ repeats = 0

-----------------------------------------------------------------------------
(* The customer and Stripe.                                                 *)

At(h, st) == handler[h].st = st
Paid(i) == invoice[i].st = "posted" /\ invoice[i].balance = 0
Payable(i) == IF invoice[i].st = "posted" THEN invoice[i].balance ELSE 0

\* A cent more than the balance due is let through.
CreateIntent(c, i, amt) ==
    /\ intent[c] = NoIntent
    /\ invoice[i].st = "posted" /\ invoice[i].balance > 0
    /\ amt > 0 /\ amt <= invoice[i].balance + 1
    /\ intent' = [intent EXCEPT ![c] = [st |-> "created", inv |-> i, amt |-> amt]]
    /\ UNCHANGED <<answered, books, log, handler, faults, repeats>>

\* The customer confirms the payment, whatever became of the invoice.
Succeed(c) ==
    /\ intent[c].st = "created"
    /\ intent' = [intent EXCEPT ![c].st = "charged"]
    /\ UNCHANGED <<answered, books, log, handler, faults, repeats>>

\* Stripe sends the event of c: until it is answered, and now and then again.
Deliver(h, c) ==
    /\ At(h, "idle") /\ intent[c].st = "charged"
    /\ c \in answered => repeats < MaxRepeats
    /\ repeats' = IF c \in answered THEN repeats + 1 ELSE repeats
    /\ handler' = [handler EXCEPT ![h] = [Idle EXCEPT !.st = "check", !.c = c]]
    /\ UNCHANGED <<intent, answered, books, log, faults>>

-----------------------------------------------------------------------------
(* A delivery, one committed statement or transaction at a time.            *)

Go(h, st) == handler' = [handler EXCEPT ![h].st = st]

\* Mutant: an event another delivery has claimed is refused, for a later retry.
AnswerLater(h) ==
    LET c == handler[h].c
    IN /\ handler' = [handler EXCEPT ![h] = Idle]
       /\ answered' = IF log[c] = "claimed" /\ handler[h].st \in {"check", "claim"} THEN answered ELSE answered \cup {c}
       /\ UNCHANGED <<intent, faults, repeats>>
\* 200: the request ends.
Answer(h) ==
    /\ handler' = [handler EXCEPT ![h] = Idle]
    /\ answered' = answered \cup {handler[h].c}
    /\ UNCHANGED <<intent, faults, repeats>>

\* The SELECT before the INSERT.
PreCheck(h) ==
    /\ At(h, "check")
    /\ IF log[handler[h].c] = "none" THEN Go(h, "claim") /\ UNCHANGED stripe ELSE Answer(h)
    /\ UNCHANGED <<books, log>>

\* Mutant: the INSERT ignores a conflict.
ClaimableTwice(c) == TRUE
Claimable(c) == log[c] = "none"
\* event_id is unique: of two deliveries one gets 23505.
Claim(h) ==
    LET c == handler[h].c
    IN /\ At(h, "claim")
       /\ IF Claimable(c)
          THEN log' = [log EXCEPT ![c] = "claimed"] /\ Go(h, "read") /\ UNCHANGED stripe
          ELSE Answer(h) /\ UNCHANGED log
       /\ UNCHANGED books

\* The invoice, without a lock.
ReadInvoice(h) ==
    LET i == intent[handler[h].c].inv
    IN /\ At(h, "read")
       /\ handler' = [handler EXCEPT ![h].st = IF Paid(i) THEN "done" ELSE "find", ![h].payable = Payable(i)]
       /\ UNCHANGED <<stripe, books, log>>

\* Whether a payment names this intent; then Stripe is asked for the amount.
FindPayment(h) ==
    /\ At(h, "find")
    /\ Go(h, IF handler[h].c \in stamped THEN "done" ELSE "post")
    /\ UNCHANGED <<stripe, books, log>>

Smaller(m, n) == IF m < n THEN m ELSE n
\* What the receipt settles of the invoice; the rest stays a credit.
AppliedOf(h) == Smaller(intent[handler[h].c].amt, handler[h].payable)

\* Mutant: the balance read before is trusted.
FitsAsRead(h) == AppliedOf(h) <= handler[h].payable
\* receivePayment: refused when the invoice takes less now than was read.
Fits(h) == AppliedOf(h) <= Payable(intent[handler[h].c].inv)
Post(h) ==
    LET c == handler[h].c
    IN /\ At(h, "post")
       /\ IF Fits(h)
          THEN /\ receipts' = [receipts EXCEPT ![c] = @ + 1]
               /\ invoice' = [invoice EXCEPT ![intent[c].inv].balance = @ - AppliedOf(h)]
               /\ Go(h, "stamp")
          ELSE Go(h, "error") /\ UNCHANGED <<receipts, invoice>>
       /\ UNCHANGED <<stripe, stamped, log>>

Stamp(h) ==
    /\ At(h, "stamp") /\ Go(h, "done")
    /\ stamped' = stamped \cup {handler[h].c}
    /\ UNCHANGED <<stripe, invoice, receipts, log>>

\* Anything thrown once the event is claimed: Stripe's API, the posting, ...
Fail(h) ==
    /\ handler[h].st \in {"read", "find", "post", "stamp", "done"} /\ Go(h, "error")
    /\ UNCHANGED <<stripe, books, log>>

\* Mutant: the error is only logged.
MarkProcessed(h) == "processed"
Mark(h) == IF At(h, "done") THEN "processed" ELSE "failed"
\* The row is marked processed, with the error if there was one: 200 both ways.
Finish(h) ==
    /\ handler[h].st \in {"done", "error"}
    /\ log' = [log EXCEPT ![handler[h].c] = Mark(h)]
    /\ Answer(h) /\ UNCHANGED books

\* The process dies or its database is out of reach: no answer, or a 5xx.
Fault(h) ==
    /\ ~At(h, "idle") /\ faults < MaxFaults
    /\ faults' = faults + 1
    /\ handler' = [handler EXCEPT ![h] = Idle]
    /\ UNCHANGED <<intent, answered, repeats, books, log>>

-----------------------------------------------------------------------------
(* What the bookkeeper does with the invoice meanwhile.                     *)

ReceiveOther(i, x) ==
    /\ x > 0 /\ x <= Payable(i)
    /\ invoice' = [invoice EXCEPT ![i].balance = @ - x]
    /\ UNCHANGED <<stripe, receipts, stamped, log, handler>>

VoidInvoice(i) ==
    /\ invoice[i].st = "posted" /\ invoice[i].balance = InvoiceTotal
    /\ invoice' = [invoice EXCEPT ![i].st = "void"]
    /\ UNCHANGED <<stripe, receipts, stamped, log, handler>>

-----------------------------------------------------------------------------
Work(h) == PreCheck(h) \/ Claim(h) \/ ReadInvoice(h) \/ FindPayment(h) \/ Post(h) \/ Stamp(h) \/ Finish(h)

Next ==
    \/ \E c \in Charges : \/ \E i \in Invoices, amt \in 1 .. MaxAmount : CreateIntent(c, i, amt)
                          \/ Succeed(c)
                          \/ \E h \in Handlers : Deliver(h, c)
    \/ \E h \in Handlers : Work(h) \/ Fail(h) \/ Fault(h)
    \/ \E i \in Invoices : VoidInvoice(i) \/ \E x \in 1 .. InvoiceTotal : ReceiveOther(i, x)

Spec == Init /\ [][Next]_vars

\* Stripe retries an event that is not answered; a request that is running runs on.
Retry(c) == c \notin answered /\ \E h \in Handlers : Deliver(h, c)
FairSpec == Spec /\ (\A h \in Handlers : WF_vars(Work(h))) /\ (\A c \in Charges : WF_vars(Retry(c)))

-----------------------------------------------------------------------------
(* Properties.                                                              *)

Stages == {"idle", "check", "claim", "read", "find", "post", "stamp", "done", "error"}

\* Type correctness; the row of an event is written only once it is claimed.
StripeTypeOK ==
    /\ intent \in [Charges -> [st : {"none", "created", "charged"}, inv : Invoices \cup {None}, amt : Nat]]
    /\ answered \subseteq Charges /\ stamped \subseteq Charges
    /\ invoice \in [Invoices -> [st : {"posted", "void"}, balance : Nat]]
    /\ log \in [Charges -> {"none", "claimed", "processed", "failed"}]
    /\ receipts \in [Charges -> Nat]
    /\ handler \in [Handlers -> [st : Stages, c : Charges \cup {None}, payable : Nat]]
    /\ faults \in Nat /\ repeats \in Nat

\* However often Stripe sends an event, to whichever endpoints at once, and
\* wherever the process dies, the charge is posted at most once.
RecordedOnce == \A c \in Charges : receipts[c] <= 1

\* A charge whose event was answered and that is in no receipt has left a
\* trace, an error or a row never marked processed; or its invoice was paid
\* by then.  (Nothing reopens a paid invoice here.)
LossIsVisible ==
    \A c \in answered : receipts[c] = 0 => log[c] \in {"claimed", "failed"} \/ Paid(intent[c].inv)

\* "The customer was charged already, so this path never refuses": an event
\* marked processed without an error is in the books.
ChargeIsBooked == \A c \in Charges : log[c] = "processed" => receipts[c] > 0

\* Stripe gets its answer: no order of claims and faults keeps an event
\* coming back for good.
EventAnswered == \A c \in Charges : intent[c].st = "charged" ~> c \in answered
=============================================================================
