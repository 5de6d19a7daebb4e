------------------------ MODULE StripeWebhookProofs ------------------------
(***************************************************************************)
(* Proofs about StripeWebhook, for any number of charges, invoices and     *)
(* deliveries, amounts, faults and repeats.                                *)
(*                                                                         *)
(* RecordedOnce rests on the row of stripe_webhook_log: at most one        *)
(* delivery ever gets past the INSERT (Sole), and until it posts nothing   *)
(* is posted (Unposted).  LossIsVisible adds what an event marked          *)
(* processed, or about to be, says of its charge (Accounted).              *)
(***************************************************************************)
EXTENDS StripeWebhook, TLAPS

Claimed == {"read", "find", "post", "stamp", "done", "error"}
HasClaim(h) == handler[h].st \in Claimed
BooksKnow(c) == receipts[c] > 0 \/ Paid(intent[c].inv)

\* A request at work is on a charge that succeeded, of an invoice.
Grounded ==
    /\ \A c \in Charges : intent[c].st # "none" => intent[c].inv \in Invoices
    /\ \A h \in Handlers : handler[h].st # "idle" => handler[h].c \in Charges /\ intent[handler[h].c].st = "charged"

\* One delivery of an event gets past the INSERT.
Sole ==
    /\ \A h \in Handlers : HasClaim(h) => log[handler[h].c] = "claimed"
    /\ \A g, h \in Handlers : HasClaim(g) /\ HasClaim(h) /\ handler[g].c = handler[h].c => g = h

\* Nothing is posted before the claim, nor by a delivery that is yet to post.
Unposted ==
    /\ \A c \in Charges : log[c] = "none" => receipts[c] = 0
    /\ \A h \in Handlers : handler[h].st \in {"read", "find", "post"} => receipts[handler[h].c] = 0

\* A payment row that names a charge, a delivery that is done, and a processed
\* row mean that the books know of the charge.
Accounted ==
    /\ \A c \in stamped : receipts[c] > 0
    /\ \A h \in Handlers : handler[h].st = "stamp" => receipts[handler[h].c] > 0
    /\ \A h \in Handlers : handler[h].st = "done" => BooksKnow(handler[h].c)
    /\ \A c \in Charges : log[c] = "processed" => BooksKnow(c)
    /\ \A c \in answered : log[c] # "none"
    /\ \A c \in Charges : log[c] # "none" => intent[c].st = "charged"

SInv == StripeTypeOK /\ Grounded /\ Sole /\ Unposted /\ RecordedOnce /\ Accounted

-----------------------------------------------------------------------------
(* Types.                                                                   *)

HandlerRow == [st : Stages, c : Charges \cup {None}, payable : Nat]
InvoiceRow == [st : {"posted", "void"}, balance : Nat]
IntentRow == [st : {"none", "created", "charged"}, inv : Invoices \cup {None}, amt : Nat]

\* Moving on to another stage keeps the request's row well formed.
LEMMA GoType ==
    ASSUME StripeTypeOK, NEW h \in Handlers, NEW st \in Stages, Go(h, st)
    PROVE  handler' \in [Handlers -> HandlerRow]
BY DEF StripeTypeOK, Go, HandlerRow

\* So does the end of it.
LEMMA IdleType == Idle \in HandlerRow
BY DEF Idle, HandlerRow, Stages

\* An answer ends the request and adds its event to those answered.
LEMMA AnswerType ==
    ASSUME StripeTypeOK, Grounded, NEW h \in Handlers, Answer(h), handler[h].st # "idle"
    PROVE  handler' \in [Handlers -> HandlerRow] /\ answered' \subseteq Charges /\ intent' = intent
BY IdleType DEF StripeTypeOK, Grounded, Answer, HandlerRow

\* What a delivery applies is no more than was charged, and is an amount.
LEMMA AppliedType ==
    ASSUME StripeTypeOK, Grounded, NEW h \in Handlers, handler[h].st # "idle"
    PROVE  AppliedOf(h) \in Nat /\ Payable(intent[handler[h].c].inv) \in Nat
<1>1. /\ handler[h].c \in Charges /\ handler[h].payable \in Nat
      /\ intent[handler[h].c].inv \in Invoices /\ intent[handler[h].c].amt \in Nat
  BY DEF StripeTypeOK, Grounded
<1>2. QED
  BY <1>1 DEF StripeTypeOK, AppliedOf, Smaller, Payable

-----------------------------------------------------------------------------
(* The invariant is inductive: one lemma for each conjunct, one step for    *)
(* each action that can disturb it.                                         *)

Turn(h) == Work(h) \/ Fail(h) \/ Fault(h)
Outside ==
    \/ \E c \in Charges : \/ \E i \in Invoices, amt \in 1 .. MaxAmount : CreateIntent(c, i, amt)
                          \/ Succeed(c)
    \/ \E i \in Invoices : VoidInvoice(i) \/ \E x \in 1 .. InvoiceTotal : ReceiveOther(i, x)

\* The next-state relation by who acts.
LEMMA ByActor ==
    [Next]_vars <=> \/ \E h \in Handlers : Turn(h) \/ \E c \in Charges : Deliver(h, c)
                    \/ Outside
                    \/ UNCHANGED vars
BY DEF Next, Turn, Outside

\* Every step keeps the types: no balance is drawn below zero.
LEMMA TypeStep ==
    ASSUME StripeTypeOK, Grounded, [Next]_vars
    PROVE  StripeTypeOK'
<1> USE StripeConstants
<1>1. ASSUME NEW h \in Handlers, Turn(h)
      PROVE  StripeTypeOK'
  <2>1. CASE PreCheck(h)
    <3>1. handler' \in [Handlers -> HandlerRow] /\ answered' \subseteq Charges /\ intent' = intent
      <4>1. CASE Go(h, "claim") /\ UNCHANGED stripe
        BY <4>1, GoType DEF Stages, stripe, StripeTypeOK
      <4>2. CASE Answer(h)
        BY <2>1, <4>2, AnswerType DEF PreCheck, At
      <4>3. QED
        BY <2>1, <4>1, <4>2 DEF PreCheck
    <3>2. QED
      BY <2>1, <3>1 DEF PreCheck, StripeTypeOK, stripe, books, Answer, HandlerRow
  <2>2. CASE Claim(h)
    <3>1. handler' \in [Handlers -> HandlerRow] /\ answered' \subseteq Charges /\ intent' = intent
      <4>1. CASE Go(h, "read") /\ UNCHANGED stripe
        BY <4>1, GoType DEF Stages, stripe, StripeTypeOK
      <4>2. CASE Answer(h)
        BY <2>2, <4>2, AnswerType DEF Claim, At
      <4>3. QED
        BY <2>2, <4>1, <4>2 DEF Claim
    <3>2. log' \in [Charges -> {"none", "claimed", "processed", "failed"}]
      BY <2>2 DEF Claim, StripeTypeOK
    <3>3. QED
      BY <2>2, <3>1, <3>2 DEF Claim, StripeTypeOK, stripe, books, Answer, HandlerRow
  <2>3. CASE ReadInvoice(h)
    <3>1. Payable(intent[handler[h].c].inv) \in Nat
      BY <2>3, AppliedType DEF ReadInvoice, At
    <3>2. PICK st \in {"done", "find"} :
             handler' = [handler EXCEPT ![h].st = st, ![h].payable = Payable(intent[handler[h].c].inv)]
      BY <2>3 DEF ReadInvoice
    <3>3. PICK n \in Nat : n = Payable(intent[handler[h].c].inv)
      BY <3>1
    <3>4. [handler[h] EXCEPT !.st = st, !.payable = n] \in HandlerRow
      <4>1. st \in Stages /\ handler[h] \in HandlerRow
        BY DEF StripeTypeOK, Stages, HandlerRow
      <4>2. PICK row \in HandlerRow : row = handler[h]
        BY <4>1
      <4>3. [row EXCEPT !.st = st, !.payable = n] \in HandlerRow
        BY <4>1 DEF HandlerRow
      <4>4. QED
        BY <4>2, <4>3
    <3>5. handler' = [handler EXCEPT ![h] = [handler[h] EXCEPT !.st = st, !.payable = n]]
      BY <3>2, <3>3 DEF StripeTypeOK
    <3>6. handler' \in [Handlers -> HandlerRow]
      BY <3>4, <3>5 DEF StripeTypeOK, HandlerRow
    <3>7. QED
      BY <2>3, <3>6 DEF ReadInvoice, StripeTypeOK, stripe, books, HandlerRow
  <2>4. CASE FindPayment(h)
    <3>1. handler' \in [Handlers -> HandlerRow]
      BY <2>4, GoType DEF FindPayment, Stages
    <3>2. QED
      BY <2>4, <3>1 DEF FindPayment, StripeTypeOK, stripe, books, HandlerRow
  <2>5. CASE Post(h)
    <3>1. handler' \in [Handlers -> HandlerRow]
      BY <2>5, GoType DEF Post, Stages
    <3>2. /\ handler[h].c \in Charges /\ intent[handler[h].c].inv \in Invoices
          /\ AppliedOf(h) \in Nat /\ Payable(intent[handler[h].c].inv) \in Nat
      BY <2>5, AppliedType DEF Post, At, Grounded, StripeTypeOK
    <3>3. invoice' \in [Invoices -> InvoiceRow]
      <4>1. CASE Fits(h)
        <5>1. invoice[intent[handler[h].c].inv].balance - AppliedOf(h) \in Nat
          BY <3>2, <4>1 DEF Fits, Payable, StripeTypeOK
        <5>2. QED
          BY <2>5, <3>2, <4>1, <5>1 DEF Post, StripeTypeOK, InvoiceRow
      <4>2. CASE ~Fits(h)
        BY <2>5, <4>2 DEF Post, StripeTypeOK, InvoiceRow
      <4>3. QED
        BY <4>1, <4>2
    <3>4. receipts' \in [Charges -> Nat]
      <4>1. receipts[handler[h].c] + 1 \in Nat /\ receipts \in [Charges -> Nat]
        BY <3>2 DEF StripeTypeOK
      <4>2. QED
        BY <2>5, <4>1 DEF Post
    <3>5. QED
      BY <2>5, <3>1, <3>3, <3>4 DEF Post, StripeTypeOK, stripe, HandlerRow, InvoiceRow
  <2>6. CASE Stamp(h)
    <3>1. handler' \in [Handlers -> HandlerRow]
      BY <2>6, GoType DEF Stamp, Stages
    <3>2. QED
      BY <2>6, <3>1 DEF Stamp, At, Grounded, StripeTypeOK, stripe, HandlerRow
  <2>7. CASE Finish(h)
    <3>1. handler' \in [Handlers -> HandlerRow] /\ answered' \subseteq Charges /\ intent' = intent
      BY <2>7, AnswerType DEF Finish
    <3>2. log' \in [Charges -> {"none", "claimed", "processed", "failed"}]
      BY <2>7 DEF Finish, Mark, StripeTypeOK
    <3>3. QED
      BY <2>7, <3>1, <3>2 DEF Finish, Answer, StripeTypeOK, books, HandlerRow
  <2>8. CASE Fail(h)
    <3>1. handler' \in [Handlers -> HandlerRow]
      BY <2>8, GoType DEF Fail, Stages
    <3>2. QED
      BY <2>8, <3>1 DEF Fail, StripeTypeOK, stripe, books, HandlerRow
  <2>9. CASE Fault(h)
    <3>1. handler' \in [Handlers -> HandlerRow]
      BY <2>9, IdleType DEF Fault, StripeTypeOK, HandlerRow
    <3>2. QED
      BY <2>9, <3>1 DEF Fault, StripeTypeOK, stripe, books, HandlerRow
  <2>10. QED
    BY <1>1, <2>1, <2>2, <2>3, <2>4, <2>5, <2>6, <2>7, <2>8, <2>9 DEF Turn, Work
<1>2. ASSUME NEW h \in Handlers, NEW c \in Charges, Deliver(h, c)
      PROVE  StripeTypeOK'
  <2>1. handler' \in [Handlers -> HandlerRow]
    BY <1>2 DEF Deliver, Idle, StripeTypeOK, HandlerRow, Stages
  <2>2. repeats' \in Nat
    BY <1>2 DEF Deliver, StripeTypeOK
  <2>3. QED
    BY <1>2, <2>1, <2>2 DEF Deliver, StripeTypeOK, books, HandlerRow
<1>3. CASE Outside
  <2>1. ASSUME NEW c \in Charges, NEW i \in Invoices, NEW amt \in 1 .. MaxAmount, CreateIntent(c, i, amt)
        PROVE  StripeTypeOK'
    <3>1. intent' \in [Charges -> IntentRow]
      BY <2>1 DEF CreateIntent, StripeTypeOK, IntentRow
    <3>2. QED
      BY <2>1, <3>1 DEF CreateIntent, StripeTypeOK, books, IntentRow
  <2>2. ASSUME NEW c \in Charges, Succeed(c)
        PROVE  StripeTypeOK'
    <3>1. intent' \in [Charges -> IntentRow]
      BY <2>2 DEF Succeed, StripeTypeOK, IntentRow
    <3>2. QED
      BY <2>2, <3>1 DEF Succeed, StripeTypeOK, books, IntentRow
  <2>3. ASSUME NEW i \in Invoices, VoidInvoice(i)
        PROVE  StripeTypeOK'
    BY <2>3 DEF VoidInvoice, StripeTypeOK, stripe
  <2>4. ASSUME NEW i \in Invoices, NEW x \in 1 .. InvoiceTotal, ReceiveOther(i, x)
        PROVE  StripeTypeOK'
    <3>1. invoice[i].balance - x \in Nat
      BY <2>4 DEF ReceiveOther, Payable, StripeTypeOK
    <3>2. invoice' \in [Invoices -> InvoiceRow]
      BY <2>4, <3>1 DEF ReceiveOther, StripeTypeOK, InvoiceRow
    <3>3. QED
      BY <2>4, <3>2 DEF ReceiveOther, StripeTypeOK, stripe, InvoiceRow
  <2>5. QED
    BY <1>3, <2>1, <2>2, <2>3, <2>4 DEF Outside
<1>4. CASE UNCHANGED vars
  BY <1>4 DEF vars, StripeTypeOK
<1>5. QED
  BY <1>1, <1>2, <1>3, <1>4, ByActor

\* What a turn of h leaves alone, and what it does to its own row.
LEMMA TurnFrame ==
    ASSUME SInv, NEW h \in Handlers, Turn(h)
    PROVE  /\ handler[h].st # "idle" /\ handler[h].c \in Charges
           /\ intent' = intent
           /\ handler' = [handler EXCEPT ![h] = handler'[h]]
           /\ handler'[h] = Idle \/ handler'[h].c = handler[h].c
           /\ \A c \in Charges \ {handler[h].c} : log'[c] = log[c] /\ receipts'[c] = receipts[c]
<1>1. handler[h].st # "idle" /\ handler[h].c \in Charges
  BY DEF Turn, Work, PreCheck, Claim, ReadInvoice, FindPayment, Post, Stamp, Finish, Fail, Fault, At, SInv, Grounded, Idle
<1>2. intent' = intent
  BY DEF Turn, Work, PreCheck, Claim, ReadInvoice, FindPayment, Post, Stamp, Finish, Fail, Fault, Answer, stripe
<1>3. /\ handler' = [handler EXCEPT ![h] = handler'[h]]
      /\ handler'[h] = Idle \/ handler'[h].c = handler[h].c
  <2>1. CASE \E st \in Stages : Go(h, st)
    BY <2>1 DEF Go, SInv, StripeTypeOK
  <2>2. CASE Answer(h) \/ Fault(h)
    BY <2>2 DEF Answer, Fault, SInv, StripeTypeOK
  <2>3. CASE ReadInvoice(h)
    <3>1. PICK st \in {"done", "find"} :
             handler' = [handler EXCEPT ![h].st = st, ![h].payable = Payable(intent[handler[h].c].inv)]
      BY <2>3 DEF ReadInvoice
    <3>2. QED
      BY <3>1 DEF SInv, StripeTypeOK
  <2>4. QED
    BY <2>1, <2>2, <2>3 DEF Turn, Work, PreCheck, Claim, FindPayment, Post, Stamp, Finish, Fail, Stages
<1>4. \A c \in Charges \ {handler[h].c} : log'[c] = log[c] /\ receipts'[c] = receipts[c]
  BY <1>1 DEF Turn, Work, PreCheck, Claim, ReadInvoice, FindPayment, Post, Stamp, Finish, Fail, Fault, Answer, stripe, books, SInv, StripeTypeOK
<1>5. QED
  BY <1>1, <1>2, <1>3, <1>4

\* What a turn of h does with the claim of its event and with the books.
LEMMA TurnEffect ==
    ASSUME SInv, NEW h \in Handlers, Turn(h), NEW c \in Charges, c = handler[h].c
    PROVE  /\ HasClaim(h)' => \/ HasClaim(h) /\ log'[c] = log[c]
                              \/ log[c] = "none" /\ log'[c] = "claimed" /\ handler'[h].st = "read"
           /\ ~HasClaim(h) /\ ~HasClaim(h)' => log'[c] = log[c]
           /\ log'[c] # "none" \/ log'[c] = log[c]
           /\ \/ receipts'[c] = receipts[c]
              \/ handler[h].st = "post" /\ receipts'[c] = receipts[c] + 1 /\ handler'[h].st = "stamp"
           /\ handler'[h].st \in {"read", "find", "post"} => handler[h].st \in {"claim", "read", "find"}
           /\ handler[h].st = "claim" /\ handler'[h].st \in {"read", "find", "post"} => log[c] = "none"
<1>1. CASE PreCheck(h)
  BY <1>1 DEF PreCheck, Go, Answer, At, HasClaim, Claimed, SInv, StripeTypeOK, books, Idle
<1>2. CASE Claim(h)
  BY <1>2 DEF Claim, Claimable, Go, Answer, At, HasClaim, Claimed, SInv, StripeTypeOK, books, Idle
<1>3. CASE ReadInvoice(h)
  BY <1>3 DEF ReadInvoice, At, HasClaim, Claimed, SInv, StripeTypeOK, books, Idle
<1>4. CASE FindPayment(h)
  BY <1>4 DEF FindPayment, Go, At, HasClaim, Claimed, SInv, StripeTypeOK, books
<1>5. CASE Post(h)
  BY <1>5 DEF Post, Go, At, HasClaim, Claimed, SInv, StripeTypeOK
<1>6. CASE Stamp(h)
  BY <1>6 DEF Stamp, Go, At, HasClaim, Claimed, SInv, StripeTypeOK
<1>7. CASE Finish(h)
  BY <1>7 DEF Finish, Mark, Answer, At, HasClaim, Claimed, SInv, StripeTypeOK, books, Idle
<1>8. CASE Fail(h)
  BY <1>8 DEF Fail, Go, HasClaim, Claimed, SInv, StripeTypeOK, books
<1>9. CASE Fault(h)
  BY <1>9 DEF Fault, HasClaim, Claimed, SInv, StripeTypeOK, books, Idle
<1>10. QED
  BY <1>1, <1>2, <1>3, <1>4, <1>5, <1>6, <1>7, <1>8, <1>9 DEF Turn, Work

\* A delivery that arrives has no claim.
LEMMA DeliverFrame ==
    ASSUME SInv, NEW h \in Handlers, NEW c \in Charges, Deliver(h, c)
    PROVE  /\ \A g \in Handlers \ {h} : handler'[g] = handler[g]
           /\ handler'[h].st = "check" /\ handler'[h].c = c
           /\ intent' = intent /\ log' = log /\ receipts' = receipts /\ invoice' = invoice
           /\ stamped' = stamped /\ answered' = answered
BY DEF Deliver, books, Idle, SInv, StripeTypeOK

\* Nobody else touches deliveries, the log or the receipts.
LEMMA OutsideFrame ==
    ASSUME Outside \/ UNCHANGED vars
    PROVE  /\ handler' = handler /\ log' = log /\ receipts' = receipts
           /\ stamped' = stamped /\ answered' = answered
BY DEF Outside, CreateIntent, Succeed, VoidInvoice, ReceiveOther, stripe, books, vars

\* No step puts a request at work on anything but a charge that succeeded.
LEMMA GroundedStep ==
    ASSUME SInv, [Next]_vars
    PROVE  Grounded'
<1>1. ASSUME NEW h \in Handlers, Turn(h)
      PROVE  Grounded'
  BY <1>1, TurnFrame DEF Grounded, SInv, Idle, StripeTypeOK
<1>2. ASSUME NEW h \in Handlers, NEW c \in Charges, Deliver(h, c)
      PROVE  Grounded'
  BY <1>2 DEF Deliver, Grounded, SInv, Idle, StripeTypeOK
<1>3. CASE Outside
  <2>1. handler' = handler
    BY <1>3, OutsideFrame
  <2>2. ASSUME NEW c \in Charges, NEW i \in Invoices, NEW amt \in 1 .. MaxAmount, CreateIntent(c, i, amt)
        PROVE  Grounded'
    <3>1. intent[c].st = "none"
      BY <2>2 DEF CreateIntent, NoIntent
    <3>2. intent' = [intent EXCEPT ![c] = [st |-> "created", inv |-> i, amt |-> amt]]
      BY <2>2 DEF CreateIntent
    <3>3. QED
      BY <2>1, <3>1, <3>2 DEF Grounded, SInv, StripeTypeOK
  <2>3. ASSUME NEW c \in Charges, Succeed(c)
        PROVE  Grounded'
    BY <2>1, <2>3 DEF Succeed, Grounded, SInv, StripeTypeOK
  <2>4. CASE intent' = intent
    BY <2>1, <2>4 DEF Grounded, SInv
  <2>5. QED
    BY <1>3, <2>2, <2>3, <2>4 DEF Outside, VoidInvoice, ReceiveOther, stripe
<1>4. CASE UNCHANGED vars
  BY <1>4 DEF vars, Grounded, SInv
<1>5. QED
  BY <1>1, <1>2, <1>3, <1>4, ByActor

\* No step lets a second delivery of an event past the INSERT.
LEMMA SoleStep ==
    ASSUME SInv, [Next]_vars
    PROVE  Sole'
<1>1. ASSUME NEW h \in Handlers, Turn(h)
      PROVE  Sole'
  <2> DEFINE c == handler[h].c
  <2>1. /\ c \in Charges /\ \A g \in Handlers \ {h} : handler'[g] = handler[g]
        /\ handler'[h] = Idle \/ handler'[h].c = c
        /\ \A x \in Charges \ {c} : log'[x] = log[x]
    BY <1>1, TurnFrame DEF SInv, StripeTypeOK
  <2>2. /\ HasClaim(h)' => \/ HasClaim(h) /\ log'[c] = log[c]
                           \/ log[c] = "none" /\ log'[c] = "claimed" /\ handler'[h].st = "read"
        /\ ~HasClaim(h) /\ ~HasClaim(h)' => log'[c] = log[c]
    BY <1>1, <2>1, TurnEffect
  <2>3. ASSUME NEW g \in Handlers \ {h}, HasClaim(g)'
        PROVE  HasClaim(g) /\ handler'[g].c = handler[g].c /\ handler[g].c \in Charges
    BY <2>1, <2>3 DEF HasClaim, Claimed, SInv, Grounded
  <2>4. HasClaim(h)' => handler'[h].c = c /\ log'[c] = "claimed"
    BY <2>1, <2>2 DEF HasClaim, Claimed, Idle, SInv, Sole
  <2>5. ASSUME NEW g \in Handlers \ {h}, HasClaim(g)', handler[g].c = c
        PROVE  ~HasClaim(h) /\ ~HasClaim(h)'
    BY <2>2, <2>3, <2>5 DEF SInv, Sole
  <2>6. ASSUME NEW g \in Handlers \ {h}, HasClaim(g)'
        PROVE  log'[handler'[g].c] = "claimed"
    BY <2>1, <2>2, <2>3, <2>5, <2>6 DEF SInv, Sole
  <2>7. ASSUME NEW f \in Handlers, NEW g \in Handlers, HasClaim(f)', HasClaim(g)', handler'[f].c = handler'[g].c
        PROVE  f = g
    BY <2>3, <2>4, <2>5, <2>7 DEF SInv, Sole
  <2>8. QED
    BY <2>4, <2>6, <2>7 DEF Sole
<1>2. ASSUME NEW h \in Handlers, NEW c \in Charges, Deliver(h, c)
      PROVE  Sole'
  BY <1>2, DeliverFrame DEF Sole, SInv, HasClaim, Claimed
<1>3. CASE Outside \/ UNCHANGED vars
  BY <1>3, OutsideFrame DEF Sole, SInv, HasClaim
<1>4. QED
  BY <1>1, <1>2, <1>3, ByActor

\* No step posts a charge before its claim, or a second time.
LEMMA UnpostedStep ==
    ASSUME SInv, [Next]_vars
    PROVE  Unposted' /\ RecordedOnce'
<1>1. ASSUME NEW h \in Handlers, Turn(h)
      PROVE  Unposted' /\ RecordedOnce'
  <2> DEFINE c == handler[h].c
  <2>1. /\ c \in Charges /\ \A g \in Handlers \ {h} : handler'[g] = handler[g]
        /\ handler'[h] = Idle \/ handler'[h].c = c
        /\ \A x \in Charges \ {c} : log'[x] = log[x] /\ receipts'[x] = receipts[x]
    BY <1>1, TurnFrame DEF SInv, StripeTypeOK
  <2>2. /\ log'[c] # "none" \/ log'[c] = log[c]
        /\ \/ receipts'[c] = receipts[c]
           \/ handler[h].st = "post" /\ receipts'[c] = receipts[c] + 1 /\ handler'[h].st = "stamp"
        /\ handler'[h].st \in {"read", "find", "post"} => handler[h].st \in {"claim", "read", "find"}
        /\ handler[h].st = "claim" /\ handler'[h].st \in {"read", "find", "post"} => log[c] = "none"
    BY <1>1, <2>1, TurnEffect
  <2>3. receipts[c] \in Nat /\ receipts[c] <= 1
    BY <2>1 DEF SInv, StripeTypeOK, RecordedOnce
  <2>4. receipts'[c] # receipts[c] => receipts[c] = 0 /\ log[c] = "claimed"
    BY <2>2 DEF SInv, Unposted, Sole, HasClaim, Claimed
  <2>5. RecordedOnce'
    BY <2>1, <2>2, <2>3, <2>4 DEF SInv, RecordedOnce
  <2>6. \A x \in Charges : log'[x] = "none" => receipts'[x] = 0
    BY <2>1, <2>2, <2>4 DEF SInv, Unposted
  <2>7. handler'[h].st \in {"read", "find", "post"} => handler'[h].c = c /\ receipts'[c] = 0
    BY <2>1, <2>2 DEF SInv, Unposted, Idle
  <2>8. ASSUME NEW g \in Handlers \ {h}, handler'[g].st \in {"read", "find", "post"}
        PROVE  receipts'[handler'[g].c] = 0
    <3>1. handler'[g] = handler[g] /\ handler[g].c \in Charges /\ HasClaim(g) /\ receipts[handler[g].c] = 0
      BY <2>1, <2>8 DEF SInv, Unposted, Grounded, HasClaim, Claimed
    <3>2. handler[g].c = c => handler[h].st # "post"
      BY <3>1 DEF SInv, Sole, HasClaim, Claimed
    <3>3. QED
      BY <2>1, <2>2, <3>1, <3>2
  <2>9. QED
    BY <2>5, <2>6, <2>7, <2>8 DEF Unposted
<1>2. ASSUME NEW h \in Handlers, NEW c \in Charges, Deliver(h, c)
      PROVE  Unposted' /\ RecordedOnce'
  BY <1>2, DeliverFrame DEF Unposted, RecordedOnce, SInv
<1>3. CASE Outside \/ UNCHANGED vars
  BY <1>3, OutsideFrame DEF Unposted, RecordedOnce, SInv
<1>4. QED
  BY <1>1, <1>2, <1>3, ByActor

\* No receipt of a charge is ever taken back.
LEMMA ReceiptsGrow ==
    ASSUME SInv, [Next]_vars, NEW c \in Charges, receipts[c] > 0
    PROVE  receipts'[c] > 0
<1>1. receipts[c] \in Nat
  BY DEF SInv, StripeTypeOK
<1>2. ASSUME NEW h \in Handlers, Turn(h)
      PROVE  receipts'[c] = receipts[c] \/ receipts'[c] = receipts[c] + 1
  BY <1>2, TurnFrame, TurnEffect
<1>3. QED
  BY <1>1, <1>2, ByActor, DeliverFrame, OutsideFrame

\* The books never forget a charge: receipts only grow, a paid invoice stays paid.
LEMMA BooksRemember ==
    ASSUME SInv, [Next]_vars, NEW c \in Charges, intent[c].st # "none", BooksKnow(c)
    PROVE  BooksKnow(c)'
<1> USE StripeConstants
<1>1. /\ intent[c].inv \in Invoices /\ receipts[c] \in Nat
      /\ invoice \in [Invoices -> InvoiceRow]
  BY DEF SInv, Grounded, StripeTypeOK, InvoiceRow
<1>2. intent'[c].inv = intent[c].inv
  <2>1. CASE intent' = intent
    BY <2>1
  <2>2. ASSUME NEW x \in Charges, NEW i \in Invoices, NEW amt \in 1 .. MaxAmount, CreateIntent(x, i, amt)
        PROVE  intent'[c].inv = intent[c].inv
    <3>1. x # c
      BY <2>2 DEF CreateIntent, NoIntent
    <3>2. QED
      BY <2>2, <3>1 DEF CreateIntent, SInv, StripeTypeOK
  <2>3. ASSUME NEW x \in Charges, Succeed(x)
        PROVE  intent'[c].inv = intent[c].inv
    BY <2>3 DEF Succeed, SInv, StripeTypeOK
  <2>4. QED
    BY <2>1, <2>2, <2>3, ByActor, TurnFrame, DeliverFrame DEF Outside, VoidInvoice, ReceiveOther, stripe, vars
<1>3. ASSUME receipts[c] > 0
      PROVE  receipts'[c] > 0
  BY <1>3, ReceiptsGrow
<1>4. ASSUME NEW i \in Invoices, Paid(i)
      PROVE  Paid(i)'
  <2>1. Payable(i) = 0 /\ invoice[i].st = "posted" /\ invoice[i].balance = 0
    BY <1>4 DEF Paid, Payable
  <2>2. ASSUME NEW h \in Handlers, Post(h)
        PROVE  Paid(i)'
    <3>1. AppliedOf(h) \in Nat
      BY <2>2, AppliedType DEF Post, At, SInv
    <3>2. CASE Fits(h) /\ intent[handler[h].c].inv = i
      <4>1. AppliedOf(h) = 0
        BY <2>1, <3>1, <3>2 DEF Fits
      <4>2. QED
        BY <1>1, <2>1, <2>2, <3>2, <4>1 DEF Post, Paid, InvoiceRow
    <3>3. CASE ~(Fits(h) /\ intent[handler[h].c].inv = i)
      BY <1>1, <2>1, <2>2, <3>3 DEF Post, Paid, InvoiceRow
    <3>4. QED
      BY <3>2, <3>3
  <2>3. ASSUME NEW j \in Invoices, VoidInvoice(j)
        PROVE  Paid(i)'
    BY <1>1, <2>1, <2>3 DEF VoidInvoice, Paid, InvoiceRow
  <2>4. ASSUME NEW j \in Invoices, NEW x \in 1 .. InvoiceTotal, ReceiveOther(j, x)
        PROVE  Paid(i)'
    <3>1. j # i
      BY <2>1, <2>4 DEF ReceiveOther
    <3>2. QED
      BY <1>1, <2>1, <2>4, <3>1 DEF ReceiveOther, Paid, InvoiceRow
  <2>5. CASE invoice' = invoice
    BY <2>1, <2>5 DEF Paid
  <2>6. QED
    BY <2>2, <2>3, <2>4, <2>5, ByActor, DeliverFrame
       DEF Turn, Work, PreCheck, Claim, ReadInvoice, FindPayment, Stamp, Finish, Fail, Fault, books,
           Outside, CreateIntent, Succeed, vars
<1>5. QED
  BY <1>1, <1>2, <1>3, <1>4 DEF BooksKnow

\* What a turn of h says of its charge: in the books once it is posted, named by
\* a row, done or processed; claimed once it is answered.
LEMMA TurnAccounts ==
    ASSUME SInv, NEW h \in Handlers, Turn(h), NEW c \in Charges, c = handler[h].c
    PROVE  /\ handler'[h].st = "stamp" => receipts'[c] > 0
           /\ handler'[h].st = "done" => BooksKnow(c)
           /\ log'[c] = "processed" => log[c] = "processed" \/ BooksKnow(c)
           /\ c \in stamped' => receipts[c] > 0
           /\ c \in answered' => log'[c] # "none"
           /\ stamped' \subseteq stamped \cup {c} /\ answered' \subseteq answered \cup {c}
<1>1. handler[h] \in HandlerRow /\ handler \in [Handlers -> HandlerRow] /\ receipts[c] \in Nat
  BY DEF SInv, StripeTypeOK, HandlerRow
<1>2. /\ c \in stamped => receipts[c] > 0
      /\ c \in answered => log[c] # "none"
      /\ handler[h].st = "stamp" => receipts[c] > 0
      /\ handler[h].st = "done" => BooksKnow(c)
  BY DEF SInv, Accounted
<1>3. log \in [Charges -> {"none", "claimed", "processed", "failed"}] /\ receipts \in [Charges -> Nat]
  BY DEF SInv, StripeTypeOK
<1>4. CASE PreCheck(h)
  BY <1>1, <1>2, <1>4 DEF PreCheck, Go, Answer, At, stripe, books, Idle, HandlerRow
<1>5. CASE Claim(h)
  BY <1>1, <1>2, <1>3, <1>5 DEF Claim, Claimable, Go, Answer, At, stripe, books, Idle, HandlerRow
<1>6. CASE ReadInvoice(h)
  BY <1>1, <1>2, <1>6 DEF ReadInvoice, At, stripe, books, HandlerRow, BooksKnow
<1>7. CASE FindPayment(h)
  BY <1>1, <1>2, <1>7 DEF FindPayment, Go, At, stripe, books, HandlerRow, BooksKnow
<1>8. CASE Post(h)
  BY <1>1, <1>2, <1>3, <1>8 DEF Post, Go, At, stripe, HandlerRow
<1>9. CASE Stamp(h)
  BY <1>1, <1>2, <1>9 DEF Stamp, Go, At, stripe, HandlerRow, BooksKnow
<1>10. CASE Finish(h)
  BY <1>1, <1>2, <1>3, <1>10 DEF Finish, Mark, Answer, At, books, Idle, HandlerRow
<1>11. CASE Fail(h)
  BY <1>1, <1>2, <1>11 DEF Fail, Go, stripe, books, HandlerRow
<1>12. CASE Fault(h)
  BY <1>1, <1>2, <1>12 DEF Fault, books, Idle, HandlerRow
<1>13. QED
  BY <1>4, <1>5, <1>6, <1>7, <1>8, <1>9, <1>10, <1>11, <1>12 DEF Turn, Work

\* Every step keeps what processed events and rows say of their charges.
LEMMA AccountedStep ==
    ASSUME SInv, [Next]_vars
    PROVE  Accounted'
<1>1. \A c \in Charges : intent[c].st # "none" /\ BooksKnow(c) => BooksKnow(c)'
  BY BooksRemember
<1>2. \A c \in Charges : receipts[c] > 0 => receipts'[c] > 0
  BY ReceiptsGrow
<1>3. \A c \in Charges : intent[c].st = "charged" => intent'[c].st = "charged"
  <2>1. ASSUME NEW x \in Charges, NEW i \in Invoices, NEW amt \in 1 .. MaxAmount, CreateIntent(x, i, amt)
        PROVE  \A c \in Charges : intent[c].st = "charged" => intent'[c].st = "charged"
    <3>1. intent[x].st = "none" /\ intent' = [intent EXCEPT ![x] = [st |-> "created", inv |-> i, amt |-> amt]]
      BY <2>1 DEF CreateIntent, NoIntent
    <3>2. QED
      BY <3>1 DEF SInv, StripeTypeOK
  <2>2. ASSUME NEW x \in Charges, Succeed(x)
        PROVE  \A c \in Charges : intent[c].st = "charged" => intent'[c].st = "charged"
    BY <2>2 DEF Succeed, SInv, StripeTypeOK
  <2>3. QED
    BY <2>1, <2>2, ByActor, TurnFrame, DeliverFrame DEF Outside, VoidInvoice, ReceiveOther, stripe, vars
<1>4. ASSUME NEW h \in Handlers, Turn(h)
      PROVE  Accounted'
  <2> DEFINE c == handler[h].c
  <2>1. /\ c \in Charges /\ intent[c].st = "charged" /\ intent' = intent
        /\ \A g \in Handlers \ {h} : handler'[g] = handler[g]
        /\ handler'[h] = Idle \/ handler'[h].c = c
        /\ \A x \in Charges \ {c} : log'[x] = log[x]
    BY <1>4, TurnFrame DEF SInv, StripeTypeOK, Grounded
  <2>2. /\ handler'[h].st = "stamp" => receipts'[c] > 0
        /\ handler'[h].st = "done" => BooksKnow(c)
        /\ log'[c] = "processed" => log[c] = "processed" \/ BooksKnow(c)
        /\ c \in stamped' => receipts[c] > 0
        /\ c \in answered' => log'[c] # "none"
        /\ stamped' \subseteq stamped \cup {c} /\ answered' \subseteq answered \cup {c}
    BY <1>4, <2>1, TurnAccounts
  <2>3. stamped \subseteq Charges /\ answered \subseteq Charges
    BY DEF SInv, StripeTypeOK
  <2>4. \A x \in stamped' : receipts'[x] > 0
    BY <1>2, <2>1, <2>2, <2>3 DEF SInv, Accounted
  <2>5. \A g \in Handlers : handler'[g].st = "stamp" => receipts'[handler'[g].c] > 0
    BY <1>2, <2>1, <2>2 DEF SInv, Accounted, Grounded, Idle
  <2>6. ASSUME NEW g \in Handlers, handler'[g].st = "done", NEW x, x = handler'[g].c
        PROVE  BooksKnow(x)'
    <3>1. x \in Charges /\ intent[x].st = "charged" /\ BooksKnow(x)
      BY <2>1, <2>2, <2>6 DEF SInv, Accounted, Grounded, Idle
    <3>2. QED
      BY <1>1, <3>1
  <2>7. \A x \in Charges : log'[x] = "processed" => BooksKnow(x)'
    BY <1>1, <2>1, <2>2 DEF SInv, Accounted
  <2>8. \A x \in answered' : log'[x] # "none"
    BY <2>1, <2>2, <2>3 DEF SInv, Accounted
  <2>9. \A x \in Charges : log'[x] # "none" => intent'[x].st = "charged"
    BY <2>1 DEF SInv, Accounted
  <2>10. QED
    BY <2>4, <2>5, <2>6, <2>7, <2>8, <2>9 DEF Accounted, BooksKnow, Paid
<1>5. ASSUME /\ log' = log /\ receipts' = receipts /\ stamped' = stamped /\ answered' = answered
             /\ \A g \in Handlers : handler'[g].st \in {"stamp", "done"} => handler'[g] = handler[g]
      PROVE  Accounted'
  <2>1. ASSUME NEW g \in Handlers, handler'[g].st = "done", NEW x, x = handler'[g].c
        PROVE  BooksKnow(x)'
    <3>1. handler'[g] = handler[g] /\ x \in Charges /\ intent[x].st = "charged" /\ BooksKnow(x)
      BY <1>5, <2>1 DEF SInv, Accounted, Grounded
    <3>2. QED
      BY <1>1, <3>1
  <2>2. \A x \in Charges : log'[x] = "processed" => BooksKnow(x)'
    BY <1>1, <1>5 DEF SInv, Accounted
  <2>3. \A x \in Charges : log'[x] # "none" => intent'[x].st = "charged"
    BY <1>3, <1>5 DEF SInv, Accounted
  <2>4. QED
    BY <1>5, <2>1, <2>2, <2>3 DEF SInv, Accounted, BooksKnow, Paid
<1>6. ASSUME NEW h \in Handlers, NEW c \in Charges, Deliver(h, c)
      PROVE  Accounted'
  BY <1>5, <1>6, DeliverFrame
<1>7. CASE Outside \/ UNCHANGED vars
  BY <1>5, <1>7, OutsideFrame
<1>8. QED
  BY <1>4, <1>6, <1>7, ByActor

-----------------------------------------------------------------------------
(* The invariant, and what follows from it.                                 *)

\* Nothing is charged, logged or posted at first.
LEMMA InitInv == Init => SInv
<1> SUFFICES ASSUME Init
             PROVE  SInv
  OBVIOUS
<1>1. StripeTypeOK
  BY StripeConstants DEF Init, StripeTypeOK, NoIntent, Idle, Stages
<1>2. QED
  BY <1>1 DEF Init, SInv, Grounded, Sole, Unposted, RecordedOnce, Accounted, NoIntent, Idle, HasClaim, Claimed

\* SInv is an invariant.
THEOREM StripeInvariant == Spec => []SInv
<1>1. SInv /\ [Next]_vars => SInv'
  BY TypeStep, GroundedStep, SoleStep, UnpostedStep, AccountedStep DEF SInv
<1>2. QED
  BY InitInv, <1>1, PTL DEF Spec

\* The rows of the webhook log, the receipts and the invoice balances stay
\* well formed: no interleaving of deliveries and bookkeeping settles more of
\* an invoice than it owes.
THEOREM StripeTypes == Spec => []StripeTypeOK
<1>1. SInv => StripeTypeOK
  BY DEF SInv
<1>2. QED
  BY StripeInvariant, <1>1, PTL

\* A charge is posted at most once, whatever is sent again or dies on the way.
THEOREM PostedOnce == Spec => []RecordedOnce
<1>1. SInv => RecordedOnce
  BY DEF SInv
<1>2. QED
  BY StripeInvariant, <1>1, PTL

\* An answered charge that no receipt posts has left a trace in the webhook log,
\* or its invoice was paid otherwise.
THEOREM NoSilentLoss == Spec => []LossIsVisible
<1>1. SInv => LossIsVisible
  <2> SUFFICES ASSUME SInv, NEW c \in answered, receipts[c] = 0
               PROVE  log[c] \in {"claimed", "failed"} \/ Paid(intent[c].inv)
    BY DEF LossIsVisible
  <2>1. c \in Charges /\ log[c] \in {"none", "claimed", "processed", "failed"} /\ log[c] # "none"
    BY DEF SInv, StripeTypeOK, Accounted
  <2>2. log[c] = "processed" => Paid(intent[c].inv)
    BY <2>1 DEF SInv, Accounted, BooksKnow
  <2>3. QED
    BY <2>1, <2>2
<1>2. QED
  BY StripeInvariant, <1>1, PTL
=============================================================================
