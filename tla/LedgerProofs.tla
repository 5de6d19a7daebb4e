---------------------------- MODULE LedgerProofs ----------------------------
(***************************************************************************)
(* Proofs about the ledger, for every number of requests, transactions,    *)
(* accounts, dates and postings, and about reconciliations beside it.      *)
(* Inductive invariants, one on top of the other:                          *)
(*                                                                         *)
(* LedgerInv.  NoOrphanReversal is not inductive alone: a void may only    *)
(* leave no live reversal behind because it holds the row lock of every    *)
(* reversal below it when it commits, and it still does because nobody     *)
(* else changes a locked row (LockDiscipline).  OneLiveReversal needs the  *)
(* same for an edit that posts a new reversal, and that no live reversal   *)
(* is of a row yet to be inserted.                                         *)
(*                                                                         *)
(* PeriodInv, for the closing date.  checkLockDate reads it without a      *)
(* lock, so the period may be closed between a request's check and its     *)
(* commit.  Every date a request has checked lies after the earliest       *)
(* closing date it has run under, and the rows it checked keep their dates *)
(* because they are locked.                                                *)
(*                                                                         *)
(* BooksInv, for what the lines add up to.  A posted transaction has at    *)
(* most one line on an account and they sum to zero, also when a bulk edit *)
(* has moved one; a void or deleted one nets to zero on every account; and *)
(* an open request still finds the lines it compared under its locks, its  *)
(* own and those of the reversals it takes along.                          *)
(* Sums over finite sets are those of module Sums.                         *)
(*                                                                         *)
(* RecInv, further down, for the reconciliations beside the ledger.        *)
(***************************************************************************)
EXTENDS Reconciliation, Sums, TLAPS

\* What a request carries to its commit: a posting a caller sent and, once
\* its reversal has been looked up, a date for the reversal or none; a body of
\* another type than journal_entry never has one.
InputsKnown(q) ==
    /\ q.op \in {"post", "edit"} => q.posting \in Postings
    /\ q.op = "post" \/ (q.op = "edit" /\ (q.stage = "commit" \/ q.cur # q.t)) => q.reverseOn # Keep
    /\ q.op = "edit" /\ q.kind # "journal_entry" => q.reverseOn \in {None, Keep}

OriginalsInserted == \A r, t \in Txns : Live(r) /\ txn[r].reverses = t => txn[t].status # "absent"

LedgerInv ==
    /\ LedgerTypeOK
    /\ OriginalsInserted
    /\ NoOrphanReversal
    /\ OneLiveReversal
    /\ LockDiscipline
    /\ \A s \in Requests : InputsKnown(req[s])

-----------------------------------------------------------------------------
(* Facts about the rows an action writes *)

\* The value a request has between two transactions is a legal one.
LEMMA IdleRow == Idle \in RequestRow
BY LedgerConstants DEF Idle, RequestRow, Dates

\* The row insert of postTransaction has the columns of the schema.
LEMMA PostedRowType ==
    ASSUME NEW k \in Kinds \cup {"journal_entry", None}, NEW d \in Dates, NEW orig \in Txns \cup {None}
    PROVE  PostedRow(k, d, orig) \in Header
BY LedgerConstants DEF PostedRow, Header, Statuses

\* Deleting a row changes nothing but its status and its last update.
LEMMA DeleteRowType ==
    ASSUME NEW t, txn[t] \in Header
    PROVE  DeleteRow(t) \in Header /\ DeleteRow(t).status = "deleted"
BY DEF DeleteRow, Header, Statuses

\* The line insert of a posting has the columns of the schema.
LEMMA NewLinesType ==
    ASSUME NEW t \in Txns, NEW v \in 0..MaxEdits, NEW p,
           DOMAIN p \subseteq Accounts, \A a \in DOMAIN p : p[a] \in Int
    PROVE  NewLines(t, v, p) \subseteq Line
<1> SUFFICES ASSUME NEW l \in NewLines(t, v, p)
             PROVE  l \in Line
  OBVIOUS
<1>1. PICK a \in DOMAIN p :
        l = [txn |-> t, ver |-> v, acct |-> a, rev |-> FALSE, amt |-> p[a]]
  BY DEF NewLines
<1>2. a \in Accounts /\ p[a] \in Int
  OBVIOUS
<1> QED BY <1>1, <1>2 DEF Line

\* Both sides of a posting callers send qualify.
LEMMA PostingTypes ==
    ASSUME NEW p \in Postings
    PROVE  /\ DOMAIN p \subseteq Accounts /\ \A a \in DOMAIN p : p[a] \in Int
           /\ DOMAIN Negated(p) \subseteq Accounts
           /\ \A a \in DOMAIN Negated(p) : Negated(p)[a] \in Int
BY LedgerConstants DEF Negated

\* Every new line carries the transaction it was inserted for.
LEMMA NewLinesTxn ==
    ASSUME NEW t, NEW v, NEW p
    PROVE  \A l \in NewLines(t, v, p) : l.txn = t
BY DEF NewLines

\* A reversing line has the columns of the schema and its transaction.
LEMMA SwappedType ==
    ASSUME NEW L \in SUBSET Line
    PROVE  Swapped(L) \subseteq Line /\ \A l \in Swapped(L) : \E k \in L : l.txn = k.txn
<1> SUFFICES ASSUME NEW l \in Swapped(L)
             PROVE  l \in Line /\ \E k \in L : l.txn = k.txn
  OBVIOUS
<1>1. PICK k \in L : l = [k EXCEPT !.rev = TRUE, !.amt = -k.amt]
  BY DEF Swapped
<1>2. k \in Line /\ -k.amt \in Int
  BY DEF Line
<1>3. l \in Line
  BY <1>1, <1>2 DEF Line
<1>4. l.txn = k.txn
  BY <1>1, <1>2 DEF Line
<1> QED BY <1>3, <1>4

-----------------------------------------------------------------------------
(* A step that only changes what one request has read and locked *)
LEMMA QuietStep ==
    ASSUME LedgerInv, NEW s \in Requests, NEW q \in RequestRow,
           req' = [req EXCEPT ![s] = q], UNCHANGED <<txn, lines, lockDate>>,
           \A u \in Requests \ {s} : q.held \cap req[u].held = {},
           HeldRowsStand(q), ChainHeld(q), InputsKnown(q)
    PROVE  LedgerInv'
<1>1. LedgerTypeOK'
  BY DEF LedgerInv, LedgerTypeOK
<1>2. NoOrphanReversal' /\ OneLiveReversal' /\ OriginalsInserted'
  BY DEF LedgerInv, NoOrphanReversal, OneLiveReversal, OriginalsInserted, LiveReversals, Live
<1>3. \A u \in Requests : req'[u] = IF u = s THEN q ELSE req[u]
  BY DEF LedgerInv, LedgerTypeOK
<1>4. LocksExclusive'
  BY <1>3 DEF LedgerInv, LockDiscipline, LocksExclusive
<1>5. ASSUME NEW u \in Requests
      PROVE  HeldRowsStand(req[u])' /\ ChainHeld(req[u])' /\ InputsKnown(req[u])'
  BY <1>3 DEF LedgerInv, LockDiscipline, HeldRowsStand, ChainHeld, InputsKnown, LooksForNone,
     ReversalsFound, LiveReversals, Live
<1> QED BY <1>1, <1>2, <1>4, <1>5 DEF LedgerInv, LockDiscipline

\* A commit: the request ends, and only rows it had locked or inserted changed.
LEMMA CommitStep ==
    ASSUME LedgerInv, NEW s \in Requests,
           req' = [req EXCEPT ![s] = Idle], UNCHANGED lockDate,
           txn' \in [Txns -> Header], lines' \subseteq Line,
           \A t \in Txns : txn'[t] = txn[t] \/ t \in req[s].held \/ t \in Fresh,
           \A r \in Txns : txn'[r].status = "posted" =>
               \/ Live(r) /\ txn'[r].reverses = txn[r].reverses
               \/ txn'[r].reverses \in req[s].held \cup Fresh \cup {None},
           NoOrphanReversal', OneLiveReversal', OriginalsInserted'
    PROVE  LedgerInv'
<1>1. LedgerTypeOK'
  BY IdleRow DEF LedgerInv, LedgerTypeOK
<1>2. \A u \in Requests : req'[u] = IF u = s THEN Idle ELSE req[u]
  BY DEF LedgerInv, LedgerTypeOK
<1>3. LocksExclusive'
  BY <1>2 DEF LedgerInv, LockDiscipline, LocksExclusive, Idle
<1>4. ASSUME NEW u \in Requests
      PROVE  HeldRowsStand(req[u])' /\ ChainHeld(req[u])' /\ InputsKnown(req[u])'
  <2>1. CASE u = s
    BY <2>1, <1>2 DEF HeldRowsStand, ChainHeld, LooksForNone, InputsKnown, Idle
  <2>2. CASE u # s
    <3>1. req'[u] = req[u] /\ req[u] \in RequestRow
      BY <1>2, <2>2 DEF LedgerInv, LedgerTypeOK
    <3>2. HeldRowsStand(req[u]) /\ ChainHeld(req[u]) /\ InputsKnown(req[u])
      BY DEF LedgerInv, LockDiscipline
    <3>3. \A h \in req[u].held : h \in Txns /\ h \notin req[s].held /\ h \notin Fresh
      BY <2>2, <3>1, <3>2 DEF LedgerInv, LockDiscipline, LocksExclusive, RequestRow,
         HeldRowsStand, Fresh, Live
    <3>4. \A h \in req[u].held : txn'[h] = txn[h]
      BY <3>3
    <3>5. HeldRowsStand(req[u])'
      BY <3>1, <3>2, <3>4 DEF HeldRowsStand, Live
    <3>6. \A h \in req[u].held : LiveReversals(h)' \subseteq LiveReversals(h)
      BY <3>3, LedgerConstants DEF LiveReversals, Live
    <3>8. \A h \in req[u].held : ReversalsFound(h)' \subseteq ReversalsFound(h)
      BY <3>4, <3>6 DEF ReversalsFound
    <3>7. ChainHeld(req[u])'
      BY <3>1, <3>2, <3>8 DEF ChainHeld, LooksForNone
    <3> QED BY <3>1, <3>2, <3>5, <3>7 DEF InputsKnown
  <2> QED BY <2>1, <2>2
<1> QED BY <1>1, <1>3, <1>4 DEF LedgerInv, LockDiscipline

-----------------------------------------------------------------------------
(* Every action preserves the invariant *)

LEMMA BeginPostStep ==
    ASSUME LedgerInv, NEW s \in Requests, NEW p \in Postings, NEW k \in Kinds, NEW d \in Dates,
           NEW ro \in Dates \cup {None}, BeginPost(s, p, k, d, ro)
    PROVE  LedgerInv'
<1> DEFINE q == [Idle EXCEPT !.op = "post", !.stage = "commit", !.posting = p, !.kind = k,
                             !.date = d, !.reverseOn = ro, !.closedAt = lockDate]
<1>1. lockDate \in ClosingDates
  BY DEF LedgerInv, LedgerTypeOK
<1>2. q \in RequestRow
  BY <1>1, IdleRow DEF RequestRow, Idle
<1>3. ro # Keep
  BY LedgerConstants DEF Dates
<1>4. HeldRowsStand(q) /\ ChainHeld(q) /\ InputsKnown(q)
  BY <1>3 DEF HeldRowsStand, ChainHeld, LooksForNone, InputsKnown, Idle
<1>5. q.held = {}
  BY DEF Idle
<1>6. req' = [req EXCEPT ![s] = q] /\ UNCHANGED <<txn, lines, lockDate>>
  BY DEF BeginPost
<1> HIDE DEF q
<1> QED BY <1>2, <1>4, <1>5, <1>6, QuietStep

\* The three requests that begin with the row lock of a transaction.
LEMMA HoldRow ==
    ASSUME LedgerInv, NEW op \in {"void", "delete", "edit"}, NEW s \in Requests, NEW t \in Txns
    PROVE  Hold(s, op, t) \in RequestRow
<1>1. lockDate \in ClosingDates
  BY DEF LedgerInv, LedgerTypeOK
<1> QED BY <1>1, IdleRow DEF Hold, Idle, RequestRow

LEMMA BeginVoidStep ==
    ASSUME LedgerInv, NEW s \in Requests, NEW t \in Txns, BeginVoid(s, t)
    PROVE  LedgerInv'
<1> DEFINE q == Hold(s, "void", t)
<1>1. q \in RequestRow
  BY HoldRow
<1>2. HeldRowsStand(q) /\ ChainHeld(q) /\ InputsKnown(q)
  BY DEF BeginVoid, HeldRowsStand, ChainHeld, LooksForNone, InputsKnown, Hold, Idle
<1>3. \A u \in Requests : q.held \cap req[u].held = {}
  BY DEF BeginVoid, Lockable, LockedBy, Hold, Idle
<1>4. req' = [req EXCEPT ![s] = q] /\ UNCHANGED <<txn, lines, lockDate>>
  BY DEF BeginVoid
<1> HIDE DEF q
<1> QED BY <1>1, <1>2, <1>3, <1>4, QuietStep

LEMMA BeginDeleteStep ==
    ASSUME LedgerInv, NEW s \in Requests, NEW t \in Txns, BeginDelete(s, t)
    PROVE  LedgerInv'
<1> DEFINE q == Hold(s, "delete", t)
<1>1. q \in RequestRow
  BY HoldRow
<1>2. HeldRowsStand(q) /\ ChainHeld(q) /\ InputsKnown(q)
  BY DEF BeginDelete, HeldRowsStand, ChainHeld, LooksForNone, InputsKnown, Hold, Idle, Live
<1>3. \A u \in Requests : q.held \cap req[u].held = {}
  BY DEF BeginDelete, Lockable, LockedBy, Hold, Idle
<1>4. req' = [req EXCEPT ![s] = q] /\ UNCHANGED <<txn, lines, lockDate>>
  BY DEF BeginDelete
<1> HIDE DEF q
<1> QED BY <1>1, <1>2, <1>3, <1>4, QuietStep

LEMMA BeginEditStep ==
    ASSUME LedgerInv, NEW s \in Requests, NEW t \in Txns, NEW p \in Postings, NEW k \in Kinds,
           NEW d \in Dates, NEW ro \in Dates \cup {None, Keep}, BeginEdit(s, t, p, k, d, ro)
    PROVE  LedgerInv'
<1> DEFINE q == [Hold(s, "edit", t) EXCEPT !.posting = p, !.date = d, !.reverseOn = ro, !.kind = k]
<1>1. Hold(s, "edit", t) \in RequestRow
  BY HoldRow
<1>2. q \in RequestRow
  BY <1>1 DEF RequestRow
<1>3. /\ q.op = "edit" /\ q.t = t /\ q.held = {t} /\ q.cur = t /\ q.stage = "reversal" /\ ~q.kept
      /\ q.posting = p /\ q.kind = k /\ q.reverseOn = ro
  BY DEF Hold, Idle
<1>4. Live(t) /\ txn[t].ver < MaxEdits /\ (ro # Keep => k = "journal_entry")
  BY DEF BeginEdit
<1>5. \A u \in Requests : q.held \cap req[u].held = {}
  BY <1>3 DEF BeginEdit, Lockable, LockedBy
<1>6. req' = [req EXCEPT ![s] = q] /\ UNCHANGED <<txn, lines, lockDate>>
  BY DEF BeginEdit
<1> HIDE DEF q
<1>7. HeldRowsStand(q) /\ ChainHeld(q) /\ InputsKnown(q)
  BY <1>3, <1>4 DEF HeldRowsStand, ChainHeld, LooksForNone, InputsKnown
<1> QED BY <1>2, <1>5, <1>6, <1>7, QuietStep

LEMMA BeginBulkStep ==
    ASSUME LedgerInv, NEW s \in Requests, NEW a \in Categories \cup {None}, BeginBulk(s, a)
    PROVE  LedgerInv'
<1> DEFINE q == [Idle EXCEPT !.op = "bulk", !.stage = "commit", !.to = a, !.lockRead = lockDate,
                             !.closedAt = lockDate]
<1>1. lockDate \in ClosingDates
  BY DEF LedgerInv, LedgerTypeOK
<1>2. q \in RequestRow
  BY <1>1, IdleRow DEF RequestRow, Idle
<1>3. HeldRowsStand(q) /\ ChainHeld(q) /\ InputsKnown(q) /\ q.held = {}
  BY DEF HeldRowsStand, ChainHeld, LooksForNone, InputsKnown, Idle
<1>4. req' = [req EXCEPT ![s] = q] /\ UNCHANGED <<txn, lines, lockDate>>
  BY DEF BeginBulk
<1> HIDE DEF q
<1> QED BY <1>2, <1>3, <1>4, QuietStep

LEMMA BulkTakeStep ==
    ASSUME LedgerInv, NEW s \in Requests, NEW t \in Txns, BulkTake(s, t)
    PROVE  LedgerInv'
<1> DEFINE q == [req[s] EXCEPT !.held = @ \cup {t}]
<1>1. /\ req[s] \in RequestRow /\ req[s].op = "bulk" /\ HeldRowsStand(req[s]) /\ ChainHeld(req[s])
      /\ Live(t) /\ \A u \in Requests : t \notin req[u].held
  BY DEF LedgerInv, LockDiscipline, LedgerTypeOK, BulkTake, Lockable, LockedBy
<1>2. q \in RequestRow
  BY <1>1 DEF RequestRow
<1>3. /\ q.op = "bulk" /\ q.held = req[s].held \cup {t} /\ q.stage = req[s].stage
      /\ q.kept = req[s].kept
  BY <1>1 DEF RequestRow
<1>4. req' = [req EXCEPT ![s] = q] /\ UNCHANGED <<txn, lines, lockDate>>
  BY DEF BulkTake, LedgerInv, LedgerTypeOK
<1> HIDE DEF q
<1>5. HeldRowsStand(q) /\ ChainHeld(q) /\ InputsKnown(q)
  BY <1>1, <1>3 DEF HeldRowsStand, ChainHeld, LooksForNone, InputsKnown
<1>6. \A u \in Requests \ {s} : q.held \cap req[u].held = {}
  BY <1>1, <1>3 DEF LedgerInv, LockDiscipline, LocksExclusive
<1> QED BY <1>2, <1>4, <1>5, <1>6, QuietStep

\* A request that locks one more live reversal of the end of its chain still
\* holds every live reversal above the new end, by OneLiveReversal.
LEMMA LongerChain ==
    ASSUME LedgerInv, NEW s \in Requests, req[s].stage = "reversal",
           req[s].op \in {"void", "delete", "edit"},
           NEW r \in ReversalsFound(req[s].cur), Lockable(r), NEW q \in RequestRow,
           ~LooksForNone(req[s]), q.op = req[s].op, q.kind = req[s].kind,
           q.t = req[s].t, q.held = req[s].held \cup {r},
           q.stage \in {"reversal", "commit"}, q.cur = r \/ (q.kept /\ q.op = "edit" /\ q.cur = req[s].cur),
           q.kept => q.op = "edit" /\ q.stage = "commit", ~q.kept => q.stage = "reversal"
    PROVE  /\ HeldRowsStand(q) /\ ChainHeld(q)
           /\ \A u \in Requests \ {s} : q.held \cap req[u].held = {}
<1>1. HeldRowsStand(req[s]) /\ ChainHeld(req[s]) /\ req[s].cur \in Txns /\ r \in Txns /\ Live(r)
  BY DEF LedgerInv, LockDiscipline, HeldRowsStand, LedgerTypeOK, RequestRow,
     ReversalsFound, LiveReversals
<1>2. \A u \in Requests : r \notin req[u].held
  BY DEF Lockable, LockedBy
<1>3. HeldRowsStand(q)
  BY <1>1, <1>2 DEF HeldRowsStand
<1>4. ReversalsFound(req[s].cur) = {r}
  BY <1>1 DEF LedgerInv, OneLiveReversal, ReversalsFound
<1>5. r # q.t
  BY <1>1, <1>2 DEF HeldRowsStand
<1>6. ChainHeld(q)
  BY <1>1, <1>4, <1>5 DEF ChainHeld, LooksForNone
<1>7. \A u \in Requests \ {s} : q.held \cap req[u].held = {}
  BY <1>2 DEF LedgerInv, LockDiscipline, LocksExclusive
<1> QED BY <1>3, <1>6, <1>7

LEMMA NextReversalStep ==
    ASSUME LedgerInv, NEW s \in Requests, NextReversal(s)
    PROVE  LedgerInv'
<1>1. /\ req[s] \in RequestRow /\ req[s].stage = "reversal"
      /\ HeldRowsStand(req[s]) /\ ChainHeld(req[s]) /\ InputsKnown(req[s])
      /\ UNCHANGED <<txn, lines, lockDate>>
  BY DEF LedgerInv, LockDiscipline, LedgerTypeOK, NextReversal
<1>2. CASE ReversalsFound(req[s].cur) = {} /\ req' = [req EXCEPT ![s].stage = "commit"]
  <2> DEFINE q == [req[s] EXCEPT !.stage = "commit"]
  <2>1. q \in RequestRow /\ req' = [req EXCEPT ![s] = q]
    BY <1>1, <1>2 DEF RequestRow, LedgerInv, LedgerTypeOK
  <2>2. HeldRowsStand(q) /\ ChainHeld(q)
    BY <1>1, <1>2 DEF HeldRowsStand, ChainHeld, LooksForNone, RequestRow
  <2>3. InputsKnown(q)
    BY <1>1, NextReversal(s) DEF InputsKnown, NextReversal, RequestRow
  <2>4. \A u \in Requests \ {s} : q.held \cap req[u].held = {}
    BY <1>1 DEF LedgerInv, LockDiscipline, LocksExclusive, RequestRow
  <2> HIDE DEF q
  <2> QED BY <1>1, <2>1, <2>2, <2>3, <2>4, QuietStep
<1>3. CASE \E r \in ReversalsFound(req[s].cur) : TakeAlong(s, req[s].cur, r)
  <2>1. PICK r \in ReversalsFound(req[s].cur) : TakeAlong(s, req[s].cur, r)
    BY <1>3
  <2> DEFINE q == [req[s] EXCEPT !.held = @ \cup {r}, !.cur = r]
  <2>2. r \in Txns /\ Lockable(r) /\ Live(r)
    BY <2>1 DEF ReversalsFound, LiveReversals, TakeAlong
  <2>3. q \in RequestRow /\ req' = [req EXCEPT ![s] = q]
    BY <1>1, <2>1, <2>2 DEF RequestRow, LedgerInv, LedgerTypeOK, TakeAlong
  <2>4. /\ q.op = req[s].op /\ q.t = req[s].t /\ q.held = req[s].held \cup {r} /\ q.cur = r
        /\ q.stage = "reversal" /\ q.kept = req[s].kept /\ q.posting = req[s].posting /\ q.kind = req[s].kind
        /\ q.reverseOn = req[s].reverseOn
    BY <1>1 DEF RequestRow
  <2>5. ~req[s].kept
    BY <1>1 DEF ChainHeld
  <2>6. InputsKnown(q)
    BY <1>1, <2>4, NextReversal(s) DEF InputsKnown, NextReversal
  <2>7. CASE req[s].op \in {"void", "delete", "edit"} /\ ~LooksForNone(req[s])
    <3> HIDE DEF q
    <3>1. /\ HeldRowsStand(q) /\ ChainHeld(q)
          /\ \A u \in Requests \ {s} : q.held \cap req[u].held = {}
      BY <1>1, <2>2, <2>3, <2>4, <2>5, <2>7, LongerChain
    <3> QED BY <1>1, <2>3, <2>6, <3>1, QuietStep
  <2>8. CASE req[s].op \notin {"void", "delete", "edit"}
    BY <1>1, <2>8 DEF HeldRowsStand
  <2>9. CASE req[s].op = "edit" /\ LooksForNone(req[s])
    BY <1>1, <2>9, NextReversal(s) DEF HeldRowsStand, ChainHeld, LooksForNone, NextReversal
  <2> QED BY <1>1, <2>7, <2>8, <2>9 DEF LooksForNone
<1> QED BY <1>2, <1>3 DEF NextReversal

\* A request stays one when an edit settles what it does with the reversal.
LEMMA SettledRow ==
    ASSUME NEW q \in RequestRow, NEW d \in Dates \cup {None, Keep}, NEW b \in BOOLEAN
    PROVE  [q EXCEPT !.reverseOn = d, !.partial = b] \in RequestRow
BY Zenon DEF RequestRow

LEMMA CheckEditStep ==
    ASSUME LedgerInv, NEW s \in Requests, CheckEdit(s)
    PROVE  LedgerInv'
<1> DEFINE t == req[s].t
           target(r) == TargetOn(req[s], r)
           settled(r) == [req[s] EXCEPT !.reverseOn = target(r), !.partial = ClearedInCompleted(t) # {}]
<1>1. /\ req[s] \in RequestRow /\ req[s].stage = "reversal" /\ req[s].op = "edit" /\ req[s].cur = t
      /\ HeldRowsStand(req[s]) /\ ChainHeld(req[s]) /\ InputsKnown(req[s])
      /\ t \in req[s].held /\ req[s].held \subseteq Txns /\ t \in Txns /\ ~req[s].kept
      /\ UNCHANGED <<txn, lines, lockDate>>
  BY DEF LedgerInv, LockDiscipline, LedgerTypeOK, CheckEdit, HeldRowsStand, ChainHeld, RequestRow
<1>2. PICK r \in EditReversals(req[s]) \cup {None} :
        /\ ReversalOf(req[s], r) /\ (r # None => Lockable(r))
        /\ \/ /\ r # None
              /\ req' = [req EXCEPT ![s] = [settled(r) EXCEPT !.stage = "commit", !.kept = TRUE,
                                                              !.held = @ \cup {r}]]
           \/ r = None /\ req' = [req EXCEPT ![s] = [settled(r) EXCEPT !.stage = "commit"]]
           \/ /\ r # None
              /\ req' = [req EXCEPT ![s] = [settled(r) EXCEPT !.held = @ \cup {r}, !.cur = r]]
  BY <1>1 DEF CheckEdit
<1>3. target(r) \in Dates \cup {None}
  <2>1. CASE r = None
    BY <1>1, <2>1 DEF TargetOn, RequestRow
  <2>2. CASE r # None
    <3>1. txn[r] \in Header
      BY <1>2, <2>2 DEF EditReversals, ReversalsFound, LiveReversals, LedgerInv, LedgerTypeOK
    <3> QED BY <1>1, <2>2, <3>1 DEF TargetOn, RequestRow, Header
  <2> QED BY <2>1, <2>2
<1>4. target(r) # Keep
  BY <1>3, LedgerConstants DEF Dates
<1> HIDE DEF target
<1>5. settled(r) \in RequestRow
  BY <1>1, <1>3, SettledRow
<1>6. /\ settled(r).op = "edit" /\ settled(r).t = t /\ settled(r).held = req[s].held
      /\ settled(r).cur = t /\ settled(r).stage = "reversal" /\ ~settled(r).kept
      /\ settled(r).posting = req[s].posting /\ settled(r).reverseOn = target(r)
      /\ settled(r).kind = req[s].kind
  BY <1>1 DEF RequestRow
<1> DEFINE q0 == settled(r)
<1>7. q0 \in RequestRow /\ q0.op = "edit" /\ q0.t = t /\ q0.held = req[s].held
      /\ q0.cur = t /\ q0.stage = "reversal" /\ ~q0.kept
      /\ q0.posting = req[s].posting /\ q0.reverseOn = target(r) /\ q0.kind = req[s].kind
  BY <1>5, <1>6
<1>8. InputsKnown(req[s]) /\ req[s].posting \in Postings
  BY <1>1 DEF InputsKnown
<1>9. CASE /\ r # None
           /\ req' = [req EXCEPT ![s] = [settled(r) EXCEPT !.stage = "commit", !.kept = TRUE,
                                                           !.held = @ \cup {r}]]
  <2> DEFINE q == [q0 EXCEPT !.stage = "commit", !.kept = TRUE, !.held = @ \cup {r}]
  <2>1. req' = [req EXCEPT ![s] = q] /\ r \in ReversalsFound(t) /\ r \in Txns /\ Lockable(r)
        /\ ~LooksForNone(req[s]) /\ req[s].kind = "journal_entry"
    <3>1. r \in EditReversals(req[s]) /\ req[s].op = "edit"
      BY <1>1, <1>2, <1>9
    <3>2. req[s].kind = "journal_entry" /\ r \in ReversalsFound(t)
      BY <3>1 DEF EditReversals
    <3>3. r \in Txns
      BY <3>2 DEF ReversalsFound, LiveReversals
    <3> QED
      BY <1>1, <1>2, <1>9, <3>1, <3>2, <3>3 DEF LooksForNone
  <2> HIDE DEF settled, q0, t
  <2>2. q \in RequestRow
    BY <1>1, <1>7, <2>1 DEF RequestRow
  <2>3. /\ q.op = "edit" /\ q.t = t /\ q.held = req[s].held \cup {r} /\ q.cur = t
        /\ q.stage = "commit" /\ q.kept /\ q.posting = req[s].posting /\ q.reverseOn = target(r)
        /\ q.kind = req[s].kind
    BY <1>7 DEF RequestRow
  <2> HIDE DEF q
  <2>4. /\ HeldRowsStand(q) /\ ChainHeld(q)
        /\ \A u \in Requests \ {s} : q.held \cap req[u].held = {}
    BY <1>1, <2>1, <2>2, <2>3, LongerChain DEF t
  <2>5. InputsKnown(q)
    BY <1>4, <1>8, <2>1, <2>3 DEF InputsKnown
  <2> QED BY <1>1, <2>1, <2>2, <2>4, <2>5, QuietStep
<1>10. CASE r = None /\ req' = [req EXCEPT ![s] = [settled(r) EXCEPT !.stage = "commit"]]
  <2> DEFINE q == [q0 EXCEPT !.stage = "commit"]
  <2>1. req' = [req EXCEPT ![s] = q]
    BY <1>10
  <2>2. EditReversals(req[s]) = {}
    BY <1>2, <1>10, LedgerConstants DEF ReversalOf, EditReversals, ReversalsFound, LiveReversals
  <2>8. target(r) = None \/ req[s].kind = "journal_entry"
    BY <1>1, <1>10 DEF InputsKnown, TargetOn, target
  <2> HIDE DEF settled, q0
  <2>3. q \in RequestRow
    BY <1>7 DEF RequestRow
  <2>4. /\ q.op = "edit" /\ q.t = t /\ q.held = req[s].held /\ q.cur = t
        /\ q.stage = "commit" /\ ~q.kept /\ q.posting = req[s].posting /\ q.reverseOn = target(r)
        /\ q.kind = req[s].kind
    BY <1>7 DEF RequestRow
  <2> HIDE DEF q
  <2>5. HeldRowsStand(q) /\ ChainHeld(q)
    BY <1>1, <2>2, <2>4 DEF HeldRowsStand, ChainHeld, LooksForNone, EditReversals
  <2>6. InputsKnown(q)
    BY <1>4, <1>8, <2>4, <2>8 DEF InputsKnown
  <2>7. \A u \in Requests \ {s} : q.held \cap req[u].held = {}
    BY <2>4 DEF LedgerInv, LockDiscipline, LocksExclusive
  <2> QED BY <1>1, <2>1, <2>3, <2>5, <2>6, <2>7, QuietStep
<1>11. CASE /\ r # None
            /\ req' = [req EXCEPT ![s] = [settled(r) EXCEPT !.held = @ \cup {r}, !.cur = r]]
  <2> DEFINE q == [q0 EXCEPT !.held = @ \cup {r}, !.cur = r]
  <2>1. req' = [req EXCEPT ![s] = q] /\ r \in ReversalsFound(t) /\ r \in Txns /\ Lockable(r)
        /\ ~LooksForNone(req[s]) /\ req[s].kind = "journal_entry"
    <3>1. r \in EditReversals(req[s]) /\ req[s].op = "edit"
      BY <1>1, <1>2, <1>11
    <3>2. req[s].kind = "journal_entry" /\ r \in ReversalsFound(t)
      BY <3>1 DEF EditReversals
    <3>3. r \in Txns
      BY <3>2 DEF ReversalsFound, LiveReversals
    <3> QED
      BY <1>1, <1>2, <1>11, <3>1, <3>2, <3>3 DEF LooksForNone
  <2> HIDE DEF settled, q0, t
  <2>2. q \in RequestRow
    BY <1>1, <1>7, <2>1 DEF RequestRow
  <2>3. /\ q.op = "edit" /\ q.t = t /\ q.held = req[s].held \cup {r} /\ q.cur = r
        /\ q.stage = "reversal" /\ ~q.kept /\ q.posting = req[s].posting /\ q.reverseOn = target(r)
        /\ q.kind = req[s].kind
    BY <1>7 DEF RequestRow
  <2> HIDE DEF q
  <2>4. /\ HeldRowsStand(q) /\ ChainHeld(q)
        /\ \A u \in Requests \ {s} : q.held \cap req[u].held = {}
    BY <1>1, <2>1, <2>2, <2>3, LongerChain DEF t
  <2>5. InputsKnown(q)
    BY <1>4, <1>8, <2>1, <2>3 DEF InputsKnown
  <2> QED BY <1>1, <2>1, <2>2, <2>4, <2>5, QuietStep
<1> QED BY <1>2, <1>9, <1>10, <1>11

LEMMA RollbackStep ==
    ASSUME LedgerInv, NEW s \in Requests, Rollback(s)
    PROVE  LedgerInv'
<1>1. HeldRowsStand(Idle) /\ ChainHeld(Idle) /\ InputsKnown(Idle) /\ Idle.held = {}
  BY DEF HeldRowsStand, ChainHeld, LooksForNone, InputsKnown, Idle
<1> QED BY <1>1, IdleRow, QuietStep DEF Rollback

LEMMA SetClosingDateStep ==
    ASSUME LedgerInv, NEW d \in ClosingDates, SetClosingDate(d)
    PROVE  LedgerInv'
<1>1. \A s \in Requests : req[s] \in RequestRow
  BY DEF LedgerInv, LedgerTypeOK
<1>2. ASSUME NEW s \in Requests
      PROVE  /\ req'[s] \in RequestRow
             /\ req'[s].op = req[s].op /\ req'[s].stage = req[s].stage /\ req'[s].t = req[s].t
             /\ req'[s].held = req[s].held /\ req'[s].cur = req[s].cur
             /\ req'[s].kept = req[s].kept /\ req'[s].kind = req[s].kind /\ req'[s].posting = req[s].posting
             /\ req'[s].reverseOn = req[s].reverseOn
  BY <1>1 DEF SetClosingDate, RequestRow
<1>3. req' \in [Requests -> RequestRow]
  BY <1>2 DEF SetClosingDate
<1>4. LedgerTypeOK'
  BY <1>3 DEF SetClosingDate, LedgerInv, LedgerTypeOK
<1>5. NoOrphanReversal' /\ OneLiveReversal' /\ OriginalsInserted'
  BY DEF SetClosingDate, LedgerInv, NoOrphanReversal, OneLiveReversal, OriginalsInserted, LiveReversals, Live
<1>6. LocksExclusive'
  BY <1>2 DEF LedgerInv, LockDiscipline, LocksExclusive
<1>7. ASSUME NEW s \in Requests
      PROVE  HeldRowsStand(req[s])' /\ ChainHeld(req[s])' /\ InputsKnown(req[s])'
  BY <1>2, SetClosingDate(d)
     DEF SetClosingDate, LedgerInv, LockDiscipline, HeldRowsStand, ChainHeld, InputsKnown,
         LooksForNone, ReversalsFound, LiveReversals, Live
<1> QED BY <1>4, <1>5, <1>6, <1>7 DEF LedgerInv, LockDiscipline

LEMMA CommitPostStep ==
    ASSUME LedgerInv, NEW s \in Requests, CommitPost(s)
    PROVE  LedgerInv'
<1> DEFINE q == req[s]
<1>1. /\ q \in RequestRow /\ q.posting \in Postings /\ q.reverseOn \in Dates \cup {None}
      /\ q.held = {} /\ q.op = "post"
  BY LedgerConstants
     DEF LedgerInv, LockDiscipline, LedgerTypeOK, RequestRow, CommitPost, HeldRowsStand, InputsKnown
<1> DEFINE posted(t, r) ==
             /\ txn' = [u \in Txns |-> IF u = t THEN PostedRow(q.kind, q.date, None)
                                       ELSE IF u = r THEN PostedRow("journal_entry", q.reverseOn, t)
                                       ELSE txn[u]]
             /\ lines' = lines \cup (NewLines(t, 0, q.posting) \cup
                           (IF r = None THEN {} ELSE NewLines(r, 0, Negated(q.posting))))
<1>0. PICK t \in Fresh : \E r \in IF q.reverseOn = None THEN {None} ELSE Fresh \ {t} : posted(t, r)
  BY DEF CommitPost
<1>2. PICK r \in IF q.reverseOn = None THEN {None} ELSE Fresh \ {t} : posted(t, r)
  BY <1>0
<1>3. /\ t \in Txns /\ r # t /\ (r # None => r \in Fresh /\ r \in Txns /\ q.reverseOn \in Dates)
      /\ \A u \in Fresh : u \in Txns /\ ~Live(u)
      /\ None \notin Txns /\ 0 \in 0..MaxEdits
  BY <1>1, <1>2, LedgerConstants DEF Fresh, Live
<1>4. /\ txn'[t] = PostedRow(q.kind, q.date, None)
      /\ r # None => txn'[r] = PostedRow("journal_entry", q.reverseOn, t)
      /\ \A u \in Txns : u # t /\ u # r => txn'[u] = txn[u]
  BY <1>2, <1>3
<1>5. \A u \in Txns : txn'[u] \in Header
  <2>1. txn'[t] \in Header
    BY <1>1, <1>4, PostedRowType DEF RequestRow
  <2>2. r # None => txn'[r] \in Header
    BY <1>3, <1>4, PostedRowType, LedgerConstants
  <2>3. \A u \in Txns : txn[u] \in Header
    BY DEF LedgerInv, LedgerTypeOK
  <2> QED BY <1>3, <1>4, <2>1, <2>2, <2>3
<1>6. txn' \in [Txns -> Header]
  BY <1>2, <1>5
<1>7. lines' \subseteq Line
  <2>1. NewLines(t, 0, q.posting) \subseteq Line
    BY <1>1, <1>3, PostingTypes, NewLinesType
  <2>2. r # None => NewLines(r, 0, Negated(q.posting)) \subseteq Line
    BY <1>1, <1>3, PostingTypes, NewLinesType
  <2> QED BY <1>2, <2>1, <2>2 DEF LedgerInv, LedgerTypeOK
<1>8. \A u \in Txns : txn'[u].status = "posted" =>
          \/ u = r /\ r # None /\ txn'[u].reverses = t
          \/ u = t /\ txn'[u].reverses = None
          \/ u # r /\ Live(u) /\ txn'[u].reverses = txn[u].reverses
  BY <1>3, <1>4 DEF PostedRow, Live
<1>9. txn'[t].status = "posted"
  BY <1>4 DEF PostedRow
<1>10. NoOrphanReversal'
  <2> SUFFICES ASSUME NEW u \in Txns, NEW o \in Txns, txn'[u].status = "posted", txn'[u].reverses = o,
                      txn'[o].kind = "journal_entry"
               PROVE  txn'[o].status = "posted"
    BY DEF NoOrphanReversal, Live
  <2>1. CASE o = t \/ o = r
    BY <1>3, <1>4, <1>9, <2>1 DEF PostedRow
  <2>2. CASE o # t /\ o # r
    <3>1. txn'[o] = txn[o] /\ Live(u) /\ txn[u].reverses = o
      BY <1>3, <1>4, <1>8, <2>2
    <3> QED BY <3>1 DEF LedgerInv, NoOrphanReversal, Live
  <2> QED BY <2>1, <2>2
<1>15. OriginalsInserted'
  <2> SUFFICES ASSUME NEW u \in Txns, NEW o \in Txns, txn'[u].status = "posted", txn'[u].reverses = o
               PROVE  txn'[o].status # "absent"
    BY DEF OriginalsInserted, Live
  <2>1. CASE o = t \/ o = r
    BY <1>3, <1>4, <1>9, <2>1 DEF PostedRow
  <2>2. CASE o # t /\ o # r
    <3>1. txn'[o] = txn[o] /\ Live(u) /\ txn[u].reverses = o
      BY <1>3, <1>4, <1>8, <2>2
    <3> QED BY <3>1 DEF LedgerInv, OriginalsInserted
  <2> QED BY <2>1, <2>2
<1>16. ASSUME NEW w \in Txns, Live(w)
       PROVE  txn[w].reverses # t /\ (r # None => txn[w].reverses # r)
  BY <1>2, <1>3, <1>16 DEF LedgerInv, OriginalsInserted, Fresh
<1>11. OneLiveReversal'
  <2> SUFFICES ASSUME NEW o \in Txns, NEW u \in Txns, NEW v \in Txns, txn'[o].kind = "journal_entry",
                      txn'[u].status = "posted", txn'[u].reverses = o,
                      txn'[v].status = "posted", txn'[v].reverses = o
               PROVE  u = v
    BY DEF OneLiveReversal, LiveReversals, Live
  <2>1. ASSUME NEW w \in Txns, Live(w), txn[w].reverses = o
        PROVE  o # t /\ txn'[o] = txn[o]
    BY <1>3, <1>4, <1>16, <2>1
  <2>2. txn[o].kind = "journal_entry" /\ Live(u) /\ txn[u].reverses = o /\ Live(v) /\ txn[v].reverses = o
          => u = v
    BY DEF LedgerInv, OneLiveReversal, LiveReversals
  <2> QED BY <1>3, <1>8, <2>1, <2>2
<1>12. \A u \in Txns : txn'[u] = txn[u] \/ u \in req[s].held \/ u \in Fresh
  BY <1>2, <1>3, <1>4
<1>13. \A u \in Txns : txn'[u].status = "posted" =>
          \/ Live(u) /\ txn'[u].reverses = txn[u].reverses
          \/ txn'[u].reverses \in req[s].held \cup Fresh \cup {None}
  BY <1>2, <1>8
<1>14. req' = [req EXCEPT ![s] = Idle] /\ UNCHANGED lockDate
  BY DEF CommitPost
<1> HIDE DEF q
<1> QED BY <1>6, <1>7, <1>10, <1>15, <1>11, <1>12, <1>13, <1>14, CommitStep

\* The lines a void or a delete writes to take back what is still posted.
LEMMA BackLines ==
    ASSUME LedgerInv, NEW T \in SUBSET Txns
    PROVE  /\ Swapped(UNION {LinesOf(t) : t \in T}) \subseteq Line
           /\ \A l \in Swapped(UNION {LinesOf(t) : t \in T}) : l.txn \in T
<1> DEFINE L == UNION {LinesOf(t) : t \in T}
<1>1. L \subseteq Line /\ \A k \in L : k.txn \in T
  BY DEF LedgerInv, LedgerTypeOK, LinesOf
<1> HIDE DEF L
<1>2. Swapped(L) \subseteq Line /\ \A l \in Swapped(L) : l.txn \in T
  BY <1>1, SwappedType
<1> QED BY <1>2 DEF L

\* Taking a whole chain out of the books: the rows held stop being posted.
LEMMA ChainStep ==
    ASSUME LedgerInv, NEW s \in Requests, req[s].op \in {"void", "delete"}, req[s].stage = "commit",
           req' = [req EXCEPT ![s] = Idle], UNCHANGED lockDate, NEW back, back \subseteq Line,
           lines' = lines \cup back, txn' \in [Txns -> Header],
           \A t \in Txns \ req[s].held : txn'[t] = txn[t],
           \A t \in req[s].held : /\ txn'[t].status \in {"void", "deleted"}
                                   /\ txn'[t].reverses = txn[t].reverses /\ txn'[t].kind = txn[t].kind
    PROVE  LedgerInv'
<1>1. req[s].held \subseteq Txns /\ ChainHeld(req[s]) /\ ~req[s].kept
  BY DEF LedgerInv, LockDiscipline, ChainHeld, LedgerTypeOK, RequestRow
<1>2. \A t \in Txns : txn'[t].status = "posted" =>
          t \notin req[s].held /\ Live(t) /\ txn'[t].reverses = txn[t].reverses
  BY <1>1 DEF Live
<1>6. \A t \in Txns : txn'[t].kind = txn[t].kind
  OBVIOUS
<1>3. NoOrphanReversal'
  <2> SUFFICES ASSUME NEW u \in Txns, NEW o \in Txns, txn'[u].status = "posted", txn'[u].reverses = o,
                      txn'[o].kind = "journal_entry"
               PROVE  txn'[o].status = "posted"
    BY DEF NoOrphanReversal, Live
  <2>1. u \notin req[s].held /\ Live(u) /\ txn[u].reverses = o /\ txn[o].kind = "journal_entry"
    BY <1>2, <1>6
  <2>2. Live(o)
    BY <2>1 DEF LedgerInv, NoOrphanReversal
  <2>3. o \notin req[s].held
    BY <1>1, <2>1 DEF ChainHeld, LooksForNone, ReversalsFound, LiveReversals
  <2> QED BY <2>2, <2>3 DEF Live
<1>4. OneLiveReversal'
  BY <1>2, <1>6 DEF LedgerInv, OneLiveReversal, LiveReversals, Live
<1>7. OriginalsInserted'
  <2> SUFFICES ASSUME NEW u \in Txns, NEW o \in Txns, txn'[u].status = "posted", txn'[u].reverses = o
               PROVE  txn'[o].status # "absent"
    BY DEF OriginalsInserted, Live
  <2>1. txn[o].status # "absent"
    BY <1>2 DEF LedgerInv, OriginalsInserted
  <2> QED BY <2>1
<1>5. lines' \subseteq Line
  BY DEF LedgerInv, LedgerTypeOK
<1> QED BY <1>1, <1>2, <1>3, <1>4, <1>5, <1>7, CommitStep

\* A row stays one when it is voided or deleted, and what it reverses stays.
LEMMA TakenOut ==
    ASSUME NEW h \in Header, NEW status \in {"void", "deleted"}, NEW g, g = [h EXCEPT !.status = status, !.touched = TRUE]
    PROVE  g \in Header /\ g.status = status /\ g.reverses = h.reverses /\ g.kind = h.kind
<1>1. [h EXCEPT !.status = status, !.touched = TRUE] \in Header
  BY Zenon DEF Header, Statuses
<1>2. g.status = status /\ g.reverses = h.reverses /\ g.kind = h.kind
  BY DEF Header
<1> QED BY <1>1, <1>2

LEMMA CommitVoidStep ==
    ASSUME LedgerInv, NEW s \in Requests, CommitVoid(s)
    PROVE  LedgerInv'
<1>1. req[s].held \subseteq Txns /\ txn \in [Txns -> Header]
  BY DEF LedgerInv, LedgerTypeOK, RequestRow
<1>2. Swapped(UNION {LinesOf(t) : t \in req[s].held}) \subseteq Line
  BY <1>1, BackLines
<1>3. /\ txn' \in [Txns -> Header]
      /\ \A t \in Txns \ req[s].held : txn'[t] = txn[t]
      /\ \A t \in req[s].held : txn'[t].status \in {"void", "deleted"} /\ txn'[t].reverses = txn[t].reverses /\ txn'[t].kind = txn[t].kind
  <2>1. txn' = [t \in Txns |-> IF t \in req[s].held THEN [txn[t] EXCEPT !.status = "void", !.touched = TRUE]
                                ELSE txn[t]]
    BY DEF CommitVoid
  <2>2. ASSUME NEW t \in req[s].held
        PROVE  txn'[t] \in Header /\ txn'[t].status = "void" /\ txn'[t].reverses = txn[t].reverses /\ txn'[t].kind = txn[t].kind
    <3>1. txn[t] \in Header /\ txn'[t] = [txn[t] EXCEPT !.status = "void", !.touched = TRUE]
      BY <1>1, <2>1
    <3> QED BY <3>1, TakenOut
  <2>3. \A t \in Txns \ req[s].held : txn'[t] = txn[t] /\ txn'[t] \in Header
    BY <1>1, <2>1
  <2> QED BY <1>1, <2>1, <2>2, <2>3
<1> QED BY <1>2, <1>3, ChainStep DEF CommitVoid

LEMMA CommitDeleteStep ==
    ASSUME LedgerInv, NEW s \in Requests, CommitDelete(s)
    PROVE  LedgerInv'
<1>1. req[s].held \subseteq Txns /\ txn \in [Txns -> Header]
  BY DEF LedgerInv, LedgerTypeOK, RequestRow
<1>2. DeleteBack(req[s].held) \subseteq Line
  BY <1>1, BackLines DEF DeleteBack
<1>3. /\ txn' \in [Txns -> Header]
      /\ \A t \in Txns \ req[s].held : txn'[t] = txn[t]
      /\ \A t \in req[s].held : txn'[t].status \in {"void", "deleted"} /\ txn'[t].reverses = txn[t].reverses /\ txn'[t].kind = txn[t].kind
  <2>1. txn' = [t \in Txns |-> IF t \in req[s].held THEN DeleteRow(t) ELSE txn[t]]
    BY DEF CommitDelete
  <2>2. ASSUME NEW t \in req[s].held
        PROVE  txn'[t] \in Header /\ txn'[t].status = "deleted" /\ txn'[t].reverses = txn[t].reverses /\ txn'[t].kind = txn[t].kind
    <3>1. txn[t] \in Header /\ txn'[t] = [txn[t] EXCEPT !.status = "deleted", !.touched = TRUE]
      BY <1>1, <2>1 DEF DeleteRow
    <3> QED BY <3>1, TakenOut
  <2>3. \A t \in Txns \ req[s].held : txn'[t] = txn[t] /\ txn'[t] \in Header
    BY <1>1, <2>1
  <2> QED BY <1>1, <2>1, <2>2, <2>3
<1> QED BY <1>2, <1>3, ChainStep DEF CommitDelete

\* An edit: the edited row stays posted, the reversals it supersedes go, and
\* the one new reversal is of the edited row.
LEMMA CommitEditStep ==
    ASSUME LedgerInv, NEW s \in Requests, CommitEdit(s)
    PROVE  LedgerInv'
<1> DEFINE q    == req[s]
           gone == Superseded(q)
           saved(r) ==
             /\ txn' = [u \in Txns |->
                          IF u = q.t THEN [txn[u] EXCEPT !.date = q.date, !.ver = @ + 1, !.touched = TRUE]
                          ELSE IF u \in gone THEN DeleteRow(u)
                          ELSE IF u = r THEN PostedRow("journal_entry", q.reverseOn, q.t)
                          ELSE txn[u]]
             /\ lines' = (lines \ Replaced(q)) \cup
                         (Replacing(q) \cup DeleteBack(gone) \cup
                          (IF r = None THEN {} ELSE NewLines(r, 0, Negated(q.posting))))
<1>1. /\ q \in RequestRow /\ q.posting \in Postings /\ q.reverseOn \in Dates \cup {None}
      /\ HeldRowsStand(q) /\ ChainHeld(q) /\ q.op = "edit" /\ q.stage = "commit"
      /\ (q.kind # "journal_entry" => q.reverseOn = None)
  BY LedgerConstants DEF LedgerInv, LockDiscipline, LedgerTypeOK, RequestRow, CommitEdit, InputsKnown
<1>2. PICK r \in IF q.reverseOn = None \/ q.kept THEN {None} ELSE Fresh : saved(r)
  BY DEF CommitEdit
<1>3. /\ q.t \in Txns /\ q.t \in q.held /\ q.held \subseteq Txns /\ Live(q.t)
      /\ txn[q.t] \in Header /\ txn[q.t].ver < MaxEdits
      /\ gone \subseteq q.held \ {q.t} /\ \A h \in gone : Live(h)
  BY <1>1 DEF HeldRowsStand, RequestRow, Superseded, LedgerInv, LedgerTypeOK
<1>4. /\ None \notin Txns /\ 0 \in 0..MaxEdits /\ txn[q.t].ver + 1 \in 0..MaxEdits
      /\ r # None => r \in Fresh /\ r \in Txns /\ r # q.t /\ r \notin gone /\ q.reverseOn \in Dates /\ ~q.kept
      /\ \A u \in Fresh : u \in Txns /\ ~Live(u)
  <2> HIDE DEF saved
  <2>1. None \notin Txns /\ 0 \in 0..MaxEdits /\ txn[q.t].ver + 1 \in 0..MaxEdits
    BY <1>3, LedgerConstants DEF Header
  <2>2. \A u \in Fresh : u \in Txns /\ ~Live(u)
    BY DEF Fresh, Live
  <2>3. r # None => r \in Fresh /\ q.reverseOn \in Dates /\ ~q.kept
    BY <1>1, <1>2
  <2> HIDE DEF gone, q
  <2> QED BY <1>3, <2>1, <2>2, <2>3
<1>5. \A u \in Txns : txn[u] \in Header
  BY DEF LedgerInv, LedgerTypeOK
<1> HIDE DEF gone
<1>6. txn'[q.t] = [txn[q.t] EXCEPT !.date = q.date, !.ver = @ + 1, !.touched = TRUE]
  BY <1>2, <1>3
<1>18. \A u \in gone : txn'[u] = DeleteRow(u)
  BY <1>2, <1>3
<1>19. r # None => txn'[r] = PostedRow("journal_entry", q.reverseOn, q.t)
  BY <1>2, <1>3, <1>4
<1>20. \A u \in Txns : u # q.t /\ u \notin gone /\ u # r => txn'[u] = txn[u]
  BY <1>2
<1>21. lines' = (lines \ Replaced(q)) \cup (Replacing(q) \cup DeleteBack(gone) \cup
                  (IF r = None THEN {} ELSE NewLines(r, 0, Negated(q.posting))))
  BY <1>2
<1>22. DOMAIN txn' = Txns /\ txn' = [u \in Txns |-> txn'[u]]
  BY <1>2
<1> HIDE DEF saved
<1>7. txn' \in [Txns -> Header]
  <2>1. txn'[q.t] \in Header
    BY <1>1, <1>3, <1>4, <1>6 DEF Header, RequestRow
  <2>2. \A u \in gone : txn'[u] \in Header
    BY <1>3, <1>5, <1>18, DeleteRowType
  <2>3. r # None => txn'[r] \in Header
    BY <1>3, <1>4, <1>19, PostedRowType
  <2>4. \A u \in Txns : txn'[u] \in Header
    BY <1>4, <1>5, <1>20, <2>1, <2>2, <2>3
  <2> QED BY <1>22, <2>4
<1>8. lines' \subseteq Line
  <2>1. Replacing(q) \subseteq Line
    BY <1>1, <1>3, <1>4, PostingTypes, NewLinesType DEF Replacing
  <2>2. DeleteBack(gone) \subseteq Line
    BY <1>3, BackLines DEF DeleteBack
  <2>3. r # None => NewLines(r, 0, Negated(q.posting)) \subseteq Line
    BY <1>1, <1>4, PostingTypes, NewLinesType
  <2> QED BY <1>21, <2>1, <2>2, <2>3 DEF LedgerInv, LedgerTypeOK
<1>9. /\ txn'[q.t].status = "posted" /\ txn'[q.t].reverses = txn[q.t].reverses
      /\ \A u \in gone \cup {q.t} : txn'[u].kind = txn[u].kind
      /\ \A u \in gone : txn'[u].status = "deleted"
      /\ r # None => txn'[r].reverses = q.t
  <2>1. txn'[q.t].status = "posted" /\ txn'[q.t].reverses = txn[q.t].reverses
    BY <1>3, <1>6 DEF Header, Live
  <2>2. \A u \in gone : txn'[u].status = "deleted"
    BY <1>3, <1>5, <1>18, DeleteRowType
  <2>3. r # None => txn'[r].reverses = q.t
    BY <1>19 DEF PostedRow
  <2>5. txn'[q.t].kind = txn[q.t].kind
    BY <1>3, <1>6 DEF Header
  <2>6. ASSUME NEW u \in gone
        PROVE  txn'[u].kind = txn[u].kind
    <3>1. txn[u] \in Header /\ txn'[u] = [txn[u] EXCEPT !.status = "deleted", !.touched = TRUE]
      BY <1>3, <1>5, <1>18 DEF DeleteRow
    <3> QED BY <3>1, TakenOut
  <2>4. \A u \in gone \cup {q.t} : txn'[u].kind = txn[u].kind
    BY <2>5, <2>6
  <2> QED BY <2>1, <2>2, <2>3, <2>4
<1>10. \A u \in Txns : txn'[u].status = "posted" =>
          \/ u = r /\ r # None /\ txn'[u].reverses = q.t
          \/ u # r /\ u \notin gone /\ Live(u) /\ txn'[u].reverses = txn[u].reverses
  BY <1>3, <1>4, <1>20, <1>9 DEF Live
<1>11. ~q.kept /\ q.kind = "journal_entry" =>
          gone = q.held \ {q.t} /\ \A h \in q.held : ReversalsFound(h) \subseteq gone
  BY <1>1 DEF ChainHeld, LooksForNone, Superseded, gone
<1>12. /\ q.kept => gone = {} /\ r = None
       /\ q.kind # "journal_entry" => gone = {} /\ r = None
  BY <1>1, <1>2 DEF Superseded, gone, ChainHeld, LooksForNone
<1>23. \A u \in Txns : u # r => txn'[u].kind = txn[u].kind
  BY <1>9, <1>20
<1>24. r # None => txn'[r].status = "posted"
  BY <1>19 DEF PostedRow
<1>13. NoOrphanReversal'
  <2> SUFFICES ASSUME NEW u \in Txns, NEW o \in Txns, txn'[u].status = "posted", txn'[u].reverses = o,
                      txn'[o].kind = "journal_entry", o # q.t, o # r
               PROVE  txn'[o].status = "posted"
    BY <1>4, <1>9, <1>24 DEF NoOrphanReversal, Live
  <2>1. u \notin gone /\ Live(u) /\ txn[u].reverses = o /\ txn[o].kind = "journal_entry"
    BY <1>10, <1>23
  <2>2. Live(o)
    BY <2>1 DEF LedgerInv, NoOrphanReversal
  <2>3. o \notin gone
    BY <1>3, <1>11, <1>12, <2>1 DEF ReversalsFound, LiveReversals
  <2> QED BY <1>20, <2>2, <2>3 DEF Live
<1>25. OriginalsInserted'
  <2> SUFFICES ASSUME NEW u \in Txns, NEW o \in Txns, txn'[u].status = "posted", txn'[u].reverses = o,
                      o # q.t, o # r, o \notin gone
               PROVE  txn'[o].status # "absent"
    BY <1>4, <1>9, <1>24 DEF OriginalsInserted, Live
  <2>1. Live(u) /\ txn[u].reverses = o
    BY <1>10
  <2> QED BY <1>20, <2>1 DEF LedgerInv, OriginalsInserted
<1>14. OneLiveReversal'
  <2> SUFFICES ASSUME NEW o \in Txns, NEW u \in Txns, NEW v \in Txns, txn'[o].kind = "journal_entry",
                      txn'[u].status = "posted", txn'[u].reverses = o,
                      txn'[v].status = "posted", txn'[v].reverses = o
               PROVE  u = v
    BY DEF OneLiveReversal, LiveReversals, Live
  <2>1. ASSUME NEW w \in Txns, Live(w), txn[w].reverses = o
        PROVE  txn[o].kind = "journal_entry"
    <3>1. o # r
      BY <1>4, <2>1 DEF LedgerInv, OriginalsInserted, Fresh
    <3> QED BY <1>23, <3>1
  <2>2. Live(u) /\ txn[u].reverses = o /\ Live(v) /\ txn[v].reverses = o => u = v
    BY <2>1 DEF LedgerInv, OneLiveReversal, LiveReversals
  <2>3. ASSUME NEW w \in Txns, r # None, Live(w), w \notin gone, txn[w].reverses = o
        PROVE  o # q.t
    BY <1>3, <1>4, <1>11, <1>12, <2>1, <2>3 DEF ReversalsFound, LiveReversals
  <2> QED BY <1>10, <2>2, <2>3
<1>15. \A u \in Txns : txn'[u] = txn[u] \/ u \in req[s].held \/ u \in Fresh
  BY <1>3, <1>4, <1>20
<1>16. \A u \in Txns : txn'[u].status = "posted" =>
          \/ Live(u) /\ txn'[u].reverses = txn[u].reverses
          \/ txn'[u].reverses \in req[s].held \cup Fresh \cup {None}
  BY <1>3, <1>10
<1>17. req' = [req EXCEPT ![s] = Idle] /\ UNCHANGED lockDate
  BY DEF CommitEdit
<1> HIDE DEF q
<1> QED BY <1>7, <1>8, <1>13, <1>25, <1>14, <1>15, <1>16, <1>17, CommitStep

\* Lines moved to another category keep their transaction.
LEMMA MovedType ==
    ASSUME NEW L \in SUBSET Line, NEW a \in Accounts
    PROVE  MovedTo(L, a) \subseteq Line /\ \A l \in MovedTo(L, a) : \E k \in L : l.txn = k.txn
<1> SUFFICES ASSUME NEW k \in L
             PROVE  [k EXCEPT !.acct = a] \in Line /\ [k EXCEPT !.acct = a].txn = k.txn
  BY DEF MovedTo
<1>1. k \in Line
  OBVIOUS
<1> QED BY <1>1 DEF Line

\* The lines a bulk edit moves are those of rows it has locked.
LEMMA RecategorizedLines ==
    ASSUME LedgerInv, NEW s \in Requests
    PROVE  /\ Recategorized(req[s]) \subseteq lines /\ Recategorized(req[s]) \in SUBSET Line
           /\ \A l \in Recategorized(req[s]) : l.txn \in req[s].held /\ l.acct \in Categories
           /\ req[s].to = None => Recategorized(req[s]) = {}
BY DEF Recategorized, CategoryLines, LinesOf, LedgerInv, LedgerTypeOK

LEMMA MovedLines ==
    ASSUME LedgerInv, NEW s \in Requests
    PROVE  /\ MovedTo(Recategorized(req[s]), req[s].to) \subseteq Line
           /\ \A l \in MovedTo(Recategorized(req[s]), req[s].to) : l.txn \in req[s].held
<1>1. CASE req[s].to = None
  BY <1>1, RecategorizedLines DEF MovedTo
<1>2. CASE req[s].to # None
  <2>1. req[s].to \in Accounts
    BY <1>2, LedgerConstants DEF LedgerInv, LedgerTypeOK, RequestRow
  <2> QED BY <2>1, RecategorizedLines, MovedType
<1> QED BY <1>1, <1>2

LEMMA CommitBulkStep ==
    ASSUME LedgerInv, NEW s \in Requests, CommitBulk(s)
    PROVE  LedgerInv'
<1>1. /\ req[s] \in RequestRow /\ txn \in [Txns -> Header] /\ lines \subseteq Line
      /\ req' = [req EXCEPT ![s] = Idle] /\ UNCHANGED lockDate
  BY DEF LedgerInv, LedgerTypeOK, CommitBulk
<1>2. txn' = [t \in Txns |-> IF t \in req[s].held /\ req[s].to = None THEN [txn[t] EXCEPT !.touched = TRUE]
                              ELSE txn[t]]
  BY DEF CommitBulk
<1>3. ASSUME NEW t \in Txns
      PROVE  /\ txn'[t] \in Header /\ txn'[t].status = txn[t].status /\ txn'[t].kind = txn[t].kind
             /\ txn'[t].reverses = txn[t].reverses /\ (txn'[t] = txn[t] \/ t \in req[s].held)
  <2>1. txn[t] \in Header
    BY <1>1
  <2> QED BY <1>2, <2>1 DEF Header
<1>4. txn' \in [Txns -> Header]
  BY <1>2, <1>3
<1>5. lines' \subseteq Line
  BY <1>1, MovedLines DEF CommitBulk
<1>6. NoOrphanReversal' /\ OneLiveReversal' /\ OriginalsInserted'
  BY <1>3 DEF LedgerInv, NoOrphanReversal, OneLiveReversal, OriginalsInserted, LiveReversals, Live
<1>7. \A r \in Txns : txn'[r].status = "posted" => Live(r) /\ txn'[r].reverses = txn[r].reverses
  BY <1>3 DEF Live
<1> QED BY <1>1, <1>3, <1>4, <1>5, <1>6, <1>7, CommitStep

-----------------------------------------------------------------------------
(* The invariant, and what follows from it *)

LEMMA LedgerInitInv == LedgerInit => LedgerInv
<1> SUFFICES ASSUME LedgerInit
             PROVE  LedgerInv
  OBVIOUS
<1>1. LedgerTypeOK
  BY IdleRow, LedgerConstants DEF LedgerInit, LedgerTypeOK, Header, Statuses, Dates
<1>2. NoOrphanReversal /\ OneLiveReversal /\ OriginalsInserted
  BY DEF LedgerInit, NoOrphanReversal, OneLiveReversal, OriginalsInserted, LiveReversals, Live
<1>3. LockDiscipline /\ \A s \in Requests : InputsKnown(req[s])
  BY DEF LedgerInit, LockDiscipline, LocksExclusive, HeldRowsStand, ChainHeld, LooksForNone,
     InputsKnown, Idle
<1> QED BY <1>1, <1>2, <1>3 DEF LedgerInv

LEMMA LedgerNextInv == LedgerInv /\ [LedgerNext]_<<ledgerVars, recs>> => LedgerInv'
<1> SUFFICES ASSUME LedgerInv, [LedgerNext]_<<ledgerVars, recs>>
             PROVE  LedgerInv'
  OBVIOUS
<1>1. ASSUME NEW s \in Requests, NEW p \in Postings, NEW k \in Kinds, NEW d \in Dates,
             NEW ro \in Dates \cup {None}, BeginPost(s, p, k, d, ro)
      PROVE  LedgerInv'
  BY <1>1, BeginPostStep
<1>2. ASSUME NEW s \in Requests, NEW t \in Txns, BeginVoid(s, t) \/ BeginDelete(s, t)
      PROVE  LedgerInv'
  BY <1>2, BeginVoidStep, BeginDeleteStep
<1>3. ASSUME NEW s \in Requests, NEW t \in Txns, NEW p \in Postings, NEW k \in Kinds, NEW d \in Dates,
             NEW ro \in Dates \cup {None, Keep}, BeginEdit(s, t, p, k, d, ro)
      PROVE  LedgerInv'
  BY <1>3, BeginEditStep
<1>4. ASSUME NEW s \in Requests, NextReversal(s) \/ CheckEdit(s) \/ Rollback(s)
      PROVE  LedgerInv'
  BY <1>4, NextReversalStep, CheckEditStep, RollbackStep
<1>5. ASSUME NEW s \in Requests, CommitPost(s) \/ CommitVoid(s) \/ CommitDelete(s) \/ CommitEdit(s) \/ CommitBulk(s)
      PROVE  LedgerInv'
  BY <1>5, CommitPostStep, CommitVoidStep, CommitDeleteStep, CommitEditStep, CommitBulkStep
<1>6. ASSUME NEW d \in ClosingDates, SetClosingDate(d)
      PROVE  LedgerInv'
  BY <1>6, SetClosingDateStep
<1>7. CASE UNCHANGED <<ledgerVars, recs>>
  BY <1>7 DEF ledgerVars, LedgerInv, LedgerTypeOK, NoOrphanReversal, OneLiveReversal, OriginalsInserted,
     LockDiscipline, LocksExclusive, HeldRowsStand, ChainHeld, LooksForNone, InputsKnown,
     ReversalsFound, LiveReversals, Live
<1>8. ASSUME NEW s \in Requests, NEW a \in Categories \cup {None}, BeginBulk(s, a)
      PROVE  LedgerInv'
  BY <1>8, BeginBulkStep
<1>9. ASSUME NEW s \in Requests, NEW t \in Txns, BulkTake(s, t)
      PROVE  LedgerInv'
  BY <1>9, BulkTakeStep
<1> QED BY <1>1, <1>2, <1>3, <1>4, <1>5, <1>6, <1>7, <1>8, <1>9 DEF LedgerNext

\* Every reachable state satisfies the inductive invariant.
LEMMA LedgerInvariant == LedgerSpec => []LedgerInv
BY LedgerInitInv, LedgerNextInv, PTL DEF LedgerSpec

\* Rows and requests always have the columns the schema gives them: the type
\* invariant of the runs without the range of the stored balances, which are
\* sums over sets of lines.
THEOREM LedgerRows == LedgerSpec => []LedgerTypeOK
<1>1. LedgerInv => LedgerTypeOK
  BY DEF LedgerInv
<1> QED BY LedgerInvariant, <1>1, PTL

\* Whatever the number of requests and the order of their steps, what a
\* request checked under its row locks is still so when it commits.
THEOREM LocksHold == LedgerSpec => []LockDiscipline
<1>1. LedgerInv => LockDiscipline
  BY DEF LedgerInv
<1> QED BY LedgerInvariant, <1>1, PTL

\* A void, a delete or an edit never leaves behind the reversal of a journal
\* entry it took out of the books, at any length of the chain of reversals.
THEOREM ReversalGoesWithItsEntry == LedgerSpec => []NoOrphanReversal
<1>1. LedgerInv => NoOrphanReversal
  BY DEF LedgerInv
<1> QED BY LedgerInvariant, <1>1, PTL

\* However many edits of a journal entry race, under a body of any type, it has
\* at most one live reversal.
THEOREM ReversedOnce == LedgerSpec => []OneLiveReversal
<1>1. LedgerInv => OneLiveReversal
  BY DEF LedgerInv
<1> QED BY LedgerInvariant, <1>1, PTL

-----------------------------------------------------------------------------
(* A settled transaction is left alone *)

\* Lines written and removed for other transactions leave those of t as they are.
LEMMA LinesElsewhere ==
    ASSUME NEW t, NEW D, NEW N, lines' = (lines \ D) \cup N,
           \A l \in D : l.txn # t, \A l \in N : l.txn # t
    PROVE  LinesOf(t)' = LinesOf(t)
BY DEF LinesOf

\* A delete only writes reversing lines for what is still posted.
LEMMA DeleteBackLines ==
    ASSUME LedgerInv, NEW T \in SUBSET Txns
    PROVE  \A l \in DeleteBack(T) : l.txn \in T /\ Live(l.txn)
<1> DEFINE U == {u \in T : Live(u)}
<1>1. \A l \in Swapped(UNION {LinesOf(t) : t \in U}) : l.txn \in U
  BY BackLines
<1> QED BY <1>1 DEF DeleteBack

LEMMA CommitsLeaveSettled ==
    ASSUME LedgerInv, NEW s \in Requests,
           CommitPost(s) \/ CommitVoid(s) \/ CommitDelete(s) \/ CommitEdit(s) \/ CommitBulk(s),
           NEW t \in Txns, txn[t].status \in {"void", "deleted"}
    PROVE  txn'[t].status \in {"void", "deleted"} /\ LinesOf(t)' = LinesOf(t)
<1>1. /\ req[s] \in RequestRow /\ HeldRowsStand(req[s]) /\ req[s].held \subseteq Txns
      /\ txn \in [Txns -> Header] /\ txn[t] \in Header
      /\ ~Live(t) /\ t \notin Fresh /\ None \notin Txns
  BY LedgerConstants DEF LedgerInv, LockDiscipline, LedgerTypeOK, RequestRow, Live, Fresh
<1>2. CASE CommitPost(s)
  <2>1. PICK u \in Fresh, r \in Fresh \cup {None} :
          /\ txn' = [v \in Txns |-> IF v = u THEN PostedRow(req[s].kind, req[s].date, None)
                                    ELSE IF v = r THEN PostedRow("journal_entry", req[s].reverseOn, u)
                                    ELSE txn[v]]
          /\ lines' = lines \cup (NewLines(u, 0, req[s].posting) \cup
                        (IF r = None THEN {} ELSE NewLines(r, 0, Negated(req[s].posting))))
    BY <1>2 DEF CommitPost
  <2>2. txn'[t] = txn[t]
    BY <1>1, <2>1
  <2>3. LinesOf(t)' = LinesOf(t)
    <3> DEFINE N == NewLines(u, 0, req[s].posting) \cup
                      (IF r = None THEN {} ELSE NewLines(r, 0, Negated(req[s].posting)))
    <3>1. \A l \in N : l.txn # t
      BY <1>1, <2>1, NewLinesTxn
    <3>2. lines' = (lines \ {}) \cup N
      BY <2>1
    <3> HIDE DEF N
    <3> QED BY <3>1, <3>2, LinesElsewhere
  <2> QED BY <2>2, <2>3
<1>3. CASE CommitVoid(s)
  <2>1. t \notin req[s].held
    BY <1>1, <1>3 DEF HeldRowsStand, CommitVoid
  <2>2. txn'[t] = txn[t]
    BY <1>3, <2>1 DEF CommitVoid
  <2>3. LinesOf(t)' = LinesOf(t)
    <3> DEFINE N == Swapped(UNION {LinesOf(u) : u \in req[s].held})
    <3>1. \A l \in N : l.txn # t
      BY <1>1, <2>1, BackLines
    <3>2. lines' = (lines \ {}) \cup N
      BY <1>3 DEF CommitVoid
    <3> HIDE DEF N
    <3> QED BY <3>1, <3>2, LinesElsewhere
  <2> QED BY <2>2, <2>3
<1>4. CASE CommitDelete(s)
  <2>1. txn'[t].status \in {"void", "deleted"}
    <3>1. txn'[t] = IF t \in req[s].held THEN DeleteRow(t) ELSE txn[t]
      BY <1>4 DEF CommitDelete
    <3> QED BY <1>1, <3>1, DeleteRowType
  <2>2. LinesOf(t)' = LinesOf(t)
    <3> DEFINE N == DeleteBack(req[s].held)
    <3>1. \A l \in N : l.txn # t
      BY <1>1, DeleteBackLines
    <3>2. lines' = (lines \ {}) \cup N
      BY <1>4 DEF CommitDelete
    <3> HIDE DEF N
    <3> QED BY <3>1, <3>2, LinesElsewhere
  <2> QED BY <2>1, <2>2
<1>5. CASE CommitEdit(s)
  <2> DEFINE q == req[s]
             gone == Superseded(q)
             saved(r) ==
               /\ txn' = [u \in Txns |->
                            IF u = q.t THEN [txn[u] EXCEPT !.date = q.date, !.ver = @ + 1, !.touched = TRUE]
                            ELSE IF u \in gone THEN DeleteRow(u)
                            ELSE IF u = r THEN PostedRow("journal_entry", q.reverseOn, q.t)
                            ELSE txn[u]]
               /\ lines' = (lines \ Replaced(q)) \cup
                           (Replacing(q) \cup DeleteBack(gone) \cup
                            (IF r = None THEN {} ELSE NewLines(r, 0, Negated(q.posting))))
  <2>1. PICK r \in Fresh \cup {None} : saved(r)
    BY <1>5 DEF CommitEdit
  <2>2. t \notin q.held /\ q.t \in q.held /\ gone \subseteq q.held
    BY <1>1, <1>5 DEF HeldRowsStand, CommitEdit, Superseded
  <2>3. t # q.t /\ t \notin gone /\ t # r /\ gone \subseteq Txns
    BY <1>1, <2>1, <2>2
  <2>4. txn'[t] = txn[t]
    BY <2>1, <2>3
  <2>5. \A l \in Replaced(q) : l.txn # t
    BY <2>3 DEF Replaced, OwnLines, LinesOf
  <2>6. \A l \in Replacing(q) : l.txn # t
    BY <2>3, NewLinesTxn DEF Replacing
  <2>7. \A l \in DeleteBack(gone) : l.txn # t
    BY <2>3, DeleteBackLines
  <2>8. \A l \in NewLines(r, 0, Negated(q.posting)) : l.txn # t
    BY <2>3, NewLinesTxn
  <2>9. LinesOf(t)' = LinesOf(t)
    <3> DEFINE N == Replacing(q) \cup DeleteBack(gone) \cup
                      (IF r = None THEN {} ELSE NewLines(r, 0, Negated(q.posting)))
    <3>1. \A l \in N : l.txn # t
      BY <2>6, <2>7, <2>8
    <3>2. lines' = (lines \ Replaced(q)) \cup N
      BY <2>1
    <3> HIDE DEF N, saved, q
    <3> QED BY <2>5, <3>1, <3>2, LinesElsewhere
  <2> QED BY <2>4, <2>9
<1>6. CASE CommitBulk(s)
  <2>1. t \notin req[s].held
    BY <1>1, <1>6 DEF HeldRowsStand, CommitBulk
  <2>2. txn'[t] = txn[t]
    BY <1>6, <2>1 DEF CommitBulk
  <2>3. LinesOf(t)' = LinesOf(t)
    <3> DEFINE D == Recategorized(req[s])
               N == MovedTo(D, req[s].to)
    <3>1. (\A l \in D : l.txn # t) /\ (\A l \in N : l.txn # t)
      BY <2>1, RecategorizedLines, MovedLines
    <3>2. lines' = (lines \ D) \cup N
      BY <1>6 DEF CommitBulk
    <3> HIDE DEF N, D
    <3> QED BY <3>1, <3>2, LinesElsewhere
  <2> QED BY <2>2, <2>3
<1> QED BY <1>2, <1>3, <1>4, <1>5, <1>6

\* Only commits touch the stored rows.
LEMMA QuietLines ==
    LedgerNext => \/ UNCHANGED <<txn, lines>>
                  \/ \E s \in Requests : CommitPost(s) \/ CommitVoid(s) \/ CommitDelete(s) \/ CommitEdit(s) \/ CommitBulk(s)
<1>1. ASSUME NEW s \in Requests,
             \/ \E p \in Postings, k \in Kinds, d \in Dates, ro \in Dates \cup {None} :
                  BeginPost(s, p, k, d, ro)
             \/ \E u \in Txns : BeginVoid(s, u) \/ BeginDelete(s, u)
             \/ \E u \in Txns, p \in Postings, k \in Kinds, d \in Dates, ro \in Dates \cup {None, Keep} :
                  BeginEdit(s, u, p, k, d, ro)
             \/ \E a \in Categories \cup {None} : BeginBulk(s, a)
             \/ \E u \in Txns : BulkTake(s, u)
      PROVE  UNCHANGED <<txn, lines>>
  BY <1>1 DEF BeginPost, BeginVoid, BeginDelete, BeginEdit, BeginBulk, BulkTake
<1>2. ASSUME NEW s \in Requests, NextReversal(s) \/ CheckEdit(s) \/ Rollback(s)
      PROVE  UNCHANGED <<txn, lines>>
  BY <1>2 DEF NextReversal, CheckEdit, Rollback
<1>3. ASSUME NEW d \in ClosingDates, SetClosingDate(d)
      PROVE  UNCHANGED <<txn, lines>>
  BY <1>3 DEF SetClosingDate
<1> QED BY <1>1, <1>2, <1>3 DEF LedgerNext

\* A void or deleted transaction is never voided, edited or deleted into the
\* books again, and its lines are final.
THEOREM SettledStaysSettled == LedgerSpec => SettledForGood
<1> DEFINE settled ==
      \A t \in Txns : txn[t].status \in {"void", "deleted"} =>
          /\ txn'[t].status \in {"void", "deleted"}
          /\ LinesOf(t)' = LinesOf(t)
<1>1. LedgerInv /\ [LedgerNext]_<<ledgerVars, recs>> => [settled]_<<ledgerVars, recs>>
  <2> SUFFICES ASSUME LedgerInv, LedgerNext, NEW t \in Txns, txn[t].status \in {"void", "deleted"}
               PROVE  txn'[t].status \in {"void", "deleted"} /\ LinesOf(t)' = LinesOf(t)
    OBVIOUS
  <2>1. CASE UNCHANGED <<txn, lines>>
    BY <2>1 DEF LinesOf
  <2>2. CASE \E s \in Requests : CommitPost(s) \/ CommitVoid(s) \/ CommitDelete(s) \/ CommitEdit(s) \/ CommitBulk(s)
    BY <2>2, CommitsLeaveSettled
  <2>3. UNCHANGED <<txn, lines>> \/
        \E s \in Requests : CommitPost(s) \/ CommitVoid(s) \/ CommitDelete(s) \/ CommitEdit(s) \/ CommitBulk(s)
    BY QuietLines
  <2> QED BY <2>1, <2>2, <2>3
<1> QED BY <1>1, LedgerInvariant, PTL DEF LedgerSpec, SettledForGood

-----------------------------------------------------------------------------
(* The closing date *)

After(d, closed) == d \in Dates /\ d > closed

ChecksHold(q) ==
    /\ q.op # "idle" => q.closedAt <= lockDate
    /\ q.op = "post" => q.date > q.closedAt /\ (q.reverseOn # None => After(q.reverseOn, q.closedAt))
    /\ q.op \in {"void", "delete"} => \A h \in q.held : txn[h].date > q.closedAt
    /\ q.op = "edit" =>
         IF q.stage = "reversal" /\ q.cur = q.t THEN q.held = {q.t}
         ELSE /\ txn[q.t].date > q.closedAt /\ q.date > q.closedAt
              /\ ~q.kept => /\ \A h \in q.held : txn[h].date > q.closedAt
                            /\ q.reverseOn # None => After(q.reverseOn, q.closedAt)
    /\ q.op = "bulk" => q.closedAt <= q.lockRead /\ \A h \in q.held : txn[h].date > q.closedAt

PeriodInv == \A s \in Requests : ChecksHold(req[s])

Commits(s) == CommitPost(s) \/ CommitVoid(s) \/ CommitDelete(s) \/ CommitEdit(s) \/ CommitBulk(s)

\* Closing dates and transaction dates can be compared.
LEMMA DatesAreIntegers ==
    ASSUME LedgerInv
    PROVE  /\ lockDate \in Int
           /\ \A s \in Requests : req[s].closedAt \in Int /\ req[s].date \in Int /\ req[s].lockRead \in Int
           /\ \A t \in Txns : txn[t].date \in Int
           /\ Dates \subseteq Int
<1>1. Dates \subseteq Int /\ ClosingDates \subseteq Int
  BY LedgerConstants DEF Dates
<1>2. lockDate \in Int /\ \A t \in Txns : txn[t].date \in Int
  BY <1>1 DEF LedgerInv, LedgerTypeOK, Header
<1>3. \A s \in Requests : req[s].closedAt \in Int /\ req[s].date \in Int /\ req[s].lockRead \in Int
  BY <1>1 DEF LedgerInv, LedgerTypeOK, RequestRow
<1> QED BY <1>1, <1>2, <1>3

\* A step that only changes the request s keeps the invariant if s still meets it.
LEMMA OneRequestMoves ==
    ASSUME LedgerInv, PeriodInv, NEW s \in Requests, NEW q, ChecksHold(q),
           req' = [req EXCEPT ![s] = q], UNCHANGED <<txn, lockDate>>
    PROVE  PeriodInv'
<1>1. \A u \in Requests : req'[u] = IF u = s THEN q ELSE req[u]
  BY DEF LedgerInv, LedgerTypeOK
<1> QED BY <1>1 DEF PeriodInv, ChecksHold

LEMMA BeginChecks ==
    ASSUME LedgerInv, PeriodInv, NEW s \in Requests,
           \/ \E p \in Postings, k \in Kinds, d \in Dates, ro \in Dates \cup {None} : BeginPost(s, p, k, d, ro)
           \/ \E t \in Txns : BeginVoid(s, t) \/ BeginDelete(s, t)
           \/ \E t \in Txns, p \in Postings, k \in Kinds, d \in Dates, ro \in Dates \cup {None, Keep} :
                BeginEdit(s, t, p, k, d, ro)
           \/ \E a \in Categories \cup {None} : BeginBulk(s, a)
           \/ \E t \in Txns : BulkTake(s, t)
    PROVE  PeriodInv'
<1>1. ASSUME NEW p \in Postings, NEW k \in Kinds, NEW d \in Dates, NEW ro \in Dates \cup {None},
             BeginPost(s, p, k, d, ro)
      PROVE  PeriodInv'
  <2> DEFINE q == [Idle EXCEPT !.op = "post", !.stage = "commit", !.posting = p, !.kind = k,
                               !.date = d, !.reverseOn = ro, !.closedAt = lockDate]
  <2>1. ChecksHold(q)
    <3>1. d > lockDate /\ (ro # None => After(ro, lockDate)) /\ lockDate \in Int
      BY <1>1, DatesAreIntegers DEF BeginPost, Open, After
    <3> QED BY <3>1 DEF ChecksHold, Idle
  <2>2. req' = [req EXCEPT ![s] = q] /\ UNCHANGED <<txn, lockDate>>
    BY <1>1 DEF BeginPost
  <2> HIDE DEF q
  <2> QED BY <2>1, <2>2, OneRequestMoves
<1>2. ASSUME NEW t \in Txns, NEW op \in {"void", "delete"}, Open(txn[t].date),
             req' = [req EXCEPT ![s] = Hold(s, op, t)], UNCHANGED <<txn, lockDate>>
      PROVE  PeriodInv'
  <2>1. ChecksHold(Hold(s, op, t))
    BY <1>2, DatesAreIntegers DEF ChecksHold, Hold, Idle, Open
  <2> QED BY <1>2, <2>1, OneRequestMoves
<1>3. ASSUME NEW t \in Txns, NEW p \in Postings, NEW k \in Kinds, NEW d \in Dates,
             NEW ro \in Dates \cup {None, Keep}, BeginEdit(s, t, p, k, d, ro)
      PROVE  PeriodInv'
  <2> DEFINE q == [Hold(s, "edit", t) EXCEPT !.posting = p, !.date = d, !.reverseOn = ro,
                                             !.kind = k]
  <2>1. ChecksHold(q)
    BY DatesAreIntegers DEF ChecksHold, Hold, Idle
  <2>2. req' = [req EXCEPT ![s] = q] /\ UNCHANGED <<txn, lockDate>>
    BY <1>3 DEF BeginEdit
  <2> HIDE DEF q
  <2> QED BY <2>1, <2>2, OneRequestMoves
<1>4. ASSUME NEW a \in Categories \cup {None}, BeginBulk(s, a)
      PROVE  PeriodInv'
  <2> DEFINE q == [Idle EXCEPT !.op = "bulk", !.stage = "commit", !.to = a, !.lockRead = lockDate,
                               !.closedAt = lockDate]
  <2>1. ChecksHold(q)
    BY DatesAreIntegers DEF ChecksHold, Idle
  <2>2. req' = [req EXCEPT ![s] = q] /\ UNCHANGED <<txn, lockDate>>
    BY <1>4 DEF BeginBulk
  <2> HIDE DEF q
  <2> QED BY <2>1, <2>2, OneRequestMoves
<1>5. ASSUME NEW t \in Txns, BulkTake(s, t)
      PROVE  PeriodInv'
  <2> DEFINE q == [req[s] EXCEPT !.held = @ \cup {t}]
  <2>1. /\ req[s] \in RequestRow /\ req[s].op = "bulk" /\ ChecksHold(req[s])
        /\ txn[t].date > req[s].lockRead /\ UNCHANGED <<txn, lockDate>>
    BY <1>5 DEF LedgerInv, LedgerTypeOK, PeriodInv, BulkTake
  <2>2. req' = [req EXCEPT ![s] = q]
    BY <1>5 DEF BulkTake, LedgerInv, LedgerTypeOK
  <2>3. /\ q.op = "bulk" /\ q.held = req[s].held \cup {t} /\ q.closedAt = req[s].closedAt
        /\ q.lockRead = req[s].lockRead
    BY <2>1 DEF RequestRow
  <2> HIDE DEF q
  <2>4. ChecksHold(q)
    BY <2>1, <2>3, DatesAreIntegers DEF ChecksHold
  <2> QED BY <2>1, <2>2, <2>4, OneRequestMoves
<1> QED BY <1>1, <1>2, <1>3, <1>4, <1>5 DEF BeginVoid, BeginDelete

LEMMA NextReversalChecks ==
    ASSUME LedgerInv, PeriodInv, NEW s \in Requests, NextReversal(s)
    PROVE  PeriodInv'
<1>1. /\ req[s] \in RequestRow /\ HeldRowsStand(req[s]) /\ ChecksHold(req[s])
      /\ req[s].stage = "reversal" /\ (req[s].op = "edit" => req[s].cur # req[s].t)
      /\ UNCHANGED <<txn, lockDate>>
  BY DEF LedgerInv, LockDiscipline, LedgerTypeOK, PeriodInv, NextReversal
<1>2. CASE req' = [req EXCEPT ![s].stage = "commit"]
  <2> DEFINE q == [req[s] EXCEPT !.stage = "commit"]
  <2>1. req' = [req EXCEPT ![s] = q]
    BY <1>2 DEF LedgerInv, LedgerTypeOK
  <2>2. ChecksHold(q)
    BY <1>1 DEF ChecksHold, RequestRow
  <2> HIDE DEF q
  <2> QED BY <1>1, <2>1, <2>2, OneRequestMoves
<1>3. CASE \E r \in ReversalsFound(req[s].cur) : TakeAlong(s, req[s].cur, r)
  <2>1. PICK r \in ReversalsFound(req[s].cur) : TakeAlong(s, req[s].cur, r)
    BY <1>3
  <2> DEFINE q == [req[s] EXCEPT !.held = @ \cup {r}, !.cur = r]
  <2>2. req' = [req EXCEPT ![s] = q]
    BY <2>1 DEF TakeAlong, LedgerInv, LedgerTypeOK
  <2>3. /\ q.op = req[s].op /\ q.t = req[s].t /\ q.held = req[s].held \cup {r} /\ q.cur = r
        /\ q.stage = "reversal" /\ q.kept = req[s].kept /\ q.date = req[s].date
        /\ q.reverseOn = req[s].reverseOn /\ q.closedAt = req[s].closedAt
    BY <1>1 DEF RequestRow
  <2>4. r \in Txns /\ r \notin req[s].held /\ txn[r].date > lockDate
    BY <2>1 DEF ReversalsFound, LiveReversals, TakeAlong, Lockable, LockedBy, Open
  <2>5. req[s].closedAt <= lockDate /\ txn[r].date > req[s].closedAt
    BY <1>1, <2>4, DatesAreIntegers DEF ChecksHold, HeldRowsStand
  <2>6. req[s].op = "edit" => q.cur # q.t
    BY <1>1, <2>3, <2>4 DEF HeldRowsStand
  <2> HIDE DEF q
  <2>7. ChecksHold(q)
    BY <1>1, <2>3, <2>5, <2>6 DEF ChecksHold, HeldRowsStand
  <2> QED BY <1>1, <2>2, <2>7, OneRequestMoves
<1> QED BY <1>2, <1>3 DEF NextReversal

LEMMA RollbackChecks ==
    ASSUME LedgerInv, PeriodInv, NEW s \in Requests, Rollback(s)
    PROVE  PeriodInv'
<1>1. ChecksHold(Idle)
  BY DEF ChecksHold, Idle
<1> QED BY <1>1, OneRequestMoves DEF Rollback

LEMMA ClosingChecks ==
    ASSUME LedgerInv, PeriodInv, NEW d \in ClosingDates, SetClosingDate(d)
    PROVE  PeriodInv'
<1>1. d \in Int /\ \A s \in Requests : req[s] \in RequestRow
  BY LedgerConstants DEF LedgerInv, LedgerTypeOK
<1>2. ASSUME NEW s \in Requests
      PROVE  /\ req'[s].op = req[s].op /\ req'[s].stage = req[s].stage /\ req'[s].t = req[s].t
             /\ req'[s].held = req[s].held /\ req'[s].cur = req[s].cur
             /\ req'[s].kept = req[s].kept /\ req'[s].date = req[s].date
             /\ req'[s].reverseOn = req[s].reverseOn /\ req'[s].lockRead = req[s].lockRead
             /\ req'[s].closedAt = IF req[s] # Idle /\ d < req[s].closedAt THEN d ELSE req[s].closedAt
  BY <1>1 DEF SetClosingDate, RequestRow
<1>3. ASSUME NEW s \in Requests
      PROVE  ChecksHold(req[s])'
  <2>1. /\ req'[s].closedAt \in Int /\ req'[s].closedAt <= req[s].closedAt
        /\ req[s].op # "idle" => req'[s].closedAt <= d
    BY <1>1, <1>2, DatesAreIntegers DEF Idle
  <2>2. ChecksHold(req[s]) /\ req[s] \in RequestRow /\ req[s].held \subseteq Txns
    BY <1>1 DEF PeriodInv, RequestRow
  <2>3. \A x \in Int : x > req[s].closedAt => x > req'[s].closedAt
    BY <2>1, DatesAreIntegers
  <2>4. \A x : After(x, req[s].closedAt) => After(x, req'[s].closedAt)
    BY <2>3, DatesAreIntegers DEF After
  <2>5. \A h \in req[s].held : txn[h].date \in Int
    BY <2>2, DatesAreIntegers
  <2>6. lockDate' = d /\ txn' = txn
    BY DEF SetClosingDate
  <2>7. req[s].op = "edit" => txn[req[s].t].date \in Int
    BY <2>5 DEF LedgerInv, LockDiscipline, HeldRowsStand
  <2> QED BY <1>2, <2>1, <2>2, <2>3, <2>4, <2>5, <2>6, <2>7, DatesAreIntegers DEF ChecksHold
<1> QED BY <1>3 DEF PeriodInv

\* The edit checks the old and the new date, the date of the reversal it
\* deletes and the date of the one it posts.
LEMMA CheckEditChecks ==
    ASSUME LedgerInv, PeriodInv, NEW s \in Requests, CheckEdit(s)
    PROVE  PeriodInv'
<1> DEFINE t == req[s].t
           target(r) == TargetOn(req[s], r)
           settled(r) == [req[s] EXCEPT !.reverseOn = target(r), !.partial = ClearedInCompleted(t) # {}]
<1>1. /\ req[s] \in RequestRow /\ req[s].op = "edit" /\ t \in Txns /\ req[s].held = {t}
      /\ req[s].cur = t /\ req[s].stage = "reversal" /\ req[s].closedAt <= lockDate
      /\ UNCHANGED <<txn, lockDate>>
  BY DEF LedgerInv, LockDiscipline, LedgerTypeOK, CheckEdit, HeldRowsStand, RequestRow, PeriodInv, ChecksHold
<1>2. PICK r \in EditReversals(req[s]) \cup {None} :
        /\ r # None => Lockable(r)
        /\ Editable(req[s], target(r))
        /\ \/ /\ r # None
              /\ req' = [req EXCEPT ![s] = [settled(r) EXCEPT !.stage = "commit", !.kept = TRUE,
                                                              !.held = @ \cup {r}]]
           \/ /\ r = None /\ (target(r) # None => Open(target(r)))
              /\ req' = [req EXCEPT ![s] = [settled(r) EXCEPT !.stage = "commit"]]
           \/ /\ r # None /\ Open(txn[r].date) /\ (target(r) # None => Open(target(r)))
              /\ req' = [req EXCEPT ![s] = [settled(r) EXCEPT !.held = @ \cup {r}, !.cur = r]]
  BY <1>1 DEF CheckEdit
<1>3. r # None => r \in Txns /\ r # t
  BY <1>1, <1>2 DEF EditReversals, ReversalsFound, LiveReversals, Lockable, LockedBy
<1>4. target(r) \in Dates \cup {None}
  <2>1. r # None => txn[r].date \in Dates
    BY <1>3 DEF LedgerInv, LedgerTypeOK, Header
  <2> QED BY <1>1, <2>1 DEF TargetOn, RequestRow
<1> HIDE DEF target
<1> DEFINE c == req[s].closedAt
<1>5. \A x \in Int : Open(x) => x > c
  BY <1>1, DatesAreIntegers DEF Open
<1>6. txn[t].date > c /\ req[s].date > c
  BY <1>1, <1>2, <1>5, DatesAreIntegers DEF Editable
<1>7. /\ settled(r).op = "edit" /\ settled(r).t = t /\ settled(r).held = {t}
      /\ settled(r).cur = t /\ settled(r).stage = "reversal" /\ settled(r).date = req[s].date
      /\ settled(r).closedAt = c /\ settled(r).reverseOn = target(r)
      /\ settled(r).kept = req[s].kept /\ settled(r) \in RequestRow
  <2>1. settled(r) \in RequestRow
    BY <1>1, <1>4, SettledRow
  <2>2. settled(r).reverseOn = target(r)
    BY <1>1 DEF RequestRow
  <2>3. /\ settled(r).op = req[s].op /\ settled(r).t = t /\ settled(r).held = req[s].held
        /\ settled(r).cur = req[s].cur /\ settled(r).stage = req[s].stage /\ settled(r).date = req[s].date
        /\ settled(r).closedAt = req[s].closedAt /\ settled(r).kept = req[s].kept
    BY <1>1 DEF RequestRow
  <2> QED BY <1>1, <2>1, <2>2, <2>3
<1>8. c <= lockDate /\ c \in Int
  BY <1>1, DatesAreIntegers
<1> DEFINE q0 == settled(r)
<1>9. CASE /\ r # None
           /\ req' = [req EXCEPT ![s] = [settled(r) EXCEPT !.stage = "commit", !.kept = TRUE,
                                                           !.held = @ \cup {r}]]
  <2> DEFINE q == [q0 EXCEPT !.stage = "commit", !.kept = TRUE, !.held = @ \cup {r}]
  <2> HIDE DEF settled, t, c
  <2>1. /\ q.op = "edit" /\ q.t = t /\ q.stage = "commit" /\ q.kept /\ q.date = req[s].date
        /\ q.closedAt = c /\ req' = [req EXCEPT ![s] = q]
    BY <1>7, <1>9 DEF RequestRow
  <2> HIDE DEF q, q0
  <2>2. ChecksHold(q)
    BY <1>6, <1>8, <2>1 DEF ChecksHold
  <2> QED BY <1>1, <2>1, <2>2, OneRequestMoves
<1>10. CASE /\ r = None /\ (target(r) # None => Open(target(r)))
            /\ req' = [req EXCEPT ![s] = [settled(r) EXCEPT !.stage = "commit"]]
  <2> DEFINE q == [q0 EXCEPT !.stage = "commit"]
  <2> HIDE DEF settled, t, c
  <2>1. /\ q.op = "edit" /\ q.t = t /\ q.stage = "commit" /\ q.held = {t} /\ q.date = req[s].date
        /\ q.closedAt = c /\ q.reverseOn = target(r) /\ req' = [req EXCEPT ![s] = q]
    BY <1>7, <1>10 DEF RequestRow
  <2>2. target(r) # None => After(target(r), c)
    BY <1>4, <1>5, <1>10, DatesAreIntegers DEF After
  <2> HIDE DEF q, q0
  <2>3. ChecksHold(q)
    BY <1>6, <1>8, <2>1, <2>2 DEF ChecksHold
  <2> QED BY <1>1, <2>1, <2>3, OneRequestMoves
<1>11. CASE /\ r # None /\ Open(txn[r].date) /\ (target(r) # None => Open(target(r)))
            /\ req' = [req EXCEPT ![s] = [settled(r) EXCEPT !.held = @ \cup {r}, !.cur = r]]
  <2> DEFINE q == [q0 EXCEPT !.held = @ \cup {r}, !.cur = r]
  <2>1. txn[r].date > c
    BY <1>3, <1>5, <1>11, DatesAreIntegers
  <2>2. target(r) # None => After(target(r), c)
    BY <1>4, <1>5, <1>11, DatesAreIntegers DEF After
  <2> HIDE DEF settled, t, c
  <2>3. /\ q.op = "edit" /\ q.t = t /\ q.held = {t, r} /\ q.date = req[s].date /\ q.cur = r
        /\ q.closedAt = c /\ q.reverseOn = target(r) /\ req' = [req EXCEPT ![s] = q]
    BY <1>7, <1>11 DEF RequestRow
  <2> HIDE DEF q, q0
  <2>4. ChecksHold(q)
    BY <1>3, <1>6, <1>8, <1>11, <2>1, <2>2, <2>3 DEF ChecksHold
  <2> QED BY <1>1, <2>3, <2>4, OneRequestMoves
<1> QED BY <1>2, <1>9, <1>10, <1>11

\* A commit changes the rows its request had locked and fresh rows, no other.
LEMMA OwnRowsOnly ==
    ASSUME LedgerInv, NEW s \in Requests, Commits(s)
    PROVE  /\ \A t \in Txns : txn'[t] = txn[t] \/ t \in req[s].held \/ t \in Fresh
           /\ req' = [req EXCEPT ![s] = Idle] /\ lockDate' = lockDate
<1>1. CASE CommitPost(s)
  <2>1. PICK u \in Fresh, r \in Fresh \cup {None} :
          txn' = [v \in Txns |-> IF v = u THEN PostedRow(req[s].kind, req[s].date, None)
                                 ELSE IF v = r THEN PostedRow("journal_entry", req[s].reverseOn, u)
                                 ELSE txn[v]]
    BY <1>1 DEF CommitPost
  <2>2. \A t \in Txns : txn'[t] = txn[t] \/ t \in Fresh
    BY <2>1, LedgerConstants
  <2> QED BY <1>1, <2>2 DEF CommitPost
<1>2. CASE CommitVoid(s)
  BY <1>2 DEF CommitVoid
<1>3. CASE CommitDelete(s)
  BY <1>3 DEF CommitDelete
<1>4. CASE CommitEdit(s)
  <2> DEFINE q == req[s]
  <2>1. PICK r \in Fresh \cup {None} :
          txn' = [u \in Txns |->
                    IF u = q.t THEN [txn[u] EXCEPT !.date = q.date, !.ver = @ + 1, !.touched = TRUE]
                    ELSE IF u \in Superseded(q) THEN DeleteRow(u)
                    ELSE IF u = r THEN PostedRow("journal_entry", q.reverseOn, q.t)
                    ELSE txn[u]]
    BY <1>4 DEF CommitEdit
  <2>2. q.t \in q.held /\ Superseded(q) \subseteq q.held
    BY <1>4 DEF CommitEdit, LedgerInv, LockDiscipline, HeldRowsStand, Superseded
  <2>3. \A t \in Txns : txn'[t] = txn[t] \/ t \in req[s].held \/ t \in Fresh
    BY <2>1, <2>2, LedgerConstants
  <2> QED BY <1>4, <2>3 DEF CommitEdit
<1>5. CASE CommitBulk(s)
  BY <1>5 DEF CommitBulk
<1> QED BY <1>1, <1>2, <1>3, <1>4, <1>5 DEF Commits

LEMMA CommitChecks ==
    ASSUME LedgerInv, PeriodInv, NEW s \in Requests, Commits(s)
    PROVE  PeriodInv'
<1> SUFFICES ASSUME NEW u \in Requests
             PROVE  ChecksHold(req[u])'
  BY DEF PeriodInv
<1>1. /\ \A t \in Txns : txn'[t] = txn[t] \/ t \in req[s].held \/ t \in Fresh
      /\ req'[u] = (IF u = s THEN Idle ELSE req[u]) /\ lockDate' = lockDate
  BY OwnRowsOnly DEF LedgerInv, LedgerTypeOK
<1>2. CASE u = s
  BY <1>1, <1>2 DEF ChecksHold, Idle
<1>3. CASE u # s
  <2>1. /\ req[u] \in RequestRow /\ HeldRowsStand(req[u])
        /\ req[u].held \cap req[s].held = {} /\ req[u].held \subseteq Txns
    BY <1>3 DEF LedgerInv, LockDiscipline, LocksExclusive, LedgerTypeOK, RequestRow
  <2>2. \A h \in req[u].held : txn'[h] = txn[h]
    BY <1>1, <2>1 DEF HeldRowsStand, Fresh, Live
  <2>3. req[u].op = "edit" => txn'[req[u].t] = txn[req[u].t]
    BY <2>1, <2>2 DEF HeldRowsStand
  <2> QED BY <1>1, <1>3, <2>2, <2>3 DEF PeriodInv, ChecksHold
<1> QED BY <1>2, <1>3

-----------------------------------------------------------------------------
(* The invariant, and what a commit may write *)

LEMMA PeriodNext ==
    LedgerInv /\ PeriodInv /\ [LedgerNext]_<<ledgerVars, recs>> => PeriodInv'
<1> SUFFICES ASSUME LedgerInv, PeriodInv, [LedgerNext]_<<ledgerVars, recs>>
             PROVE  PeriodInv'
  OBVIOUS
<1>1. ASSUME NEW s \in Requests,
             \/ NextReversal(s) \/ CheckEdit(s) \/ Rollback(s)
             \/ CommitPost(s) \/ CommitVoid(s) \/ CommitDelete(s) \/ CommitEdit(s) \/ CommitBulk(s)
      PROVE  PeriodInv'
  BY <1>1, NextReversalChecks, CheckEditChecks, RollbackChecks, CommitChecks DEF Commits
<1>2. ASSUME NEW d \in ClosingDates, SetClosingDate(d)
      PROVE  PeriodInv'
  BY <1>2, ClosingChecks
<1>3. CASE UNCHANGED <<ledgerVars, recs>>
  BY <1>3 DEF ledgerVars, PeriodInv, ChecksHold
<1> QED BY <1>1, <1>2, <1>3, BeginChecks DEF LedgerNext

LEMMA PeriodInvariant == LedgerSpec => []PeriodInv
<1>1. LedgerInit => PeriodInv
  BY DEF LedgerInit, PeriodInv, ChecksHold, Idle
<1> QED BY <1>1, PeriodNext, LedgerInvariant, PTL DEF LedgerSpec

\* Whatever commit it is, the lines it adds and the lines it removes belong to
\* a transaction dated after the closing dates the request has run under.
LEMMA CommitsAfterClosing ==
    ASSUME LedgerInv, PeriodInv, NEW s \in Requests, Commits(s)
    PROVE  /\ \A l \in lines' \ lines : txn'[l.txn].date > req[s].closedAt
           /\ \A l \in lines \ lines' : txn[l.txn].date > req[s].closedAt
<1> DEFINE q == req[s]
           c == req[s].closedAt
<1>1. /\ q \in RequestRow /\ HeldRowsStand(q) /\ ChainHeld(q) /\ ChecksHold(q) /\ q.held \subseteq Txns
      /\ txn \in [Txns -> Header] /\ None \notin Txns
  BY LedgerConstants DEF LedgerInv, LockDiscipline, LedgerTypeOK, RequestRow, PeriodInv
<1>2. CASE CommitPost(s)
  <2>1. PICK u \in Fresh, r \in Fresh \cup {None} :
          /\ r # None => r # u /\ q.reverseOn # None
          /\ txn' = [v \in Txns |-> IF v = u THEN PostedRow(q.kind, q.date, None)
                                    ELSE IF v = r THEN PostedRow("journal_entry", q.reverseOn, u)
                                    ELSE txn[v]]
          /\ lines' = lines \cup (NewLines(u, 0, q.posting) \cup
                        (IF r = None THEN {} ELSE NewLines(r, 0, Negated(q.posting))))
    BY <1>2 DEF CommitPost
  <2>2. u \in Txns /\ (r # None => r \in Txns)
    BY <2>1 DEF Fresh
  <2>3. /\ txn'[u].date = q.date
        /\ r # None => txn'[r].date = q.reverseOn
    BY <2>1, <2>2 DEF PostedRow
  <2>4. q.date > c /\ (q.reverseOn # None => q.reverseOn > c)
    BY <1>1, <1>2 DEF CommitPost, ChecksHold, After
  <2>5. \A l \in NewLines(u, 0, q.posting) : l.txn = u
    BY NewLinesTxn
  <2>6. \A l \in NewLines(r, 0, Negated(q.posting)) : l.txn = r
    BY NewLinesTxn
  <2> HIDE DEF q, c
  <2>7. \A l \in lines' \ lines : txn'[l.txn].date > c
    BY <2>1, <2>3, <2>4, <2>5, <2>6
  <2>8. lines \ lines' = {}
    BY <2>1
  <2> QED BY <2>7, <2>8 DEF q, c
<1>3. CASE CommitVoid(s) \/ CommitDelete(s)
  <2>1. \A h \in q.held : txn[h].date > c
    BY <1>1, <1>3 DEF CommitVoid, CommitDelete, ChecksHold
  <2>2. \A h \in q.held : txn'[h].date = txn[h].date
    <3> SUFFICES ASSUME NEW h \in q.held
                 PROVE  txn'[h].date = txn[h].date
      OBVIOUS
    <3>1. h \in Txns /\ txn[h] \in Header
      BY <1>1
    <3>2. CASE CommitVoid(s)
      <4>1. txn'[h] = [txn[h] EXCEPT !.status = "void", !.touched = TRUE]
        BY <3>1, <3>2 DEF CommitVoid
      <4> QED BY <3>1, <4>1 DEF Header
    <3>3. CASE CommitDelete(s)
      <4>1. txn'[h] = DeleteRow(h)
        BY <3>1, <3>3 DEF CommitDelete
      <4> QED BY <3>1, <4>1 DEF DeleteRow, Header
    <3> QED BY <1>3, <3>2, <3>3
  <2>3. \A l \in lines' \ lines : l.txn \in q.held
    BY <1>1, <1>3, BackLines, DeleteBackLines DEF CommitVoid, CommitDelete
  <2>4. lines \ lines' = {}
    BY <1>3 DEF CommitVoid, CommitDelete
  <2> HIDE DEF q, c
  <2> QED BY <2>1, <2>2, <2>3, <2>4 DEF q, c
<1>4. CASE CommitEdit(s)
  <2> DEFINE gone == Superseded(q)
             saved(r) ==
               /\ txn' = [u \in Txns |->
                            IF u = q.t THEN [txn[u] EXCEPT !.date = q.date, !.ver = @ + 1, !.touched = TRUE]
                            ELSE IF u \in gone THEN DeleteRow(u)
                            ELSE IF u = r THEN PostedRow("journal_entry", q.reverseOn, q.t)
                            ELSE txn[u]]
               /\ lines' = (lines \ Replaced(q)) \cup
                           (Replacing(q) \cup DeleteBack(gone) \cup
                            (IF r = None THEN {} ELSE NewLines(r, 0, Negated(q.posting))))
  <2>1. PICK r \in Fresh \cup {None} : (r # None => ~q.kept /\ q.reverseOn # None) /\ saved(r)
    BY <1>4 DEF CommitEdit
  <2>2. /\ q.op = "edit" /\ q.stage = "commit" /\ q.t \in q.held /\ q.t \in Txns
        /\ \A h \in q.held : Live(h)
        /\ gone \subseteq q.held \ {q.t} /\ (q.kept => gone = {})
    BY <1>1, <1>4 DEF HeldRowsStand, CommitEdit, Superseded
  <2>3. /\ txn[q.t].date > c /\ q.date > c
        /\ ~q.kept => /\ \A h \in q.held : txn[h].date > c
                      /\ q.reverseOn # None => q.reverseOn > c
    BY <1>1, <2>2 DEF ChecksHold, After
  <2>4. r # None => r \in Txns /\ r # q.t /\ r \notin gone
    BY <2>1, <2>2 DEF Fresh, Live
  <2> HIDE DEF gone
  <2>5. txn'[q.t].date = q.date
    <3>1. txn'[q.t] = [txn[q.t] EXCEPT !.date = q.date, !.ver = @ + 1, !.touched = TRUE]
      BY <2>1, <2>2
    <3> QED BY <1>1, <2>2, <3>1 DEF Header
  <2>6. \A u \in gone : txn'[u].date = txn[u].date
    <3>1. \A u \in gone : txn'[u] = DeleteRow(u) /\ txn[u] \in Header
      BY <1>1, <2>1, <2>2
    <3> QED BY <3>1 DEF DeleteRow, Header
  <2>7. r # None => txn'[r].date = q.reverseOn
    <3>1. r # None => txn'[r] = PostedRow("journal_entry", q.reverseOn, q.t)
      BY <2>1, <2>4
    <3> QED BY <3>1 DEF PostedRow
  <2>8. \A l \in Replaced(q) : l.txn = q.t
    BY DEF Replaced, OwnLines, LinesOf
  <2>9. \A l \in Replacing(q) : l.txn = q.t
    BY NewLinesTxn DEF Replacing
  <2>10. \A l \in DeleteBack(gone) : l.txn \in gone
    BY <1>1, <2>2, DeleteBackLines
  <2>11. \A l \in NewLines(r, 0, Negated(q.posting)) : l.txn = r
    BY NewLinesTxn
  <2>12. \A u \in gone : txn'[u].date > c
    BY <2>2, <2>3, <2>6
  <2>13. r # None => txn'[r].date > c
    BY <2>1, <2>3, <2>7
  <2>14. lines' = (lines \ Replaced(q)) \cup
                  (Replacing(q) \cup DeleteBack(gone) \cup
                   (IF r = None THEN {} ELSE NewLines(r, 0, Negated(q.posting))))
    BY <2>1
  <2> HIDE DEF saved, q, c
  <2>15. \A l \in lines' \ lines : txn'[l.txn].date > c
    BY <2>3, <2>5, <2>9, <2>10, <2>11, <2>12, <2>13, <2>14
  <2>16. \A l \in lines \ lines' : txn[l.txn].date > c
    BY <2>3, <2>8, <2>14
  <2> QED BY <2>15, <2>16 DEF c
<1>5. CASE CommitBulk(s)
  <2>1. \A h \in q.held : txn[h].date > c
    BY <1>1, <1>5 DEF CommitBulk, ChecksHold
  <2>2. \A h \in q.held : txn'[h].date = txn[h].date
    <3> SUFFICES ASSUME NEW h \in q.held
                 PROVE  txn'[h].date = txn[h].date
      OBVIOUS
    <3>1. h \in Txns /\ txn[h] \in Header
      BY <1>1
    <3>2. txn'[h] = IF q.to = None THEN [txn[h] EXCEPT !.touched = TRUE] ELSE txn[h]
      BY <1>5, <3>1 DEF CommitBulk
    <3> QED BY <3>1, <3>2 DEF Header
  <2>3. (\A l \in lines' \ lines : l.txn \in q.held) /\ (\A l \in lines \ lines' : l.txn \in q.held)
    BY <1>5, RecategorizedLines, MovedLines DEF CommitBulk
  <2> HIDE DEF q, c
  <2> QED BY <2>1, <2>2, <2>3 DEF q, c
<1> QED BY <1>2, <1>3, <1>4, <1>5 DEF Commits

\* Nothing a request commits falls in a period that was closed all the time
\* from its first step on: neither the entry, nor the place an edit moved it
\* from or to, nor a reversal it took along or posted.
THEOREM ClosedPeriodStaysFrozen == LedgerSpec => ClosedPeriodFrozen
<1> DEFINE frozen ==
      \A s \in Requests : req[s] # Idle /\ req'[s] = Idle =>
          /\ \A l \in lines' \ lines : txn'[l.txn].date > req[s].closedAt
          /\ \A l \in lines \ lines' : txn[l.txn].date > req[s].closedAt
<1>1. LedgerInv /\ PeriodInv /\ [LedgerNext]_<<ledgerVars, recs>> => [frozen]_<<ledgerVars, recs>>
  <2> SUFFICES ASSUME LedgerInv, PeriodInv, LedgerNext, NEW s \in Requests,
                      req[s] # Idle, req'[s] = Idle
               PROVE  /\ \A l \in lines' \ lines : txn'[l.txn].date > req[s].closedAt
                      /\ \A l \in lines \ lines' : txn[l.txn].date > req[s].closedAt
    OBVIOUS
  <2>1. CASE lines' = lines
    BY <2>1
  <2>2. ASSUME NEW u \in Requests, Commits(u)
        PROVE  s = u
    BY <2>2, OwnRowsOnly DEF LedgerInv, LedgerTypeOK
  <2>3. lines' = lines \/ \E u \in Requests : Commits(u)
    BY QuietLines DEF Commits
  <2> QED BY <2>1, <2>2, <2>3, CommitsAfterClosing
<1> QED BY <1>1, LedgerInvariant, PeriodInvariant, PTL DEF LedgerSpec, ClosedPeriodFrozen

-----------------------------------------------------------------------------
(* What the lines of a transaction say *)

AmountOf == [l \in Line |-> l.amt]

\* The sum of the nets of all accounts.
AllNet(L) == SumOn([a \in Accounts |-> Net(L, a)], Accounts)

\* What the lines of an entry say, and what a posting says.
Pairs(L) == {<<l.acct, l.amt>> : l \in L}
Graph(p) == {<<a, p[a]>> : a \in DOMAIN p}

\* A posting's effect on account a.
Effect(p, a) == IF a \in DOMAIN p THEN p[a] ELSE 0

OneLinePerAccount(L) == \A l, k \in L : ~l.rev /\ (l.acct = k.acct => l = k)

-----------------------------------------------------------------------------
(* What a set of lines puts on an account *)

LEMMA NetIsSum ==
    ASSUME NEW L, IsFiniteSet(L), L \subseteq Line, NEW a
    PROVE  /\ Net(L, a) = SumOn(AmountOf, {l \in L : l.acct = a}) /\ Net(L, a) \in Int
           /\ IsFiniteSet({l \in L : l.acct = a})
<1>1. PICK S : S = {l \in L : l.acct = a}
  OBVIOUS
<1>2. IsFiniteSet(S)
  BY <1>1, FS_Subset
<1>3. \A l \in S : l.amt \in Int /\ AmountOf[l] = l.amt
  BY <1>1 DEF AmountOf, Line
<1>4. MapThenSumSet(LAMBDA l : l.amt, S) = SumOn(AmountOf, S)
  BY <1>2, <1>3, AmountsSum
<1>5. SumOn(AmountOf, S) \in Int
  BY <1>2, <1>3, SumOnType
<1>6. Net(L, a) = MapThenSumSet(LAMBDA l : l.amt, S)
  BY <1>1 DEF Net
<1>7. QED
  BY <1>1, <1>2, <1>4, <1>5, <1>6

LEMMA NetUnion ==
    ASSUME NEW L, IsFiniteSet(L), L \subseteq Line, NEW K, IsFiniteSet(K), K \subseteq Line,
           L \cap K = {}, NEW a
    PROVE  Net(L \cup K, a) = Net(L, a) + Net(K, a)
<1>1. PICK S : S = {l \in L : l.acct = a}
  OBVIOUS
<1>2. PICK R : R = {l \in K : l.acct = a}
  OBVIOUS
<1>3. PICK M : M = L \cup K
  OBVIOUS
<1>4. IsFiniteSet(M) /\ M \subseteq Line
  BY <1>3, FS_Union
<1>5. {l \in M : l.acct = a} = S \cup R /\ S \cap R = {}
  BY <1>1, <1>2, <1>3
<1>6. /\ Net(L, a) = SumOn(AmountOf, S) /\ IsFiniteSet(S)
      /\ Net(K, a) = SumOn(AmountOf, R) /\ IsFiniteSet(R)
  BY <1>1, <1>2, NetIsSum
<1>7. Net(M, a) = SumOn(AmountOf, S \cup R)
  BY <1>4, <1>5, NetIsSum
<1>8. \A l \in S \cup R : AmountOf[l] \in Int
  BY <1>1, <1>2 DEF AmountOf, Line
<1>9. SumOn(AmountOf, S \cup R) = SumOn(AmountOf, S) + SumOn(AmountOf, R)
  BY <1>5, <1>6, <1>8, SumOnUnion
<1>10. QED
  BY <1>3, <1>6, <1>7, <1>9

LEMMA NetEmpty == ASSUME NEW a PROVE Net({}, a) = 0
<1>1. {l \in {} : l.acct = a} = {}
  OBVIOUS
<1>2. QED
  BY <1>1, NetIsSum, SumOnEmpty, FS_EmptySet

LEMMA NetMinus ==
    ASSUME NEW L, IsFiniteSet(L), L \subseteq Line, NEW K \in SUBSET L, NEW a
    PROVE  Net(L \ K, a) = Net(L, a) - Net(K, a)
<1>1. PICK R : R = L \ K
  OBVIOUS
<1>2. IsFiniteSet(K) /\ IsFiniteSet(R) /\ R \subseteq Line /\ K \subseteq Line /\ R \cap K = {} /\ R \cup K = L
  BY <1>1, FS_Subset
<1>3. Net(R \cup K, a) = Net(R, a) + Net(K, a)
  BY <1>2, NetUnion
<1>4. Net(R, a) \in Int /\ Net(K, a) \in Int
  BY <1>2, NetIsSum
<1>5. Net(L, a) = Net(R, a) + Net(K, a)
  BY <1>2, <1>3
<1>6. QED
  BY <1>1, <1>4, <1>5

\* Reversing lines take back what the lines they reverse put on each account.
LEMMA NetSwapped ==
    ASSUME NEW L, IsFiniteSet(L), L \subseteq Line, \A l \in L : ~l.rev, NEW a
    PROVE  Net(Swapped(L), a) = -Net(L, a) /\ IsFiniteSet(Swapped(L))
<1>1. PICK S : S = {l \in L : l.acct = a}
  OBVIOUS
<1>2. PICK m : m = [l \in Line |-> [l EXCEPT !.rev = TRUE, !.amt = -l.amt]]
  OBVIOUS
<1>3. PICK f : f = [l \in Line |-> -l.amt]
  OBVIOUS
<1>4. PICK W : W = Swapped(L)
  OBVIOUS
<1>5. W \subseteq Line
  BY <1>4, SwappedType
<1>6. \A k, l \in L : m[k] = m[l] => k = l
  <2>1. SUFFICES ASSUME NEW k \in L, NEW l \in L, m[k] = m[l] PROVE k = l
    OBVIOUS
  <2>2. k \in Line /\ l \in Line /\ k.rev = FALSE /\ l.rev = FALSE
    BY DEF Line
  <2>3. k.txn = l.txn /\ k.ver = l.ver /\ k.acct = l.acct /\ -k.amt = -l.amt
    BY <1>2, <2>1, <2>2 DEF Line
  <2>4. k.amt = l.amt
    BY <2>2, <2>3 DEF Line
  <2>5. QED
    BY <2>2, <2>3, <2>4 DEF Line
<1>7. W = {m[l] : l \in L}
  <2>1. \A l \in L : m[l] = [l EXCEPT !.rev = TRUE, !.amt = -l.amt]
    BY <1>2
  <2>2. ASSUME NEW w \in W PROVE \E l \in L : w = m[l]
    <3>1. PICK l \in L : w = [l EXCEPT !.rev = TRUE, !.amt = -l.amt]
      BY <1>4 DEF Swapped
    <3>2. QED
      BY <2>1, <3>1
  <2>3. ASSUME NEW l \in L PROVE m[l] \in W
    BY <1>4, <2>1 DEF Swapped
  <2>4. QED
    BY <2>2, <2>3
<1>8. {l \in W : l.acct = a} = {m[l] : l \in S}
  <2>1. \A l \in L : m[l].acct = l.acct
    BY <1>2 DEF Line
  <2>2. \A w : w \in {l \in W : l.acct = a} <=> \E l \in L : w = m[l] /\ l.acct = a
    BY <1>7, <2>1
  <2>3. QED
    BY <1>1, <2>2
<1>9. IsFiniteSet(W)
  BY <1>7, FiniteImage
<1>10. \A l \in S : f[l] \in Int /\ AmountOf[m[l]] = f[l]
  <2>1. SUFFICES ASSUME NEW l \in S PROVE f[l] \in Int /\ AmountOf[m[l]] = f[l]
    OBVIOUS
  <2>2. l \in Line /\ -l.amt \in Int
    BY <1>1 DEF Line
  <2>3. m[l] \in Line /\ m[l].amt = -l.amt
    BY <1>2, <2>2 DEF Line
  <2>4. QED
    BY <1>3, <2>2, <2>3 DEF AmountOf
<1>11. IsFiniteSet(S)
  BY <1>1, FS_Subset
<1>12. SumOn(AmountOf, {m[l] : l \in S}) = SumOn(f, S)
  <2>1. \A k, l \in S : m[k] = m[l] => k = l
    BY <1>1, <1>6
  <2>2. QED
    BY <1>10, <1>11, <2>1, SumOnImage
<1>13. \A l \in S : AmountOf[l] \in Int /\ f[l] = -AmountOf[l]
  BY <1>1, <1>3 DEF AmountOf, Line
<1>14. SumOn(f, S) = -SumOn(AmountOf, S)
  BY <1>11, <1>13, SumOnNegated
<1>15. Net(L, a) = SumOn(AmountOf, S)
  BY <1>1, NetIsSum
<1>16. Net(W, a) = SumOn(AmountOf, {l \in W : l.acct = a})
  BY <1>5, <1>9, NetIsSum
<1>17. Net(W, a) = -Net(L, a)
  BY <1>8, <1>12, <1>14, <1>15, <1>16
<1>18. QED
  BY <1>4, <1>9, <1>17

\* Lines that say what a posting says, one for each account, have its effect.
LEMMA NetOfPosting ==
    ASSUME NEW L, IsFiniteSet(L), L \subseteq Line, OneLinePerAccount(L), NEW p,
           Pairs(L) = Graph(p), NEW a
    PROVE  Net(L, a) = Effect(p, a)
<1>1. PICK S : S = {l \in L : l.acct = a}
  OBVIOUS
<1>2. Net(L, a) = SumOn(AmountOf, S)
  BY <1>1, NetIsSum
<1>3. CASE a \in DOMAIN p
  <2>1. <<a, p[a]>> \in Pairs(L)
    BY <1>3 DEF Graph
  <2>2. PICK l \in L : l.acct = a /\ l.amt = p[a]
    BY <2>1 DEF Pairs
  <2>3. S = {l}
    BY <1>1, <2>2 DEF OneLinePerAccount
  <2>4. AmountOf[l] = p[a] /\ p[a] \in Int
    BY <2>2 DEF AmountOf, Line
  <2>5. SumOn(AmountOf, {} \cup {l}) = SumOn(AmountOf, {}) + AmountOf[l]
    BY <2>4, SumOnAdd, FS_EmptySet
  <2>6. {} \cup {l} = {l}
    OBVIOUS
  <2>7. SumOn(AmountOf, {l}) = p[a]
    BY <2>4, <2>5, <2>6, SumOnEmpty
  <2>8. QED
    BY <1>2, <1>3, <2>3, <2>7 DEF Effect
<1>4. CASE a \notin DOMAIN p
  <2>1. \A l \in L : <<l.acct, l.amt>> \in Graph(p)
    BY DEF Pairs
  <2>2. S = {}
    BY <1>1, <1>4, <2>1 DEF Graph
  <2>3. QED
    BY <1>2, <1>4, <2>2, SumOnEmpty DEF Effect
<1>5. QED
  BY <1>3, <1>4

-----------------------------------------------------------------------------
(* The invariant of the books *)

\* What assertBalanced lets through, and the other side of it.
Sent == {p \in Postings : Balanced(p)}
Written == Sent \cup {Negated(p) : p \in Sent}

Carries(L, p) == OneLinePerAccount(L) /\ Pairs(L) = Graph(p)

\* The lines L of a transaction fit its status.
RightLines(status, L) ==
    /\ status = "posted" => OneLinePerAccount(L) /\ AllNet(L) = 0
    /\ status \in {"void", "deleted"} => \A a \in Accounts : Net(L, a) = 0

\* The rows a request takes down with its own.
Along(q) == IF q.op \in {"void", "delete", "edit"} /\ ~q.kept THEN q.held \ {q.t} ELSE {}

\* What an open request compared under its locks is still so.
EditReady(q) ==
    /\ q.op \in {"post", "edit"} => q.posting \in Sent
    /\ q.op = "edit" /\ q.partial =>
         Pairs({l \in OwnLines(q.t) : l.acct \in BalanceSheet})
           = {<<a, q.posting[a]>> : a \in DOMAIN q.posting \cap BalanceSheet}
    /\ \A h \in Along(q) : txn[h].reverses \in q.held /\ Unchanged(h, txn[h].reverses)
    /\ q.op = "bulk" /\ q.to # None => \A h \in q.held : Cardinality(CategoryLines(h)) = 1

BooksInv ==
    /\ IsFiniteSet(lines)
    /\ \A l \in lines : txn[l.txn].status # "absent" /\ l.ver <= txn[l.txn].ver
    /\ \A t \in Txns : RightLines(txn[t].status, LinesOf(t))
    /\ balance \in [Accounts -> Int] /\ BalancesMatchLines
    /\ \A s \in Requests : EditReady(req[s])

\* Both sides of what assertBalanced let through have the columns of a posting.
LEMMA WrittenTypes ==
    ASSUME NEW p \in Written
    PROVE  /\ DOMAIN p \subseteq Accounts /\ IsFiniteSet(DOMAIN p) /\ IsFiniteSet(Accounts)
           /\ \A a \in DOMAIN p : p[a] \in Int
<1>1. DOMAIN p \subseteq Accounts /\ \A a \in DOMAIN p : p[a] \in Int
  BY PostingTypes DEF Written, Sent
<1>2. QED
  BY <1>1, LedgerConstants, FS_Subset

\* The nets of disjoint sets of lines add up, and so do their totals.
LEMMA AllNetUnion ==
    ASSUME NEW L, IsFiniteSet(L), L \subseteq Line, NEW K, IsFiniteSet(K), K \subseteq Line, L \cap K = {}
    PROVE  AllNet(L \cup K) = AllNet(L) + AllNet(K)
<1>1. PICK M : M = L \cup K
  OBVIOUS
<1>2. PICK f : f = [a \in Accounts |-> Net(L, a)]
  OBVIOUS
<1>3. PICK g : g = [a \in Accounts |-> Net(K, a)]
  OBVIOUS
<1>4. PICK h : h = [a \in Accounts |-> Net(M, a)]
  OBVIOUS
<1>5. \A a \in Accounts : f[a] \in Int /\ g[a] \in Int /\ h[a] = f[a] + g[a]
  <2>1. SUFFICES ASSUME NEW a \in Accounts PROVE f[a] \in Int /\ g[a] \in Int /\ h[a] = f[a] + g[a]
    OBVIOUS
  <2>2. Net(L, a) \in Int /\ Net(K, a) \in Int
    BY NetIsSum
  <2>3. Net(M, a) = Net(L, a) + Net(K, a)
    BY <1>1, NetUnion
  <2>4. QED
    BY <1>2, <1>3, <1>4, <2>2, <2>3
<1>6. SumOn(h, Accounts) = SumOn(f, Accounts) + SumOn(g, Accounts)
  BY <1>5, SumOnPlus, LedgerConstants
<1>7. AllNet(L) = SumOn(f, Accounts) /\ AllNet(K) = SumOn(g, Accounts) /\ AllNet(M) = SumOn(h, Accounts)
  BY <1>2, <1>3, <1>4 DEF AllNet
<1>8. QED
  BY <1>1, <1>6, <1>7

\* Balanced is about the sum of the posting's amounts.
LEMMA BalancedSum ==
    ASSUME NEW p, DOMAIN p \subseteq Accounts, \A a \in DOMAIN p : p[a] \in Int
    PROVE  Balanced(p) <=> SumOn(p, DOMAIN p) = 0
BY DEF Balanced, SumOn

\* Both sides of a posting that callers may send have equal debits and credits.
LEMMA WrittenBalances ==
    ASSUME NEW p \in Written
    PROVE  SumOn(p, DOMAIN p) = 0
<1>1. ASSUME NEW q \in Sent PROVE SumOn(q, DOMAIN q) = 0
  BY PostingTypes, BalancedSum DEF Sent
<1>2. CASE p \in Sent
  BY <1>1, <1>2
<1>3. CASE \E q \in Sent : p = Negated(q)
  <2>1. PICK q \in Sent : p = Negated(q)
    BY <1>3
  <2>2. DOMAIN p = DOMAIN q /\ \A a \in DOMAIN q : p[a] = -q[a]
    BY <2>1 DEF Negated
  <2>3. IsFiniteSet(DOMAIN q) /\ \A a \in DOMAIN q : q[a] \in Int
    BY WrittenTypes DEF Written
  <2>4. SumOn(p, DOMAIN q) = -SumOn(q, DOMAIN q)
    BY <2>2, <2>3, SumOnNegated
  <2>5. QED
    BY <1>1, <2>2, <2>4
<1>4. QED
  BY <1>2, <1>3 DEF Written

\* Lines that carry a posting add up to what its amounts add up to.
LEMMA CarriesTotal ==
    ASSUME NEW L, IsFiniteSet(L), L \subseteq Line, NEW p, Carries(L, p), DOMAIN p \subseteq Accounts,
           \A a \in DOMAIN p : p[a] \in Int
    PROVE  AllNet(L) = SumOn(p, DOMAIN p)
<1>1. PICK f : f = [a \in Accounts |-> Net(L, a)]
  OBVIOUS
<1>2. AllNet(L) = SumOn(f, Accounts)
  BY <1>1 DEF AllNet
<1>3. PICK P : P = DOMAIN p
  OBVIOUS
<1>4. IsFiniteSet(Accounts)
  BY LedgerConstants
<1>5. P \subseteq Accounts /\ IsFiniteSet(P) /\ (\A a \in P : p[a] \in Int)
  BY <1>3, <1>4, FS_Subset
<1>6. PICK R : R = Accounts \ P
  OBVIOUS
<1>7. IsFiniteSet(R) /\ P \cap R = {} /\ P \cup R = Accounts
  BY <1>4, <1>5, <1>6, FS_Subset
<1>8. \A a \in Accounts : f[a] = Effect(p, a)
  BY <1>1, NetOfPosting DEF Carries
<1>9. \A a \in P : p[a] \in Int /\ f[a] = p[a]
  BY <1>3, <1>5, <1>8 DEF Effect
<1>10. \A a \in R : f[a] = 0
  BY <1>3, <1>6, <1>8 DEF Effect
<1>11. SumOn(f, P) = SumOn(p, P)
  BY <1>5, <1>9, SumOnSame
<1>12. SumOn(f, R) = 0
  BY <1>7, <1>10, SumOnZero
<1>13. \A a \in P \cup R : f[a] \in Int
  BY <1>9, <1>10
<1>14. SumOn(f, P \cup R) = SumOn(f, P) + SumOn(f, R)
  BY <1>5, <1>7, <1>13, SumOnUnion
<1>15. SumOn(p, P) \in Int
  BY <1>5, SumOnType
<1>16. SumOn(f, Accounts) = SumOn(p, P) + 0
  BY <1>7, <1>11, <1>12, <1>14
<1>17. SumOn(f, Accounts) = SumOn(p, P)
  BY <1>15, <1>16
<1>18. QED
  BY <1>2, <1>3, <1>17

\* Those of a posting that passed assertBalanced fit a posted row.
LEMMA CarriesRight ==
    ASSUME NEW L, IsFiniteSet(L), L \subseteq Line, NEW p \in Written, Carries(L, p)
    PROVE  RightLines("posted", L)
BY WrittenTypes, WrittenBalances, CarriesTotal DEF RightLines, Carries

\* The lines inserted for a posting say what it says, and are finitely many.
LEMMA NewLinesCarry ==
    ASSUME NEW t \in Txns, NEW v \in 0..MaxEdits, NEW p \in Written
    PROVE  /\ NewLines(t, v, p) \subseteq Line /\ IsFiniteSet(NewLines(t, v, p))
           /\ \A l \in NewLines(t, v, p) : l.txn = t /\ l.ver = v /\ l.rev = FALSE
           /\ Carries(NewLines(t, v, p), p)
<1>1. PICK N : N = NewLines(t, v, p)
  OBVIOUS
<1>2. N \subseteq Line
  BY <1>1, WrittenTypes, NewLinesType
<1>3. PICK m : m = [a \in DOMAIN p |-> [txn |-> t, ver |-> v, acct |-> a, rev |-> FALSE, amt |-> p[a]]]
  OBVIOUS
<1>4. N = {m[a] : a \in DOMAIN p}
  <2>1. \A a \in DOMAIN p : m[a] = [txn |-> t, ver |-> v, acct |-> a, rev |-> FALSE, amt |-> p[a]]
    BY <1>3
  <2>2. ASSUME NEW l \in N PROVE \E a \in DOMAIN p : l = m[a]
    BY <1>1, <2>1 DEF NewLines
  <2>3. ASSUME NEW a \in DOMAIN p PROVE m[a] \in N
    BY <1>1, <2>1 DEF NewLines
  <2>4. QED
    BY <2>2, <2>3
<1>5. IsFiniteSet(N)
  BY <1>4, WrittenTypes, FiniteImage
<1>6. ASSUME NEW l \in N
      PROVE  \E a \in DOMAIN p : /\ l = [txn |-> t, ver |-> v, acct |-> a, rev |-> FALSE, amt |-> p[a]]
                                 /\ l.acct = a /\ l.amt = p[a]
  BY <1>1 DEF NewLines
<1>7. \A l \in N : l.txn = t /\ l.ver = v /\ l.rev = FALSE
  BY <1>6
<1>8. OneLinePerAccount(N)
  BY <1>6, <1>7 DEF OneLinePerAccount
<1>9. Pairs(N) = Graph(p)
  <2>1. \A l \in N : <<l.acct, l.amt>> \in Graph(p)
    BY <1>6 DEF Graph
  <2>2. ASSUME NEW a \in DOMAIN p PROVE <<a, p[a]>> \in Pairs(N)
    <3>1. PICK l \in N : l.acct = a /\ l.amt = p[a]
      BY <1>3, <1>4
    <3>2. QED
      BY <3>1 DEF Pairs
  <2>3. QED
    BY <2>1, <2>2 DEF Pairs, Graph
<1>10. QED
  BY <1>1, <1>2, <1>5, <1>7, <1>8, <1>9 DEF Carries

\* Every line there is was inserted for a transaction that exists, by this
\* edit of it or an earlier one.
LEMMA KnownLines ==
    ASSUME LedgerInv, BooksInv, NEW t \in Txns
    PROVE  /\ LinesOf(t) \subseteq Line /\ IsFiniteSet(LinesOf(t)) /\ LinesOf(t) \subseteq lines
           /\ IsFiniteSet(lines) /\ lines \subseteq Line
           /\ t \in Fresh => LinesOf(t) = {}
           /\ Live(t) => \A l \in LinesOf(t) : l.rev = FALSE /\ l.ver <= txn[t].ver
<1>1. LinesOf(t) \subseteq Line /\ LinesOf(t) \subseteq lines /\ lines \subseteq Line
  BY DEF LedgerInv, LedgerTypeOK, LinesOf
<1>2. IsFiniteSet(lines) /\ IsFiniteSet(LinesOf(t))
  BY <1>1, FS_Subset DEF BooksInv
<1>3. \A l \in LinesOf(t) : txn[t].status # "absent" /\ l.ver <= txn[t].ver
  BY DEF BooksInv, LinesOf
<1>4. Live(t) => \A l \in LinesOf(t) : l.rev = FALSE
  <2>1. SUFFICES ASSUME Live(t), NEW l \in LinesOf(t) PROVE l.rev = FALSE
    OBVIOUS
  <2>2. OneLinePerAccount(LinesOf(t))
    BY <2>1 DEF BooksInv, RightLines, Live
  <2>3. l.rev \in BOOLEAN /\ ~l.rev
    BY <1>1, <2>2 DEF OneLinePerAccount, Line
  <2>4. QED
    BY <2>3
<1>5. t \in Fresh => LinesOf(t) = {}
  BY <1>3 DEF Fresh
<1>6. QED
  BY <1>1, <1>2, <1>3, <1>4, <1>5

\* The lines of L that belong to t.
Part(L, t) == {l \in L : l.txn = t}

\* A commit of s that removes the lines D and inserts the lines N, all of them
\* lines of the rows T that s holds or inserts, and moves the balances by them.
Writes(s, T, D, N) ==
    /\ req' = [req EXCEPT ![s] = Idle]
    /\ T \subseteq Txns /\ T \subseteq req[s].held \cup Fresh
    /\ \A t \in Txns \ T : txn'[t] = txn[t]
    /\ \A t \in T : /\ txn'[t].status # "absent"
                    /\ txn[t].status # "absent" => txn[t].ver <= txn'[t].ver
    /\ D \subseteq lines /\ N \subseteq Line /\ IsFiniteSet(N) /\ N \cap (lines \ D) = {}
    /\ lines' = (lines \ D) \cup N
    /\ \A l \in D \cup N : l.txn \in T
    /\ \A l \in N : l.ver <= txn'[l.txn].ver
    /\ balance' \in [Accounts -> Int]
    /\ \A a \in Accounts : balance'[a] = balance[a] - Net(D, a) + Net(N, a)

\* It leaves each row it wrote with lines that fit it.
LeavesRight(T) == \A t \in T : RightLines(txn'[t].status, LinesOf(t)')

\* Lines of other rows stay, and those of a row written are what they were,
\* less what went and with what came.
LEMMA WrittenFor ==
    ASSUME NEW s, NEW T, NEW D, NEW N, Writes(s, T, D, N)
    PROVE  \A t : LinesOf(t)' = (LinesOf(t) \ D) \cup Part(N, t)
BY DEF Writes, LinesOf, Part

LEMMA WrittenElsewhere ==
    ASSUME NEW s, NEW T, NEW D, NEW N, Writes(s, T, D, N)
    PROVE  \A t : t \notin T => LinesOf(t)' = LinesOf(t)
BY DEF Writes, LinesOf

\* A commit that leaves the rows it wrote right keeps the books.
LEMMA CommitBooks ==
    ASSUME LedgerInv, LedgerInv', BooksInv, NEW s \in Requests, NEW T, NEW D, NEW N,
           Writes(s, T, D, N), LeavesRight(T)
    PROVE  BooksInv'
<1>0. /\ \A t : t \notin T => LinesOf(t)' = LinesOf(t)
      /\ lines' = (lines \ D) \cup N
      /\ D \subseteq lines /\ N \subseteq Line /\ IsFiniteSet(N) /\ N \cap (lines \ D) = {}
      /\ \A t \in Txns \ T : txn'[t] = txn[t]
  BY WrittenElsewhere DEF Writes
<1>1. IsFiniteSet(lines) /\ lines \subseteq Line /\ IsFiniteSet(lines \ D) /\ IsFiniteSet(lines')
  <2>1. IsFiniteSet(lines) /\ lines \subseteq Line
    BY DEF BooksInv, LedgerInv, LedgerTypeOK
  <2>2. IsFiniteSet(lines \ D)
    BY <2>1, FS_Subset
  <2>3. IsFiniteSet((lines \ D) \cup N)
    BY <1>0, <2>2, FS_Union
  <2>4. QED
    BY <1>0, <2>1, <2>2, <2>3
<1>2. ASSUME NEW l \in lines'
      PROVE  txn'[l.txn].status # "absent" /\ l.ver <= txn'[l.txn].ver
  <2>1. CASE l \in N
    BY <2>1 DEF Writes
  <2>2. CASE l \in lines /\ l.txn \notin T
    <3>1. l.txn \in Txns
      BY <1>1, <2>2 DEF Line
    <3>2. QED
      BY <1>0, <2>2, <3>1 DEF BooksInv
  <2>3. CASE l \in lines /\ l.txn \in T
    <3>1. l.ver <= txn[l.txn].ver /\ txn[l.txn].status # "absent"
      BY <2>3 DEF BooksInv
    <3>2. txn[l.txn].ver <= txn'[l.txn].ver /\ txn'[l.txn].status # "absent"
      BY <2>3, <3>1 DEF Writes
    <3>3. l.ver \in Int /\ txn[l.txn].ver \in Int /\ txn'[l.txn].ver \in Int
      BY <1>1, <2>3, LedgerConstants DEF Line, LedgerInv, LedgerTypeOK, Header
    <3>4. QED
      BY <3>1, <3>2, <3>3
  <2>4. QED
    BY <1>0, <2>1, <2>2, <2>3
<1>3. ASSUME NEW t \in Txns
      PROVE  RightLines(txn'[t].status, LinesOf(t)')
  <2>1. CASE t \notin T
    <3>1. LinesOf(t)' = LinesOf(t) /\ txn'[t] = txn[t]
      BY <1>0, <2>1
    <3>2. RightLines(txn[t].status, LinesOf(t))
      BY DEF BooksInv
    <3>3. QED
      BY <3>1, <3>2
  <2>2. QED
    BY <2>1 DEF LeavesRight
<1>4. ASSUME NEW a \in Accounts
      PROVE  balance'[a] = Net(lines, a)'
  <2>1. Net(lines \ D, a) = Net(lines, a) - Net(D, a)
    BY <1>0, <1>1, NetMinus
  <2>2. Net((lines \ D) \cup N, a) = Net(lines \ D, a) + Net(N, a)
    BY <1>0, <1>1, NetUnion
  <2>3. PICK L : L = lines'
    OBVIOUS
  <2>4. L = (lines \ D) \cup N
    BY <1>0, <2>3
  <2>5. Net(L, a) = Net(lines, a) - Net(D, a) + Net(N, a)
    BY <2>1, <2>2, <2>4
  <2>6. balance[a] = Net(lines, a)
    BY DEF BooksInv, BalancesMatchLines
  <2>7. Net(lines, a)' = Net(L, a)
    BY <2>3
  <2>8. balance'[a] = balance[a] - Net(D, a) + Net(N, a)
    BY DEF Writes
  <2>9. QED
    BY <2>5, <2>6, <2>7, <2>8
<1>5. ASSUME NEW u \in Requests
      PROVE  EditReady(req[u])'
  <2>1. req'[u] = IF u = s THEN Idle ELSE req[u]
    BY DEF Writes, LedgerInv, LedgerTypeOK
  <2>2. CASE u = s
    BY <2>1, <2>2 DEF EditReady, Along, Idle
  <2>3. CASE u # s
    <3>1. req'[u] = req[u] /\ EditReady(req[u]) /\ HeldRowsStand(req[u]) /\ req[u].held \subseteq Txns
      BY <2>1, <2>3 DEF BooksInv, LedgerInv, LockDiscipline, LedgerTypeOK, RequestRow
    <3>2. \A h \in req[u].held : h \notin T
      BY <2>3, <3>1 DEF LedgerInv, LockDiscipline, LocksExclusive, HeldRowsStand, Fresh, Live, Writes
    <3>3. \A h \in req[u].held : txn'[h] = txn[h] /\ LinesOf(h)' = LinesOf(h)
      BY <1>0, <3>1, <3>2
    <3>4. \A h \in req[u].held : OwnLines(h)' = OwnLines(h)
      BY <3>3 DEF OwnLines
    <3>5. \A h \in req[u].held : CategoryLines(h)' = CategoryLines(h)
      BY <3>3 DEF CategoryLines
    <3>6. ASSUME NEW h \in Along(req[u])
          PROVE  txn'[h].reverses \in req[u].held /\ Unchanged(h, txn[h].reverses)'
      <4>1. h \in req[u].held /\ txn[h].reverses \in req[u].held /\ Unchanged(h, txn[h].reverses)
        BY <3>1 DEF EditReady, Along
      <4>2. PICK o \in req[u].held : o = txn[h].reverses
        BY <4>1
      <4>3. txn'[h] = txn[h] /\ OwnLines(h)' = OwnLines(h) /\ LinesOf(o)' = LinesOf(o)
        BY <3>3, <3>4, <4>1
      <4>4. Unchanged(h, o)'
        BY <4>1, <4>2, <4>3 DEF Unchanged, Live, Mirrors
      <4>5. QED
        BY <4>2, <4>3, <4>4
    <3>7. Along(req[u])' = Along(req[u])
      BY <3>1 DEF Along
    <3>8. \A h \in Along(req[u])' : txn'[h].reverses \in req'[u].held /\ Unchanged(h, txn[h].reverses)'
      BY <3>1, <3>6, <3>7
    <3>9. QED
      BY <3>1, <3>3, <3>4, <3>5, <3>8 DEF EditReady, HeldRowsStand
  <2>4. QED
    BY <2>2, <2>3
<1>6. QED
  <2>1. BalancesMatchLines'
    BY <1>4 DEF BalancesMatchLines
  <2>2. \A t \in Txns : RightLines(txn[t].status, LinesOf(t))'
    BY <1>3
  <2>3. IsFiniteSet(lines)' /\ (\A l \in lines : txn[l.txn].status # "absent" /\ l.ver <= txn[l.txn].ver)'
    BY <1>1, <1>2
  <2>4. \A u \in Requests : EditReady(req[u])'
    BY <1>5
  <2>5. balance' \in [Accounts -> Int]
    BY DEF Writes
  <2>6. QED
    BY <2>1, <2>2, <2>3, <2>4, <2>5 DEF BooksInv

-----------------------------------------------------------------------------
(* Requests that have not committed *)

\* A step that writes no row keeps the books if it keeps what edits rely on.
LEMMA SameBooks ==
    ASSUME BooksInv, UNCHANGED <<txn, lines, balance>>, \A u \in Requests : EditReady(req[u])'
    PROVE  BooksInv'
<1>1. \A t : LinesOf(t)' = LinesOf(t) /\ OwnLines(t)' = OwnLines(t)
  BY DEF LinesOf, OwnLines
<1>2. \A a \in Accounts : Net(lines, a)' = Net(lines, a)
  <2>1. SUFFICES ASSUME NEW a \in Accounts PROVE Net(lines, a)' = Net(lines, a)
    OBVIOUS
  <2>2. PICK L : L = lines
    OBVIOUS
  <2>3. Net(lines, a)' = Net(L, a)
    BY <2>2
  <2>4. QED
    BY <2>2, <2>3
<1>3. BalancesMatchLines'
  BY <1>2 DEF BooksInv, BalancesMatchLines
<1>5. (\A t \in Txns : RightLines(txn[t].status, LinesOf(t)))'
  BY <1>1 DEF BooksInv
<1>6. IsFiniteSet(lines)' /\ (\A l \in lines : txn[l.txn].status # "absent" /\ l.ver <= txn[l.txn].ver)'
      /\ (balance \in [Accounts -> Int])'
  BY DEF BooksInv
<1>7. QED
  BY <1>3, <1>5, <1>6 DEF BooksInv

\* What requests remember they compared does not depend on who else is open.
LEMMA ReadyStays ==
    ASSUME UNCHANGED <<txn, lines>>, NEW q, EditReady(q)
    PROVE  EditReady(q)'
<1>1. \A t : LinesOf(t)' = LinesOf(t) /\ OwnLines(t)' = OwnLines(t) /\ CategoryLines(t)' = CategoryLines(t)
  BY DEF LinesOf, OwnLines, CategoryLines
<1>2. \A h, o : Unchanged(h, o)' = Unchanged(h, o)
  BY <1>1 DEF Unchanged, Mirrors, Live
<1>3. QED
  BY <1>1, <1>2 DEF EditReady, Along

\* A step that only changes what one request remembers.
LEMMA QuietBooks ==
    ASSUME LedgerInv, BooksInv, NEW s \in Requests, NEW q, EditReady(q),
           req' = [req EXCEPT ![s] = q], UNCHANGED <<txn, lines, balance>>
    PROVE  BooksInv'
<1>1. \A u \in Requests : req'[u] = IF u = s THEN q ELSE req[u]
  BY DEF LedgerInv, LedgerTypeOK
<1>2. ASSUME NEW u \in Requests
      PROVE  EditReady(req[u])'
  <2>1. PICK e : e = IF u = s THEN q ELSE req[u]
    OBVIOUS
  <2>2. req'[u] = e /\ EditReady(e)
    BY <1>1, <2>1 DEF BooksInv
  <2>3. EditReady(e)'
    BY <2>2, ReadyStays
  <2>4. QED
    BY <2>2, <2>3 DEF EditReady, Along
<1>3. QED
  BY <1>2, SameBooks

LEMMA BeginBooks ==
    ASSUME LedgerInv, BooksInv, NEW s \in Requests,
           \/ \E p \in Postings, k \in Kinds, d \in Dates, ro \in Dates \cup {None} : BeginPost(s, p, k, d, ro)
           \/ \E t \in Txns : BeginVoid(s, t) \/ BeginDelete(s, t)
           \/ \E t \in Txns, p \in Postings, k \in Kinds, d \in Dates, ro \in Dates \cup {None, Keep} :
                BeginEdit(s, t, p, k, d, ro)
           \/ \E a \in Categories \cup {None} : BeginBulk(s, a)
    PROVE  BooksInv'
<1>1. ASSUME NEW p \in Postings, NEW k \in Kinds, NEW d \in Dates, NEW ro \in Dates \cup {None},
             BeginPost(s, p, k, d, ro)
      PROVE  BooksInv'
  <2>1. PICK q : q = [Idle EXCEPT !.op = "post", !.stage = "commit", !.posting = p, !.kind = k,
                                  !.date = d, !.reverseOn = ro, !.closedAt = lockDate]
    OBVIOUS
  <2>2. req' = [req EXCEPT ![s] = q] /\ UNCHANGED <<txn, lines, balance>> /\ p \in Sent
    BY <1>1, <2>1 DEF BeginPost, Sent
  <2>3. EditReady(q)
    BY <2>1, <2>2 DEF EditReady, Along, Idle
  <2>4. QED
    BY <2>2, <2>3, QuietBooks
<1>2. ASSUME NEW t \in Txns, NEW op \in {"void", "delete"}, req' = [req EXCEPT ![s] = Hold(s, op, t)],
             UNCHANGED <<txn, lines, balance>>
      PROVE  BooksInv'
  <2>1. EditReady(Hold(s, op, t))
    BY DEF EditReady, Along, Hold, Idle
  <2>2. QED
    BY <1>2, <2>1, QuietBooks
<1>3. ASSUME NEW t \in Txns, NEW p \in Postings, NEW k \in Kinds, NEW d \in Dates,
             NEW ro \in Dates \cup {None, Keep}, BeginEdit(s, t, p, k, d, ro)
      PROVE  BooksInv'
  <2>1. PICK q : q = [Hold(s, "edit", t) EXCEPT !.posting = p, !.date = d, !.reverseOn = ro, !.kind = k]
    OBVIOUS
  <2>2. req' = [req EXCEPT ![s] = q] /\ UNCHANGED <<txn, lines, balance>> /\ p \in Sent
    BY <1>3, <2>1 DEF BeginEdit, Sent
  <2>3. EditReady(q)
    BY <2>1, <2>2 DEF EditReady, Along, Hold, Idle
  <2>4. QED
    BY <2>2, <2>3, QuietBooks
<1>4. ASSUME NEW a \in Categories \cup {None}, BeginBulk(s, a)
      PROVE  BooksInv'
  <2>1. PICK q : q = [Idle EXCEPT !.op = "bulk", !.stage = "commit", !.to = a, !.lockRead = lockDate,
                                  !.closedAt = lockDate]
    OBVIOUS
  <2>2. req' = [req EXCEPT ![s] = q] /\ UNCHANGED <<txn, lines, balance>>
    BY <1>4, <2>1 DEF BeginBulk
  <2>3. EditReady(q)
    BY <2>1 DEF EditReady, Along, Idle
  <2>4. QED
    BY <2>2, <2>3, QuietBooks
<1>5. QED
  BY <1>1, <1>2, <1>3, <1>4 DEF BeginVoid, BeginDelete

\* A bulk edit takes a row with exactly one line to move.
LEMMA BulkTakeBooks ==
    ASSUME LedgerInv, BooksInv, NEW s \in Requests, NEW t \in Txns, BulkTake(s, t)
    PROVE  BooksInv'
<1>1. req[s] \in RequestRow /\ EditReady(req[s]) /\ req[s].op = "bulk" /\ UNCHANGED <<txn, lines, balance>>
  BY DEF BulkTake, LedgerInv, LedgerTypeOK, BooksInv
<1>2. PICK q : q = [req[s] EXCEPT !.held = @ \cup {t}]
  OBVIOUS
<1>3. req' = [req EXCEPT ![s] = q]
  BY <1>2 DEF BulkTake, LedgerInv, LedgerTypeOK
<1>4. q.op = "bulk" /\ q.to = req[s].to /\ q.held = req[s].held \cup {t}
  BY <1>1, <1>2 DEF RequestRow
<1>5. q.to # None => \A h \in q.held : Cardinality(CategoryLines(h)) = 1
  BY <1>1, <1>4 DEF EditReady, BulkTake
<1>6. EditReady(q)
  BY <1>4, <1>5 DEF EditReady, Along
<1>7. QED
  BY <1>1, <1>3, <1>6, QuietBooks

\* A reversal taken along mirrored the row above it, which is held too.
LEMMA NextReversalBooks ==
    ASSUME LedgerInv, BooksInv, NEW s \in Requests, NextReversal(s)
    PROVE  BooksInv'
<1>1. /\ req[s] \in RequestRow /\ EditReady(req[s]) /\ ~req[s].kept
      /\ UNCHANGED <<txn, lines, balance>>
      /\ req[s].op \in {"void", "delete", "edit"} /\ req[s].cur \in req[s].held
  BY DEF NextReversal, LedgerInv, LedgerTypeOK, LockDiscipline, ChainHeld, HeldRowsStand, BooksInv
<1>2. CASE req' = [req EXCEPT ![s].stage = "commit"]
  <2>1. PICK q : q = [req[s] EXCEPT !.stage = "commit"]
    OBVIOUS
  <2>2. req' = [req EXCEPT ![s] = q]
    BY <1>2, <2>1 DEF LedgerInv, LedgerTypeOK
  <2>3. /\ q.op = req[s].op /\ q.t = req[s].t /\ q.posting = req[s].posting /\ q.partial = req[s].partial
        /\ q.kept = req[s].kept /\ q.held = req[s].held /\ q.to = req[s].to
    BY <1>1, <2>1 DEF RequestRow
  <2>4. EditReady(q)
    BY <1>1, <2>3 DEF EditReady, Along
  <2>5. QED
    BY <1>1, <2>2, <2>4, QuietBooks
<1>3. CASE \E r \in ReversalsFound(req[s].cur) : TakeAlong(s, req[s].cur, r)
  <2>1. PICK r \in ReversalsFound(req[s].cur) : TakeAlong(s, req[s].cur, r)
    BY <1>3
  <2>2. PICK q : q = [req[s] EXCEPT !.held = @ \cup {r}, !.cur = r]
    OBVIOUS
  <2>3. req' = [req EXCEPT ![s] = q]
    BY <2>1, <2>2 DEF TakeAlong, LedgerInv, LedgerTypeOK
  <2>4. /\ q.op = req[s].op /\ q.t = req[s].t /\ q.posting = req[s].posting /\ q.partial = req[s].partial
        /\ q.kept = req[s].kept /\ q.held = req[s].held \cup {r}
    BY <1>1, <2>2 DEF RequestRow
  <2>5. txn[r].reverses = req[s].cur /\ Unchanged(r, req[s].cur)
    BY <2>1 DEF TakeAlong, ReversalsFound, LiveReversals
  <2>6. \A h \in Along(q) : txn[h].reverses \in q.held /\ Unchanged(h, txn[h].reverses)
    BY <1>1, <2>4, <2>5 DEF EditReady, Along
  <2>7. EditReady(q)
    BY <1>1, <2>4, <2>6 DEF EditReady
  <2>8. QED
    BY <1>1, <2>3, <2>7, QuietBooks
<1>4. QED
  BY <1>2, <1>3 DEF NextReversal

\* What KeepsBalanceSheet compared for a reconciled row, and that the reversal
\* to be replaced mirrors the entry, are what EditReady remembers.
LEMMA CheckEditBooks ==
    ASSUME LedgerInv, BooksInv, NEW s \in Requests, CheckEdit(s)
    PROVE  BooksInv'
<1>1. PICK q : q = req[s]
  OBVIOUS
<1>2. /\ q \in RequestRow /\ EditReady(q) /\ q.op = "edit" /\ q.stage = "reversal" /\ ~q.kept
      /\ q.t \in q.held /\ UNCHANGED <<txn, lines, balance>>
  BY <1>1 DEF CheckEdit, LedgerInv, LedgerTypeOK, LockDiscipline, ChainHeld, HeldRowsStand, BooksInv
<1>3. q.posting \in Sent
  BY <1>2 DEF EditReady
<1> DEFINE target(r) == TargetOn(req[s], r)
           row0(r) == [req[s] EXCEPT !.reverseOn = target(r), !.partial = ClearedInCompleted(req[s].t) # {}]
<1>11. PICK r \in EditReversals(req[s]) \cup {None} :
        /\ ReversalOf(req[s], r)
        /\ Editable(req[s], target(r))
        /\ \/ req' = [req EXCEPT ![s] = [row0(r) EXCEPT !.stage = "commit", !.kept = TRUE,
                                                         !.held = @ \cup {r}]]
           \/ req' = [req EXCEPT ![s] = [row0(r) EXCEPT !.stage = "commit"]]
           \/ /\ r # None /\ Unchanged(r, req[s].t)
              /\ req' = [req EXCEPT ![s] = [row0(r) EXCEPT !.held = @ \cup {r}, !.cur = r]]
  BY DEF CheckEdit
<1>12. PICK settled : settled = row0(r)
  OBVIOUS
<1>4. /\ settled = [q EXCEPT !.reverseOn = target(r), !.partial = ClearedInCompleted(q.t) # {}]
      /\ Editable(q, target(r))
      /\ \/ req' = [req EXCEPT ![s] = [settled EXCEPT !.stage = "commit", !.kept = TRUE,
                                                       !.held = @ \cup {r}]]
         \/ req' = [req EXCEPT ![s] = [settled EXCEPT !.stage = "commit"]]
         \/ /\ r # None /\ Unchanged(r, q.t)
            /\ req' = [req EXCEPT ![s] = [settled EXCEPT !.held = @ \cup {r}, !.cur = r]]
  BY <1>1, <1>11, <1>12
<1>13. r # None => txn[r].reverses = q.t
  BY <1>1, <1>11 DEF EditReversals, ReversalsFound, LiveReversals
<1> HIDE DEF target, row0
<1>5. /\ settled.op = "edit" /\ settled.t = q.t /\ settled.posting = q.posting
      /\ settled.kept = FALSE /\ settled.held = q.held
      /\ settled.partial = (ClearedInCompleted(q.t) # {})
  BY <1>2, <1>4 DEF RequestRow
<1>6. settled.partial =>
        Pairs({l \in OwnLines(q.t) : l.acct \in BalanceSheet})
          = {<<a, q.posting[a]>> : a \in DOMAIN q.posting \cap BalanceSheet}
  BY <1>4, <1>5 DEF Editable, KeepsBalanceSheet, Pairs
<1>7. PICK row : /\ req' = [req EXCEPT ![s] = row]
                 /\ row.op = "edit" /\ row.t = q.t /\ row.posting = q.posting
                 /\ row.partial = settled.partial
                 /\ \/ row.kept = TRUE
                    \/ row.kept = FALSE /\ row.held = q.held
                    \/ /\ row.kept = FALSE /\ row.held = q.held \cup {r}
                       /\ r # None /\ Unchanged(r, q.t)
  <2>1. CASE req' = [req EXCEPT ![s] = [settled EXCEPT !.stage = "commit", !.kept = TRUE,
                                                       !.held = @ \cup {r}]]
    <3>1. PICK row : row = [settled EXCEPT !.stage = "commit", !.kept = TRUE, !.held = @ \cup {r}]
      OBVIOUS
    <3>2. row.op = "edit" /\ row.t = q.t /\ row.posting = q.posting
          /\ row.partial = settled.partial /\ row.kept = TRUE
      BY <1>2, <1>4, <1>5, <3>1 DEF RequestRow
    <3>3. QED
      BY <2>1, <3>1, <3>2
  <2>2. CASE req' = [req EXCEPT ![s] = [settled EXCEPT !.stage = "commit"]]
    <3>1. PICK row : row = [settled EXCEPT !.stage = "commit"]
      OBVIOUS
    <3>2. row.op = "edit" /\ row.t = q.t /\ row.posting = q.posting
          /\ row.partial = settled.partial /\ row.kept = FALSE /\ row.held = q.held
      BY <1>2, <1>4, <1>5, <3>1 DEF RequestRow
    <3>3. QED
      BY <2>2, <3>1, <3>2
  <2>3. CASE /\ r # None /\ Unchanged(r, q.t)
             /\ req' = [req EXCEPT ![s] = [settled EXCEPT !.held = @ \cup {r}, !.cur = r]]
    <3>1. PICK row : row = [settled EXCEPT !.held = @ \cup {r}, !.cur = r]
      OBVIOUS
    <3>2. row.op = "edit" /\ row.t = q.t /\ row.posting = q.posting
          /\ row.partial = settled.partial /\ row.kept = FALSE /\ row.held = q.held \cup {r}
      BY <1>2, <1>4, <1>5, <3>1 DEF RequestRow
    <3>3. QED
      BY <2>3, <3>1, <3>2
  <2>4. QED
    BY <1>4, <2>1, <2>2, <2>3
<1>8. ASSUME NEW h \in Along(row)
      PROVE  txn[h].reverses \in row.held /\ Unchanged(h, txn[h].reverses)
  <2>1. row.kept = FALSE /\ h \in row.held /\ h # q.t /\ q.held \subseteq row.held
    BY <1>7, <1>8 DEF Along
  <2>2. CASE h \in q.held
    <3>1. h \in Along(q)
      BY <1>2, <2>1, <2>2 DEF Along
    <3>2. QED
      BY <1>2, <2>1, <3>1 DEF EditReady
  <2>3. CASE h = r /\ r # None /\ Unchanged(r, q.t)
    BY <1>2, <1>13, <2>1, <2>3
  <2>4. QED
    BY <1>7, <2>1, <2>2, <2>3
<1>9. EditReady(row)
  BY <1>3, <1>6, <1>7, <1>8 DEF EditReady
<1>10. QED
  BY <1>2, <1>7, <1>9, QuietBooks

LEMMA RollbackBooks ==
    ASSUME LedgerInv, BooksInv, NEW s \in Requests, Rollback(s)
    PROVE  BooksInv'
<1>1. EditReady(Idle)
  BY DEF EditReady, Along, Idle
<1>2. QED
  BY <1>1, QuietBooks DEF Rollback

-----------------------------------------------------------------------------
(* Commits *)

LEMMA SentBothWays ==
    ASSUME NEW p \in Sent
    PROVE  p \in Written /\ Negated(p) \in Written
BY DEF Written

LEMMA CommitPostBooks ==
    ASSUME LedgerInv, LedgerInv', BooksInv, NEW s \in Requests, CommitPost(s)
    PROVE  BooksInv'
<1>1. PICK q : q = req[s]
  OBVIOUS
<1>2. PICK p \in Sent : p = q.posting
  BY <1>1 DEF BooksInv, EditReady, CommitPost
<1>3. p \in Written /\ Negated(p) \in Written
  BY SentBothWays
<1>4. PICK t \in Fresh : \E r \in IF q.reverseOn = None THEN {None} ELSE Fresh \ {t} :
         LET new == NewLines(t, 0, p) \cup (IF r = None THEN {} ELSE NewLines(r, 0, Negated(p)))
         IN /\ txn' = [u \in Txns |-> IF u = t THEN PostedRow(q.kind, q.date, None)
                                      ELSE IF u = r THEN PostedRow("journal_entry", q.reverseOn, t)
                                      ELSE txn[u]]
            /\ lines' = lines \cup new
            /\ balance' = Apply(balance, new)
  BY <1>1, <1>2 DEF CommitPost
<1>5. PICK r \in (Fresh \cup {None}) \ {t} :
         LET new == NewLines(t, 0, p) \cup (IF r = None THEN {} ELSE NewLines(r, 0, Negated(p)))
         IN /\ txn' = [u \in Txns |-> IF u = t THEN PostedRow(q.kind, q.date, None)
                                      ELSE IF u = r THEN PostedRow("journal_entry", q.reverseOn, t)
                                      ELSE txn[u]]
            /\ lines' = lines \cup new
            /\ balance' = Apply(balance, new)
  BY <1>4, LedgerConstants DEF Fresh
<1>6. /\ None \notin Txns /\ t \in Txns /\ t \in Fresh /\ r # t /\ (r # None => r \in Txns /\ r \in Fresh)
      /\ 0 \in 0..MaxEdits
  BY <1>5, LedgerConstants DEF Fresh
<1>7. PICK T : T = {u \in Txns : u = t \/ u = r}
  OBVIOUS
<1>8. PICK A : A = IF r = None THEN {} ELSE NewLines(r, 0, Negated(p))
  OBVIOUS
<1>9. PICK B : B = NewLines(t, 0, p)
  OBVIOUS
<1>10. PICK N : N = B \cup A
  OBVIOUS
<1>26. PICK D : D = {}
  OBVIOUS
<1>11. /\ txn' = [u \in Txns |-> IF u = t THEN PostedRow(q.kind, q.date, None)
                                 ELSE IF u = r THEN PostedRow("journal_entry", q.reverseOn, t)
                                 ELSE txn[u]]
       /\ lines' = (lines \ D) \cup N /\ balance' = Apply(balance, N)
  BY <1>5, <1>8, <1>9, <1>10, <1>26
<1>12. /\ B \subseteq Line /\ IsFiniteSet(B) /\ Carries(B, p)
       /\ \A l \in B : l.txn = t /\ l.ver = 0 /\ l.rev = FALSE
  BY <1>3, <1>6, <1>9, NewLinesCarry
<1>13. /\ A \subseteq Line /\ IsFiniteSet(A) /\ \A l \in A : l.txn = r /\ l.ver = 0 /\ l.rev = FALSE
       /\ r # None => Carries(A, Negated(p))
  <2>1. CASE r = None
    BY <1>8, <2>1, FS_EmptySet
  <2>2. CASE r # None
    BY <1>3, <1>6, <1>8, <2>2, NewLinesCarry
  <2>3. QED
    BY <2>1, <2>2
<1>14. N \in SUBSET Line /\ IsFiniteSet(N) /\ (\A l \in D \cup N : l.txn \in T) /\ D \in SUBSET lines
  BY <1>6, <1>26, <1>7, <1>8, <1>10, <1>12, <1>13, FS_Union
<1>15. T \in SUBSET Txns /\ T \subseteq req[s].held \cup Fresh /\ \A u \in T : LinesOf(u) = {}
  BY <1>6, <1>7, KnownLines
<1>16. Part(N, t) = B /\ (r # None => Part(N, r) = A)
  BY <1>6, <1>10, <1>12, <1>13 DEF Part
<1>17. /\ txn'[t] = PostedRow(q.kind, q.date, None)
       /\ r # None => txn'[r] = PostedRow("journal_entry", q.reverseOn, t)
       /\ \A u \in Txns \ T : txn'[u] = txn[u]
  BY <1>6, <1>7, <1>11
<1>18. \A u \in T : txn'[u].status = "posted" /\ txn[u].status = "absent"
  BY <1>6, <1>7, <1>17 DEF Fresh, PostedRow
<1>19. N \cap (lines \ D) = {}
  BY <1>14, <1>15 DEF LinesOf
<1>20. \A l \in N : l.ver <= txn'[l.txn].ver
  BY <1>8, <1>10, <1>12, <1>13, <1>17 DEF PostedRow
<1>21. balance' \in [Accounts -> Int] /\ \A a \in Accounts : balance'[a] = balance[a] - Net(D, a) + Net(N, a)
  <2>1. \A a \in Accounts : Net(N, a) \in Int /\ Net(D, a) = 0
    BY <1>14, <1>26, NetIsSum, NetEmpty
  <2>2. \A a \in Accounts : balance[a] \in Int
    BY DEF BooksInv
  <2>3. QED
    BY <1>11, <2>1, <2>2 DEF Apply
<1>22. Writes(s, T, D, N)
  BY <1>11, <1>14, <1>15, <1>17, <1>18, <1>19, <1>20, <1>21 DEF Writes, CommitPost
<1>23. LinesOf(t)' = B /\ (r # None => LinesOf(r)' = A)
  <2>1. \A u : LinesOf(u)' = (LinesOf(u) \ D) \cup Part(N, u)
    BY <1>22, WrittenFor
  <2>2. ASSUME NEW u \in T PROVE LinesOf(u)' = Part(N, u)
    BY <1>15, <2>1
  <2>3. QED
    BY <1>6, <1>7, <1>16, <2>2
<1>24. LeavesRight(T)
  <2>1. ASSUME NEW u \in T PROVE RightLines(txn'[u].status, LinesOf(u)')
    <3>1. CASE u = t
      <4>1. RightLines("posted", B)
        BY <1>3, <1>12, CarriesRight
      <4>2. QED
        BY <1>18, <1>23, <3>1, <4>1
    <3>2. CASE u = r /\ r # None
      <4>1. RightLines("posted", A)
        BY <1>3, <1>13, <3>2, CarriesRight
      <4>2. QED
        BY <1>18, <1>23, <3>2, <4>1
    <3>3. QED
      BY <1>6, <1>7, <3>1, <3>2
  <2>2. QED
    BY <2>1 DEF LeavesRight
<1>27. QED
  BY <1>22, <1>24, CommitBooks

\* The lines that take the rows U out of the books.
BackOf(U) == Swapped(UNION {LinesOf(t) : t \in U})

\* Each row is taken out with its own lines swapped,
\* which leaves nothing of it on any account.
LEMMA TakenBack ==
    ASSUME LedgerInv, BooksInv, NEW U \in SUBSET Txns, \A u \in U : Live(u),
           NEW N, N = BackOf(U)
    PROVE  /\ N \in SUBSET Line /\ IsFiniteSet(N) /\ N \cap lines = {}
           /\ \A l \in N : l.txn \in U /\ l.ver <= txn[l.txn].ver
           /\ \A u \in U : \A a \in Accounts : Net(LinesOf(u) \cup Part(N, u), a) = 0
<1>1. PICK L : L = UNION {LinesOf(t) : t \in U}
  OBVIOUS
<1>2. L \subseteq lines /\ L \subseteq Line /\ IsFiniteSet(L)
  <2>1. L \subseteq lines
    BY <1>1 DEF LinesOf
  <2>2. QED
    BY <2>1, FS_Subset DEF BooksInv, LedgerInv, LedgerTypeOK
<1>3. \A l \in L : l.txn \in U /\ l \in LinesOf(l.txn) /\ l.rev = FALSE /\ l.ver <= txn[l.txn].ver
  <2>1. SUFFICES ASSUME NEW u \in U, NEW l \in LinesOf(u)
                 PROVE  l.txn \in U /\ l \in LinesOf(l.txn) /\ l.rev = FALSE /\ l.ver <= txn[l.txn].ver
    BY <1>1
  <2>2. l.txn = u
    BY DEF LinesOf
  <2>3. QED
    BY <2>2, KnownLines
<1>4. N = Swapped(L) /\ N \in SUBSET Line /\ IsFiniteSet(N)
  BY <1>1, <1>2, <1>3, SwappedType, NetSwapped DEF BackOf
<1>5. \A l \in N : \E k \in L : l = [k EXCEPT !.rev = TRUE, !.amt = -k.amt]
                               /\ l.rev = TRUE /\ l.txn = k.txn /\ l.ver = k.ver
  <2>1. SUFFICES ASSUME NEW k \in L, NEW l, l = [k EXCEPT !.rev = TRUE, !.amt = -k.amt]
                 PROVE  l.rev = TRUE /\ l.txn = k.txn /\ l.ver = k.ver
    BY <1>4 DEF Swapped
  <2>2. k \in Line
    BY <1>2
  <2>3. QED
    BY <2>1, <2>2 DEF Line
<1>6. N \cap lines = {}
  <2>1. ASSUME NEW l \in N, l \in lines PROVE FALSE
    <3>1. l.rev = TRUE /\ l.txn \in U
      BY <1>3, <1>5
    <3>2. l \in LinesOf(l.txn) /\ l.txn \in Txns /\ Live(l.txn)
      BY <2>1, <3>1 DEF LinesOf
    <3>3. QED
      BY <3>1, <3>2, KnownLines
  <2>2. QED
    BY <2>1
<1>7. ASSUME NEW u \in U, NEW a \in Accounts
      PROVE  Net(LinesOf(u) \cup Part(N, u), a) = 0
  <2>1. PICK K : K = LinesOf(u)
    OBVIOUS
  <2>2. K \subseteq Line /\ IsFiniteSet(K) /\ K \subseteq lines /\ K \subseteq L /\ \A l \in K : ~l.rev
    BY <1>1, <2>1, KnownLines
  <2>3. PICK W : W = Part(N, u)
    OBVIOUS
  <2>4. W = Swapped(K)
    <3>1. ASSUME NEW l \in W PROVE l \in Swapped(K)
      <4>1. PICK k \in L : l = [k EXCEPT !.rev = TRUE, !.amt = -k.amt] /\ k.txn = u
        BY <1>5, <2>3 DEF Part
      <4>2. k \in K
        BY <1>3, <2>1, <4>1
      <4>3. QED
        BY <4>1, <4>2 DEF Swapped
    <3>2. ASSUME NEW k \in K PROVE [k EXCEPT !.rev = TRUE, !.amt = -k.amt] \in W
      <4>1. [k EXCEPT !.rev = TRUE, !.amt = -k.amt] \in N
        BY <1>4, <2>2 DEF Swapped
      <4>2. k.txn = u /\ k \in Line
        BY <2>1, <2>2 DEF LinesOf
      <4>3. [k EXCEPT !.rev = TRUE, !.amt = -k.amt].txn = u
        BY <4>2 DEF Line
      <4>4. QED
        BY <2>3, <4>1, <4>3 DEF Part
    <3>3. QED
      BY <3>1, <3>2 DEF Swapped
  <2>5. Net(W, a) = -Net(K, a) /\ IsFiniteSet(W)
    BY <2>2, <2>4, NetSwapped
  <2>6. W \subseteq Line /\ K \cap W = {}
    BY <1>4, <1>6, <2>2, <2>3 DEF Part
  <2>7. Net(K \cup W, a) = Net(K, a) + Net(W, a)
    BY <2>2, <2>5, <2>6, NetUnion
  <2>8. Net(K, a) \in Int
    BY <2>2, NetIsSum
  <2>9. QED
    BY <2>1, <2>3, <2>5, <2>7, <2>8
<1>8. \A l \in N : l.txn \in U /\ l.ver <= txn[l.txn].ver
  BY <1>3, <1>5
<1>9. QED
  BY <1>4, <1>6, <1>7, <1>8

\* A void or a delete: every row held leaves the books, the posted ones with
\* lines that take them back.
LEMMA TakeOutBooks ==
    ASSUME LedgerInv, LedgerInv', BooksInv, NEW s \in Requests, req' = [req EXCEPT ![s] = Idle],
           NEW U \in SUBSET req[s].held,
           NEW N \in SUBSET Line, IsFiniteSet(N), N \cap lines = {},
           \A l \in N : l.txn \in U /\ l.ver <= txn[l.txn].ver,
           \A u \in U : \A a \in Accounts : Net(LinesOf(u) \cup Part(N, u), a) = 0,
           \A t \in req[s].held \ U : txn[t].status = "void",
           lines' = lines \cup N, balance' = Apply(balance, N),
           \A t \in Txns \ req[s].held : txn'[t] = txn[t],
           \A t \in req[s].held : txn'[t].status \in {"void", "deleted"} /\ txn'[t].ver = txn[t].ver
    PROVE  BooksInv'
<1>1. PICK T : T = req[s].held
  OBVIOUS
<1>2. T \in SUBSET Txns /\ T \subseteq req[s].held \cup Fresh /\ U \in SUBSET Txns /\ U \subseteq T
  BY <1>1 DEF LedgerInv, LedgerTypeOK, RequestRow
<1>3. PICK D : D = {}
  OBVIOUS
<1>4. /\ N \in SUBSET Line /\ IsFiniteSet(N) /\ N \cap lines = {}
      /\ \A l \in N : l.txn \in U /\ l.ver <= txn[l.txn].ver
      /\ \A u \in U : \A a \in Accounts : Net(LinesOf(u) \cup Part(N, u), a) = 0
  OBVIOUS
<1>5. balance' \in [Accounts -> Int] /\ \A a \in Accounts : balance'[a] = balance[a] - Net(D, a) + Net(N, a)
  <2>1. \A a \in Accounts : Net(N, a) \in Int /\ Net(D, a) = 0
    BY <1>3, <1>4, NetIsSum, NetEmpty
  <2>2. \A a \in Accounts : balance[a] \in Int
    BY DEF BooksInv
  <2>3. QED
    BY <2>1, <2>2 DEF Apply
<1>6. \A t \in T : txn'[t].status # "absent" /\ txn[t].ver <= txn'[t].ver
  <2>1. \A t \in T : txn[t].ver \in Int
    BY <1>2, LedgerConstants DEF LedgerInv, LedgerTypeOK, Header
  <2>2. QED
    BY <1>1, <2>1
<1>7. Writes(s, T, D, N)
  <2>1. D \subseteq lines /\ lines' = (lines \ D) \cup N /\ N \cap (lines \ D) = {}
    BY <1>3, <1>4
  <2>2. \A l \in D \cup N : l.txn \in T
    BY <1>2, <1>3, <1>4
  <2>3. \A l \in N : l.ver <= txn'[l.txn].ver
    BY <1>1, <1>2, <1>4
  <2>4. QED
    BY <1>1, <1>2, <1>4, <1>5, <1>6, <2>1, <2>2, <2>3 DEF Writes
<1>8. \A t : LinesOf(t)' = LinesOf(t) \cup Part(N, t)
  <2>1. \A t : LinesOf(t)' = (LinesOf(t) \ D) \cup Part(N, t)
    BY <1>7, WrittenFor
  <2>2. QED
    BY <1>3, <2>1
<1>9. LeavesRight(T)
  <2>1. ASSUME NEW t \in T PROVE RightLines(txn'[t].status, LinesOf(t)')
    <3>1. txn'[t].status \in {"void", "deleted"} /\ txn'[t].status # "posted"
      BY <1>1
    <3>2. PICK K : K = LinesOf(t)'
      OBVIOUS
    <3>3. K = LinesOf(t) \cup Part(N, t)
      BY <1>8, <3>2
    <3>4. ASSUME NEW a \in Accounts PROVE Net(K, a) = 0
      <4>1. CASE t \in U
        BY <1>4, <3>3, <4>1
      <4>2. CASE t \notin U
        <5>1. Part(N, t) = {}
          BY <1>4, <4>2 DEF Part
        <5>2. K = LinesOf(t)
          BY <3>3, <5>1
        <5>3. txn[t].status = "void"
          BY <1>1, <4>2
        <5>4. QED
          BY <1>2, <5>2, <5>3 DEF BooksInv, RightLines
      <4>3. QED
        BY <4>1, <4>2
    <3>5. RightLines(txn'[t].status, K)
      BY <3>1, <3>4 DEF RightLines
    <3>6. QED
      BY <3>2, <3>5
  <2>2. QED
    BY <2>1 DEF LeavesRight
<1>10. QED
  BY <1>7, <1>9, CommitBooks

LEMMA CommitVoidBooks ==
    ASSUME LedgerInv, LedgerInv', BooksInv, NEW s \in Requests, CommitVoid(s) \/ CommitDelete(s)
    PROVE  BooksInv'
<1>1. PICK U : U = {t \in req[s].held : Live(t)}
  OBVIOUS
<1>2. PICK N : N = BackOf(U)
  OBVIOUS
<1>3. /\ HeldRowsStand(req[s]) /\ req[s].held \subseteq Txns /\ txn \in [Txns -> Header]
      /\ (\A t \in req[s].held \ U : txn[t].status = "void")
      /\ U \in SUBSET req[s].held /\ (\A u \in U : Live(u)) /\ U \in SUBSET Txns
  BY <1>1 DEF LedgerInv, LockDiscipline, LedgerTypeOK, RequestRow, HeldRowsStand
<1>7. /\ N \in SUBSET Line /\ IsFiniteSet(N) /\ N \cap lines = {}
      /\ \A l \in N : l.txn \in U /\ l.ver <= txn[l.txn].ver
      /\ \A u \in U : \A a \in Accounts : Net(LinesOf(u) \cup Part(N, u), a) = 0
  BY <1>2, <1>3, TakenBack
<1>4. CASE CommitVoid(s)
  <2>1. req[s].held = U
    BY <1>1, <1>3, <1>4 DEF HeldRowsStand, CommitVoid
  <2>2. lines' = lines \cup N /\ balance' = Apply(balance, N)
    BY <1>2, <1>4, <2>1 DEF CommitVoid, BackOf
  <2>3. /\ \A t \in Txns \ req[s].held : txn'[t] = txn[t]
        /\ \A t \in req[s].held : txn'[t].status \in {"void", "deleted"} /\ txn'[t].ver = txn[t].ver
    BY <1>3, <1>4 DEF CommitVoid, Header
  <2>4. req' = [req EXCEPT ![s] = Idle]
    BY <1>4 DEF CommitVoid
  <2>5. QED
    BY <1>3, <1>7, <2>2, <2>3, <2>4, TakeOutBooks
<1>5. CASE CommitDelete(s)
  <2>1. DeleteBack(req[s].held) = N
    BY <1>1, <1>2 DEF DeleteBack, BackOf
  <2>2. lines' = lines \cup N /\ balance' = Apply(balance, N)
    BY <1>5, <2>1 DEF CommitDelete
  <2>3. /\ \A t \in Txns \ req[s].held : txn'[t] = txn[t]
        /\ \A t \in req[s].held : txn'[t].status \in {"void", "deleted"} /\ txn'[t].ver = txn[t].ver
    BY <1>3, <1>5 DEF CommitDelete, DeleteRow, Header
  <2>4. req' = [req EXCEPT ![s] = Idle]
    BY <1>5 DEF CommitDelete
  <2>5. QED
    BY <1>3, <1>7, <2>2, <2>3, <2>4, TakeOutBooks
<1>6. QED
  BY <1>4, <1>5

\* The part of a posting an edit of a reconciled row replaces, joined to the
\* balance-sheet part it keeps, is the whole posting.
LEMMA EditedLines ==
    ASSUME LedgerInv, BooksInv, NEW s \in Requests, NEW q, q = req[s], q.op = "edit", NEW p, p = q.posting
    PROVE  /\ p \in Sent /\ q.t \in Txns /\ Live(q.t) /\ Replaced(q) \subseteq LinesOf(q.t)
           /\ Replacing(q) \subseteq Line /\ IsFiniteSet(Replacing(q))
           /\ \A l \in Replacing(q) : l.txn = q.t /\ l.ver = txn[q.t].ver + 1 /\ l.rev = FALSE
           /\ Carries((LinesOf(q.t) \ Replaced(q)) \cup Replacing(q), p)
<1>1. /\ q \in RequestRow /\ EditReady(q) /\ HeldRowsStand(q) /\ q.t \in Txns
      /\ Live(q.t) /\ txn[q.t].ver < MaxEdits /\ txn[q.t].ver \in 0..MaxEdits
  BY LedgerConstants DEF LedgerInv, LockDiscipline, LedgerTypeOK, RequestRow, HeldRowsStand, BooksInv, Header
<1>2. p \in Sent /\ p \in Written
  BY <1>1, SentBothWays DEF EditReady
<1>3. PICK v : v = txn[q.t].ver + 1
  OBVIOUS
<1>4. v \in 0..MaxEdits
  BY <1>1, <1>3, LedgerConstants
<1>5. PICK W : W = NewLines(q.t, v, p)
  OBVIOUS
<1>6. /\ W \subseteq Line /\ IsFiniteSet(W) /\ Carries(W, p)
      /\ \A l \in W : l.txn = q.t /\ l.ver = v /\ l.rev = FALSE
  <2>1. PICK t \in Txns : t = q.t
    BY <1>1
  <2>2. PICK w \in Written : w = p
    BY <1>2
  <2>3. PICK e \in 0..MaxEdits : e = v
    BY <1>4
  <2>4. /\ NewLines(t, e, w) \subseteq Line /\ IsFiniteSet(NewLines(t, e, w))
        /\ \A l \in NewLines(t, e, w) : l.txn = t /\ l.ver = e /\ l.rev = FALSE
        /\ Carries(NewLines(t, e, w), w)
    BY NewLinesCarry
  <2>5. W = NewLines(t, e, w)
    BY <1>5, <2>1, <2>2, <2>3
  <2>6. QED
    BY <2>1, <2>2, <2>3, <2>4, <2>5
<1>7. PICK R : R = Replacing(q)
  OBVIOUS
<1>8. PICK D : D = Replaced(q)
  OBVIOUS
<1>9. PICK K : K = LinesOf(q.t)
  OBVIOUS
<1>10. R = {l \in W : q.partial => l.acct \notin BalanceSheet}
  BY <1>3, <1>5, <1>7 DEF Replacing
<1>11. R \subseteq Line /\ IsFiniteSet(R) /\ \A l \in R : l.txn = q.t /\ l.ver = v /\ l.rev = FALSE
  <2>1. R \subseteq W
    BY <1>10
  <2>2. QED
    BY <1>6, <2>1, FS_Subset
<1>12. D \subseteq K
  BY <1>8, <1>9 DEF Replaced, OwnLines
<1>13. \A l \in K : l \in Line /\ l.rev = FALSE
  BY <1>1, <1>9, KnownLines
<1>14. Carries((K \ D) \cup R, p)
  <2>1. CASE ~q.partial
    <3>1. D = K /\ R = W
      BY <1>8, <1>9, <1>10, <2>1 DEF Replaced
    <3>2. (K \ D) \cup R = W
      BY <3>1
    <3>3. QED
      BY <1>6, <3>2
  <2>2. CASE q.partial
    <3>1. PICK E : E = {l \in OwnLines(q.t) : l.acct \in BalanceSheet}
      OBVIOUS
    <3>2. E = K \ D /\ E \subseteq K
      BY <1>8, <1>9, <1>13, <2>2, <3>1 DEF Replaced, OwnLines
    <3>3. Pairs(E) = {<<a, p[a]>> : a \in DOMAIN p \cap BalanceSheet}
      BY <1>1, <2>2, <3>1 DEF EditReady
    <3>4. PICK M : M = E \cup R
      OBVIOUS
    <3>5. R = {l \in W : l.acct \notin BalanceSheet}
      BY <1>10, <2>2
    <3>6. \A l \in E : l.acct \in BalanceSheet
      BY <3>1
    <3>7. OneLinePerAccount(K) /\ OneLinePerAccount(W)
      BY <1>1, <1>6, <1>9 DEF BooksInv, RightLines, Carries, Live
    <3>8. OneLinePerAccount(M)
      BY <3>2, <3>4, <3>5, <3>6, <3>7 DEF OneLinePerAccount
    <3>9. ASSUME NEW l \in M PROVE <<l.acct, l.amt>> \in Graph(p)
      <4>1. CASE l \in E
        <5>1. <<l.acct, l.amt>> \in Pairs(E)
          BY <4>1 DEF Pairs
        <5>2. QED
          BY <3>3, <5>1 DEF Graph
      <4>2. CASE l \in W
        BY <1>6, <4>2 DEF Carries, Pairs
      <4>3. QED
        BY <3>4, <3>5, <4>1, <4>2
    <3>10. ASSUME NEW a \in DOMAIN p PROVE \E l \in M : l.acct = a /\ l.amt = p[a]
      <4>1. CASE a \in BalanceSheet
        <5>1. <<a, p[a]>> \in Pairs(E)
          BY <3>3, <4>1
        <5>2. QED
          BY <3>4, <5>1 DEF Pairs
      <4>2. CASE a \notin BalanceSheet
        <5>1. <<a, p[a]>> \in Pairs(W)
          BY <1>6 DEF Carries, Graph
        <5>2. QED
          BY <3>4, <3>5, <4>2, <5>1 DEF Pairs
      <4>3. QED
        BY <4>1, <4>2
    <3>11. Pairs(M) = Graph(p)
      <4>1. Pairs(M) \subseteq Graph(p)
        BY <3>9 DEF Pairs
      <4>2. ASSUME NEW a \in DOMAIN p PROVE <<a, p[a]>> \in Pairs(M)
        BY <3>10 DEF Pairs
      <4>3. QED
        BY <4>1, <4>2 DEF Graph
    <3>12. Carries(M, p)
      BY <3>8, <3>11 DEF Carries
    <3>13. QED
      BY <3>2, <3>4, <3>12
  <2>3. QED
    BY <1>1, <2>1, <2>2 DEF RequestRow
<1>15. QED
  BY <1>1, <1>2, <1>3, <1>7, <1>8, <1>9, <1>11, <1>12, <1>14

\* An edit: what it held of the old entry is replaced, the reversals it holds
\* and does not keep go, and a new one may come.
LEMMA CommitEditBooks ==
    ASSUME LedgerInv, LedgerInv', BooksInv, NEW s \in Requests, CommitEdit(s)
    PROVE  BooksInv'
<1>1. PICK q : q = req[s]
  OBVIOUS
<1>2. PICK p : p = q.posting
  OBVIOUS
<1>3. PICK t : t = q.t
  OBVIOUS
<1>4. PICK gone : gone = Superseded(q)
  OBVIOUS
<1>5. PICK R : R = Replacing(q)
  OBVIOUS
<1>6. PICK D : D = Replaced(q)
  OBVIOUS
<1>7. /\ q \in RequestRow /\ q.op = "edit" /\ q.stage = "commit" /\ EditReady(q) /\ HeldRowsStand(q)
      /\ ChainHeld(q) /\ q.held \subseteq Txns /\ t \in q.held /\ t \in Txns /\ Live(t)
      /\ \A h \in q.held : Live(h)
  BY <1>1, <1>3
     DEF CommitEdit, LedgerInv, LockDiscipline, LedgerTypeOK, RequestRow, HeldRowsStand, BooksInv
<1>8. /\ p \in Sent /\ D \subseteq LinesOf(t) /\ R \subseteq Line /\ IsFiniteSet(R)
      /\ \A l \in R : l.txn = t /\ l.ver = txn[t].ver + 1 /\ l.rev = FALSE
      /\ Carries((LinesOf(t) \ D) \cup R, p)
  BY <1>1, <1>2, <1>3, <1>5, <1>6, <1>7, EditedLines
<1>9. p \in Written /\ Negated(p) \in Written
  BY <1>8, SentBothWays
<1>10. gone \subseteq q.held \ {t} /\ gone \in SUBSET Txns /\ (\A u \in gone : Live(u))
       /\ (~q.kept => gone = q.held \ {t}) /\ (q.kept => gone = {})
  BY <1>3, <1>4, <1>7 DEF Superseded
<1>11. PICK B : B = BackOf(gone)
  OBVIOUS
<1>12. /\ B \in SUBSET Line /\ IsFiniteSet(B) /\ B \cap lines = {}
       /\ \A l \in B : l.txn \in gone /\ l.ver <= txn[l.txn].ver
       /\ \A u \in gone : \A a \in Accounts : Net(LinesOf(u) \cup Part(B, u), a) = 0
  BY <1>10, <1>11, TakenBack
<1>13. DeleteBack(gone) = B
  <2>1. {u \in gone : Live(u)} = gone
    BY <1>10
  <2>2. QED
    BY <1>11, <2>1 DEF DeleteBack, BackOf
<1>14. PICK r \in Fresh \cup {None} :
         /\ q.kept \/ q.reverseOn = None => r = None
         /\ txn' = [u \in Txns |->
                      IF u = t THEN [txn[u] EXCEPT !.date = q.date, !.ver = @ + 1, !.touched = TRUE]
                      ELSE IF u \in gone THEN DeleteRow(u)
                      ELSE IF u = r THEN PostedRow("journal_entry", q.reverseOn, t)
                      ELSE txn[u]]
         /\ lines' = (lines \ D) \cup
              (R \cup B \cup (IF r = None THEN {} ELSE NewLines(r, 0, Negated(p))))
         /\ balance' = Apply(Apply(balance, OldEffect(q)),
              R \cup B \cup (IF r = None THEN {} ELSE NewLines(r, 0, Negated(p))))
  BY <1>1, <1>2, <1>3, <1>4, <1>5, <1>6, <1>13 DEF CommitEdit
<1>15. /\ None \notin Txns /\ (r # None => r \in Txns /\ r \in Fresh) /\ r # t /\ r \notin gone /\ t \notin gone
       /\ 0 \in 0..MaxEdits
  <2>1. \A u \in Fresh : u \in Txns /\ ~Live(u)
    BY DEF Fresh, Live
  <2>2. None \notin Txns /\ MaxEdits \in Nat
    BY LedgerConstants
  <2>3. 0 \in 0..MaxEdits
    BY <2>2
  <2>4. r # None => r \in Fresh
    BY <1>14
  <2>5. QED
    BY <1>7, <1>10, <2>1, <2>2, <2>3, <2>4
<1>16. PICK A : A = IF r = None THEN {} ELSE NewLines(r, 0, Negated(p))
  OBVIOUS
<1>17. /\ A \subseteq Line /\ IsFiniteSet(A) /\ \A l \in A : l.txn = r /\ l.ver = 0 /\ l.rev = FALSE
       /\ r # None => Carries(A, Negated(p))
       /\ r = None => A = {}
  <2>1. CASE r = None
    BY <1>16, <2>1, FS_EmptySet
  <2>2. CASE r # None
    BY <1>9, <1>15, <1>16, <2>2, NewLinesCarry
  <2>3. QED
    BY <2>1, <2>2
<1>18. PICK N : N = R \cup B \cup A
  OBVIOUS
<1>19. PICK T : T = {u \in Txns : u = t \/ u \in gone \/ u = r}
  OBVIOUS
<1>20. lines' = (lines \ D) \cup N /\ balance' = Apply(Apply(balance, OldEffect(q)), N)
  BY <1>14, <1>16, <1>18
<1>21. /\ txn'[t].ver = txn[t].ver + 1 /\ txn'[t].touched /\ txn'[t].status = "posted"
       /\ \A u \in gone : txn'[u].status = "deleted" /\ txn'[u].ver = txn[u].ver
       /\ r # None => txn'[r] = PostedRow("journal_entry", q.reverseOn, t)
       /\ \A u \in Txns \ T : txn'[u] = txn[u]
  <2>1. \A u \in Txns : txn[u] \in Header
    BY DEF LedgerInv, LedgerTypeOK
  <2>2. txn'[t] = [txn[t] EXCEPT !.date = q.date, !.ver = @ + 1, !.touched = TRUE]
    BY <1>7, <1>14
  <2>3. \A u \in gone : txn'[u] = DeleteRow(u)
    BY <1>10, <1>14, <1>15
  <2>4. \A u \in gone : txn'[u].status = "deleted" /\ txn'[u].ver = txn[u].ver
    BY <1>10, <2>1, <2>3 DEF DeleteRow, Header
  <2>5. txn'[t].ver = txn[t].ver + 1 /\ txn'[t].touched /\ txn'[t].status = "posted"
    BY <1>7, <2>1, <2>2 DEF Header, Live
  <2>6. r # None => txn'[r] = PostedRow("journal_entry", q.reverseOn, t)
    BY <1>14, <1>15
  <2>7. \A u \in Txns \ T : txn'[u] = txn[u]
    BY <1>14, <1>19
  <2>8. QED
    BY <2>4, <2>5, <2>6, <2>7
<1>22. /\ D \subseteq lines /\ N \subseteq Line /\ IsFiniteSet(N)
       /\ T \subseteq Txns /\ T \subseteq q.held \cup Fresh
  <2>1. D \subseteq lines
    BY <1>7, <1>8, KnownLines
  <2>2. N \subseteq Line /\ IsFiniteSet(R \cup B)
    BY <1>8, <1>12, <1>17, <1>18, FS_Union
  <2>3. IsFiniteSet(N)
    BY <1>17, <1>18, <2>2, FS_Union
  <2>4. QED
    BY <1>7, <1>10, <1>15, <1>19, <2>1, <2>2, <2>3
<1>23. \A l \in D \cup N : l.txn \in T
  <2>1. \A l \in D : l.txn = t
    BY <1>8 DEF LinesOf
  <2>2. QED
    BY <1>7, <1>8, <1>10, <1>12, <1>15, <1>17, <1>18, <1>19, <2>1
<1>24. N \cap (lines \ D) = {}
  <2>1. ASSUME NEW l \in N, l \in lines PROVE FALSE
    <3>1. CASE l \in R
      <4>1. l \in LinesOf(t) /\ l.ver = txn[t].ver + 1
        BY <1>8, <2>1, <3>1 DEF LinesOf
      <4>2. l.ver <= txn[t].ver
        BY <1>7, <4>1, KnownLines
      <4>3. txn[t].ver \in Int
        BY <1>7, LedgerConstants DEF LedgerInv, LedgerTypeOK, Header
      <4>4. QED
        BY <4>1, <4>2, <4>3
    <3>2. CASE l \in B
      BY <1>12, <2>1, <3>2
    <3>3. CASE l \in A
      <4>1. r # None /\ l \in LinesOf(r)
        BY <1>17, <2>1, <3>3 DEF LinesOf
      <4>2. QED
        BY <1>15, <4>1, KnownLines
    <3>4. QED
      BY <1>18, <2>1, <3>1, <3>2, <3>3
  <2>2. QED
    BY <2>1
<1>25. \A l \in N : l.ver <= txn'[l.txn].ver
  <2>1. \A l \in R : l.ver <= txn'[l.txn].ver
    <3>1. txn[t].ver + 1 \in Int
      BY <1>7, LedgerConstants DEF LedgerInv, LedgerTypeOK, Header
    <3>2. QED
      BY <1>8, <1>21, <3>1
  <2>2. \A l \in B : l.ver <= txn'[l.txn].ver
    BY <1>12, <1>21
  <2>3. \A l \in A : l.ver <= txn'[l.txn].ver
    BY <1>17, <1>21 DEF PostedRow
  <2>4. QED
    BY <1>18, <2>1, <2>2, <2>3
<1>26. balance' \in [Accounts -> Int] /\ \A a \in Accounts : balance'[a] = balance[a] - Net(D, a) + Net(N, a)
  <2>1. D \subseteq Line /\ IsFiniteSet(D) /\ \A l \in D : ~l.rev
    BY <1>7, <1>8, KnownLines, FS_Subset
  <2>2. OldEffect(q) = Swapped(D)
    BY <1>6 DEF OldEffect
  <2>3. \A a \in Accounts : Net(N, a) \in Int /\ Net(D, a) \in Int /\ Net(Swapped(D), a) = -Net(D, a)
    BY <1>22, <2>1, NetIsSum, NetSwapped
  <2>4. \A a \in Accounts : balance[a] \in Int
    BY DEF BooksInv
  <2>5. balance' = Apply(Apply(balance, Swapped(D)), N)
    BY <1>20, <2>2
  <2>6. \A a \in Accounts : balance'[a] = (balance[a] + Net(Swapped(D), a)) + Net(N, a)
    BY <2>5 DEF Apply
  <2>7. DOMAIN balance' = Accounts /\ balance' = [a \in Accounts |-> balance'[a]]
    BY <2>5 DEF Apply
  <2>8. \A a \in Accounts : balance'[a] \in Int /\ balance'[a] = balance[a] - Net(D, a) + Net(N, a)
    BY <2>3, <2>4, <2>6
  <2>9. QED
    BY <2>7, <2>8
<1>27. Writes(s, T, D, N)
  <2>1. \A u \in T : /\ txn'[u].status # "absent"
                     /\ txn[u].status # "absent" => txn[u].ver <= txn'[u].ver
    <3>1. \A u \in Txns : txn[u].ver \in Int
      BY LedgerConstants DEF LedgerInv, LedgerTypeOK, Header
    <3>2. QED
      BY <1>7, <1>10, <1>15, <1>19, <1>21, <3>1 DEF Fresh, PostedRow
  <2>2. req' = [req EXCEPT ![s] = Idle]
    BY DEF CommitEdit
  <2>3. T \subseteq req[s].held \cup Fresh
    BY <1>1, <1>22
  <2>4. QED
    BY <1>20, <1>21, <1>22, <1>23, <1>24, <1>25, <1>26, <2>1, <2>2, <2>3 DEF Writes
<1>28. \A u : LinesOf(u)' = (LinesOf(u) \ D) \cup Part(N, u)
  BY <1>27, WrittenFor
<1>29. LinesOf(t)' = (LinesOf(t) \ D) \cup R
  <2>1. Part(N, t) = R
    BY <1>8, <1>12, <1>15, <1>17, <1>18 DEF Part
  <2>2. QED
    BY <1>28, <2>1
<1>30. r # None => LinesOf(r)' = A
  <2>1. SUFFICES ASSUME r # None PROVE LinesOf(r)' = A
    OBVIOUS
  <2>2. Part(N, r) = A
    BY <1>8, <1>12, <1>15, <1>17, <1>18 DEF Part
  <2>3. LinesOf(r) = {}
    BY <1>15, <2>1, KnownLines
  <2>4. QED
    BY <1>28, <2>2, <2>3
<1>31. \A u \in gone : LinesOf(u)' = LinesOf(u) \cup Part(B, u)
  <2>1. SUFFICES ASSUME NEW u \in gone PROVE LinesOf(u)' = LinesOf(u) \cup Part(B, u)
    OBVIOUS
  <2>2. Part(N, u) = Part(B, u)
    BY <1>8, <1>15, <1>17, <1>18 DEF Part
  <2>3. LinesOf(u) \ D = LinesOf(u)
    BY <1>8, <1>15 DEF LinesOf
  <2>4. QED
    BY <1>28, <2>2, <2>3
<1>32. LeavesRight(T)
  <2>1. RightLines(txn'[t].status, LinesOf(t)')
    <3>1. PICK K : K = LinesOf(t)'
      OBVIOUS
    <3>2. Carries(K, p) /\ K \subseteq Line /\ IsFiniteSet(K)
      <4>1. LinesOf(t) \subseteq Line /\ IsFiniteSet(LinesOf(t) \ D)
        BY <1>7, KnownLines, FS_Subset
      <4>2. QED
        BY <1>8, <1>29, <3>1, <4>1, FS_Union
    <3>3. QED
      BY <1>9, <1>21, <3>1, <3>2, CarriesRight
  <2>2. r # None => RightLines(txn'[r].status, LinesOf(r)')
    <3>1. SUFFICES ASSUME r # None PROVE RightLines(txn'[r].status, LinesOf(r)')
      OBVIOUS
    <3>2. RightLines("posted", A) /\ txn'[r].status = "posted"
      BY <1>9, <1>17, <1>21, <3>1, CarriesRight DEF PostedRow
    <3>3. QED
      BY <1>30, <3>1, <3>2
  <2>3. ASSUME NEW u \in gone PROVE RightLines(txn'[u].status, LinesOf(u)')
    <3>1. PICK K : K = LinesOf(u)'
      OBVIOUS
    <3>2. K = LinesOf(u) \cup Part(B, u)
      BY <1>31, <3>1
    <3>3. \A a \in Accounts : Net(K, a) = 0
      BY <1>12, <3>2
    <3>4. RightLines(txn'[u].status, K)
      BY <1>21, <3>3 DEF RightLines
    <3>5. QED
      BY <3>1, <3>4
  <2>4. QED
    BY <1>19, <2>1, <2>2, <2>3, <1>15 DEF LeavesRight
<1>33. QED
  BY <1>27, <1>32, CommitBooks

\* A line moved to another category is the only one of its row on any.
LEMMA MovedRow ==
    ASSUME LedgerInv, BooksInv, NEW t \in Txns, Live(t), NEW a \in Categories,
           Cardinality(CategoryLines(t)) = 1,
           NEW C, C = CategoryLines(t), NEW M, M = MovedTo(C, a)
    PROVE  /\ M \in SUBSET Line /\ IsFiniteSet(M) /\ M \cap (LinesOf(t) \ C) = {}
           /\ \A l \in M : l.txn = t /\ l.ver <= txn[t].ver
           /\ RightLines("posted", (LinesOf(t) \ C) \cup M)
<1>1. PICK K : K = LinesOf(t)
  OBVIOUS
<1>2. K \subseteq Line /\ IsFiniteSet(K) /\ C \subseteq K /\ IsFiniteSet(C)
      /\ OneLinePerAccount(K) /\ AllNet(K) = 0
      /\ \A l \in K : l.rev = FALSE /\ l.txn = t /\ l.ver <= txn[t].ver
  <2>1. K \subseteq Line /\ IsFiniteSet(K) /\ \A l \in K : l.rev = FALSE /\ l.ver <= txn[t].ver
    BY <1>1, KnownLines
  <2>2. C \subseteq K /\ \A l \in K : l.txn = t
    BY <1>1 DEF CategoryLines, LinesOf
  <2>3. OneLinePerAccount(K) /\ AllNet(K) = 0
    BY <1>1 DEF BooksInv, RightLines, Live
  <2>4. QED
    BY <2>1, <2>2, <2>3, FS_Subset
<1>3. PICK c : C = {c}
  BY <1>2, FS_Singleton
<1>4. PICK m : m = [c EXCEPT !.acct = a]
  OBVIOUS
<1>5. a \in Accounts /\ c \in K /\ c \in Line
  BY <1>2, <1>3, LedgerConstants
<1>6. /\ m \in Line /\ m.acct = a /\ m.amt = c.amt /\ m.txn = t /\ m.ver = c.ver /\ m.rev = FALSE
      /\ m.ver <= txn[t].ver
  BY <1>2, <1>4, <1>5 DEF Line
<1>7. M = {m}
  <2>1. M = {[l EXCEPT !.acct = a] : l \in C}
    BY DEF MovedTo
  <2>2. \A l \in C : l = c
    BY <1>3
  <2>3. c \in C
    BY <1>3
  <2>4. M \subseteq {m}
    BY <1>4, <2>1, <2>2
  <2>5. m \in M
    BY <1>4, <2>1, <2>3
  <2>6. QED
    BY <2>4, <2>5
<1>8. \A k \in K \ C : k.acct \notin Categories
  BY <1>1 DEF CategoryLines
<1>9. M \in SUBSET Line /\ IsFiniteSet(M) /\ M \cap (K \ C) = {}
  <2>1. IsFiniteSet({m})
    BY FS_Singleton
  <2>2. m \notin K \ C
    BY <1>6, <1>8
  <2>3. QED
    BY <1>6, <1>7, <2>1, <2>2
<1>10. PICK R : R = K \ C
  OBVIOUS
<1>11. R \subseteq Line /\ IsFiniteSet(R) /\ R \cup C = K /\ R \cap C = {} /\ R \cap M = {}
  BY <1>2, <1>9, <1>10, FS_Subset
<1>12. OneLinePerAccount(R \cup M)
  <2>1. ASSUME NEW l \in R \cup M, NEW k \in R \cup M
        PROVE  ~l.rev /\ (l.acct = k.acct => l = k)
    <3>1. CASE l \in R /\ k \in R
      BY <1>2, <1>10, <3>1 DEF OneLinePerAccount
    <3>2. CASE l \in R /\ k = m
      BY <1>2, <1>6, <1>8, <1>10, <3>2
    <3>3. CASE l = m /\ k \in R
      BY <1>6, <1>8, <1>10, <3>3
    <3>4. CASE l = m /\ k = m
      BY <1>6, <3>4
    <3>5. QED
      BY <1>7, <3>1, <3>2, <3>3, <3>4
  <2>2. QED
    BY <2>1 DEF OneLinePerAccount
<1>13. ASSUME NEW l \in Line, l.rev = FALSE
       PROVE  AllNet({l}) = l.amt
  <2>1. PICK p : p = [b \in {l.acct} |-> l.amt]
    OBVIOUS
  <2>2. PICK P : P = {l.acct}
    OBVIOUS
  <2>3. DOMAIN p = P /\ P \subseteq Accounts /\ (\A b \in P : p[b] = l.amt) /\ l.amt \in Int /\ p[l.acct] = l.amt
    BY <2>1, <2>2 DEF Line
  <2>4. {l} \subseteq Line /\ IsFiniteSet({l}) /\ OneLinePerAccount({l})
    BY <1>13, FS_Singleton DEF OneLinePerAccount
  <2>5. Pairs({l}) = Graph(p)
    BY <2>2, <2>3 DEF Pairs, Graph
  <2>6. AllNet({l}) = SumOn(p, DOMAIN p)
    BY <2>3, <2>4, <2>5, CarriesTotal DEF Carries
  <2>7. {} \cup {l.acct} = P
    BY <2>2
  <2>8. SumOn(p, {} \cup {l.acct}) = SumOn(p, {}) + p[l.acct]
    BY <2>3, SumOnAdd, FS_EmptySet
  <2>9. SumOn(p, P) = 0 + l.amt
    BY <2>3, <2>7, <2>8, SumOnEmpty
  <2>10. QED
    BY <2>3, <2>6, <2>9
<1>14. AllNet(C) = c.amt /\ AllNet(M) = c.amt /\ c.amt \in Int
  BY <1>2, <1>3, <1>5, <1>6, <1>7, <1>13 DEF Line
<1>15. AllNet(R \cup C) = AllNet(R) + AllNet(C) /\ AllNet(R \cup M) = AllNet(R) + AllNet(M)
  BY <1>2, <1>9, <1>11, AllNetUnion
<1>16. AllNet(R \cup M) = AllNet(K)
  BY <1>11, <1>14, <1>15
<1>17. RightLines("posted", R \cup M)
  BY <1>2, <1>12, <1>16 DEF RightLines
<1>18. QED
  BY <1>1, <1>6, <1>7, <1>9, <1>10, <1>17

\* A bulk edit: one line of each row it holds moves, or none does.
LEMMA CommitBulkBooks ==
    ASSUME LedgerInv, LedgerInv', BooksInv, NEW s \in Requests, CommitBulk(s)
    PROVE  BooksInv'
<1>1. PICK q : q = req[s]
  OBVIOUS
<1>2. PICK T : T = q.held
  OBVIOUS
<1>3. PICK D : D = Recategorized(q)
  OBVIOUS
<1>4. PICK N : N = MovedTo(D, q.to)
  OBVIOUS
<1>5. /\ q \in RequestRow /\ q.op = "bulk" /\ EditReady(q) /\ T \in SUBSET Txns
      /\ \A t \in T : Live(t)
  BY <1>1, <1>2 DEF CommitBulk, LedgerInv, LockDiscipline, LedgerTypeOK, RequestRow, HeldRowsStand, BooksInv
<1>6. /\ txn' = [t \in Txns |-> IF t \in T /\ q.to = None THEN [txn[t] EXCEPT !.touched = TRUE] ELSE txn[t]]
      /\ lines' = (lines \ D) \cup N
      /\ balance' = Apply(Apply(balance, Swapped(D)), N)
      /\ req' = [req EXCEPT ![s] = Idle]
  BY <1>1, <1>2, <1>3, <1>4 DEF CommitBulk
<1>7. /\ \A t \in Txns \ T : txn'[t] = txn[t]
      /\ \A t \in Txns : txn'[t].status = txn[t].status /\ txn'[t].ver = txn[t].ver /\ txn[t].ver \in Int
  <2>1. \A t \in Txns : txn[t] \in Header
    BY DEF LedgerInv, LedgerTypeOK
  <2>2. ASSUME NEW t \in Txns
        PROVE  txn'[t].status = txn[t].status /\ txn'[t].ver = txn[t].ver /\ txn[t].ver \in Int
    BY <1>6, <2>1, LedgerConstants DEF Header
  <2>3. QED
    BY <1>6, <2>2
<1>8. D \subseteq lines /\ D \in SUBSET Line /\ \A l \in D : l.txn \in T
  BY <1>1, <1>2, <1>3, RecategorizedLines
<1>9. IsFiniteSet(lines) /\ IsFiniteSet(D) /\ \A l \in D : l.rev = FALSE
  <2>1. IsFiniteSet(lines) /\ IsFiniteSet(D)
    BY <1>8, FS_Subset DEF BooksInv
  <2>2. ASSUME NEW l \in D PROVE l.rev = FALSE
    <3>1. l \in LinesOf(l.txn) /\ l.txn \in Txns /\ Live(l.txn)
      BY <1>5, <1>8 DEF LinesOf
    <3>2. QED
      BY <3>1, KnownLines
  <2>3. QED
    BY <2>1, <2>2
<1>10. /\ N \subseteq Line /\ IsFiniteSet(N) /\ (\A l \in N : l.txn \in T)
       /\ N = {[l EXCEPT !.acct = q.to] : l \in D}
  <2>1. PICK m : m = [l \in D |-> [l EXCEPT !.acct = q.to]]
    OBVIOUS
  <2>2. N = {[l EXCEPT !.acct = q.to] : l \in D}
    BY <1>4 DEF MovedTo
  <2>3. \A l \in D : m[l] = [l EXCEPT !.acct = q.to]
    BY <2>1
  <2>4. N = {m[l] : l \in D}
    <3>1. ASSUME NEW l \in N PROVE l \in {m[k] : k \in D}
      BY <2>2, <2>3
    <3>2. ASSUME NEW k \in D PROVE m[k] \in N
      BY <2>2, <2>3
    <3>3. QED
      BY <3>1, <3>2
  <2>5. IsFiniteSet(N)
    BY <1>9, <2>4, FiniteImage
  <2>6. QED
    BY <1>1, <1>2, <1>3, <1>4, <2>2, <2>5, MovedLines
<1>11. q.to # None =>
         /\ q.to \in Categories
         /\ \A t \in T : /\ Cardinality(CategoryLines(t)) = 1
                         /\ LinesOf(t) \cap D = CategoryLines(t)
                         /\ Part(N, t) = MovedTo(CategoryLines(t), q.to)
  <2>1. SUFFICES ASSUME q.to # None, NEW t \in T
                 PROVE  /\ q.to \in Categories /\ Cardinality(CategoryLines(t)) = 1
                        /\ LinesOf(t) \cap D = CategoryLines(t)
                        /\ Part(N, t) = MovedTo(CategoryLines(t), q.to)
    BY <1>5 DEF RequestRow
  <2>2. q.to \in Categories /\ Cardinality(CategoryLines(t)) = 1
    BY <1>2, <1>5, <2>1 DEF RequestRow, EditReady
  <2>3. D = UNION {CategoryLines(u) : u \in T}
    BY <1>2, <1>3, <2>1 DEF Recategorized
  <2>4. LinesOf(t) \cap D = CategoryLines(t)
    BY <2>3 DEF CategoryLines, LinesOf
  <2>5. \A l \in D : [l EXCEPT !.acct = q.to].txn = l.txn
    BY <1>8 DEF Line
  <2>6. \A l \in D : l.txn = t <=> l \in CategoryLines(t)
    BY <1>8, <2>4 DEF LinesOf
  <2>7. CategoryLines(t) \subseteq D
    BY <2>4
  <2>8. Part(N, t) \subseteq MovedTo(CategoryLines(t), q.to)
    BY <1>10, <2>5, <2>6 DEF Part, MovedTo
  <2>9. MovedTo(CategoryLines(t), q.to) \subseteq Part(N, t)
    BY <1>10, <2>5, <2>6, <2>7 DEF Part, MovedTo
  <2>10. QED
    BY <2>2, <2>4, <2>8, <2>9
<1>12. q.to = None => D = {} /\ N = {}
  BY <1>1, <1>3, <1>10, RecategorizedLines
<1>13. ASSUME q.to # None, NEW t \in T
       PROVE  /\ Part(N, t) \cap (LinesOf(t) \ D) = {}
              /\ \A l \in Part(N, t) : l.ver <= txn[t].ver
              /\ RightLines("posted", (LinesOf(t) \ D) \cup Part(N, t))
  <2>1. PICK C : C = CategoryLines(t)
    OBVIOUS
  <2>2. PICK M : M = MovedTo(C, q.to)
    OBVIOUS
  <2>3. /\ M \cap (LinesOf(t) \ C) = {}
        /\ \A l \in M : l.txn = t /\ l.ver <= txn[t].ver
        /\ RightLines("posted", (LinesOf(t) \ C) \cup M)
    BY <1>5, <1>11, <1>13, <2>1, <2>2, MovedRow
  <2>4. LinesOf(t) \ D = LinesOf(t) \ C /\ Part(N, t) = M
    BY <1>11, <1>13, <2>1, <2>2
  <2>5. QED
    BY <2>3, <2>4
<1>14. N \cap (lines \ D) = {} /\ \A l \in N : l.ver <= txn'[l.txn].ver
  <2>1. ASSUME NEW l \in N
        PROVE  l \notin lines \ D /\ l.ver <= txn'[l.txn].ver
    <3>1. q.to # None /\ l.txn \in T /\ l \in Part(N, l.txn) /\ l.txn \in Txns
      BY <1>5, <1>10, <1>12 DEF Part
    <3>2. /\ Part(N, l.txn) \cap (LinesOf(l.txn) \ D) = {}
          /\ \A k \in Part(N, l.txn) : k.ver <= txn[l.txn].ver
      BY <1>13, <3>1
    <3>3. QED
      BY <1>7, <3>1, <3>2 DEF LinesOf
  <2>2. QED
    BY <2>1
<1>15. balance' \in [Accounts -> Int] /\ \A a \in Accounts : balance'[a] = balance[a] - Net(D, a) + Net(N, a)
  <2>1. \A a \in Accounts : Net(N, a) \in Int /\ Net(D, a) \in Int /\ Net(Swapped(D), a) = -Net(D, a)
    BY <1>8, <1>9, <1>10, NetIsSum, NetSwapped
  <2>2. \A a \in Accounts : balance[a] \in Int
    BY DEF BooksInv
  <2>3. \A a \in Accounts : balance'[a] = (balance[a] + Net(Swapped(D), a)) + Net(N, a)
    BY <1>6 DEF Apply
  <2>4. DOMAIN balance' = Accounts /\ balance' = [a \in Accounts |-> balance'[a]]
    BY <1>6 DEF Apply
  <2>5. \A a \in Accounts : balance'[a] \in Int /\ balance'[a] = balance[a] - Net(D, a) + Net(N, a)
    BY <2>1, <2>2, <2>3
  <2>6. QED
    BY <2>4, <2>5
<1>16. Writes(s, T, D, N)
  <2>1. T \subseteq req[s].held \cup Fresh
    BY <1>1, <1>2
  <2>2. \A t \in T : /\ txn'[t].status # "absent"
                     /\ txn[t].status # "absent" => txn[t].ver <= txn'[t].ver
    BY <1>5, <1>7 DEF Live
  <2>3. \A l \in D \cup N : l.txn \in T
    BY <1>8, <1>10
  <2>4. QED
    BY <1>5, <1>6, <1>7, <1>8, <1>10, <1>14, <1>15, <2>1, <2>2, <2>3 DEF Writes
<1>17. LeavesRight(T)
  <2>1. ASSUME NEW t \in T PROVE RightLines(txn'[t].status, LinesOf(t)')
    <3>1. PICK K : K = LinesOf(t)'
      OBVIOUS
    <3>2. K = (LinesOf(t) \ D) \cup Part(N, t) /\ txn'[t].status = "posted"
      BY <1>5, <1>7, <1>16, <3>1, WrittenFor DEF Live
    <3>3. CASE q.to = None
      <4>1. K = LinesOf(t)
        BY <1>12, <3>2, <3>3 DEF Part
      <4>2. QED
        BY <1>5, <1>7, <3>1, <4>1 DEF BooksInv
    <3>4. CASE q.to # None
      BY <1>13, <3>1, <3>2, <3>4
    <3>5. QED
      BY <3>3, <3>4
  <2>2. QED
    BY <2>1 DEF LeavesRight
<1>18. QED
  BY <1>16, <1>17, CommitBooks

-----------------------------------------------------------------------------
(* The books of every reachable state *)

LEMMA BooksInit == LedgerInit => BooksInv
<1>1. SUFFICES ASSUME LedgerInit PROVE BooksInv
  OBVIOUS
<1>2. IsFiniteSet(lines) /\ balance \in [Accounts -> Int]
  BY <1>1, FS_EmptySet DEF LedgerInit
<1>3. \A a \in Accounts : Net(lines, a) = 0
  BY <1>1, NetEmpty DEF LedgerInit
<1>4. BalancesMatchLines
  BY <1>1, <1>3 DEF BalancesMatchLines, LedgerInit
<1>6. \A t \in Txns : RightLines(txn[t].status, LinesOf(t))
  BY <1>1 DEF LedgerInit, RightLines
<1>7. \A s \in Requests : EditReady(req[s])
  BY <1>1 DEF LedgerInit, EditReady, Along, Idle
<1>8. \A l \in lines : txn[l.txn].status # "absent" /\ l.ver <= txn[l.txn].ver
  BY <1>1 DEF LedgerInit
<1>9. QED
  BY <1>2, <1>4, <1>6, <1>7, <1>8 DEF BooksInv

LEMMA ClosingBooks ==
    ASSUME LedgerInv, BooksInv, NEW d \in ClosingDates, SetClosingDate(d)
    PROVE  BooksInv'
<1>1. ASSUME NEW u \in Requests
      PROVE  EditReady(req[u])'
  <2>1. req[u] \in RequestRow /\ EditReady(req[u]) /\ UNCHANGED <<txn, lines>>
    BY DEF LedgerInv, LedgerTypeOK, BooksInv, SetClosingDate
  <2>2. PICK q : q = req[u]
    OBVIOUS
  <2>3. EditReady(q)'
    BY <2>1, <2>2, ReadyStays
  <2>4. /\ req'[u].op = q.op /\ req'[u].posting = q.posting /\ req'[u].partial = q.partial
        /\ req'[u].kept = q.kept /\ req'[u].t = q.t /\ req'[u].held = q.held /\ req'[u].to = q.to
    BY <2>1, <2>2 DEF SetClosingDate, RequestRow
  <2>5. QED
    BY <2>3, <2>4 DEF EditReady, Along
<1>2. QED
  BY <1>1, SameBooks DEF SetClosingDate

LEMMA BooksNext == LedgerInv /\ BooksInv /\ [LedgerNext]_<<ledgerVars, recs>> => BooksInv'
<1> SUFFICES ASSUME LedgerInv, BooksInv, [LedgerNext]_<<ledgerVars, recs>>
             PROVE  BooksInv'
  OBVIOUS
<1>1. LedgerInv'
  BY LedgerNextInv
<1>2. ASSUME NEW s \in Requests, NEW p \in Postings, NEW k \in Kinds, NEW d \in Dates,
             NEW ro \in Dates \cup {None}, BeginPost(s, p, k, d, ro)
      PROVE  BooksInv'
  BY <1>2, BeginBooks
<1>3. ASSUME NEW s \in Requests, NEW t \in Txns, BeginVoid(s, t) \/ BeginDelete(s, t)
      PROVE  BooksInv'
  BY <1>3, BeginBooks
<1>4. ASSUME NEW s \in Requests, NEW t \in Txns, NEW p \in Postings, NEW k \in Kinds, NEW d \in Dates,
             NEW ro \in Dates \cup {None, Keep}, BeginEdit(s, t, p, k, d, ro)
      PROVE  BooksInv'
  BY <1>4, BeginBooks
<1>10. ASSUME NEW s \in Requests, NEW a \in Categories \cup {None}, BeginBulk(s, a)
      PROVE  BooksInv'
  BY <1>10, BeginBooks
<1>11. ASSUME NEW s \in Requests, NEW t \in Txns, BulkTake(s, t)
      PROVE  BooksInv'
  BY <1>11, BulkTakeBooks
<1>5. ASSUME NEW s \in Requests, NextReversal(s) \/ CheckEdit(s) \/ Rollback(s)
      PROVE  BooksInv'
  BY <1>5, NextReversalBooks, CheckEditBooks, RollbackBooks
<1>6. ASSUME NEW s \in Requests, CommitPost(s) \/ CommitVoid(s) \/ CommitDelete(s) \/ CommitEdit(s) \/ CommitBulk(s)
      PROVE  BooksInv'
  BY <1>1, <1>6, CommitPostBooks, CommitVoidBooks, CommitEditBooks, CommitBulkBooks
<1>7. ASSUME NEW d \in ClosingDates, SetClosingDate(d)
      PROVE  BooksInv'
  BY <1>7, ClosingBooks
<1>8. CASE UNCHANGED <<ledgerVars, recs>>
  <2>1. ASSUME NEW u \in Requests PROVE EditReady(req[u])'
    <3>1. PICK q : q = req[u]
      OBVIOUS
    <3>2. EditReady(q)'
      BY <1>8, <3>1, ReadyStays DEF ledgerVars, BooksInv
    <3>3. req'[u] = q
      BY <1>8, <3>1 DEF ledgerVars
    <3>4. QED
      BY <3>2, <3>3 DEF EditReady, Along
  <2>2. QED
    BY <1>8, <2>1, SameBooks DEF ledgerVars
<1>9. QED
  BY <1>2, <1>3, <1>4, <1>5, <1>6, <1>7, <1>8, <1>10, <1>11 DEF LedgerNext

LEMMA BooksInvariant == LedgerSpec => []BooksInv
BY BooksInit, LedgerInvariant, BooksNext, PTL DEF LedgerSpec

\* However posts, edits, voids and deletes interleave, no increment of a stored
\* balance is lost or made twice: it is the sum of the account's journal lines.
THEOREM BalancesAreTheLines == LedgerSpec => []BalancesMatchLines
<1>1. BooksInv => BalancesMatchLines
  BY DEF BooksInv
<1>2. QED
  BY BooksInvariant, <1>1, PTL

\* A void or deleted transaction has exactly the lines that take it back, from
\* whatever chain of reversals it was part of.
THEOREM VoidLeavesNothing == LedgerSpec => []NothingLeftOfAVoid
<1>1. BooksInv => NothingLeftOfAVoid
  BY DEF BooksInv, RightLines, NothingLeftOfAVoid
<1>2. QED
  BY BooksInvariant, <1>1, PTL

\* A commit takes no other row down with its own but a reversal that nobody
\* updated and that still mirrors the row it reverses: what assertReversalUnchanged
\* compared holds when the writes are made, at every link of the chain.
THEOREM ReversalsCancel == LedgerSpec => OnlyMirrorsGoAlong
<1>1. ASSUME LedgerInv, BooksInv, [LedgerNext]_<<ledgerVars, recs>>, NEW s \in Requests,
             req[s] # Idle, req'[s] = Idle, NEW r \in Txns \ {req[s].t}, Live(r), ~Live(r)'
      PROVE  ~txn[r].touched /\ Mirrors(r, LinesOf(txn[r].reverses))
  <2>1. txn' # txn
    BY <1>1 DEF Live
  <2>2. PICK u \in Requests : Commits(u)
    <3>1. \A u \in Requests : Rollback(u) \/ NextReversal(u) \/ CheckEdit(u) => txn' = txn
      BY DEF Rollback, NextReversal, CheckEdit
    <3>2. \A u, p, k, d, ro : BeginPost(u, p, k, d, ro) => txn' = txn
      BY DEF BeginPost
    <3>3. \A u, t : BeginVoid(u, t) \/ BeginDelete(u, t) \/ BulkTake(u, t) => txn' = txn
      BY DEF BeginVoid, BeginDelete, BulkTake
    <3>4. \A u, t, p, k, d, ro : BeginEdit(u, t, p, k, d, ro) => txn' = txn
      BY DEF BeginEdit
    <3>5. \A u, c : BeginBulk(u, c) => txn' = txn
      BY DEF BeginBulk
    <3>6. \A d : SetClosingDate(d) => txn' = txn
      BY DEF SetClosingDate
    <3>7. LedgerNext
      BY <1>1, <2>1 DEF ledgerVars
    <3>8. QED
      BY <2>1, <3>1, <3>2, <3>3, <3>4, <3>5, <3>6, <3>7 DEF LedgerNext, Commits
  <2>3. u = s /\ Commits(s)
    BY <1>1, <2>2, OwnRowsOnly DEF LedgerInv, LedgerTypeOK
  <2>4. PICK q : q = req[s]
    OBVIOUS
  <2>5. EditReady(q) /\ ChainHeld(q) /\ HeldRowsStand(q) /\ q.held \subseteq Txns /\ txn[r] \in Header
        /\ r \in Txns /\ r # q.t
    BY <1>1, <2>4 DEF BooksInv, LedgerInv, LockDiscipline, LedgerTypeOK, RequestRow
  <2>6. r \in Along(q)
    <3>1. CASE CommitPost(s)
      <4>4. q.op = "post"
        BY <2>4, <3>1 DEF CommitPost
      <4>1. q.held = {}
        BY <2>5, <4>4 DEF HeldRowsStand
      <4>2. txn'[r] = txn[r] \/ r \in Fresh
        BY <1>1, <2>3, <2>4, <2>5, <4>1, OwnRowsOnly
      <4>3. QED
        BY <1>1, <4>2 DEF Live, Fresh
    <3>2. CASE CommitVoid(s)
      <4>1. r \in q.held /\ q.op = "void" /\ ~q.kept
        BY <1>1, <2>4, <2>5, <3>2 DEF CommitVoid, ChainHeld, Live
      <4>2. QED
        BY <2>5, <4>1 DEF Along
    <3>3. CASE CommitDelete(s)
      <4>1. r \in q.held /\ q.op = "delete" /\ ~q.kept
        BY <1>1, <2>4, <2>5, <3>3 DEF CommitDelete, ChainHeld, Live
      <4>2. QED
        BY <2>5, <4>1 DEF Along
    <3>4. CASE CommitEdit(s)
      <4>6. \E n \in Fresh \cup {None} :
              txn' = [v \in Txns |->
                        IF v = req[s].t
                        THEN [txn[v] EXCEPT !.date = req[s].date, !.ver = @ + 1, !.touched = TRUE]
                        ELSE IF v \in Superseded(req[s]) THEN DeleteRow(v)
                        ELSE IF v = n THEN PostedRow("journal_entry", req[s].reverseOn, req[s].t)
                        ELSE txn[v]]
        BY <3>4 DEF CommitEdit
      <4>1. PICK n \in Fresh \cup {None} :
              txn' = [v \in Txns |->
                        IF v = q.t THEN [txn[v] EXCEPT !.date = q.date, !.ver = @ + 1, !.touched = TRUE]
                        ELSE IF v \in Superseded(q) THEN DeleteRow(v)
                        ELSE IF v = n THEN PostedRow("journal_entry", q.reverseOn, q.t)
                        ELSE txn[v]]
        BY <2>4, <4>6
      <4>2. r \notin Superseded(q) => txn'[r] = txn[r] \/ r \in Fresh
        BY <2>5, <4>1, LedgerConstants
      <4>3. r \in Superseded(q)
        BY <1>1, <4>2 DEF Live, Fresh
      <4>4. q.op = "edit"
        BY <2>4, <3>4 DEF CommitEdit
      <4>5. QED
        BY <2>5, <4>3, <4>4 DEF Along, Superseded
    <3>5. CASE CommitBulk(s)
      <4>1. txn'[r].status = txn[r].status
        BY <2>5, <3>5 DEF CommitBulk, Header
      <4>2. QED
        BY <1>1, <4>1 DEF Live
    <3>6. QED
      BY <2>3, <3>1, <3>2, <3>3, <3>4, <3>5 DEF Commits
  <2>7. QED
    BY <2>5, <2>6 DEF EditReady, Unchanged
<1>2. LedgerInv /\ BooksInv /\ [LedgerNext]_<<ledgerVars, recs>> =>
        [\A s \in Requests : req[s] # Idle /\ req'[s] = Idle =>
           \A r \in Txns \ {req[s].t} : Live(r) /\ ~Live(r)' =>
             ~txn[r].touched /\ Mirrors(r, LinesOf(txn[r].reverses))]_<<ledgerVars, recs>>
  BY <1>1
<1>3. QED
  BY <1>2, LedgerInvariant, BooksInvariant, PTL DEF LedgerSpec, OnlyMirrorsGoAlong

-----------------------------------------------------------------------------
(* The trial balance *)

\* The lines of a transaction, posted, void or deleted, balance.
LEMMA TransactionBalances ==
    ASSUME LedgerInv, BooksInv, NEW t \in Txns
    PROVE  AllNet(LinesOf(t)) = 0
<1>1. PICK L : L = LinesOf(t)
  OBVIOUS
<1>2. L \subseteq Line /\ IsFiniteSet(L) /\ (t \in Fresh => L = {}) /\ IsFiniteSet(Accounts)
  BY <1>1, KnownLines, LedgerConstants
<1>3. PICK f : f = [a \in Accounts |-> Net(L, a)]
  OBVIOUS
<1>4. AllNet(L) = SumOn(f, Accounts)
  BY <1>3 DEF AllNet
<1>5. CASE txn[t].status \in {"void", "deleted"}
  <2>1. \A a \in Accounts : f[a] = 0
    BY <1>1, <1>3, <1>5 DEF BooksInv, RightLines
  <2>2. QED
    BY <1>1, <1>2, <1>4, <2>1, SumOnZero
<1>6. CASE t \in Fresh
  <2>1. \A a \in Accounts : f[a] = 0
    BY <1>2, <1>3, <1>6, NetEmpty
  <2>2. QED
    BY <1>1, <1>2, <1>4, <2>1, SumOnZero
<1>7. CASE Live(t)
  BY <1>1, <1>7 DEF BooksInv, RightLines, Live
<1>8. QED
  BY <1>5, <1>6, <1>7 DEF LedgerInv, LedgerTypeOK, Header, Statuses, Live, Fresh

\* The lines of the transactions in T.
LinesIn(T) == {l \in lines : l.txn \in T}

\* All transactions balance, so all lines together do, by induction over the
\* transactions that have lines.
LEMMA LinesBalance ==
    ASSUME LedgerInv, BooksInv
    PROVE  AllNet(lines) = 0
<1>1. IsFiniteSet(lines) /\ lines \subseteq Line /\ IsFiniteSet(Accounts)
  BY LedgerConstants DEF BooksInv, LedgerInv, LedgerTypeOK
<1>2. PICK m : m = [l \in lines |-> l.txn]
  OBVIOUS
<1>3. PICK S : S = {m[l] : l \in lines}
  OBVIOUS
<1>4. IsFiniteSet(S)
  BY <1>1, <1>3, FiniteImage
<1>5. (\A l \in lines : l.txn \in S) /\ S \subseteq Txns
  BY <1>1, <1>2, <1>3 DEF Line
<1>6. PICK D : D = {T \in SUBSET S : AllNet(LinesIn(T)) = 0}
  OBVIOUS
<1>7. {} \in D
  <2>1. LinesIn({}) = {}
    BY DEF LinesIn
  <2>2. PICK f : f = [a \in Accounts |-> Net({}, a)]
    OBVIOUS
  <2>3. \A a \in Accounts : f[a] = 0
    BY <2>2, NetEmpty
  <2>4. SumOn(f, Accounts) = 0
    BY <1>1, <2>3, SumOnZero
  <2>5. AllNet({}) = 0
    BY <2>2, <2>4 DEF AllNet
  <2>6. QED
    BY <1>6, <2>1, <2>5
<1>8. ASSUME NEW T \in SUBSET S, NEW x \in S, T \in D, x \notin T
      PROVE  T \cup {x} \in D
  <2>1. PICK U : U = T \cup {x}
    OBVIOUS
  <2>2. PICK L : L = LinesIn(T)
    OBVIOUS
  <2>3. PICK K : K = LinesOf(x)
    OBVIOUS
  <2>4. /\ L \subseteq Line /\ IsFiniteSet(L) /\ K \subseteq Line /\ IsFiniteSet(K) /\ L \cap K = {}
        /\ LinesIn(U) = L \cup K
    <3>1. L \subseteq lines /\ K \subseteq lines
      BY <2>2, <2>3 DEF LinesIn, LinesOf
    <3>2. L \cap K = {} /\ LinesIn(U) = L \cup K
      BY <1>8, <2>1, <2>2, <2>3 DEF LinesIn, LinesOf
    <3>3. QED
      BY <1>1, <3>1, <3>2, FS_Subset
  <2>5. AllNet(L) = 0
    BY <1>6, <1>8, <2>2
  <2>6. AllNet(K) = 0
    BY <1>5, <2>3, TransactionBalances
  <2>7. AllNet(L \cup K) = AllNet(L) + AllNet(K)
    BY <2>4, AllNetUnion
  <2>8. AllNet(LinesIn(U)) = 0
    BY <2>4, <2>5, <2>6, <2>7
  <2>9. U \in D
    BY <1>6, <2>1, <2>8
  <2>10. QED
    BY <2>1, <2>9
<1>9. \A T \in SUBSET S, x \in S : T \in D /\ x \notin T => T \cup {x} \in D
  BY <1>8
<1>10. SUBSET S \subseteq D
  BY <1>4, <1>7, <1>9, SetInduction
<1>11. S \in D
  BY <1>10
<1>12. LinesIn(S) = lines
  BY <1>5 DEF LinesIn
<1>13. QED
  BY <1>6, <1>11, <1>12

\* The trial balance is zero in every reachable state.
THEOREM TrialBalanceIsZero == LedgerSpec => []BooksBalance
<1>1. ASSUME LedgerInv, BooksInv PROVE BooksBalance
  <2>1. PICK f : f = [a \in Accounts |-> Net(lines, a)]
    OBVIOUS
  <2>2. SumOn(f, Accounts) = 0
    BY <1>1, <2>1, LinesBalance DEF AllNet
  <2>3. PICK b : b = balance
    OBVIOUS
  <2>4. \A a \in Accounts : f[a] \in Int /\ b[a] = f[a]
    BY <1>1, <2>1, <2>3 DEF BooksInv, BalancesMatchLines
  <2>5. SumOn(b, Accounts) = SumOn(f, Accounts)
    BY <2>4, SumOnSame, LedgerConstants
  <2>6. MapThenSumSet(LAMBDA a : b[a], Accounts) = 0
    BY <2>2, <2>5 DEF SumOn
  <2>7. QED
    BY <2>3, <2>6 DEF BooksBalance
<1>2. QED
  BY LedgerInvariant, BooksInvariant, <1>1, PTL

-----------------------------------------------------------------------------
(***************************************************************************)
(* Reconciliation beside the ledger, for every number of requests, ledger  *)
(* transactions and statements (module Reconciliation).                    *)
(*                                                                         *)
(* RecInv, on top of the ledger's LedgerInv and BooksInv.  What one of     *)
(* these requests has seen of a header still stands when it commits,       *)
(* because no other request holds that header's row lock.  What the ledger *)
(* does to a worksheet in between can only take lines away from it: a      *)
(* voided or deleted transaction gets reversing lines and keeps its own,   *)
(* an edit either replaces every line, with rows of a new version that no  *)
(* worksheet holds, or keeps the date and every balance-sheet line.  So a  *)
(* worksheet line that is gone never comes back, one that is there has the *)
(* date it was listed with, and the sum complete() computed under its lock *)
(* is still the sum of the cleared lines as long as all of them are there. *)
(***************************************************************************)

RecRow == [status : {"none", "in_progress", "complete"}, stmtDate : Dates, beginning : Int,
           ending : Int, rows : SUBSET Line, cleared : SUBSET Line, clearedBalance : Int]

\* A line of the bank account that some transaction's insert or edit has
\* written: present, or gone for good.
Shown(l) ==
    /\ l.acct = Bank /\ l.rev = FALSE
    /\ txn[l.txn].status # "absent" /\ l.ver <= txn[l.txn].ver

\* The worksheet of `rec` lists such lines, those present within the statement.
RowsFit(rec) ==
    /\ rec.cleared \subseteq rec.rows
    /\ \A l \in rec.rows : Shown(l) /\ (l \in lines => txn[l.txn].date <= rec.stmtDate)

\* While the lines C are all there, they and the beginning balance b make the
\* balance x, which ties out with the statement's ending balance e.
Tied(b, C, e, x) == C \subseteq lines => b + Sum(C) = x /\ Abs(e - x) <= Tolerance

RecTied(rec) == Tied(rec.beginning, rec.cleared, rec.ending, rec.clearedBalance)

\* What a request at work on a reconciliation has seen under its lock.
ScreenStands(q) ==
    /\ q \in ScreenRow
    /\ (q.op = "start") = (q.r = None)
    /\ q.op # "start" => recs[q.r].status = IF q.op = "undo" THEN "complete" ELSE "in_progress"
    /\ q.op = "lines" => q.mark \subseteq recs[q.r].rows
    /\ q.op = "complete" => Tied(recs[q.r].beginning, recs[q.r].cleared, recs[q.r].ending, q.beginning)

HeaderLock ==
    \A s, u \in Requests :
        /\ s # u /\ req[s].op = "reconcile" /\ req[u].op = "reconcile"
        /\ req[s].screen.r = req[u].screen.r
        => req[s].screen.r = None

\* An edit that keeps the balance-sheet lines keeps the date.
DateKept(q) == q.op = "edit" /\ q.partial => q.date = txn[q.t].date

RecInv ==
    /\ recs \in [RecIds -> RecRow]
    /\ HeaderLock
    /\ \A s \in Requests : req[s].op = "reconcile" => ScreenStands(req[s].screen)
    /\ \A s \in Requests : DateKept(req[s])
    /\ \A r \in RecIds : RowsFit(recs[r])
    /\ \A r \in Completed : RecTied(recs[r])

\* The ledger's own invariants go along.
AllInv == LedgerInv /\ BooksInv /\ RecInv
-----------------------------------------------------------------------------
(* What a ledger step does to a reconciliation *)

\* No ledger request changes another's work on a reconciliation, or begins one.
LEMMA ScreensStay ==
    ASSUME LedgerInv, LedgerNext, NEW s \in Requests, req'[s].op = "reconcile"
    PROVE  req[s].op = "reconcile" /\ req'[s].screen = req[s].screen
<1>0. \A u \in Requests : req[u] \in RequestRow BY DEF LedgerInv, LedgerTypeOK
<1>d. req \in [Requests -> RequestRow] BY DEF LedgerInv, LedgerTypeOK
<1>1. ASSUME NEW u \in Requests, NEW q, req' = [req EXCEPT ![u] = q], q.op # "reconcile"
      PROVE  req[s].op = "reconcile" /\ req'[s].screen = req[s].screen
  <2>1. s # u BY <1>1, <1>d
  <2> QED BY <2>1, <1>1, <1>d
<1>2. ASSUME NEW u \in Requests, NEW p \in Postings, NEW k \in Kinds, NEW d \in Dates,
             NEW ro \in Dates \cup {None}, BeginPost(u, p, k, d, ro)
      PROVE  req[s].op = "reconcile" /\ req'[s].screen = req[s].screen
  <2>1. PICK q : q = [Idle EXCEPT !.op = "post", !.stage = "commit", !.posting = p, !.kind = k,
                                  !.date = d, !.reverseOn = ro, !.closedAt = lockDate]
    OBVIOUS
  <2>2. q.op # "reconcile" BY <2>1 DEF Idle
  <2>3. req' = [req EXCEPT ![u] = q] BY <1>2, <2>1 DEF BeginPost
  <2> QED BY <2>2, <2>3, <1>1
<1>3. ASSUME NEW u \in Requests, NEW t \in Txns, NEW op \in {"void", "delete"},
             req' = [req EXCEPT ![u] = Hold(u, op, t)]
      PROVE  req[s].op = "reconcile" /\ req'[s].screen = req[s].screen
  <2>1. Hold(u, op, t).op # "reconcile" BY DEF Hold, Idle
  <2> QED BY <1>3, <2>1, <1>1
<1>4. ASSUME NEW u \in Requests, NEW t \in Txns, NEW p \in Postings, NEW k \in Kinds, NEW d \in Dates,
             NEW ro \in Dates \cup {None, Keep}, BeginEdit(u, t, p, k, d, ro)
      PROVE  req[s].op = "reconcile" /\ req'[s].screen = req[s].screen
  <2>1. PICK q : q = [Hold(u, "edit", t) EXCEPT !.posting = p, !.date = d, !.reverseOn = ro, !.kind = k]
    OBVIOUS
  <2>2. q.op # "reconcile" BY <2>1 DEF Hold, Idle
  <2>3. req' = [req EXCEPT ![u] = q] BY <1>4, <2>1 DEF BeginEdit
  <2> QED BY <2>2, <2>3, <1>1
<1>5. ASSUME NEW u \in Requests, req' = [req EXCEPT ![u] = Idle]
      PROVE  req[s].op = "reconcile" /\ req'[s].screen = req[s].screen
  BY <1>5, <1>1 DEF Idle
<1>6. ASSUME NEW u \in Requests, NextReversal(u)
      PROVE  req[s].op = "reconcile" /\ req'[s].screen = req[s].screen
  <2>1. CASE req' = [req EXCEPT ![u].stage = "commit"] BY <2>1, <1>0, <1>d DEF RequestRow
  <2>2. ASSUME NEW r, TakeAlong(u, req[u].cur, r)
        PROVE  req[s].op = "reconcile" /\ req'[s].screen = req[s].screen
    <3>1. req' = [req EXCEPT ![u] = [req[u] EXCEPT !.held = @ \cup {r}, !.cur = r]]
      BY <2>2, <1>d DEF TakeAlong
    <3> QED BY <3>1, <1>0, <1>d DEF RequestRow
  <2> QED BY <1>6, <2>1, <2>2 DEF NextReversal
<1>7. ASSUME NEW u \in Requests, CheckEdit(u)
      PROVE  req[s].op = "reconcile" /\ req'[s].screen = req[s].screen
  <2>1. req[u].op = "edit" BY <1>7 DEF CheckEdit
  <2>2. \E q : req' = [req EXCEPT ![u] = q] /\ q.op = "edit"
    <3>1. PICK r, settled :
            /\ settled = [req[u] EXCEPT !.reverseOn = TargetOn(req[u], r),
                                        !.partial = ClearedInCompleted(req[u].t) # {}]
            /\ \/ req' = [req EXCEPT ![u] = [settled EXCEPT !.stage = "commit", !.kept = TRUE,
                                                            !.held = @ \cup {r}]]
               \/ req' = [req EXCEPT ![u] = [settled EXCEPT !.stage = "commit"]]
               \/ req' = [req EXCEPT ![u] = [settled EXCEPT !.held = @ \cup {r}, !.cur = r]]
      BY <1>7 DEF CheckEdit
    <3>2. settled.op = "edit" BY <2>1, <3>1, <1>0 DEF RequestRow
    <3>3. /\ [settled EXCEPT !.stage = "commit", !.kept = TRUE, !.held = @ \cup {r}].op = "edit"
          /\ [settled EXCEPT !.stage = "commit"].op = "edit"
          /\ [settled EXCEPT !.held = @ \cup {r}, !.cur = r].op = "edit"
      BY <3>1, <3>2, <1>0 DEF RequestRow
    <3> QED BY <3>1, <3>3
  <2> QED BY <2>2, <1>1
<1>8. ASSUME NEW d \in ClosingDates, SetClosingDate(d)
      PROVE  req[s].op = "reconcile" /\ req'[s].screen = req[s].screen
  BY <1>8, <1>0 DEF SetClosingDate, RequestRow
<1>9. ASSUME NEW u \in Requests, NEW a, BeginBulk(u, a)
      PROVE  req[s].op = "reconcile" /\ req'[s].screen = req[s].screen
  <2>1. PICK q : q = [Idle EXCEPT !.op = "bulk", !.stage = "commit", !.to = a, !.lockRead = lockDate,
                                  !.closedAt = lockDate]
    OBVIOUS
  <2>2. q.op # "reconcile" BY <2>1 DEF Idle
  <2>3. req' = [req EXCEPT ![u] = q] BY <1>9, <2>1 DEF BeginBulk
  <2> QED BY <2>2, <2>3, <1>1
<1>10. ASSUME NEW u \in Requests, NEW t, BulkTake(u, t)
       PROVE  req[s].op = "reconcile" /\ req'[s].screen = req[s].screen
  <2>1. PICK q : q = [req[u] EXCEPT !.held = @ \cup {t}] OBVIOUS
  <2>2. q.op # "reconcile" BY <1>10, <2>1, <1>0 DEF BulkTake, RequestRow
  <2>3. req' = [req EXCEPT ![u] = q] BY <1>10, <2>1, <1>d DEF BulkTake
  <2> QED BY <2>2, <2>3, <1>1
<1> QED BY <1>2, <1>3, <1>4, <1>5, <1>6, <1>7, <1>8, <1>9, <1>10
    DEF LedgerNext, BeginVoid, BeginDelete, CommitPost, CommitVoid, CommitDelete, CommitEdit, CommitBulk, Rollback

-----------------------------------------------------------------------------
(* A partial edit keeps the date *)

LEMMA OneKeepsDate ==
    ASSUME LedgerInv, \A u \in Requests : DateKept(req[u]), NEW s \in Requests, NEW q, DateKept(q),
           req' = [req EXCEPT ![s] = q], UNCHANGED txn
    PROVE  \A u \in Requests : DateKept(req[u])'
<1>1. \A u \in Requests : req'[u] = IF u = s THEN q ELSE req[u]
  BY DEF LedgerInv, LedgerTypeOK
<1> QED BY <1>1 DEF DateKept

LEMMA DatesKept ==
    ASSUME LedgerInv, \A u \in Requests : DateKept(req[u]), LedgerNext
    PROVE  \A u \in Requests : DateKept(req[u])'
<1>0. req \in [Requests -> RequestRow] /\ \A u \in Requests : req[u] \in RequestRow
  BY DEF LedgerInv, LedgerTypeOK
<1>1. ASSUME NEW s \in Requests, NEW p \in Postings, NEW k \in Kinds, NEW d \in Dates,
             NEW ro \in Dates \cup {None}, BeginPost(s, p, k, d, ro)
      PROVE  \A u \in Requests : DateKept(req[u])'
  <2>1. PICK q : q = [Idle EXCEPT !.op = "post", !.stage = "commit", !.posting = p, !.kind = k,
                                  !.date = d, !.reverseOn = ro, !.closedAt = lockDate]
    OBVIOUS
  <2>2. DateKept(q) BY <2>1 DEF DateKept, Idle
  <2>3. req' = [req EXCEPT ![s] = q] /\ UNCHANGED txn BY <1>1, <2>1 DEF BeginPost
  <2> QED BY <2>2, <2>3, OneKeepsDate
<1>2. ASSUME NEW s \in Requests, NEW t \in Txns, NEW op \in {"void", "delete"},
             req' = [req EXCEPT ![s] = Hold(s, op, t)], UNCHANGED txn
      PROVE  \A u \in Requests : DateKept(req[u])'
  <2>1. DateKept(Hold(s, op, t)) BY DEF DateKept, Hold, Idle
  <2> QED BY <2>1, <1>2, OneKeepsDate
<1>3. ASSUME NEW s \in Requests, NEW t \in Txns, NEW p \in Postings, NEW k \in Kinds, NEW d \in Dates,
             NEW ro \in Dates \cup {None, Keep}, BeginEdit(s, t, p, k, d, ro)
      PROVE  \A u \in Requests : DateKept(req[u])'
  <2>1. PICK q : q = [Hold(s, "edit", t) EXCEPT !.posting = p, !.date = d, !.reverseOn = ro, !.kind = k]
    OBVIOUS
  <2>2. DateKept(q) BY <2>1 DEF DateKept, Hold, Idle
  <2>3. req' = [req EXCEPT ![s] = q] /\ UNCHANGED txn BY <1>3, <2>1 DEF BeginEdit
  <2> QED BY <2>2, <2>3, OneKeepsDate
<1>4. ASSUME NEW s \in Requests, NextReversal(s)
      PROVE  \A u \in Requests : DateKept(req[u])'
  <2>1. PICK q : req' = [req EXCEPT ![s] = q] /\ q.op = req[s].op /\ q.partial = req[s].partial
                 /\ q.date = req[s].date /\ q.t = req[s].t
    <3>1. CASE req' = [req EXCEPT ![s].stage = "commit"]
      <4>1. PICK q : q = [req[s] EXCEPT !.stage = "commit"] OBVIOUS
      <4>2. q.op = req[s].op /\ q.partial = req[s].partial /\ q.date = req[s].date /\ q.t = req[s].t
        BY <4>1, <1>0 DEF RequestRow
      <4> QED BY <3>1, <4>1, <4>2, <1>0
    <3>2. ASSUME NEW r, TakeAlong(s, req[s].cur, r)
          PROVE  \E q : req' = [req EXCEPT ![s] = q] /\ q.op = req[s].op /\ q.partial = req[s].partial
                        /\ q.date = req[s].date /\ q.t = req[s].t
      <4>1. PICK q : q = [req[s] EXCEPT !.held = @ \cup {r}, !.cur = r] OBVIOUS
      <4>2. q.op = req[s].op /\ q.partial = req[s].partial /\ q.date = req[s].date /\ q.t = req[s].t
        BY <4>1, <1>0 DEF RequestRow
      <4>3. req' = [req EXCEPT ![s] = q] BY <3>2, <4>1, <1>0 DEF TakeAlong
      <4> QED BY <4>2, <4>3
    <3> QED BY <1>4, <3>1, <3>2 DEF NextReversal
  <2>2. DateKept(q) BY <2>1 DEF DateKept
  <2> QED BY <1>4, <2>1, <2>2, OneKeepsDate DEF NextReversal
<1>5. ASSUME NEW s \in Requests, CheckEdit(s)
      PROVE  \A u \in Requests : DateKept(req[u])'
  <2>1. PICK r, settled :
          /\ settled = [req[s] EXCEPT !.reverseOn = TargetOn(req[s], r),
                                      !.partial = ClearedInCompleted(req[s].t) # {}]
          /\ Editable(req[s], TargetOn(req[s], r))
          /\ \/ req' = [req EXCEPT ![s] = [settled EXCEPT !.stage = "commit", !.kept = TRUE,
                                                          !.held = @ \cup {r}]]
             \/ req' = [req EXCEPT ![s] = [settled EXCEPT !.stage = "commit"]]
             \/ req' = [req EXCEPT ![s] = [settled EXCEPT !.held = @ \cup {r}, !.cur = r]]
    BY <1>5 DEF CheckEdit
  <2>2. /\ settled.t = req[s].t /\ settled.date = req[s].date
        /\ settled.partial = (ClearedInCompleted(req[s].t) # {})
    BY <2>1, <1>0 DEF RequestRow
  <2>3. settled.partial => settled.date = txn[settled.t].date
    BY <2>1, <2>2 DEF Editable, KeepsBalanceSheet
  <2>4. PICK q : req' = [req EXCEPT ![s] = q] /\ q.partial = settled.partial /\ q.date = settled.date
                 /\ q.t = settled.t
    <3>1. PICK H : H = settled.held \cup {r} OBVIOUS
    <3>2. PICK q : /\ req' = [req EXCEPT ![s] = q]
                   /\ \/ q = [settled EXCEPT !.stage = "commit", !.kept = TRUE, !.held = H]
                      \/ q = [settled EXCEPT !.stage = "commit"]
                      \/ q = [settled EXCEPT !.held = H, !.cur = r]
      BY <2>1, <3>1
    <3>3. PICK row, target, part : row \in RequestRow /\ settled = [row EXCEPT !.reverseOn = target, !.partial = part]
      BY <2>1, <1>0
    <3>4. q.partial = settled.partial /\ q.date = settled.date /\ q.t = settled.t
      BY <3>2, <3>3 DEF RequestRow
    <3> QED BY <3>2, <3>4
  <2>5. DateKept(q) BY <2>3, <2>4 DEF DateKept
  <2> QED BY <1>5, <2>4, <2>5, OneKeepsDate DEF CheckEdit
<1>6. ASSUME NEW s \in Requests, Rollback(s)
      PROVE  \A u \in Requests : DateKept(req[u])'
  <2>1. DateKept(Idle) BY DEF DateKept, Idle
  <2> QED BY <1>6, <2>1, OneKeepsDate DEF Rollback
<1>7. ASSUME NEW s \in Requests, Commits(s), NEW u \in Requests
      PROVE  DateKept(req[u])'
  <2>1. /\ \A t \in Txns : txn'[t] = txn[t] \/ t \in req[s].held \/ t \in Fresh
        /\ req'[u] = (IF u = s THEN Idle ELSE req[u])
    BY <1>7, <1>0, OwnRowsOnly
  <2>2. CASE u = s BY <2>1, <2>2 DEF DateKept, Idle
  <2>3. CASE u # s
    <3>1. HeldRowsStand(req[u]) /\ req[u].held \cap req[s].held = {} /\ req[u].held \subseteq Txns
      BY <2>3, <1>0 DEF LedgerInv, LockDiscipline, LocksExclusive, RequestRow
    <3>2. req[u].op = "edit" => txn'[req[u].t] = txn[req[u].t]
      BY <2>1, <3>1 DEF HeldRowsStand, Fresh, Live
    <3> QED BY <2>1, <2>3, <3>2 DEF DateKept
  <2> QED BY <2>2, <2>3
<1>8. ASSUME NEW d \in ClosingDates, SetClosingDate(d), NEW u \in Requests
      PROVE  DateKept(req[u])'
  <2>1. /\ req'[u].op = req[u].op /\ req'[u].partial = req[u].partial /\ req'[u].date = req[u].date
        /\ req'[u].t = req[u].t /\ UNCHANGED txn
    BY <1>8, <1>0 DEF SetClosingDate, RequestRow
  <2> QED BY <2>1 DEF DateKept
<1>9. ASSUME NEW s \in Requests, NEW a, BeginBulk(s, a)
      PROVE  \A u \in Requests : DateKept(req[u])'
  <2>1. PICK q : q = [Idle EXCEPT !.op = "bulk", !.stage = "commit", !.to = a, !.lockRead = lockDate,
                                  !.closedAt = lockDate]
    OBVIOUS
  <2>2. DateKept(q) BY <2>1 DEF DateKept, Idle
  <2>3. req' = [req EXCEPT ![s] = q] /\ UNCHANGED txn BY <1>9, <2>1 DEF BeginBulk
  <2> QED BY <2>2, <2>3, OneKeepsDate
<1>10. ASSUME NEW s \in Requests, NEW t, BulkTake(s, t)
       PROVE  \A u \in Requests : DateKept(req[u])'
  <2>1. PICK q : q = [req[s] EXCEPT !.held = @ \cup {t}] OBVIOUS
  <2>2. DateKept(q) BY <1>10, <2>1, <1>0 DEF DateKept, BulkTake, RequestRow
  <2>3. req' = [req EXCEPT ![s] = q] /\ UNCHANGED txn BY <1>10, <2>1, <1>0 DEF BulkTake
  <2> QED BY <2>2, <2>3, OneKeepsDate
<1> QED BY <1>1, <1>2, <1>3, <1>4, <1>5, <1>6, <1>7, <1>8, <1>9, <1>10
    DEF LedgerNext, BeginVoid, BeginDelete, Commits

-----------------------------------------------------------------------------
(* What a commit of the ledger does to the lines of a worksheet *)

\* A worksheet line stays what it is, and if it is still there it was there
\* before with the same date.
Survives(l) ==
    /\ Shown(l) => Shown(l)'
    /\ Shown(l) /\ l \in lines' => l \in lines /\ txn'[l.txn].date = txn[l.txn].date

LEMMA PostSurvives ==
    ASSUME LedgerInv, NEW s \in Requests, CommitPost(s), NEW l \in Line, Shown(l)
    PROVE  Survives(l)
<1>1. PICK u \in Fresh, r \in Fresh \cup {None} :
        /\ txn' = [v \in Txns |-> IF v = u THEN PostedRow(req[s].kind, req[s].date, None)
                                  ELSE IF v = r THEN PostedRow("journal_entry", req[s].reverseOn, u)
                                  ELSE txn[v]]
        /\ lines' = lines \cup (NewLines(u, 0, req[s].posting) \cup
                      (IF r = None THEN {} ELSE NewLines(r, 0, Negated(req[s].posting))))
  BY DEF CommitPost
<1>2. l.txn \in Txns /\ l.txn # None /\ l.txn # u /\ l.txn # r
  BY <1>1, LedgerConstants DEF Line, Shown, Fresh
<1>3. txn'[l.txn] = txn[l.txn] BY <1>1, <1>2
<1>4. l \in lines' => l \in lines BY <1>1, <1>2, NewLinesTxn
<1> QED BY <1>3, <1>4 DEF Survives, Shown

\* A line of the other side is not one a worksheet lists.
LEMMA SwappedReverses ==
    ASSUME NEW L \in SUBSET Line, NEW l \in Swapped(L)
    PROVE  l.rev = TRUE
<1>1. PICK k \in L : l = [k EXCEPT !.rev = TRUE, !.amt = -k.amt] BY DEF Swapped
<1>2. k \in Line BY <1>1
<1> QED BY <1>1, <1>2 DEF Line

LEMMA BackReverses ==
    ASSUME LedgerInv, NEW T \in SUBSET Txns
    PROVE  /\ \A l \in Swapped(UNION {LinesOf(t) : t \in T}) : l.rev = TRUE
           /\ \A l \in DeleteBack(T) : l.rev = TRUE
<1>1. ASSUME NEW U \in SUBSET Txns, NEW l \in Swapped(UNION {LinesOf(t) : t \in U}) PROVE l.rev = TRUE
  <2>1. PICK L : L = UNION {LinesOf(t) : t \in U} OBVIOUS
  <2>2. L \in SUBSET Line BY <2>1 DEF LedgerInv, LedgerTypeOK, LinesOf
  <2>3. l \in Swapped(L) BY <1>1, <2>1
  <2> QED BY <2>2, <2>3, SwappedReverses
<1>2. \A l \in DeleteBack(T) : l.rev = TRUE
  <2>1. PICK U \in SUBSET Txns : U = {u \in T : Live(u)} OBVIOUS
  <2>2. DeleteBack(T) = Swapped(UNION {LinesOf(t) : t \in U}) BY <2>1 DEF DeleteBack
  <2> QED BY <2>2, <1>1
<1> QED BY <1>1, <1>2

LEMMA TakeOutSurvives ==
    ASSUME LedgerInv, NEW s \in Requests, CommitVoid(s) \/ CommitDelete(s), NEW l \in Line, Shown(l)
    PROVE  Survives(l)
<1>1. /\ req[s].held \in SUBSET Txns /\ l.txn \in Txns /\ txn[l.txn] \in Header
  BY DEF LedgerInv, LedgerTypeOK, RequestRow, Line
<1>2. /\ txn'[l.txn].status # "absent" /\ txn'[l.txn].ver = txn[l.txn].ver
      /\ txn'[l.txn].date = txn[l.txn].date
  <2>1. CASE CommitVoid(s)
    <3>1. txn'[l.txn] \in {txn[l.txn], [txn[l.txn] EXCEPT !.status = "void", !.touched = TRUE]}
      BY <2>1, <1>1 DEF CommitVoid
    <3> QED BY <3>1, <1>1 DEF Header, Shown
  <2>2. CASE CommitDelete(s)
    <3>1. txn'[l.txn] \in {txn[l.txn], [txn[l.txn] EXCEPT !.status = "deleted", !.touched = TRUE]}
      BY <2>2, <1>1 DEF CommitDelete, DeleteRow
    <3> QED BY <3>1, <1>1 DEF Header, Shown
  <2> QED BY <2>1, <2>2
<1>3. l \in lines' => l \in lines
  BY <1>1, BackReverses DEF CommitVoid, CommitDelete, Shown
<1> QED BY <1>2, <1>3 DEF Survives, Shown

LEMMA EditSurvives ==
    ASSUME LedgerInv, BooksInv, NEW s \in Requests, DateKept(req[s]), CommitEdit(s),
           NEW l \in Line, Shown(l)
    PROVE  Survives(l)
<1>1. PICK r \in Fresh \cup {None} :
        /\ txn' = [u \in Txns |->
                     IF u = req[s].t THEN [txn[u] EXCEPT !.date = req[s].date, !.ver = @ + 1, !.touched = TRUE]
                     ELSE IF u \in Superseded(req[s]) THEN DeleteRow(u)
                     ELSE IF u = r THEN PostedRow("journal_entry", req[s].reverseOn, req[s].t)
                     ELSE txn[u]]
        /\ lines' = (lines \ Replaced(req[s])) \cup
                    (Replacing(req[s]) \cup DeleteBack(Superseded(req[s])) \cup
                     (IF r = None THEN {} ELSE NewLines(r, 0, Negated(req[s].posting))))
  BY DEF CommitEdit
<1>2. PICK t, gone : t = req[s].t /\ gone = Superseded(req[s]) OBVIOUS
<1>3. /\ l.txn \in Txns /\ l.txn # r /\ txn[l.txn] \in Header /\ l.ver \in Nat /\ txn[l.txn].ver \in Nat
      /\ l.acct \in BalanceSheet
  <2>1. l.txn \in Txns /\ l.ver \in 0..MaxEdits BY DEF Line
  <2>2. l.txn # r BY <1>1, <2>1, LedgerConstants DEF Shown, Fresh
  <2>3. txn[l.txn] \in Header BY <2>1 DEF LedgerInv, LedgerTypeOK
  <2>4. txn[l.txn].ver \in 0..MaxEdits BY <2>3 DEF Header
  <2>5. l.acct \in BalanceSheet BY ReconciliationConstants DEF Shown
  <2>6. 0..MaxEdits \subseteq Nat BY LedgerConstants
  <2> QED BY <2>1, <2>2, <2>3, <2>4, <2>5, <2>6
<1>4. /\ req[s].op = "edit" /\ t \in Txns /\ Live(t) /\ gone \in SUBSET Txns
  BY <1>2 DEF CommitEdit, LedgerInv, LedgerTypeOK, LockDiscipline, HeldRowsStand, RequestRow, Superseded
<1>5. \A k \in DeleteBack(gone) : k.rev = TRUE BY <1>4, BackReverses
<1>6. l \notin DeleteBack(gone) BY <1>5 DEF Shown
<1>7. l \notin NewLines(r, 0, Negated(req[s].posting)) BY <1>3, NewLinesTxn
<1>8. l \notin Replacing(req[s])
  <2>1. SUFFICES ASSUME l \in NewLines(t, txn[t].ver + 1, req[s].posting) PROVE FALSE
    BY <1>2 DEF Replacing
  <2>2. l.txn = t /\ l.ver = txn[t].ver + 1 BY <2>1 DEF NewLines
  <2> QED BY <2>2, <1>3 DEF Shown
<1>9. l \in lines' => l \in lines /\ l \notin Replaced(req[s])
  BY <1>1, <1>2, <1>6, <1>7, <1>8
<1>10. CASE l.txn = t
  <2>1. txn'[l.txn] = [txn[l.txn] EXCEPT !.date = req[s].date, !.ver = @ + 1, !.touched = TRUE]
    BY <1>1, <1>2, <1>3, <1>10
  <2>2. /\ txn'[l.txn].status = txn[l.txn].status /\ txn'[l.txn].ver = txn[l.txn].ver + 1
        /\ txn'[l.txn].date = req[s].date
    BY <2>1, <1>3 DEF Header
  <2>3. l \in lines' => req[s].partial
    BY <1>2, <1>9, <1>10 DEF Replaced, LinesOf
  <2>4. req[s].partial => txn'[l.txn].date = txn[l.txn].date
    BY <2>2, <1>2, <1>4, <1>10 DEF DateKept
  <2>5. l.ver <= txn'[l.txn].ver BY <2>2, <1>3 DEF Shown
  <2> QED BY <1>9, <2>2, <2>3, <2>4, <2>5 DEF Survives, Shown
<1>11. CASE l.txn # t
  <2>1. txn'[l.txn] \in {txn[l.txn], DeleteRow(l.txn)} BY <1>1, <1>2, <1>3, <1>11
  <2>2. /\ txn'[l.txn].status # "absent" /\ txn'[l.txn].ver = txn[l.txn].ver
        /\ txn'[l.txn].date = txn[l.txn].date
    BY <2>1, <1>3 DEF DeleteRow, Header, Shown
  <2> QED BY <1>9, <2>2 DEF Survives, Shown
<1> QED BY <1>10, <1>11

\* A bulk edit moves lines of categories only, and the bank account is none.
LEMMA BulkSurvives ==
    ASSUME LedgerInv, NEW s \in Requests, CommitBulk(s), NEW l \in Line, Shown(l)
    PROVE  Survives(l)
<1>1. l.txn \in Txns /\ txn[l.txn] \in Header BY DEF LedgerInv, LedgerTypeOK, Line
<1>2. txn'[l.txn] \in {txn[l.txn], [txn[l.txn] EXCEPT !.touched = TRUE]} BY <1>1 DEF CommitBulk
<1>3. /\ txn'[l.txn].status = txn[l.txn].status /\ txn'[l.txn].ver = txn[l.txn].ver
      /\ txn'[l.txn].date = txn[l.txn].date
  BY <1>1, <1>2 DEF Header
<1>4. l \notin MovedTo(Recategorized(req[s]), req[s].to)
  <2>1. CASE req[s].to = None BY <2>1, RecategorizedLines DEF MovedTo
  <2>2. CASE req[s].to # None
    <3>1. req[s].to \in Categories BY <2>2 DEF LedgerInv, LedgerTypeOK, RequestRow
    <3>2. ASSUME NEW k \in Recategorized(req[s]) PROVE [k EXCEPT !.acct = req[s].to].acct = req[s].to
      <4>1. k \in Line BY RecategorizedLines
      <4> QED BY <4>1 DEF Line
    <3> QED BY <3>1, <3>2, ReconciliationConstants DEF MovedTo, Shown
  <2> QED BY <2>1, <2>2
<1>5. l \in lines' => l \in lines BY <1>4 DEF CommitBulk
<1> QED BY <1>3, <1>5 DEF Survives, Shown

LEMMA LedgerSurvives ==
    ASSUME LedgerInv, BooksInv, \A s \in Requests : DateKept(req[s]), LedgerNext,
           NEW l \in Line, Shown(l)
    PROVE  Survives(l)
<1>1. CASE UNCHANGED <<txn, lines>> BY <1>1 DEF Survives, Shown
<1>2. ASSUME NEW s \in Requests, CommitPost(s) \/ CommitVoid(s) \/ CommitDelete(s) \/ CommitEdit(s) \/ CommitBulk(s)
      PROVE  Survives(l)
  BY <1>2, PostSurvives, TakeOutSurvives, EditSurvives, BulkSurvives
<1> QED BY <1>1, <1>2, QuietLines

LEMMA TiedStays ==
    ASSUME NEW C, lines' \cap C \subseteq lines, NEW b, NEW e, NEW x, Tied(b, C, e, x)
    PROVE  Tied(b, C, e, x)'
BY DEF Tied

\* The ledger reads reconciliations and writes none.
LEMMA LedgerLeavesRecs == LedgerNext => UNCHANGED recs
<1>1. ASSUME NEW s \in Requests,
             \/ \E p \in Postings, k \in Kinds, d \in Dates, ro \in Dates \cup {None} :
                  BeginPost(s, p, k, d, ro)
             \/ \E u \in Txns : BeginVoid(s, u) \/ BeginDelete(s, u)
             \/ \E u \in Txns, p \in Postings, k \in Kinds, d \in Dates, ro \in Dates \cup {None, Keep} :
                  BeginEdit(s, u, p, k, d, ro)
             \/ \E a \in Categories \cup {None} : BeginBulk(s, a)
             \/ \E u \in Txns : BulkTake(s, u)
      PROVE  UNCHANGED recs
  BY <1>1 DEF BeginPost, BeginVoid, BeginDelete, BeginEdit, BeginBulk, BulkTake
<1>2. ASSUME NEW s \in Requests, NextReversal(s) \/ CheckEdit(s) \/ Rollback(s)
      PROVE  UNCHANGED recs
  BY <1>2 DEF NextReversal, CheckEdit, Rollback
<1>3. ASSUME NEW s \in Requests, CommitPost(s) \/ CommitVoid(s) \/ CommitDelete(s) \/ CommitEdit(s) \/ CommitBulk(s)
      PROVE  UNCHANGED recs
  BY <1>3 DEF CommitPost, CommitVoid, CommitDelete, CommitEdit, CommitBulk
<1>4. ASSUME NEW d \in ClosingDates, SetClosingDate(d)
      PROVE  UNCHANGED recs
  BY <1>4 DEF SetClosingDate
<1> QED BY <1>1, <1>2, <1>3, <1>4 DEF LedgerNext

\* A ledger step leaves every worksheet fitting and every completed one tied out.
LEMMA LedgerRec ==
    ASSUME LedgerInv, BooksInv, RecInv, LedgerNext
    PROVE  RecInv'
<1>1. UNCHANGED recs BY LedgerLeavesRecs
<1>2. recs \in [RecIds -> RecRow] /\ \A r \in RecIds : RowsFit(recs[r]) BY DEF RecInv
<1>3. \A s \in Requests : DateKept(req[s])' BY DatesKept DEF RecInv
<1>4. \A s \in Requests : req'[s].op = "reconcile" =>
        req[s].op = "reconcile" /\ req'[s].screen = req[s].screen
  BY ScreensStay
<1>5. HeaderLock' BY <1>4 DEF RecInv, HeaderLock
<1>6. ASSUME NEW r \in RecIds
      PROVE  /\ \A l \in recs[r].rows : l \in Line /\ Survives(l)
             /\ lines' \cap recs[r].cleared \subseteq lines
  <2>1. \A l \in recs[r].rows : l \in Line /\ Shown(l) BY <1>2 DEF RowsFit, RecRow
  <2>2. \A l \in recs[r].rows : Survives(l) BY <2>1, LedgerSurvives DEF RecInv
  <2> QED BY <1>2, <2>1, <2>2 DEF RowsFit, Survives
<1>7. ASSUME NEW r \in RecIds PROVE RowsFit(recs[r])'
  <2>1. RowsFit(recs[r]) BY <1>2
  <2> QED BY <1>1, <1>6, <2>1 DEF RowsFit, Survives
<1>8. ASSUME NEW r \in Completed PROVE RecTied(recs[r])'
  <2>1. Tied(recs[r].beginning, recs[r].cleared, recs[r].ending, recs[r].clearedBalance)
    BY <1>8 DEF RecInv, RecTied
  <2>2. lines' \cap recs[r].cleared \subseteq lines BY <1>6 DEF Completed
  <2>3. PICK rec : rec = recs[r] OBVIOUS
  <2>4. Tied(rec.beginning, rec.cleared, rec.ending, rec.clearedBalance)' BY <2>1, <2>2, <2>3, TiedStays
  <2> QED BY <1>1, <2>3, <2>4 DEF RecTied
<1>9. ASSUME NEW s \in Requests, req'[s].op = "reconcile"
      PROVE  ScreenStands(req[s].screen)'
  <2>1. PICK q : q = req[s].screen /\ q = req'[s].screen BY <1>4, <1>9
  <2>2. ScreenStands(q) BY <1>4, <1>9, <2>1 DEF RecInv
  <2>3. q.op = "complete" => q.r \in RecIds BY <2>2 DEF ScreenStands, ScreenRow
  <2>4. PICK rec : rec = recs[q.r] OBVIOUS
  <2>5. q.op = "complete" => Tied(rec.beginning, rec.cleared, rec.ending, q.beginning)'
    <3>1. SUFFICES ASSUME q.op = "complete" PROVE Tied(rec.beginning, rec.cleared, rec.ending, q.beginning)'
      OBVIOUS
    <3>2. Tied(rec.beginning, rec.cleared, rec.ending, q.beginning) BY <3>1, <2>2, <2>4 DEF ScreenStands
    <3>3. lines' \cap rec.cleared \subseteq lines BY <1>6, <2>3, <2>4, <3>1
    <3> QED BY <3>2, <3>3, TiedStays
  <2>6. ScreenStands(q)' BY <1>1, <2>2, <2>4, <2>5 DEF ScreenStands
  <2> QED BY <2>1, <2>6
<1>10. (recs \in [RecIds -> RecRow])' /\ Completed' = Completed BY <1>1, <1>2 DEF Completed
<1>11. (\A r \in Completed : RecTied(recs[r]))' BY <1>8, <1>10
<1> QED BY <1>3, <1>5, <1>7, <1>9, <1>10, <1>11 DEF RecInv

-----------------------------------------------------------------------------
(* Steps of the reconciliation screen *)

\* A request that only moves between the reconciliations keeps the ledger as it is.
LEMMA LedgerUntouched ==
    ASSUME LedgerInv, BooksInv, NEW s \in Requests, NEW q \in RequestRow,
           req' = [req EXCEPT ![s] = q], UNCHANGED books,
           q.op \in {"idle", "reconcile"}, q.stage = "none", q.held = {}, ~q.kept
    PROVE  LedgerInv' /\ BooksInv'
<1>1. UNCHANGED <<txn, lines, lockDate>> /\ UNCHANGED <<txn, lines, balance>> BY DEF books
<1>6. q.op \notin {"post", "void", "delete", "edit", "bulk"} OBVIOUS
<1>7. HeldRowsStand(q) BY <1>6 DEF HeldRowsStand
<1>8. ChainHeld(q) BY <1>6 DEF ChainHeld, LooksForNone
<1>9. InputsKnown(q) BY <1>6 DEF InputsKnown
<1>2. HeldRowsStand(q) /\ ChainHeld(q) /\ InputsKnown(q) BY <1>7, <1>8, <1>9
<1>3. EditReady(q) BY DEF EditReady, Along
<1>4. LedgerInv' BY <1>1, <1>2, QuietStep
<1>5. BooksInv' BY <1>1, <1>3, QuietBooks
<1> QED BY <1>4, <1>5

\* Locking a header, or reading before there is one.
LEMMA BeginRec ==
    ASSUME AllInv, NEW s \in Requests, NEW q, ScreenStands(q), q.r # None => Free(q.r),
           req' = [req EXCEPT ![s] = [Idle EXCEPT !.op = "reconcile", !.screen = q]],
           UNCHANGED <<books, recs>>
    PROVE  AllInv'
<1>1. LedgerInv /\ BooksInv /\ RecInv BY DEF AllInv
<1>2. PICK row : row = [Idle EXCEPT !.op = "reconcile", !.screen = q] OBVIOUS
<1>3. /\ row \in RequestRow /\ row.op = "reconcile" /\ row.screen = q
      /\ row.stage = "none" /\ row.held = {} /\ row.kept = FALSE
  BY <1>2, IdleRow DEF RequestRow, Idle, ScreenStands
<1>4. LedgerInv' /\ BooksInv' BY <1>1, <1>2, <1>3, LedgerUntouched
<1>5. \A u \in Requests : req'[u] = IF u = s THEN row ELSE req[u]
  BY <1>1, <1>2 DEF LedgerInv, LedgerTypeOK
<1>6. UNCHANGED <<txn, lines, recs>> BY DEF books
<1>7. HeaderLock' BY <1>1, <1>3, <1>5 DEF RecInv, HeaderLock, Free
<1>8. ASSUME NEW u \in Requests, req'[u].op = "reconcile" PROVE ScreenStands(req[u].screen)'
  <2>1. PICK p : p = req'[u].screen OBVIOUS
  <2>2. ScreenStands(p) BY <1>1, <1>3, <1>5, <1>8, <2>1 DEF RecInv
  <2>3. ScreenStands(p)' BY <1>6, <2>2 DEF ScreenStands, Tied
  <2> QED BY <2>1, <2>3
<1>9. \A u \in Requests : DateKept(req[u])'
  BY <1>1, <1>3, <1>5, <1>6 DEF RecInv, DateKept
<1>10. \A r \in RecIds : RowsFit(recs[r])' BY <1>1, <1>6 DEF RecInv, RowsFit, Shown
<1>11. (\A r \in Completed : RecTied(recs[r]))' BY <1>1, <1>6 DEF RecInv, RecTied, Tied, Completed
<1>12. RecInv' BY <1>1, <1>6, <1>7, <1>8, <1>9, <1>10, <1>11 DEF RecInv
<1> QED BY <1>4, <1>12 DEF AllInv

\* Committing the header r, which no other request works on.
LEMMA SaveRec ==
    ASSUME AllInv, NEW s \in Requests, NEW r \in RecIds, NEW rec \in RecRow, Save(s, r, rec),
           RowsFit(rec), rec.status = "complete" => RecTied(rec),
           \A u \in Requests : u # s /\ req[u].op = "reconcile" => req[u].screen.r # r
    PROVE  AllInv'
<1>1. LedgerInv /\ BooksInv /\ RecInv BY DEF AllInv
<1>2. /\ Idle \in RequestRow /\ Idle.op = "idle" /\ Idle.stage = "none" /\ Idle.held = {} /\ Idle.kept = FALSE
  BY IdleRow DEF Idle
<1>3. LedgerInv' /\ BooksInv' BY <1>1, <1>2, LedgerUntouched DEF Save
<1>4. \A u \in Requests : req'[u] = IF u = s THEN Idle ELSE req[u]
  BY <1>1 DEF LedgerInv, LedgerTypeOK, Save
<1>5. UNCHANGED <<txn, lines>> BY DEF books, Save
<1>6. \A q \in RecIds : recs'[q] = IF q = r THEN rec ELSE recs[q]
  BY <1>1 DEF RecInv, Save
<1>7. (recs \in [RecIds -> RecRow])' BY <1>1 DEF RecInv, Save
<1>8. HeaderLock' BY <1>1, <1>2, <1>4 DEF RecInv, HeaderLock
<1>9. ASSUME NEW u \in Requests, req'[u].op = "reconcile" PROVE ScreenStands(req[u].screen)'
  <2>1. u # s /\ req[u].op = "reconcile" BY <1>2, <1>4, <1>9
  <2>2. PICK p : p = req'[u].screen /\ p = req[u].screen BY <1>4, <2>1
  <2>3. ScreenStands(p) /\ p.r # r BY <1>1, <2>1, <2>2 DEF RecInv
  <2>4. p.op # "start" => p.r \in RecIds BY <2>3 DEF ScreenStands, ScreenRow
  <2>5. p.op # "start" => recs'[p.r] = recs[p.r] BY <2>3, <2>4, <1>6
  <2>6. ScreenStands(p)' BY <1>5, <2>3, <2>5 DEF ScreenStands, Tied
  <2> QED BY <2>2, <2>6
<1>10. \A u \in Requests : DateKept(req[u])'
  BY <1>1, <1>2, <1>4, <1>5 DEF RecInv, DateKept
<1>11. ASSUME NEW q \in RecIds PROVE RowsFit(recs[q])'
  <2>1. PICK x : x = recs'[q] OBVIOUS
  <2>2. RowsFit(x) BY <1>1, <1>6, <2>1 DEF RecInv
  <2>3. RowsFit(x)' BY <1>5, <2>2 DEF RowsFit, Shown
  <2> QED BY <2>1, <2>3
<1>12. ASSUME NEW q \in RecIds, recs'[q].status = "complete" PROVE RecTied(recs[q])'
  <2>1. PICK x : x = recs'[q] OBVIOUS
  <2>2. RecTied(x) BY <1>1, <1>6, <1>12, <2>1 DEF RecInv, Completed
  <2>3. RecTied(x)' BY <1>5, <2>2 DEF RecTied, Tied
  <2> QED BY <2>1, <2>3
<1>13. (\A q \in Completed : RecTied(recs[q]))' BY <1>12 DEF Completed
<1>14. RecInv' BY <1>7, <1>8, <1>9, <1>10, <1>11, <1>13 DEF RecInv
<1> QED BY <1>3, <1>14 DEF AllInv

\* What refresh and start list fits the statement.
LEMMA EligibleFits ==
    ASSUME LedgerInv, BooksInv, NEW d, NEW l \in Eligible(d)
    PROVE  l \in Line /\ l \in lines /\ Shown(l) /\ txn[l.txn].date <= d
<1>1. l \in lines /\ l.acct = Bank /\ Live(l.txn) /\ txn[l.txn].date <= d BY DEF Eligible
<1>2. l \in Line /\ l.txn \in Txns BY <1>1 DEF LedgerInv, LedgerTypeOK, Line
<1>3. l \in LinesOf(l.txn) BY <1>1 DEF LinesOf
<1>4. l.rev = FALSE /\ l.ver <= txn[l.txn].ver BY <1>1, <1>2, <1>3, KnownLines
<1> QED BY <1>1, <1>2, <1>4 DEF Shown, Live

LEMMA ClearedIsAmount ==
    ASSUME LedgerInv, BooksInv, NEW rec \in RecRow
    PROVE  ClearedBalance(rec) \in Int
<1>1. PICK S : S = rec.cleared \cap lines OBVIOUS
<1>2. IsFiniteSet(S) /\ S \subseteq Line
  BY <1>1, FS_Subset DEF BooksInv, LedgerInv, LedgerTypeOK
<1>3. \A x \in S : x \in Line /\ x.amt \in Int /\ AmountOf[x] = x.amt BY <1>2 DEF Line, AmountOf
<1>4. Sum(S) = SumOn(AmountOf, S) BY <1>2, <1>3, AmountsSum DEF Sum
<1>5. SumOn(AmountOf, S) \in Int BY <1>2, <1>3, SumOnType
<1>6. Sum(rec.cleared \cap lines) = Sum(S) BY <1>1
<1>7. rec.beginning \in Int BY DEF RecRow
<1> QED BY <1>4, <1>5, <1>6, <1>7 DEF ClearedBalance

\* The screen of a request that has locked r.
LEMMA ScreenType ==
    ASSUME NEW op \in {"start", "lines", "refresh", "complete", "undo", "header", "cancel"},
           NEW r \in RecIds \cup {None}
    PROVE  Screen(op, r) \in ScreenRow /\ Screen(op, r).op = op /\ Screen(op, r).r = r
BY LedgerConstants DEF Screen, ScreenRow, Dates

LEMMA StartReadRec ==
    ASSUME AllInv, NEW s \in Requests, NEW d \in Dates, NEW e \in Endings, StartRead(s, d, e)
    PROVE  AllInv'
<1>1. PICK b \in IF Completed = {} THEN {0} ELSE {recs[p].ending : p \in Latest} :
        req' = [req EXCEPT ![s] = [Idle EXCEPT !.op = "reconcile", !.screen =
                   [Screen("start", None) EXCEPT !.date = d, !.ending = e, !.beginning = b]]]
  BY DEF StartRead
<1>2. b \in Int
  <2>1. CASE Completed = {} BY <1>1, <2>1
  <2>2. CASE Completed # {}
    <3>1. PICK p \in Latest : b = recs[p].ending BY <1>1, <2>2
    <3>2. recs[p] \in RecRow BY <3>1 DEF Latest, Completed, AllInv, RecInv
    <3> QED BY <3>1, <3>2 DEF RecRow
  <2> QED BY <2>1, <2>2
<1>3. e \in Int BY ReconciliationConstants
<1>4. PICK q : q = [Screen("start", None) EXCEPT !.date = d, !.ending = e, !.beginning = b] OBVIOUS
<1>5. q \in ScreenRow /\ q.op = "start" /\ q.r = None
  <2>1. PICK q0 : q0 = Screen("start", None) OBVIOUS
  <2>2. q0 \in ScreenRow /\ q0.op = "start" /\ q0.r = None BY <2>1, ScreenType
  <2>3. q = [q0 EXCEPT !.date = d, !.ending = e, !.beginning = b] BY <1>4, <2>1
  <2> QED BY <2>2, <2>3, <1>2, <1>3 DEF ScreenRow
<1>6. ScreenStands(q) BY <1>5 DEF ScreenStands
<1> QED BY <1>1, <1>4, <1>5, <1>6, BeginRec DEF StartRead

\* Row lock and status check: what the request remembers stands.
LEMMA BeginAtRec ==
    ASSUME AllInv, NEW s \in Requests, NEW r \in RecIds, NEW from, NEW q, Begin(s, r, from, q),
           q.r = r, ScreenStands(q)
    PROVE  AllInv'
BY BeginRec DEF Begin

LEMMA BeginLinesRec ==
    ASSUME AllInv, NEW s \in Requests, NEW r \in RecIds, NEW S,
           BeginUpdateLines(s, r, S) \/ BeginAutoClear(s, r, S)
    PROVE  AllInv'
<1>1. PICK M : /\ M \in {OnWorksheet(r, S), recs[r].cleared \cup OnWorksheet(r, S)}
               /\ Begin(s, r, "in_progress", [Screen("lines", r) EXCEPT !.mark = M])
  BY DEF BeginUpdateLines, BeginAutoClear
<1>2. recs[r] \in RecRow /\ RowsFit(recs[r]) BY DEF AllInv, RecInv
<1>3. M \subseteq recs[r].rows /\ recs[r].rows \subseteq Line
  BY <1>1, <1>2 DEF RowsFit, RecRow, OnWorksheet
<1>4. PICK q : q = [Screen("lines", r) EXCEPT !.mark = M] OBVIOUS
<1>5. q \in ScreenRow /\ q.op = "lines" /\ q.r = r /\ q.mark = M
  BY <1>3, <1>4, ScreenType DEF ScreenRow
<1>6. Begin(s, r, "in_progress", q) BY <1>1, <1>4
<1>7. recs[r].status = "in_progress" BY <1>6 DEF Begin
<1>8. ScreenStands(q) BY <1>3, <1>5, <1>7, ReconciliationConstants DEF ScreenStands
<1> QED BY <1>5, <1>6, <1>8, BeginAtRec

LEMMA BeginOtherRec ==
    ASSUME AllInv, NEW s \in Requests, NEW r \in RecIds,
           BeginRefresh(s, r) \/ BeginUndo(s, r) \/ BeginCancel(s, r)
    PROVE  AllInv'
<1>1. PICK op \in {"refresh", "undo", "cancel"} :
        Begin(s, r, IF op = "undo" THEN "complete" ELSE "in_progress", Screen(op, r))
  BY DEF BeginRefresh, BeginUndo, BeginCancel
<1>2. PICK q : q = Screen(op, r) OBVIOUS
<1>3. q \in ScreenRow /\ q.op = op /\ q.r = r BY <1>2, ScreenType
<1>4. recs[r].status = IF op = "undo" THEN "complete" ELSE "in_progress" BY <1>1 DEF Begin
<1>5. ScreenStands(q) BY <1>3, <1>4, ReconciliationConstants DEF ScreenStands
<1> QED BY <1>1, <1>2, <1>3, <1>5, BeginAtRec

LEMMA BeginHeaderRec ==
    ASSUME AllInv, NEW s \in Requests, NEW r \in RecIds, NEW e \in Endings, BeginHeader(s, r, e)
    PROVE  AllInv'
<1>1. PICK q : q = [Screen("header", r) EXCEPT !.ending = e] OBVIOUS
<1>2. q \in ScreenRow /\ q.op = "header" /\ q.r = r
  BY <1>1, ScreenType, ReconciliationConstants DEF ScreenRow
<1>3. Begin(s, r, "in_progress", q) BY <1>1 DEF BeginHeader
<1>4. recs[r].status = "in_progress" BY <1>3 DEF Begin
<1>5. ScreenStands(q) BY <1>2, <1>4, ReconciliationConstants DEF ScreenStands
<1> QED BY <1>2, <1>3, <1>5, BeginAtRec

\* The balance complete() computes under its lock ties out while its lines are there.
LEMMA BeginCompleteRec ==
    ASSUME AllInv, NEW s \in Requests, NEW r \in RecIds, BeginComplete(s, r)
    PROVE  AllInv'
<1>1. PICK rec : rec = recs[r] OBVIOUS
<1>2. rec \in RecRow BY <1>1 DEF AllInv, RecInv
<1>3. PICK b : b = ClearedBalance(rec) OBVIOUS
<1>4. b \in Int BY <1>2, <1>3, ClearedIsAmount DEF AllInv
<1>5. PICK q : q = [Screen("complete", r) EXCEPT !.beginning = b] OBVIOUS
<1>6. q \in ScreenRow /\ q.op = "complete" /\ q.r = r /\ q.beginning = b
  BY <1>4, <1>5, ScreenType DEF ScreenRow
<1>7. Begin(s, r, "in_progress", q) BY <1>1, <1>3, <1>5 DEF BeginComplete
<1>8. recs[r].status = "in_progress" BY <1>7 DEF Begin
<1>9. Abs(rec.ending - b) <= Tolerance BY <1>1, <1>3 DEF BeginComplete, Ties
<1>10. ASSUME rec.cleared \subseteq lines PROVE rec.beginning + Sum(rec.cleared) = b
  <2>1. PICK S : S = rec.cleared \cap lines OBVIOUS
  <2>2. S = rec.cleared BY <2>1, <1>10
  <2>3. Sum(rec.cleared \cap lines) = Sum(S) BY <2>1
  <2>4. Sum(rec.cleared) = Sum(S) BY <2>2
  <2> QED BY <1>3, <2>3, <2>4 DEF ClearedBalance
<1>11. Tied(rec.beginning, rec.cleared, rec.ending, b) BY <1>9, <1>10 DEF Tied
<1>12. ScreenStands(q) BY <1>1, <1>6, <1>8, <1>11, ReconciliationConstants DEF ScreenStands
<1> QED BY <1>6, <1>7, <1>12, BeginAtRec

-----------------------------------------------------------------------------
(* Commits of the reconciliation screen *)

\* What a request that reaches its commit has seen still stands, and no other
\* request works on its header.
LEMMA AtCommit ==
    ASSUME AllInv, NEW s \in Requests, NEW op, Working(s, op), op # "start"
    PROVE  /\ ScreenStands(req[s].screen) /\ req[s].screen.op = op
           /\ req[s].screen \in ScreenRow /\ req[s].screen.r \in RecIds
           /\ recs[req[s].screen.r] \in RecRow /\ RowsFit(recs[req[s].screen.r])
           /\ recs[req[s].screen.r].status = IF op = "undo" THEN "complete" ELSE "in_progress"
           /\ \A u \in Requests : u # s /\ req[u].op = "reconcile" => req[u].screen.r # req[s].screen.r
<1>1. ScreenStands(req[s].screen) /\ req[s].screen.op = op /\ req[s].op = "reconcile"
  BY DEF AllInv, RecInv, Working
<1>2. req[s].screen \in ScreenRow /\ req[s].screen.r # None BY <1>1 DEF ScreenStands
<1>3. req[s].screen.r \in RecIds BY <1>2 DEF ScreenRow
<1>4. recs[req[s].screen.r] \in RecRow /\ RowsFit(recs[req[s].screen.r]) BY <1>3 DEF AllInv, RecInv
<1>5. recs[req[s].screen.r].status = IF op = "undo" THEN "complete" ELSE "in_progress"
  BY <1>1 DEF ScreenStands
<1>6. \A u \in Requests : u # s /\ req[u].op = "reconcile" => req[u].screen.r # req[s].screen.r
  BY <1>1, <1>2 DEF AllInv, RecInv, HeaderLock
<1> QED BY <1>1, <1>2, <1>3, <1>4, <1>5, <1>6

\* The same of a request's screen and reconciliation by name.
LEMMA AtCommitOf ==
    ASSUME AllInv, NEW s \in Requests, NEW op, Working(s, op), op # "start",
           NEW q, q = req[s].screen, NEW r, r = q.r
    PROVE  /\ ScreenStands(q) /\ q.op = op /\ q \in ScreenRow /\ r \in RecIds /\ recs[r] \in RecRow
           /\ RowsFit(recs[r]) /\ recs[r].status = IF op = "undo" THEN "complete" ELSE "in_progress"
           /\ \A u \in Requests : u # s /\ req[u].op = "reconcile" => req[u].screen.r # r
BY AtCommit

LEMMA StartInsertRec ==
    ASSUME AllInv, NEW s \in Requests, StartInsert(s)
    PROVE  AllInv'
<1>1. PICK q : q = req[s].screen OBVIOUS
<1>2. PICK r, rec :
        /\ r \in RecIds
        /\ recs[r].status = "none"
        /\ rec = [status |-> "in_progress", stmtDate |-> q.date, beginning |-> q.beginning,
                  ending |-> q.ending, rows |-> Eligible(q.date), cleared |-> {}, clearedBalance |-> 0]
        /\ Save(s, r, rec)
  BY <1>1 DEF StartInsert
<1>3. q \in ScreenRow BY <1>1 DEF AllInv, RecInv, StartInsert, Working, ScreenStands
<1>4. \A l \in Eligible(q.date) : l \in Line /\ Shown(l) /\ txn[l.txn].date <= q.date
  BY EligibleFits DEF AllInv
<1>5. rec \in RecRow BY <1>2, <1>3, <1>4 DEF RecRow, ScreenRow
<1>6. RowsFit(rec) BY <1>2, <1>4 DEF RowsFit
<1>7. rec.status # "complete" BY <1>2
<1>8. ASSUME NEW u \in Requests, req[u].op = "reconcile" PROVE req[u].screen.r # r
  <2>1. ScreenStands(req[u].screen) BY <1>8 DEF AllInv, RecInv
  <2>2. CASE req[u].screen.op = "start" BY <2>1, <2>2, <1>2, ReconciliationConstants DEF ScreenStands
  <2>3. CASE req[u].screen.op # "start" BY <2>1, <2>3, <1>2 DEF ScreenStands
  <2> QED BY <2>2, <2>3
<1> QED BY <1>2, <1>5, <1>6, <1>7, <1>8, SaveRec

LEMMA CommitLinesRec ==
    ASSUME AllInv, NEW s \in Requests, CommitUpdateLines(s)
    PROVE  AllInv'
<1>1. PICK q, r, rec : q = req[s].screen /\ r = q.r /\ rec = [recs[r] EXCEPT !.cleared = q.mark]
  OBVIOUS
<1>2. Working(s, "lines") /\ Save(s, r, rec) BY <1>1 DEF CommitUpdateLines
<1>3. /\ ScreenStands(q) /\ q.op = "lines" /\ q \in ScreenRow /\ r \in RecIds /\ recs[r] \in RecRow
      /\ RowsFit(recs[r]) /\ recs[r].status = "in_progress"
      /\ \A u \in Requests : u # s /\ req[u].op = "reconcile" => req[u].screen.r # r
  BY <1>1, <1>2, AtCommitOf
<1>4. q.mark \subseteq recs[r].rows /\ q.mark \subseteq Line BY <1>1, <1>3 DEF ScreenStands, ScreenRow
<1>5. rec \in RecRow BY <1>1, <1>3, <1>4 DEF RecRow
<1>6. /\ rec.status = "in_progress" /\ rec.rows = recs[r].rows /\ rec.cleared = q.mark
      /\ rec.stmtDate = recs[r].stmtDate
  BY <1>1, <1>3 DEF RecRow
<1>7. RowsFit(rec) BY <1>3, <1>4, <1>6 DEF RowsFit
<1> QED BY <1>2, <1>3, <1>5, <1>6, <1>7, SaveRec

LEMMA CommitRefreshRec ==
    ASSUME AllInv, NEW s \in Requests, CommitRefresh(s)
    PROVE  AllInv'
<1>1. PICK q, r : q = req[s].screen /\ r = q.r OBVIOUS
<1>2. Working(s, "refresh") BY DEF CommitRefresh
<1>3. /\ r \in RecIds /\ recs[r] \in RecRow /\ RowsFit(recs[r]) /\ recs[r].status = "in_progress"
      /\ \A u \in Requests : u # s /\ req[u].op = "reconcile" => req[u].screen.r # r
  BY <1>1, <1>2, AtCommitOf
<1>4. PICK old \in RecRow : old = recs[r] BY <1>3
<1>5. PICK gone : gone = {l \in recs[r].rows \cap lines : ~Live(l.txn)} OBVIOUS
<1>6. PICK new : new = Eligible(recs[r].stmtDate) OBVIOUS
<1>7. PICK rec : rec = [old EXCEPT !.rows = (@ \ gone) \cup new, !.cleared = @ \ gone] OBVIOUS
<1>8. Save(s, r, rec)
  <2>1. Save(s, r, [recs[r] EXCEPT !.rows = (@ \ gone) \cup Eligible(recs[r].stmtDate),
                                   !.cleared = @ \ gone])
    BY <1>1, <1>5 DEF CommitRefresh
  <2> QED BY <2>1, <1>4, <1>6, <1>7
<1>9. \A l \in new : l \in Line /\ Shown(l) /\ txn[l.txn].date <= old.stmtDate
  <2>1. LedgerInv /\ BooksInv BY DEF AllInv
  <2> QED BY <2>1, <1>4, <1>6, EligibleFits
<1>10. rec \in RecRow
  <2>1. (old.rows \ gone) \cup new \in SUBSET Line /\ old.cleared \ gone \in SUBSET Line
    BY <1>4, <1>9 DEF RecRow
  <2> QED BY <1>7, <2>1 DEF RecRow
<1>11. /\ rec.status = old.status /\ rec.rows = (old.rows \ gone) \cup new
       /\ rec.cleared = old.cleared \ gone /\ rec.stmtDate = old.stmtDate
  BY <1>7 DEF RecRow
<1>12. RowsFit(rec) BY <1>3, <1>4, <1>9, <1>11 DEF RowsFit
<1>13. rec.status # "complete" BY <1>3, <1>4, <1>11
<1> QED BY <1>3, <1>8, <1>10, <1>12, <1>13, SaveRec

LEMMA CommitCompleteRec ==
    ASSUME AllInv, NEW s \in Requests, CommitComplete(s)
    PROVE  AllInv'
<1>1. PICK q, r, rec : /\ q = req[s].screen /\ r = q.r
                       /\ rec = [recs[r] EXCEPT !.status = "complete", !.clearedBalance = q.beginning]
  OBVIOUS
<1>2. Working(s, "complete") /\ Save(s, r, rec) BY <1>1 DEF CommitComplete
<1>3. /\ ScreenStands(q) /\ q.op = "complete" /\ q \in ScreenRow /\ r \in RecIds /\ recs[r] \in RecRow
      /\ RowsFit(recs[r])
      /\ \A u \in Requests : u # s /\ req[u].op = "reconcile" => req[u].screen.r # r
  BY <1>1, <1>2, AtCommitOf
<1>4. q.beginning \in Int BY <1>3 DEF ScreenRow
<1>5. rec \in RecRow BY <1>1, <1>3, <1>4 DEF RecRow
<1>6. /\ rec.rows = recs[r].rows /\ rec.cleared = recs[r].cleared /\ rec.stmtDate = recs[r].stmtDate
      /\ rec.beginning = recs[r].beginning /\ rec.ending = recs[r].ending
      /\ rec.clearedBalance = q.beginning
  BY <1>1, <1>3 DEF RecRow
<1>7. RowsFit(rec) BY <1>3, <1>6 DEF RowsFit
<1>8. Tied(recs[r].beginning, recs[r].cleared, recs[r].ending, q.beginning)
  BY <1>1, <1>3 DEF ScreenStands
<1>9. RecTied(rec) BY <1>6, <1>8 DEF RecTied
<1> QED BY <1>2, <1>3, <1>5, <1>7, <1>9, SaveRec

LEMMA CommitUndoRec ==
    ASSUME AllInv, NEW s \in Requests, CommitUndo(s)
    PROVE  AllInv'
<1>1. PICK q, r, rec :
        q = req[s].screen /\ r = q.r /\ rec = [recs[r] EXCEPT !.status = "in_progress", !.cleared = {}]
  OBVIOUS
<1>2. Working(s, "undo") /\ Save(s, r, rec) BY <1>1 DEF CommitUndo
<1>3. /\ r \in RecIds /\ recs[r] \in RecRow /\ RowsFit(recs[r])
      /\ \A u \in Requests : u # s /\ req[u].op = "reconcile" => req[u].screen.r # r
  BY <1>1, <1>2, AtCommitOf
<1>4. rec \in RecRow BY <1>1, <1>3 DEF RecRow
<1>5. /\ rec.status = "in_progress" /\ rec.rows = recs[r].rows /\ rec.cleared = {}
      /\ rec.stmtDate = recs[r].stmtDate
  BY <1>1, <1>3 DEF RecRow
<1>6. RowsFit(rec) BY <1>3, <1>5 DEF RowsFit
<1> QED BY <1>2, <1>3, <1>4, <1>5, <1>6, SaveRec

LEMMA CommitHeaderRec ==
    ASSUME AllInv, NEW s \in Requests, CommitHeader(s)
    PROVE  AllInv'
<1>1. PICK q, r, rec : q = req[s].screen /\ r = q.r /\ rec = [recs[r] EXCEPT !.ending = q.ending]
  OBVIOUS
<1>2. Working(s, "header") /\ Save(s, r, rec) BY <1>1 DEF CommitHeader
<1>3. /\ q \in ScreenRow /\ r \in RecIds /\ recs[r] \in RecRow
      /\ RowsFit(recs[r]) /\ recs[r].status = "in_progress"
      /\ \A u \in Requests : u # s /\ req[u].op = "reconcile" => req[u].screen.r # r
  BY <1>1, <1>2, AtCommitOf
<1>4. q.ending \in Int BY <1>3 DEF ScreenRow
<1>5. rec \in RecRow BY <1>1, <1>3, <1>4 DEF RecRow
<1>6. /\ rec.status = "in_progress" /\ rec.rows = recs[r].rows /\ rec.cleared = recs[r].cleared
      /\ rec.stmtDate = recs[r].stmtDate
  BY <1>1, <1>3 DEF RecRow
<1>7. RowsFit(rec) BY <1>3, <1>6 DEF RowsFit
<1> QED BY <1>2, <1>3, <1>5, <1>6, <1>7, SaveRec

LEMMA NoneIsRow == NoReconciliation \in RecRow /\ RowsFit(NoReconciliation)
BY LedgerConstants DEF NoReconciliation, RecRow, RowsFit, Dates

LEMMA CommitCancelRec ==
    ASSUME AllInv, NEW s \in Requests, CommitCancel(s)
    PROVE  AllInv'
<1>1. PICK q, r : q = req[s].screen /\ r = q.r OBVIOUS
<1>2. Working(s, "cancel") /\ Save(s, r, NoReconciliation) BY <1>1 DEF CommitCancel
<1>3. /\ r \in RecIds
      /\ \A u \in Requests : u # s /\ req[u].op = "reconcile" => req[u].screen.r # r
  BY <1>1, <1>2, AtCommitOf
<1>4. NoReconciliation.status # "complete" BY DEF NoReconciliation
<1> QED BY <1>2, <1>3, <1>4, NoneIsRow, SaveRec

-----------------------------------------------------------------------------
(* The invariant, and what follows from it *)

LEMMA RecInit == LedgerInit => AllInv
<1> SUFFICES ASSUME LedgerInit PROVE AllInv OBVIOUS
<1>1. LedgerInv /\ BooksInv BY LedgerInitInv, BooksInit
<1>2. recs \in [RecIds -> RecRow] /\ \A r \in RecIds : recs[r] = NoReconciliation
  BY NoneIsRow DEF LedgerInit
<1>3. \A r \in RecIds : RowsFit(recs[r]) BY <1>2, NoneIsRow
<1>4. Completed = {} BY <1>2 DEF Completed, NoReconciliation
<1>5. HeaderLock BY DEF LedgerInit, HeaderLock, Idle
<1>6. \A s \in Requests : req[s].op # "reconcile" /\ DateKept(req[s]) BY DEF LedgerInit, Idle, DateKept
<1> QED BY <1>1, <1>2, <1>3, <1>4, <1>5, <1>6 DEF AllInv, RecInv

LEMMA RecNextInv == AllInv /\ [RecNext]_recVars => AllInv'
<1> SUFFICES ASSUME AllInv, [RecNext]_recVars PROVE AllInv' OBVIOUS
<1>1. CASE LedgerNext
  <2>1. LedgerInv' /\ BooksInv' BY <1>1, LedgerNextInv, BooksNext DEF AllInv
  <2>2. RecInv' BY <1>1, LedgerRec DEF AllInv
  <2> QED BY <2>1, <2>2 DEF AllInv
<1>2. CASE UNCHANGED recVars
  <2>1. LedgerInv' /\ BooksInv' BY <1>2, LedgerNextInv, BooksNext DEF AllInv, recVars
  <2>2. UNCHANGED <<txn, lines, recs, req>> BY <1>2 DEF recVars, ledgerVars
  <2>3. \A u \in Requests : DateKept(req[u])' BY <2>2 DEF AllInv, RecInv, DateKept
  <2>4. \A u \in Requests : (req[u].op = "reconcile" => ScreenStands(req[u].screen))'
    BY <2>2 DEF AllInv, RecInv, ScreenStands, Tied
  <2>5. \A r \in RecIds : RowsFit(recs[r])' BY <2>2 DEF AllInv, RecInv, RowsFit, Shown
  <2>6. (\A r \in Completed : RecTied(recs[r]))' BY <2>2 DEF AllInv, RecInv, RecTied, Tied, Completed
  <2>7. HeaderLock' BY <2>2 DEF AllInv, RecInv, HeaderLock
  <2>8. RecInv' BY <2>2, <2>3, <2>4, <2>5, <2>6, <2>7 DEF AllInv, RecInv
  <2> QED BY <2>1, <2>8 DEF AllInv
<1>3. ASSUME NEW s \in Requests, NEW d \in Dates, NEW e \in Endings, StartRead(s, d, e) PROVE AllInv'
  BY <1>3, StartReadRec
<1>4. ASSUME NEW s \in Requests, NEW r \in RecIds, NEW S, BeginUpdateLines(s, r, S) \/ BeginAutoClear(s, r, S)
      PROVE  AllInv'
  BY <1>4, BeginLinesRec
<1>5. ASSUME NEW s \in Requests, NEW r \in RecIds,
             BeginRefresh(s, r) \/ BeginComplete(s, r) \/ BeginUndo(s, r) \/ BeginCancel(s, r)
      PROVE  AllInv'
  BY <1>5, BeginOtherRec, BeginCompleteRec
<1>6. ASSUME NEW s \in Requests, NEW r \in RecIds, NEW e \in Endings, BeginHeader(s, r, e) PROVE AllInv'
  BY <1>6, BeginHeaderRec
<1>7. ASSUME NEW s \in Requests,
             \/ StartInsert(s) \/ CommitUpdateLines(s) \/ CommitRefresh(s) \/ CommitComplete(s)
             \/ CommitUndo(s) \/ CommitHeader(s) \/ CommitCancel(s)
      PROVE  AllInv'
  BY <1>7, StartInsertRec, CommitLinesRec, CommitRefreshRec, CommitCompleteRec, CommitUndoRec,
     CommitHeaderRec, CommitCancelRec
<1> QED BY <1>1, <1>2, <1>3, <1>4, <1>5, <1>6, <1>7 DEF RecNext

LEMMA RecInvariant == RecSpec => []AllInv
BY RecInit, RecNextInv, PTL DEF RecSpec

\* With reconciliations running beside it, the ledger keeps its books: balances
\* are the sums of the lines, a void leaves nothing, and no journal entry leaves
\* its reversal behind.
THEOREM LedgerBesideReconciliations ==
    RecSpec => [](BalancesMatchLines /\ NothingLeftOfAVoid /\ NoOrphanReversal)
<1>1. AllInv => BalancesMatchLines /\ NothingLeftOfAVoid /\ NoOrphanReversal
  BY DEF AllInv, LedgerInv, BooksInv, RightLines, NothingLeftOfAVoid
<1> QED BY <1>1, RecInvariant, PTL

\* No worksheet line is dated after its statement, however edits move
\* transactions while the worksheet is open or completed.
THEOREM WorksheetDates == RecSpec => []WorksheetWithinStatement
<1>1. AllInv => WorksheetWithinStatement
  BY DEF AllInv, RecInv, RowsFit, WorksheetWithinStatement
<1> QED BY <1>1, RecInvariant, PTL

\* What a completed reconciliation has cleared adds up to the statement's
\* ending balance within the tolerance, whatever the ledger commits between
\* complete()'s computation and its commit, as long as the lines are there.
THEOREM CompletedAgrees == RecSpec => []CompletedTiesOut
<1>1. AllInv => CompletedTiesOut
  BY DEF AllInv, RecInv, RecTied, Tied, CompletedTiesOut
<1> QED BY <1>1, RecInvariant, PTL

\* Nothing that began before a reconciliation completed lands in it after:
\* it changes only by undo().
THEOREM CompletedStaysFrozen == RecSpec => CompletedIsFrozen
<1> DEFINE frozen == \A r \in Completed \cap Completed' : recs'[r] = recs[r]
<1>1. AllInv /\ [RecNext]_recVars => [frozen]_recVars
  <2> SUFFICES ASSUME AllInv, RecNext, NEW r \in RecIds, recs[r].status = "complete",
                      recs'[r].status = "complete"
               PROVE  recs'[r] = recs[r]
    BY DEF Completed
  <2>0. recs \in [RecIds -> RecRow] BY DEF AllInv, RecInv
  <2>1. CASE UNCHANGED recs BY <2>1
  <2>2. ASSUME NEW s \in Requests, NEW op, Working(s, op), op # "start",
               NEW rec, Save(s, req[s].screen.r, rec), op = "undo" => rec.status # "complete"
        PROVE  recs'[r] = recs[r]
    <3>1. recs[req[s].screen.r].status = IF op = "undo" THEN "complete" ELSE "in_progress"
      BY <2>2, AtCommit
    <3>2. recs' = [recs EXCEPT ![req[s].screen.r] = rec] BY <2>2 DEF Save
    <3>3. req[s].screen.r # r BY <2>0, <2>2, <3>1, <3>2
    <3> QED BY <2>0, <3>2, <3>3
  <2>3. ASSUME NEW s \in Requests, StartInsert(s) PROVE recs'[r] = recs[r]
    <3>1. PICK q, rec : q \in RecIds /\ recs[q].status = "none" /\ recs' = [recs EXCEPT ![q] = rec]
      BY <2>3 DEF StartInsert, Save
    <3> QED BY <2>0, <3>1
  <2>4. ASSUME NEW s \in Requests, CommitUndo(s) PROVE recs'[r] = recs[r]
    <3>1. PICK rec : rec = [recs[req[s].screen.r] EXCEPT !.status = "in_progress", !.cleared = {}] OBVIOUS
    <3>2. Working(s, "undo") /\ Save(s, req[s].screen.r, rec) BY <2>4, <3>1 DEF CommitUndo
    <3>3. recs[req[s].screen.r] \in RecRow BY <3>2, AtCommit
    <3>4. rec.status # "complete" BY <3>1, <3>3 DEF RecRow
    <3> QED BY <2>2, <3>2, <3>4
  <2>5. ASSUME NEW s \in Requests,
               \/ CommitUpdateLines(s) \/ CommitRefresh(s) \/ CommitComplete(s)
               \/ CommitHeader(s) \/ CommitCancel(s)
        PROVE  recs'[r] = recs[r]
    <3>1. PICK op, rec :
            op \in {"lines", "refresh", "complete", "header", "cancel"} /\ Working(s, op) /\ Save(s, req[s].screen.r, rec)
      BY <2>5 DEF CommitUpdateLines, CommitRefresh, CommitComplete, CommitHeader, CommitCancel
    <3> QED BY <2>2, <3>1
  <2>6. LedgerNext => UNCHANGED recs BY LedgerLeavesRecs
  <2>7. ASSUME NEW s \in Requests,
               \/ \E d \in Dates, e \in Endings : StartRead(s, d, e)
               \/ \E q \in RecIds :
                    \/ \E S \in SUBSET {l \in lines : l.acct = Bank} :
                         BeginUpdateLines(s, q, S) \/ BeginAutoClear(s, q, S)
                    \/ BeginRefresh(s, q) \/ BeginComplete(s, q) \/ BeginUndo(s, q) \/ BeginCancel(s, q)
                    \/ \E e \in Endings : BeginHeader(s, q, e)
        PROVE  UNCHANGED recs
    BY <2>7 DEF StartRead, BeginUpdateLines, BeginAutoClear, BeginRefresh, BeginComplete, BeginUndo,
       BeginCancel, BeginHeader, Begin
  <2> QED BY <2>1, <2>3, <2>4, <2>5, <2>6, <2>7 DEF RecNext
<1> QED BY <1>1, RecInvariant, PTL DEF RecSpec, CompletedIsFrozen
=============================================================================
