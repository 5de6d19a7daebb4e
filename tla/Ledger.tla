------------------------------- MODULE Ledger -------------------------------
(***************************************************************************)
(* The double-entry ledger of packages/api/src/services/ledger.service.ts  *)
(* with the journal-entry reversals of journal-entry.service.ts.           *)
(*                                                                         *)
(* A request is one PostgreSQL transaction at READ COMMITTED.  It takes    *)
(* the row lock of its transaction (SELECT ... FOR UPDATE), reads and      *)
(* checks, walks down the chain of automatic reversals locking each, and   *)
(* commits: its writes become visible to the other requests in one step.   *)
(* Between those steps other requests run.  What a request read without a  *)
(* lock (the closing date, the completed reconciliations) may be stale by  *)
(* the time it commits.                                                    *)
(*                                                                         *)
(* PUT /transactions/:id dispatches on the txnType of its body, and nothing*)
(* compares that with the row's: any row can be edited by a body of any    *)
(* type.  Only a journal-entry body on a journal entry looks at the        *)
(* reversal; other bodies and bulk edits pass it by.                       *)
(***************************************************************************)
EXTENDS Integers, FiniteSets, FiniteSetsExt

CONSTANTS
    Requests,       \* concurrent API requests, each on its own connection
    Txns,           \* identifiers of rows of `transactions`
    Accounts,       \* identifiers of rows of `accounts`
    BalanceSheet,   \* the accounts of type asset, liability or equity
    Postings,       \* the line sets callers send: account -> debit - credit
    MaxDate,        \* dates are 1..MaxDate
    Categories,     \* the accounts a bulk edit moves a category line between
    Kinds,          \* txn_type values, of rows and of request bodies
    ClosingDates,   \* the closing dates the company sets, 0 for none
    MaxEdits,       \* bound on the edits of one transaction
    RecIds,         \* identifiers of rows of `reconciliations`
    None,           \* SQL null
    Keep            \* PUT body without reverseOn

ASSUME LedgerConstants ==
    /\ IsFiniteSet(Accounts) /\ BalanceSheet \subseteq Accounts
    /\ Categories \subseteq Accounts /\ None \notin Accounts
    /\ MaxDate \in Nat \ {0} /\ MaxEdits \in Nat
    /\ 0 \in ClosingDates /\ ClosingDates \subseteq 0..MaxDate
    /\ \A p \in Postings : DOMAIN p \subseteq Accounts /\ \A a \in DOMAIN p : p[a] \in Int
    /\ None \notin Txns /\ None \notin Int /\ Keep \notin Int /\ None # Keep

VARIABLES
    txn,        \* transactions: header rows
    lines,      \* journal_lines
    balance,    \* accounts.balance
    lockDate,   \* companies.lock_date, 0 when the books were never closed
    recs,       \* reconciliations with their worksheet rows (module Reconciliation)
    req         \* the open database transaction of each request

ledgerVars == <<txn, lines, balance, lockDate, req>>

Dates == 1..MaxDate
Statuses == {"absent", "posted", "void", "deleted"}

\* A row of `transactions`.  `touched` says updated_at # created_at, `ver`
\* counts the edits, `reverses` is reverses_transaction_id.
Header == [status : Statuses, kind : Kinds \cup {"journal_entry", None}, date : Dates,
           ver : 0..MaxEdits, touched : BOOLEAN, reverses : Txns \cup {None}]

\* A row of `journal_lines`; `ver` tells apart the rows of two edits.  One
\* column is ever updated in place: a bulk edit moves `acct` of a category line.
Line == [txn : Txns, ver : 0..MaxEdits, acct : Accounts, rev : BOOLEAN, amt : Int]

\* The open database transaction of a request: `held` are its row locks, `cur`
\* the end of the reversal chain, `kind` the txnType of the body, `to` the
\* category of a bulk edit and `lockRead` the closing date it read at its
\* start, `closedAt` (a history field no guard reads)
\* the earliest closing date in force since the request began, and `screen` the
\* work of a request on a reconciliation (op "reconcile", module Reconciliation).
Idle == [op |-> "idle", stage |-> "none", t |-> None, held |-> {}, cur |-> None,
         posting |-> None, kind |-> None, date |-> 1, reverseOn |-> None,
         to |-> None, lockRead |-> 0, partial |-> FALSE, kept |-> FALSE, closedAt |-> 0, screen |-> None]

Live(t) == txn[t].status = "posted"
LinesOf(t) == {l \in lines : l.txn = t}
OwnLines(t) == {l \in LinesOf(t) : ~l.rev}
Net(L, a) == MapThenSumSet(LAMBDA l : l.amt, {l \in L : l.acct = a})
NewLines(t, v, p) ==
    {[txn |-> t, ver |-> v, acct |-> a, rev |-> FALSE, amt |-> p[a]] : a \in DOMAIN p}
Swapped(L) == {[l EXCEPT !.rev = TRUE, !.amt = -l.amt] : l \in L}
Negated(p) == [a \in DOMAIN p |-> -p[a]]

\* Mutant: the tolerance assertBalanced had before amounts were compared exactly.
BalancedWithin(p) == MapThenSumSet(LAMBDA a : p[a], DOMAIN p) \in -1..1
\* assertBalanced: debits equal credits exactly.
Balanced(p) == MapThenSumSet(LAMBDA a : p[a], DOMAIN p) = 0

\* updateAccountBalances: one increment per account, done by the database.
Apply(bal, L) == [a \in Accounts |-> bal[a] + Net(L, a)]

\* checkLockDate, for a caller that may not override the closing date.
Open(d) == d > lockDate

\* The journal lines of t that a completed reconciliation has cleared.
ClearedInCompleted(t) ==
    {l \in LinesOf(t) : \E r \in RecIds : recs[r].status = "complete" /\ l \in recs[r].cleared}

LockedBy(t) == {s \in Requests : t \in req[s].held}
\* Mutant: SELECT without FOR UPDATE.
LockableWithoutForUpdate(t) == t \in Txns
Lockable(t) == LockedBy(t) = {}

\* Mutant: a reversal somebody edited no longer counts as the reversal.
LiveReversalsUntouched(t) == {r \in Txns : txn[r].reverses = t /\ Live(r) /\ ~txn[r].touched}
\* findLiveReversal
LiveReversals(t) == {r \in Txns : txn[r].reverses = t /\ Live(r)}
\* It is called for rows of type journal_entry only.
ReversalsFound(t) == IF txn[t].kind = "journal_entry" THEN LiveReversals(t) ELSE {}

\* assertReversalUnchanged: never updated, and the original's lines swapped.
Mirrors(r, L) ==
    {<<l.acct, l.amt>> : l \in OwnLines(r)} = {<<l.acct, -l.amt>> : l \in {k \in L : ~k.rev}}
\* Mutant: updated_at alone is compared; a category moved in place does not set it.
NeverTouched(r, t) == Live(r) /\ ~txn[r].touched
Unchanged(r, t) == Live(r) /\ ~txn[r].touched /\ Mirrors(r, LinesOf(t))

\* Mutant: the date of a reconciled transaction may move.
KeepsBalanceSheetLines(t, p, d) ==
    /\ d \in Dates
    /\ {<<l.acct, l.amt>> : l \in {k \in OwnLines(t) : k.acct \in BalanceSheet}}
         = {<<a, p[a]>> : a \in DOMAIN p \cap BalanceSheet}
\* A partial edit of a reconciled transaction: the date and every
\* balance-sheet line stay, only income and expense lines are replaced.
KeepsBalanceSheet(t, p, d) ==
    /\ d = txn[t].date
    /\ {<<l.acct, l.amt>> : l \in {k \in OwnLines(t) : k.acct \in BalanceSheet}}
         = {<<a, p[a]>> : a \in DOMAIN p \cap BalanceSheet}

Fresh == {t \in Txns : txn[t].status = "absent"}

-----------------------------------------------------------------------------
(* Opening a request *)

\* postTransaction / createJournalEntry up to the insert: the entry and its
\* reversal both pass the closing date.
BeginPost(s, p, k, d, ro) ==
    /\ req[s] = Idle
    /\ Balanced(p) /\ Open(d)
    /\ ro # None => k = "journal_entry" /\ ro > d /\ Open(ro)
    /\ req' = [req EXCEPT ![s] = [Idle EXCEPT !.op = "post", !.stage = "commit", !.posting = p,
                  !.kind = k, !.date = d, !.reverseOn = ro, !.closedAt = lockDate]]
    /\ UNCHANGED <<txn, lines, balance, lockDate, recs>>

Hold(s, op, t) ==
    [Idle EXCEPT !.op = op, !.stage = "reversal", !.t = t, !.held = {t}, !.cur = t,
                 !.closedAt = lockDate]

\* voidTransaction: lock the row, refuse a deleted or void one, a closed
\* date and a line cleared in a completed reconciliation.
BeginVoid(s, t) ==
    /\ req[s] = Idle /\ Lockable(t)
    /\ Live(t) /\ Open(txn[t].date) /\ ClearedInCompleted(t) = {}
    /\ req' = [req EXCEPT ![s] = Hold(s, "void", t)]
    /\ UNCHANGED <<txn, lines, balance, lockDate, recs>>

\* deleteTransaction: the same, and a void transaction can still be deleted.
BeginDelete(s, t) ==
    /\ req[s] = Idle /\ Lockable(t)
    /\ txn[t].status \in {"posted", "void"}
    /\ Open(txn[t].date) /\ ClearedInCompleted(t) = {}
    /\ req' = [req EXCEPT ![s] = Hold(s, "delete", t)]
    /\ UNCHANGED <<txn, lines, balance, lockDate, recs>>

\* updateTransaction / updateJournalEntry, whichever the body's type k names:
\* lock the row of a posted transaction, whatever its own type.  The other
\* checks follow the lock of its reversal.
BeginEdit(s, t, p, k, d, ro) ==
    /\ req[s] = Idle /\ Lockable(t)
    /\ Live(t) /\ txn[t].ver < MaxEdits
    /\ Balanced(p)
    /\ ro # Keep => k = "journal_entry"
    /\ ro \in Dates => ro > d
    /\ req' = [req EXCEPT ![s] = [Hold(s, "edit", t) EXCEPT !.posting = p, !.date = d,
                                     !.reverseOn = ro, !.kind = k]]
    /\ UNCHANGED <<txn, lines, balance, lockDate, recs>>

\* bulkUpdateTransactions: the closing date is read once, before any row.
\* `a` is the new category, None for a change of the payee.
BeginBulk(s, a) ==
    /\ req[s] = Idle
    /\ req' = [req EXCEPT ![s] = [Idle EXCEPT !.op = "bulk", !.stage = "commit", !.to = a,
                                     !.lockRead = lockDate, !.closedAt = lockDate]]
    /\ UNCHANGED <<txn, lines, balance, lockDate, recs>>

CategoryLines(t) == {l \in LinesOf(t) : l.acct \in Categories}

\* The rows are locked one at a time in the caller's order.  A row that is void,
\* deleted or closed, or without exactly one category line to move, is skipped.
BulkTake(s, t) ==
    LET q == req[s] IN
    /\ q.op = "bulk" /\ Lockable(t)
    /\ Live(t) /\ txn[t].date > q.lockRead
    /\ q.to # None => Cardinality(CategoryLines(t)) = 1
    /\ req' = [req EXCEPT ![s].held = @ \cup {t}]
    /\ UNCHANGED <<txn, lines, balance, lockDate, recs>>

-----------------------------------------------------------------------------
(* Walking down the chain of automatic reversals *)

\* findLiveReversal waits for the row lock of the reversal and reads it again.
\* updateJournalEntry looks for it, the update of any other body does not.
EditReversals(q) == IF q.kind = "journal_entry" THEN ReversalsFound(q.t) ELSE {}
ReversalOf(q, r) == IF EditReversals(q) = {} THEN r = None ELSE r \in EditReversals(q)

\* The next reversal goes with the one above it: its own guards hold, its row is locked.
TakeAlong(s, cur, r) ==
    /\ Lockable(r) /\ Unchanged(r, cur)
    /\ Open(txn[r].date) /\ ClearedInCompleted(r) = {}
    /\ req' = [req EXCEPT ![s].held = @ \cup {r}, ![s].cur = r]

\* A void, a delete, or the delete of the reversal an edit replaces.
NextReversal(s) ==
    /\ req[s].stage = "reversal" /\ (req[s].op = "edit" => req[s].cur # req[s].t)
    /\ \/ /\ ReversalsFound(req[s].cur) = {}
          /\ req' = [req EXCEPT ![s].stage = "commit"]
       \/ \E r \in ReversalsFound(req[s].cur) : TakeAlong(s, req[s].cur, r)
    /\ UNCHANGED <<txn, lines, balance, lockDate, recs>>

\* The date the reversal of an edited entry shall have.
TargetOn(q, r) == IF q.reverseOn # Keep THEN q.reverseOn
                  ELSE IF r = None THEN None ELSE txn[r].date

\* reversalMatches: the reversal is what the edit would post anyway.
Matches(r, q, target) ==
    /\ target = txn[r].date
    /\ {<<l.acct, l.amt>> : l \in OwnLines(r)} = {<<a, -q.posting[a]>> : a \in DOMAIN q.posting}

\* Mutant: the date an entry moves to is not checked.
EditableAtOldDate(q, target) ==
    /\ Open(txn[q.t].date)
    /\ target # None => target > q.date
    /\ ClearedInCompleted(q.t) # {} => KeepsBalanceSheet(q.t, q.posting, q.date)
\* updateTransaction's checks, run once the reversal is locked.
Editable(q, target) ==
    /\ Open(txn[q.t].date) /\ Open(q.date)
    /\ target # None => target > q.date
    /\ ClearedInCompleted(q.t) # {} => KeepsBalanceSheet(q.t, q.posting, q.date)

\* The first step of an edit: find the reversal, check, and decide whether
\* the reversal stays as it is, goes, or there is none.
CheckEdit(s) ==
    LET q == req[s] IN
    /\ q.stage = "reversal" /\ q.op = "edit" /\ q.cur = q.t
    /\ \E r \in EditReversals(q) \cup {None} :
         LET target  == TargetOn(q, r)
             settled == [q EXCEPT !.reverseOn = target, !.partial = ClearedInCompleted(q.t) # {}]
         IN /\ ReversalOf(q, r) /\ (r # None => Lockable(r))
            /\ Editable(q, target)
            /\ \/ /\ r # None /\ Matches(r, q, target)
                  /\ req' = [req EXCEPT ![s] = [settled EXCEPT !.stage = "commit", !.kept = TRUE,
                                                   !.held = @ \cup {r}]]
               \/ /\ r = None /\ (target # None => Open(target))
                  /\ req' = [req EXCEPT ![s] = [settled EXCEPT !.stage = "commit"]]
               \/ /\ r # None /\ ~Matches(r, q, target)
                  /\ Unchanged(r, q.t)
                  /\ Open(txn[r].date) /\ ClearedInCompleted(r) = {}
                  /\ target # None => Open(target)
                  /\ req' = [req EXCEPT ![s] = [settled EXCEPT !.held = @ \cup {r}, !.cur = r]]
    /\ UNCHANGED <<txn, lines, balance, lockDate, recs>>

-----------------------------------------------------------------------------
(* Commit and rollback *)

\* Mutant: a status the schema's callers do not know.
PostedRowDraft(k, d, orig) == [status |-> "draft", kind |-> k, date |-> d, ver |-> 0,
                               touched |-> FALSE, reverses |-> orig]
PostedRow(k, d, orig) == [status |-> "posted", kind |-> k, date |-> d, ver |-> 0,
                          touched |-> FALSE, reverses |-> orig]

\* The entry and, with reverseOn, its reversal are inserted and both move the balances.
CommitPost(s) ==
    LET q == req[s] IN
    /\ q.op = "post" /\ q.stage = "commit"
    /\ \E t \in Fresh : \E r \in IF q.reverseOn = None THEN {None} ELSE Fresh \ {t} :
         LET new == NewLines(t, 0, q.posting) \cup
                    (IF r = None THEN {} ELSE NewLines(r, 0, Negated(q.posting)))
         IN /\ txn' = [u \in Txns |-> IF u = t THEN PostedRow(q.kind, q.date, None)
                                      ELSE IF u = r THEN PostedRow("journal_entry", q.reverseOn, t)
                                      ELSE txn[u]]
            /\ lines' = lines \cup new
            /\ balance' = Apply(balance, new)
    /\ req' = [req EXCEPT ![s] = Idle]
    /\ UNCHANGED <<lockDate, recs>>

\* The void row and its reversals get reversing lines; nothing is removed.
CommitVoid(s) ==
    LET q == req[s]
        back == Swapped(UNION {LinesOf(t) : t \in q.held})
    IN /\ q.op = "void" /\ q.stage = "commit"
       /\ txn' = [t \in Txns |-> IF t \in q.held THEN [txn[t] EXCEPT !.status = "void", !.touched = TRUE]
                                 ELSE txn[t]]
       /\ lines' = lines \cup back
       /\ balance' = Apply(balance, back)
       /\ req' = [req EXCEPT ![s] = Idle]
       /\ UNCHANGED <<lockDate, recs>>

\* Deleting reverses what is still posted; a void transaction is only marked.
DeleteBack(T) == Swapped(UNION {LinesOf(t) : t \in {u \in T : Live(u)}})
DeleteRow(t) == [txn[t] EXCEPT !.status = "deleted", !.touched = TRUE]

CommitDelete(s) ==
    LET q == req[s]
        back == DeleteBack(q.held)
    IN /\ q.op = "delete" /\ q.stage = "commit"
       /\ txn' = [t \in Txns |-> IF t \in q.held THEN DeleteRow(t) ELSE txn[t]]
       /\ lines' = lines \cup back
       /\ balance' = Apply(balance, back)
       /\ req' = [req EXCEPT ![s] = Idle]
       /\ UNCHANGED <<lockDate, recs>>

\* The lines an edit deletes: all, or the income and expense lines of a
\* reconciled transaction.
Replaced(q) == IF q.partial THEN {l \in OwnLines(q.t) : l.acct \notin BalanceSheet} ELSE LinesOf(q.t)
Replacing(q) ==
    {l \in NewLines(q.t, txn[q.t].ver + 1, q.posting) : q.partial => l.acct \notin BalanceSheet}

\* Mutant: the old balances are backed out with the lines the caller sent.
OldEffectFromInput(q) == Swapped(NewLines(q.t, txn[q.t].ver, q.posting))
OldEffect(q) == Swapped(Replaced(q))

\* Mutant: a reversal moved to a new date leaves the old one posted.
SupersededWhenRemoved(q) == IF q.kept \/ q.reverseOn # None THEN {} ELSE q.held \ {q.t}
\* The reversals an edit deletes.
Superseded(q) == IF q.kept THEN {} ELSE q.held \ {q.t}

\* Old balances reversed, old lines deleted, new lines inserted and applied;
\* the old reversal (with its own) is deleted and a new one posted, unless kept.
CommitEdit(s) ==
    LET q    == req[s]
        gone == Superseded(q)
    IN /\ q.op = "edit" /\ q.stage = "commit"
       /\ \E r \in IF q.reverseOn = None \/ q.kept THEN {None} ELSE Fresh :
            LET new == Replacing(q) \cup DeleteBack(gone) \cup
                       (IF r = None THEN {} ELSE NewLines(r, 0, Negated(q.posting)))
            IN /\ txn' = [u \in Txns |->
                            IF u = q.t THEN [txn[u] EXCEPT !.date = q.date, !.ver = @ + 1, !.touched = TRUE]
                            ELSE IF u \in gone THEN DeleteRow(u)
                            ELSE IF u = r THEN PostedRow("journal_entry", q.reverseOn, q.t)
                            ELSE txn[u]]
               /\ lines' = (lines \ Replaced(q)) \cup new
               /\ balance' = Apply(Apply(balance, OldEffect(q)), new)
       /\ req' = [req EXCEPT ![s] = Idle]
       /\ UNCHANGED <<lockDate, recs>>

\* The lines a bulk edit moves to another category, and where they end.
Recategorized(q) == IF q.to = None THEN {} ELSE UNION {CategoryLines(t) : t \in q.held}
MovedTo(L, a) == {[l EXCEPT !.acct = a] : l \in L}

\* Category lines move in place, with the balances of both accounts; only a
\* change of the payee sets updated_at.
CommitBulk(s) ==
    LET q   == req[s]
        old == Recategorized(q)
        new == MovedTo(old, q.to)
    IN /\ q.op = "bulk"
       /\ txn' = [t \in Txns |-> IF t \in q.held /\ q.to = None THEN [txn[t] EXCEPT !.touched = TRUE]
                                 ELSE txn[t]]
       /\ lines' = (lines \ old) \cup new
       /\ balance' = Apply(Apply(balance, Swapped(old)), new)
       /\ req' = [req EXCEPT ![s] = Idle]
       /\ UNCHANGED <<lockDate, recs>>

\* A refused check, an error or a lost connection: PostgreSQL rolls back.
Rollback(s) ==
    /\ req[s] # Idle
    /\ req' = [req EXCEPT ![s] = Idle]
    /\ UNCHANGED <<txn, lines, balance, lockDate, recs>>

\* updateCompany / PUT /tb/closing-date: the closing date moves either way.
\* The open requests only remember the earliest one they have run under.
SetClosingDate(d) ==
    /\ lockDate' = d
    /\ req' = [s \in Requests |-> IF req[s] # Idle /\ d < req[s].closedAt
                                  THEN [req[s] EXCEPT !.closedAt = d] ELSE req[s]]
    /\ UNCHANGED <<txn, lines, balance, recs>>

-----------------------------------------------------------------------------
NoReconciliation == [status |-> "none", stmtDate |-> 1, beginning |-> 0, ending |-> 0,
                     rows |-> {}, cleared |-> {}, clearedBalance |-> 0]

LedgerInit ==
    /\ txn = [t \in Txns |-> [status |-> "absent", kind |-> None, date |-> 1, ver |-> 0,
                              touched |-> FALSE, reverses |-> None]]
    /\ lines = {}
    /\ balance = [a \in Accounts |-> 0]
    /\ lockDate = 0
    /\ recs = [r \in RecIds |-> NoReconciliation]
    /\ req = [s \in Requests |-> Idle]

LedgerNext ==
    \/ \E s \in Requests :
         \/ \E p \in Postings, k \in Kinds, d \in Dates, ro \in Dates \cup {None} : BeginPost(s, p, k, d, ro)
         \/ \E t \in Txns : BeginVoid(s, t) \/ BeginDelete(s, t)
         \/ \E t \in Txns, p \in Postings, k \in Kinds, d \in Dates, ro \in Dates \cup {None, Keep} :
              BeginEdit(s, t, p, k, d, ro)
         \/ \E a \in Categories \cup {None} : BeginBulk(s, a)
         \/ \E t \in Txns : BulkTake(s, t)
         \/ NextReversal(s) \/ CheckEdit(s)
         \/ CommitPost(s) \/ CommitVoid(s) \/ CommitDelete(s) \/ CommitEdit(s) \/ CommitBulk(s)
         \/ Rollback(s)
    \/ \E d \in ClosingDates : SetClosingDate(d)

LedgerSpec == LedgerInit /\ [][LedgerNext]_<<ledgerVars, recs>>

-----------------------------------------------------------------------------
(* Properties *)

ScreenRow == [op : {"start", "lines", "refresh", "complete", "undo", "header", "cancel"},
              r : RecIds \cup {None}, date : Dates, ending : Int, beginning : Int, mark : SUBSET Line]
RequestRow == [op : {"idle", "post", "void", "delete", "edit", "bulk", "reconcile"},
               stage : {"none", "reversal", "commit"},
               t : Txns \cup {None}, held : SUBSET Txns, cur : Txns \cup {None},
               posting : Postings \cup {None}, kind : Kinds \cup {"journal_entry", None}, date : Dates,
               reverseOn : Dates \cup {None, Keep}, to : Categories \cup {None},
               lockRead : ClosingDates, partial : BOOLEAN, kept : BOOLEAN,
               closedAt : ClosingDates, screen : {None} \cup ScreenRow]

\* Every row has the columns and values the schema gives it (the tables
\* transactions, journal_lines and companies), and so has the open transaction
\* of a request.  BalancesMatchLines says what the accounts hold.
LedgerTypeOK ==
    /\ txn \in [Txns -> Header]
    /\ lines \subseteq Line
    /\ lockDate \in ClosingDates
    /\ req \in [Requests -> RequestRow]

\* The stored balance of every account is the sum of its journal lines: no
\* interleaving of posts, edits, voids and deletes loses or repeats one of the
\* increments updateAccountBalances makes.
BalancesMatchLines == \A a \in Accounts : balance[a] = Net(lines, a)

\* The trial balance is zero: what assertBalanced lets through, and what voids,
\* deletes, edits and reversals write, always has equal debits and credits.
BooksBalance == MapThenSumSet(LAMBDA a : balance[a], Accounts) = 0

\* A void or deleted transaction nets to zero on every account, so its lines
\* are reversed exactly once whatever raced with the void.
NothingLeftOfAVoid ==
    \A t \in Txns : txn[t].status \in {"void", "deleted"} => \A a \in Accounts : Net(LinesOf(t), a) = 0

\* A void or deleted transaction stays one, and none of its lines is added,
\* changed or removed again: a second void, an edit or a delete that was
\* waiting for its row finds it settled.
SettledForGood ==
    [][\A t \in Txns : txn[t].status \in {"void", "deleted"} =>
          /\ txn'[t].status \in {"void", "deleted"}
          /\ LinesOf(t)' = LinesOf(t)]_<<ledgerVars, recs>>

\* The automatic reversal of a journal entry goes when the entry goes: no posted
\* reversal is left behind by a void, a delete or an edit of its original.
NoOrphanReversal ==
    \A r, t \in Txns : Live(r) /\ txn[r].reverses = t /\ txn[t].kind = "journal_entry" => Live(t)

\* However often reverseOn moves, a journal entry has at most one live reversal,
\* the one findLiveReversal (LIMIT 1) finds.
OneLiveReversal ==
    \A t \in Txns : txn[t].kind = "journal_entry" => \A r, q \in LiveReversals(t) : r = q

\* A request takes no other row down with its own but one that still cancels
\* the row it reverses: a reversal that was edited, given another payee or
\* recategorized in place refuses the void, the delete or the edit
\* (assertReversalUnchanged, 409 REVERSAL_EDITED), also when that happened
\* while the request was on its way down the chain.
OnlyMirrorsGoAlong ==
    [][\A s \in Requests : req[s] # Idle /\ req'[s] = Idle =>
          \A r \in Txns \ {req[s].t} : Live(r) /\ ~Live(r)' =>
              ~txn[r].touched /\ Mirrors(r, LinesOf(txn[r].reverses))]_<<ledgerVars, recs>>

\* Rows a request has locked are its own until it commits: each is still
\* posted (a delete may hold a void one), and a request that has reached the
\* end of the chain holds every live reversal of every row it holds, unless it
\* is one that does not look for reversals.  What was checked under the locks
\* is therefore still true when the writes are made.
LocksExclusive == \A s, u \in Requests : s # u => req[s].held \cap req[u].held = {}
LooksForNone(q) == q.op = "bulk" \/ (q.op = "edit" /\ q.kind # "journal_entry")
HeldRowsStand(q) ==
    /\ q.op \in {"idle", "post", "reconcile"} => q.held = {}
    /\ q.op \in {"void", "delete", "edit"} => q.t \in q.held /\ q.cur \in q.held
    /\ q.op \notin {"void", "delete", "edit"} => q.stage # "reversal"
    /\ \A h \in q.held : Live(h) \/ (q.op = "delete" /\ h = q.t /\ txn[h].status = "void")
    /\ q.op = "edit" => txn[q.t].ver < MaxEdits
ChainHeld(q) ==
    /\ q.kept => q.op = "edit" /\ q.stage = "commit"
    /\ LooksForNone(q) => q.op = "bulk" \/ q.held = {q.t}
    /\ ~q.kept /\ ~LooksForNone(q) =>
          \A h \in q.held : \/ q.stage = "reversal" /\ h = q.cur
                            \/ ReversalsFound(h) \subseteq q.held \ {q.t}
LockDiscipline ==
    LocksExclusive /\ \A s \in Requests : HeldRowsStand(req[s]) /\ ChainHeld(req[s])

\* Closing date: a request never adds or removes a journal line dated in the
\* period that stayed closed from its first step to its commit, neither at the
\* old nor at the new date of an edit, nor through a reversal it carries along.
ClosedPeriodFrozen ==
    [][\A s \in Requests : req[s] # Idle /\ req'[s] = Idle =>
          /\ \A l \in lines' \ lines : txn'[l.txn].date > req[s].closedAt
          /\ \A l \in lines \ lines' : txn[l.txn].date > req[s].closedAt]_<<ledgerVars, recs>>
=============================================================================
