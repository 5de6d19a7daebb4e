--------------------------- MODULE Reconciliation ---------------------------
(***************************************************************************)
(* Bank reconciliation (packages/api/src/services/reconciliation.service.ts)*)
(* of one account, running beside the ledger requests of module Ledger.    *)
(*                                                                         *)
(* Every operation on a started reconciliation is one PostgreSQL           *)
(* transaction that first locks its header row; start() reads before it    *)
(* opens its transaction and there is no row to lock.                      *)
(***************************************************************************)
EXTENDS Ledger

CONSTANTS
    Bank,           \* the account being reconciled
    Endings         \* statement ending balances users type

ASSUME ReconciliationConstants ==
    /\ Bank \in BalanceSheet \ Categories /\ Endings \subseteq Int
    /\ None \notin RecIds

recVars == <<ledgerVars, recs>>
books == <<txn, lines, balance, lockDate>>

\* A request at work on a reconciliation: `r` is the header it has locked.
Screen(op, r) == [op |-> op, r |-> r, date |-> 1, ending |-> 0, beginning |-> 0, mark |-> {}]
Working(s, op) == req[s].op = "reconcile" /\ req[s].screen.op = op

InProgress == {r \in RecIds : recs[r].status = "in_progress"}
Completed == {r \in RecIds : recs[r].status = "complete"}

\* ORDER BY statement_date DESC LIMIT 1: any one of the latest.
Latest == {r \in Completed : \A q \in Completed : recs[q].stmtDate <= recs[r].stmtDate}

\* Posted lines of the account up to the statement date that no completed
\* reconciliation has cleared: what start() and refreshLines() list.
Eligible(d) ==
    {l \in lines : /\ l.acct = Bank /\ Live(l.txn) /\ txn[l.txn].date <= d
                   /\ \A r \in Completed : l \notin recs[r].cleared}

\* Amounts are cents, the smallest difference two balances can have here, and
\* complete() refuses a difference above 0.01.
Tolerance == 1
Sum(L) == MapThenSumSet(LAMBDA l : l.amt, L)
Abs(n) == IF n < 0 THEN -n ELSE n

\* The worksheet rows are joined with journal_lines, so the row of a line an
\* edit has deleted no longer counts.
ClearedBalance(rec) == rec.beginning + Sum(rec.cleared \cap lines)

\* Mutant: SELECT without FOR UPDATE.
FreeWithoutForUpdate(r) == r \in RecIds
\* No other request has locked the header row.
Free(r) == \A s \in Requests : req[s].op = "reconcile" => req[s].screen.r # r

\* Take the row lock of r, see it in status `from`, and remember what to do.
Begin(s, r, from, screen) ==
    /\ req[s] = Idle /\ Free(r) /\ recs[r].status = from
    /\ req' = [req EXCEPT ![s] = [Idle EXCEPT !.op = "reconcile", !.screen = screen]]
    /\ UNCHANGED <<books, recs>>

\* Commit the row `rec` and release the lock.
Save(s, r, rec) ==
    /\ recs' = [recs EXCEPT ![r] = rec]
    /\ req' = [req EXCEPT ![s] = Idle]
    /\ UNCHANGED books

-----------------------------------------------------------------------------
(* start(): the reads, then the transaction that inserts *)

StartRead(s, d, e) ==
    /\ req[s] = Idle
    /\ InProgress = {}
    /\ \E b \in IF Completed = {} THEN {0} ELSE {recs[p].ending : p \in Latest} :
         req' = [req EXCEPT ![s] = [Idle EXCEPT !.op = "reconcile", !.screen =
                    [Screen("start", None) EXCEPT !.date = d, !.ending = e, !.beginning = b]]]
    /\ UNCHANGED <<books, recs>>

StartInsert(s) ==
    /\ Working(s, "start")
    /\ \E r \in {q \in RecIds : recs[q].status = "none"} :
         LET q == req[s].screen IN
         Save(s, r, [status |-> "in_progress", stmtDate |-> q.date, beginning |-> q.beginning,
                     ending |-> q.ending, rows |-> Eligible(q.date), cleared |-> {}, clearedBalance |-> 0])

-----------------------------------------------------------------------------
(* Operations on a started reconciliation: lock and check, then commit *)

\* The UPDATE matches only rows of this worksheet, whatever ids the body names.
OnWorksheet(r, S) == recs[r].rows \cap S

\* updateLines: the check boxes as the request leaves them.
BeginUpdateLines(s, r, S) ==
    Begin(s, r, "in_progress", [Screen("lines", r) EXCEPT !.mark = OnWorksheet(r, S)])

\* autoClearStatement: the lines matched to the statement's items are marked too.
BeginAutoClear(s, r, S) ==
    Begin(s, r, "in_progress", [Screen("lines", r) EXCEPT !.mark = recs[r].cleared \cup OnWorksheet(r, S)])

CommitUpdateLines(s) ==
    LET q == req[s].screen IN
    Working(s, "lines") /\ Save(s, q.r, [recs[q.r] EXCEPT !.cleared = q.mark])

\* refreshLines: rows of transactions no longer posted go, new lines come in.
\* The row of a line that an edit deleted stays: it joins nothing.
BeginRefresh(s, r) == Begin(s, r, "in_progress", Screen("refresh", r))

CommitRefresh(s) ==
    LET r    == req[s].screen.r
        gone == {l \in recs[r].rows \cap lines : ~Live(l.txn)}
    IN /\ Working(s, "refresh")
       /\ Save(s, r, [recs[r] EXCEPT !.rows = (@ \ gone) \cup Eligible(recs[r].stmtDate),
                                     !.cleared = @ \ gone])

\* Mutant: complete() trusts the difference the screen shows.
TiesWithoutRecompute(rec) == rec.status = "in_progress"
\* complete(): the cleared balance is recomputed under the lock.
Ties(rec) == Abs(rec.ending - ClearedBalance(rec)) <= Tolerance

BeginComplete(s, r) ==
    /\ Ties(recs[r])
    /\ Begin(s, r, "in_progress", [Screen("complete", r) EXCEPT !.beginning = ClearedBalance(recs[r])])

CommitComplete(s) ==
    LET q == req[s].screen IN
    /\ Working(s, "complete")
    /\ Save(s, q.r, [recs[q.r] EXCEPT !.status = "complete", !.clearedBalance = q.beginning])

\* undo(): only the most recent completed one; every line is unmarked.
BeginUndo(s, r) == r \in Latest /\ Begin(s, r, "complete", Screen("undo", r))

CommitUndo(s) ==
    LET r == req[s].screen.r IN
    Working(s, "undo") /\ Save(s, r, [recs[r] EXCEPT !.status = "in_progress", !.cleared = {}])

\* updateHeader(): a new statement ending balance.
BeginHeader(s, r, e) == Begin(s, r, "in_progress", [Screen("header", r) EXCEPT !.ending = e])

CommitHeader(s) ==
    LET q == req[s].screen IN
    Working(s, "header") /\ Save(s, q.r, [recs[q.r] EXCEPT !.ending = q.ending])

\* cancel(): the worksheet rows and the header are deleted.
BeginCancel(s, r) == Begin(s, r, "in_progress", Screen("cancel", r))

CommitCancel(s) == Working(s, "cancel") /\ Save(s, req[s].screen.r, NoReconciliation)

-----------------------------------------------------------------------------
RecNext ==
    \/ LedgerNext
    \/ \E s \in Requests :
         \/ \E d \in Dates, e \in Endings : StartRead(s, d, e)
         \/ StartInsert(s)
         \/ \E r \in RecIds :
              \/ \E S \in SUBSET {l \in lines : l.acct = Bank} :
                   BeginUpdateLines(s, r, S) \/ BeginAutoClear(s, r, S)
              \/ BeginRefresh(s, r) \/ BeginComplete(s, r) \/ BeginUndo(s, r) \/ BeginCancel(s, r)
              \/ \E e \in Endings : BeginHeader(s, r, e)
         \/ CommitUpdateLines(s) \/ CommitRefresh(s) \/ CommitComplete(s)
         \/ CommitUndo(s) \/ CommitHeader(s) \/ CommitCancel(s)

RecSpec == LedgerInit /\ [][RecNext]_recVars

-----------------------------------------------------------------------------
(* Properties *)

\* A completed reconciliation changes only by being undone: no updateLines,
\* refresh, header edit or cancel that began before it completed lands after.
CompletedIsFrozen ==
    [][\A r \in Completed \cap Completed' : recs'[r] = recs[r]]_recVars

\* The books agree with the statement: what a completed reconciliation has
\* cleared adds up to its ending balance within the tolerance, and to the
\* cleared balance it stored, as long as the ledger still has those lines.
CompletedTiesOut ==
    \A r \in Completed : recs[r].cleared \subseteq lines =>
        /\ recs[r].beginning + Sum(recs[r].cleared) = recs[r].clearedBalance
        /\ Abs(recs[r].ending - recs[r].clearedBalance) <= Tolerance

\* A worksheet never shows a line dated after its statement, whatever edits
\* move transactions to other dates while it is open or completed.
WorksheetWithinStatement ==
    \A r \in RecIds : \A l \in recs[r].rows \cap lines : txn[l.txn].date <= recs[r].stmtDate

Stands(l) == l \in lines /\ Live(l.txn)

=============================================================================
