---------------------------- MODULE Occurrences ----------------------------
(***************************************************************************)
(* One recurring template: its schedule, its occurrences and what it posts *)
(* (services/templates/occurrences.service.ts, templates.service.ts,       *)
(* services/recurring.service.ts).                                         *)
(*                                                                         *)
(* A "replay" template is posted, claimed and advanced in one PostgreSQL   *)
(* transaction under the lock of the schedule row, so each of its          *)
(* operations is one step.  A "legacy" one (invoice, bill) is claimed in a *)
(* first transaction, posted in a second and recorded in a third; a job    *)
(* is between them and can crash there.                                    *)
(*                                                                         *)
(* Dates are the template's dates in order, so the next date of d is d + 1;*)
(* the calendar arithmetic is nextRecurrenceDate's.                        *)
(***************************************************************************)
EXTENDS Naturals, FiniteSets, Sequences

CONSTANTS
    Jobs,       \* runs and requests that may be at work on the template
    Kinds,      \* kinds of a template: subset of {"replay", "legacy"}
    LastDate,   \* bound on the dates
    Modes,      \* modes of a schedule: subset of {"auto", "reminder"}
    Counts,     \* how many times a schedule may be told to repeat; None: no limit
    Ends,       \* end dates; LastDate + 1 stands for none
    MaxEdits,   \* bound on the owner's changes of the schedule
    MaxOwn,     \* bound on transactions that belong to no occurrence
    LostAnswers,    \* whether the answer to a COMMIT may be lost
    None

Dates == 1 .. LastDate

ASSUME OccurrenceConstants ==
    /\ Kinds \subseteq {"replay", "legacy"} /\ LastDate \in Nat \ {0}
    /\ Modes \subseteq {"auto", "reminder"} /\ Counts \subseteq (Nat \ {0}) \cup {None}
    /\ Ends \subseteq 1 .. LastDate + 1 /\ LostAnswers \in BOOLEAN
    /\ None \notin Nat /\ MaxEdits \in Nat /\ MaxOwn \in Nat

VARIABLES
    sched,      \* the row of recurring_schedules, and the kind of its template
    occ,        \* template_occurrences by date; status "none": no row
    txns,       \* transactions in the order they were posted
    job,        \* per job, the legacy posting it is in the middle of
    today,
    edits       \* changes the owner has made

vars == <<sched, occ, txns, job, today, edits>>
tables == <<sched, occ, txns>>

NoRow == [status |-> "none", txn |-> 0, stale |-> FALSE]
Idle == [stage |-> "idle", mode |-> "auto", date |-> 1, target |-> "none",
         moved |-> FALSE, left |-> None, live |-> FALSE, txn |-> 0]

\* scheduleLive
Live == sched.active /\ ~sched.archived

\* Mutant: the schedule stops one date too late.
AdvancedStopsLate(consumed) ==
    LET left == IF consumed /\ sched.left \notin {None, 0} THEN sched.left - 1 ELSE sched.left
    IN [sched EXCEPT !.next = @ + 1, !.left = left,
                     !.active = ~(sched.left = 0 \/ sched.next > sched.end)]
\* advance(): past the next date; the last date or the end date stops the schedule.
Advanced(consumed) ==
    LET left == IF consumed /\ sched.left \notin {None, 0} THEN sched.left - 1 ELSE sched.left
    IN [sched EXCEPT !.next = @ + 1, !.left = left,
                     !.active = ~(left = 0 \/ sched.next + 1 > sched.end)]

Marked(s) == [s EXCEPT !.posted = TRUE]

\* Mutant: the link is left out.
RowWithoutLink(d, status, i) == [occ EXCEPT ![d] = [status |-> status, txn |-> 0, stale |-> FALSE]]
\* The row of date d becomes `status`, with the transaction of index i (0: none).
Row(d, status, i) == [occ EXCEPT ![d] = [status |-> status, txn |-> i, stale |-> FALSE]]

Posting(d, origin) == Append(txns, [date |-> d, origin |-> origin])
Of(d, origins) == {i \in DOMAIN txns : txns[i].date = d /\ txns[i].origin \in origins}
\* Copies the program knows of, and those whose answer it never got.
Copies(d) == Of(d, {"copy"})
LostCopies(d) == Of(d, {"lost"})
Own == {i \in DOMAIN txns : txns[i].origin \in {"loose", "form"}}

\* Mutant: strictly before.
DueBefore(asOf) == Live /\ sched.mode = "auto" /\ sched.next < asOf
\* A run acts for a date not later than tomorrow.
DueBy(asOf) == Live /\ sched.mode = "auto" /\ sched.next <= asOf
Spent == sched.left = 0 \/ sched.next > sched.end
Taken(d) == occ[d].status # "none"

-----------------------------------------------------------------------------
(* The catch-up run: autoStep, and the first transaction of a legacy post *)

Stop(asOf) ==
    /\ DueBy(asOf) /\ Spent
    /\ sched' = [sched EXCEPT !.active = FALSE]
    /\ UNCHANGED <<occ, txns, job, today, edits>>

\* The owner moved the next date back over a date already handled.
Already(asOf) ==
    /\ DueBy(asOf) /\ ~Spent /\ Taken(sched.next)
    /\ sched' = Advanced(FALSE)
    /\ UNCHANGED <<occ, txns, job, today, edits>>

\* The owner's permission, the closed period, an account, the source...
AutoSkip(asOf) ==
    /\ DueBy(asOf) /\ ~Spent /\ ~Taken(sched.next)
    /\ occ' = Row(sched.next, "skipped", 0)
    /\ sched' = Advanced(TRUE)
    /\ UNCHANGED <<txns, job, today, edits>>

AutoPost(asOf) ==
    /\ sched.kind = "replay" /\ DueBy(asOf) /\ ~Spent /\ ~Taken(sched.next)
    /\ txns' = Posting(sched.next, "copy")
    /\ occ' = Row(sched.next, "posted", Len(txns) + 1)
    /\ sched' = Marked(Advanced(TRUE))
    /\ UNCHANGED <<job, today, edits>>

ClaimAuto(j, asOf) ==
    /\ sched.kind = "legacy" /\ job[j] = Idle
    /\ DueBy(asOf) /\ ~Spent /\ ~Taken(sched.next)
    /\ occ' = Row(sched.next, "claiming", 0)
    /\ sched' = Advanced(TRUE)
    /\ job' = [job EXCEPT ![j] = [Idle EXCEPT !.stage = "post", !.date = sched.next,
                   !.target = "insert", !.moved = TRUE, !.left = sched.left, !.live = TRUE]]
    /\ UNCHANGED <<txns, today, edits>>

-----------------------------------------------------------------------------
(* "Enter now" *)

\* Mutant: only a live schedule's next date is checked for a row.
TargetUnchecked(d) ==
    IF occ[d].status = "skipped" THEN "from_skipped"
    ELSE IF Live THEN (IF d = sched.next THEN "insert" ELSE "refused") ELSE "none"
\* manualDate: an open skipped date, the next date, or without a live schedule any date.
Target(d) ==
    IF Taken(d) THEN (IF occ[d].status = "skipped" THEN "from_skipped" ELSE "refused")
    ELSE IF Live THEN (IF d = sched.next THEN "insert" ELSE "refused") ELSE "none"

\* Without an occurrence the posting belongs to no date of the template.
Origin(target) == IF target = "none" THEN "loose" ELSE "copy"
Room(target) == target = "none" => Cardinality(Own) < MaxOwn

Enter(d) ==
    LET target == Target(d) IN
    /\ sched.kind = "replay" /\ target # "refused" /\ Room(target)
    /\ txns' = Posting(d, Origin(target))
    /\ occ' = IF target = "none" THEN occ ELSE Row(d, "entered", Len(txns) + 1)
    /\ sched' = IF target = "insert" THEN Marked(Advanced(TRUE)) ELSE sched
    /\ UNCHANGED <<job, today, edits>>

ClaimManual(j, d) ==
    LET target == Target(d) IN
    /\ sched.kind = "legacy" /\ job[j] = Idle /\ target # "refused" /\ Room(target)
    /\ occ' = IF target = "none" THEN occ ELSE Row(d, "claiming", 0)
    /\ sched' = IF target = "insert" THEN Advanced(TRUE) ELSE sched
    /\ job' = [job EXCEPT ![j] = [Idle EXCEPT !.stage = "post", !.mode = "manual", !.date = d,
                   !.target = target, !.moved = target = "insert", !.left = sched.left, !.live = Live]]
    /\ UNCHANGED <<txns, today, edits>>

-----------------------------------------------------------------------------
(* A legacy posting: the clone, then the record or the release *)

Work(j, from, to) == job[j].stage = from /\ job' = [job EXCEPT ![j] = to]

Clone(j) ==
    LET q == job[j] IN
    /\ Room(q.target)
    /\ Work(j, "post", [q EXCEPT !.stage = "record", !.txn = Len(txns) + 1])
    /\ txns' = Posting(q.date, Origin(q.target))
    /\ UNCHANGED <<sched, occ, today, edits>>

Refused(j) == Work(j, "post", [job[j] EXCEPT !.stage = "release"]) /\ UNCHANGED <<tables, today, edits>>

\* The copy commits and the connection breaks before the answer: at most
\* once for a date here, which bounds the copies.
LostAnswer(j) ==
    /\ LostAnswers /\ LostCopies(job[j].date) = {}
    /\ Work(j, "post", [job[j] EXCEPT !.stage = "release"])
    /\ txns' = Posting(job[j].date, "lost")
    /\ UNCHANGED <<sched, occ, today, edits>>

\* The claim goes back to what it was.
Released(q) ==
    CASE q.target = "from_skipped" -> [occ EXCEPT ![q.date].status = "skipped"]
      [] q.target = "insert"       -> [occ EXCEPT ![q.date] = IF @.status = "claiming" THEN NoRow ELSE @]
      [] q.target = "none"         -> occ

Release(j) ==
    LET q == job[j] IN
    /\ Work(j, "release", Idle)
    /\ occ' = Released(q)
    /\ sched' = IF q.moved /\ sched.next = q.date + 1
                THEN [sched EXCEPT !.next = q.date, !.left = q.left, !.active = TRUE]
                ELSE sched
    /\ UNCHANGED <<txns, today, edits>>

Record(j) ==
    LET q == job[j] IN
    /\ Work(j, "record", Idle)
    /\ occ' = IF q.target = "none" THEN occ
              ELSE Row(q.date, IF q.mode = "auto" THEN "posted" ELSE "entered", q.txn)
    /\ sched' = IF q.live /\ q.target # "none" THEN Marked(sched) ELSE sched
    /\ UNCHANGED <<txns, today, edits>>

\* The process dies; what it had committed stays.
Crash(j) == job[j] # Idle /\ job' = [job EXCEPT ![j] = Idle] /\ UNCHANGED <<tables, today, edits>>

\* CLAIM_STALE_MINUTES pass.  A job that is still alive is done by then.
Stale(d) ==
    /\ occ[d].status = "claiming" /\ ~occ[d].stale
    /\ \A j \in Jobs : job[j] = Idle \/ job[j].target = "none" \/ job[j].date # d
    /\ occ' = [occ EXCEPT ![d].stale = TRUE]
    /\ UNCHANGED <<sched, txns, job, today, edits>>

-----------------------------------------------------------------------------
(* The owner: skip, save through the form and resolve, change the schedule *)

\* Mutant: any open claim is as good as one a crash left behind.
OpenForOwnerClaims(d) == occ[d].status \in {"skipped", "claiming"}
\* A skipped date, or a claim a crash left behind (claimIsStale).
OpenForOwner(d) == occ[d].status = "skipped" \/ (occ[d].status = "claiming" /\ occ[d].stale)

\* Mutant: any date moves the schedule on.
SettleAnyDate(d, status, i, after) ==
    /\ occ' = Row(d, status, i)
    /\ \/ OpenForOwner(d) /\ UNCHANGED sched
       \/ ~Taken(d) /\ Live /\ sched' = after
    /\ UNCHANGED <<txns, job, today, edits>>
\* What skip and resolve share: an open date, or the next date of a live schedule.
Settle(d, status, i, after) ==
    /\ occ' = Row(d, status, i)
    /\ \/ OpenForOwner(d) /\ UNCHANGED sched
       \/ ~Taken(d) /\ Live /\ d = sched.next /\ sched' = after
    /\ UNCHANGED <<txns, job, today, edits>>

Dismiss(d) == Settle(d, "dismissed", occ[d].txn, Advanced(TRUE))

Resolve(d, i) ==
    /\ txns[i].date = d /\ \A e \in Dates : occ[e].txn # i
    /\ Settle(d, "entered", i, Marked(Advanced(TRUE)))

SaveForm(d) ==
    /\ Cardinality(Own) < MaxOwn
    /\ txns' = Posting(d, "form")
    /\ UNCHANGED <<sched, occ, job, today, edits>>

Edit(s) ==
    /\ edits < MaxEdits /\ edits' = edits + 1
    /\ sched' = s
    /\ UNCHANGED <<occ, txns, job, today>>

\* writeSchedule
SetSchedule(mode, next, left, end) ==
    /\ next <= end
    /\ Edit([sched EXCEPT !.mode = mode, !.next = next, !.left = left, !.end = end,
                          !.active = TRUE, !.archived = FALSE])
RemoveSchedule == ~sched.archived /\ Edit([sched EXCEPT !.active = FALSE, !.archived = TRUE])

\* recurring.service: update, deactivate, archive, unarchive
UpdateSchedule(mode, start, end) ==
    Edit([sched EXCEPT !.mode = mode, !.end = end, !.next = IF sched.posted THEN @ ELSE start])
Deactivate == Edit([sched EXCEPT !.active = FALSE])
Archive == ~sched.active /\ Edit([sched EXCEPT !.archived = TRUE])
Unarchive == Edit([sched EXCEPT !.archived = FALSE])

Tomorrow ==
    /\ today < LastDate - 1 /\ today' = today + 1
    /\ UNCHANGED <<tables, job, edits>>

-----------------------------------------------------------------------------
Init ==
    /\ \E kind \in Kinds, mode \in Modes, left \in Counts, end \in Ends :
         sched = [kind |-> kind, active |-> TRUE, archived |-> FALSE, mode |-> mode, next |-> 1,
                  left |-> left, end |-> end, posted |-> FALSE]
    /\ occ = [d \in Dates |-> NoRow]
    /\ txns = <<>>
    /\ job = [j \in Jobs |-> Idle]
    /\ today = 0
    /\ edits = 0

Run(asOf) == Stop(asOf) \/ Already(asOf) \/ AutoSkip(asOf) \/ AutoPost(asOf)

LegacyStep(j) ==
    \/ \E asOf \in {today, today + 1} : ClaimAuto(j, asOf)
    \/ \E d \in Dates : ClaimManual(j, d)
    \/ Clone(j) \/ Refused(j) \/ LostAnswer(j) \/ Release(j) \/ Record(j) \/ Crash(j)

Owner ==
    \/ \E d \in Dates : Enter(d) \/ Dismiss(d) \/ SaveForm(d) \/ \E i \in DOMAIN txns : Resolve(d, i)
    \/ \E mode \in Modes, next \in Dates, left \in Counts, end \in Ends : SetSchedule(mode, next, left, end)
    \/ \E mode \in Modes, start \in Dates, end \in Ends : UpdateSchedule(mode, start, end)
    \/ RemoveSchedule \/ Deactivate \/ Archive \/ Unarchive

Next ==
    \/ \E asOf \in {today, today + 1} : Run(asOf)
    \/ \E j \in Jobs : LegacyStep(j)
    \/ Owner
    \/ Tomorrow \/ \E d \in Dates : Stale(d)

Spec == Init /\ [][Next]_vars

\* The hourly tick runs for the date of the day, and a posting that fails for
\* an internal reason is tried again by the next tick.
FairSpec == Spec /\ WF_vars(Run(today))

-----------------------------------------------------------------------------
(* Properties *)

\* The columns of the schedule, the occurrences and the transactions; a row
\* is linked with a transaction of its own date, an open one with none.
OccTypeOK ==
    /\ sched \in [kind : Kinds, active : BOOLEAN, archived : BOOLEAN, mode : Modes, next : 1 .. LastDate + 1,
                  left : Nat \cup {None}, end : Ends, posted : BOOLEAN]
    /\ occ \in [Dates -> [status : {"none", "claiming", "skipped", "dismissed", "entered", "posted"},
                          txn : 0 .. Len(txns), stale : BOOLEAN]]
    /\ txns \in Seq([date : Dates, origin : {"copy", "lost", "loose", "form"}])
    /\ \A d \in Dates :
         IF occ[d].status \in {"entered", "posted"}
         THEN occ[d].txn \in DOMAIN txns /\ txns[occ[d].txn].date = d
         ELSE occ[d].txn = 0

Fate(d) == CASE occ[d].status = "none"     -> "open"
             [] occ[d].status = "claiming" -> "held"
             [] occ[d].status = "skipped"  -> "skipped"
             [] OTHER                      -> "settled"

Promise == INSTANCE ExactlyOnce WITH
    fate <- [d \in Dates |-> Fate(d)], copies <- [d \in Dates |-> Cardinality(Copies(d))]

\* Through runs, requests, crashes between the transactions of a legacy post
\* and changes of the schedule that move the next date back, each date is
\* posted at most once, a settled date stays settled, and a date is let go
\* of only if nothing was posted for it (that the program got an answer for).
KeepsExactlyOnce == Promise!Spec

\* The code's own step never moves the schedule past a date that has no row.
NeverPassesAnOpenDate ==
    [][edits' = edits => \A d \in sched.next .. sched'.next - 1 : occ'[d].status # "none"]_vars

\* No date before the next one is without a row (of a template posted in one
\* transaction, whose schedule its owner has not changed): none is lost,
\* whatever the runs and refusals.
ReplayNothingLost ==
    (sched.kind = "replay" /\ edits = 0) => \A d \in 1 .. sched.next - 1 : Taken(d)

\* The remaining count and the dates handled add up to the count the owner
\* asked for (of a schedule its owner has not changed and a template posted
\* in one transaction).
CountKept ==
    (sched.kind = "replay" /\ edits = 0 /\ sched.left # None) =>
        sched.left + Cardinality({d \in Dates : Taken(d)}) \in Counts

Due(d) == Live /\ sched.mode = "auto" /\ d \in sched.next .. today

\* A date that is due is handled, unless the schedule ends first or its owner
\* moves it (liveness, of a template posted in one transaction).
DueIsHandled == \A d \in Dates : (sched.kind = "replay" /\ Due(d)) ~> (Taken(d) \/ ~Due(d))
=============================================================================
