------------------------ MODULE OccurrencesProofs ------------------------
(***************************************************************************)
(* The recurring templates keep their promise for any number of jobs,      *)
(* dates, changes by the owner, crashes and lost answers (module           *)
(* Occurrences), and the abstract specification ExactlyOnce is             *)
(* implemented step by step.                                               *)
(*                                                                         *)
(* What makes the promise inductive is who holds a date.  A job in the     *)
(* middle of a legacy posting holds its date's row alone: the row says     *)
(* "claiming", is not stale, and nobody else's operation accepts such a    *)
(* row.  A date that may still be taken, because its row is missing or     *)
(* skipped or because a job holds it before its clone or after a refusal,  *)
(* has no copy.  A template posted in one transaction has no such job, so  *)
(* while its owner leaves the schedule alone the dates taken are exactly   *)
(* those before the next one.                                              *)
(***************************************************************************)
EXTENDS Occurrences, FiniteSetTheorems, TLAPS

Status == {"none", "claiming", "skipped", "dismissed", "entered", "posted"}
Origins == {"copy", "lost", "loose", "form"}
TxnRow == [date : Dates, origin : Origins]
OccRow(n) == [status : Status, txn : 0 .. n, stale : BOOLEAN]

SchedRow == [kind : Kinds, active : BOOLEAN, archived : BOOLEAN, mode : Modes, next : 1 .. LastDate + 1,
             left : Nat \cup {None}, end : Ends, posted : BOOLEAN]

JobRow == [stage : {"idle", "post", "record", "release"}, mode : {"auto", "manual"}, date : Dates,
           target : {"none", "insert", "from_skipped"}, moved : BOOLEAN, left : Nat \cup {None},
           live : BOOLEAN, txn : Nat]

\* A row in status st may be linked with index i.
Linked(d, st, i) == IF st \in {"entered", "posted"} THEN i \in DOMAIN txns /\ txns[i].date = d ELSE i = 0

\* A job is in the middle of posting for an occurrence of its date.
Holds(j, d) == job[j].target # "none" /\ job[j].date = d

\* The row of a held date is a claim that is not stale.  A job that has
\* cloned knows a transaction of its date; one that has not, or that was
\* refused, has left no copy.
JobOK(j) ==
    /\ job[j].stage = "idle" => job[j].target = "none"
    /\ job[j].stage # "idle" => sched.kind = "legacy"
    /\ job[j].stage = "record" =>
         job[j].txn \in DOMAIN txns /\ txns[job[j].txn].date = job[j].date
    /\ job[j].target # "none" =>
         /\ occ[job[j].date].status = "claiming" /\ ~occ[job[j].date].stale
         /\ job[j].stage # "record" => Copies(job[j].date) = {}

\* A date is held by one job.
HeldByOne == \A d \in Dates : \A j, k \in Jobs : Holds(j, d) /\ Holds(k, d) => j = k

JobsHold == job \in [Jobs -> JobRow] /\ (\A j \in Jobs : JobOK(j)) /\ HeldByOne

\* Nothing has been posted for a date that can still be taken.
OpenHasNoCopy == \A d \in Dates : occ[d].status \in {"none", "skipped"} => Copies(d) = {}

Core == OccTypeOK /\ JobsHold /\ OpenHasNoCopy

\* A template posted in one transaction, its schedule as its owner first set it.
Untouched == sched.kind = "replay" /\ edits = 0

\* The dates taken are those before the next one, and the count is what is left.
InOrder ==
    Untouched =>
        /\ \A d \in Dates : Taken(d) <=> d < sched.next
        /\ sched.active => sched.left # 0
        /\ sched.left # None => sched.left + (sched.next - 1) \in Counts

Clock == today \in 0 .. LastDate - 1 /\ edits \in Nat

OccInv == Core /\ Clock /\ InOrder

\* A schedule one date further on.
OneOn(s) ==
    /\ s \in SchedRow /\ s.kind = sched.kind /\ s.next = sched.next + 1
    /\ sched.left = None => s.left = None
    /\ sched.left \in Nat \ {0} => s.left \in Nat /\ s.left + 1 = sched.left
    /\ s.active => s.left # 0

-----------------------------------------------------------------------------
(* What the operators of the model do *)

LEMMA TypeParts ==
    OccTypeOK <=>
        /\ sched \in SchedRow
        /\ occ \in [Dates -> OccRow(Len(txns))]
        /\ txns \in Seq(TxnRow)
        /\ \A d \in Dates : Linked(d, occ[d].status, occ[d].txn)
BY DEF OccTypeOK, SchedRow, OccRow, Status, TxnRow, Origins, Linked

LEMMA TypePartsNext ==
    OccTypeOK' <=>
        /\ sched' \in SchedRow
        /\ occ' \in [Dates -> OccRow(Len(txns'))]
        /\ txns' \in Seq(TxnRow)
        /\ \A d \in Dates : Linked(d, occ[d].status, occ[d].txn)'
BY DEF OccTypeOK, SchedRow, OccRow, Status, TxnRow, Origins, Linked

\* advance() and the mark of a posting keep the columns typed.
LEMMA AdvancedIsOneOn ==
    ASSUME OccTypeOK, sched.next \in Dates
    PROVE  OneOn(Advanced(TRUE)) /\ OneOn(Marked(Advanced(TRUE)))
<1> DEFINE left == IF sched.left \notin {None, 0} THEN sched.left - 1 ELSE sched.left
<1>1. sched \in SchedRow
  BY TypeParts
<1>2. left \in Nat \cup {None}
  BY <1>1, OccurrenceConstants DEF SchedRow
<1>3. sched.next + 1 \in 1 .. LastDate + 1
  BY OccurrenceConstants DEF Dates
<1>4. Advanced(TRUE) = [sched EXCEPT !.next = sched.next + 1, !.left = left,
                                      !.active = ~(left = 0 \/ sched.next + 1 > sched.end)]
  BY <1>1 DEF Advanced, SchedRow
<1>5. /\ sched.left = None => left = None
      /\ sched.left \in Nat \ {0} => left \in Nat /\ left + 1 = sched.left
  BY OccurrenceConstants
<1> HIDE DEF left
<1>6. PICK act \in BOOLEAN : act = ~(left = 0 \/ sched.next + 1 > sched.end)
  OBVIOUS
<1>7. PICK l \in Nat \cup {None} : l = left
  BY <1>2
<1>8. PICK n \in 1 .. LastDate + 1 : n = sched.next + 1
  BY <1>3
<1>9. act => l # 0
  BY <1>6, <1>7
<1>10. PICK row \in SchedRow : row = sched
  BY <1>1
<1>11. PICK one : one = [row EXCEPT !.next = n, !.left = l, !.active = act]
  OBVIOUS
<1>12. Advanced(TRUE) = one
  BY <1>4, <1>6, <1>7, <1>8, <1>10, <1>11
<1>13. one \in SchedRow /\ one.kind = row.kind /\ one.next = n /\ one.left = l /\ one.active = act
  BY <1>11 DEF SchedRow
<1>14. PICK two : two = [one EXCEPT !.posted = TRUE]
  OBVIOUS
<1>15. Marked(Advanced(TRUE)) = two
  BY <1>12, <1>14 DEF Marked
<1>16. two \in SchedRow /\ two.kind = row.kind /\ two.next = n /\ two.left = l /\ two.active = act
  BY <1>13, <1>14 DEF SchedRow
<1>17. OneOn(one)
  BY <1>5, <1>7, <1>8, <1>9, <1>10, <1>13 DEF OneOn
<1>18. OneOn(two)
  BY <1>5, <1>7, <1>8, <1>9, <1>10, <1>16 DEF OneOn
<1> QED
  BY <1>12, <1>15, <1>17, <1>18

\* advance() past a date already handled, which leaves the count alone.
LEMMA AdvancedPast ==
    ASSUME OccTypeOK, sched.next \in Dates
    PROVE  /\ Advanced(FALSE) \in SchedRow /\ Advanced(FALSE).kind = sched.kind
           /\ Advanced(FALSE).next = sched.next + 1
<1>1. sched \in SchedRow
  BY TypeParts
<1>2. sched.next + 1 \in 1 .. LastDate + 1
  BY OccurrenceConstants DEF Dates
<1>3. Advanced(FALSE) = [sched EXCEPT !.next = sched.next + 1, !.left = sched.left,
                                       !.active = ~(sched.left = 0 \/ sched.next + 1 > sched.end)]
  BY <1>1 DEF Advanced, SchedRow
<1> QED
  BY <1>1, <1>2, <1>3 DEF SchedRow

LEMMA MarkedType == sched \in SchedRow => Marked(sched) \in SchedRow /\ Marked(sched).kind = sched.kind
                                          /\ Marked(sched).next = sched.next
BY DEF Marked, SchedRow

\* A row of date d is written, and no other.
LEMMA RowWritten ==
    ASSUME occ \in [Dates -> OccRow(Len(txns))], NEW d \in Dates, NEW st, NEW i, occ' = Row(d, st, i)
    PROVE  /\ \A e \in Dates : e # d => occ'[e] = occ[e]
           /\ occ'[d] = [status |-> st, txn |-> i, stale |-> FALSE]
           /\ occ'[d].status = st /\ occ'[d].txn = i /\ ~occ'[d].stale
BY DEF Row, OccRow

\* A transaction is appended: the ones there stand.
LEMMA Posted ==
    ASSUME txns \in Seq(TxnRow), NEW d \in Dates, NEW o \in Origins, txns' = Posting(d, o)
    PROVE  /\ txns' \in Seq(TxnRow) /\ Len(txns) \in Nat /\ Len(txns') = Len(txns) + 1
           /\ Len(txns) + 1 \in DOMAIN txns'
           /\ txns'[Len(txns) + 1] = [date |-> d, origin |-> o]
           /\ \A i \in DOMAIN txns : i \in DOMAIN txns' /\ txns'[i] = txns[i]
           /\ \A i \in DOMAIN txns' : i \in DOMAIN txns \/ i = Len(txns) + 1
           /\ Len(txns) + 1 \notin DOMAIN txns
<1>1. [date |-> d, origin |-> o] \in TxnRow
  BY DEF TxnRow
<1> QED
  BY <1>1 DEF Posting

LEMMA CopiesAfter ==
    ASSUME txns \in Seq(TxnRow), NEW d \in Dates, NEW o \in Origins, txns' = Posting(d, o), NEW e \in Dates
    PROVE  Copies(e)' = IF e = d /\ o = "copy" THEN Copies(e) \cup {Len(txns) + 1} ELSE Copies(e)
<1>1. PICK n : n = Len(txns) + 1
  OBVIOUS
<1>2. /\ \A i \in DOMAIN txns : i \in DOMAIN txns' /\ txns'[i] = txns[i]
      /\ \A i \in DOMAIN txns' : i \in DOMAIN txns \/ i = n
      /\ n \in DOMAIN txns' /\ n \notin DOMAIN txns
      /\ txns'[n].date = d /\ txns'[n].origin = o
  <2>1. /\ Len(txns) + 1 \in DOMAIN txns'
        /\ txns'[Len(txns) + 1] = [date |-> d, origin |-> o]
        /\ \A i \in DOMAIN txns : i \in DOMAIN txns' /\ txns'[i] = txns[i]
        /\ \A i \in DOMAIN txns' : i \in DOMAIN txns \/ i = Len(txns) + 1
        /\ Len(txns) + 1 \notin DOMAIN txns
    BY Posted
  <2> QED
    BY <2>1, <1>1
<1>3. Copies(e)' = {i \in DOMAIN txns' : txns'[i].date = e /\ txns'[i].origin = "copy"}
  BY DEF Copies, Of
<1>4. Copies(e) = {i \in DOMAIN txns : txns[i].date = e /\ txns[i].origin = "copy"}
  BY DEF Copies, Of
<1>5. CASE e = d /\ o = "copy"
  BY <1>1, <1>2, <1>3, <1>4, <1>5
<1>6. CASE ~(e = d /\ o = "copy")
  BY <1>1, <1>2, <1>3, <1>4, <1>6
<1> QED
  BY <1>5, <1>6

LEMMA CopiesSame == ASSUME txns' = txns PROVE \A e : Copies(e)' = Copies(e)
BY DEF Copies, Of

LEMMA IdleRow == Idle \in JobRow
BY OccurrenceConstants DEF Idle, JobRow, Dates

\* A job that is not at work holds nothing.
LEMMA HeldRowIsAClaim ==
    ASSUME Core, NEW j \in Jobs, NEW d \in Dates, Holds(j, d)
    PROVE  /\ occ[d].status = "claiming" /\ ~occ[d].stale /\ sched.kind = "legacy"
           /\ job[j].stage # "record" => Copies(d) = {}
BY DEF Core, JobsHold, JobOK, Holds

-----------------------------------------------------------------------------
(* Every step keeps the typing, who holds a date, and that an open one has  *)
(* no copy                                                                   *)

SchedTyped == sched' \in SchedRow /\ sched'.kind = sched.kind

\* The schedule's own changes.
LEMMA SchedStep ==
    ASSUME Core, SchedTyped, UNCHANGED <<occ, txns, job>>
    PROVE  Core'
<1>1. OccTypeOK'
  BY TypeParts, TypePartsNext DEF Core, SchedTyped, Linked
<1>2. \A d \in Dates : Copies(d)' = Copies(d)
  BY CopiesSame
<1>3. OpenHasNoCopy'
  BY <1>2 DEF Core, OpenHasNoCopy
<1>4. \A j \in Jobs : job[j].date \in Dates
  BY DEF Core, JobsHold, JobRow
<1>5. JobsHold'
  BY <1>2, <1>4 DEF Core, JobsHold, JobOK, HeldByOne, Holds, SchedTyped
<1> QED
  BY <1>1, <1>3, <1>5 DEF Core

\* A row is written and nothing is posted.
LEMMA RowTables ==
    ASSUME Core, SchedTyped, NEW d \in Dates, NEW st \in Status, NEW i \in 0 .. Len(txns),
           Linked(d, st, i), st \in {"none", "skipped"} => Copies(d) = {},
           occ' = Row(d, st, i), txns' = txns
    PROVE  OccTypeOK' /\ OpenHasNoCopy'
<1>1. /\ sched \in SchedRow /\ txns \in Seq(TxnRow) /\ occ \in [Dates -> OccRow(Len(txns))]
      /\ \A e \in Dates : Linked(e, occ[e].status, occ[e].txn)
  BY TypeParts DEF Core
<1>2. /\ \A e \in Dates : e # d => occ'[e] = occ[e]
      /\ occ'[d].status = st /\ occ'[d].txn = i
  BY <1>1, RowWritten
<1>3. OccTypeOK'
  <2>1. occ' \in [Dates -> OccRow(Len(txns'))]
    BY <1>1 DEF Row, OccRow
  <2>2. \A e \in Dates : Linked(e, occ[e].status, occ[e].txn)'
    BY <1>1, <1>2 DEF Linked
  <2> QED
    BY <1>1, <2>1, <2>2, TypePartsNext DEF SchedTyped
<1>4. \A e \in Dates : Copies(e)' = Copies(e)
  BY CopiesSame
<1>5. OpenHasNoCopy'
  BY <1>2, <1>4 DEF Core, OpenHasNoCopy
<1> QED
  BY <1>3, <1>5

\* The same, of a row nobody holds.
LEMMA RowStep ==
    ASSUME Core, SchedTyped, NEW d \in Dates, NEW st \in Status, NEW i \in 0 .. Len(txns),
           Linked(d, st, i), st \in {"none", "skipped"} => Copies(d) = {},
           \A j \in Jobs : ~Holds(j, d),
           occ' = Row(d, st, i), UNCHANGED <<txns, job>>
    PROVE  Core'
<1>1. occ \in [Dates -> OccRow(Len(txns))]
  BY TypeParts DEF Core
<1>2. \A e \in Dates : e # d => occ'[e] = occ[e]
  BY <1>1, RowWritten
<1>3. OccTypeOK' /\ OpenHasNoCopy'
  BY RowTables
<1>4. \A e \in Dates : Copies(e)' = Copies(e)
  BY CopiesSame
<1>5. job' \in [Jobs -> JobRow] /\ HeldByOne'
  BY DEF Core, JobsHold, HeldByOne, Holds
<1>6. ASSUME NEW j \in Jobs PROVE JobOK(j)'
  <2>1. job[j].date \in Dates /\ JobOK(j) /\ ~Holds(j, d)
    BY DEF Core, JobsHold, JobRow
  <2> QED
    BY <2>1, <1>2, <1>4 DEF JobOK, Holds, SchedTyped
<1> QED
  BY <1>3, <1>5, <1>6 DEF Core, JobsHold

\* A transaction is appended; the rows stand.
LEMMA PostTables ==
    ASSUME Core, SchedTyped, NEW d \in Dates, NEW o \in Origins, txns' = Posting(d, o), occ' = occ,
           o = "copy" => occ[d].status = "claiming"
    PROVE  OccTypeOK' /\ OpenHasNoCopy'
<1>1. /\ sched \in SchedRow /\ txns \in Seq(TxnRow) /\ occ \in [Dates -> OccRow(Len(txns))]
      /\ \A e \in Dates : Linked(e, occ[e].status, occ[e].txn)
  BY TypeParts DEF Core
<1>2. /\ txns' \in Seq(TxnRow) /\ Len(txns) \in Nat /\ Len(txns') = Len(txns) + 1
      /\ Len(txns) + 1 \in DOMAIN txns'
      /\ txns'[Len(txns) + 1] = [date |-> d, origin |-> o]
      /\ \A i \in DOMAIN txns : i \in DOMAIN txns' /\ txns'[i] = txns[i]
  BY <1>1, Posted
<1>3. \A e \in Dates : Copies(e)' = IF e = d /\ o = "copy" THEN Copies(e) \cup {Len(txns) + 1} ELSE Copies(e)
  BY <1>1, CopiesAfter
<1>4. \A e \in Dates : occ[e] \in OccRow(Len(txns'))
  BY <1>1, <1>2 DEF OccRow
<1>5. \A e \in Dates : Linked(e, occ[e].status, occ[e].txn)'
  BY <1>1, <1>2 DEF Linked
<1>6. occ' \in [Dates -> OccRow(Len(txns'))]
  BY <1>1, <1>4
<1>7. OccTypeOK'
  BY <1>2, <1>5, <1>6, TypePartsNext DEF SchedTyped
<1>8. OpenHasNoCopy'
  <2>1. ASSUME NEW e \in Dates, occ[e].status \in {"none", "skipped"} PROVE Copies(e)' = {}
    BY <1>3, <2>1 DEF Core, OpenHasNoCopy
  <2> QED
    BY <2>1 DEF OpenHasNoCopy
<1> QED
  BY <1>7, <1>8

\* A transaction is appended; a copy comes with the row of its date, which
\* nobody holds.
LEMMA PostStep ==
    ASSUME Core, SchedTyped, NEW d \in Dates, NEW o \in Origins, txns' = Posting(d, o), job' = job,
           \/ o # "copy" /\ occ' = occ
           \/ /\ o = "copy" /\ \A j \in Jobs : ~Holds(j, d)
              /\ \E st \in {"entered", "posted"} : occ' = Row(d, st, Len(txns) + 1)
    PROVE  Core'
<1>1. /\ sched \in SchedRow /\ txns \in Seq(TxnRow) /\ occ \in [Dates -> OccRow(Len(txns))]
      /\ \A e \in Dates : Linked(e, occ[e].status, occ[e].txn)
  BY TypeParts DEF Core
<1>2. /\ txns' \in Seq(TxnRow) /\ Len(txns) \in Nat /\ Len(txns') = Len(txns) + 1
      /\ Len(txns) + 1 \in DOMAIN txns'
      /\ txns'[Len(txns) + 1] = [date |-> d, origin |-> o]
      /\ \A i \in DOMAIN txns : i \in DOMAIN txns' /\ txns'[i] = txns[i]
  BY <1>1, Posted
<1>3. \A e \in Dates : Copies(e)' = IF e = d /\ o = "copy" THEN Copies(e) \cup {Len(txns) + 1} ELSE Copies(e)
  BY <1>1, CopiesAfter
<1>4. PICK n \in Nat : n = Len(txns) + 1
  BY <1>2
<1>5. \A e \in Dates : occ[e] \in OccRow(Len(txns'))
  BY <1>1, <1>2 DEF OccRow
<1>6. n \in 0 .. Len(txns') /\ n \in DOMAIN txns' /\ txns'[n].date = d
  BY <1>2, <1>4
<1>7. ASSUME NEW e \in Dates, NEW st, NEW i, Linked(e, st, i)
      PROVE  (st \in {"entered", "posted"} => i \in DOMAIN txns' /\ txns'[i].date = e)
             /\ (st \notin {"entered", "posted"} => i = 0)
  BY <1>2, <1>7 DEF Linked
<1>8. CASE o # "copy" /\ occ' = occ
  <2>1. \A e \in Dates : Copies(e)' = Copies(e)
    BY <1>3, <1>8
  <2>2. OccTypeOK' /\ OpenHasNoCopy'
    BY <1>8, PostTables
  <2>6. job' \in [Jobs -> JobRow] /\ HeldByOne'
    BY DEF Core, JobsHold, HeldByOne, Holds
  <2>7. ASSUME NEW j \in Jobs PROVE JobOK(j)'
    <3>1. job[j].date \in Dates /\ JobOK(j)
      BY DEF Core, JobsHold, JobRow
    <3> QED
      BY <3>1, <1>2, <1>8, <2>1 DEF JobOK, SchedTyped
  <2> QED
    BY <2>2, <2>6, <2>7 DEF Core, JobsHold
<1>9. CASE /\ o = "copy" /\ \A j \in Jobs : ~Holds(j, d)
           /\ \E st \in {"entered", "posted"} : occ' = Row(d, st, Len(txns) + 1)
  <2>1. PICK st \in {"entered", "posted"} : occ' = Row(d, st, n)
    BY <1>4, <1>9
  <2>2. /\ \A e \in Dates : e # d => occ'[e] = occ[e]
        /\ occ'[d] = [status |-> st, txn |-> n, stale |-> FALSE]
        /\ occ'[d].status = st /\ occ'[d].txn = n
    BY <1>1, <2>1, RowWritten
  <2>3. occ' \in [Dates -> OccRow(Len(txns'))]
    <3>1. [status |-> st, txn |-> n, stale |-> FALSE] \in OccRow(Len(txns'))
      BY <1>6 DEF OccRow, Status
    <3>2. occ' = [e \in Dates |-> occ'[e]]
      BY <1>1, <2>1 DEF Row
    <3>3. \A e \in Dates : occ'[e] \in OccRow(Len(txns'))
      BY <1>5, <2>2, <3>1
    <3> QED
      BY <3>2, <3>3
  <2>4. ASSUME NEW e \in Dates PROVE Linked(e, occ[e].status, occ[e].txn)'
    <3>1. CASE e = d
      BY <1>6, <2>2, <3>1 DEF Linked
    <3>2. CASE e # d
      <4>1. Linked(e, occ[e].status, occ[e].txn) /\ occ'[e] = occ[e]
        BY <1>1, <2>2, <3>2
      <4> QED
        BY <1>2, <4>1 DEF Linked
    <3> QED
      BY <3>1, <3>2
  <2>5. OccTypeOK'
    BY <1>2, <2>3, <2>4, TypePartsNext DEF SchedTyped
  <2>6. \A e \in Dates : e # d => Copies(e)' = Copies(e)
    BY <1>3
  <2>7. OpenHasNoCopy'
    BY <2>2, <2>6 DEF Core, OpenHasNoCopy
  <2>8. job' \in [Jobs -> JobRow] /\ HeldByOne'
    BY DEF Core, JobsHold, HeldByOne, Holds
  <2>9. ASSUME NEW j \in Jobs PROVE JobOK(j)'
    <3>1. job[j].date \in Dates /\ JobOK(j) /\ ~Holds(j, d)
      BY <1>9 DEF Core, JobsHold, JobRow
    <3> QED
      BY <3>1, <1>2, <2>2, <2>6 DEF JobOK, Holds, SchedTyped
  <2> QED
    BY <2>5, <2>7, <2>8, <2>9 DEF Core, JobsHold
<1> QED
  BY <1>8, <1>9

-----------------------------------------------------------------------------
(* What a step may do to the schedule and the dates taken *)

Stays ==
    /\ sched'.next = sched.next /\ sched'.left = sched.left /\ (sched'.active => sched.active)
    /\ \A d \in Dates : Taken(d)' <=> Taken(d)

\* The next date is taken and the schedule moves on.
TakesNext ==
    /\ sched.next \in Dates /\ ~Taken(sched.next) /\ sched.active /\ OneOn(sched')
    /\ \A d \in Dates : Taken(d)' <=> (Taken(d) \/ d = sched.next)

\* The next date was taken before.
PassesTaken ==
    /\ sched.next \in Dates /\ Taken(sched.next) /\ sched'.next = sched.next + 1
    /\ \A d \in Dates : Taken(d)' <=> Taken(d)

\* A legacy claim is let go of.
GoesBack == sched.kind = "legacy" /\ sched'.next \in Nat /\ sched'.next <= sched.next

Shape ==
    /\ sched'.kind = sched.kind
    /\ \/ edits' = edits + 1
       \/ edits' = edits /\ (Stays \/ TakesNext \/ PassesTaken \/ GoesBack)

LEMMA InOrderNext ==
    ASSUME Core, Clock, InOrder, Shape
    PROVE  InOrder'
<1>1. sched \in SchedRow
  BY TypeParts DEF Core
<1>2. SUFFICES ASSUME Untouched' PROVE
        /\ \A d \in Dates : Taken(d)' <=> d < sched'.next
        /\ sched'.active => sched'.left # 0
        /\ sched'.left # None => sched'.left + (sched'.next - 1) \in Counts
  BY DEF InOrder, Taken
<1>3. edits' = edits /\ Untouched
  BY <1>2 DEF Shape, Untouched, Clock
<1>4. /\ \A d \in Dates : Taken(d) <=> d < sched.next
      /\ sched.active => sched.left # 0
      /\ sched.left # None => sched.left + (sched.next - 1) \in Counts
  BY <1>3 DEF InOrder
<1>5. Stays \/ TakesNext \/ PassesTaken
  BY <1>3 DEF Shape, GoesBack, Untouched, Clock
<1>6. CASE Stays
  BY <1>4, <1>6 DEF Stays
<1>7. CASE PassesTaken
  BY <1>4, <1>7 DEF PassesTaken, Dates
<1>8. CASE TakesNext
  <2>1. sched.next \in Nat /\ sched'.next = sched.next + 1 /\ sched.left # 0 /\ sched.left \in Nat \cup {None}
    BY <1>1, <1>4, <1>8 DEF TakesNext, OneOn, SchedRow
  <2>2. \A d \in Dates : Taken(d)' <=> d < sched'.next
    BY <1>4, <1>8, <2>1 DEF TakesNext, Dates
  <2>3. sched'.active => sched'.left # 0
    BY <1>8 DEF TakesNext, OneOn
  <2>4. sched'.left # None => sched'.left + (sched'.next - 1) \in Counts
    <3>1. CASE sched.left = None
      BY <1>8, <3>1 DEF TakesNext, OneOn
    <3>2. CASE sched.left # None
      <4>1. sched'.left \in Nat /\ sched'.left + 1 = sched.left
        BY <1>8, <2>1, <3>2 DEF TakesNext, OneOn
      <4>2. sched'.left + (sched'.next - 1) = sched.left + (sched.next - 1)
        BY <2>1, <4>1
      <4> QED
        BY <1>4, <3>2, <4>2
    <3> QED
      BY <3>1, <3>2
  <2> QED
    BY <2>2, <2>3, <2>4
<1> QED
  BY <1>5, <1>6, <1>7, <1>8

\* The action of NeverPassesAnOpenDate.
PassesNone == edits' = edits => \A d \in sched.next .. sched'.next - 1 : occ'[d].status # "none"

LEMMA ShapePassesNone ==
    ASSUME Core, Clock, Shape
    PROVE  PassesNone
<1>1. sched.next \in Nat
  BY TypeParts DEF Core, SchedRow
<1>2. SUFFICES ASSUME edits' = edits, NEW d \in sched.next .. sched'.next - 1 PROVE occ'[d].status # "none"
  BY DEF PassesNone
<1>3. Stays \/ TakesNext \/ PassesTaken \/ GoesBack
  BY <1>2 DEF Shape, Clock
<1>4. CASE Stays \/ GoesBack
  <2>1. sched'.next \in Nat /\ sched'.next <= sched.next
    BY <1>1, <1>4 DEF Stays, GoesBack
  <2> QED
    BY <1>1, <1>2, <2>1
<1>5. CASE TakesNext \/ PassesTaken
  <2>1. sched'.next = sched.next + 1 /\ sched.next \in Dates
    BY <1>5 DEF TakesNext, PassesTaken, OneOn
  <2>2. d = sched.next
    BY <1>1, <1>2, <2>1
  <2>3. Taken(d)'
    BY <1>5, <2>1, <2>2 DEF TakesNext, PassesTaken, Taken
  <2> QED
    BY <2>3 DEF Taken
<1> QED
  BY <1>3, <1>4, <1>5

-----------------------------------------------------------------------------
(* A step of the program is one of ExactlyOnce's, or none *)

Kept == [Promise!Next]_(Promise!vars)

LEMMA KeptSame ==
    ASSUME \A d \in Dates : occ'[d].status = occ[d].status,
           \A d \in Dates : Copies(d)' = Copies(d)
    PROVE  Kept
<1>1. [d \in Dates |-> Fate(d)]' = [d \in Dates |-> Fate(d)]
  BY DEF Fate
<1>2. [d \in Dates |-> Cardinality(Copies(d))]' = [d \in Dates |-> Cardinality(Copies(d))]
  OBVIOUS
<1> QED
  BY <1>1, <1>2 DEF Kept, Promise!vars

LEMMA FateMoves ==
    ASSUME NEW d \in Dates, \A e \in Dates : e # d => occ'[e].status = occ[e].status
    PROVE  [e \in Dates |-> Fate(e)]' = [[e \in Dates |-> Fate(e)] EXCEPT ![d] = Fate(d)']
BY DEF Fate

LEMMA CopiesStand ==
    ASSUME \A d \in Dates : Copies(d)' = Copies(d)
    PROVE  [d \in Dates |-> Cardinality(Copies(d))]' = [d \in Dates |-> Cardinality(Copies(d))]
OBVIOUS

LEMMA CopyAdded ==
    ASSUME NEW d \in Dates, NEW n, Copies(d) = {}, Copies(d)' = {n},
           \A e \in Dates : e # d => Copies(e)' = Copies(e)
    PROVE  Promise!Add(d)
<1>1. Cardinality(Copies(d)) = 0
  BY FS_EmptySet
<1>2. Cardinality(Copies(d)') = 1
  BY FS_Singleton
<1>3. [e \in Dates |-> Cardinality(Copies(e))]' = [[e \in Dates |-> Cardinality(Copies(e))] EXCEPT ![d] = 1]
  BY <1>2
<1> QED
  BY <1>1, <1>3 DEF Promise!Add

\* A row is written and nothing is posted.
LEMMA KeptMove ==
    ASSUME NEW d \in Dates,
           \A e \in Dates : e # d => occ'[e].status = occ[e].status,
           \A e \in Dates : Copies(e)' = Copies(e),
           \/ occ[d].status = "none" /\ occ'[d].status = "skipped"
           \/ occ[d].status \in {"none", "skipped"} /\ occ'[d].status = "claiming"
           \/ occ[d].status = "claiming" /\ Copies(d) = {} /\ occ'[d].status \in {"none", "skipped"}
           \/ occ[d].status \in {"none", "claiming", "skipped"}
              /\ occ'[d].status \in {"dismissed", "entered", "posted"}
    PROVE  Kept
<1>1. [e \in Dates |-> Fate(e)]' = [[e \in Dates |-> Fate(e)] EXCEPT ![d] = Fate(d)']
  BY FateMoves
<1>2. [e \in Dates |-> Cardinality(Copies(e))]' = [e \in Dates |-> Cardinality(Copies(e))]
  BY CopiesStand
<1>3. CASE occ[d].status = "none" /\ occ'[d].status = "skipped"
  <2>1. Fate(d) = "open" /\ Fate(d)' = "skipped"
    BY <1>3 DEF Fate
  <2>2. Promise!Skip(d)
    BY <1>1, <1>2, <2>1 DEF Promise!Skip, Promise!Move
  <2> QED
    BY <2>2 DEF Kept, Promise!Next
<1>4. CASE occ[d].status \in {"none", "skipped"} /\ occ'[d].status = "claiming"
  <2>1. Fate(d) \in {"open", "skipped"} /\ Fate(d)' = "held"
    BY <1>4 DEF Fate
  <2>2. Promise!Hold(d)
    BY <1>1, <1>2, <2>1 DEF Promise!Hold, Promise!Move
  <2> QED
    BY <2>2 DEF Kept, Promise!Next
<1>5. CASE occ[d].status = "claiming" /\ Copies(d) = {} /\ occ'[d].status \in {"none", "skipped"}
  <2>1. Fate(d) = "held" /\ Fate(d)' \in {"open", "skipped"}
    BY <1>5 DEF Fate
  <2>2. Cardinality(Copies(d)) = 0
    BY <1>5, FS_EmptySet
  <2>3. Promise!LetGo(d)
    BY <1>1, <1>2, <2>1, <2>2 DEF Promise!LetGo, Promise!Move
  <2> QED
    BY <2>3 DEF Kept, Promise!Next
<1>6. CASE /\ occ[d].status \in {"none", "claiming", "skipped"}
           /\ occ'[d].status \in {"dismissed", "entered", "posted"}
  <2>1. Fate(d) \in {"open", "held", "skipped"} /\ Fate(d)' = "settled"
    BY <1>6 DEF Fate
  <2>2. Promise!Settle(d)
    BY <1>1, <1>2, <2>1 DEF Promise!Settle, Promise!Move
  <2> QED
    BY <2>2 DEF Kept, Promise!Next
<1> QED
  BY <1>3, <1>4, <1>5, <1>6

\* A copy is posted, with its row or under a claim.
LEMMA KeptPost ==
    ASSUME NEW d \in Dates, NEW n, Copies(d) = {}, Copies(d)' = {n},
           \A e \in Dates : e # d => Copies(e)' = Copies(e) /\ occ'[e].status = occ[e].status,
           \/ occ[d].status \in {"none", "skipped"} /\ occ'[d].status \in {"entered", "posted"}
           \/ occ[d].status = "claiming" /\ occ'[d].status = "claiming"
    PROVE  Kept
<1>1. Promise!Add(d)
  BY CopyAdded
<1>2. CASE occ[d].status \in {"none", "skipped"} /\ occ'[d].status \in {"entered", "posted"}
  <2>1. [e \in Dates |-> Fate(e)]' = [[e \in Dates |-> Fate(e)] EXCEPT ![d] = Fate(d)']
    BY FateMoves
  <2>2. Fate(d) \in {"open", "skipped"} /\ Fate(d)' = "settled"
    BY <1>2 DEF Fate
  <2>3. Promise!Enter(d)
    BY <1>1, <2>1, <2>2 DEF Promise!Enter, Promise!Move
  <2> QED
    BY <2>3 DEF Kept, Promise!Next
<1>3. CASE occ[d].status = "claiming" /\ occ'[d].status = "claiming"
  <2>1. \A e \in Dates : occ'[e].status = occ[e].status
    BY <1>3
  <2>2. [e \in Dates |-> Fate(e)]' = [e \in Dates |-> Fate(e)]
    BY <2>1 DEF Fate
  <2>3. Fate(d) = "held"
    BY <1>3 DEF Fate
  <2>4. Promise!Post(d)
    BY <1>1, <2>2, <2>3 DEF Promise!Post
  <2> QED
    BY <2>4 DEF Kept, Promise!Next
<1> QED
  BY <1>2, <1>3

-----------------------------------------------------------------------------
(* The steps of Next, one by one *)

Done == Core' /\ Shape /\ Kept

LEMMA DueIsADate ==
    ASSUME Core, Clock, NEW asOf \in {today, today + 1}, DueBy(asOf)
    PROVE  sched.next \in Dates
<1>1. sched.next \in 1 .. LastDate + 1
  BY TypeParts DEF Core, SchedRow
<1> QED
  BY <1>1, OccurrenceConstants DEF Clock, DueBy, Dates

\* What is left alone when only the schedule changes.
LEMMA OnlySched ==
    ASSUME Core, SchedTyped, UNCHANGED <<occ, txns, job>>
    PROVE  Core' /\ Kept /\ \A d \in Dates : Taken(d)' <=> Taken(d)
<1>1. Core'
  BY SchedStep
<1>2. \A d \in Dates : Copies(d)' = Copies(d)
  BY CopiesSame
<1>3. Kept
  BY <1>2, KeptSame
<1> QED
  BY <1>1, <1>3 DEF Taken

LEMMA StopStep ==
    ASSUME OccInv, NEW asOf \in {today, today + 1}, Stop(asOf)
    PROVE  Done
<1>1. Core /\ sched \in SchedRow
  BY TypeParts DEF OccInv, Core
<1>2. SchedTyped /\ sched'.next = sched.next /\ sched'.left = sched.left /\ ~sched'.active
  BY <1>1 DEF Stop, SchedRow, SchedTyped
<1>3. Core' /\ Kept /\ \A d \in Dates : Taken(d)' <=> Taken(d)
  BY <1>1, <1>2, OnlySched DEF Stop
<1>4. Stays /\ edits' = edits
  BY <1>2, <1>3 DEF Stays, Stop
<1> QED
  BY <1>2, <1>3, <1>4 DEF Done, Shape, SchedTyped

LEMMA AlreadyStep ==
    ASSUME OccInv, NEW asOf \in {today, today + 1}, Already(asOf)
    PROVE  Done
<1>1. Core /\ Clock /\ OccTypeOK
  BY DEF OccInv, Core
<1>2. sched.next \in Dates
  BY <1>1, DueIsADate DEF Already
<1>3. SchedTyped /\ sched'.next = sched.next + 1
  BY <1>1, <1>2, AdvancedPast DEF Already, SchedTyped
<1>4. Core' /\ Kept /\ \A d \in Dates : Taken(d)' <=> Taken(d)
  BY <1>1, <1>3, OnlySched DEF Already
<1>5. PassesTaken /\ edits' = edits
  BY <1>2, <1>3, <1>4 DEF PassesTaken, Already
<1> QED
  BY <1>3, <1>4, <1>5 DEF Done, Shape, SchedTyped

\* The row of the next date is written and the schedule moves on.
LEMMA NextTaken ==
    ASSUME Core, sched.next \in Dates, ~Taken(sched.next), sched.active, NEW st \in Status, NEW i,
           st # "none", occ' = Row(sched.next, st, i), OneOn(sched'), edits' = edits
    PROVE  Shape /\ SchedTyped
<1>1. occ \in [Dates -> OccRow(Len(txns))]
  BY TypeParts DEF Core
<1>2. PICK n \in Dates : n = sched.next
  OBVIOUS
<1>3. /\ \A e \in Dates : e # n => occ'[e] = occ[e]
      /\ occ'[n].status = st
  BY <1>1, <1>2, RowWritten
<1>4. \A d \in Dates : Taken(d)' <=> (Taken(d) \/ d = n)
  BY <1>3 DEF Taken
<1>5. TakesNext
  BY <1>2, <1>4 DEF TakesNext
<1> QED
  BY <1>5 DEF Shape, SchedTyped, OneOn

\* A date without a row is held by nobody.
LEMMA OpenIsFree ==
    ASSUME Core, NEW d \in Dates, occ[d].status # "claiming"
    PROVE  \A j \in Jobs : ~Holds(j, d)
BY HeldRowIsAClaim

LEMMA AutoSkipStep ==
    ASSUME OccInv, NEW asOf \in {today, today + 1}, AutoSkip(asOf)
    PROVE  Done
<1>1. Core /\ Clock /\ OccTypeOK
  BY DEF OccInv, Core
<1>2. occ \in [Dates -> OccRow(Len(txns))] /\ txns \in Seq(TxnRow)
  BY <1>1, TypeParts
<1>3. /\ DueBy(asOf) /\ ~Taken(sched.next) /\ occ' = Row(sched.next, "skipped", 0)
      /\ sched' = Advanced(TRUE) /\ UNCHANGED <<txns, job, today, edits>>
  BY DEF AutoSkip
<1>4. sched.next \in Dates /\ sched.active
  BY <1>1, <1>3, DueIsADate DEF DueBy, Live
<1>5. OneOn(sched')
  BY <1>1, <1>3, <1>4, AdvancedIsOneOn
<1>6. Shape /\ SchedTyped
  BY <1>1, <1>3, <1>4, <1>5, NextTaken DEF Status
<1>7. PICK d \in Dates : d = sched.next
  BY <1>4
<1>8. occ[d].status = "none" /\ Copies(d) = {}
  BY <1>1, <1>3, <1>7 DEF Taken, Core, OpenHasNoCopy
<1>9. \A j \in Jobs : ~Holds(j, d)
  BY <1>1, <1>8, OpenIsFree
<1>10. Linked(d, "skipped", 0) /\ 0 \in 0 .. Len(txns) /\ "skipped" \in Status
  BY <1>2 DEF Linked, Status
<1>11. occ' = Row(d, "skipped", 0) /\ UNCHANGED <<txns, job>>
  BY <1>3, <1>7
<1>12. Core'
  BY <1>1, <1>6, <1>8, <1>9, <1>10, <1>11, RowStep
<1>13. /\ \A e \in Dates : e # d => occ'[e] = occ[e]
       /\ occ'[d].status = "skipped"
  BY <1>2, <1>11, RowWritten
<1>14. \A e \in Dates : Copies(e)' = Copies(e)
  BY <1>3, CopiesSame
<1>15. Kept
  BY <1>8, <1>13, <1>14, KeptMove
<1> QED
  BY <1>6, <1>12, <1>15 DEF Done

\* A copy is posted for an open date in the step that settles it.
LEMMA CopyWithRow ==
    ASSUME Core, SchedTyped, NEW d \in Dates, occ[d].status \in {"none", "skipped"},
           NEW st \in {"entered", "posted"}, occ' = Row(d, st, Len(txns) + 1),
           txns' = Posting(d, "copy"), job' = job
    PROVE  Core' /\ Kept
<1>1. occ \in [Dates -> OccRow(Len(txns))] /\ txns \in Seq(TxnRow) /\ Copies(d) = {}
  BY TypeParts DEF Core, OpenHasNoCopy
<1>2. \A j \in Jobs : ~Holds(j, d)
  BY OpenIsFree
<1>3. "copy" \in Origins
  BY DEF Origins
<1>4. Core'
  <2>1. /\ "copy" = "copy" /\ \A j \in Jobs : ~Holds(j, d)
        /\ \E u \in {"entered", "posted"} : occ' = Row(d, u, Len(txns) + 1)
    BY <1>2
  <2> QED
    BY <1>3, <2>1, PostStep
<1>5. /\ \A e \in Dates : e # d => occ'[e] = occ[e]
      /\ occ'[d].status = st
  BY <1>1, RowWritten
<1>6. /\ Copies(d)' = {Len(txns) + 1}
      /\ \A e \in Dates : e # d => Copies(e)' = Copies(e)
  <2>1. \A e \in Dates : Copies(e)' = IF e = d /\ "copy" = "copy" THEN Copies(e) \cup {Len(txns) + 1}
                                       ELSE Copies(e)
    BY <1>1, <1>3, CopiesAfter
  <2> QED
    BY <2>1, <1>1
<1>7. Kept
  BY <1>1, <1>5, <1>6, KeptPost
<1> QED
  BY <1>4, <1>7

LEMMA AutoPostStep ==
    ASSUME OccInv, NEW asOf \in {today, today + 1}, AutoPost(asOf)
    PROVE  Done
<1>1. Core /\ Clock /\ OccTypeOK
  BY DEF OccInv, Core
<1>2. /\ DueBy(asOf) /\ ~Taken(sched.next) /\ occ' = Row(sched.next, "posted", Len(txns) + 1)
      /\ txns' = Posting(sched.next, "copy")
      /\ sched' = Marked(Advanced(TRUE)) /\ UNCHANGED <<job, today, edits>>
  BY DEF AutoPost
<1>3. sched.next \in Dates /\ sched.active
  BY <1>1, <1>2, DueIsADate DEF DueBy, Live
<1>4. OneOn(sched')
  BY <1>1, <1>2, <1>3, AdvancedIsOneOn
<1>5. Shape /\ SchedTyped
  BY <1>1, <1>2, <1>3, <1>4, NextTaken DEF Status
<1>6. PICK d \in Dates : d = sched.next
  BY <1>3
<1>7. /\ occ[d].status \in {"none", "skipped"} /\ occ' = Row(d, "posted", Len(txns) + 1)
      /\ txns' = Posting(d, "copy") /\ job' = job
  BY <1>2, <1>6 DEF Taken
<1>8. Core' /\ Kept
  BY <1>1, <1>5, <1>7, CopyWithRow
<1> QED
  BY <1>5, <1>8 DEF Done

LEMMA EnterStep ==
    ASSUME OccInv, NEW d \in Dates, Enter(d)
    PROVE  Done
<1>1. Core /\ Clock /\ OccTypeOK
  BY DEF OccInv, Core
<1>2. PICK target : target = Target(d)
  OBVIOUS
<1>3. /\ target # "refused"
      /\ txns' = Posting(d, Origin(target))
      /\ occ' = IF target = "none" THEN occ ELSE Row(d, "entered", Len(txns) + 1)
      /\ sched' = IF target = "insert" THEN Marked(Advanced(TRUE)) ELSE sched
      /\ UNCHANGED <<job, today, edits>>
  BY <1>2 DEF Enter
<1>4. sched \in SchedRow /\ occ \in [Dates -> OccRow(Len(txns))] /\ txns \in Seq(TxnRow)
  BY <1>1, TypeParts
<1>5. CASE target = "none"
  <2>1. txns' = Posting(d, "loose") /\ occ' = occ /\ sched' = sched /\ "loose" \in Origins
    BY <1>3, <1>5 DEF Origin, Origins
  <2>2. SchedTyped
    BY <1>4, <2>1 DEF SchedTyped
  <2>3. Core'
    BY <1>1, <1>3, <2>1, <2>2, PostStep
  <2>4. \A e \in Dates : Copies(e)' = IF e = d /\ "loose" = "copy" THEN Copies(e) \cup {Len(txns) + 1}
                                       ELSE Copies(e)
    BY <1>4, <2>1, CopiesAfter
  <2>5. Kept
    BY <2>1, <2>4, KeptSame
  <2>6. Shape
    BY <1>3, <2>1 DEF Shape, Stays, Taken
  <2> QED
    BY <2>3, <2>5, <2>6 DEF Done
<1>6. CASE target = "from_skipped"
  <2>1. occ[d].status = "skipped"
    BY <1>2, <1>6 DEF Target
  <2>2. /\ txns' = Posting(d, "copy") /\ occ' = Row(d, "entered", Len(txns) + 1)
        /\ sched' = sched
    BY <1>3, <1>6 DEF Origin
  <2>3. SchedTyped
    BY <1>4, <2>2 DEF SchedTyped
  <2>4. Core' /\ Kept
    BY <1>1, <1>3, <2>1, <2>2, <2>3, CopyWithRow
  <2>5. /\ \A e \in Dates : e # d => occ'[e] = occ[e]
        /\ occ'[d].status = "entered"
    BY <1>4, <2>2, RowWritten
  <2>6. Shape
    BY <1>3, <2>1, <2>2, <2>5 DEF Shape, Stays, Taken
  <2> QED
    BY <2>4, <2>6 DEF Done
<1>7. CASE target = "insert"
  <2>1. occ[d].status = "none" /\ sched.active /\ d = sched.next
    BY <1>2, <1>7 DEF Target, Taken, Live
  <2>2. /\ txns' = Posting(d, "copy") /\ occ' = Row(d, "entered", Len(txns) + 1)
        /\ sched' = Marked(Advanced(TRUE))
    BY <1>3, <1>7 DEF Origin
  <2>3. OneOn(sched')
    BY <1>1, <2>1, <2>2, AdvancedIsOneOn
  <2>4. Shape /\ SchedTyped
    BY <1>1, <1>3, <2>1, <2>2, <2>3, NextTaken DEF Status, Taken
  <2>5. Core' /\ Kept
    BY <1>1, <1>3, <2>1, <2>2, <2>4, CopyWithRow
  <2> QED
    BY <2>4, <2>5 DEF Done
<1>8. target \in {"none", "from_skipped", "insert"}
  BY <1>2, <1>3 DEF Target
<1> QED
  BY <1>5, <1>6, <1>7, <1>8

\* Skip and resolve.
LEMMA SettleStep ==
    ASSUME OccInv, NEW d \in Dates, NEW st \in {"dismissed", "entered"}, NEW i \in 0 .. Len(txns),
           OpenForOwner(d) \/ ~Taken(d) => Linked(d, st, i),
           NEW after, sched.next \in Dates => OneOn(after), Settle(d, st, i, after)
    PROVE  Done
<1>1. Core /\ Clock /\ OccTypeOK
  BY DEF OccInv, Core
<1>2. sched \in SchedRow /\ occ \in [Dates -> OccRow(Len(txns))]
  BY <1>1, TypeParts
<1>3. occ' = Row(d, st, i) /\ UNCHANGED <<txns, job, today, edits>>
  BY DEF Settle
<1>4. \/ OpenForOwner(d) /\ sched' = sched
      \/ ~Taken(d) /\ Live /\ d = sched.next /\ sched' = after
  BY DEF Settle
<1>5. /\ \A e \in Dates : e # d => occ'[e] = occ[e]
      /\ occ'[d].status = st
  BY <1>2, <1>3, RowWritten
<1>6. Shape /\ SchedTyped
  <2>1. CASE OpenForOwner(d) /\ sched' = sched
    <3>1. SchedTyped
      BY <1>2, <2>1 DEF SchedTyped
    <3>2. Taken(d)
      BY <2>1 DEF OpenForOwner, Taken
    <3>3. \A e \in Dates : Taken(e)' <=> Taken(e)
      BY <1>5, <3>2 DEF Taken
    <3> QED
      BY <1>3, <2>1, <3>1, <3>3 DEF Shape, Stays
  <2>2. CASE ~Taken(d) /\ Live /\ d = sched.next /\ sched' = after
    <3>1. sched.active /\ OneOn(sched') /\ occ' = Row(sched.next, st, i) /\ st \in Status
      BY <1>3, <2>2 DEF Live, Status
    <3> QED
      BY <1>1, <1>3, <2>2, <3>1, NextTaken
  <2> QED
    BY <1>4, <2>1, <2>2
<1>7. \A j \in Jobs : ~Holds(j, d)
  <2>1. ~(occ[d].status = "claiming" /\ ~occ[d].stale)
    BY <1>4 DEF OpenForOwner, Taken
  <2> QED
    BY <1>1, <2>1, HeldRowIsAClaim
<1>8. Linked(d, st, i) /\ st \in Status /\ ~(st \in {"none", "skipped"})
  BY <1>4 DEF Status
<1>9. Core'
  BY <1>1, <1>3, <1>6, <1>7, <1>8, RowStep
<1>10. \A e \in Dates : Copies(e)' = Copies(e)
  BY <1>3, CopiesSame
<1>11. occ[d].status \in {"none", "claiming", "skipped"}
  BY <1>4 DEF OpenForOwner, Taken
<1>12. Kept
  BY <1>5, <1>10, <1>11, KeptMove
<1> QED
  BY <1>6, <1>9, <1>12 DEF Done

LEMMA DismissStep ==
    ASSUME OccInv, NEW d \in Dates, Dismiss(d)
    PROVE  Done
<1>1. OccTypeOK
  BY DEF OccInv, Core
<1>2. occ[d] \in OccRow(Len(txns)) /\ Linked(d, occ[d].status, occ[d].txn)
  BY <1>1, TypeParts
<1>3. OpenForOwner(d) \/ ~Taken(d) => Linked(d, "dismissed", occ[d].txn)
  BY <1>2 DEF OpenForOwner, Taken, Linked
<1>4. sched.next \in Dates => OneOn(Advanced(TRUE))
  BY <1>1, AdvancedIsOneOn
<1>5. occ[d].txn \in 0 .. Len(txns)
  BY <1>2 DEF OccRow
<1> QED
  BY <1>3, <1>4, <1>5, SettleStep DEF Dismiss

LEMMA ResolveStep ==
    ASSUME OccInv, NEW d \in Dates, NEW i \in DOMAIN txns, Resolve(d, i)
    PROVE  Done
<1>1. OccTypeOK
  BY DEF OccInv, Core
<1>2. txns \in Seq(TxnRow)
  BY <1>1, TypeParts
<1>3. Linked(d, "entered", i)
  BY DEF Resolve, Linked
<1>4. sched.next \in Dates => OneOn(Marked(Advanced(TRUE)))
  BY <1>1, AdvancedIsOneOn
<1>5. i \in 0 .. Len(txns)
  BY <1>2
<1> QED
  BY <1>3, <1>4, <1>5, SettleStep DEF Resolve

LEMMA SaveFormStep ==
    ASSUME OccInv, NEW d \in Dates, SaveForm(d)
    PROVE  Done
<1>1. Core /\ sched \in SchedRow /\ txns \in Seq(TxnRow)
  BY TypeParts DEF OccInv, Core
<1>2. txns' = Posting(d, "form") /\ UNCHANGED <<sched, occ, job, today, edits>>
  BY DEF SaveForm
<1>3. SchedTyped /\ "form" \in Origins /\ "form" # "copy"
  BY <1>1, <1>2 DEF SchedTyped, Origins
<1>4. Core'
  BY <1>1, <1>2, <1>3, PostStep
<1>5. \A e \in Dates : Copies(e)' = IF e = d /\ "form" = "copy" THEN Copies(e) \cup {Len(txns) + 1}
                                     ELSE Copies(e)
  BY <1>1, <1>2, <1>3, CopiesAfter
<1>6. Kept
  BY <1>2, <1>5, KeptSame
<1>7. Shape
  BY <1>2 DEF Shape, Stays, Taken
<1> QED
  BY <1>4, <1>6, <1>7 DEF Done

LEMMA EditStep ==
    ASSUME OccInv, NEW s \in SchedRow, s.kind = sched.kind, Edit(s)
    PROVE  Done
<1>1. SchedTyped /\ UNCHANGED <<occ, txns, job>> /\ edits' = edits + 1
  BY DEF Edit, SchedTyped
<1>2. Core' /\ Kept
  BY <1>1, OnlySched DEF OccInv
<1> QED
  BY <1>1, <1>2 DEF Done, Shape, SchedTyped

LEMMA TomorrowStep ==
    ASSUME OccInv, Tomorrow
    PROVE  Done
<1>1. sched \in SchedRow
  BY TypeParts DEF OccInv, Core
<1>2. SchedTyped /\ UNCHANGED <<sched, occ, txns, job, edits>>
  BY <1>1 DEF Tomorrow, tables, SchedTyped
<1>3. Core' /\ Kept
  BY <1>2, OnlySched DEF OccInv
<1> QED
  BY <1>2, <1>3 DEF Done, Shape, Stays, Taken

LEMMA StaleStep ==
    ASSUME OccInv, NEW d \in Dates, Stale(d)
    PROVE  Done
<1>1. Core /\ OccTypeOK
  BY DEF OccInv, Core
<1>2. /\ sched \in SchedRow /\ occ \in [Dates -> OccRow(Len(txns))] /\ txns \in Seq(TxnRow)
      /\ \A e \in Dates : Linked(e, occ[e].status, occ[e].txn)
  BY <1>1, TypeParts
<1>3. occ' = [occ EXCEPT ![d].stale = TRUE] /\ UNCHANGED <<sched, txns, job, today, edits>>
  BY DEF Stale
<1>4. /\ \A e \in Dates : e # d => occ'[e] = occ[e]
      /\ occ'[d].status = occ[d].status /\ occ'[d].txn = occ[d].txn
      /\ occ' \in [Dates -> OccRow(Len(txns))]
  BY <1>2, <1>3 DEF OccRow
<1>5. \A e \in Dates : occ'[e].status = occ[e].status /\ occ'[e].txn = occ[e].txn
  BY <1>4
<1>6. \A e \in Dates : Copies(e)' = Copies(e)
  BY <1>3, CopiesSame
<1>7. OccTypeOK'
  <2>1. \A e \in Dates : Linked(e, occ[e].status, occ[e].txn)'
    BY <1>2, <1>3, <1>5 DEF Linked
  <2> QED
    BY <1>2, <1>3, <1>4, <2>1, TypePartsNext
<1>8. OpenHasNoCopy'
  BY <1>1, <1>5, <1>6 DEF Core, OpenHasNoCopy
<1>9. \A j \in Jobs : ~Holds(j, d)
  BY DEF Stale, Holds, Idle
<1>10. job' \in [Jobs -> JobRow] /\ HeldByOne'
  BY <1>1, <1>3 DEF Core, JobsHold, HeldByOne, Holds
<1>11. ASSUME NEW j \in Jobs PROVE JobOK(j)'
  <2>1. job[j].date \in Dates /\ JobOK(j) /\ ~Holds(j, d)
    BY <1>1, <1>9 DEF Core, JobsHold, JobRow
  <2> QED
    BY <2>1, <1>3, <1>4, <1>6 DEF JobOK, Holds
<1>12. Core'
  BY <1>7, <1>8, <1>10, <1>11 DEF Core, JobsHold
<1>13. Kept
  BY <1>5, <1>6, KeptSame
<1>14. Shape
  BY <1>3, <1>5 DEF Shape, Stays, Taken
<1> QED
  BY <1>12, <1>13, <1>14 DEF Done

-----------------------------------------------------------------------------
(* A legacy posting *)

\* One job moves on; what the others hold is left alone.
LEMMA JobStep ==
    ASSUME Core, SchedTyped, OccTypeOK', OpenHasNoCopy',
           NEW j \in Jobs, NEW q \in JobRow, job' = [job EXCEPT ![j] = q], JobOK(j)',
           \A i \in DOMAIN txns : i \in DOMAIN txns' /\ txns'[i] = txns[i],
           \A k \in Jobs, e \in Dates : k # j /\ Holds(k, e) => occ'[e] = occ[e] /\ Copies(e)' = Copies(e),
           q.target # "none" => \A k \in Jobs : k # j => ~Holds(k, q.date)
    PROVE  Core'
<1>1. /\ job \in [Jobs -> JobRow] /\ \A k \in Jobs : JobOK(k)
      /\ HeldByOne
  BY DEF Core, JobsHold
<1>2. job' \in [Jobs -> JobRow] /\ job'[j] = q /\ \A k \in Jobs : k # j => job'[k] = job[k]
  BY <1>1
<1>3. ASSUME NEW k \in Jobs, k # j PROVE JobOK(k)'
  <2>1. JobOK(k) /\ job'[k] = job[k] /\ job[k].date \in Dates
    BY <1>1, <1>2, <1>3 DEF JobRow
  <2>2. job[k].target # "none" =>
          occ'[job[k].date] = occ[job[k].date] /\ Copies(job[k].date)' = Copies(job[k].date)
    <3>1. PICK e \in Dates : e = job[k].date
      BY <2>1
    <3>2. job[k].target # "none" => occ'[e] = occ[e] /\ Copies(e)' = Copies(e)
      BY <1>3, <3>1 DEF Holds
    <3>3. e' = e => Copies(job[k].date)' = Copies(e)'
      BY <2>1, <3>1 DEF Copies, Of
    <3> QED
      BY <2>1, <3>1, <3>2 DEF Copies, Of
  <2> QED
    BY <2>1, <2>2 DEF JobOK, SchedTyped
<1>4. HeldByOne'
  <2>1. SUFFICES ASSUME NEW e \in Dates, NEW k \in Jobs, NEW l \in Jobs, Holds(k, e)', Holds(l, e)' PROVE k = l
    BY DEF HeldByOne
  <2>2. CASE k # j /\ l # j
    BY <1>1, <1>2, <2>1, <2>2 DEF HeldByOne, Holds
  <2>3. CASE k = j /\ l # j
    BY <1>2, <2>1, <2>3 DEF Holds
  <2>4. CASE k # j /\ l = j
    BY <1>2, <2>1, <2>4 DEF Holds
  <2> QED
    BY <2>2, <2>3, <2>4
<1> QED
  BY <1>2, <1>3, <1>4 DEF Core, JobsHold

\* A job claims an open date.
LEMMA Claimed ==
    ASSUME Core, SchedTyped, sched.kind = "legacy", NEW j \in Jobs, NEW d \in Dates,
           occ[d].status \in {"none", "skipped"}, NEW q \in JobRow,
           q.stage = "post", q.target # "none", q.date = d, job' = [job EXCEPT ![j] = q],
           occ' = Row(d, "claiming", 0), txns' = txns
    PROVE  Core' /\ Kept
<1>1. /\ occ \in [Dates -> OccRow(Len(txns))] /\ txns \in Seq(TxnRow) /\ job \in [Jobs -> JobRow]
      /\ Copies(d) = {}
  BY TypeParts DEF Core, OpenHasNoCopy, JobsHold
<1>2. Linked(d, "claiming", 0) /\ 0 \in 0 .. Len(txns) /\ "claiming" \in Status
  BY <1>1 DEF Linked, Status
<1>3. OccTypeOK' /\ OpenHasNoCopy'
  BY <1>2, RowTables
<1>4. \A k \in Jobs : ~Holds(k, d)
  BY OpenIsFree
<1>5. /\ \A e \in Dates : e # d => occ'[e] = occ[e]
      /\ occ'[d].status = "claiming" /\ ~occ'[d].stale
  BY <1>1, RowWritten
<1>6. \A e \in Dates : Copies(e)' = Copies(e)
  BY CopiesSame
<1>7. JobOK(j)'
  <2>1. job'[j] = q /\ sched'.kind = "legacy"
    BY <1>1 DEF SchedTyped
  <2>2. Copies(job[j].date)' = {}
    BY <1>1, <2>1 DEF Copies, Of
  <2> QED
    BY <1>5, <2>1, <2>2 DEF JobOK
<1>8. Core'
  <2>1. \A i \in DOMAIN txns : i \in DOMAIN txns' /\ txns'[i] = txns[i]
    OBVIOUS
  <2>2. \A k \in Jobs, e \in Dates : k # j /\ Holds(k, e) => occ'[e] = occ[e] /\ Copies(e)' = Copies(e)
    BY <1>4, <1>5, <1>6
  <2>3. q.target # "none" => \A k \in Jobs : k # j => ~Holds(k, q.date)
    BY <1>4
  <2> QED
    BY <1>3, <1>7, <2>1, <2>2, <2>3, JobStep
<1>9. Kept
  BY <1>5, <1>6, KeptMove
<1> QED
  BY <1>8, <1>9

LEMMA ClaimAutoStep ==
    ASSUME OccInv, NEW j \in Jobs, NEW asOf \in {today, today + 1}, ClaimAuto(j, asOf)
    PROVE  Done
<1>1. Core /\ Clock /\ OccTypeOK
  BY DEF OccInv, Core
<1>2. sched \in SchedRow
  BY <1>1, TypeParts
<1>3. PICK q : q = [Idle EXCEPT !.stage = "post", !.date = sched.next,
                   !.target = "insert", !.moved = TRUE, !.left = sched.left, !.live = TRUE]
  OBVIOUS
<1>4. /\ sched.kind = "legacy" /\ DueBy(asOf) /\ ~Taken(sched.next)
      /\ occ' = Row(sched.next, "claiming", 0)
      /\ sched' = Advanced(TRUE)
      /\ job' = [job EXCEPT ![j] = q]
      /\ UNCHANGED <<txns, today, edits>>
  BY <1>3 DEF ClaimAuto
<1>5. sched.next \in Dates /\ sched.active
  BY <1>1, <1>4, DueIsADate DEF DueBy, Live
<1>6. PICK d \in Dates : d = sched.next
  BY <1>5
<1>7. q \in JobRow /\ q.stage = "post" /\ q.target # "none" /\ q.date = d
  BY <1>2, <1>3, <1>6, IdleRow DEF JobRow, SchedRow
<1>8. OneOn(sched')
  BY <1>1, <1>4, <1>5, AdvancedIsOneOn
<1>9. Shape /\ SchedTyped
  BY <1>1, <1>4, <1>5, <1>8, NextTaken DEF Status
<1>10. occ[d].status \in {"none", "skipped"} /\ occ' = Row(d, "claiming", 0) /\ txns' = txns
  BY <1>4, <1>6 DEF Taken
<1>11. Core' /\ Kept
  BY <1>1, <1>4, <1>7, <1>9, <1>10, Claimed
<1> QED
  BY <1>9, <1>11 DEF Done

LEMMA ClaimManualStep ==
    ASSUME OccInv, NEW j \in Jobs, NEW d \in Dates, ClaimManual(j, d)
    PROVE  Done
<1>1. Core /\ Clock /\ OccTypeOK
  BY DEF OccInv, Core
<1>2. sched \in SchedRow /\ occ \in [Dates -> OccRow(Len(txns))] /\ txns \in Seq(TxnRow)
  BY <1>1, TypeParts
<1>3. PICK target : target = Target(d)
  OBVIOUS
<1>4. PICK q : q = [Idle EXCEPT !.stage = "post", !.mode = "manual", !.date = d,
                   !.target = target, !.moved = target = "insert", !.left = sched.left, !.live = Live]
  OBVIOUS
<1>5. /\ sched.kind = "legacy" /\ target # "refused"
      /\ occ' = IF target = "none" THEN occ ELSE Row(d, "claiming", 0)
      /\ sched' = IF target = "insert" THEN Advanced(TRUE) ELSE sched
      /\ job' = [job EXCEPT ![j] = q]
      /\ UNCHANGED <<txns, today, edits>>
  BY <1>3, <1>4 DEF ClaimManual
<1>6. target \in {"none", "from_skipped", "insert"}
  BY <1>3, <1>5 DEF Target
<1>7. q \in JobRow /\ q.stage = "post" /\ q.target = target /\ q.date = d
  <2>1. PICK live \in BOOLEAN : live = Live
    BY <1>2 DEF Live, SchedRow
  <2>2. PICK moved \in BOOLEAN : moved = (target = "insert")
    OBVIOUS
  <2>3. q = [Idle EXCEPT !.stage = "post", !.mode = "manual", !.date = d,
                   !.target = target, !.moved = moved, !.left = sched.left, !.live = live]
    BY <1>4, <2>1, <2>2
  <2> QED
    BY <1>2, <1>6, <2>3, IdleRow DEF JobRow, SchedRow
<1>8. CASE target = "none"
  <2>1. occ' = occ /\ sched' = sched /\ txns' = txns
    BY <1>5, <1>8
  <2>2. SchedTyped
    BY <1>2, <2>1 DEF SchedTyped
  <2>3. \A e \in Dates : Copies(e)' = Copies(e)
    BY <2>1, CopiesSame
  <2>4. OccTypeOK' /\ OpenHasNoCopy'
    <3>1. \A e \in Dates : Linked(e, occ[e].status, occ[e].txn)'
      BY <1>1, <2>1, TypeParts DEF Linked
    <3> QED
      BY <1>1, <1>2, <2>1, <2>3, <3>1, TypePartsNext DEF Core, OpenHasNoCopy
  <2>5. job'[j] = q
    BY <1>1, <1>5 DEF Core, JobsHold
  <2>6. JobOK(j)'
    BY <1>5, <1>7, <1>8, <2>1, <2>5 DEF JobOK
  <2>7. Core'
    <3>1. \A i \in DOMAIN txns : i \in DOMAIN txns' /\ txns'[i] = txns[i]
      BY <2>1
    <3>2. \A k \in Jobs, e \in Dates : k # j /\ Holds(k, e) => occ'[e] = occ[e] /\ Copies(e)' = Copies(e)
      BY <2>1, <2>3
    <3>3. q.target # "none" => \A k \in Jobs : k # j => ~Holds(k, q.date)
      BY <1>7, <1>8
    <3> QED
      BY <1>1, <1>5, <1>7, <2>2, <2>4, <2>6, <3>1, <3>2, <3>3, JobStep
  <2>8. Kept
    BY <2>1, <2>3, KeptSame
  <2>9. Shape
    BY <1>5, <2>1 DEF Shape, Stays, Taken
  <2> QED
    BY <2>7, <2>8, <2>9 DEF Done
<1>9. CASE target = "from_skipped"
  <2>1. occ[d].status = "skipped" /\ occ' = Row(d, "claiming", 0) /\ sched' = sched
    BY <1>3, <1>5, <1>9 DEF Target
  <2>2. SchedTyped
    BY <1>2, <2>1 DEF SchedTyped
  <2>3. Core' /\ Kept
    BY <1>1, <1>5, <1>7, <1>9, <2>1, <2>2, Claimed
  <2>4. /\ \A e \in Dates : e # d => occ'[e] = occ[e]
        /\ occ'[d].status = "claiming"
    BY <1>2, <2>1, RowWritten
  <2>5. Shape
    BY <1>5, <2>1, <2>4 DEF Shape, Stays, Taken
  <2> QED
    BY <2>3, <2>5 DEF Done
<1>10. CASE target = "insert"
  <2>1. occ[d].status = "none" /\ sched.active /\ d = sched.next
    BY <1>3, <1>10 DEF Target, Taken, Live
  <2>2. occ' = Row(d, "claiming", 0) /\ sched' = Advanced(TRUE)
    BY <1>5, <1>10
  <2>3. OneOn(sched')
    BY <1>1, <2>1, <2>2, AdvancedIsOneOn
  <2>4. Shape /\ SchedTyped
    BY <1>1, <1>5, <2>1, <2>2, <2>3, NextTaken DEF Status, Taken
  <2>5. Core' /\ Kept
    BY <1>1, <1>5, <1>7, <1>10, <2>1, <2>2, <2>4, Claimed
  <2> QED
    BY <2>4, <2>5 DEF Done
<1> QED
  BY <1>6, <1>8, <1>9, <1>10

\* Only the job changes.
LEMMA OnlyJob ==
    ASSUME Core, UNCHANGED <<sched, occ, txns, today, edits>>, NEW j \in Jobs, NEW q \in JobRow,
           job' = [job EXCEPT ![j] = q],
           q.stage = "idle" => q.target = "none",
           q.stage # "idle" => q.stage # "record" /\ job[j].stage = "post" /\ q.date = job[j].date
                               /\ q.target = job[j].target
    PROVE  Done
<1>1. /\ sched \in SchedRow /\ txns \in Seq(TxnRow) /\ job \in [Jobs -> JobRow] /\ JobOK(j)
      /\ \A d \in Dates : Linked(d, occ[d].status, occ[d].txn)
  BY TypeParts DEF Core, JobsHold
<1>2. SchedTyped
  BY <1>1 DEF SchedTyped
<1>3. \A e \in Dates : Copies(e)' = Copies(e)
  BY CopiesSame
<1>4. OccTypeOK'
  <2>1. \A e \in Dates : Linked(e, occ[e].status, occ[e].txn)'
    BY <1>1 DEF Linked
  <2> QED
    BY <1>1, <2>1, TypeParts, TypePartsNext DEF Core
<1>5. OpenHasNoCopy'
  BY <1>3 DEF Core, OpenHasNoCopy
<1>6. job'[j] = q /\ job[j].date \in Dates
  BY <1>1 DEF JobRow
<1>7. JobOK(j)'
  <2>1. CASE q.stage = "idle"
    BY <1>6, <2>1 DEF JobOK
  <2>2. CASE q.stage # "idle"
    <3>1. Copies(job[j].date)' = Copies(job[j].date)
      BY <1>6, <2>2 DEF Copies, Of
    <3> QED
      BY <1>1, <1>6, <2>2, <3>1 DEF JobOK
  <2> QED
    BY <2>1, <2>2
<1>8. q.target # "none" => \A k \in Jobs : k # j => ~Holds(k, q.date)
  BY <1>6 DEF Core, JobsHold, HeldByOne, Holds
<1>9. Core'
  <2>1. \A i \in DOMAIN txns : i \in DOMAIN txns' /\ txns'[i] = txns[i]
    OBVIOUS
  <2>2. \A k \in Jobs, e \in Dates : k # j /\ Holds(k, e) => occ'[e] = occ[e] /\ Copies(e)' = Copies(e)
    BY <1>3
  <2> QED
    BY <1>2, <1>4, <1>5, <1>7, <1>8, <2>1, <2>2, JobStep
<1>10. Kept
  BY <1>3, KeptSame
<1>11. Shape
  BY DEF Shape, Stays, Taken
<1> QED
  BY <1>9, <1>10, <1>11 DEF Done

LEMMA RefusedStep ==
    ASSUME OccInv, NEW j \in Jobs, Refused(j)
    PROVE  Done
<1>1. Core /\ job \in [Jobs -> JobRow]
  BY DEF OccInv, Core, JobsHold
<1>2. PICK q : q = [job[j] EXCEPT !.stage = "release"]
  OBVIOUS
<1>3. job[j].stage = "post" /\ job' = [job EXCEPT ![j] = q] /\ UNCHANGED <<sched, occ, txns, today, edits>>
  BY <1>2 DEF Refused, Work, tables
<1>4. /\ q \in JobRow /\ q.stage = "release" /\ q.date = job[j].date /\ q.target = job[j].target
  BY <1>1, <1>2 DEF JobRow
<1> QED
  BY <1>1, <1>3, <1>4, OnlyJob

LEMMA CrashStep ==
    ASSUME OccInv, NEW j \in Jobs, Crash(j)
    PROVE  Done
<1>1. Core
  BY DEF OccInv
<1>2. PICK q : q = Idle
  OBVIOUS
<1>3. job' = [job EXCEPT ![j] = q] /\ UNCHANGED <<sched, occ, txns, today, edits>>
  BY <1>2 DEF Crash, tables
<1>4. q \in JobRow /\ q.stage = "idle" /\ q.target = "none"
  BY <1>2, IdleRow DEF Idle
<1> QED
  BY <1>1, <1>3, <1>4, OnlyJob

LEMMA CloneStep ==
    ASSUME OccInv, NEW j \in Jobs, Clone(j)
    PROVE  Done
<1>1. Core /\ job \in [Jobs -> JobRow] /\ JobOK(j)
  BY DEF OccInv, Core, JobsHold
<1>2. sched \in SchedRow /\ occ \in [Dates -> OccRow(Len(txns))] /\ txns \in Seq(TxnRow)
  BY <1>1, TypeParts DEF Core
<1>3. PICK q : q = [job[j] EXCEPT !.stage = "record", !.txn = Len(txns) + 1]
  OBVIOUS
<1>4. /\ job[j].stage = "post" /\ job' = [job EXCEPT ![j] = q]
      /\ txns' = Posting(job[j].date, Origin(job[j].target))
      /\ UNCHANGED <<sched, occ, today, edits>>
  BY <1>3 DEF Clone, Work
<1>5. q \in JobRow /\ q.stage = "record" /\ q.txn = Len(txns) + 1 /\ q.date = job[j].date
      /\ q.target = job[j].target
  <2>1. PICK row \in JobRow, n \in Nat : row = job[j] /\ n = Len(txns) + 1
    BY <1>1, <1>2
  <2>2. q = [row EXCEPT !.stage = "record", !.txn = n]
    BY <1>3, <2>1
  <2>3. q \in JobRow /\ q.stage = "record" /\ q.txn = n /\ q.date = row.date /\ q.target = row.target
    BY <2>2 DEF JobRow
  <2> QED
    BY <2>1, <2>3
<1>6. PICK d \in Dates, target \in {"none", "insert", "from_skipped"} : d = job[j].date /\ target = job[j].target
  BY <1>1 DEF JobRow
<1>7. PICK o \in Origins : o = Origin(target)
  BY DEF Origin, Origins
<1>8. txns' = Posting(d, o) /\ (o = "copy" <=> target # "none")
  BY <1>4, <1>6, <1>7 DEF Origin
<1>9. target # "none" => occ[d].status = "claiming" /\ ~occ[d].stale /\ Copies(d) = {}
  BY <1>1, <1>4, <1>6 DEF JobOK
<1>10. SchedTyped
  BY <1>2, <1>4 DEF SchedTyped
<1>11. OccTypeOK' /\ OpenHasNoCopy'
  BY <1>1, <1>4, <1>8, <1>9, <1>10, PostTables
<1>12. /\ Len(txns) + 1 \in DOMAIN txns'
       /\ txns'[Len(txns) + 1] = [date |-> d, origin |-> o]
       /\ \A i \in DOMAIN txns : i \in DOMAIN txns' /\ txns'[i] = txns[i]
  BY <1>2, <1>8, Posted
<1>13. \A e \in Dates : Copies(e)' = IF e = d /\ o = "copy" THEN Copies(e) \cup {Len(txns) + 1} ELSE Copies(e)
  BY <1>2, <1>8, CopiesAfter
<1>14. job'[j] = q
  BY <1>1, <1>4
<1>15. JobOK(j)'
  <2>1. q.txn \in DOMAIN txns' /\ txns'[q.txn].date = q.date
    BY <1>5, <1>6, <1>12
  <2> QED
    BY <1>1, <1>4, <1>5, <1>6, <1>9, <1>14, <2>1 DEF JobOK
<1>16. q.target # "none" => \A k \in Jobs : k # j => ~Holds(k, q.date)
  BY <1>1, <1>5, <1>6 DEF Core, JobsHold, HeldByOne, Holds
<1>17. \A k \in Jobs, e \in Dates : k # j /\ Holds(k, e) => occ'[e] = occ[e] /\ Copies(e)' = Copies(e)
  BY <1>4, <1>5, <1>6, <1>8, <1>13, <1>16
<1>18. Core'
  BY <1>1, <1>4, <1>5, <1>10, <1>11, <1>12, <1>15, <1>16, <1>17, JobStep
<1>19. Kept
  <2>1. CASE target = "none"
    BY <1>4, <1>8, <1>13, <2>1, KeptSame
  <2>2. CASE target # "none"
    <3>1. Copies(d)' = {Len(txns) + 1} /\ \A e \in Dates : e # d => Copies(e)' = Copies(e)
      BY <1>8, <1>9, <1>13, <2>2
    <3>2. /\ \A e \in Dates : e # d => Copies(e)' = Copies(e) /\ occ'[e].status = occ[e].status
          /\ Copies(d) = {} /\ occ[d].status = "claiming" /\ occ'[d].status = "claiming"
      BY <1>4, <1>9, <2>2, <3>1
    <3> QED
      BY <3>1, <3>2, KeptPost
  <2> QED
    BY <2>1, <2>2
<1>20. Shape
  BY <1>4 DEF Shape, Stays, Taken
<1> QED
  BY <1>18, <1>19, <1>20 DEF Done

LEMMA LostAnswerStep ==
    ASSUME OccInv, NEW j \in Jobs, LostAnswer(j)
    PROVE  Done
<1>1. Core /\ job \in [Jobs -> JobRow] /\ JobOK(j)
  BY DEF OccInv, Core, JobsHold
<1>2. sched \in SchedRow /\ occ \in [Dates -> OccRow(Len(txns))] /\ txns \in Seq(TxnRow)
  BY <1>1, TypeParts DEF Core
<1>3. PICK q : q = [job[j] EXCEPT !.stage = "release"]
  OBVIOUS
<1>4. /\ job[j].stage = "post" /\ job' = [job EXCEPT ![j] = q]
      /\ txns' = Posting(job[j].date, "lost")
      /\ UNCHANGED <<sched, occ, today, edits>>
  BY <1>3 DEF LostAnswer, Work
<1>5. /\ q \in JobRow /\ q.stage = "release" /\ q.date = job[j].date /\ q.target = job[j].target
  BY <1>1, <1>3 DEF JobRow
<1>6. PICK d \in Dates : d = job[j].date
  BY <1>1 DEF JobRow
<1>7. "lost" \in Origins /\ txns' = Posting(d, "lost")
  BY <1>4, <1>6 DEF Origins
<1>8. SchedTyped
  BY <1>2, <1>4 DEF SchedTyped
<1>9. OccTypeOK' /\ OpenHasNoCopy'
  BY <1>1, <1>4, <1>7, <1>8, PostTables
<1>10. \A i \in DOMAIN txns : i \in DOMAIN txns' /\ txns'[i] = txns[i]
  BY <1>2, <1>7, Posted
<1>11. \A e \in Dates : Copies(e)' = Copies(e)
  <2>1. \A e \in Dates : Copies(e)' = IF e = d /\ "lost" = "copy" THEN Copies(e) \cup {Len(txns) + 1}
                                       ELSE Copies(e)
    BY <1>2, <1>7, CopiesAfter
  <2> QED
    BY <2>1
<1>12. job'[j] = q
  BY <1>1, <1>4
<1>13. JobOK(j)'
  <2>1. Copies(job[j].date)' = Copies(job[j].date)
    <3>1. Copies(d)' = Copies(d)
      BY <1>11
    <3> QED
      BY <1>5, <1>6, <1>12, <3>1 DEF Copies, Of
  <2> QED
    BY <1>1, <1>4, <1>5, <1>6, <1>12, <2>1 DEF JobOK
<1>14. q.target # "none" => \A k \in Jobs : k # j => ~Holds(k, q.date)
  BY <1>1, <1>5, <1>6 DEF Core, JobsHold, HeldByOne, Holds
<1>15. Core'
  <2>1. \A k \in Jobs, e \in Dates : k # j /\ Holds(k, e) => occ'[e] = occ[e] /\ Copies(e)' = Copies(e)
    BY <1>4, <1>11
  <2> QED
    BY <1>1, <1>4, <1>5, <1>8, <1>9, <1>10, <1>13, <1>14, <2>1, JobStep
<1>16. Kept
  BY <1>4, <1>11, KeptSame
<1>17. Shape
  BY <1>4 DEF Shape, Stays, Taken
<1> QED
  BY <1>15, <1>16, <1>17 DEF Done

\* A job is done with its claim: its row becomes `st`.
LEMMA Ended ==
    ASSUME Core, SchedTyped, NEW j \in Jobs, job' = [job EXCEPT ![j] = Idle], txns' = txns,
           \/ occ' = occ
           \/ \E d \in Dates, st \in Status, i \in 0 .. Len(txns) :
                 /\ Holds(j, d) /\ Linked(d, st, i) /\ occ' = Row(d, st, i)
                 /\ \/ st \in {"none", "skipped"} /\ job[j].stage # "record"
                    \/ st \in {"entered", "posted"}
    PROVE  Core' /\ Kept
<1>1. /\ sched \in SchedRow /\ occ \in [Dates -> OccRow(Len(txns))] /\ txns \in Seq(TxnRow)
      /\ job \in [Jobs -> JobRow] /\ \A d \in Dates : Linked(d, occ[d].status, occ[d].txn)
  BY TypeParts DEF Core, JobsHold
<1>2. \A e \in Dates : Copies(e)' = Copies(e)
  BY CopiesSame
<1>3. JobOK(j)' /\ Idle.target = "none" /\ Idle \in JobRow
  <2>1. job'[j] = Idle
    BY <1>1
  <2> QED
    BY <2>1, IdleRow DEF JobOK, Idle
<1>4. \A i \in DOMAIN txns : i \in DOMAIN txns' /\ txns'[i] = txns[i]
  OBVIOUS
<1>5. Idle.target # "none" => \A k \in Jobs : k # j => ~Holds(k, Idle.date)
  BY <1>3
<1>6. CASE occ' = occ
  <2>1. OccTypeOK' /\ OpenHasNoCopy'
    <3>1. \A e \in Dates : Linked(e, occ[e].status, occ[e].txn)'
      BY <1>1, <1>6 DEF Linked
    <3> QED
      BY <1>1, <1>2, <1>6, <3>1, TypePartsNext DEF Core, OpenHasNoCopy, SchedTyped
  <2>2. \A k \in Jobs, e \in Dates : k # j /\ Holds(k, e) => occ'[e] = occ[e] /\ Copies(e)' = Copies(e)
    BY <1>2, <1>6
  <2>3. Core'
    BY <1>3, <1>4, <1>5, <2>1, <2>2, JobStep
  <2>4. Kept
    BY <1>2, <1>6, KeptSame
  <2> QED
    BY <2>3, <2>4
<1>7. CASE \E d \in Dates, st \in Status, i \in 0 .. Len(txns) :
                 /\ Holds(j, d) /\ Linked(d, st, i) /\ occ' = Row(d, st, i)
                 /\ \/ st \in {"none", "skipped"} /\ job[j].stage # "record"
                    \/ st \in {"entered", "posted"}
  <2>1. PICK d \in Dates, st \in Status, i \in 0 .. Len(txns) :
                 /\ Holds(j, d) /\ Linked(d, st, i) /\ occ' = Row(d, st, i)
                 /\ \/ st \in {"none", "skipped"} /\ job[j].stage # "record"
                    \/ st \in {"entered", "posted"}
    BY <1>7
  <2>2. occ[d].status = "claiming" /\ (job[j].stage # "record" => Copies(d) = {})
    BY <2>1, HeldRowIsAClaim
  <2>3. st \in {"none", "skipped"} => Copies(d) = {}
    BY <2>1, <2>2
  <2>4. OccTypeOK' /\ OpenHasNoCopy'
    BY <2>1, <2>3, RowTables
  <2>5. /\ \A e \in Dates : e # d => occ'[e] = occ[e]
        /\ occ'[d].status = st
    BY <1>1, <2>1, RowWritten
  <2>6. \A k \in Jobs : k # j => ~Holds(k, d)
    BY <2>1 DEF Core, JobsHold, HeldByOne
  <2>7. \A k \in Jobs, e \in Dates : k # j /\ Holds(k, e) => occ'[e] = occ[e] /\ Copies(e)' = Copies(e)
    BY <1>2, <2>5, <2>6
  <2>8. Core'
    BY <1>3, <1>4, <1>5, <2>4, <2>7, JobStep
  <2>9. \/ occ[d].status = "claiming" /\ Copies(d) = {} /\ occ'[d].status \in {"none", "skipped"}
        \/ occ[d].status \in {"none", "claiming", "skipped"}
              /\ occ'[d].status \in {"dismissed", "entered", "posted"}
    BY <2>1, <2>2, <2>3, <2>5
  <2>10. Kept
    BY <1>2, <2>5, <2>9, KeptMove
  <2> QED
    BY <2>8, <2>10
<1> QED
  BY <1>6, <1>7

LEMMA ReleaseStep ==
    ASSUME OccInv, NEW j \in Jobs, Release(j)
    PROVE  Done
<1>1. Core /\ job \in [Jobs -> JobRow] /\ JobOK(j)
  BY DEF OccInv, Core, JobsHold
<1>2. /\ sched \in SchedRow /\ occ \in [Dates -> OccRow(Len(txns))] /\ txns \in Seq(TxnRow)
      /\ \A e \in Dates : Linked(e, occ[e].status, occ[e].txn)
  BY <1>1, TypeParts DEF Core
<1>3. PICK q \in JobRow : q = job[j]
  BY <1>1
<1>4. /\ q.stage = "release" /\ job' = [job EXCEPT ![j] = Idle] /\ occ' = Released(q)
      /\ sched' = IF q.moved /\ sched.next = q.date + 1
                  THEN [sched EXCEPT !.next = q.date, !.left = q.left, !.active = TRUE]
                  ELSE sched
      /\ UNCHANGED <<txns, today, edits>>
  BY <1>3 DEF Release, Work
<1>5. PICK d \in Dates : d = q.date
  BY DEF JobRow
<1>6. d \in Nat /\ d \in 1 .. LastDate + 1
  BY OccurrenceConstants DEF Dates
<1>7. SchedTyped /\ GoesBack
  <2>1. sched.kind = "legacy"
    BY <1>1, <1>3, <1>4 DEF JobOK
  <2>2. CASE q.moved /\ sched.next = q.date + 1
    <3>1. sched' = [sched EXCEPT !.next = d, !.left = q.left, !.active = TRUE]
      BY <1>4, <1>5, <2>2
    <3>2. sched' \in SchedRow /\ sched'.kind = sched.kind /\ sched'.next = d
      BY <1>2, <1>6, <3>1 DEF SchedRow, JobRow
    <3> QED
      BY <1>5, <1>6, <2>1, <2>2, <3>2 DEF SchedTyped, GoesBack
  <2>3. CASE ~(q.moved /\ sched.next = q.date + 1)
    <3>1. sched' = sched /\ sched.next \in Nat
      BY <1>2, <1>4, <2>3 DEF SchedRow
    <3> QED
      BY <1>2, <2>1, <3>1 DEF SchedTyped, GoesBack
  <2> QED
    BY <2>2, <2>3
<1>8. q.target # "none" => /\ Holds(j, d) /\ occ[d].status = "claiming" /\ ~occ[d].stale
                            /\ occ[d].txn = 0
  <2>1. SUFFICES ASSUME q.target # "none" PROVE
          Holds(j, d) /\ occ[d].status = "claiming" /\ ~occ[d].stale /\ occ[d].txn = 0
    OBVIOUS
  <2>2. Holds(j, d)
    BY <1>3, <1>5, <2>1 DEF Holds
  <2>3. occ[d].status = "claiming" /\ ~occ[d].stale
    BY <1>1, <2>2, HeldRowIsAClaim
  <2>4. Linked(d, occ[d].status, occ[d].txn)
    BY <1>2
  <2> QED
    BY <2>2, <2>3, <2>4 DEF Linked
<1>9. \/ occ' = occ
      \/ \E e \in Dates, st \in Status, i \in 0 .. Len(txns) :
            /\ Holds(j, e) /\ Linked(e, st, i) /\ occ' = Row(e, st, i)
            /\ \/ st \in {"none", "skipped"} /\ job[j].stage # "record"
               \/ st \in {"entered", "posted"}
  <2>1. CASE q.target = "none"
    BY <1>4, <2>1 DEF Released
  <2>2. CASE q.target = "from_skipped"
    <3>1. occ' = [occ EXCEPT ![d].status = "skipped"]
      BY <1>4, <1>5, <2>2 DEF Released
    <3>2. PICK r \in OccRow(Len(txns)) : r = occ[d]
      BY <1>2
    <3>3. PICK b \in BOOLEAN : b = FALSE
      OBVIOUS
    <3>4. r.stale = b
      BY <1>8, <2>2, <3>2, <3>3 DEF OccRow
    <3>5. [r EXCEPT !.status = "skipped"] = [status |-> "skipped", txn |-> 0, stale |-> b]
      BY <1>8, <2>2, <3>2, <3>4 DEF OccRow
    <3>6. [status |-> "skipped", txn |-> 0, stale |-> b] = [status |-> "skipped", txn |-> 0, stale |-> FALSE]
      BY <3>3
    <3>7. occ' = Row(d, "skipped", 0)
      <4>1. [r EXCEPT !.status = "skipped"] = [status |-> "skipped", txn |-> 0, stale |-> FALSE]
        BY <3>5, <3>6, Zenon
      <4>2. PICK new : new = [status |-> "skipped", txn |-> 0, stale |-> FALSE]
        OBVIOUS
      <4>3. [r EXCEPT !.status = "skipped"] = new
        BY <4>1, <4>2, Zenon
      <4> QED
        BY <3>1, <3>2, <4>2, <4>3 DEF Row
    <3>8. Linked(d, "skipped", 0) /\ 0 \in 0 .. Len(txns) /\ "skipped" \in Status
      BY <1>2 DEF Linked, Status
    <3>9. Holds(j, d) /\ job[j].stage # "record"
      BY <1>3, <1>4, <1>8, <2>2
    <3> QED
      BY <3>7, <3>8, <3>9
  <2>3. CASE q.target = "insert"
    <3>1. occ' = [occ EXCEPT ![d] = IF @.status = "claiming" THEN NoRow ELSE @]
      BY <1>4, <1>5, <2>3 DEF Released
    <3>2. occ' = Row(d, "none", 0)
      BY <1>2, <1>8, <2>3, <3>1 DEF Row, NoRow
    <3>3. Linked(d, "none", 0) /\ 0 \in 0 .. Len(txns) /\ "none" \in Status
      BY <1>2 DEF Linked, Status
    <3>4. Holds(j, d) /\ job[j].stage # "record"
      BY <1>3, <1>4, <1>8, <2>3
    <3> QED
      BY <3>2, <3>3, <3>4
  <2> QED
    BY <2>1, <2>2, <2>3 DEF JobRow
<1>10. Core' /\ Kept
  BY <1>1, <1>4, <1>7, <1>9, Ended
<1>11. Shape
  BY <1>4, <1>7 DEF Shape, SchedTyped
<1> QED
  BY <1>10, <1>11 DEF Done

LEMMA RecordStep ==
    ASSUME OccInv, NEW j \in Jobs, Record(j)
    PROVE  Done
<1>1. Core /\ job \in [Jobs -> JobRow] /\ JobOK(j)
  BY DEF OccInv, Core, JobsHold
<1>2. /\ sched \in SchedRow /\ occ \in [Dates -> OccRow(Len(txns))] /\ txns \in Seq(TxnRow)
  BY <1>1, TypeParts DEF Core
<1>3. PICK q \in JobRow : q = job[j]
  BY <1>1
<1>4. /\ q.stage = "record" /\ job' = [job EXCEPT ![j] = Idle]
      /\ occ' = IF q.target = "none" THEN occ
                ELSE Row(q.date, IF q.mode = "auto" THEN "posted" ELSE "entered", q.txn)
      /\ sched' = IF q.live /\ q.target # "none" THEN Marked(sched) ELSE sched
      /\ UNCHANGED <<txns, today, edits>>
  BY <1>3 DEF Record, Work
<1>5. SchedTyped /\ sched'.next = sched.next /\ sched'.left = sched.left /\ sched'.active = sched.active
  BY <1>2, <1>4 DEF SchedTyped, Marked, SchedRow
<1>6. PICK d \in Dates, st \in {"posted", "entered"} :
        d = q.date /\ st = IF q.mode = "auto" THEN "posted" ELSE "entered"
  BY DEF JobRow
<1>7. q.txn \in DOMAIN txns /\ txns[q.txn].date = d
  BY <1>1, <1>3, <1>4, <1>6 DEF JobOK
<1>8. Linked(d, st, q.txn) /\ q.txn \in 0 .. Len(txns) /\ st \in Status
  BY <1>2, <1>7 DEF Linked, Status
<1>9. q.target # "none" => Holds(j, d) /\ occ' = Row(d, st, q.txn)
  BY <1>3, <1>4, <1>6 DEF Holds
<1>10. \/ occ' = occ
       \/ \E e \in Dates, u \in Status, i \in 0 .. Len(txns) :
             /\ Holds(j, e) /\ Linked(e, u, i) /\ occ' = Row(e, u, i)
             /\ \/ u \in {"none", "skipped"} /\ job[j].stage # "record"
                \/ u \in {"entered", "posted"}
  BY <1>4, <1>8, <1>9
<1>11. Core' /\ Kept
  BY <1>1, <1>4, <1>5, <1>10, Ended
<1>12. \A e \in Dates : Taken(e)' <=> Taken(e)
  <2>1. CASE q.target = "none"
    BY <1>4, <2>1 DEF Taken
  <2>2. CASE q.target # "none"
    <3>1. /\ \A e \in Dates : e # d => occ'[e] = occ[e]
          /\ occ'[d].status = st
      <4>1. PICK i : i = q.txn
        OBVIOUS
      <4>2. occ' = Row(d, st, i)
        BY <1>9, <2>2, <4>1
      <4> QED
        BY <1>2, <4>2, RowWritten
    <3>2. occ[d].status = "claiming"
      BY <1>1, <1>9, <2>2, HeldRowIsAClaim
    <3> QED
      BY <3>1, <3>2 DEF Taken
  <2> QED
    BY <2>1, <2>2
<1>13. Shape
  BY <1>4, <1>5, <1>12 DEF Shape, Stays, SchedTyped
<1> QED
  BY <1>11, <1>13 DEF Done

-----------------------------------------------------------------------------
(* The invariant, and what follows from it *)

LEMMA OwnerStep ==
    ASSUME OccInv, Owner
    PROVE  Done
<1>1. sched \in SchedRow
  BY TypeParts DEF OccInv, Core
<1>2. CASE \E d \in Dates : Enter(d) \/ Dismiss(d) \/ SaveForm(d) \/ \E i \in DOMAIN txns : Resolve(d, i)
  BY <1>2, EnterStep, DismissStep, SaveFormStep, ResolveStep
<1>3. CASE \E mode \in Modes, next \in Dates, left \in Counts, end \in Ends : SetSchedule(mode, next, left, end)
  <2>1. PICK mode \in Modes, next \in Dates, left \in Counts, end \in Ends : SetSchedule(mode, next, left, end)
    BY <1>3
  <2>2. PICK s : s = [sched EXCEPT !.mode = mode, !.next = next, !.left = left, !.end = end,
                                   !.active = TRUE, !.archived = FALSE]
    OBVIOUS
  <2>3. next \in 1 .. LastDate + 1 /\ left \in Nat \cup {None}
    BY OccurrenceConstants DEF Dates
  <2>4. s \in SchedRow /\ s.kind = sched.kind
    BY <1>1, <2>2, <2>3 DEF SchedRow
  <2>5. Edit(s)
    BY <2>1, <2>2 DEF SetSchedule
  <2> QED
    BY <2>4, <2>5, EditStep
<1>4. CASE \E mode \in Modes, start \in Dates, end \in Ends : UpdateSchedule(mode, start, end)
  <2>1. PICK mode \in Modes, start \in Dates, end \in Ends : UpdateSchedule(mode, start, end)
    BY <1>4
  <2>2. PICK s : s = [sched EXCEPT !.mode = mode, !.end = end, !.next = IF sched.posted THEN @ ELSE start]
    OBVIOUS
  <2>3. start \in 1 .. LastDate + 1
    BY OccurrenceConstants DEF Dates
  <2>4. s \in SchedRow /\ s.kind = sched.kind
    BY <1>1, <2>2, <2>3 DEF SchedRow
  <2>5. Edit(s)
    BY <2>1, <2>2 DEF UpdateSchedule
  <2> QED
    BY <2>4, <2>5, EditStep
<1>5. CASE RemoveSchedule
  <2>1. PICK s : s = [sched EXCEPT !.active = FALSE, !.archived = TRUE]
    OBVIOUS
  <2>2. s \in SchedRow /\ s.kind = sched.kind /\ Edit(s)
    BY <1>1, <1>5, <2>1 DEF SchedRow, RemoveSchedule
  <2> QED
    BY <2>2, EditStep
<1>6. CASE Deactivate
  <2>1. PICK s : s = [sched EXCEPT !.active = FALSE]
    OBVIOUS
  <2>2. s \in SchedRow /\ s.kind = sched.kind /\ Edit(s)
    BY <1>1, <1>6, <2>1 DEF SchedRow, Deactivate
  <2> QED
    BY <2>2, EditStep
<1>7. CASE Archive
  <2>1. PICK s : s = [sched EXCEPT !.archived = TRUE]
    OBVIOUS
  <2>2. s \in SchedRow /\ s.kind = sched.kind /\ Edit(s)
    BY <1>1, <1>7, <2>1 DEF SchedRow, Archive
  <2> QED
    BY <2>2, EditStep
<1>8. CASE Unarchive
  <2>1. PICK s : s = [sched EXCEPT !.archived = FALSE]
    OBVIOUS
  <2>2. s \in SchedRow /\ s.kind = sched.kind /\ Edit(s)
    BY <1>1, <1>8, <2>1 DEF SchedRow, Unarchive
  <2> QED
    BY <2>2, EditStep
<1> QED
  BY <1>2, <1>3, <1>4, <1>5, <1>6, <1>7, <1>8 DEF Owner

LEMMA EveryStep ==
    ASSUME OccInv, Next
    PROVE  Done
<1>1. CASE \E asOf \in {today, today + 1} : Run(asOf)
  BY <1>1, StopStep, AlreadyStep, AutoSkipStep, AutoPostStep DEF Run
<1>2. CASE \E j \in Jobs : LegacyStep(j)
  <2>1. PICK j \in Jobs : LegacyStep(j)
    BY <1>2
  <2> QED
    BY <2>1, ClaimAutoStep, ClaimManualStep, CloneStep, RefusedStep, LostAnswerStep, ReleaseStep,
       RecordStep, CrashStep DEF LegacyStep
<1>3. CASE Owner
  BY <1>3, OwnerStep
<1>4. CASE Tomorrow
  BY <1>4, TomorrowStep
<1>5. CASE \E d \in Dates : Stale(d)
  BY <1>5, StaleStep
<1> QED
  BY <1>1, <1>2, <1>3, <1>4, <1>5 DEF Next

LEMMA ClockStep ==
    ASSUME OccInv, Next, Shape
    PROVE  Clock'
<1>1. edits' \in Nat
  BY DEF OccInv, Clock, Shape
<1>2. today' \in 0 .. LastDate - 1
  <2>1. today' = today \/ (today < LastDate - 1 /\ today' = today + 1)
    <3>1. Owner => today' = today
      BY DEF Owner, Enter, Dismiss, SaveForm, Resolve, Settle, SetSchedule, UpdateSchedule, RemoveSchedule,
             Deactivate, Archive, Unarchive, Edit
    <3>2. \A j \in Jobs : LegacyStep(j) => today' = today
      BY DEF LegacyStep, ClaimAuto, ClaimManual, Clone, Refused, LostAnswer, Release, Record, Crash
    <3>3. \A asOf : Run(asOf) => today' = today
      BY DEF Run, Stop, Already, AutoSkip, AutoPost
    <3> QED
      BY <3>1, <3>2, <3>3 DEF Next, Tomorrow, Stale
  <2> QED
    BY <2>1, OccurrenceConstants DEF OccInv, Clock
<1> QED
  BY <1>1, <1>2 DEF Clock

LEMMA OccInit ==
    ASSUME Init
    PROVE  OccInv /\ Promise!Init
<1>1. PICK kind \in Kinds, mode \in Modes, left \in Counts, end \in Ends :
         sched = [kind |-> kind, active |-> TRUE, archived |-> FALSE, mode |-> mode, next |-> 1,
                  left |-> left, end |-> end, posted |-> FALSE]
  BY DEF Init
<1>2. 1 \in 1 .. LastDate + 1 /\ left \in Nat \cup {None} /\ left # 0
  BY OccurrenceConstants
<1>3. sched \in SchedRow /\ sched.next = 1 /\ sched.left = left
  BY <1>1, <1>2 DEF SchedRow
<1>4. occ = [d \in Dates |-> NoRow] /\ txns = <<>> /\ job = [j \in Jobs |-> Idle] /\ today = 0 /\ edits = 0
  BY DEF Init
<1>5. \A d \in Dates : occ[d] = NoRow /\ occ[d].status = "none" /\ occ[d].txn = 0
  BY <1>4 DEF NoRow
<1>6. OccTypeOK
  <2>1. txns \in Seq(TxnRow) /\ Len(txns) = 0
    BY <1>4
  <2>2. NoRow \in OccRow(Len(txns))
    BY <2>1 DEF NoRow, OccRow, Status
  <2>3. occ \in [Dates -> OccRow(Len(txns))]
    BY <1>4, <2>2
  <2>4. \A d \in Dates : Linked(d, occ[d].status, occ[d].txn)
    BY <1>5 DEF Linked
  <2> QED
    BY <1>3, <2>1, <2>3, <2>4, TypeParts
<1>7. \A d \in Dates : Copies(d) = {}
  BY <1>4 DEF Copies, Of
<1>8. JobsHold
  <2>1. job \in [Jobs -> JobRow]
    BY <1>4, IdleRow
  <2>2. \A j \in Jobs : job[j].stage = "idle" /\ job[j].target = "none"
    BY <1>4 DEF Idle
  <2> QED
    BY <2>1, <2>2 DEF JobsHold, JobOK, HeldByOne, Holds
<1>9. OpenHasNoCopy
  BY <1>7 DEF OpenHasNoCopy
<1>10. Clock
  BY <1>4, OccurrenceConstants DEF Clock
<1>11. InOrder
  <2>1. \A d \in Dates : ~Taken(d) /\ ~(d < 1)
    BY <1>5 DEF Taken, Dates
  <2>2. left # None => left \in Nat /\ left + (1 - 1) = left
    BY OccurrenceConstants
  <2> QED
    BY <1>2, <1>3, <2>1, <2>2 DEF InOrder
<1>12. Promise!Init
  <2>1. \A d \in Dates : Fate(d) = "open"
    BY <1>5 DEF Fate
  <2>2. \A d \in Dates : Cardinality(Copies(d)) = 0
    BY <1>7, FS_EmptySet
  <2> QED
    BY <2>1, <2>2 DEF Promise!Init
<1> QED
  BY <1>6, <1>8, <1>9, <1>10, <1>11, <1>12 DEF OccInv, Core

LEMMA OccNext ==
    ASSUME OccInv, [Next]_vars
    PROVE  OccInv' /\ Kept /\ [PassesNone]_vars
<1>1. CASE Next
  <2>1. Core' /\ Shape /\ Kept
    BY <1>1, EveryStep DEF Done
  <2>2. Clock'
    BY <1>1, <2>1, ClockStep
  <2>3. InOrder' /\ PassesNone
    BY <2>1, InOrderNext, ShapePassesNone DEF OccInv
  <2> QED
    BY <2>1, <2>2, <2>3 DEF OccInv
<1>2. CASE UNCHANGED vars
  <2>1. UNCHANGED <<sched, occ, txns, job, today, edits>>
    BY <1>2 DEF vars
  <2>2. sched \in SchedRow
    BY TypeParts DEF OccInv, Core
  <2>3. Core' /\ Kept
    BY <2>1, <2>2, OnlySched DEF OccInv, SchedTyped
  <2>4. Clock' /\ InOrder'
    BY <2>1 DEF OccInv, Clock, InOrder, Untouched, Taken
  <2> QED
    BY <1>2, <2>3, <2>4 DEF OccInv
<1> QED
  BY <1>1, <1>2

\* Whoever is at work on the template, a date in a job's hands is held by
\* that job alone, and a date that can still be taken has no copy.
THEOREM OccInvariant == Spec => []OccInv
<1>1. Init => OccInv
  BY OccInit
<1>2. OccInv /\ [Next]_vars => OccInv'
  BY OccNext
<1> QED
  BY <1>1, <1>2, PTL DEF Spec

\* The columns keep their types, and a settled row is linked with a
\* transaction of its own date.
THEOREM RowsAreLinked == Spec => []OccTypeOK
<1>1. OccInv => OccTypeOK
  BY DEF OccInv, Core
<1> QED
  BY <1>1, OccInvariant, PTL

\* Of a template posted in one transaction, whose schedule is as its owner
\* set it, no date before the next one is without a row.
THEOREM NothingIsLost == Spec => []ReplayNothingLost
<1>1. OccInv => ReplayNothingLost
  <2>1. SUFFICES ASSUME OccInv, Untouched, NEW d \in 1 .. sched.next - 1 PROVE Taken(d)
    BY DEF ReplayNothingLost, Untouched
  <2>2. sched.next \in 1 .. LastDate + 1
    BY <2>1, TypeParts DEF OccInv, Core, SchedRow
  <2>3. d \in Dates /\ d < sched.next
    BY <2>1, <2>2, OccurrenceConstants DEF Dates
  <2> QED
    BY <2>1, <2>3 DEF OccInv, InOrder
<1> QED
  BY <1>1, OccInvariant, PTL

\* Of such a template, what is left of the count and the dates handled add
\* up to a count the owner may have asked for.
THEOREM CountIsKept == Spec => []CountKept
<1>1. OccInv => CountKept
  <2>1. SUFFICES ASSUME OccInv, Untouched, sched.left # None
                 PROVE  sched.left + Cardinality({d \in Dates : Taken(d)}) \in Counts
    BY DEF CountKept, Untouched
  <2>2. sched.next \in 1 .. LastDate + 1
    BY <2>1, TypeParts DEF OccInv, Core, SchedRow
  <2>3. /\ \A d \in Dates : Taken(d) <=> d < sched.next
        /\ sched.left + (sched.next - 1) \in Counts
    BY <2>1 DEF OccInv, InOrder
  <2>4. {d \in Dates : Taken(d)} = 1 .. sched.next - 1
    BY <2>2, <2>3, OccurrenceConstants DEF Dates
  <2>5. Cardinality(1 .. sched.next - 1) = sched.next - 1
    <3>1. PICK n \in Nat : n = sched.next - 1
      BY <2>2
    <3>2. Cardinality(1 .. n) = n
      BY FS_Interval
    <3> QED
      BY <3>1, <3>2
  <2> QED
    BY <2>3, <2>4, <2>5
<1> QED
  BY <1>1, OccInvariant, PTL

\* The program's own steps never move the schedule past a date without a row.
THEOREM NoOpenDateIsPassed == Spec => NeverPassesAnOpenDate
<1>1. OccInv /\ [Next]_vars => [PassesNone]_vars
  BY OccNext
<1> QED
  BY <1>1, OccInvariant, PTL DEF Spec, NeverPassesAnOpenDate, PassesNone

\* The program implements ExactlyOnce: each date is posted once or not at
\* all, a settled one stays settled, and a claim is let go of only if
\* nothing was posted under it.
THEOREM ExactlyOnceIsKept == Spec => KeepsExactlyOnce
<1>1. Init => Promise!Init
  BY OccInit
<1>2. OccInv /\ [Next]_vars => [Promise!Next]_(Promise!vars)
  BY OccNext DEF Kept
<1> QED
  BY <1>1, <1>2, OccInvariant, PTL DEF Spec, KeepsExactlyOnce, Promise!Spec

=============================================================================
