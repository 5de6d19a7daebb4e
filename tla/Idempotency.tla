---------------------------- MODULE Idempotency ----------------------------
(***************************************************************************)
(* One Idempotency-Key of one user: middleware/idempotent.ts around the    *)
(* handler, services/idempotency.service.ts inside its transaction, and    *)
(* the row of idempotency_keys they share.                                 *)
(*                                                                         *)
(* An attempt is one HTTP request with the key.  Attempts overlap: a       *)
(* client that gave up sends the next while the first still runs.          *)
(***************************************************************************)
EXTENDS Naturals, FiniteSets

CONSTANTS
    Attempts,       \* HTTP requests sent with the key
    Hashes,         \* what is asked for: requestHash
    Faults,         \* what may go wrong: a route bug, a failed settle, a failed look-up
    None

ASSUME IdempotencyConstants ==
    /\ None \notin Attempts /\ None \notin Hashes
    /\ Faults \subseteq {"second_tx", "settle", "lookup"}

VARIABLES
    row,        \* the committed row of the key, or NoRow
    lock,       \* the attempt whose transaction holds the advisory lock, or None
    att,        \* per attempt, its hash, where it is and how it was answered
    gen,        \* how many times a row of the key has expired
    posted      \* per attempt, 1 + gen when its posting committed; 0: none

vars == <<row, lock, att, gen, posted>>

NoRow == [hash |-> None, by |-> None, state |-> "none", expired |-> FALSE]

\* ctx.failed is `failed`; ctx.claimTx and ctx.rowId are set iff `claimed`;
\* `blind`: findLive threw when settleJson looked the key up.
Unsent == [stage |-> "unsent", hash |-> None, claimed |-> FALSE, failed |-> FALSE,
           blind |-> FALSE, answer |-> "none"]

\* findLive
LiveRow == row.state # "none" /\ ~row.expired

\* Mutant: whatever is stored is replayed with the route's success status.
ReplayAsSuccess == "replayed"
\* replayOf: a stored error as the error, anything else as the success.
Replay == IF row.state = "done_error" THEN "replayed_error" ELSE "replayed"

Ended(a) == att[a].stage \in {"unsent", "answered", "dead"}
Go(a, stage) == att' = [att EXCEPT ![a].stage = stage]
Answer(a, answer) == att' = [att EXCEPT ![a].stage = "answered", ![a].answer = answer]

-----------------------------------------------------------------------------
(* The pre-check *)

Send(a, h) ==
    LET sent == [Unsent EXCEPT !.hash = h] IN
    /\ att[a].stage = "unsent"
    /\ att' = [att EXCEPT ![a] =
           IF ~LiveRow THEN [sent EXCEPT !.stage = "running"]
           ELSE [sent EXCEPT !.stage = "answered",
                             !.answer = IF row.hash = h THEN Replay ELSE "reused"]]
    /\ UNCHANGED <<row, lock, gen, posted>>

-----------------------------------------------------------------------------
(* The handler: claimIdempotency in the posting's transaction, and its end *)

\* Validation and permission refusals before any claim.
RefuseEarly(a) ==
    /\ att[a].stage = "running" /\ ~att[a].claimed
    /\ Go(a, "refused")
    /\ UNCHANGED <<row, lock, gen, posted>>

\* Mutant: the claim deletes the row it finds, expired or not.
MayClaimAnyway == lock = None
\* The lock is free and no live row has the key.
MayClaim == lock = None /\ ~LiveRow

Claim(a) ==
    /\ att[a].stage = "running" /\ ~att[a].claimed /\ MayClaim
    /\ lock' = a
    /\ att' = [att EXCEPT ![a].stage = "claimed", ![a].claimed = TRUE]
    /\ UNCHANGED <<row, gen, posted>>

\* 409 in progress: the lock is taken, or a row of this request has appeared.
ClaimRefused(a) ==
    /\ att[a].stage = "running" /\ ~att[a].claimed
    /\ lock # None \/ (LiveRow /\ row.hash = att[a].hash)
    /\ Go(a, "in_progress")
    /\ UNCHANGED <<row, lock, gen, posted>>

\* 422: a row of another request has appeared.
ClaimReused(a) ==
    /\ att[a].stage = "running" /\ ~att[a].claimed
    /\ lock = None /\ LiveRow /\ row.hash # att[a].hash
    /\ Go(a, "reused")
    /\ UNCHANGED <<row, lock, gen, posted>>

\* Mutant: a persisted state 'pending' until the answer.
CommittedRowPending(a) == [hash |-> att[a].hash, by |-> a, state |-> "pending", expired |-> FALSE]
\* The row commits with the posting.
CommittedRow(a) == [hash |-> att[a].hash, by |-> a, state |-> "committed", expired |-> FALSE]

Commit(a) ==
    /\ att[a].stage = "claimed"
    /\ row' = CommittedRow(a)
    /\ posted' = [posted EXCEPT ![a] = gen + 1]
    /\ lock' = None
    /\ Go(a, "committed")
    /\ UNCHANGED gen

\* A refusal after the claim rolls everything back.
Rollback(a) ==
    /\ att[a].stage = "claimed"
    /\ lock' = None
    /\ Go(a, "refused")
    /\ UNCHANGED <<row, gen, posted>>

\* Something after the commit fails (reading the record back, a side effect).
FailLater(a) == att[a].stage = "committed" /\ Go(a, "refused") /\ UNCHANGED <<row, lock, gen, posted>>

\* A claim in a second transaction of the request: routeBug.
SecondClaim(a) ==
    /\ "second_tx" \in Faults
    /\ att[a].claimed /\ ~att[a].failed /\ att[a].stage \in {"committed", "refused"}
    /\ att' = [att EXCEPT ![a].stage = "failed", ![a].failed = TRUE]
    /\ UNCHANGED <<row, lock, gen, posted>>

\* The server dies: its transaction is undone, its lock released.
Crash(a) ==
    /\ ~Ended(a)
    /\ lock' = IF lock = a THEN None ELSE lock
    /\ Go(a, "dead")
    /\ UNCHANGED <<row, gen, posted>>

-----------------------------------------------------------------------------
(* settleJson *)

\* settleDone, which may fail and leave the row 'committed'.
AnswerOk(a) ==
    /\ att[a].stage = "committed"
    /\ \/ row' = IF row.by = a THEN [row EXCEPT !.state = "done"] ELSE row
       \/ "settle" \in Faults /\ UNCHANGED row
    /\ Answer(a, "ok")
    /\ UNCHANGED <<lock, gen, posted>>

\* Mutant: the error is sent without looking the key up again.
RefusedAsIs(a) == att[a].stage
\* A row of this request that committed meanwhile is replayed instead.
RefusedOrReplayed(a) ==
    IF LiveRow /\ row.hash = att[a].hash THEN Replay ELSE att[a].stage

AnswerRefused(a) ==
    /\ att[a].stage \in {"refused", "in_progress", "reused"}
    /\ Answer(a, RefusedOrReplayed(a))
    /\ UNCHANGED <<row, lock, gen, posted>>

\* findLive throws: the error is sent, whatever has been committed.
AnswerBlind(a) ==
    /\ "lookup" \in Faults
    /\ att[a].stage \in {"refused", "in_progress", "reused"}
    /\ att' = [att EXCEPT ![a].stage = "answered", ![a].answer = att[a].stage, ![a].blind = TRUE]
    /\ UNCHANGED <<row, lock, gen, posted>>

\* settleRouteBug: inserts the error, or overwrites this request's live row.
\* An insert waits for the transaction that has inserted the key.
AnswerFailed(a) ==
    LET error == [hash |-> att[a].hash, by |-> a, state |-> "done_error", expired |-> FALSE] IN
    /\ att[a].stage = "failed" /\ lock = None
    /\ \/ row' = IF row.state = "none" THEN error
                 ELSE IF LiveRow /\ row.hash = att[a].hash THEN [row EXCEPT !.state = "done_error"]
                 ELSE row
       \/ "settle" \in Faults /\ UNCHANGED row
    /\ Answer(a, "route_bug")
    /\ UNCHANGED <<lock, gen, posted>>

-----------------------------------------------------------------------------
\* 24 hours after it was written; the request that wrote it has long ended.
Expire ==
    /\ LiveRow /\ Ended(row.by)
    /\ row' = [row EXCEPT !.expired = TRUE]
    /\ gen' = gen + 1
    /\ UNCHANGED <<lock, att, posted>>

\* Mutant: the sweep looks at state 'done' rather than at the age.
SweepableWhenDone == row.state = "done" \/ row.expired
Sweepable == row.expired

\* sweepExpired.  (A claim deletes an expired row too.)
Sweep ==
    /\ Sweepable
    /\ row' = NoRow
    /\ UNCHANGED <<lock, att, gen, posted>>

Init ==
    /\ row = NoRow /\ lock = None /\ gen = 0
    /\ att = [a \in Attempts |-> Unsent]
    /\ posted = [a \in Attempts |-> 0]

Next ==
    \/ \E a \in Attempts :
         \/ \E h \in Hashes : Send(a, h)
         \/ RefuseEarly(a) \/ Claim(a) \/ ClaimRefused(a) \/ ClaimReused(a)
         \/ Commit(a) \/ Rollback(a) \/ FailLater(a) \/ SecondClaim(a) \/ Crash(a)
         \/ AnswerOk(a) \/ AnswerRefused(a) \/ AnswerBlind(a) \/ AnswerFailed(a)
    \/ Expire \/ Sweep

Spec == Init /\ [][Next]_vars

-----------------------------------------------------------------------------
(* Properties *)

Stages == {"unsent", "running", "claimed", "committed", "refused", "in_progress",
           "reused", "failed", "answered", "dead"}
Answers == {"none", "ok", "replayed", "replayed_error", "reused", "refused", "in_progress", "route_bug"}

KeyRow == [hash : Hashes \cup {None}, by : Attempts \cup {None}, expired : BOOLEAN,
           state : {"none", "committed", "done", "done_error"}]
Request == [hash : Hashes \cup {None}, claimed : BOOLEAN, failed : BOOLEAN, blind : BOOLEAN,
            stage : Stages, answer : Answers]

\* The columns of idempotency_keys and of the request context (IdemCtx).
IdemTypeOK ==
    /\ row \in KeyRow /\ lock \in Attempts \cup {None} /\ gen \in Nat
    /\ att \in [Attempts -> Request]
    /\ posted \in [Attempts -> Nat]

\* Until the key is forgotten, the requests sent with it post once between
\* them: overlapping, retried, crashed or answered late.
PostsOnce == \A a, b \in Attempts : (a # b /\ posted[a] # 0) => posted[a] # posted[b]

\* A posting leaves a row, so a retry finds it until it expires: the client
\* that never got an answer can ask again.
PostedIsRemembered == (\E a \in Attempts : posted[a] = gen + 1) => LiveRow

SuccessWasPosted ==
    \A a \in Attempts : att[a].answer \in {"ok", "replayed"} =>
        \E b \in Attempts : posted[b] # 0 /\ att[b].hash = att[a].hash
Refused(a) == att[a].answer \in {"refused", "in_progress", "reused"}
RefusedAfterPostingOnlyBlind == \A a \in Attempts : (posted[a] # 0 /\ Refused(a)) => att[a].blind
\* A success is answered only of a posting, the request's own or another
\* attempt's at the same thing, and a request whose own posting committed is
\* answered with a refusal only when settleJson could not read the key: a
\* failure after the commit is not enough (settleJson, replayOf).
AnswersTrue == SuccessWasPosted /\ RefusedAfterPostingOnlyBlind
=============================================================================
