------------------------- MODULE IdempotencyProofs -------------------------
(***************************************************************************)
(* Proofs about Idempotency for any number of requests with a key.         *)
(*                                                                         *)
(* PostsOnce alone is not inductive: a second request could commit if it   *)
(* were inside its transaction while the key has a live row.  The          *)
(* invariant therefore says what the advisory lock is for: its holder is   *)
(* the only request inside its transaction, the key has no live row        *)
(* meanwhile, and the row of a posting stays live and its request's own    *)
(* for as long as that request is at work.                                 *)
(***************************************************************************)
EXTENDS Idempotency, TLAPS

\* The lock is held exactly by the request that is inside its transaction.
LockIsClaim == \A a \in Attempts : lock = a <=> att[a].stage = "claimed"

\* How far a request is says whether it has claimed, posted and answered.
StagesAgree ==
    \A a \in Attempts :
        /\ att[a].stage \in {"unsent", "running", "in_progress", "reused"} => ~att[a].claimed
        /\ att[a].stage \in {"claimed", "committed", "failed"} => att[a].claimed
        /\ att[a].stage = "claimed" \/ ~att[a].claimed => posted[a] = 0
        /\ att[a].stage = "committed" => posted[a] # 0
        /\ att[a].stage # "answered" => att[a].answer = "none"

\* While a request is inside its transaction the key has no live row.
ClaimMeansNoRow == lock # None => ~LiveRow

\* The row of a posting is its request's as long as the request is at work.
RowOfPosting ==
    \A a \in Attempts : (posted[a] # 0 /\ ~Ended(a)) =>
        LiveRow /\ row.by = a /\ row.hash = att[a].hash /\ posted[a] = gen + 1

\* A row that is replayed as a success is the row of a posting.
RowTellsTheTruth ==
    row.state \in {"committed", "done"} =>
        row.by \in Attempts /\ posted[row.by] # 0 /\ row.hash = att[row.by].hash

\* Postings carry the generation of the key they were made in.
Generations == \A a \in Attempts : posted[a] <= gen + 1

StagesInv == LockIsClaim /\ StagesAgree
RowInv == ClaimMeansNoRow /\ RowOfPosting /\ RowTellsTheTruth /\ PostedIsRemembered
PostingInv == Generations /\ PostsOnce

IdemInv == IdemTypeOK /\ StagesInv /\ RowInv /\ PostingInv /\ AnswersTrue

-----------------------------------------------------------------------------
(* What an update of a row or a request can be *)

\* A row stays one when it expires or is settled.
LEMMA KeyRowTypes ==
    ASSUME NEW r \in KeyRow
    PROVE  /\ [r EXCEPT !.expired = TRUE] \in KeyRow
           /\ \A state \in {"done", "done_error"} : [r EXCEPT !.state = state] \in KeyRow
BY Zenon DEF KeyRow

\* A request stays one when it moves on, is answered, claims or fails.
LEMMA RequestTypes ==
    ASSUME NEW f \in [Attempts -> Request], NEW a \in Attempts, NEW stage \in Stages
    PROVE  /\ [f EXCEPT ![a].stage = stage] \in [Attempts -> Request]
           /\ \A answer \in Answers : [f EXCEPT ![a].stage = stage, ![a].answer = answer] \in [Attempts -> Request]
           /\ \A answer \in Answers :
                [f EXCEPT ![a].stage = stage, ![a].answer = answer, ![a].blind = TRUE] \in [Attempts -> Request]
           /\ [f EXCEPT ![a].stage = stage, ![a].claimed = TRUE] \in [Attempts -> Request]
           /\ [f EXCEPT ![a].stage = stage, ![a].failed = TRUE] \in [Attempts -> Request]
<1>1. PICK r \in Request : r = f[a]
  OBVIOUS
<1>2. \A n \in Request : [f EXCEPT ![a] = n] \in [Attempts -> Request]
  OBVIOUS
<1>3. [r EXCEPT !.stage = stage] \in Request
  BY Zenon DEF Request
<1>4. \A answer \in Answers : [r EXCEPT !.stage = stage, !.answer = answer] \in Request
  BY Zenon DEF Request
<1>5. [r EXCEPT !.stage = stage, !.claimed = TRUE] \in Request
  BY Zenon DEF Request
<1>6. [r EXCEPT !.stage = stage, !.failed = TRUE] \in Request
  BY Zenon DEF Request
<1>7. [f EXCEPT ![a].stage = stage] = [f EXCEPT ![a] = [r EXCEPT !.stage = stage]]
  BY <1>1
<1>8. \A answer \in Answers :
        [f EXCEPT ![a].stage = stage, ![a].answer = answer] = [f EXCEPT ![a] = [r EXCEPT !.stage = stage, !.answer = answer]]
  BY <1>1
<1>9. [f EXCEPT ![a].stage = stage, ![a].claimed = TRUE] = [f EXCEPT ![a] = [r EXCEPT !.stage = stage, !.claimed = TRUE]]
  BY <1>1
<1>10. [f EXCEPT ![a].stage = stage, ![a].failed = TRUE] = [f EXCEPT ![a] = [r EXCEPT !.stage = stage, !.failed = TRUE]]
  BY <1>1
<1>11. [f EXCEPT ![a].stage = stage] \in [Attempts -> Request]
  BY <1>2, <1>3, <1>7
<1>12. \A answer \in Answers : [f EXCEPT ![a].stage = stage, ![a].answer = answer] \in [Attempts -> Request]
  BY <1>2, <1>4, <1>8
<1>13. [f EXCEPT ![a].stage = stage, ![a].claimed = TRUE] \in [Attempts -> Request]
  BY <1>2, <1>5, <1>9
<1>14. [f EXCEPT ![a].stage = stage, ![a].failed = TRUE] \in [Attempts -> Request]
  BY <1>2, <1>6, <1>10
<1>15. \A answer \in Answers : [r EXCEPT !.stage = stage, !.answer = answer, !.blind = TRUE] \in Request
  BY Zenon DEF Request
<1>16. \A answer \in Answers :
        [f EXCEPT ![a].stage = stage, ![a].answer = answer, ![a].blind = TRUE]
            = [f EXCEPT ![a] = [r EXCEPT !.stage = stage, !.answer = answer, !.blind = TRUE]]
  BY <1>1
<1>17. \A answer \in Answers :
        [f EXCEPT ![a].stage = stage, ![a].answer = answer, ![a].blind = TRUE] \in [Attempts -> Request]
  BY <1>2, <1>15, <1>16
<1> QED
  BY <1>11, <1>12, <1>13, <1>14, <1>17

\* An answer keeps the requests what they are.
LEMMA AnswerTypes ==
    ASSUME IdemTypeOK, NEW a \in Attempts, NEW answer \in Answers, Answer(a, answer)
    PROVE  att' \in [Attempts -> Request]
<1>1. "answered" \in Stages
  BY DEF Stages
<1>2. PICK f \in [Attempts -> Request] : f = att
  BY DEF IdemTypeOK
<1>3. [f EXCEPT ![a].stage = "answered", ![a].answer = answer] \in [Attempts -> Request]
  BY <1>1, RequestTypes
<1>4. att' = [f EXCEPT ![a].stage = "answered", ![a].answer = answer]
  BY <1>2 DEF Answer
<1> QED
  BY <1>3, <1>4

-----------------------------------------------------------------------------
(* One lemma for each action, one step for each part of the invariant *)

\* The pre-check answers from the row it reads, or lets the request in.
LEMMA SendStep ==
    ASSUME IdemInv, NEW a \in Attempts, NEW h \in Hashes, Send(a, h)
    PROVE  IdemInv'
<1> USE IdempotencyConstants DEF IdemInv
<1>1. IdemTypeOK'
  <2>1. Unsent \in Request
    BY DEF Unsent, Request, Stages, Answers
  <2>2. PICK sent \in Request : sent = [Unsent EXCEPT !.hash = h]
    BY <2>1 DEF Request
  <2>3. [sent EXCEPT !.stage = "running"] \in Request
    BY DEF Request, Stages
  <2>4. PICK answer \in Answers : answer = IF row.hash = h THEN Replay ELSE "reused"
    BY DEF Replay, Answers
  <2>5. [sent EXCEPT !.stage = "answered", !.answer = answer] \in Request
    BY DEF Request, Stages
  <2>6. att' = [att EXCEPT ![a] = IF ~LiveRow THEN [sent EXCEPT !.stage = "running"]
                                  ELSE [sent EXCEPT !.stage = "answered", !.answer = answer]]
    BY <2>2, <2>4 DEF Send
  <2>7. att' \in [Attempts -> Request]
    BY <2>3, <2>5, <2>6 DEF IdemTypeOK
  <2> QED BY <2>7 DEF IdemTypeOK, Send
<1> USE DEF IdemTypeOK, KeyRow, Request, StagesInv, LockIsClaim, StagesAgree, Send, Unsent, Replay
<1>2. StagesInv'
  OBVIOUS
<1>3. RowInv'
  BY DEF RowInv, ClaimMeansNoRow, RowOfPosting, RowTellsTheTruth, PostedIsRemembered, PostingInv, Generations, LiveRow, Ended
<1>4. PostingInv'
  BY DEF RowInv, ClaimMeansNoRow, PostedIsRemembered, PostingInv, Generations, PostsOnce
<1>5. AnswersTrue'
  BY DEF RowInv, RowOfPosting, RowTellsTheTruth, AnswersTrue, SuccessWasPosted, RefusedAfterPostingOnlyBlind, Refused, LiveRow, Ended
<1> QED BY <1>1, <1>2, <1>3, <1>4, <1>5

\* A refusal before the claim touches nothing.
LEMMA RefuseEarlyStep ==
    ASSUME IdemInv, NEW a \in Attempts, RefuseEarly(a)
    PROVE  IdemInv'
<1> USE IdempotencyConstants DEF IdemInv
<1>1. IdemTypeOK'
  BY RequestTypes DEF IdemTypeOK, RefuseEarly, Go, Stages
<1> USE DEF IdemTypeOK, KeyRow, Request, StagesInv, LockIsClaim, StagesAgree, RefuseEarly, Go
<1>2. StagesInv'
  OBVIOUS
<1>3. RowInv'
  BY DEF RowInv, ClaimMeansNoRow, RowOfPosting, RowTellsTheTruth, PostedIsRemembered, PostingInv, Generations, LiveRow, Ended
<1>4. PostingInv'
  BY DEF RowInv, ClaimMeansNoRow, PostedIsRemembered, PostingInv, Generations, PostsOnce
<1>5. AnswersTrue'
  BY DEF RowInv, RowOfPosting, RowTellsTheTruth, AnswersTrue, SuccessWasPosted, RefusedAfterPostingOnlyBlind, Refused, LiveRow, Ended
<1> QED BY <1>1, <1>2, <1>3, <1>4, <1>5

\* The claim finds no live row, and none appears while the lock is held.
LEMMA ClaimStep ==
    ASSUME IdemInv, NEW a \in Attempts, Claim(a)
    PROVE  IdemInv'
<1> USE IdempotencyConstants DEF IdemInv
<1>1. IdemTypeOK'
  BY RequestTypes DEF IdemTypeOK, Claim, Stages
<1> USE DEF IdemTypeOK, KeyRow, Request, StagesInv, LockIsClaim, StagesAgree, Claim, MayClaim
<1>2. StagesInv'
  OBVIOUS
<1>3. RowInv'
  BY DEF RowInv, ClaimMeansNoRow, RowOfPosting, RowTellsTheTruth, PostedIsRemembered, PostingInv, Generations, LiveRow, Ended
<1>4. PostingInv'
  BY DEF RowInv, ClaimMeansNoRow, PostedIsRemembered, PostingInv, Generations, PostsOnce
<1>5. AnswersTrue'
  BY DEF RowInv, RowOfPosting, RowTellsTheTruth, AnswersTrue, SuccessWasPosted, RefusedAfterPostingOnlyBlind, Refused, LiveRow, Ended
<1> QED BY <1>1, <1>2, <1>3, <1>4, <1>5

\* A request that finds the key in progress touches nothing.
LEMMA ClaimRefusedStep ==
    ASSUME IdemInv, NEW a \in Attempts, ClaimRefused(a)
    PROVE  IdemInv'
<1> USE IdempotencyConstants DEF IdemInv
<1>1. IdemTypeOK'
  BY RequestTypes DEF IdemTypeOK, ClaimRefused, Go, Stages
<1> USE DEF IdemTypeOK, KeyRow, Request, StagesInv, LockIsClaim, StagesAgree, ClaimRefused, Go
<1>2. StagesInv'
  OBVIOUS
<1>3. RowInv'
  BY DEF RowInv, ClaimMeansNoRow, RowOfPosting, RowTellsTheTruth, PostedIsRemembered, PostingInv, Generations, LiveRow, Ended
<1>4. PostingInv'
  BY DEF RowInv, ClaimMeansNoRow, PostedIsRemembered, PostingInv, Generations, PostsOnce
<1>5. AnswersTrue'
  BY DEF RowInv, RowOfPosting, RowTellsTheTruth, AnswersTrue, SuccessWasPosted, RefusedAfterPostingOnlyBlind, Refused, LiveRow, Ended
<1> QED BY <1>1, <1>2, <1>3, <1>4, <1>5

\* A request that finds the key used for something else touches nothing.
LEMMA ClaimReusedStep ==
    ASSUME IdemInv, NEW a \in Attempts, ClaimReused(a)
    PROVE  IdemInv'
<1> USE IdempotencyConstants DEF IdemInv
<1>1. IdemTypeOK'
  BY RequestTypes DEF IdemTypeOK, ClaimReused, Go, Stages
<1> USE DEF IdemTypeOK, KeyRow, Request, StagesInv, LockIsClaim, StagesAgree, ClaimReused, Go
<1>2. StagesInv'
  OBVIOUS
<1>3. RowInv'
  BY DEF RowInv, ClaimMeansNoRow, RowOfPosting, RowTellsTheTruth, PostedIsRemembered, PostingInv, Generations, LiveRow, Ended
<1>4. PostingInv'
  BY DEF RowInv, ClaimMeansNoRow, PostedIsRemembered, PostingInv, Generations, PostsOnce
<1>5. AnswersTrue'
  BY DEF RowInv, RowOfPosting, RowTellsTheTruth, AnswersTrue, SuccessWasPosted, RefusedAfterPostingOnlyBlind, Refused, LiveRow, Ended
<1> QED BY <1>1, <1>2, <1>3, <1>4, <1>5

\* The posting is the first of its generation, and its row is live.
LEMMA CommitStep ==
    ASSUME IdemInv, NEW a \in Attempts, Commit(a)
    PROVE  IdemInv'
<1> USE IdempotencyConstants DEF IdemInv
<1>1. IdemTypeOK'
  <2>1. row' \in KeyRow
    BY DEF IdemTypeOK, Commit, CommittedRow, Request, KeyRow
  <2>2. att' \in [Attempts -> Request]
    BY RequestTypes DEF IdemTypeOK, Commit, Go, Stages
  <2>3. posted' \in [Attempts -> Nat]
    BY DEF IdemTypeOK, Commit
  <2> QED BY <2>1, <2>2, <2>3 DEF IdemTypeOK, Commit
<1> USE DEF IdemTypeOK, KeyRow, Request, StagesInv, LockIsClaim, StagesAgree, Commit, CommittedRow, Go
<1>2. StagesInv'
  OBVIOUS
<1>3. RowInv'
  BY DEF RowInv, ClaimMeansNoRow, RowOfPosting, RowTellsTheTruth, PostedIsRemembered, PostingInv, Generations, LiveRow, Ended
<1>4. PostingInv'
  BY DEF RowInv, ClaimMeansNoRow, PostedIsRemembered, PostingInv, Generations, PostsOnce
<1>5. AnswersTrue'
  BY DEF RowInv, RowOfPosting, RowTellsTheTruth, AnswersTrue, SuccessWasPosted, RefusedAfterPostingOnlyBlind, Refused, LiveRow, Ended
<1> QED BY <1>1, <1>2, <1>3, <1>4, <1>5

\* A rollback leaves no posting and gives the lock back.
LEMMA RollbackStep ==
    ASSUME IdemInv, NEW a \in Attempts, Rollback(a)
    PROVE  IdemInv'
<1> USE IdempotencyConstants DEF IdemInv
<1>1. IdemTypeOK'
  BY RequestTypes DEF IdemTypeOK, Rollback, Go, Stages
<1> USE DEF IdemTypeOK, KeyRow, Request, StagesInv, LockIsClaim, StagesAgree, Rollback, Go
<1>2. StagesInv'
  OBVIOUS
<1>3. RowInv'
  BY DEF RowInv, ClaimMeansNoRow, RowOfPosting, RowTellsTheTruth, PostedIsRemembered, PostingInv, Generations, LiveRow, Ended
<1>4. PostingInv'
  BY DEF RowInv, ClaimMeansNoRow, PostedIsRemembered, PostingInv, Generations, PostsOnce
<1>5. AnswersTrue'
  BY DEF RowInv, RowOfPosting, RowTellsTheTruth, AnswersTrue, SuccessWasPosted, RefusedAfterPostingOnlyBlind, Refused, LiveRow, Ended
<1> QED BY <1>1, <1>2, <1>3, <1>4, <1>5

\* A failure after the commit leaves the row as it is.
LEMMA FailLaterStep ==
    ASSUME IdemInv, NEW a \in Attempts, FailLater(a)
    PROVE  IdemInv'
<1> USE IdempotencyConstants DEF IdemInv
<1>1. IdemTypeOK'
  BY RequestTypes DEF IdemTypeOK, FailLater, Go, Stages
<1> USE DEF IdemTypeOK, KeyRow, Request, StagesInv, LockIsClaim, StagesAgree, FailLater, Go
<1>2. StagesInv'
  OBVIOUS
<1>3. RowInv'
  BY DEF RowInv, ClaimMeansNoRow, RowOfPosting, RowTellsTheTruth, PostedIsRemembered, PostingInv, Generations, LiveRow, Ended
<1>4. PostingInv'
  BY DEF RowInv, ClaimMeansNoRow, PostedIsRemembered, PostingInv, Generations, PostsOnce
<1>5. AnswersTrue'
  BY DEF RowInv, RowOfPosting, RowTellsTheTruth, AnswersTrue, SuccessWasPosted, RefusedAfterPostingOnlyBlind, Refused, LiveRow, Ended
<1> QED BY <1>1, <1>2, <1>3, <1>4, <1>5

\* A second claim leaves the row of the first as it is.
LEMMA SecondClaimStep ==
    ASSUME IdemInv, NEW a \in Attempts, SecondClaim(a)
    PROVE  IdemInv'
<1> USE IdempotencyConstants DEF IdemInv
<1>1. IdemTypeOK'
  BY RequestTypes DEF IdemTypeOK, SecondClaim, Stages
<1> USE DEF IdemTypeOK, KeyRow, Request, StagesInv, LockIsClaim, StagesAgree, SecondClaim
<1>2. StagesInv'
  OBVIOUS
<1>3. RowInv'
  BY DEF RowInv, ClaimMeansNoRow, RowOfPosting, RowTellsTheTruth, PostedIsRemembered, PostingInv, Generations, LiveRow, Ended
<1>4. PostingInv'
  BY DEF RowInv, ClaimMeansNoRow, PostedIsRemembered, PostingInv, Generations, PostsOnce
<1>5. AnswersTrue'
  BY DEF RowInv, RowOfPosting, RowTellsTheTruth, AnswersTrue, SuccessWasPosted, RefusedAfterPostingOnlyBlind, Refused, LiveRow, Ended
<1> QED BY <1>1, <1>2, <1>3, <1>4, <1>5

\* A crash gives the lock back; the row of a posting stays.
LEMMA CrashStep ==
    ASSUME IdemInv, NEW a \in Attempts, Crash(a)
    PROVE  IdemInv'
<1> USE IdempotencyConstants DEF IdemInv
<1>1. IdemTypeOK'
  BY RequestTypes DEF IdemTypeOK, Crash, Go, Stages
<1> USE DEF IdemTypeOK, KeyRow, Request, StagesInv, LockIsClaim, StagesAgree, Crash, Go, Ended
<1>2. StagesInv'
  OBVIOUS
<1>3. RowInv'
  BY DEF RowInv, ClaimMeansNoRow, RowOfPosting, RowTellsTheTruth, PostedIsRemembered, PostingInv, Generations, LiveRow, Ended
<1>4. PostingInv'
  BY DEF RowInv, ClaimMeansNoRow, PostedIsRemembered, PostingInv, Generations, PostsOnce
<1>5. AnswersTrue'
  BY DEF RowInv, RowOfPosting, RowTellsTheTruth, AnswersTrue, SuccessWasPosted, RefusedAfterPostingOnlyBlind, Refused, LiveRow, Ended
<1> QED BY <1>1, <1>2, <1>3, <1>4, <1>5

\* A success is answered after the posting.
LEMMA AnswerOkStep ==
    ASSUME IdemInv, NEW a \in Attempts, AnswerOk(a)
    PROVE  IdemInv'
<1> USE IdempotencyConstants DEF IdemInv
<1>1. IdemTypeOK'
  <2>1. row' \in KeyRow
    BY KeyRowTypes DEF IdemTypeOK, AnswerOk
  <2>2. att' \in [Attempts -> Request]
    BY AnswerTypes DEF AnswerOk, Answers
  <2> QED BY <2>1, <2>2 DEF IdemTypeOK, AnswerOk
<1> USE DEF IdemTypeOK, KeyRow, Request, StagesInv, LockIsClaim, StagesAgree, AnswerOk, Answer
<1>2. StagesInv'
  OBVIOUS
<1>3. RowInv'
  BY DEF RowInv, ClaimMeansNoRow, RowOfPosting, RowTellsTheTruth, PostedIsRemembered, PostingInv, Generations, LiveRow, Ended
<1>4. PostingInv'
  BY DEF RowInv, ClaimMeansNoRow, PostedIsRemembered, PostingInv, Generations, PostsOnce
<1>5. AnswersTrue'
  BY DEF RowInv, RowOfPosting, RowTellsTheTruth, AnswersTrue, SuccessWasPosted, RefusedAfterPostingOnlyBlind, Refused, LiveRow, Ended
<1> QED BY <1>1, <1>2, <1>3, <1>4, <1>5

\* A refusal is replaced by what the key's live row says.
LEMMA AnswerRefusedStep ==
    ASSUME IdemInv, NEW a \in Attempts, AnswerRefused(a)
    PROVE  IdemInv'
<1> USE IdempotencyConstants DEF IdemInv
<1>1. IdemTypeOK'
  <2>1. RefusedOrReplayed(a) \in Answers
    BY DEF AnswerRefused, RefusedOrReplayed, Replay, Answers
  <2>2. att' \in [Attempts -> Request]
    BY <2>1, AnswerTypes DEF AnswerRefused
  <2> QED BY <2>2 DEF IdemTypeOK, AnswerRefused
<1> USE DEF IdemTypeOK, KeyRow, Request, StagesInv, LockIsClaim, StagesAgree, AnswerRefused, Answer, RefusedOrReplayed, Replay
<1>2. StagesInv'
  OBVIOUS
<1>3. RowInv'
  BY DEF RowInv, ClaimMeansNoRow, RowOfPosting, RowTellsTheTruth, PostedIsRemembered, PostingInv, Generations, LiveRow, Ended
<1>4. PostingInv'
  BY DEF RowInv, ClaimMeansNoRow, PostedIsRemembered, PostingInv, Generations, PostsOnce
<1>5. AnswersTrue'
  BY DEF RowInv, RowOfPosting, RowTellsTheTruth, AnswersTrue, SuccessWasPosted, RefusedAfterPostingOnlyBlind, Refused, LiveRow, Ended
<1> QED BY <1>1, <1>2, <1>3, <1>4, <1>5

\* A failed look-up sends the refusal and says so.
LEMMA AnswerBlindStep ==
    ASSUME IdemInv, NEW a \in Attempts, AnswerBlind(a)
    PROVE  IdemInv'
<1> USE IdempotencyConstants DEF IdemInv
<1>1. IdemTypeOK'
  <2>1. PICK answer \in Answers : answer = att[a].stage
    BY DEF AnswerBlind, Answers
  <2>2. "answered" \in Stages
    BY DEF Stages
  <2>3. PICK f \in [Attempts -> Request] : f = att
    BY DEF IdemTypeOK
  <2>4. [f EXCEPT ![a].stage = "answered", ![a].answer = answer, ![a].blind = TRUE] \in [Attempts -> Request]
    BY <2>2, RequestTypes
  <2>5. att' \in [Attempts -> Request]
    BY <2>1, <2>3, <2>4 DEF AnswerBlind
  <2> QED BY <2>5 DEF IdemTypeOK, AnswerBlind
<1> USE DEF IdemTypeOK, KeyRow, Request, StagesInv, LockIsClaim, StagesAgree, AnswerBlind
<1>2. StagesInv'
  OBVIOUS
<1>3. RowInv'
  BY DEF RowInv, ClaimMeansNoRow, RowOfPosting, RowTellsTheTruth, PostedIsRemembered, PostingInv, Generations, LiveRow, Ended
<1>4. PostingInv'
  BY DEF RowInv, ClaimMeansNoRow, PostedIsRemembered, PostingInv, Generations, PostsOnce
<1>5. AnswersTrue'
  BY DEF AnswersTrue, SuccessWasPosted, RefusedAfterPostingOnlyBlind, Refused
<1> QED BY <1>1, <1>2, <1>3, <1>4, <1>5

\* The error of a route bug keeps a live row live.
LEMMA AnswerFailedStep ==
    ASSUME IdemInv, NEW a \in Attempts, AnswerFailed(a)
    PROVE  IdemInv'
<1> USE IdempotencyConstants DEF IdemInv
<1>1. IdemTypeOK'
  <2>1. [hash |-> att[a].hash, by |-> a, state |-> "done_error", expired |-> FALSE] \in KeyRow
    BY DEF IdemTypeOK, Request, KeyRow
  <2>2. row' \in KeyRow
    BY <2>1, KeyRowTypes DEF IdemTypeOK, AnswerFailed
  <2>3. att' \in [Attempts -> Request]
    BY AnswerTypes DEF AnswerFailed, Answers
  <2> QED BY <2>2, <2>3 DEF IdemTypeOK, AnswerFailed
<1> USE DEF IdemTypeOK, KeyRow, Request, StagesInv, LockIsClaim, StagesAgree, AnswerFailed, Answer
<1>2. StagesInv'
  OBVIOUS
<1>3. RowInv'
  BY DEF RowInv, ClaimMeansNoRow, RowOfPosting, RowTellsTheTruth, PostedIsRemembered, PostingInv, Generations, LiveRow, Ended
<1>4. PostingInv'
  BY DEF RowInv, ClaimMeansNoRow, PostedIsRemembered, PostingInv, Generations, PostsOnce
<1>5. AnswersTrue'
  BY DEF RowInv, RowOfPosting, RowTellsTheTruth, AnswersTrue, SuccessWasPosted, RefusedAfterPostingOnlyBlind, Refused, LiveRow, Ended
<1> QED BY <1>1, <1>2, <1>3, <1>4, <1>5

\* The key is forgotten with its generation.
LEMMA ExpireStep ==
    ASSUME IdemInv, Expire
    PROVE  IdemInv'
<1> USE IdempotencyConstants DEF IdemInv
<1>1. IdemTypeOK'
  <2>1. row' \in KeyRow
    BY KeyRowTypes, Zenon DEF IdemTypeOK, Expire
  <2> QED BY <2>1 DEF IdemTypeOK, Expire
<1> USE DEF IdemTypeOK, KeyRow, Request, StagesInv, LockIsClaim, StagesAgree, Expire
<1>2. StagesInv'
  OBVIOUS
<1>3. RowInv'
  BY DEF RowInv, ClaimMeansNoRow, RowOfPosting, RowTellsTheTruth, PostedIsRemembered, PostingInv, Generations, LiveRow, Ended
<1>4. PostingInv'
  BY DEF RowInv, ClaimMeansNoRow, PostedIsRemembered, PostingInv, Generations, PostsOnce
<1>5. AnswersTrue'
  BY DEF RowInv, RowOfPosting, RowTellsTheTruth, AnswersTrue, SuccessWasPosted, RefusedAfterPostingOnlyBlind, Refused, LiveRow, Ended
<1> QED BY <1>1, <1>2, <1>3, <1>4, <1>5

\* Only a row that is no longer live is removed.
LEMMA SweepStep ==
    ASSUME IdemInv, Sweep
    PROVE  IdemInv'
<1> USE IdempotencyConstants DEF IdemInv
<1>1. IdemTypeOK'
  BY DEF IdemTypeOK, Sweep, NoRow, KeyRow
<1> USE DEF IdemTypeOK, KeyRow, Request, StagesInv, LockIsClaim, StagesAgree, Sweep, Sweepable, NoRow
<1>2. StagesInv'
  OBVIOUS
<1>3. RowInv'
  BY DEF RowInv, ClaimMeansNoRow, RowOfPosting, RowTellsTheTruth, PostedIsRemembered, PostingInv, Generations, LiveRow, Ended
<1>4. PostingInv'
  BY DEF RowInv, ClaimMeansNoRow, PostedIsRemembered, PostingInv, Generations, PostsOnce
<1>5. AnswersTrue'
  BY DEF RowInv, RowOfPosting, RowTellsTheTruth, AnswersTrue, SuccessWasPosted, RefusedAfterPostingOnlyBlind, Refused, LiveRow, Ended
<1> QED BY <1>1, <1>2, <1>3, <1>4, <1>5

-----------------------------------------------------------------------------
(* The theorems *)

LEMMA IdemInitInv == Init => IdemInv
BY IdempotencyConstants
   DEF Init, Unsent, NoRow, IdemInv, IdemTypeOK, KeyRow, Request, Stages, Answers, StagesInv, LockIsClaim, StagesAgree, RowInv, ClaimMeansNoRow,
       RowOfPosting, RowTellsTheTruth, PostedIsRemembered, PostingInv, Generations, PostsOnce,
       AnswersTrue, SuccessWasPosted, RefusedAfterPostingOnlyBlind, Refused, LiveRow

LEMMA IdemNextInv == IdemInv /\ [Next]_vars => IdemInv'
<1> SUFFICES ASSUME IdemInv, [Next]_vars
             PROVE  IdemInv'
  OBVIOUS
<1>1. CASE UNCHANGED vars
  BY <1>1 DEF vars, IdemInv, IdemTypeOK, StagesInv, LockIsClaim, StagesAgree, RowInv, ClaimMeansNoRow,
       RowOfPosting, RowTellsTheTruth, PostedIsRemembered, PostingInv, Generations, PostsOnce,
       AnswersTrue, SuccessWasPosted, RefusedAfterPostingOnlyBlind, Refused, LiveRow, Ended
<1>2. ASSUME NEW a \in Attempts, NEW h \in Hashes, Send(a, h)
      PROVE  IdemInv'
  BY <1>2, SendStep
<1>3. ASSUME NEW a \in Attempts, \/ RefuseEarly(a) \/ Claim(a) \/ ClaimRefused(a) \/ ClaimReused(a)
      PROVE  IdemInv'
  BY <1>3, RefuseEarlyStep, ClaimStep, ClaimRefusedStep, ClaimReusedStep
<1>4. ASSUME NEW a \in Attempts, \/ Commit(a) \/ Rollback(a) \/ FailLater(a) \/ SecondClaim(a) \/ Crash(a)
      PROVE  IdemInv'
  BY <1>4, CommitStep, RollbackStep, FailLaterStep, SecondClaimStep, CrashStep
<1>5. ASSUME NEW a \in Attempts, AnswerOk(a) \/ AnswerRefused(a) \/ AnswerBlind(a) \/ AnswerFailed(a)
      PROVE  IdemInv'
  BY <1>5, AnswerOkStep, AnswerRefusedStep, AnswerBlindStep, AnswerFailedStep
<1>6. CASE Expire \/ Sweep
  BY <1>6, ExpireStep, SweepStep
<1> QED BY <1>1, <1>2, <1>3, <1>4, <1>5, <1>6 DEF Next

LEMMA IdemInvariant == Spec => []IdemInv
BY IdemInitInv, IdemNextInv, PTL DEF Spec

\* Type correctness of the key's row and of every request sent with it.
THEOREM KeyTypes == Spec => []IdemTypeOK
<1>1. IdemInv => IdemTypeOK
  BY DEF IdemInv
<1> QED BY IdemInvariant, <1>1, PTL

\* claimIdempotency: however many requests are sent with a key, and however
\* they overlap, crash or are retried, they post once until the key expires.
THEOREM KeyPostsOnce == Spec => []PostsOnce
<1>1. IdemInv => PostsOnce
  BY DEF IdemInv, PostingInv
<1> QED BY IdemInvariant, <1>1, PTL

\* recordIdempotentEntity and sweepExpired: a posting is found by every retry
\* until its key expires.
THEOREM PostingIsRemembered == Spec => []PostedIsRemembered
<1>1. IdemInv => PostedIsRemembered
  BY DEF IdemInv, RowInv
<1> QED BY IdemInvariant, <1>1, PTL

\* settleJson and replayOf: a success is reported only of a posting, and a
\* request whose posting committed is told that it was refused only when the
\* key could not be read again: whatever failed after the commit, a look-up
\* that answers turns the refusal into the result.
THEOREM AnswersAreTrue == Spec => []AnswersTrue
<1>1. IdemInv => AnswersTrue
  BY DEF IdemInv
<1> QED BY IdemInvariant, <1>1, PTL
=============================================================================
