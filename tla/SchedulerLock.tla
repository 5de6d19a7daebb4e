--------------------------- MODULE SchedulerLock ---------------------------
(***************************************************************************)
(* withSchedulerLock (utils/scheduler-lock.ts): a PostgreSQL session-level *)
(* advisory lock, taken and given back by two separate queries on the pool *)
(* of the process.                                                         *)
(*                                                                         *)
(* The lock belongs to the connection that took it, so the pool is part of *)
(* the model: a query uses the connection returned last, opens one when    *)
(* none is idle, and a connection idle for the pool's default ten seconds  *)
(* is closed, the longest idle first.  The timers of a process do not wait *)
(* for its last cycle, so cycles of one process may overlap.               *)
(***************************************************************************)
EXTENDS Naturals, FiniteSets, Sequences, SequencesExt

CONSTANTS
    Instances,      \* API and worker processes
    Slots,          \* cycles of one process that may overlap
    Conns,          \* connections of a pool
    MaxHeld         \* bound on how often one session holds the lock

ASSUME SchedulerLockConstants == MaxHeld \in Nat \ {0} /\ IsFiniteSet(Slots)

VARIABLES
    idle,       \* per process, its idle connections, last returned last
    busy,       \* per process, the connections other queries are using
    held,       \* per process and connection, how often its session holds the lock
    run,        \* per process and slot, the stage of withSchedulerLock
    dropped     \* history: a living process's pool has closed a connection
                \* whose session held the lock

vars == <<idle, busy, held, run, dropped>>

\* The connection the pool would use for a query: none when all are busy.
Available(i) ==
    IF idle[i] # <<>> THEN {Last(idle[i])} ELSE Conns \ busy[i]
\* The connection is handed out, or has been used and returned.
Without(i) == IF idle[i] = <<>> THEN idle ELSE [idle EXCEPT ![i] = Front(@)]
Used(i, c) == IF idle[i] = <<>> THEN [idle EXCEPT ![i] = <<c>>] ELSE idle

Others(i, c) == {x \in Instances \X Conns : x # <<i, c>>}
Free(i, c) == \A x \in Others(i, c) : held[x] = 0

\* Mutant: every hold of the session is given back.
UnlockedAll(i, c) == [held EXCEPT ![<<i, c>>] = 0]
\* pg_advisory_unlock: one hold of this session; nothing when it has none.
Unlocked(i, c) == [held EXCEPT ![<<i, c>>] = IF @ = 0 THEN 0 ELSE @ - 1]

\* Closing a connection ends its session and frees what the session held.
Closed(i, c) ==
    /\ held' = [held EXCEPT ![<<i, c>>] = 0]
    /\ dropped' = (dropped \/ held[<<i, c>>] > 0)

At(i, s, stage) == run[<<i, s>>] = stage
Go(i, s, stage) == run' = [run EXCEPT ![<<i, s>>] = stage]

-----------------------------------------------------------------------------
(* withSchedulerLock *)

Acquire(i, s) == \E c \in Available(i) :
    /\ At(i, s, "off") /\ Free(i, c) /\ held[<<i, c>>] < MaxHeld
    /\ held' = [held EXCEPT ![<<i, c>>] = @ + 1]
    /\ idle' = Used(i, c)
    /\ Go(i, s, "cycle")
    /\ UNCHANGED <<busy, dropped>>

\* The lock is another session's: this cycle is left out.
Missed(i, s) == \E c \in Available(i) :
    /\ At(i, s, "off") /\ ~Free(i, c)
    /\ idle' = Used(i, c)
    /\ UNCHANGED <<busy, held, run, dropped>>

\* fn returns or throws.
Finish(i, s) == At(i, s, "cycle") /\ Go(i, s, "unlock") /\ UNCHANGED <<idle, busy, held, dropped>>

Unlock(i, s) == \E c \in Available(i) :
    /\ At(i, s, "unlock")
    /\ held' = Unlocked(i, c)
    /\ idle' = Used(i, c)
    /\ Go(i, s, "off")
    /\ UNCHANGED <<busy, dropped>>

\* The connection turns out to be broken; the error is swallowed.
UnlockFails(i, s) == \E c \in Available(i) :
    /\ At(i, s, "unlock")
    /\ Closed(i, c)
    /\ idle' = Without(i)
    /\ Go(i, s, "off")
    /\ UNCHANGED busy

-----------------------------------------------------------------------------
(* The other queries of the process, the pool's timer, the process's death *)

Checkout(i) == \E c \in Available(i) :
    /\ busy' = [busy EXCEPT ![i] = @ \cup {c}]
    /\ idle' = Without(i)
    /\ UNCHANGED <<held, run, dropped>>

Return(i) == \E c \in busy[i] :
    /\ busy' = [busy EXCEPT ![i] = @ \ {c}]
    /\ idle' = [idle EXCEPT ![i] = Append(@, c)]
    /\ UNCHANGED <<held, run, dropped>>

\* Mutant: a pooler in front of the database keeps the session.
IdleTimeoutKeepsSession(i) ==
    /\ idle[i] # <<>>
    /\ idle' = [idle EXCEPT ![i] = Tail(@)]
    /\ UNCHANGED <<held, busy, run, dropped>>
IdleTimeout(i) ==
    /\ idle[i] # <<>>
    /\ Closed(i, Head(idle[i]))
    /\ idle' = [idle EXCEPT ![i] = Tail(@)]
    /\ UNCHANGED <<busy, run>>

Crash(i) ==
    /\ held' = [x \in DOMAIN held |-> IF x[1] = i THEN 0 ELSE held[x]]
    /\ run' = [x \in DOMAIN run |-> IF x[1] = i THEN "off" ELSE run[x]]
    /\ idle' = [idle EXCEPT ![i] = <<>>]
    /\ busy' = [busy EXCEPT ![i] = {}]
    /\ UNCHANGED dropped

Init ==
    /\ idle = [i \in Instances |-> <<>>]
    /\ busy = [i \in Instances |-> {}]
    /\ held = [x \in Instances \X Conns |-> 0]
    /\ run = [x \in Instances \X Slots |-> "off"]
    /\ dropped = FALSE

Next == \E i \in Instances :
    \/ \E s \in Slots :
         Acquire(i, s) \/ Missed(i, s) \/ Finish(i, s) \/ Unlock(i, s) \/ UnlockFails(i, s)
    \/ Checkout(i) \/ Return(i) \/ IdleTimeout(i) \/ Crash(i)

Spec == Init /\ [][Next]_vars

\* The pool's timers fire.
FairSpec == Spec /\ \A i \in Instances : WF_vars(IdleTimeout(i))

-----------------------------------------------------------------------------
(* Properties *)

Working(i) == \E s \in Slots : ~At(i, s, "off")

\* Unless a pool closes the connection that holds the lock, two processes are
\* never inside the cycle of one scheduler at the same time: overlapping cycles,
\* unlocks on the wrong connection and crashes included.
OneInstanceWhileOpen ==
    ~dropped => \A i, j \in Instances : (Working(i) /\ Working(j)) => i = j

\* A lock left behind by an unlock on another connection comes free once its
\* process has nothing to ask the database (liveness): its connection is closed.
FreeAfterQuiet ==
    (<>[](\A i \in Instances : ~Working(i) /\ busy[i] = {}))
        => []<>(\A x \in DOMAIN held : held[x] = 0)
=============================================================================
