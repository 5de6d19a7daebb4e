------------------------ MODULE SchedulerLockProofs ------------------------
(***************************************************************************)
(* The scheduler lock keeps its promise for any number of processes,       *)
(* cycles and connections (module SchedulerLock).                          *)
(*                                                                         *)
(* That two processes are never inside a cycle together is not inductive:  *)
(* an unlock may run on another connection than the one that holds the     *)
(* lock and give back nothing.  What carries it is a count.  Only one      *)
(* session holds the lock, and while no pool has dropped it, a process     *)
(* with n cycles under way has one session that holds the lock at least n  *)
(* times: every acquire adds one to both, every unlock takes one from the  *)
(* cycles and at most one from the holds.                                  *)
(***************************************************************************)
EXTENDS SchedulerLock, FiniteSetTheorems, TLAPS

LockTypeOK ==
    /\ idle \in [Instances -> Seq(Conns)]
    /\ busy \in [Instances -> SUBSET Conns]
    /\ held \in [Instances \X Conns -> Nat]
    /\ run \in [Instances \X Slots -> {"off", "cycle", "unlock"}]
    /\ dropped \in BOOLEAN

\* The slots of process i that are inside withSchedulerLock.
Inside(i) == {s \in Slots : run[<<i, s>>] # "off"}

\* The lock belongs to one session at most.
OneSession ==
    \A x, y \in Instances \X Conns : (held[x] > 0 /\ held[y] > 0) => x = y

\* A session of process i holds the lock once for each cycle under way.
Covered(i) == \E c \in Conns : held[<<i, c>>] >= Cardinality(Inside(i))

LockInv ==
    /\ LockTypeOK
    /\ OneSession
    /\ ~dropped => \A i \in Instances : Inside(i) # {} => Covered(i)

-----------------------------------------------------------------------------
(* Helpers *)

\* A process's pool offers connections of the pool.
LEMMA AvailableConns ==
    ASSUME LockTypeOK, NEW i \in Instances, NEW c \in Available(i)
    PROVE  c \in Conns
<1>1. idle[i] \in Seq(Conns) BY DEF LockTypeOK
<1>2. CASE idle[i] = <<>> BY <1>2 DEF Available
<1>3. CASE idle[i] # <<>>
  <2>1. c = idle[i][Len(idle[i])] BY <1>3 DEF Available, Last
  <2>2. Len(idle[i]) \in 1 .. Len(idle[i]) BY <1>1, <1>3
  <2> QED BY <2>1, <2>2, <1>1
<1> QED BY <1>2, <1>3

\* Used and Without keep the idle connections typed.
LEMMA IdleTyped ==
    ASSUME LockTypeOK, NEW i \in Instances, NEW c \in Conns
    PROVE  /\ Used(i, c) \in [Instances -> Seq(Conns)]
           /\ Without(i) \in [Instances -> Seq(Conns)]
<1>1. idle \in [Instances -> Seq(Conns)] BY DEF LockTypeOK
<1>2. <<c>> \in Seq(Conns) OBVIOUS
<1>3. ASSUME idle[i] # <<>> PROVE Front(idle[i]) \in Seq(Conns)
  <2>1. idle[i] \in Seq(Conns) BY <1>1
  <2>2. Len(idle[i]) \in Nat /\ Len(idle[i]) > 0 BY <2>1, <1>3
  <2>3. \A k \in 1 .. Len(idle[i]) - 1 : idle[i][k] \in Conns BY <2>1, <2>2
  <2> QED BY <2>1, <2>2, <2>3 DEF Front
<1> QED BY <1>1, <1>2, <1>3 DEF Used, Without

LEMMA InsideFinite ==
    ASSUME NEW i \in Instances
    PROVE  IsFiniteSet(Inside(i)) /\ Cardinality(Inside(i)) \in Nat
<1>1. IsFiniteSet(Slots) BY SchedulerLockConstants
<1>2. Inside(i) \subseteq Slots BY DEF Inside
<1>3. IsFiniteSet(Inside(i)) BY <1>1, <1>2, FS_Subset
<1> QED BY <1>3, FS_CardinalityType

\* A cycle more, a cycle less.
LEMMA InsideMoves ==
    ASSUME LockTypeOK, NEW i \in Instances, NEW s \in Slots
    PROVE  /\ (At(i, s, "off") /\ Go(i, s, "cycle"))
                => Cardinality(Inside(i)') = Cardinality(Inside(i)) + 1
           /\ (At(i, s, "unlock") /\ Go(i, s, "off"))
                => Cardinality(Inside(i)) = Cardinality(Inside(i)') + 1
           /\ \A j \in Instances : \A stage \in {"off", "cycle", "unlock"} :
                (Go(i, s, stage) /\ j # i) => Inside(j)' = Inside(j)
<1>1. run \in [Instances \X Slots -> {"off", "cycle", "unlock"}] BY DEF LockTypeOK
<1>2. ASSUME At(i, s, "off"), Go(i, s, "cycle")
      PROVE  Cardinality(Inside(i)') = Cardinality(Inside(i)) + 1
  <2>1. s \notin Inside(i) BY <1>2 DEF Inside, At
  <2>2. Inside(i)' = Inside(i) \cup {s} BY <1>1, <1>2 DEF Inside, Go
  <2> QED BY <2>1, <2>2, InsideFinite, FS_AddElement
<1>3. ASSUME At(i, s, "unlock"), Go(i, s, "off")
      PROVE  Cardinality(Inside(i)) = Cardinality(Inside(i)') + 1
  <2>1. s \in Inside(i) BY <1>3 DEF Inside, At
  <2>2. Inside(i)' = Inside(i) \ {s} BY <1>1, <1>3 DEF Inside, Go
  <2>3. Cardinality(Inside(i) \ {s}) = Cardinality(Inside(i)) - 1
    BY <2>1, InsideFinite, FS_RemoveElement
  <2> QED BY <2>2, <2>3, InsideFinite
<1>4. ASSUME NEW j \in Instances, NEW stage \in {"off", "cycle", "unlock"}, Go(i, s, stage), j # i
      PROVE  Inside(j)' = Inside(j)
  BY <1>1, <1>4 DEF Inside, Go
<1> QED BY <1>2, <1>3, <1>4

\* What stays covered: the holds of the process do not shrink, its cycles do not grow.
LEMMA CoveredStays ==
    ASSUME NEW i \in Instances, Covered(i), Inside(i)' \subseteq Inside(i),
           LockTypeOK, LockTypeOK', \A c \in Conns : held'[<<i, c>>] >= held[<<i, c>>]
    PROVE  Covered(i)'
<1>1. PICK c \in Conns : held[<<i, c>>] >= Cardinality(Inside(i)) BY DEF Covered
<1>2. Cardinality(Inside(i)') <= Cardinality(Inside(i))  /\ Cardinality(Inside(i)') \in Nat
  BY InsideFinite, FS_Subset, FS_CardinalityType
<1>3. held[<<i, c>>] \in Nat /\ held'[<<i, c>>] \in Nat BY <1>1 DEF LockTypeOK
<1>4. held'[<<i, c>>] >= held[<<i, c>>] BY <1>1
<1>5. held'[<<i, c>>] >= Cardinality(Inside(i)') BY <1>1, <1>2, <1>3, <1>4, InsideFinite
<1> QED BY <1>1, <1>5 DEF Covered

-----------------------------------------------------------------------------
(* The steps *)

\* Queries of the process that leave the lock and the cycles alone.
LEMMA QuietLock ==
    ASSUME LockInv, LockTypeOK', UNCHANGED <<held, dropped>>,
           \A i \in Instances : Inside(i)' \subseteq Inside(i)
    PROVE  LockInv'
<1>1. OneSession' BY DEF LockInv, OneSession
<1>2. ASSUME ~dropped', NEW i \in Instances, Inside(i)' # {} PROVE Covered(i)'
  <2>1. Covered(i) BY <1>2 DEF LockInv
  <2>2. \A c \in Conns : held'[<<i, c>>] >= held[<<i, c>>] BY DEF LockInv, LockTypeOK
  <2> QED BY <2>1, <2>2, CoveredStays DEF LockInv
<1> QED BY <1>1, <1>2 DEF LockInv

LEMMA AcquireLock ==
    ASSUME LockInv, NEW i \in Instances, NEW s \in Slots, Acquire(i, s)
    PROVE  LockInv'
<1>1. LockTypeOK BY DEF LockInv
<1>2. PICK c \in Available(i) :
        /\ At(i, s, "off") /\ Free(i, c)
        /\ held' = [held EXCEPT ![<<i, c>>] = @ + 1]
        /\ idle' = Used(i, c)
        /\ Go(i, s, "cycle")
        /\ UNCHANGED <<busy, dropped>>
  BY DEF Acquire
<1>3. c \in Conns BY <1>1, AvailableConns
<1>4. held[<<i, c>>] \in Nat /\ held \in [Instances \X Conns -> Nat] BY <1>1, <1>3 DEF LockTypeOK
<1>5. LockTypeOK'
  <2>1. idle' \in [Instances -> Seq(Conns)] BY <1>1, <1>2, <1>3, IdleTyped
  <2>2. held' \in [Instances \X Conns -> Nat]
    <3>1. held' = [held EXCEPT ![<<i, c>>] = held[<<i, c>>] + 1] BY <1>2, <1>3, <1>4
    <3>2. held[<<i, c>>] + 1 \in Nat BY <1>4
    <3> QED BY <3>1, <3>2, <1>4
  <2>3. run' \in [Instances \X Slots -> {"off", "cycle", "unlock"}] BY <1>1, <1>2 DEF LockTypeOK, Go
  <2> QED BY <1>1, <1>2, <2>1, <2>2, <2>3 DEF LockTypeOK
<1>6. \A x \in Others(i, c) : held[x] = 0 /\ held'[x] = 0
  BY <1>2, <1>4 DEF Free, Others
<1>7. held'[<<i, c>>] = held[<<i, c>>] + 1 BY <1>2, <1>3, <1>4
<1>8. OneSession' BY <1>6 DEF OneSession, Others
<1>9. ASSUME ~dropped', NEW j \in Instances, Inside(j)' # {} PROVE Covered(j)'
  <2>1. CASE j = i
    <3>1. held[<<i, c>>] >= Cardinality(Inside(i))
      <4>1. CASE Inside(i) = {} BY <4>1, <1>4, FS_EmptySet
      <4>2. CASE Inside(i) # {}
        <5>1. PICK e \in Conns : held[<<i, e>>] >= Cardinality(Inside(i))
          BY <4>2, <1>2, <1>9 DEF LockInv, Covered
        <5>2. Cardinality(Inside(i)) > 0 /\ Cardinality(Inside(i)) \in Nat
          BY <4>2, InsideFinite, FS_EmptySet
        <5>3. held[<<i, e>>] \in Nat BY <5>1, <1>4
        <5>4. held[<<i, e>>] # 0 BY <5>1, <5>2, <5>3
        <5>5. <<i, e>> = <<i, c>> BY <5>1, <5>4, <1>6 DEF Others
        <5> QED BY <5>1, <5>5
      <4> QED BY <4>1, <4>2
    <3>2. Cardinality(Inside(i)') = Cardinality(Inside(i)) + 1 BY <1>1, <1>2, InsideMoves
    <3>3. held'[<<i, c>>] >= Cardinality(Inside(i)') BY <3>1, <3>2, <1>4, <1>7, InsideFinite
    <3> QED BY <2>1, <3>3, <1>3 DEF Covered
  <2>2. CASE j # i
    <3>1. Inside(j)' = Inside(j) BY <2>2, <1>1, <1>2, InsideMoves
    <3>2. PICK e \in Conns : held[<<j, e>>] >= Cardinality(Inside(j))
      BY <3>1, <1>2, <1>9 DEF LockInv, Covered
    <3>3. Cardinality(Inside(j)) > 0 /\ Cardinality(Inside(j)) \in Nat
      BY <3>1, <1>9, InsideFinite, FS_EmptySet
    <3>4. <<j, e>> \in Others(i, c) BY <2>2, <3>2 DEF Others
    <3>5. held[<<j, e>>] = 0 BY <3>4, <1>6
    <3> QED BY <3>2, <3>3, <3>5
  <2> QED BY <2>1, <2>2
<1> QED BY <1>5, <1>8, <1>9 DEF LockInv

LEMMA UnlockLock ==
    ASSUME LockInv, NEW i \in Instances, NEW s \in Slots, Unlock(i, s)
    PROVE  LockInv'
<1>1. LockTypeOK BY DEF LockInv
<1>2. PICK c \in Available(i) :
        /\ At(i, s, "unlock")
        /\ held' = Unlocked(i, c)
        /\ idle' = Used(i, c)
        /\ Go(i, s, "off")
        /\ UNCHANGED <<busy, dropped>>
  BY DEF Unlock
<1>3. c \in Conns BY <1>1, AvailableConns
<1>4. held \in [Instances \X Conns -> Nat] BY <1>1 DEF LockTypeOK
<1>5. held' \in [Instances \X Conns -> Nat]
  <2>1. held[<<i, c>>] \in Nat BY <1>3, <1>4
  <2>2. CASE held[<<i, c>>] = 0 BY <2>2, <1>2, <1>4 DEF Unlocked
  <2>3. CASE held[<<i, c>>] # 0
    <3>1. held' = [held EXCEPT ![<<i, c>>] = held[<<i, c>>] - 1] BY <2>3, <1>2, <1>3, <1>4 DEF Unlocked
    <3>2. held[<<i, c>>] - 1 \in Nat BY <2>1, <2>3
    <3> QED BY <3>1, <3>2, <1>4
  <2> QED BY <2>2, <2>3
<1>6. \A x \in Instances \X Conns :
        /\ held'[x] <= held[x]
        /\ held'[x] >= held[x] - 1
        /\ x[1] # i => held'[x] = held[x]
  BY <1>2, <1>3, <1>4 DEF Unlocked
<1>7. LockTypeOK'
  <2>1. idle' \in [Instances -> Seq(Conns)] BY <1>1, <1>2, <1>3, IdleTyped
  <2>2. run' \in [Instances \X Slots -> {"off", "cycle", "unlock"}] BY <1>1, <1>2 DEF LockTypeOK, Go
  <2> QED BY <1>1, <1>2, <1>5, <2>1, <2>2 DEF LockTypeOK
<1>8. OneSession' BY <1>4, <1>5, <1>6 DEF LockInv, OneSession
<1>9. ASSUME ~dropped', NEW j \in Instances, Inside(j)' # {} PROVE Covered(j)'
  <2>1. CASE j = i
    <3>1. Cardinality(Inside(i)) = Cardinality(Inside(i)') + 1 BY <1>1, <1>2, InsideMoves
    <3>2. s \in Inside(i) BY <1>2 DEF Inside, At
    <3>3. PICK e \in Conns : held[<<i, e>>] >= Cardinality(Inside(i))
      BY <3>2, <1>2, <1>9 DEF LockInv, Covered
    <3>4. held'[<<i, e>>] >= held[<<i, e>>] - 1 /\ held[<<i, e>>] \in Nat /\ held'[<<i, e>>] \in Nat
      BY <3>3, <1>4, <1>5, <1>6
    <3>5. Cardinality(Inside(i)) \in Nat BY InsideFinite
    <3>6. Cardinality(Inside(i)') \in Nat
      <4>1. run \in [Instances \X Slots -> {"off", "cycle", "unlock"}] BY <1>1 DEF LockTypeOK
      <4>2. Inside(i)' \subseteq Inside(i) BY <4>1, <1>2 DEF Inside, Go
      <4> QED BY <4>2, InsideFinite, FS_Subset, FS_CardinalityType
    <3>7. held'[<<i, e>>] >= Cardinality(Inside(i)') BY <3>1, <3>3, <3>4, <3>5, <3>6
    <3> QED BY <2>1, <3>3, <3>7 DEF Covered
  <2>2. CASE j # i
    <3>1. Inside(j)' = Inside(j) BY <2>2, <1>1, <1>2, InsideMoves
    <3>2. Covered(j) BY <3>1, <1>2, <1>9 DEF LockInv
    <3>3. \A e \in Conns : held'[<<j, e>>] >= held[<<j, e>>] BY <2>2, <1>4, <1>6
    <3> QED BY <3>1, <3>2, <3>3, <1>1, <1>7, CoveredStays
  <2> QED BY <2>1, <2>2
<1> QED BY <1>7, <1>8, <1>9 DEF LockInv

\* A connection is closed, by the pool or because it is broken.
LEMMA ClosedLock ==
    ASSUME LockInv, LockTypeOK', NEW i \in Instances, NEW c \in Conns, Closed(i, c),
           \A j \in Instances : Inside(j)' \subseteq Inside(j)
    PROVE  LockInv'
<1>1. held \in [Instances \X Conns -> Nat] BY DEF LockInv, LockTypeOK
<1>2. \A x \in Instances \X Conns : held'[x] \in {0, held[x]} BY <1>1 DEF Closed
<1>3. OneSession'
  <2>1. \A x \in Instances \X Conns : held'[x] > 0 => held[x] > 0 BY <1>1, <1>2
  <2> QED BY <2>1 DEF LockInv, OneSession
<1>4. ASSUME ~dropped', NEW j \in Instances, Inside(j)' # {} PROVE Covered(j)'
  <2>0. ~dropped /\ ~(held[<<i, c>>] > 0) BY <1>4, Zenon DEF Closed
  <2>1. ~dropped /\ held[<<i, c>>] = 0 BY <2>0, <1>1
  <2>2. \A e \in Conns : held'[<<j, e>>] >= held[<<j, e>>] BY <1>1, <2>1 DEF Closed
  <2>3. Covered(j) BY <2>1, <1>4 DEF LockInv
  <2> QED BY <2>2, <2>3, CoveredStays DEF LockInv
<1> QED BY <1>3, <1>4 DEF LockInv

LEMMA CrashLock ==
    ASSUME LockInv, NEW i \in Instances, Crash(i)
    PROVE  LockInv'
<1>1. LockTypeOK BY DEF LockInv
<1>2. held \in [Instances \X Conns -> Nat] /\ run \in [Instances \X Slots -> {"off", "cycle", "unlock"}]
  BY <1>1 DEF LockTypeOK
<1>3. \A x \in Instances \X Conns : held'[x] = IF x[1] = i THEN 0 ELSE held[x]
  BY <1>2 DEF Crash
<1>4. \A x \in Instances \X Slots : run'[x] = IF x[1] = i THEN "off" ELSE run[x]
  BY <1>2 DEF Crash
<1>5. LockTypeOK'
  <2>1. held' \in [Instances \X Conns -> Nat] BY <1>2 DEF Crash
  <2>2. run' \in [Instances \X Slots -> {"off", "cycle", "unlock"}] BY <1>2 DEF Crash
  <2>3. <<>> \in Seq(Conns) OBVIOUS
  <2> QED BY <1>1, <2>1, <2>2, <2>3 DEF LockTypeOK, Crash
<1>6. OneSession'
  <2>1. \A x \in Instances \X Conns : held'[x] > 0 => held[x] > 0 BY <1>2, <1>3
  <2> QED BY <2>1 DEF LockInv, OneSession
<1>7. ASSUME ~dropped', NEW j \in Instances, Inside(j)' # {} PROVE Covered(j)'
  <2>1. j # i /\ Inside(j)' = Inside(j) BY <1>4, <1>7 DEF Inside
  <2>2. Covered(j) BY <2>1, <1>7 DEF LockInv, Crash
  <2>3. \A e \in Conns : held'[<<j, e>>] >= held[<<j, e>>] BY <2>1, <1>2, <1>3
  <2> QED BY <2>1, <2>2, <2>3, <1>1, <1>5, CoveredStays
<1> QED BY <1>5, <1>6, <1>7 DEF LockInv

-----------------------------------------------------------------------------
(* The invariant *)

LEMMA LockInit == Init => LockInv
<1> SUFFICES ASSUME Init PROVE LockInv OBVIOUS
<1>1. LockTypeOK
  <2>1. <<>> \in Seq(Conns) OBVIOUS
  <2> QED BY <2>1 DEF Init, LockTypeOK
<1>2. OneSession BY DEF Init, OneSession
<1>3. \A i \in Instances : Inside(i) = {} BY DEF Init, Inside
<1> QED BY <1>1, <1>2, <1>3 DEF LockInv

LEMMA LockNext == LockInv /\ [Next]_vars => LockInv'
<1> SUFFICES ASSUME LockInv, [Next]_vars PROVE LockInv' OBVIOUS
<1>1. LockTypeOK BY DEF LockInv
<1>t. /\ idle \in [Instances -> Seq(Conns)]
      /\ busy \in [Instances -> SUBSET Conns]
      /\ held \in [Instances \X Conns -> Nat]
      /\ run \in [Instances \X Slots -> {"off", "cycle", "unlock"}]
      /\ dropped \in BOOLEAN
  BY <1>1 DEF LockTypeOK
<1>2. CASE UNCHANGED vars
  <2>1. LockTypeOK' BY <1>1, <1>2 DEF LockTypeOK, vars
  <2>2. UNCHANGED <<held, dropped>> BY <1>2 DEF vars
  <2>3. \A i \in Instances : Inside(i)' \subseteq Inside(i) BY <1>2 DEF vars, Inside
  <2> QED BY <2>1, <2>2, <2>3, QuietLock
<1>3. ASSUME NEW i \in Instances, NEW s \in Slots, Acquire(i, s) PROVE LockInv'
  BY <1>3, AcquireLock
<1>4. ASSUME NEW i \in Instances, NEW s \in Slots, Missed(i, s) PROVE LockInv'
  <2>1. PICK c \in Available(i) : idle' = Used(i, c) /\ UNCHANGED <<busy, held, run, dropped>>
    BY <1>4 DEF Missed
  <2>2. idle' \in [Instances -> Seq(Conns)] BY <2>1, <1>1, AvailableConns, IdleTyped
  <2>3. LockTypeOK' BY <2>1, <2>2, <1>t DEF LockTypeOK
  <2>4. \A j \in Instances : Inside(j)' \subseteq Inside(j) BY <2>1 DEF Inside
  <2> QED BY <2>1, <2>3, <2>4, QuietLock
<1>5. ASSUME NEW i \in Instances, NEW s \in Slots, Finish(i, s) PROVE LockInv'
  <2>1. LockTypeOK' BY <1>5, <1>t DEF LockTypeOK, Finish, Go
  <2>2. \A j \in Instances : Inside(j)' \subseteq Inside(j) BY <1>5, <1>t DEF Finish, At, Go, Inside
  <2> QED BY <2>1, <2>2, <1>5, QuietLock DEF Finish
<1>6. ASSUME NEW i \in Instances, NEW s \in Slots, Unlock(i, s) PROVE LockInv'
  BY <1>6, UnlockLock
<1>7. ASSUME NEW i \in Instances, NEW s \in Slots, UnlockFails(i, s) PROVE LockInv'
  <2>1. PICK c \in Available(i) :
          Closed(i, c) /\ idle' = Without(i) /\ Go(i, s, "off") /\ UNCHANGED busy
    BY <1>7 DEF UnlockFails
  <2>2. c \in Conns BY <1>1, AvailableConns
  <2>3. idle' \in [Instances -> Seq(Conns)] BY <2>1, <2>2, <1>1, IdleTyped
  <2>4. LockTypeOK' BY <2>1, <2>2, <2>3, <1>t DEF LockTypeOK, Closed, Go
  <2>5. \A j \in Instances : Inside(j)' \subseteq Inside(j) BY <2>1, <1>t DEF Go, Inside
  <2> QED BY <2>1, <2>2, <2>4, <2>5, ClosedLock
<1>8. ASSUME NEW i \in Instances, Checkout(i) PROVE LockInv'
  <2>1. PICK c \in Available(i) :
          /\ busy' = [busy EXCEPT ![i] = @ \cup {c}] /\ idle' = Without(i)
          /\ UNCHANGED <<held, run, dropped>>
    BY <1>8 DEF Checkout
  <2>2. c \in Conns BY <1>1, AvailableConns
  <2>3. idle' \in [Instances -> Seq(Conns)] BY <2>1, <2>2, <1>1, IdleTyped
  <2>4. busy' \in [Instances -> SUBSET Conns] BY <2>1, <2>2, <1>t
  <2>5. LockTypeOK' BY <2>1, <2>3, <2>4, <1>t DEF LockTypeOK
  <2>6. \A j \in Instances : Inside(j)' \subseteq Inside(j) BY <2>1 DEF Inside
  <2> QED BY <2>1, <2>5, <2>6, QuietLock
<1>9. ASSUME NEW i \in Instances, Return(i) PROVE LockInv'
  <2>1. PICK c \in busy[i] :
          /\ busy' = [busy EXCEPT ![i] = @ \ {c}] /\ idle' = [idle EXCEPT ![i] = Append(@, c)]
          /\ UNCHANGED <<held, run, dropped>>
    BY <1>9 DEF Return
  <2>2. c \in Conns BY <1>t
  <2>3. Append(idle[i], c) \in Seq(Conns) BY <2>2, <1>t
  <2>4. idle' \in [Instances -> Seq(Conns)] BY <2>1, <2>3, <1>t
  <2>5. busy' \in [Instances -> SUBSET Conns] BY <2>1, <1>t
  <2>6. LockTypeOK' BY <2>1, <2>4, <2>5, <1>t DEF LockTypeOK
  <2>7. \A j \in Instances : Inside(j)' \subseteq Inside(j) BY <2>1 DEF Inside
  <2> QED BY <2>1, <2>6, <2>7, QuietLock
<1>10. ASSUME NEW i \in Instances, IdleTimeout(i) PROVE LockInv'
  <2>1. /\ idle[i] # <<>> /\ Closed(i, Head(idle[i]))
        /\ idle' = [idle EXCEPT ![i] = Tail(@)] /\ UNCHANGED <<busy, run>>
    BY <1>10 DEF IdleTimeout
  <2>2. Head(idle[i]) \in Conns /\ Tail(idle[i]) \in Seq(Conns) BY <2>1, <1>t
  <2>3. idle' \in [Instances -> Seq(Conns)] BY <2>1, <2>2, <1>t
  <2>4. LockTypeOK' BY <2>1, <2>3, <1>t DEF LockTypeOK, Closed
  <2>5. \A j \in Instances : Inside(j)' \subseteq Inside(j) BY <2>1 DEF Inside
  <2> QED BY <2>1, <2>2, <2>4, <2>5, ClosedLock
<1>11. ASSUME NEW i \in Instances, Crash(i) PROVE LockInv'
  BY <1>11, CrashLock
<1> QED BY <1>2, <1>3, <1>4, <1>5, <1>6, <1>7, <1>8, <1>9, <1>10, <1>11 DEF Next

\* Among the idle and busy connections of every process, one session at most
\* holds the lock, and it covers the cycles of its process until a pool drops it.
THEOREM LockInvariant == Spec => []LockInv
<1>1. Init => LockInv BY LockInit
<1>2. LockInv /\ [Next]_vars => LockInv' BY LockNext
<1> QED BY <1>1, <1>2, PTL DEF Spec

\* Until a pool closes the connection that holds the lock, two processes are
\* never inside a cycle of one scheduler, for any number of processes,
\* overlapping cycles and connections (withSchedulerLock's promise).
THEOREM OneInstance == Spec => []OneInstanceWhileOpen
<1>1. LockInv => OneInstanceWhileOpen
  <2> SUFFICES ASSUME LockInv, ~dropped,
                      NEW i \in Instances, NEW j \in Instances, Working(i), Working(j)
               PROVE  i = j
    BY DEF OneInstanceWhileOpen
  <2>1. Inside(i) # {} /\ Inside(j) # {} BY DEF Working, Inside, At
  <2>2. PICK c \in Conns : held[<<i, c>>] >= Cardinality(Inside(i)) BY <2>1 DEF LockInv, Covered
  <2>3. PICK e \in Conns : held[<<j, e>>] >= Cardinality(Inside(j)) BY <2>1 DEF LockInv, Covered
  <2>4. /\ Cardinality(Inside(i)) \in Nat /\ Cardinality(Inside(i)) # 0
        /\ Cardinality(Inside(j)) \in Nat /\ Cardinality(Inside(j)) # 0
    BY <2>1, InsideFinite, FS_EmptySet
  <2>5. held[<<i, c>>] \in Nat /\ held[<<j, e>>] \in Nat BY <2>2, <2>3 DEF LockInv, LockTypeOK
  <2>6. held[<<i, c>>] > 0 /\ held[<<j, e>>] > 0 BY <2>2, <2>3, <2>4, <2>5
  <2>7. <<i, c>> = <<j, e>> BY <2>2, <2>3, <2>6 DEF LockInv, OneSession
  <2> QED BY <2>7
<1> QED BY <1>1, LockInvariant, PTL
=============================================================================
