---------------------------- MODULE SendOneProofs ----------------------------
(***************************************************************************)
(* Proofs about SendOne, for any number of recipients, workers, retries    *)
(* and faults.                                                             *)
(***************************************************************************)
EXTENDS SendOne, FiniteSetTheorems, TLAPS

-----------------------------------------------------------------------------
(* Type correctness.                                                        *)

\* A job whose pc moves on is a job still.
LEMMA GotoType ==
    ASSUME job \in [Workers -> Jobs], NEW w \in Workers,
           NEW p \in Phases \ {"idle"}, Goto(w, p), job[w].pc # "idle",
           p \in {"recheck", "settle"} => job[w].verdict # "none"
    PROVE  job' \in [Workers -> Jobs]
  BY DEF Goto, Jobs

\* So is one that takes a verdict on the way.
LEMMA GotoWithType ==
    ASSUME job \in [Workers -> Jobs], NEW w \in Workers,
           NEW p \in Phases \ {"idle"}, NEW v \in Verdicts \ {"none"},
           GotoWith(w, p, v), job[w].pc # "idle"
    PROVE  job' \in [Workers -> Jobs]
  <1> DEFINE j == [job[w] EXCEPT !.pc = p, !.verdict = v]
  <1>1. job[w] \in Jobs
    OBVIOUS
  <1>2. j.pc = p /\ j.verdict = v /\ j.r = job[w].r /\ j.n = job[w].n
    BY <1>1 DEF Jobs
  <1>3. j \in Jobs
    BY <1>1, <1>2 DEF Jobs
  <1>4. job' = [job EXCEPT ![w] = j]
    BY DEF GotoWith
  <1> HIDE DEF j
  <1>5. QED
    BY <1>3, <1>4

\* And the one a released or crashed worker is left with.
LEMMA IdleType ==
    ASSUME job \in [Workers -> Jobs], NEW w \in Workers,
           job' = [job EXCEPT ![w] = Idle]
    PROVE  job' \in [Workers -> Jobs]
  BY SendOneAssumption DEF Idle, Jobs, Phases, Verdicts

\* One more copy of a task leaves the queue a bag of tasks.
LEMMA QueueUpType ==
    ASSUME queue \in [Tasks -> Nat], NEW t \in Tasks,
           queue' = [queue EXCEPT ![t] = @ + 1]
    PROVE  queue' \in [Tasks -> Nat]
  OBVIOUS

\* So does self.retry, which counts one more attempt.
LEMMA RetryType ==
    ASSUME queue \in [Tasks -> Nat], NEW t \in Tasks, Retry(t)
    PROVE  queue' \in [Tasks -> Nat]
  BY DEF Retry

\* A worker inside send_one works on a recipient, with a task of its own.
LEMMA AtWork ==
    ASSUME job \in [Workers -> Jobs], NEW w \in Workers, job[w].pc # "idle"
    PROVE  /\ job[w].r \in Recipients
           /\ [r |-> job[w].r, n |-> 0] \in Tasks
           /\ TaskOf(w) \in Tasks
  BY SendOneAssumption DEF Jobs, Tasks, TaskOf

\* A tally that goes up counts still.
LEMMA TallyType ==
    ASSUME NEW f \in [Recipients -> Nat], NEW r \in Recipients
    PROVE  Tally(f, r) \in [Recipients -> Nat]
  BY DEF Tally

\* What a worker starts with, when it took the lock, is a job.
LEMMA TakeLockType ==
    ASSUME job \in [Workers -> Jobs], NEW w \in Workers, NEW t \in Tasks,
           TakeLock(w, t)
    PROVE  job' \in [Workers -> Jobs]
  BY SendOneAssumption DEF TakeLock, Jobs, Tasks, Phases, Verdicts

\* Every verdict that is settled has a row status and a counter.
LEMMA CounterType ==
    ASSUME counts \in [Counters -> Nat], NEW v,
           counts' = [counts EXCEPT ![CounterOf(v)] = @ + 1]
    PROVE  counts' \in [Counters -> Nat]
  <1>1. CounterOf(v) \in Counters
    BY DEF CounterOf, Counters
  <1>2. QED
    BY <1>1

\* The initial state is well typed.
LEMMA InitType == Init => TypeOK
  <1> SUFFICES ASSUME Init PROVE TypeOK
    OBVIOUS
  <1>1. job \in [Workers -> Jobs]
    BY SendOneAssumption DEF Init, Idle, Jobs, Phases, Verdicts
  <1>2. queue \in [Tasks -> Nat]
    BY DEF Init
  <1>3. QED
    BY <1>1, <1>2 DEF Init, TypeOK, RecipientStatuses, CampaignStatuses

\* An aborted transaction leaves every variable its type.
LEMMA AbortType ==
    ASSUME TypeOK, NEW w \in Workers, Abort(w), job[w].pc # "idle",
           faults' \in Nat
    PROVE  TypeOK'
  <1>1. job' \in [Workers -> Jobs]
    BY GotoType DEF TypeOK, Abort, Phases
  <1>2. lost' \in [Recipients -> Nat]
    <2>1. Tally(lost, job[w].r) \in [Recipients -> Nat]
      BY AtWork, TallyType DEF TypeOK
    <2>2. QED
      BY <2>1 DEF TypeOK, Abort
  <1>3. uncounted' \in Nat
    BY DEF TypeOK, Abort
  <1>4. QED
    BY <1>1, <1>2, <1>3 DEF TypeOK, Abort, db, caps, broker, mail

\* Every step keeps every variable's type.
LEMMA TypeStep == TypeOK /\ [Next]_vars => TypeOK'
  <1> SUFFICES ASSUME TypeOK, [Next]_vars PROVE TypeOK'
    OBVIOUS
  <1> USE DEF TypeOK, db, caps, broker, mail, slips
  <1>1. ASSUME NEW w \in Workers, NEW t \in Tasks, TakeLock(w, t)
        PROVE  TypeOK'
    <2>1. job' \in [Workers -> Jobs]
      BY <1>1, TakeLockType
    <2>2. queue' \in [Tasks -> Nat]
      BY <1>1 DEF TakeLock
    <2>3. QED
      BY <1>1, <2>1, <2>2 DEF TakeLock
  <1>2. ASSUME NEW w \in Workers, NEW t \in Tasks, TakeLocked(w, t)
        PROVE  TypeOK'
    BY <1>2 DEF TakeLocked
  <1>3. ASSUME NEW w \in Workers, Validate(w) PROVE TypeOK'
    <2>1. job' \in [Workers -> Jobs]
      BY <1>3, GotoType, GotoWithType DEF Validate, Phases, Verdicts
    <2>2. QED
      BY <1>3, <2>1 DEF Validate
  <1>4. ASSUME NEW w \in Workers, RateGranted(w) \/ RateDenied(w) PROVE TypeOK'
    <2>1. job' \in [Workers -> Jobs]
      BY <1>4, GotoType DEF RateGranted, RateDenied, Phases
    <2>2. queue' \in [Tasks -> Nat]
      BY <1>4, QueueUpType, AtWork DEF RateGranted, RateDenied, Reenqueue
    <2>3. QED
      BY <1>4, <2>1, <2>2 DEF RateGranted, RateDenied
  <1>5. ASSUME NEW w \in Workers, CheckPoolCap(w) PROVE TypeOK'
    <2>1. job' \in [Workers -> Jobs]
      BY <1>5, GotoType DEF CheckPoolCap, Phases
    <2>2. queue' \in [Tasks -> Nat]
      BY <1>5, QueueUpType, AtWork DEF CheckPoolCap, Reenqueue
    <2>3. QED
      BY <1>5, <2>1, <2>2 DEF CheckPoolCap
  <1>6. ASSUME NEW w \in Workers, CheckWarmingCap(w) PROVE TypeOK'
    <2>1. job' \in [Workers -> Jobs]
      BY <1>6, GotoType, GotoWithType DEF CheckWarmingCap, Phases, Verdicts
    <2>2. queue' \in [Tasks -> Nat]
      BY <1>6, QueueUpType, AtWork DEF CheckWarmingCap, Reenqueue
    <2>3. QED
      BY <1>6, <2>1, <2>2 DEF CheckWarmingCap
  <1>7. ASSUME NEW w \in Workers, CheckCapBlind(w) PROVE TypeOK'
    <2>1. job' \in [Workers -> Jobs]
      BY <1>7, GotoType DEF CheckCapBlind, Phases
    <2>2. QED
      BY <1>7, <2>1 DEF CheckCapBlind
  <1>8. ASSUME NEW w \in Workers, PostalAccepts(w) PROVE TypeOK'
    <2>1. job' \in [Workers -> Jobs]
      BY <1>8, GotoWithType DEF PostalAccepts, Phases, Verdicts
    <2>2. accepted' \in [Recipients -> Nat] /\ late' \in [Recipients -> Nat]
      BY <1>8, AtWork, TallyType DEF PostalAccepts, PostalTakes
    <2>3. QED
      BY <1>8, <2>1, <2>2 DEF PostalAccepts, PostalTakes
  <1>9. ASSUME NEW w \in Workers, PostalRejects(w) PROVE TypeOK'
    <2>1. job' \in [Workers -> Jobs]
      BY <1>9, GotoWithType DEF PostalRejects, Phases, Verdicts
    <2>2. QED
      BY <1>9, <2>1 DEF PostalRejects
  <1>10. ASSUME NEW w \in Workers, PostalTransient(w) PROVE TypeOK'
    <2>1. job' \in [Workers -> Jobs]
      BY <1>10, GotoType DEF PostalTransient, Phases
    <2>2. queue' \in [Tasks -> Nat]
      BY <1>10, RetryType, AtWork DEF PostalTransient
    <2>3. QED
      BY <1>10, <2>1, <2>2 DEF PostalTransient
  <1>11. ASSUME NEW w \in Workers, PostalAnswerLost(w) PROVE TypeOK'
    <2>1. job' \in [Workers -> Jobs]
      BY <1>11, GotoType DEF PostalAnswerLost, Phases
    <2>2. queue' \in [Tasks -> Nat]
      BY <1>11, RetryType, AtWork DEF PostalAnswerLost
    <2>3. accepted' \in [Recipients -> Nat] /\ late' \in [Recipients -> Nat]
      BY <1>11, AtWork, TallyType DEF PostalAnswerLost, PostalTakes
    <2>4. lost' \in [Recipients -> Nat]
      BY <1>11, AtWork, TallyType DEF PostalAnswerLost
    <2>5. QED
      BY <1>11, <2>1, <2>2, <2>3, <2>4 DEF PostalAnswerLost, PostalTakes
  <1>12. ASSUME NEW w \in Workers, Recheck(w) PROVE TypeOK'
    <2>1. job' \in [Workers -> Jobs]
      <3>1. job[w].verdict # "none"
        BY <1>12 DEF Recheck, Jobs
      <3>2. PICK p \in {"release", "count_pool", "settle"} : Goto(w, p)
        BY <1>12 DEF Recheck
      <3>3. QED
        BY <1>12, <3>1, <3>2, GotoType DEF Recheck, Phases
    <2>2. QED
      BY <1>12, <2>1 DEF Recheck
  <1>13. ASSUME NEW w \in Workers, Settle(w) PROVE TypeOK'
    <2>1. job' \in [Workers -> Jobs]
      BY <1>13, GotoType DEF Settle, Phases
    <2>2. counts' \in [Counters -> Nat]
      BY <1>13, CounterType DEF Settle
    <2>3. status' \in [Recipients -> RecipientStatuses]
      <3>1. StatusOf(job[w].verdict) \in RecipientStatuses \cup {"none"}
        BY DEF StatusOf, Jobs, Verdicts, RecipientStatuses
      <3>2. job[w].verdict # "none"
        BY <1>13 DEF Settle, Jobs
      <3>3. StatusOf(job[w].verdict) \in RecipientStatuses
        BY <3>1, <3>2 DEF StatusOf
      <3>4. QED
        BY <1>13, <3>3 DEF Settle
    <2>4. cstatus' \in CampaignStatuses
      BY <1>13 DEF Settle, Finalize, CampaignStatuses
    <2>5. QED
      BY <1>13, <2>1, <2>2, <2>3, <2>4 DEF Settle
  <1>14. ASSUME NEW w \in Workers, SettleDeleted(w) \/ StepFails(w)
         PROVE  TypeOK'
    BY <1>14, AbortType DEF SettleDeleted, StepFails
  <1>15. ASSUME NEW w \in Workers, CountPool(w) \/ CountGlobal(w)
         PROVE  TypeOK'
    <2>1. job' \in [Workers -> Jobs]
      BY <1>15, GotoType DEF CountPool, CountGlobal, Phases
    <2>2. QED
      BY <1>15, <2>1 DEF CountPool, CountGlobal
  <1>16. ASSUME NEW w \in Workers, Release(w) PROVE TypeOK'
    BY <1>16, IdleType DEF Release
  <1>17. ASSUME NEW w \in Workers, Crash(w) PROVE TypeOK'
    <2>1. queue' \in [Tasks -> Nat]
      BY <1>17, QueueUpType, AtWork DEF Crash
    <2>2. job' \in [Workers -> Jobs]
      BY <1>17, IdleType DEF Crash
    <2>3. job[w].pc # "idle"
      BY <1>17 DEF Crash
    <2>4. lost' \in [Recipients -> Nat]
      <3>1. Tally(lost, job[w].r) \in [Recipients -> Nat]
        BY <2>3, AtWork, TallyType
      <3>2. QED
        BY <1>17, <3>1 DEF Crash
    <2>5. uncounted' \in Nat
      BY <1>17 DEF Crash
    <2>6. QED
      BY <1>17, <2>1, <2>2, <2>4, <2>5 DEF Crash
  <1>18. ASSUME NEW r \in Recipients, LockExpires(r) \/ LockOverruns(r)
         PROVE  TypeOK'
    <2>1. lock' \in [Recipients -> BOOLEAN]
      BY <1>18 DEF LockExpires, LockOverruns
    <2>2. overrun' \in [Recipients -> Nat]
      BY <1>18, TallyType DEF LockExpires, LockOverruns
    <2>3. QED
      BY <1>18, <2>1, <2>2 DEF LockExpires, LockOverruns
  <1>19. ASSUME NEW r \in Recipients, Suppress(r) PROVE TypeOK'
    BY <1>19 DEF Suppress
  <1>20. ASSUME NEW t \in Tasks, Redeliver(t) PROVE TypeOK'
    BY <1>20 DEF Redeliver
  <1>21. CASE Materialize
    <2>1. Cardinality(Recipients \ Pending) \in Nat
      BY SendOneAssumption, FS_Subset, FS_CardinalityType
    <2>2. queue' \in [Tasks -> Nat]
      BY <1>21 DEF Materialize, EnqueuePending
    <2>3. counts' \in [Counters -> Nat]
      BY <1>21, <2>1 DEF Materialize, Counters
    <2>4. QED
      BY <1>21, <2>2, <2>3 DEF Materialize
  <1>22. CASE Sweep
    BY <1>22 DEF Sweep, SweepFinalizes, SweepRepumps, EnqueuePending,
                 CampaignStatuses
  <1>23. CASE Operate
    BY <1>23 DEF Operate, Pause, Resume, Cancel, Delete, CampaignStatuses,
                 RecipientStatuses
  <1>24. CASE Midnight
    BY <1>24 DEF Midnight
  <1>25. CASE UNCHANGED vars
    BY <1>25 DEF vars
  <1>26. QED
    BY <1>1, <1>2, <1>3, <1>4, <1>5, <1>6, <1>7, <1>8, <1>9, <1>10, <1>11,
       <1>12, <1>13, <1>14, <1>15, <1>16, <1>17, <1>18, <1>19, <1>20, <1>21,
       <1>22, <1>23, <1>24, <1>25
    DEF Next, Send

\* Every variable keeps its type, for every value of the constants.
THEOREM TypeCorrect == Spec => []TypeOK
  <1>1. Init => TypeOK
    BY InitType
  <1>2. TypeOK /\ [Next]_vars => TypeOK'
    BY TypeStep
  <1>3. QED
    BY <1>1, <1>2, PTL DEF Spec

=============================================================================
