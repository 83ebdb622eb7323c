---------------------------- MODULE SendOneBounds ----------------------------
(***************************************************************************)
(* How often Postal can accept a recipient's message, and how far the      *)
(* pool's daily cap can be overshot: AcceptBound, LateBound and            *)
(* DailyCapBound hold in every behaviour of SendOne, for any number of     *)
(* recipients, workers, retries and faults.                                *)
(***************************************************************************)
EXTENDS SendOneProofs

-----------------------------------------------------------------------------
(* Counting workers.                                                        *)

Bit(b) == IF b THEN 1 ELSE 0

\* Sets of workers are finite, so their size is a number below all workers'.
LEMMA WorkerSet ==
    ASSUME NEW S \in SUBSET Workers
    PROVE  IsFiniteSet(S) /\ Cardinality(S) \in Nat
                          /\ Cardinality(S) <= Cardinality(Workers)
  BY SendOneAssumption, FS_Subset, FS_CardinalityType

\* A worker set of which only the membership of w changes.
LEMMA CardinalityStep ==
    ASSUME NEW S \in SUBSET Workers, NEW T \in SUBSET Workers,
           NEW w \in Workers, \A x \in Workers \ {w} : x \in S <=> x \in T
    PROVE  Cardinality(T) = Cardinality(S) - Bit(w \in S) + Bit(w \in T)
  <1>1. IsFiniteSet(S) /\ Cardinality(S) \in Nat
    BY WorkerSet
  <1>2. IsFiniteSet(T) /\ Cardinality(T) \in Nat
    BY WorkerSet
  <1>3. CASE w \in S /\ w \notin T
    <2>1. T = S \ {w}
      BY <1>3
    <2>2. QED
      BY <1>1, <1>3, <2>1, FS_RemoveElement DEF Bit
  <1>4. CASE w \notin S /\ w \in T
    <2>1. T = S \cup {w}
      BY <1>4
    <2>2. QED
      BY <1>1, <1>4, <2>1, FS_AddElement DEF Bit
  <1>5. CASE w \in S <=> w \in T
    <2>1. S = T
      BY <1>5
    <2>2. QED
      BY <1>1, <1>5, <2>1 DEF Bit
  <1>6. QED
    BY <1>3, <1>4, <1>5

\* The three worker sets of a recipient, when one worker takes a step.
LEMMA WorkerStep ==
    ASSUME NEW r \in Recipients, NEW w \in Workers,
           \A x \in Workers \ {w} : job'[x] = job[x]
    PROVE  /\ Cardinality(Inside(r)') = Cardinality(Inside(r))
                  - Bit(job[w].r = r) + Bit(job'[w].r = r)
           /\ Cardinality(Cleared(r)') = Cardinality(Cleared(r))
                  - Bit(IsCleared(job[w], r)) + Bit(IsCleared(job'[w], r))
           /\ Cardinality(Delivering(r)') = Cardinality(Delivering(r))
                  - Bit(IsDelivering(job[w], r)) + Bit(IsDelivering(job'[w], r))
  <1>1. /\ Inside(r) \in SUBSET Workers /\ Inside(r)' \in SUBSET Workers
        /\ w \in Inside(r) <=> job[w].r = r
        /\ w \in Inside(r)' <=> job'[w].r = r
        /\ \A x \in Workers \ {w} : x \in Inside(r) <=> x \in Inside(r)'
    BY DEF Inside
  <1>2. /\ Cleared(r) \in SUBSET Workers /\ Cleared(r)' \in SUBSET Workers
        /\ w \in Cleared(r) <=> IsCleared(job[w], r)
        /\ w \in Cleared(r)' <=> IsCleared(job'[w], r)
        /\ \A x \in Workers \ {w} : x \in Cleared(r) <=> x \in Cleared(r)'
    BY DEF Cleared, IsCleared
  <1>3. /\ Delivering(r) \in SUBSET Workers /\ Delivering(r)' \in SUBSET Workers
        /\ w \in Delivering(r) <=> IsDelivering(job[w], r)
        /\ w \in Delivering(r)' <=> IsDelivering(job'[w], r)
        /\ \A x \in Workers \ {w} : x \in Delivering(r) <=> x \in Delivering(r)'
    BY DEF Delivering, IsDelivering
  <1>4. QED
    BY <1>1, <1>2, <1>3, CardinalityStep DEF Bit

\* The sets are made of different workers inside the lock's scope.
LEMMA WorkerSets ==
    ASSUME NEW r \in Recipients
    PROVE  /\ Cardinality(Inside(r)) \in Nat
           /\ Cardinality(Cleared(r)) \in Nat
           /\ Cardinality(Delivering(r)) \in Nat
           /\ Cardinality(Cleared(r)) + Cardinality(Delivering(r))
                  <= Cardinality(Inside(r))
           /\ \A w \in Inside(r) :
                 ~IsCleared(job[w], r) /\ ~IsDelivering(job[w], r) =>
                 Cardinality(Cleared(r)) + Cardinality(Delivering(r)) + 1
                     <= Cardinality(Inside(r))
  <1> DEFINE I == Inside(r)
             U == Cleared(r) \cup Delivering(r)
  <1>1. I \in SUBSET Workers /\ U \in SUBSET I
    BY DEF Inside, Cleared, Delivering, IsCleared, IsDelivering
  <1>2. /\ IsFiniteSet(I) /\ IsFiniteSet(Cleared(r)) /\ IsFiniteSet(Delivering(r))
        /\ Cardinality(I) \in Nat
        /\ Cardinality(Cleared(r)) \in Nat
        /\ Cardinality(Delivering(r)) \in Nat
    BY <1>1, WorkerSet DEF Cleared, Delivering
  <1>3. Cleared(r) \cap Delivering(r) = {}
    BY DEF Cleared, Delivering, IsCleared, IsDelivering
  <1>4. Cardinality(U) = Cardinality(Cleared(r)) + Cardinality(Delivering(r))
    <2>1. Cardinality(Cleared(r) \cap Delivering(r)) = 0
      BY <1>3, FS_EmptySet
    <2>2. Cardinality(U) = Cardinality(Cleared(r)) + Cardinality(Delivering(r))
                           - Cardinality(Cleared(r) \cap Delivering(r))
      BY <1>2, FS_Union
    <2>3. QED
      BY <1>2, <2>1, <2>2
  <1>5. Cardinality(U) <= Cardinality(I)
    BY <1>1, <1>2, FS_Subset
  <1>6. ASSUME NEW w \in I, ~IsCleared(job[w], r), ~IsDelivering(job[w], r)
        PROVE  Cardinality(U) + 1 <= Cardinality(I)
    <2>1. w \notin U /\ U \cup {w} \in SUBSET I
      <3>1. w \notin Cleared(r) /\ w \notin Delivering(r)
        BY <1>6 DEF Cleared, Delivering
      <3>2. QED
        BY <1>1, <1>6, <3>1
    <2>2. Cardinality(U \cup {w}) = Cardinality(U) + 1
      BY <1>1, <1>2, <2>1, FS_Subset, FS_AddElement
    <2>3. Cardinality(U \cup {w}) <= Cardinality(I)
      BY <1>2, <2>1, FS_Subset
    <2>4. QED
      BY <2>2, <2>3
  <1>7. QED
    BY <1>2, <1>4, <1>5, <1>6

-----------------------------------------------------------------------------
(* The budgets of one recipient under one step.                             *)

Budgets(r) == OneHolder(r) /\ PendingBudget(r) /\ SendBudget(r) /\ LateBudget(r)

\* Goto moves one worker's pc and nothing else.
LEMMA GotoEffect ==
    ASSUME TypeOK, NEW w \in Workers, NEW p, Goto(w, p)
    PROVE  /\ job'[w].pc = p
           /\ job'[w].r = job[w].r
           /\ job'[w].verdict = job[w].verdict
           /\ \A x \in Workers \ {w} : job'[x] = job[x]
  BY DEF TypeOK, Jobs, Goto

\* GotoWith sets one worker's verdict besides.
LEMMA GotoWithEffect ==
    ASSUME TypeOK, NEW w \in Workers, NEW p, NEW v, GotoWith(w, p, v)
    PROVE  /\ job'[w].pc = p
           /\ job'[w].r = job[w].r
           /\ job'[w].verdict = v
           /\ \A x \in Workers \ {w} : job'[x] = job[x]
  BY DEF TypeOK, Jobs, GotoWith

\* A worker that leaves send_one is at no recipient; the others stay.
LEMMA IdleEffect ==
    ASSUME TypeOK, NEW w \in Workers, job' = [job EXCEPT ![w] = Idle]
    PROVE  /\ job'[w].pc = "idle"
           /\ job'[w].r = NoRecipient
           /\ job'[w].verdict = "none"
           /\ \A x \in Workers \ {w} : job'[x] = job[x]
  BY DEF TypeOK, Idle

\* A worker's step that clears nobody and accepts nothing: an acceptance
\* leaves its hands only into a settled row or into lost, and the lock goes
\* only when the worker leaves.
Retreat(w, r) ==
    /\ \A x \in Workers \ {w} : job'[x] = job[x]
    /\ job'[w].r = r => job[w].r = r
    /\ IsCleared(job'[w], r) => IsCleared(job[w], r)
    /\ (status'[r] = "pending" /\ IsDelivering(job[w], r)) =>
           (IsDelivering(job'[w], r) \/ lost'[r] = lost[r] + 1)
    /\ status'[r] = "pending" => status[r] = "pending"
    /\ lost'[r] >= lost[r]
    /\ accepted'[r] = accepted[r] /\ late'[r] = late[r]
    /\ overrun'[r] = overrun[r] /\ suppressed' = suppressed
    /\ lock'[r] = lock[r] \/ (job[w].r = r /\ job'[w].r # r)

\* A retreat of a worker keeps the budgets of every recipient.
LEMMA RetreatKeeps ==
    ASSUME TypeOK, TypeOK', NEW r \in Recipients, NEW w \in Workers, Budgets(r),
           Retreat(w, r)
    PROVE  Budgets(r)'
  <1>1. /\ Cardinality(Inside(r)') = Cardinality(Inside(r))
               - Bit(job[w].r = r) + Bit(job'[w].r = r)
        /\ Cardinality(Cleared(r)') = Cardinality(Cleared(r))
               - Bit(IsCleared(job[w], r)) + Bit(IsCleared(job'[w], r))
        /\ Cardinality(Delivering(r)') = Cardinality(Delivering(r))
               - Bit(IsDelivering(job[w], r)) + Bit(IsDelivering(job'[w], r))
    BY WorkerStep DEF Retreat
  <1>2. /\ Cardinality(Inside(r)) \in Nat
        /\ Cardinality(Cleared(r)) \in Nat
        /\ Cardinality(Delivering(r)) \in Nat
    BY WorkerSets
  <1>3. /\ accepted[r] \in Nat /\ late[r] \in Nat /\ lost[r] \in Nat
        /\ overrun[r] \in Nat /\ lost'[r] \in Nat
        /\ lock[r] \in BOOLEAN /\ lock'[r] \in BOOLEAN
    BY DEF TypeOK
  <1>4. OneHolder(r)'
    BY <1>1, <1>2, <1>3 DEF Retreat, Budgets, OneHolder, Bit
  <1>5. PendingBudget(r)'
    BY <1>1, <1>2, <1>3 DEF Retreat, Budgets, PendingBudget, Bit
  <1>6. SendBudget(r)'
    BY <1>1, <1>2, <1>3 DEF Retreat, Budgets, SendBudget, Bit
  <1>7. LateBudget(r)'
    BY <1>1, <1>2, <1>3 DEF Retreat, Budgets, LateBudget, Bit
  <1>8. QED
    BY <1>4, <1>5, <1>6, <1>7 DEF Budgets

\* A step in which no worker moves and no lock is taken away.
LEMMA StandstillKeeps ==
    ASSUME TypeOK, NEW r \in Recipients, Budgets(r),
           UNCHANGED <<job, lock, accepted, late, lost, overrun, suppressed>>,
           status'[r] = "pending" => status[r] = "pending"
    PROVE  Budgets(r)'
  <1>1. /\ Inside(r)' = Inside(r)
        /\ Cleared(r)' = Cleared(r)
        /\ Delivering(r)' = Delivering(r)
    BY DEF Inside, Cleared, Delivering
  <1>2. QED
    BY <1>1 DEF Budgets, OneHolder, PendingBudget, SendBudget, LateBudget

\* The steps of a worker that are no retreat, one by one.
LEMMA TakeLockKeeps ==
    ASSUME TypeOK, TypeOK', NEW r \in Recipients, NEW w \in Workers,
           NEW t \in Tasks, Budgets(r), TakeLock(w, t)
    PROVE  Budgets(r)'
  <1>1. /\ job'[w].r = t.r /\ job'[w].pc = "validate"
        /\ \A x \in Workers \ {w} : job'[x] = job[x]
    BY DEF TakeLock, TypeOK
  <1>2. job[w].r = NoRecipient /\ job[w].pc = "idle" /\ NoRecipient # r
    BY SendOneAssumption DEF TakeLock, TypeOK, Jobs
  <1>3. /\ Cardinality(Inside(r)') = Cardinality(Inside(r)) + Bit(t.r = r)
        /\ Cardinality(Cleared(r)') = Cardinality(Cleared(r))
        /\ Cardinality(Delivering(r)') = Cardinality(Delivering(r))
    BY <1>1, <1>2, WorkerStep, WorkerSets DEF Bit, IsCleared, IsDelivering
  <1>4. /\ lock[r] \in BOOLEAN /\ overrun[r] \in Nat
        /\ t.r = r => (~lock[r] /\ lock'[r])
        /\ t.r # r => lock'[r] = lock[r]
    BY DEF TypeOK, TakeLock
  <1>5. UNCHANGED <<status, accepted, late, lost, overrun, suppressed>>
    BY DEF TakeLock, db, mail, slips
  <1>6. OneHolder(r)'
    BY <1>3, <1>4, <1>5, WorkerSets DEF Budgets, OneHolder, Bit
  <1>7. QED
    BY <1>3, <1>5, <1>6
    DEF Budgets, PendingBudget, SendBudget, LateBudget

\* Phase 1 clears a worker only for a pending row not suppressed.
LEMMA ValidateKeeps ==
    ASSUME TypeOK, TypeOK', NEW r \in Recipients, NEW w \in Workers, Budgets(r),
           Validate(w)
    PROVE  Budgets(r)'
  <1>1. UNCHANGED <<status, accepted, late, lost, overrun, suppressed, lock>>
    BY DEF Validate, db, mail, slips
  <1>2. CASE job[w].r = r /\ Goto(w, "rate") /\ status[r] = "pending"
             /\ r \notin suppressed
    <2>1. /\ job'[w].pc = "rate" /\ job'[w].r = r
          /\ \A x \in Workers \ {w} : job'[x] = job[x]
      BY <1>2, GotoEffect
    <2>2. job[w].pc = "validate" /\ w \in Inside(r)
      BY <1>2 DEF Validate, Inside
    <2>3. ~IsCleared(job[w], r) /\ ~IsDelivering(job[w], r)
      BY <2>2 DEF IsCleared, IsDelivering
    <2>4. IsCleared(job'[w], r) /\ ~IsDelivering(job'[w], r)
      BY <2>1 DEF IsCleared, IsDelivering
    <2>5. /\ Cardinality(Inside(r)') = Cardinality(Inside(r))
          /\ Cardinality(Cleared(r)') = Cardinality(Cleared(r)) + 1
          /\ Cardinality(Delivering(r)') = Cardinality(Delivering(r))
      BY <1>2, <2>1, <2>3, <2>4, WorkerStep, WorkerSets DEF Bit
    <2>6. Cardinality(Cleared(r)) + Cardinality(Delivering(r)) + 1
              <= Cardinality(Inside(r))
      BY <2>2, <2>3, WorkerSets
    <2>7. Cardinality(Inside(r)) <= overrun[r] + 1
      BY WorkerSets DEF Budgets, OneHolder, TypeOK
    <2>8. SendBudget(r)'
      BY <1>1, <1>2, <2>5, <2>6, <2>7, WorkerSets
      DEF Budgets, PendingBudget, SendBudget, TypeOK
    <2>9. QED
      BY <1>1, <1>2, <2>5, <2>8
      DEF Budgets, OneHolder, PendingBudget, LateBudget
  <1>3. CASE ~(job[w].r = r /\ Goto(w, "rate") /\ status[r] = "pending"
               /\ r \notin suppressed)
    <2>1. /\ job'[w].r = job[w].r
          /\ \A x \in Workers \ {w} : job'[x] = job[x]
      BY GotoEffect, GotoWithEffect DEF Validate
    <2>2. job[w].r = r => job'[w].pc \in {"release", "settle"}
      BY <1>3, GotoEffect, GotoWithEffect DEF Validate
    <2>3. ~IsDelivering(job[w], r)
      BY DEF Validate, IsDelivering
    <2>4. IsCleared(job'[w], r) => IsCleared(job[w], r)
      BY <2>1, <2>2 DEF IsCleared
    <2>5. Retreat(w, r)
      BY <1>1, <2>1, <2>3, <2>4 DEF Retreat, TypeOK
    <2>6. QED
      BY <2>5, RetreatKeeps
  <1>4. QED
    BY <1>2, <1>3

\* A cleared worker's message is accepted: what it was cleared for is spent.
LEMMA AcceptanceKeeps ==
    ASSUME TypeOK, TypeOK', NEW r \in Recipients, NEW w \in Workers, Budgets(r),
           PostalAccepts(w) \/ PostalAnswerLost(w)
    PROVE  Budgets(r)'
  <1>1. /\ \A x \in Workers \ {w} : job'[x] = job[x]
        /\ job'[w].r = job[w].r
        /\ \/ PostalAccepts(w) /\ job'[w].pc = "recheck" /\ job'[w].verdict = "sent"
           \/ PostalAnswerLost(w) /\ job'[w].pc = "release"
    BY GotoEffect, GotoWithEffect DEF PostalAccepts, PostalAnswerLost
  <1>2. /\ UNCHANGED <<status, suppressed, overrun, lock>>
        /\ job[w].pc = "postal"
        /\ PostalTakes(job[w].r)
    BY DEF PostalAccepts, PostalAnswerLost, db, slips
  <1>3. CASE job[w].r = r
    <2>1. /\ accepted'[r] = accepted[r] + 1
          /\ late'[r] = IF r \in suppressed THEN late[r] + 1 ELSE late[r]
      BY <1>2, <1>3 DEF PostalTakes, Tally, TypeOK
    <2>2. /\ IsCleared(job[w], r) /\ ~IsDelivering(job[w], r)
          /\ ~IsCleared(job'[w], r)
      BY <1>1, <1>2, <1>3 DEF IsCleared, IsDelivering
    <2>3. \/ IsDelivering(job'[w], r) /\ lost'[r] = lost[r]
          \/ ~IsDelivering(job'[w], r) /\ lost'[r] = lost[r] + 1
      BY <1>1, <1>3
      DEF PostalAccepts, PostalAnswerLost, IsDelivering, slips, Tally, TypeOK
    <2>4. /\ Cardinality(Inside(r)') = Cardinality(Inside(r))
          /\ Cardinality(Cleared(r)') = Cardinality(Cleared(r)) - 1
          /\ Cardinality(Delivering(r)') =
                 Cardinality(Delivering(r)) + Bit(IsDelivering(job'[w], r))
      BY <1>1, <1>3, <2>2, WorkerStep, WorkerSets DEF Bit
    <2>5. /\ accepted[r] \in Nat /\ late[r] \in Nat /\ lost[r] \in Nat
          /\ overrun[r] \in Nat
      BY DEF TypeOK
    <2>6. PendingBudget(r)'
      BY <1>2, <2>1, <2>3, <2>4, <2>5, WorkerSets DEF Budgets, PendingBudget, Bit
    <2>7. SendBudget(r)'
      BY <1>2, <2>1, <2>3, <2>4, <2>5, WorkerSets DEF Budgets, SendBudget
    <2>8. LateBudget(r)'
      BY <1>2, <2>1, <2>4, <2>5, WorkerSets DEF Budgets, LateBudget
    <2>9. OneHolder(r)'
      BY <1>2, <2>4 DEF Budgets, OneHolder
    <2>10. QED
      BY <2>6, <2>7, <2>8, <2>9 DEF Budgets
  <1>4. CASE job[w].r # r
    <2>1. accepted'[r] = accepted[r] /\ late'[r] = late[r] /\ lost'[r] = lost[r]
      BY <1>2, <1>4
      DEF PostalTakes, PostalAccepts, PostalAnswerLost, slips, Tally, TypeOK
    <2>2. Retreat(w, r)
      BY <1>1, <1>2, <1>4, <2>1 DEF Retreat, IsCleared, IsDelivering, TypeOK
    <2>3. QED
      BY <2>2, RetreatKeeps
  <1>5. QED
    BY <1>3, <1>4

\* The other steps of a worker are retreats.
LEMMA QuietIsRetreat ==
    ASSUME TypeOK, TypeOK', NEW r \in Recipients, NEW w \in Workers,
           \/ RateGranted(w) \/ RateDenied(w) \/ CheckPoolCap(w)
           \/ CheckWarmingCap(w) \/ CheckCapBlind(w)
           \/ PostalRejects(w) \/ PostalTransient(w)
           \/ CountPool(w) \/ CountGlobal(w)
    PROVE  Retreat(w, r)
  <1>1. /\ UNCHANGED <<status, suppressed, accepted, late, lost, overrun, lock>>
        /\ job'[w].r = job[w].r
        /\ \A x \in Workers \ {w} : job'[x] = job[x]
    BY GotoEffect, GotoWithEffect
    DEF RateGranted, RateDenied, CheckPoolCap, CheckWarmingCap, CheckCapBlind,
        PostalRejects, PostalTransient, CountPool, CountGlobal, db, mail, slips
  <1>2. job[w].pc \in {"rate", "pool_cap", "warming_cap", "postal",
                       "count_pool", "count_global"}
    BY DEF RateGranted, RateDenied, CheckPoolCap, CheckWarmingCap, CheckCapBlind,
           PostalRejects, PostalTransient, CountPool, CountGlobal
  <1>3. job[w].pc \in {"count_pool", "count_global"} =>
            job'[w].pc \in {"count_global", "release"}
    BY GotoEffect
    DEF RateGranted, RateDenied, CheckPoolCap, CheckWarmingCap, CheckCapBlind,
        PostalRejects, PostalTransient, CountPool, CountGlobal
  <1>4. QED
    BY <1>1, <1>2, <1>3 DEF Retreat, IsCleared, IsDelivering, TypeOK

\* Reading the row again clears no worker and loses no acceptance.
LEMMA RecheckIsRetreat ==
    ASSUME TypeOK, TypeOK', NEW r \in Recipients, NEW w \in Workers, Recheck(w)
    PROVE  Retreat(w, r)
  <1>1. /\ UNCHANGED <<status, suppressed, accepted, late, lost, overrun, lock>>
        /\ job'[w].r = job[w].r /\ job'[w].verdict = job[w].verdict
        /\ \A x \in Workers \ {w} : job'[x] = job[x]
        /\ job'[w].pc \in {"release", "count_pool", "settle"}
        /\ status[job[w].r] = "pending" => job'[w].pc = "settle"
    BY GotoEffect DEF Recheck, db, mail
  <1>2. QED
    BY <1>1 DEF Retreat, IsCleared, IsDelivering, TypeOK

\* The commit of a status ends a delivery with a row not pending.
LEMMA SettleIsRetreat ==
    ASSUME TypeOK, TypeOK', NEW r \in Recipients, NEW w \in Workers, Settle(w)
    PROVE  Retreat(w, r)
  <1>1. /\ UNCHANGED <<suppressed, accepted, late, lost, overrun, lock>>
        /\ job'[w].r = job[w].r
        /\ \A x \in Workers \ {w} : job'[x] = job[x]
        /\ job'[w].pc \in {"release", "count_pool"}
    BY GotoEffect DEF Settle, mail, slips
  <1>2. /\ job[w].r = r => status'[r] # "pending"
        /\ job[w].r # r => status'[r] = status[r]
    BY DEF Settle, StatusOf, TypeOK, Jobs, Verdicts
  <1>3. QED
    BY <1>1, <1>2 DEF Retreat, IsCleared, IsDelivering, TypeOK

\* A delivery that is rolled back is counted as lost.
LEMMA AbortIsRetreat ==
    ASSUME TypeOK, TypeOK', NEW r \in Recipients, NEW w \in Workers, Abort(w)
    PROVE  Retreat(w, r)
  <1>1. /\ UNCHANGED <<status, suppressed, accepted, late, overrun, lock>>
        /\ job'[w].r = job[w].r
        /\ \A x \in Workers \ {w} : job'[x] = job[x]
        /\ job'[w].pc = "release"
    BY GotoEffect DEF Abort, db, mail
  <1>2. /\ IsDelivering(job[w], r) => lost'[r] = lost[r] + 1
        /\ lost'[r] >= lost[r]
    BY DEF Abort, AcceptedUnsettled, IsDelivering, Tally, TypeOK
  <1>3. QED
    BY <1>1, <1>2 DEF Retreat, IsCleared, TypeOK

\* A worker that releases the lock, or dies, leaves a delivery as lost.
LEMMA LeaveIsRetreat ==
    ASSUME TypeOK, TypeOK', NEW r \in Recipients, NEW w \in Workers,
           Release(w) \/ Crash(w)
    PROVE  Retreat(w, r)
  <1>1. /\ UNCHANGED <<status, suppressed, accepted, late, overrun>>
        /\ job'[w].r = NoRecipient /\ job'[w].pc = "idle"
        /\ \A x \in Workers \ {w} : job'[x] = job[x]
        /\ NoRecipient # r
    BY IdleEffect, SendOneAssumption DEF Release, Crash, db, mail, slips
  <1>2. lock'[r] = lock[r] \/ job[w].r = r
    BY DEF Release, Crash, TypeOK
  <1>3. /\ IsDelivering(job[w], r) => lost'[r] = lost[r] + 1
        /\ lost'[r] >= lost[r]
    <2>1. CASE Release(w)
      BY <2>1 DEF Release, slips, IsDelivering, TypeOK
    <2>2. CASE Crash(w)
      BY <2>2 DEF Crash, AcceptedUnsettled, IsDelivering, Tally, TypeOK
    <2>3. QED
      BY <2>1, <2>2
  <1>4. QED
    BY <1>1, <1>2, <1>3 DEF Retreat, IsCleared

\* A lock that expires under a worker is an overrun; one nobody holds, not.
LEMMA ExpiryKeeps ==
    ASSUME TypeOK, TypeOK', NEW r \in Recipients, NEW q \in Recipients,
           Budgets(r), LockExpires(q) \/ LockOverruns(q)
    PROVE  Budgets(r)'
  <1>1. UNCHANGED <<job, status, suppressed, accepted, late, lost>>
    BY DEF LockExpires, LockOverruns, db, mail, slips
  <1>2. /\ Inside(r)' = Inside(r)
        /\ Cleared(r)' = Cleared(r)
        /\ Delivering(r)' = Delivering(r)
    BY <1>1 DEF Inside, Cleared, Delivering
  <1>3. overrun[r] \in Nat /\ overrun'[r] \in Nat /\ overrun'[r] >= overrun[r]
    BY DEF LockExpires, LockOverruns, slips, Tally, TypeOK
  <1>4. OneHolder(r)'
    <2>1. CASE q # r
      BY <1>2, <2>1
      DEF Budgets, OneHolder, LockExpires, LockOverruns, slips, Tally, TypeOK
    <2>2. CASE q = r /\ LockExpires(q)
      <3>1. Cardinality(Inside(r)) = 0
        BY <2>2, FS_EmptySet DEF LockExpires
      <3>2. QED
        BY <1>2, <1>3, <3>1 DEF OneHolder, TypeOK
    <2>3. CASE q = r /\ LockOverruns(q)
      <3>1. overrun'[r] = overrun[r] + 1 /\ lock[r] /\ ~lock'[r]
        BY <2>3 DEF LockOverruns, Tally, TypeOK
      <3>2. QED
        BY <1>2, <1>3, <3>1, WorkerSets DEF Budgets, OneHolder
    <2>4. QED
      BY <2>1, <2>2, <2>3
  <1>5. QED
    BY <1>1, <1>2, <1>3, <1>4, WorkerSets
    DEF Budgets, PendingBudget, SendBudget, LateBudget, TypeOK

\* A suppression finds at most one cleared worker per lock and overrun.
LEMMA SuppressKeeps ==
    ASSUME TypeOK, TypeOK', NEW r \in Recipients, NEW q \in Recipients,
           Budgets(r), Suppress(q)
    PROVE  Budgets(r)'
  <1>1. /\ UNCHANGED <<job, status, lock, accepted, late, lost, overrun>>
        /\ suppressed' = suppressed \cup {q}
    BY DEF Suppress, mail, slips
  <1>2. /\ Inside(r)' = Inside(r)
        /\ Cleared(r)' = Cleared(r)
        /\ Delivering(r)' = Delivering(r)
    BY <1>1 DEF Inside, Cleared, Delivering
  <1>3. Cardinality(Cleared(r)) <= 1 + overrun[r]
    BY WorkerSets DEF Budgets, OneHolder, TypeOK
  <1>4. LateBudget(r)'
    BY <1>1, <1>2, <1>3, WorkerSets DEF Budgets, LateBudget, TypeOK
  <1>5. QED
    BY <1>1, <1>2, <1>4 DEF Budgets, OneHolder, PendingBudget, SendBudget

-----------------------------------------------------------------------------
(* The invariant and the theorems.                                          *)

\* The budgets hold when nothing has been sent.
LEMMA BudgetsInit == Init => SendBudgets
  <1> SUFFICES ASSUME Init, NEW r \in Recipients PROVE Budgets(r)
    BY DEF SendBudgets, Budgets
  <1>1. Inside(r) = {} /\ Cleared(r) = {} /\ Delivering(r) = {}
    BY SendOneAssumption
    DEF Init, Idle, Inside, Cleared, IsCleared, Delivering, IsDelivering
  <1>2. QED
    BY <1>1, FS_EmptySet
    DEF Init, Budgets, OneHolder, PendingBudget, SendBudget, LateBudget

\* Every step keeps the budgets of all recipients.
LEMMA BudgetsStep == TypeOK /\ SendBudgets /\ [Next]_vars => SendBudgets'
  <1> SUFFICES ASSUME TypeOK, SendBudgets, [Next]_vars,
                      NEW r \in Recipients
               PROVE  Budgets(r)'
    BY DEF SendBudgets, Budgets
  <1>1. TypeOK'
    BY TypeStep
  <1>2. Budgets(r)
    BY DEF SendBudgets, Budgets
  <1>3. ASSUME NEW w \in Workers, Send(w) PROVE Budgets(r)'
    <2>1. ASSUME NEW t \in Tasks, TakeLock(w, t) PROVE Budgets(r)'
      BY <1>1, <1>2, <2>1, TakeLockKeeps
    <2>2. ASSUME NEW t \in Tasks, TakeLocked(w, t) PROVE Budgets(r)'
      BY <1>2, <2>2, StandstillKeeps DEF TakeLocked, db, mail, slips
    <2>3. CASE Validate(w)
      BY <1>1, <1>2, <2>3, ValidateKeeps
    <2>4. CASE PostalAccepts(w) \/ PostalAnswerLost(w)
      BY <1>1, <1>2, <2>4, AcceptanceKeeps
    <2>5. CASE \/ RateGranted(w) \/ RateDenied(w) \/ CheckPoolCap(w)
               \/ CheckWarmingCap(w) \/ CheckCapBlind(w)
               \/ PostalRejects(w) \/ PostalTransient(w)
               \/ CountPool(w) \/ CountGlobal(w)
      BY <1>1, <1>2, <2>5, QuietIsRetreat, RetreatKeeps
    <2>6. CASE Recheck(w)
      BY <1>1, <1>2, <2>6, RecheckIsRetreat, RetreatKeeps
    <2>7. CASE Settle(w)
      BY <1>1, <1>2, <2>7, SettleIsRetreat, RetreatKeeps
    <2>8. CASE SettleDeleted(w) \/ StepFails(w)
      BY <1>1, <1>2, <2>8, AbortIsRetreat, RetreatKeeps
      DEF SettleDeleted, StepFails
    <2>9. CASE Release(w) \/ Crash(w)
      BY <1>1, <1>2, <2>9, LeaveIsRetreat, RetreatKeeps
    <2>10. QED
      BY <1>3, <2>1, <2>2, <2>3, <2>4, <2>5, <2>6, <2>7, <2>8, <2>9 DEF Send
  <1>4. ASSUME NEW q \in Recipients, LockExpires(q) \/ LockOverruns(q)
        PROVE  Budgets(r)'
    BY <1>1, <1>2, <1>4, ExpiryKeeps
  <1>5. ASSUME NEW q \in Recipients, Suppress(q) PROVE Budgets(r)'
    BY <1>1, <1>2, <1>5, SuppressKeeps
  <1>6. ASSUME NEW t \in Tasks, Redeliver(t) PROVE Budgets(r)'
    BY <1>2, <1>6, StandstillKeeps DEF Redeliver, db, mail
  <1>7. CASE Materialize
    BY <1>2, <1>7, StandstillKeeps DEF Materialize, mail, slips
  <1>8. CASE Sweep
    BY <1>2, <1>8, StandstillKeeps
    DEF Sweep, SweepFinalizes, SweepRepumps, db, mail, slips
  <1>9. CASE Operate
    <2>1. status'[r] = "pending" => status[r] = "pending"
      BY <1>9 DEF Operate, Pause, Resume, Cancel, Delete
    <2>2. QED
      BY <1>2, <1>9, <2>1, StandstillKeeps
      DEF Operate, Pause, Resume, Cancel, Delete, mail, slips
  <1>10. CASE Midnight
    BY <1>2, <1>10, StandstillKeeps DEF Midnight, db, slips
  <1>11. CASE UNCHANGED vars
    BY <1>2, <1>11, StandstillKeeps DEF vars, db, mail, slips
  <1>12. QED
    BY <1>3, <1>4, <1>5, <1>6, <1>7, <1>8, <1>9, <1>10, <1>11 DEF Next

\* In every state of every behaviour the acceptances of a recipient and the
\* workers that may still cause one stay within the lock's budget.
THEOREM BudgetsHold == Spec => [](TypeOK /\ SendBudgets)
  <1>1. Init => TypeOK /\ SendBudgets
    BY InitType, BudgetsInit
  <1>2. TypeOK /\ SendBudgets /\ [Next]_vars => TypeOK' /\ SendBudgets'
    BY TypeStep, BudgetsStep
  <1>3. QED
    BY <1>1, <1>2, PTL DEF Spec

\* Postal accepts a message for a recipient at most once, and once more for
\* each acceptance lost with its worker and each lock that ran out under its
\* holder, however many workers, duplicate tasks, retries and re-pumps.
THEOREM AtMostOnce == Spec => []AcceptBound
  <1>1. TypeOK /\ SendBudgets => AcceptBound
    <2> SUFFICES ASSUME TypeOK, SendBudgets, NEW r \in Recipients
                 PROVE  accepted[r] <= 1 + lost[r] + overrun[r]
      BY DEF AcceptBound
    <2>1. QED
      BY WorkerSets DEF SendBudgets, SendBudget, TypeOK
  <1>2. QED
    BY <1>1, BudgetsHold, PTL

\* A suppressed address gets at most the one message whose worker had passed
\* phase 1 when it was suppressed, and one more for each overrun of its lock.
THEOREM SuppressionHolds == Spec => []LateBound
  <1>1. TypeOK /\ SendBudgets => LateBound
    <2> SUFFICES ASSUME TypeOK, SendBudgets, NEW r \in Recipients
                 PROVE  late[r] <= 1 + overrun[r]
      BY DEF LateBound
    <2>1. QED
      BY WorkerSets DEF SendBudgets, LateBudget, TypeOK
  <1>2. QED
    BY <1>1, BudgetsHold, PTL

-----------------------------------------------------------------------------
(* The daily cap of the pool: how far it can be overshot.                   *)


On == {w \in Workers : OnPool(job[w])}
Owes == {w \in Workers : OwesPool(job[w])}

\* The two worker sets: the owing are on the pool, and both are finite.
LEMMA PoolSets ==
    /\ Cardinality(On) \in Nat
    /\ Cardinality(Owes) \in Nat
    /\ Cardinality(Workers) \in Nat
    /\ Cardinality(On) <= Cardinality(Workers)
    /\ Cardinality(Owes) <= Cardinality(On)
    /\ \A w \in Workers \ On : Cardinality(On) + 1 <= Cardinality(Workers)
  <1>1. /\ IsFiniteSet(On) /\ IsFiniteSet(Owes) /\ IsFiniteSet(Workers)
        /\ Cardinality(On) \in Nat
        /\ Cardinality(Owes) \in Nat
        /\ Cardinality(Workers) \in Nat
        /\ Cardinality(On) <= Cardinality(Workers)
    BY WorkerSet, SendOneAssumption, FS_CardinalityType DEF On, Owes
  <1>2. Cardinality(Owes) <= Cardinality(On)
    <2>1. Owes \in SUBSET On
      BY DEF Owes, On, OnPool
    <2>2. QED
      BY <1>1, <2>1, FS_Subset
  <1>3. ASSUME NEW w \in Workers \ On
        PROVE  Cardinality(On) + 1 <= Cardinality(Workers)
    <2>1. On \cup {w} \in SUBSET Workers
      BY DEF On
    <2>2. Cardinality(On \cup {w}) = Cardinality(On) + 1
      BY <1>1, FS_AddElement
    <2>3. Cardinality(On \cup {w}) <= Cardinality(Workers)
      BY <1>1, <2>1, FS_Subset
    <2>4. QED
      BY <2>2, <2>3
  <1>4. QED
    BY <1>1, <1>2, <1>3

\* How the sizes change when one worker takes a step.
LEMMA PoolStep ==
    ASSUME NEW w \in Workers, \A x \in Workers \ {w} : job'[x] = job[x]
    PROVE  /\ Cardinality(On') = Cardinality(On)
                  - Bit(OnPool(job[w])) + Bit(OnPool(job'[w]))
           /\ Cardinality(Owes') = Cardinality(Owes)
                  - Bit(OwesPool(job[w])) + Bit(OwesPool(job'[w]))
  <1>1. /\ On \in SUBSET Workers /\ On' \in SUBSET Workers
        /\ w \in On <=> OnPool(job[w])
        /\ w \in On' <=> OnPool(job'[w])
        /\ \A x \in Workers \ {w} : x \in On <=> x \in On'
    BY DEF On, OnPool, OwesPool
  <1>2. /\ Owes \in SUBSET Workers /\ Owes' \in SUBSET Workers
        /\ w \in Owes <=> OwesPool(job[w])
        /\ w \in Owes' <=> OwesPool(job'[w])
        /\ \A x \in Workers \ {w} : x \in Owes <=> x \in Owes'
    BY DEF Owes, OwesPool
  <1>3. QED
    BY <1>1, <1>2, CardinalityStep DEF Bit

PoolInv ==
    /\ poolUsed + Cardinality(On) <= PoolCap + Cardinality(Workers) - 1 + blind
    /\ acceptedToday <= poolUsed + Cardinality(Owes) + uncounted

\* The invariant in terms of the two named sets is PoolBudget.
LEMMA PoolInvIsBudget == PoolBudget <=> PoolInv
  BY DEF PoolBudget, PoolInv, On, Owes

\* A worker's step that takes no new share of the cap: what it adds to the
\* counter it gives up as a worker, and what it accepted it owes, counts or
\* leaves uncounted.
Thrifty(w) ==
    /\ \A x \in Workers \ {w} : job'[x] = job[x]
    /\ poolUsed' + Bit(OnPool(job'[w])) + blind
           <= poolUsed + Bit(OnPool(job[w])) + blind'
    /\ acceptedToday' + poolUsed + Bit(OwesPool(job[w])) + uncounted
           <= acceptedToday + poolUsed' + Bit(OwesPool(job'[w])) + uncounted'

\* A thrifty step of a worker keeps the invariant.
LEMMA ThriftyKeeps ==
    ASSUME TypeOK, TypeOK', NEW w \in Workers, PoolInv, Thrifty(w)
    PROVE  PoolInv'
  <1>1. /\ Cardinality(On') = Cardinality(On)
               - Bit(OnPool(job[w])) + Bit(OnPool(job'[w]))
        /\ Cardinality(Owes') = Cardinality(Owes)
               - Bit(OwesPool(job[w])) + Bit(OwesPool(job'[w]))
    BY PoolStep DEF Thrifty
  <1>2. /\ poolUsed \in Nat /\ poolUsed' \in Nat /\ blind \in Nat /\ blind' \in Nat
        /\ acceptedToday \in Nat /\ acceptedToday' \in Nat
        /\ uncounted \in Nat /\ uncounted' \in Nat
        /\ PoolCap \in Nat
    BY SendOneAssumption DEF TypeOK
  <1>3. /\ Bit(OnPool(job[w])) \in Nat /\ Bit(OnPool(job'[w])) \in Nat
        /\ Bit(OwesPool(job[w])) \in Nat /\ Bit(OwesPool(job'[w])) \in Nat
    BY DEF Bit
  <1>4. QED
    BY <1>1, <1>2, <1>3, PoolSets DEF Thrifty, PoolInv

\* A step in which no worker, counter or ghost of the pool moves keeps it.
LEMMA StandstillKeepsPool ==
    ASSUME PoolInv, UNCHANGED <<job, poolUsed, blind, acceptedToday, uncounted>>
    PROVE  PoolInv'
  <1>1. On' = On /\ Owes' = Owes
    BY DEF On, Owes
  <1>2. QED
    BY <1>1 DEF PoolInv

\* The check passes below the cap, and the worker is not yet among the On.
LEMMA CheckPoolCapKeeps ==
    ASSUME TypeOK, TypeOK', NEW w \in Workers, PoolInv, CheckPoolCap(w)
    PROVE  PoolInv'
  <1>1. /\ UNCHANGED <<poolUsed, blind, acceptedToday, uncounted>>
        /\ job[w].pc = "pool_cap"
        /\ \A x \in Workers \ {w} : job'[x] = job[x]
        /\ job'[w].pc = "release" \/ (job'[w].pc = "warming_cap" /\ poolUsed < PoolCap)
    BY GotoEffect DEF CheckPoolCap, caps, mail, slips
  <1>2. ~OnPool(job[w]) /\ ~OwesPool(job[w]) /\ ~OwesPool(job'[w])
    BY <1>1 DEF OnPool, OwesPool
  <1>3. CASE job'[w].pc = "release"
    <2>1. ~OnPool(job'[w])
      BY <1>2, <1>3 DEF OnPool
    <2>2. Thrifty(w)
      BY <1>1, <1>2, <2>1 DEF Thrifty, Bit, TypeOK
    <2>3. QED
      BY <2>2, ThriftyKeeps
  <1>4. CASE job'[w].pc = "warming_cap" /\ poolUsed < PoolCap
    <2>1. OnPool(job'[w])
      BY <1>4 DEF OnPool
    <2>2. /\ Cardinality(On') = Cardinality(On) + 1
          /\ Cardinality(Owes') = Cardinality(Owes)
      BY <1>1, <1>2, <2>1, PoolStep, PoolSets DEF Bit
    <2>3. Cardinality(On) + 1 <= Cardinality(Workers)
      BY <1>2, PoolSets DEF On
    <2>4. QED
      BY <1>1, <1>4, <2>2, <2>3, PoolSets, SendOneAssumption DEF PoolInv, TypeOK
  <1>5. QED
    BY <1>1, <1>3, <1>4

\* Every other step of a worker is thrifty.
LEMMA SendIsThrifty ==
    ASSUME TypeOK, TypeOK', NEW w \in Workers, Send(w), ~CheckPoolCap(w)
    PROVE  Thrifty(w)
  <1> USE DEF Thrifty, OnPool, OwesPool, Bit
  <1>1. ASSUME NEW t \in Tasks, TakeLock(w, t) PROVE Thrifty(w)
    <2>1. /\ job'[w].pc = "validate"
          /\ \A x \in Workers \ {w} : job'[x] = job[x]
      BY <1>1 DEF TakeLock, TypeOK
    <2>2. QED
      BY <1>1, <2>1 DEF TakeLock, TypeOK, caps, mail, slips
  <1>2. ASSUME NEW t \in Tasks, TakeLocked(w, t) PROVE Thrifty(w)
    BY <1>2 DEF TakeLocked, TypeOK, caps, mail, slips
  <1>3. CASE Validate(w)
    <2>1. /\ job[w].pc = "validate"
          /\ \/ job'[w].pc \in {"release", "rate"}
             \/ job'[w].pc = "settle" /\ job'[w].verdict # "sent"
          /\ \A x \in Workers \ {w} : job'[x] = job[x]
      BY <1>3, GotoEffect, GotoWithEffect DEF Validate
    <2>2. QED
      BY <1>3, <2>1 DEF Validate, TypeOK, caps, mail, slips
  <1>4. CASE RateGranted(w) \/ RateDenied(w)
    <2>1. /\ job[w].pc = "rate" /\ job'[w].pc \in {"pool_cap", "release"}
          /\ \A x \in Workers \ {w} : job'[x] = job[x]
      BY <1>4, GotoEffect DEF RateGranted, RateDenied
    <2>2. UNCHANGED <<poolUsed, blind, acceptedToday, uncounted>>
      BY <1>4 DEF RateGranted, RateDenied, caps, mail, slips
    <2>3. QED
      BY <2>1, <2>2 DEF TypeOK
  <1>5. CASE CheckWarmingCap(w)
    <2>1. /\ job[w].pc = "warming_cap"
          /\ \/ job'[w].pc \in {"postal", "release"}
             \/ job'[w].pc = "recheck" /\ job'[w].verdict # "sent"
          /\ \A x \in Workers \ {w} : job'[x] = job[x]
      BY <1>5, GotoEffect, GotoWithEffect DEF CheckWarmingCap
    <2>2. QED
      BY <1>5, <2>1 DEF CheckWarmingCap, TypeOK, caps, mail, slips
  <1>6. CASE CheckCapBlind(w)
    <2>1. /\ job[w].pc \in {"pool_cap", "warming_cap"}
          /\ job'[w].pc \in {"warming_cap", "postal"}
          /\ \A x \in Workers \ {w} : job'[x] = job[x]
      BY <1>6, GotoEffect DEF CheckCapBlind
    <2>2. QED
      BY <1>6, <2>1 DEF CheckCapBlind, TypeOK, caps, mail
  <1>7. CASE PostalAccepts(w)
    <2>1. /\ job[w].pc = "postal" /\ job'[w].pc = "recheck"
          /\ job'[w].verdict = "sent"
          /\ \A x \in Workers \ {w} : job'[x] = job[x]
      BY <1>7, GotoWithEffect DEF PostalAccepts
    <2>2. QED
      BY <1>7, <2>1 DEF PostalAccepts, PostalTakes, TypeOK, caps, slips
  <1>8. CASE PostalRejects(w) \/ PostalTransient(w)
    <2>1. /\ job[w].pc = "postal"
          /\ \/ job'[w].pc = "release"
             \/ job'[w].pc = "recheck" /\ job'[w].verdict # "sent"
          /\ \A x \in Workers \ {w} : job'[x] = job[x]
      BY <1>8, GotoEffect, GotoWithEffect DEF PostalRejects, PostalTransient
    <2>2. UNCHANGED <<poolUsed, blind, acceptedToday, uncounted>>
      BY <1>8 DEF PostalRejects, PostalTransient, caps, mail, slips
    <2>3. QED
      BY <2>1, <2>2 DEF TypeOK
  <1>9. CASE PostalAnswerLost(w)
    <2>1. /\ job[w].pc = "postal" /\ job'[w].pc = "release"
          /\ \A x \in Workers \ {w} : job'[x] = job[x]
      BY <1>9, GotoEffect DEF PostalAnswerLost
    <2>2. QED
      BY <1>9, <2>1 DEF PostalAnswerLost, PostalTakes, TypeOK, caps
  <1>10. CASE Recheck(w)
    <2>1. /\ job[w].pc = "recheck"
          /\ job'[w].verdict = job[w].verdict
          /\ \/ job'[w].pc \in {"count_pool", "settle"} /\ uncounted' = uncounted
                /\ (job'[w].pc = "count_pool" => job[w].verdict = "sent")
             \/ /\ job'[w].pc = "release"
                /\ job[w].verdict = "sent" => uncounted' = uncounted + 1
                /\ job[w].verdict # "sent" => uncounted' = uncounted
          /\ \A x \in Workers \ {w} : job'[x] = job[x]
      BY <1>10, GotoEffect DEF Recheck
    <2>2. UNCHANGED <<poolUsed, blind, acceptedToday>>
      BY <1>10 DEF Recheck, caps, mail
    <2>3. CASE job'[w].pc \in {"count_pool", "settle"}
      <3>1. /\ OnPool(job'[w]) <=> OnPool(job[w])
            /\ OwesPool(job'[w]) <=> OwesPool(job[w])
        BY <2>1, <2>3
      <3>2. uncounted' = uncounted
        BY <2>1, <2>3
      <3>3. QED
        BY <2>1, <2>2, <3>1, <3>2 DEF TypeOK
    <2>4. CASE job'[w].pc = "release"
      <3>1. ~OnPool(job'[w]) /\ ~OwesPool(job'[w])
        BY <2>4
      <3>2. CASE job[w].verdict = "sent"
        <4>1. OnPool(job[w]) /\ OwesPool(job[w]) /\ uncounted' = uncounted + 1
          BY <2>1, <2>4, <3>2
        <4>2. QED
          BY <2>1, <2>2, <3>1, <4>1 DEF TypeOK
      <3>3. CASE job[w].verdict # "sent"
        <4>1. ~OnPool(job[w]) /\ ~OwesPool(job[w]) /\ uncounted' = uncounted
          BY <2>1, <2>4, <3>3
        <4>2. QED
          BY <2>1, <2>2, <3>1, <4>1 DEF TypeOK
      <3>4. QED
        BY <3>2, <3>3
    <2>5. QED
      BY <2>1, <2>3, <2>4
  <1>11. CASE Settle(w)
    <2>1. /\ job[w].pc = "settle"
          /\ job'[w].verdict = job[w].verdict
          /\ job'[w].pc = IF job[w].verdict = "sent" THEN "count_pool" ELSE "release"
          /\ \A x \in Workers \ {w} : job'[x] = job[x]
      BY <1>11, GotoEffect DEF Settle
    <2>2. QED
      BY <1>11, <2>1 DEF Settle, TypeOK, caps, mail, slips
  <1>12. CASE SettleDeleted(w) \/ StepFails(w)
    <2>1. /\ Abort(w) /\ job'[w].pc = "release"
          /\ job[w].pc \notin {"warming_cap", "postal"}
          /\ \A x \in Workers \ {w} : job'[x] = job[x]
      BY <1>12, GotoEffect DEF SettleDeleted, StepFails, Abort
    <2>2. QED
      BY <2>1 DEF Abort, AcceptedUncounted, AcceptedUnsettled, TypeOK, caps, mail
  <1>13. CASE CountPool(w) \/ CountGlobal(w)
    <2>1. /\ \/ /\ job[w].pc = "count_pool" /\ job'[w].pc = "count_global"
                /\ poolUsed' = poolUsed + 1
             \/ /\ job[w].pc = "count_global" /\ job'[w].pc = "release"
                /\ poolUsed' = poolUsed
          /\ \A x \in Workers \ {w} : job'[x] = job[x]
      BY <1>13, GotoEffect DEF CountPool, CountGlobal
    <2>2. UNCHANGED <<blind, acceptedToday, uncounted>>
      BY <1>13 DEF CountPool, CountGlobal, mail, slips
    <2>3. CASE job[w].pc = "count_pool"
      BY <2>1, <2>2, <2>3 DEF TypeOK
    <2>4. CASE job[w].pc = "count_global"
      BY <2>1, <2>2, <2>4 DEF TypeOK
    <2>5. QED
      BY <2>1, <2>3, <2>4
  <1>14. CASE Release(w)
    <2>1. /\ job[w].pc = "release" /\ job'[w].pc = "idle"
          /\ \A x \in Workers \ {w} : job'[x] = job[x]
      BY <1>14, IdleEffect DEF Release
    <2>2. QED
      BY <1>14, <2>1 DEF Release, TypeOK, caps, mail, slips
  <1>15. CASE Crash(w)
    <2>1. /\ job'[w].pc = "idle"
          /\ \A x \in Workers \ {w} : job'[x] = job[x]
      BY <1>15, IdleEffect DEF Crash
    <2>2. QED
      BY <1>15, <2>1
      DEF Crash, AcceptedUncounted, AcceptedUnsettled, TypeOK, caps, mail
  <1>16. QED
    BY <1>1, <1>2, <1>3, <1>4, <1>5, <1>6, <1>7, <1>8, <1>9, <1>10, <1>11,
       <1>12, <1>13, <1>14, <1>15 DEF Send

-----------------------------------------------------------------------------
(* The invariant and the theorem.                                           *)

\* The invariant holds when nothing has been sent.
LEMMA PoolInit == Init => PoolInv
  <1> SUFFICES ASSUME Init PROVE PoolInv
    OBVIOUS
  <1>1. On = {} /\ Owes = {}
    BY DEF Init, Idle, On, Owes, OnPool, OwesPool
  <1>2. Cardinality(Workers) # 0 /\ Cardinality(Workers) \in Nat
    BY SendOneAssumption, FS_EmptySet, FS_CardinalityType
  <1>3. QED
    BY <1>1, <1>2, FS_EmptySet, SendOneAssumption DEF Init, PoolInv

\* Every step keeps the invariant.
LEMMA PoolNext == TypeOK /\ PoolInv /\ [Next]_vars => PoolInv'
  <1> SUFFICES ASSUME TypeOK, PoolInv, [Next]_vars PROVE PoolInv'
    OBVIOUS
  <1>1. TypeOK'
    BY TypeStep
  <1>2. ASSUME NEW w \in Workers, CheckPoolCap(w) PROVE PoolInv'
    BY <1>1, <1>2, CheckPoolCapKeeps
  <1>3. ASSUME NEW w \in Workers, Send(w), ~CheckPoolCap(w) PROVE PoolInv'
    BY <1>1, <1>3, SendIsThrifty, ThriftyKeeps
  <1>4. ASSUME NEW r \in Recipients,
               LockExpires(r) \/ LockOverruns(r) \/ Suppress(r)
        PROVE  PoolInv'
    BY <1>4, StandstillKeepsPool
    DEF LockExpires, LockOverruns, Suppress, caps, mail, slips
  <1>5. ASSUME NEW t \in Tasks, Redeliver(t) PROVE PoolInv'
    BY <1>5, StandstillKeepsPool DEF Redeliver, caps, mail
  <1>6. CASE Materialize
    BY <1>6, StandstillKeepsPool DEF Materialize, caps, mail, slips
  <1>7. CASE Sweep
    BY <1>7, StandstillKeepsPool
    DEF Sweep, SweepFinalizes, SweepRepumps, caps, mail, slips
  <1>8. CASE Operate
    BY <1>8, StandstillKeepsPool
    DEF Operate, Pause, Resume, Cancel, Delete, caps, mail, slips
  <1>9. CASE Midnight
    <2>1. /\ poolUsed' = 0 /\ acceptedToday' = 0
          /\ On' = On /\ Owes' = Owes
          /\ blind' = blind /\ uncounted' = uncounted
      BY <1>9 DEF Midnight, slips, On, Owes
    <2>2. QED
      BY <2>1, PoolSets, SendOneAssumption DEF PoolInv, TypeOK
  <1>10. CASE UNCHANGED vars
    BY <1>10, StandstillKeepsPool DEF vars, caps, mail, slips
  <1>11. QED
    BY <1>2, <1>3, <1>4, <1>5, <1>6, <1>7, <1>8, <1>9, <1>10 DEF Next

\* The pool's daily cap is overshot by at most one message for each worker
\* but one, as DECISIONS.md, 6 says, and besides only by sends whose count
\* was lost and by checks that Redis did not answer; also across midnight.
THEOREM OvershootBounded == Spec => []DailyCapBound
  <1>1. Init => TypeOK /\ PoolInv
    BY InitType, PoolInit
  <1>2. TypeOK /\ PoolInv /\ [Next]_vars => TypeOK' /\ PoolInv'
    BY TypeStep, PoolNext
  <1>3. TypeOK /\ PoolInv => DailyCapBound
    BY PoolSets, SendOneAssumption DEF TypeOK, PoolInv, DailyCapBound
  <1>4. QED
    BY <1>1, <1>2, <1>3, PTL DEF Spec

=============================================================================
