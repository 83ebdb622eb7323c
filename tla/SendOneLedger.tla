---------------------------- MODULE SendOneLedger ----------------------------
(***************************************************************************)
(* SendOne implements MailLedger: however the steps of the workers, the    *)
(* lock, the retries, the sweep and the operator interleave, what they do  *)
(* to the rows, the counters and Postal is what MailLedger allows.         *)
(***************************************************************************)
EXTENDS SendOneBounds

-----------------------------------------------------------------------------
(* What a step of MailLedger asks for, besides the budgets.                 *)

\* At work on a row that phase 1 saw pending.
HasRow(j) ==
    j.pc \in {"rate", "pool_cap", "warming_cap", "postal", "recheck", "settle"}

\* Nobody else settles the row of a worker whose lock holds.
RowKept(w) ==
    HasRow(job[w]) /\ overrun[job[w].r] = 0 =>
        status[job[w].r] \in {"pending", "missing"}

\* A worker that delivers holds an acceptance of its own, not a lost one.
Held(r) == lost[r] + Cardinality(Delivering(r)) <= accepted[r]

LedgerInv ==
    /\ TypeOK
    /\ SendBudgets
    /\ \A w \in Workers : RowKept(w)
    /\ \A r \in Recipients : Held(r)

-----------------------------------------------------------------------------
(* The invariant.                                                           *)

\* A worker whose job and row stay keeps its row.
LEMMA OtherKept ==
    ASSUME NEW x \in Workers, RowKept(x), job'[x] = job[x],
           overrun'[job[x].r] = 0 => overrun[job[x].r] = 0,
           \/ status'[job[x].r] = status[job[x].r]
           \/ status'[job[x].r] = "missing"
    PROVE  RowKept(x)'
  BY DEF RowKept, HasRow

\* A worker's steps before and after the commit of a status.
LEMMA StepKeepsRow ==
    ASSUME TypeOK, NEW w \in Workers, RowKept(w), Send(w), ~Settle(w)
    PROVE  /\ status' = status /\ overrun' = overrun
           /\ \A x \in Workers \ {w} : job'[x] = job[x]
           /\ RowKept(w)'
  <1>1. status' = status /\ overrun' = overrun
    BY DEF Send, TakeLock, TakeLocked, Validate, RateGranted, RateDenied,
           CheckPoolCap, CheckWarmingCap, CheckCapBlind, PostalAccepts,
           PostalRejects, PostalTransient, PostalAnswerLost, Recheck,
           SettleDeleted, StepFails, Abort, CountPool, CountGlobal, Release,
           Crash, db, slips
  <1>2. ASSUME NEW t \in Tasks, TakeLock(w, t) \/ TakeLocked(w, t)
        PROVE  (\A x \in Workers \ {w} : job'[x] = job[x]) /\ RowKept(w)'
    BY <1>1, <1>2 DEF TakeLock, TakeLocked, TypeOK, RowKept, HasRow
  <1>3. CASE Validate(w)
    <2>1. /\ job'[w].r = job[w].r
          /\ \A x \in Workers \ {w} : job'[x] = job[x]
      BY <1>3, GotoEffect, GotoWithEffect DEF Validate
    <2>2. job'[w].pc = "release" \/ status[job[w].r] = "pending"
      BY <1>3, GotoEffect DEF Validate
    <2>3. QED
      BY <1>1, <2>1, <2>2 DEF RowKept, HasRow
  <1>4. CASE \/ RateGranted(w) \/ RateDenied(w) \/ CheckPoolCap(w)
             \/ CheckWarmingCap(w) \/ CheckCapBlind(w)
             \/ PostalAccepts(w) \/ PostalAnswerLost(w)
             \/ PostalRejects(w) \/ PostalTransient(w) \/ Recheck(w)
    <2>1. /\ job'[w].r = job[w].r
          /\ \A x \in Workers \ {w} : job'[x] = job[x]
      BY <1>4, GotoEffect, GotoWithEffect
      DEF RateGranted, RateDenied, CheckPoolCap, CheckWarmingCap, CheckCapBlind,
          PostalAccepts, PostalAnswerLost, PostalRejects, PostalTransient, Recheck
    <2>2. HasRow(job[w])
      BY <1>4
      DEF HasRow, RateGranted, RateDenied, CheckPoolCap, CheckWarmingCap,
          CheckCapBlind, PostalAccepts, PostalAnswerLost, PostalRejects,
          PostalTransient, Recheck
    <2>3. QED
      BY <1>1, <2>1, <2>2 DEF RowKept
  <1>5. CASE SettleDeleted(w) \/ StepFails(w) \/ CountPool(w) \/ CountGlobal(w)
    <2>1. /\ job'[w].pc \in {"release", "count_global"}
          /\ \A x \in Workers \ {w} : job'[x] = job[x]
      BY <1>5, GotoEffect DEF SettleDeleted, StepFails, Abort, CountPool, CountGlobal
    <2>2. QED
      BY <1>1, <2>1 DEF RowKept, HasRow
  <1>6. CASE Release(w) \/ Crash(w)
    <2>1. /\ job'[w].pc = "idle"
          /\ \A x \in Workers \ {w} : job'[x] = job[x]
      BY <1>6, IdleEffect DEF Release, Crash
    <2>2. QED
      BY <1>1, <2>1 DEF RowKept, HasRow
  <1>7. QED
    BY <1>1, <1>2, <1>3, <1>4, <1>5, <1>6 DEF Send

\* The commit of a status meets no other worker at the row while no lock on
\* it ended under its holder.
LEMMA SettleKeepsRow ==
    ASSUME LedgerInv, NEW w \in Workers, NEW x \in Workers, Settle(w)
    PROVE  RowKept(x)'
  <1> DEFINE r == job[w].r
  <1>1. /\ overrun' = overrun
        /\ status' = [status EXCEPT ![r] = StatusOf(job[w].verdict)]
        /\ job[w].pc = "settle"
        /\ job'[w].pc \in {"count_pool", "release"}
        /\ \A y \in Workers \ {w} : job'[y] = job[y]
    BY GotoEffect DEF Settle, slips, LedgerInv
  <1>2. CASE x = w
    BY <1>1, <1>2 DEF RowKept, HasRow
  <1>3. CASE x # w /\ job[x].r # r
    <2>1. status'[job[x].r] = status[job[x].r]
      BY <1>1, <1>3 DEF LedgerInv, TypeOK
    <2>2. QED
      BY <1>1, <1>3, <2>1, OtherKept DEF LedgerInv
  <1>4. CASE x # w /\ job[x].r = r
    <2>1. r \in Recipients
      BY <1>1, AtWork DEF LedgerInv, TypeOK
    <2>2. {x, w} \in SUBSET Inside(r)
      BY <1>4 DEF Inside
    <2>3. Cardinality({x, w}) = 2
      <3>1. Cardinality({x}) = 1 /\ IsFiniteSet({x}) /\ w \notin {x}
        BY <1>4, FS_Singleton
      <3>2. Cardinality({x} \cup {w}) = Cardinality({x}) + 1
        BY <3>1, FS_AddElement
      <3>3. {x, w} = {x} \cup {w}
        OBVIOUS
      <3>4. QED
        BY <3>1, <3>2, <3>3
    <2>4. Cardinality({x, w}) <= Cardinality(Inside(r))
      <3>1. Inside(r) \in SUBSET Workers
        BY DEF Inside
      <3>2. QED
        BY <2>2, <3>1, WorkerSet, FS_Subset
    <2>5. overrun[r] # 0
      <3>1. Cardinality(Inside(r)) <= overrun[r] + (IF lock[r] THEN 1 ELSE 0)
        BY <2>1 DEF LedgerInv, SendBudgets, OneHolder
      <3>2. Cardinality(Inside(r)) \in Nat
        BY <2>1, WorkerSets
      <3>3. QED
        BY <2>3, <2>4, <3>1, <3>2
    <2>6. job'[x] = job[x] /\ overrun'[job'[x].r] # 0
      BY <1>1, <1>4, <2>5
    <2>7. QED
      BY <2>6 DEF RowKept
  <1>5. QED
    BY <1>2, <1>3, <1>4

\* What the steps that are no worker's do to the jobs and the rows.
LEMMA OutsideStep ==
    ASSUME TypeOK, [Next]_vars, ~ \E w \in Workers : Send(w)
    PROVE  /\ job' = job /\ accepted' = accepted /\ lost' = lost
           /\ \/ status' = status
              \/ Delete /\ status' = [r \in Recipients |-> "missing"]
           /\ \/ overrun' = overrun
              \/ \E r \in Recipients :
                     LockOverruns(r) /\ overrun' = Tally(overrun, r)
  <1>1. CASE \E r \in Recipients : LockExpires(r) \/ LockOverruns(r) \/ Suppress(r)
    BY <1>1 DEF LockExpires, LockOverruns, Suppress, db, mail, slips
  <1>2. CASE \E t \in Tasks : Redeliver(t)
    BY <1>2 DEF Redeliver, db, mail
  <1>3. CASE Materialize \/ Sweep \/ Midnight \/ UNCHANGED vars
    BY <1>3 DEF Materialize, Sweep, SweepFinalizes, SweepRepumps, Midnight, vars,
                db, mail, slips
  <1>4. CASE Operate
    BY <1>4 DEF Operate, Pause, Resume, Cancel, Delete, mail, slips
  <1>5. QED
    BY <1>1, <1>2, <1>3, <1>4 DEF Next

\* Every step keeps every worker's row.
LEMMA RowsStep ==
    ASSUME LedgerInv, [Next]_vars, NEW x \in Workers
    PROVE  RowKept(x)'
  <1>1. ASSUME NEW w \in Workers, Send(w) PROVE RowKept(x)'
    <2>1. CASE Settle(w)
      BY <2>1, SettleKeepsRow
    <2>2. CASE ~Settle(w)
      BY <1>1, <2>2, StepKeepsRow, OtherKept DEF LedgerInv
    <2>3. QED
      BY <2>1, <2>2
  <1>2. CASE ~ \E w \in Workers : Send(w)
    <2>1. CASE ~HasRow(job[x])
      BY <1>2, <2>1, OutsideStep DEF LedgerInv, RowKept
    <2>2. CASE HasRow(job[x])
      <3>1. job[x].r \in Recipients
        BY <2>2, AtWork DEF HasRow, LedgerInv, TypeOK
      <3>2. overrun'[job[x].r] = 0 => overrun[job[x].r] = 0
        BY <1>2, <3>1, OutsideStep DEF LedgerInv, TypeOK, Tally
      <3>3. \/ status'[job[x].r] = status[job[x].r]
            \/ status'[job[x].r] = "missing"
        BY <1>2, <3>1, OutsideStep DEF LedgerInv
      <3>4. job'[x] = job[x]
        BY <1>2, OutsideStep DEF LedgerInv
      <3>5. QED
        BY <3>2, <3>3, <3>4, OtherKept DEF LedgerInv
    <2>3. QED
      BY <2>1, <2>2
  <1>3. QED
    BY <1>1, <1>2

\* No worker delivers on an acceptance that was lost: a delivery begins with
\* an acceptance, and ends when it is lost.
LEMMA HeldStep ==
    ASSUME LedgerInv, [Next]_vars, NEW r \in Recipients
    PROVE  Held(r)'
  <1>1. TypeOK /\ TypeOK' /\ Held(r)
    BY TypeStep DEF LedgerInv
  <1>2. /\ accepted[r] \in Nat /\ accepted'[r] \in Nat
        /\ lost[r] \in Nat /\ lost'[r] \in Nat
    BY <1>1 DEF TypeOK
  <1>3. ASSUME NEW w \in Workers, Send(w) PROVE Held(r)'
    <2>1. CASE \E t \in Tasks : TakeLock(w, t) \/ TakeLocked(w, t)
      <3>1. /\ \A x \in Workers \ {w} : job'[x] = job[x]
            /\ ~IsDelivering(job[w], r) /\ ~IsDelivering(job'[w], r)
            /\ accepted' = accepted /\ lost' = lost
        BY <1>1, <2>1
        DEF TakeLock, TakeLocked, IsDelivering, TypeOK, mail, slips
      <3>2. QED
        BY <1>1, <1>2, <3>1, WorkerStep, WorkerSets DEF Held, Bit
    <2>2. CASE PostalAccepts(w) \/ PostalAnswerLost(w)
      <3>1. /\ \A x \in Workers \ {w} : job'[x] = job[x]
            /\ job'[w].r = job[w].r
            /\ \/ PostalAccepts(w) /\ job'[w].pc = "recheck" /\ job'[w].verdict = "sent"
               \/ PostalAnswerLost(w) /\ job'[w].pc = "release"
        BY <1>1, <2>2, GotoEffect, GotoWithEffect DEF PostalAccepts, PostalAnswerLost
      <3>2. ~IsDelivering(job[w], r)
        BY <2>2 DEF PostalAccepts, PostalAnswerLost, IsDelivering
      <3>3. CASE job[w].r = r
        <4>1. accepted'[r] = accepted[r] + 1
          BY <1>1, <2>2, <3>3
          DEF PostalAccepts, PostalAnswerLost, PostalTakes, Tally, TypeOK
        <4>2. \/ IsDelivering(job'[w], r) /\ lost'[r] = lost[r]
              \/ ~IsDelivering(job'[w], r) /\ lost'[r] = lost[r] + 1
          BY <1>1, <3>1, <3>3
          DEF PostalAccepts, PostalAnswerLost, IsDelivering, slips, Tally, TypeOK
        <4>3. QED
          BY <1>1, <1>2, <3>1, <3>2, <4>1, <4>2, WorkerStep, WorkerSets DEF Held, Bit
      <3>4. CASE job[w].r # r
        <4>1. accepted'[r] = accepted[r] /\ lost'[r] = lost[r]
          BY <1>1, <2>2, <3>4
          DEF PostalAccepts, PostalAnswerLost, PostalTakes, Tally, TypeOK, slips
        <4>2. ~IsDelivering(job'[w], r)
          BY <3>1, <3>4 DEF IsDelivering
        <4>3. QED
          BY <1>1, <1>2, <3>1, <3>2, <4>1, <4>2, WorkerStep, WorkerSets DEF Held, Bit
      <3>5. QED
        BY <3>3, <3>4
    <2>3. CASE SettleDeleted(w) \/ StepFails(w)
      <3>1. /\ \A x \in Workers \ {w} : job'[x] = job[x]
            /\ job'[w].pc = "release" /\ accepted' = accepted
            /\ lost' = IF AcceptedUnsettled(w) THEN Tally(lost, job[w].r) ELSE lost
        BY <1>1, <2>3, GotoEffect DEF SettleDeleted, StepFails, Abort, mail
      <3>2. ~IsDelivering(job'[w], r)
        BY <3>1 DEF IsDelivering
      <3>3. lost'[r] = lost[r] + Bit(IsDelivering(job[w], r))
        BY <1>1, <3>1 DEF AcceptedUnsettled, IsDelivering, Tally, Bit, TypeOK
      <3>4. QED
        BY <1>1, <1>2, <3>1, <3>2, <3>3, WorkerStep, WorkerSets DEF Held, Bit
    <2>4. CASE Crash(w)
      <3>1. /\ \A x \in Workers \ {w} : job'[x] = job[x]
            /\ job'[w].pc = "idle" /\ accepted' = accepted
            /\ lost' = IF AcceptedUnsettled(w) THEN Tally(lost, job[w].r) ELSE lost
        BY <1>1, <2>4, IdleEffect DEF Crash, mail
      <3>2. ~IsDelivering(job'[w], r)
        BY <3>1 DEF IsDelivering
      <3>3. lost'[r] = lost[r] + Bit(IsDelivering(job[w], r))
        BY <1>1, <3>1 DEF AcceptedUnsettled, IsDelivering, Tally, Bit, TypeOK
      <3>4. QED
        BY <1>1, <1>2, <3>1, <3>2, <3>3, WorkerStep, WorkerSets DEF Held, Bit
    <2>5. CASE \/ Validate(w) \/ RateGranted(w) \/ RateDenied(w)
               \/ CheckPoolCap(w) \/ CheckWarmingCap(w) \/ CheckCapBlind(w)
               \/ PostalRejects(w) \/ PostalTransient(w) \/ Recheck(w)
               \/ Settle(w) \/ CountPool(w) \/ CountGlobal(w) \/ Release(w)
      <3>1. /\ \A x \in Workers \ {w} : job'[x] = job[x]
            /\ accepted' = accepted /\ lost' = lost
        BY <1>1, <2>5, GotoEffect, GotoWithEffect, IdleEffect
        DEF Validate, RateGranted, RateDenied, CheckPoolCap, CheckWarmingCap,
            CheckCapBlind, PostalRejects, PostalTransient, Recheck, Settle,
            CountPool, CountGlobal, Release, mail, slips
      <3>2. CASE Recheck(w) \/ Settle(w)
        <4>1. job'[w].r = job[w].r /\ job'[w].verdict = job[w].verdict
          BY <1>1, <3>2, GotoEffect DEF Recheck, Settle
        <4>2. IsDelivering(job'[w], r) => IsDelivering(job[w], r)
          BY <3>2, <4>1 DEF IsDelivering, Recheck, Settle
        <4>3. QED
          BY <1>1, <1>2, <3>1, <4>2, WorkerStep, WorkerSets DEF Held, Bit
      <3>3. CASE ~Recheck(w) /\ ~Settle(w)
        <4>1. \/ job'[w].pc \notin {"recheck", "settle"}
              \/ job'[w].verdict # "sent"
          BY <1>1, <2>5, <3>3, GotoEffect, GotoWithEffect, IdleEffect
          DEF Validate, RateGranted, RateDenied, CheckPoolCap, CheckWarmingCap,
              CheckCapBlind, PostalRejects, PostalTransient,
              CountPool, CountGlobal, Release
        <4>2. ~IsDelivering(job'[w], r)
          BY <4>1 DEF IsDelivering
        <4>3. QED
          BY <1>1, <1>2, <3>1, <4>2, WorkerStep, WorkerSets DEF Held, Bit
      <3>4. QED
        BY <3>2, <3>3
    <2>6. QED
      BY <1>3, <2>1, <2>2, <2>3, <2>4, <2>5 DEF Send
  <1>4. CASE ~ \E w \in Workers : Send(w)
    <2>1. job' = job /\ accepted' = accepted /\ lost' = lost
      BY <1>1, <1>4, OutsideStep
    <2>2. Delivering(r)' = Delivering(r)
      BY <2>1 DEF Delivering
    <2>3. QED
      BY <1>1, <2>1, <2>2 DEF Held
  <1>5. QED
    BY <1>3, <1>4

\* The invariant holds when nothing has been sent.
LEMMA LedgerInvInit == Init => LedgerInv
  <1> SUFFICES ASSUME Init PROVE LedgerInv
    OBVIOUS
  <1>1. TypeOK /\ SendBudgets
    BY InitType, BudgetsInit
  <1>2. ASSUME NEW w \in Workers PROVE RowKept(w)
    BY DEF Init, Idle, RowKept, HasRow
  <1>3. ASSUME NEW r \in Recipients PROVE Held(r)
    <2>1. Delivering(r) = {}
      BY DEF Init, Idle, Delivering, IsDelivering
    <2>2. QED
      BY <2>1, FS_EmptySet DEF Init, Held
  <1>4. QED
    BY <1>1, <1>2, <1>3 DEF LedgerInv

\* Every step keeps the invariant.
LEMMA LedgerInvStep == LedgerInv /\ [Next]_vars => LedgerInv'
  <1> SUFFICES ASSUME LedgerInv, [Next]_vars PROVE LedgerInv'
    OBVIOUS
  <1>1. TypeOK' /\ SendBudgets'
    BY TypeStep, BudgetsStep DEF LedgerInv
  <1>2. ASSUME NEW w \in Workers PROVE RowKept(w)'
    BY RowsStep
  <1>3. ASSUME NEW r \in Recipients PROVE Held(r)'
    BY HeldStep
  <1>4. QED
    BY <1>1, <1>2, <1>3 DEF LedgerInv

-----------------------------------------------------------------------------
(* The refinement.                                                          *)

ledger == <<Row, Counted, accepted, lost, overrun>>

\* Rows and counters that stay are read as the same rows and counters.
LEMMA SameRows ==
    ASSUME status' = status, counts' = counts
    PROVE  Row' = Row /\ Counted' = Counted
  BY DEF Row, Counted

\* Postal accepts for a worker whose row is not settled, or whose lock ended.
LEMMA AcceptImplements ==
    ASSUME LedgerInv, NEW w \in Workers, PostalAccepts(w) \/ PostalAnswerLost(w)
    PROVE  Ledger!Next
  <1> DEFINE r == job[w].r
  <1>1. r \in Recipients /\ job[w].pc = "postal"
    BY AtWork DEF PostalAccepts, PostalAnswerLost, LedgerInv, TypeOK
  <1>2. Row' = Row /\ Counted' = Counted /\ overrun' = overrun
    BY SameRows DEF PostalAccepts, PostalAnswerLost, db, slips
  <1>3. accepted' = Tally(accepted, r) /\ lost' \in {lost, Tally(lost, r)}
    BY DEF PostalAccepts, PostalAnswerLost, PostalTakes, slips
  <1>4. Row[r] \notin Ledger!Verdicts \/ overrun[r] > 0
    <2>1. CASE overrun[r] = 0
      <3>1. status[r] \in {"pending", "missing"}
        BY <1>1, <2>1 DEF LedgerInv, RowKept, HasRow
      <3>2. QED
        BY <1>1, <3>1 DEF Row, Ledger!Verdicts
    <2>2. CASE overrun[r] # 0
      BY <1>1, <2>2 DEF LedgerInv, TypeOK
    <2>3. QED
      BY <2>1, <2>2
  <1>5. accepted[r] <= lost[r] + overrun[r]
    <2>1. IsCleared(job[w], r) /\ w \in Cleared(r)
      BY <1>1 DEF IsCleared, Cleared
    <2>2. Cardinality(Cleared(r)) # 0 /\ Cardinality(Cleared(r)) \in Nat
      <3>1. Cleared(r) \in SUBSET Workers
        BY DEF Cleared
      <3>2. QED
        BY <2>1, <3>1, WorkerSet, FS_EmptySet
    <2>3. accepted[r] + Cardinality(Cleared(r)) <= 1 + lost[r] + overrun[r]
      BY <1>1 DEF LedgerInv, SendBudgets, SendBudget
    <2>4. accepted[r] \in Nat /\ lost[r] \in Nat /\ overrun[r] \in Nat
      BY <1>1 DEF LedgerInv, TypeOK
    <2>5. QED
      BY <2>2, <2>3, <2>4
  <1>6. Ledger!Accept(r)
    BY <1>2, <1>3, <1>4, <1>5
    DEF Ledger!Accept, Ledger!Excused, Ledger!Once, Tally
  <1>7. QED
    BY <1>1, <1>6 DEF Ledger!Next

\* A worker that delivers holds an acceptance that was not lost.
LEMMA DeliveringHolds ==
    ASSUME LedgerInv, NEW w \in Workers, AcceptedUnsettled(w)
    PROVE  job[w].r \in Recipients /\ accepted[job[w].r] > lost[job[w].r]
  <1> DEFINE r == job[w].r
  <1>1. r \in Recipients
    BY AtWork DEF AcceptedUnsettled, LedgerInv, TypeOK
  <1>2. w \in Delivering(r) /\ Delivering(r) \in SUBSET Workers
    BY DEF AcceptedUnsettled, Delivering, IsDelivering
  <1>3. Cardinality(Delivering(r)) # 0 /\ Cardinality(Delivering(r)) \in Nat
    BY <1>2, WorkerSet, FS_EmptySet
  <1>4. lost[r] + Cardinality(Delivering(r)) <= accepted[r]
    BY <1>1 DEF LedgerInv, Held
  <1>5. accepted[r] \in Nat /\ lost[r] \in Nat
    BY <1>1 DEF LedgerInv, TypeOK
  <1>6. QED
    BY <1>1, <1>3, <1>4, <1>5

\* The commit of a status settles the row, with its counter.
LEMMA SettleImplements ==
    ASSUME LedgerInv, NEW w \in Workers, Settle(w)
    PROVE  Ledger!Next
  <1> DEFINE r == job[w].r
             v == job[w].verdict
             s == StatusOf(v)
             a == IF s \in {"skipped_suppressed", "skipped_cap"} THEN "skipped" ELSE s
  <1>1. r \in Recipients /\ job[w].pc = "settle"
    BY AtWork DEF Settle, LedgerInv, TypeOK
  <1>2. v \in {"sent", "failed", "no_template", "skipped_suppressed", "skipped_cap"}
    BY <1>1 DEF LedgerInv, TypeOK, Jobs, Verdicts
  <1>3. /\ status[r] # "missing"
        /\ status' = [status EXCEPT ![r] = s]
        /\ counts' = [counts EXCEPT ![CounterOf(v)] = @ + 1]
        /\ accepted' = accepted /\ lost' = lost /\ overrun' = overrun
    BY DEF Settle, mail, slips
  <1>4. Row[r] = "pending" \/ (overrun[r] > 0 /\ Row[r] # "gone")
    <2>1. CASE overrun[r] = 0
      BY <1>1, <1>3, <2>1 DEF LedgerInv, RowKept, HasRow, Row
    <2>2. CASE overrun[r] # 0
      <3>1. Row[r] # "gone"
        BY <1>1, <1>3 DEF Row, LedgerInv, TypeOK, RecipientStatuses
      <3>2. QED
        BY <1>1, <2>2, <3>1 DEF LedgerInv, TypeOK
    <2>3. QED
      BY <2>1, <2>2
  <1>5. a = "sent" => accepted[r] > lost[r]
    <2>1. a = "sent" => AcceptedUnsettled(w)
      BY <1>1, <1>2 DEF StatusOf, AcceptedUnsettled
    <2>2. QED
      BY <2>1, DeliveringHolds
  <1>6. Row' = [Row EXCEPT ![r] = a]
    <2>1. ASSUME NEW q \in Recipients PROVE Row'[q] = [Row EXCEPT ![r] = a][q]
      <3>1. CASE q = r
        <4>1. status'[r] = s
          BY <1>1, <1>3 DEF LedgerInv, TypeOK
        <4>2. Row'[r] = a
          BY <1>1, <1>2, <4>1 DEF Row, StatusOf
        <4>3. QED
          BY <1>1, <3>1, <4>2 DEF Row
      <3>2. CASE q # r
        <4>1. status'[q] = status[q]
          BY <1>3, <3>2 DEF LedgerInv, TypeOK
        <4>2. QED
          BY <3>2, <4>1 DEF Row
      <3>3. QED
        BY <3>1, <3>2
    <2>2. QED
      BY <2>1 DEF Row
  <1>7. Counted' = IF a \in Ledger!Counted THEN [Counted EXCEPT ![a] = @ + 1]
                                           ELSE Counted
    <2>1. ASSUME NEW c \in {"sent", "failed"}
          PROVE  counts'[c] = IF c = a THEN counts[c] + 1 ELSE counts[c]
      BY <1>2, <1>3 DEF CounterOf, StatusOf, LedgerInv, TypeOK, Counters
    <2>2. QED
      BY <2>1 DEF Counted, Ledger!Counted
  <1>8. a \in Ledger!Verdicts
    BY <1>2 DEF StatusOf, Ledger!Verdicts
  <1>9. Ledger!Settle(r, a)
    BY <1>3, <1>4, <1>5, <1>6, <1>7
    DEF Ledger!Settle, Ledger!Excused, Ledger!Once
  <1>10. QED
    BY <1>1, <1>8, <1>9 DEF Ledger!Next

\* A worker that fails or dies loses the acceptance it delivers, if any.
LEMMA LoseImplements ==
    ASSUME LedgerInv, NEW w \in Workers, SettleDeleted(w) \/ StepFails(w) \/ Crash(w)
    PROVE  Ledger!Next \/ UNCHANGED ledger
  <1>1. /\ Row' = Row /\ Counted' = Counted
        /\ accepted' = accepted /\ overrun' = overrun
        /\ lost' = IF AcceptedUnsettled(w) THEN Tally(lost, job[w].r) ELSE lost
    BY SameRows DEF SettleDeleted, StepFails, Abort, Crash, db, mail
  <1>2. CASE AcceptedUnsettled(w)
    <2>1. Ledger!Lose(job[w].r)
      BY <1>1, <1>2, DeliveringHolds DEF Ledger!Lose, Ledger!Once, Tally
    <2>2. QED
      BY <1>2, <2>1, DeliveringHolds DEF Ledger!Next
  <1>3. CASE ~AcceptedUnsettled(w)
    BY <1>1, <1>3 DEF ledger
  <1>4. QED
    BY <1>2, <1>3

\* The other steps of a worker are none of MailLedger's.
LEMMA WorkersStutter ==
    ASSUME LedgerInv, NEW w \in Workers, Send(w),
           ~PostalAccepts(w), ~PostalAnswerLost(w), ~Settle(w),
           ~SettleDeleted(w), ~StepFails(w), ~Crash(w)
    PROVE  UNCHANGED ledger
  <1>1. UNCHANGED <<status, counts, accepted, lost, overrun>>
    BY DEF Send, TakeLock, TakeLocked, Validate, RateGranted, RateDenied,
           CheckPoolCap, CheckWarmingCap, CheckCapBlind, PostalRejects,
           PostalTransient, Recheck, CountPool, CountGlobal, Release,
           db, mail, slips
  <1>2. QED
    BY <1>1, SameRows DEF ledger

\* A lock that ends under its holder, the deletion of the campaign, and what
\* else happens outside the workers.
LEMMA OutsideImplements ==
    ASSUME LedgerInv, [Next]_vars, ~ \E w \in Workers : Send(w)
    PROVE  Ledger!Next \/ UNCHANGED ledger
  <1>1. job' = job /\ accepted' = accepted /\ lost' = lost
    BY OutsideStep DEF LedgerInv
  <1>2. Counted' = Counted
    <2>1. UNCHANGED <<counts["sent"], counts["failed"]>>
      <3>1. CASE Materialize
        BY <3>1 DEF Materialize, LedgerInv, TypeOK, Counters
      <3>2. CASE ~Materialize
        BY <3>2
        DEF Next, LockExpires, LockOverruns, Suppress, Redeliver, Sweep,
            SweepFinalizes, SweepRepumps, Operate, Pause, Resume, Cancel, Delete,
            Midnight, vars, db
      <3>3. QED
        BY <3>1, <3>2
    <2>2. QED
      BY <2>1 DEF Counted
  <1>3. CASE Delete /\ status' = [r \in Recipients |-> "missing"]
    <2>1. Row' = [r \in Recipients |-> "gone"]
      BY <1>3 DEF Row
    <2>2. overrun' = overrun
      BY <1>3 DEF Delete, slips
    <2>3. Ledger!Delete
      BY <1>1, <1>2, <2>1, <2>2 DEF Ledger!Delete
    <2>4. QED
      BY <2>3 DEF Ledger!Next
  <1>4. CASE status' = status
    <2>1. Row' = Row
      BY <1>4 DEF Row
    <2>2. CASE overrun' = overrun
      BY <1>1, <1>2, <2>1, <2>2 DEF ledger
    <2>3. ASSUME NEW r \in Recipients, overrun' = Tally(overrun, r)
          PROVE  Ledger!Next
      <3>1. Ledger!Overrun(r)
        BY <1>1, <1>2, <2>1, <2>3 DEF Ledger!Overrun, Ledger!Once, Tally
      <3>2. QED
        BY <3>1 DEF Ledger!Next
    <2>4. QED
      BY <2>2, <2>3, OutsideStep DEF LedgerInv
  <1>5. QED
    BY <1>3, <1>4, OutsideStep DEF LedgerInv

\* Every step of the send pipeline is one of MailLedger, or none: a row is
\* settled once and with its counter, SENT only after an acceptance of its
\* own, and no settled row is mailed, whatever crashes, is redelivered, is
\* retried or is paused on the way, while no lock ends under its holder.
THEOREM LedgerImplemented == Spec => LedgerKept
  <1>1. Init => Ledger!Init
    BY DEF Init, Ledger!Init, Row, Counted, Ledger!Counted, Counters
  <1>2. LedgerInv /\ [Next]_vars => [Ledger!Next]_ledger
    <2> SUFFICES ASSUME LedgerInv, [Next]_vars
                 PROVE  Ledger!Next \/ UNCHANGED ledger
      OBVIOUS
    <2>1. ASSUME NEW w \in Workers, Send(w)
          PROVE  Ledger!Next \/ UNCHANGED ledger
      BY <2>1, AcceptImplements, SettleImplements, LoseImplements, WorkersStutter
    <2>2. CASE ~ \E w \in Workers : Send(w)
      BY <2>2, OutsideImplements
    <2>3. QED
      BY <2>1, <2>2
  <1>3. QED
    BY <1>1, <1>2, LedgerInvInit, LedgerInvStep, PTL
    DEF Spec, LedgerKept, Ledger!Spec, Ledger!vars, ledger

-----------------------------------------------------------------------------
(* The counters of the campaign.                                            *)

\* A campaign that is gone has no rows.
RowsGone == cstatus = "deleted" => \A r \in Recipients : status[r] = "missing"

CountersInv == LedgerInv /\ RowsGone /\ CountersMatchLedger

\* The rows with a status.
With(s) == {r \in Recipients : status[r] = s}

\* A pending row that gets a status is one more with that status.
LEMMA OneMoreRow ==
    ASSUME status \in [Recipients -> RecipientStatuses], NEW r \in Recipients,
           NEW s \in {"sent", "failed"}, NEW v,
           status[r] \notin {"sent", "failed"}, status' = [status EXCEPT ![r] = v]
    PROVE  /\ Cardinality(With(s)) \in Nat
           /\ Cardinality(With(s)') = IF v = s THEN Cardinality(With(s)) + 1
                                      ELSE Cardinality(With(s))
  <1>1. With(s) \in SUBSET Recipients /\ IsFiniteSet(Recipients)
    BY SendOneAssumption DEF With
  <1>2. IsFiniteSet(With(s)) /\ Cardinality(With(s)) \in Nat
    BY <1>1, FS_Subset, FS_CardinalityType
  <1>3. CASE v = s
    <2>1. With(s)' = With(s) \cup {r} /\ r \notin With(s)
      BY <1>3 DEF With
    <2>2. Cardinality(With(s) \cup {r}) = Cardinality(With(s)) + 1
      BY <1>2, <2>1, FS_AddElement
    <2>3. QED
      BY <1>2, <1>3, <2>1, <2>2
  <1>4. CASE v # s
    <2>1. With(s)' = With(s)
      BY <1>4 DEF With
    <2>2. QED
      BY <1>2, <1>4, <2>1
  <1>5. QED
    BY <1>3, <1>4

\* Nothing else is written into the counters or the rows.
LEMMA OnlySettleCounts ==
    ASSUME TypeOK, [Next]_vars, ~ \E w \in Workers : Settle(w)
    PROVE  /\ counts'["sent"] = counts["sent"] /\ counts'["failed"] = counts["failed"]
           /\ \/ status' = status /\ (cstatus' = "deleted" <=> cstatus = "deleted")
              \/ cstatus' = "deleted" /\ status' = [r \in Recipients |-> "missing"]
  <1>1. CASE \E w \in Workers : Send(w)
    BY <1>1
    DEF Send, TakeLock, TakeLocked, Validate, RateGranted, RateDenied,
        CheckPoolCap, CheckWarmingCap, CheckCapBlind, PostalAccepts,
        PostalRejects, PostalTransient, PostalAnswerLost, Recheck,
        SettleDeleted, StepFails, Abort, CountPool, CountGlobal, Release,
        Crash, db
  <1>2. CASE Materialize
    BY <1>2 DEF Materialize, TypeOK, Counters
  <1>3. CASE ~Materialize /\ ~ \E w \in Workers : Send(w)
    BY <1>3
    DEF Next, LockExpires, LockOverruns, Suppress, Redeliver, Sweep,
        SweepFinalizes, SweepRepumps, Operate, Pause, Resume, Cancel, Delete,
        Midnight, vars, db
  <1>4. QED
    BY <1>1, <1>2, <1>3

\* No overrun is forgotten.
LEMMA OverrunsStay ==
    ASSUME TypeOK, [Next]_vars, \A r \in Recipients : overrun'[r] = 0
    PROVE  \A r \in Recipients : overrun[r] = 0
  <1>1. CASE overrun' = overrun
    BY <1>1
  <1>2. ASSUME NEW r \in Recipients, overrun' = Tally(overrun, r)
        PROVE  FALSE
    BY <1>2 DEF Tally, TypeOK
  <1>3. CASE \E w \in Workers : Send(w)
    <2>1. overrun' = overrun
      BY <1>3
      DEF Send, TakeLock, TakeLocked, Validate, RateGranted, RateDenied,
          CheckPoolCap, CheckWarmingCap, CheckCapBlind, PostalAccepts,
          PostalRejects, PostalTransient, PostalAnswerLost, Recheck, Settle,
          SettleDeleted, StepFails, Abort, CountPool, CountGlobal, Release,
          Crash, slips
    <2>2. QED
      BY <1>1, <2>1
  <1>4. CASE ~ \E w \in Workers : Send(w)
    BY <1>1, <1>2, <1>4, OutsideStep
  <1>5. QED
    BY <1>3, <1>4

\* The commit of a status counts the row it settles.
LEMMA SettleCounts ==
    ASSUME CountersInv, NEW w \in Workers, Settle(w)
    PROVE  RowsGone' /\ CountersMatchLedger'
  <1> DEFINE r == job[w].r
             v == job[w].verdict
  <1>1. /\ TypeOK /\ r \in Recipients /\ job[w].pc = "settle"
    BY AtWork DEF Settle, CountersInv, LedgerInv, TypeOK
  <1>2. v \in {"sent", "failed", "no_template", "skipped_suppressed", "skipped_cap"}
    BY <1>1 DEF TypeOK, Jobs, Verdicts
  <1>3. /\ status[r] # "missing"
        /\ status' = [status EXCEPT ![r] = StatusOf(v)]
        /\ counts' = [counts EXCEPT ![CounterOf(v)] = @ + 1]
        /\ Finalize(r, v) /\ overrun' = overrun
    BY DEF Settle, slips
  <1>4. cstatus # "deleted" /\ cstatus' # "deleted"
    BY <1>1, <1>3 DEF CountersInv, RowsGone, Finalize
  <1>5. ASSUME \A q \in Recipients : overrun'[q] = 0
        PROVE  /\ counts'["sent"] = Cardinality(With("sent")')
               /\ counts'["failed"] = Cardinality(With("failed")')
    <2>1. \A q \in Recipients : overrun[q] = 0
      BY <1>3, <1>5
    <2>2. status[r] = "pending"
      BY <1>1, <1>3, <2>1 DEF CountersInv, LedgerInv, RowKept, HasRow
    <2>3. /\ counts["sent"] = Cardinality(With("sent"))
          /\ counts["failed"] = Cardinality(With("failed"))
      BY <1>4, <2>1 DEF CountersInv, CountersMatchLedger, With
    <2>4. ASSUME NEW s \in {"sent", "failed"}
          PROVE  Cardinality(With(s)') = IF StatusOf(v) = s THEN Cardinality(With(s)) + 1
                                         ELSE Cardinality(With(s))
      BY <1>1, <1>3, <2>2, OneMoreRow DEF TypeOK
    <2>5. ASSUME NEW s \in {"sent", "failed"}
          PROVE  counts'[s] = IF StatusOf(v) = s THEN counts[s] + 1 ELSE counts[s]
      BY <1>1, <1>2, <1>3 DEF StatusOf, CounterOf, TypeOK, Counters
    <2>6. QED
      BY <2>3, <2>4, <2>5
  <1>6. QED
    BY <1>4, <1>5 DEF RowsGone, CountersMatchLedger, With

\* Every step keeps the counters.
LEMMA CountersStep == CountersInv /\ [Next]_vars => CountersInv'
  <1> SUFFICES ASSUME CountersInv, [Next]_vars PROVE CountersInv'
    OBVIOUS
  <1>1. LedgerInv' /\ TypeOK
    BY LedgerInvStep DEF CountersInv, LedgerInv
  <1>2. CASE \E w \in Workers : Settle(w)
    BY <1>1, <1>2, SettleCounts DEF CountersInv
  <1>3. CASE ~ \E w \in Workers : Settle(w)
    <2>1. /\ counts'["sent"] = counts["sent"] /\ counts'["failed"] = counts["failed"]
          /\ \/ status' = status /\ (cstatus' = "deleted" <=> cstatus = "deleted")
             \/ cstatus' = "deleted" /\ status' = [r \in Recipients |-> "missing"]
      BY <1>1, <1>3, OnlySettleCounts
    <2>2. RowsGone'
      BY <2>1 DEF CountersInv, RowsGone
    <2>3. CountersMatchLedger'
      <3> SUFFICES ASSUME cstatus' # "deleted", \A r \in Recipients : overrun'[r] = 0
                   PROVE  /\ counts'["sent"] = Cardinality(With("sent")')
                          /\ counts'["failed"] = Cardinality(With("failed")')
        BY DEF CountersMatchLedger, With
      <3>1. status' = status /\ cstatus # "deleted"
        BY <2>1
      <3>2. \A r \in Recipients : overrun[r] = 0
        BY <1>1, OverrunsStay
      <3>3. /\ counts["sent"] = Cardinality(With("sent"))
            /\ counts["failed"] = Cardinality(With("failed"))
        BY <3>1, <3>2 DEF CountersInv, CountersMatchLedger, With
      <3>4. QED
        BY <2>1, <3>1, <3>3 DEF With
    <2>4. QED
      BY <1>1, <2>2, <2>3 DEF CountersInv
  <1>4. QED
    BY <1>2, <1>3

\* The sent and failed counters of a campaign are the numbers of rows with
\* that status after every commit, whatever crashes, is redelivered or is
\* retried, while no lock ends under its holder.
THEOREM CountersMatch == Spec => []CountersMatchLedger
  <1>1. Init => CountersInv
    <2> SUFFICES ASSUME Init PROVE CountersInv
      OBVIOUS
    <2>1. With("sent") = {} /\ With("failed") = {}
      BY DEF Init, With
    <2>2. counts["sent"] = 0 /\ counts["failed"] = 0
      BY DEF Init, Counters
    <2>3. CountersMatchLedger
      BY <2>1, <2>2, FS_EmptySet DEF CountersMatchLedger, With
    <2>4. QED
      BY <2>3, LedgerInvInit DEF CountersInv, RowsGone, Init
  <1>2. QED
    BY <1>1, CountersStep, PTL DEF Spec, CountersInv

=============================================================================
