------------------------------- MODULE SendOne -------------------------------
(***************************************************************************)
(* The send pipeline of one campaign whose ledger is materialized: Celery  *)
(* workers running app/tasks/sending.py:send_one over the campaign's       *)
(* recipient rows, the Redis lock and daily counters they share, the       *)
(* Postal HTTP API that accepts or refuses a message, the sweep of         *)
(* app/tasks/scheduler.py:finalize_and_repump, the operator's pause,       *)
(* resume, cancel and delete, and the faults a worker meets.               *)
(*                                                                         *)
(* One action is one step that other processes can see: one Redis command, *)
(* one HTTP call, one database read, one commit.  A committed transaction  *)
(* whose counter bump takes the campaign row's lock before it counts the   *)
(* pending rows is one step from the bump to the commit.                   *)
(*                                                                         *)
(* Time is left out: a countdown, a token bucket or a lock's TTL is a step *)
(* that may happen at any moment.                                          *)
(***************************************************************************)
EXTENDS Integers, FiniteSets

CONSTANTS
    Recipients,   \* the rows of campaign_recipients of this campaign
    Workers,      \* the Celery worker processes
    NoRecipient,  \* what an idle worker works on
    MaxRetries,   \* settings.send_max_retries
    PoolCap,      \* settings.per_ip_daily_cap
    WarmingCap,   \* current_daily_cap(session)
    HardStop,     \* overflow_policy is "hard_stop" (otherwise "defer")
    MaxFaults,    \* bound: crashes, lost replies, failed commits, overruns
    MaxQueued     \* bound: copies of one task a re-pump may add to

ASSUME SendOneAssumption ==
    /\ IsFiniteSet(Recipients)
    /\ IsFiniteSet(Workers) /\ Workers # {}
    /\ NoRecipient \notin Recipients
    /\ MaxRetries \in Nat
    /\ PoolCap \in Nat \ {0}
    /\ WarmingCap \in Nat
    /\ HardStop \in BOOLEAN
    /\ MaxFaults \in Nat
    /\ MaxQueued \in Nat

VARIABLES
    \* PostgreSQL
    cstatus,        \* campaigns.status
    hasTemplate,    \* campaigns.template_id names a template
    status,         \* campaign_recipients.status of each row
    counts,         \* campaigns.sent_count, failed_count, skipped_count
    suppressed,     \* the recipients whose address is in suppressions
    \* Redis
    lock,           \* lock:send:<id> exists
    poolUsed,       \* ipcap:<pool>:<day>
    globalUsed,     \* warmsent:<day>
    queue,          \* copies of each send_one task in the broker
    materialize,    \* a materialize_campaign task is in the broker
    \* the worker processes
    job,
    \* what the model records to state properties; no action reads them
    accepted,       \* messages Postal accepted for each recipient
    late,           \* of those, the ones accepted after the suppression
    lost,           \* of those, the ones whose worker never recorded it
    overrun,        \* times the lock expired under a live worker
    acceptedToday,  \* messages Postal accepted since midnight
    uncounted,      \* of those, the ones the daily counters never saw
    blind,          \* cap checks that passed because Redis did not answer
    faults          \* faults so far, at most MaxFaults

db     == <<cstatus, hasTemplate, status, counts, suppressed>>
caps   == <<poolUsed, globalUsed>>
broker == <<queue, materialize>>
mail   == <<accepted, late, acceptedToday>>
slips  == <<lost, overrun, uncounted, blind, faults>>
vars   == <<db, lock, caps, broker, job, mail, slips>>

RecipientStatuses ==
    {"pending", "sent", "failed", "skipped_suppressed", "skipped_cap", "missing"}

Counters == {"sent", "failed", "skipped"}

CampaignStatuses == {"sending", "paused", "completed", "cancelled", "deleted"}

\* A send_one task: the recipient it is for and how often it was retried.
Tasks == [r : Recipients, n : 0 .. MaxRetries]

\* Where a worker is inside send_one.
Phases == {"idle", "validate", "rate", "pool_cap", "warming_cap", "postal",
           "recheck", "settle", "count_pool", "count_global", "release"}

\* What a worker means to write into the row it works on.
Verdicts == {"none", "sent", "failed", "no_template", "skipped_suppressed",
             "skipped_cap"}

Idle == [pc |-> "idle", r |-> NoRecipient, n |-> 0, verdict |-> "none"]

Jobs == {j \in [pc : Phases, r : Recipients \cup {NoRecipient},
                n : 0 .. MaxRetries, verdict : Verdicts] :
            /\ j.pc = "idle" <=> j.r = NoRecipient
            /\ j.pc \in {"recheck", "settle"} => j.verdict # "none"}

TypeOK ==
    /\ cstatus \in CampaignStatuses
    /\ hasTemplate \in BOOLEAN
    /\ status \in [Recipients -> RecipientStatuses]
    /\ counts \in [Counters -> Nat]
    /\ suppressed \in SUBSET Recipients
    /\ lock \in [Recipients -> BOOLEAN]
    /\ poolUsed \in Nat
    /\ globalUsed \in Nat
    /\ queue \in [Tasks -> Nat]
    /\ materialize \in BOOLEAN
    /\ job \in [Workers -> Jobs]
    /\ accepted \in [Recipients -> Nat]
    /\ late \in [Recipients -> Nat]
    /\ lost \in [Recipients -> Nat]
    /\ overrun \in [Recipients -> Nat]
    /\ acceptedToday \in Nat
    /\ uncounted \in Nat
    /\ blind \in Nat
    /\ faults \in Nat

-----------------------------------------------------------------------------
(* Reading the state.                                                       *)

Pending == {r \in Recipients : status[r] = "pending"}

\* The workers between the lock's acquisition and its release for r.
Inside(r) == {w \in Workers : job[w].r = r}

\* Holding Postal's acceptance, with the row not settled yet.
AcceptedUnsettled(w) ==
    job[w].pc \in {"recheck", "settle"} /\ job[w].verdict = "sent"

\* Holding an acceptance the daily counters have not both seen.
AcceptedUncounted(w) ==
    AcceptedUnsettled(w) \/ job[w].pc \in {"count_pool", "count_global"}

Tally(f, r) == [f EXCEPT ![r] = @ + 1]

Goto(w, pc) == job' = [job EXCEPT ![w].pc = pc]

GotoWith(w, pc, v) == job' = [job EXCEPT ![w].pc = pc, ![w].verdict = v]

-----------------------------------------------------------------------------
(* The initial state: materialize_campaign has committed the ledger and     *)
(* enqueued every row.                                                      *)

Init ==
    /\ cstatus = "sending"
    /\ hasTemplate \in BOOLEAN
    /\ status = [r \in Recipients |-> "pending"]
    /\ counts = [c \in Counters |-> 0]
    /\ suppressed = {}
    /\ lock = [r \in Recipients |-> FALSE]
    /\ poolUsed = 0
    /\ globalUsed = 0
    /\ queue = [t \in Tasks |-> IF t.n = 0 THEN 1 ELSE 0]
    /\ materialize = FALSE
    /\ job = [w \in Workers |-> Idle]
    /\ accepted = [r \in Recipients |-> 0]
    /\ late = [r \in Recipients |-> 0]
    /\ lost = [r \in Recipients |-> 0]
    /\ overrun = [r \in Recipients |-> 0]
    /\ acceptedToday = 0
    /\ uncounted = 0
    /\ blind = 0
    /\ faults = 0

-----------------------------------------------------------------------------
(* send_one, step by step.                                                  *)

\* Mutant of TakeLock: SET without nx.
TakeLockWithoutNX(w, t) ==
    /\ job[w].pc = "idle"
    /\ queue[t] > 0
    /\ queue' = [queue EXCEPT ![t] = @ - 1]
    /\ lock' = [lock EXCEPT ![t.r] = TRUE]
    /\ job' = [job EXCEPT ![w] =
                  [pc |-> "validate", r |-> t.r, n |-> t.n, verdict |-> "none"]]
    /\ UNCHANGED <<db, caps, materialize, mail, slips>>

\* A worker takes a task and wins the NX lock.
TakeLock(w, t) ==
    /\ job[w].pc = "idle"
    /\ queue[t] > 0
    /\ ~lock[t.r]
    /\ queue' = [queue EXCEPT ![t] = @ - 1]
    /\ lock' = [lock EXCEPT ![t.r] = TRUE]
    /\ job' = [job EXCEPT ![w] =
                  [pc |-> "validate", r |-> t.r, n |-> t.n, verdict |-> "none"]]
    /\ UNCHANGED <<db, caps, materialize, mail, slips>>

\* A worker takes a task and finds the lock there: it returns "locked", and
\* the task is acknowledged and gone.
TakeLocked(w, t) ==
    /\ job[w].pc = "idle"
    /\ queue[t] > 0
    /\ lock[t.r]
    /\ queue' = [queue EXCEPT ![t] = @ - 1]
    /\ UNCHANGED <<db, lock, caps, materialize, job, mail, slips>>

\* Mutant of Validate: no guard on the row's status.
ValidateAnyStatus(w) ==
    /\ job[w].pc = "validate"
    /\ IF cstatus = "sending" /\ job[w].r \notin suppressed /\ hasTemplate
       THEN Goto(w, "rate")
       ELSE Goto(w, "release")
    /\ UNCHANGED <<db, lock, caps, broker, mail, slips>>

\* Mutant of Validate: suppression is checked at materialization only.
ValidateWithoutSuppression(w) ==
    /\ job[w].pc = "validate"
    /\ IF status[job[w].r] = "pending" /\ cstatus = "sending"
       THEN Goto(w, "rate")
       ELSE Goto(w, "release")
    /\ UNCHANGED <<db, lock, caps, broker, mail, slips>>

\* Phase 1: the row, its campaign, the suppression list and the template.
\* Both verdicts are written in the transaction that read them.
Validate(w) ==
    LET r == job[w].r IN
    /\ job[w].pc = "validate"
    /\ \/ /\ \/ status[r] # "pending"
             \/ cstatus # "sending"
          /\ Goto(w, "release")
       \/ /\ status[r] = "pending" /\ cstatus = "sending"
          /\ r \in suppressed
          /\ GotoWith(w, "settle", "skipped_suppressed")
       \/ /\ status[r] = "pending" /\ cstatus = "sending"
          /\ r \notin suppressed /\ ~hasTemplate
          /\ GotoWith(w, "settle", "no_template")
       \/ /\ status[r] = "pending" /\ cstatus = "sending"
          /\ r \notin suppressed /\ hasTemplate
          /\ Goto(w, "rate")
    /\ UNCHANGED <<db, lock, caps, broker, mail, slips>>

\* A fresh copy of the task, with a countdown; the lock is still held.
Reenqueue(r) == queue' = [queue EXCEPT ![[r |-> r, n |-> 0]] = @ + 1]

\* Phase 2: both token buckets had a token.
RateGranted(w) ==
    /\ job[w].pc = "rate"
    /\ Goto(w, "pool_cap")
    /\ UNCHANGED <<db, lock, caps, broker, mail, slips>>

\* Phase 2: one of the buckets was empty, or was too contended to settle.
RateDenied(w) ==
    /\ job[w].pc = "rate"
    /\ Reenqueue(job[w].r)
    /\ Goto(w, "release")
    /\ UNCHANGED <<db, lock, caps, materialize, mail, slips>>

\* Mutant of CheckPoolCap: the cap is compared with > for >=.
CheckPoolCapOffByOne(w) ==
    /\ job[w].pc = "pool_cap"
    /\ IF poolUsed > PoolCap
       THEN Reenqueue(job[w].r) /\ Goto(w, "release")
       ELSE UNCHANGED queue /\ Goto(w, "warming_cap")
    /\ UNCHANGED <<db, lock, caps, materialize, mail, slips>>

\* Phase 2: the pool's daily cap is checked and not reserved.
CheckPoolCap(w) ==
    /\ job[w].pc = "pool_cap"
    /\ \/ /\ poolUsed < PoolCap
          /\ Goto(w, "warming_cap")
          /\ UNCHANGED queue
       \/ /\ poolUsed >= PoolCap
          /\ Reenqueue(job[w].r)
          /\ Goto(w, "release")
    /\ UNCHANGED <<db, lock, caps, materialize, mail, slips>>

\* Phase 2: the warming cap over all pools; hard stop gives the recipient up,
\* defer tries again in an hour.
CheckWarmingCap(w) ==
    /\ job[w].pc = "warming_cap"
    /\ \/ /\ globalUsed < WarmingCap
          /\ Goto(w, "postal")
          /\ UNCHANGED queue
       \/ /\ globalUsed >= WarmingCap /\ HardStop
          /\ GotoWith(w, "recheck", "skipped_cap")
          /\ UNCHANGED queue
       \/ /\ globalUsed >= WarmingCap /\ ~HardStop
          /\ Reenqueue(job[w].r)
          /\ Goto(w, "release")
    /\ UNCHANGED <<db, lock, caps, materialize, mail, slips>>

\* A cap check whose GET fails reads a usage of 0 and passes.
CheckCapBlind(w) ==
    /\ faults < MaxFaults
    /\ \/ job[w].pc = "pool_cap" /\ Goto(w, "warming_cap")
       \/ job[w].pc = "warming_cap" /\ WarmingCap > 0 /\ Goto(w, "postal")
    /\ blind' = blind + 1
    /\ faults' = faults + 1
    /\ UNCHANGED <<db, lock, caps, broker, mail, lost, overrun, uncounted>>

\* Postal takes the message for r and will deliver it.
PostalTakes(r) ==
    /\ accepted' = Tally(accepted, r)
    /\ late' = IF r \in suppressed THEN Tally(late, r) ELSE late
    /\ acceptedToday' = acceptedToday + 1

\* Phase 3: Postal accepts and its answer arrives.
PostalAccepts(w) ==
    /\ job[w].pc = "postal"
    /\ PostalTakes(job[w].r)
    /\ GotoWith(w, "recheck", "sent")
    /\ UNCHANGED <<db, lock, caps, broker, slips>>

\* Mutant of PostalRejects: any answer of Postal with a body reads as success.
PostalRejectsUnseen(w) ==
    /\ job[w].pc = "postal"
    /\ GotoWith(w, "recheck", "sent")
    /\ UNCHANGED <<db, lock, caps, broker, mail, slips>>

\* Phase 3: Postal refuses the message for good.
PostalRejects(w) ==
    /\ job[w].pc = "postal"
    /\ GotoWith(w, "recheck", "failed")
    /\ UNCHANGED <<db, lock, caps, broker, mail, slips>>

\* self.retry: the next attempt, or none when the attempts are used up (the
\* exception ends the task and the row stays pending).
Retry(t) ==
    IF t.n < MaxRetries
    THEN queue' = [queue EXCEPT ![[t EXCEPT !.n = @ + 1]] = @ + 1]
    ELSE UNCHANGED queue

TaskOf(w) == [r |-> job[w].r, n |-> job[w].n]

\* Phase 3: a 5xx, a 429 or a connection that never reached Postal.
PostalTransient(w) ==
    /\ job[w].pc = "postal"
    /\ Retry(TaskOf(w))
    /\ Goto(w, "release")
    /\ UNCHANGED <<db, lock, caps, materialize, mail, slips>>

\* Phase 3: Postal accepted, and the answer timed out, was not JSON or held
\* no token: the client reports a transient error.
PostalAnswerLost(w) ==
    /\ faults < MaxFaults
    /\ job[w].pc = "postal"
    /\ PostalTakes(job[w].r)
    /\ Retry(TaskOf(w))
    /\ Goto(w, "release")
    /\ lost' = Tally(lost, job[w].r)
    /\ uncounted' = uncounted + 1
    /\ faults' = faults + 1
    /\ UNCHANGED <<db, lock, caps, materialize, overrun, blind>>

\* The second transaction reads the row again: gone, no longer pending, or
\* pending.  A send whose row is gone returns before the daily counters.
Recheck(w) ==
    LET r == job[w].r IN
    /\ job[w].pc = "recheck"
    /\ \/ /\ status[r] = "missing"
          /\ Goto(w, "release")
          /\ uncounted' = IF job[w].verdict = "sent" THEN uncounted + 1 ELSE uncounted
       \/ /\ status[r] \notin {"pending", "missing"}
          /\ Goto(w, IF job[w].verdict = "sent" THEN "count_pool" ELSE "release")
          /\ UNCHANGED uncounted
       \/ /\ status[r] = "pending"
          /\ Goto(w, "settle")
          /\ UNCHANGED uncounted
    /\ UNCHANGED <<db, lock, caps, broker, mail, lost, overrun, blind, faults>>

StatusOf(v) == IF v = "no_template" THEN "failed" ELSE v

CounterOf(v) == IF v \in {"failed", "no_template"} THEN "failed"
                ELSE IF v = "sent" THEN "sent" ELSE "skipped"

\* Phase 1 loaded the campaign before its own bump, so _maybe_finalize sees
\* the status read then; the other transactions read it under the row lock.
ReadBefore(v) == v \in {"skipped_suppressed", "no_template"}

\* _maybe_finalize, after the row of r got its final status.
Finalize(r, v) ==
    cstatus' = IF Pending \ {r} = {} /\ (ReadBefore(v) \/ cstatus = "sending")
               THEN "completed"
               ELSE cstatus

\* The commit of a status: the UPDATE names the row only, so it overwrites
\* whatever another worker settled since this one read "pending".
Settle(w) ==
    LET r == job[w].r
        v == job[w].verdict
    IN
    /\ job[w].pc = "settle"
    /\ status[r] # "missing"
    /\ status' = [status EXCEPT ![r] = StatusOf(v)]
    /\ counts' = [counts EXCEPT ![CounterOf(v)] = @ + 1]
    /\ Finalize(r, v)
    /\ Goto(w, IF v = "sent" THEN "count_pool" ELSE "release")
    /\ UNCHANGED <<hasTemplate, suppressed, lock, caps, broker, mail, slips>>

\* An exception after the row was read: rolled back, the lock released by
\* the finally clause, the task acknowledged as failed.
Abort(w) ==
    /\ Goto(w, "release")
    /\ lost' = IF AcceptedUnsettled(w) THEN Tally(lost, job[w].r) ELSE lost
    /\ uncounted' = IF AcceptedUncounted(w) THEN uncounted + 1 ELSE uncounted
    /\ UNCHANGED <<db, lock, caps, broker, mail, overrun, blind>>

\* The row was deleted between its read and its UPDATE.
SettleDeleted(w) ==
    /\ job[w].pc = "settle"
    /\ status[job[w].r] = "missing"
    /\ Abort(w)
    /\ UNCHANGED faults

\* The database or Redis fails under a transaction or an INCR.
StepFails(w) ==
    /\ faults < MaxFaults
    /\ job[w].pc \in {"validate", "recheck", "settle", "count_pool", "count_global"}
    /\ Abort(w)
    /\ faults' = faults + 1

\* Mutant of CountPool: DECR for INCR.
CountPoolDown(w) ==
    /\ job[w].pc = "count_pool"
    /\ poolUsed' = poolUsed - 1
    /\ Goto(w, "count_global")
    /\ UNCHANGED <<db, lock, globalUsed, broker, mail, slips>>

\* record_daily_send and record_global_send: one INCR each.
CountPool(w) ==
    /\ job[w].pc = "count_pool"
    /\ poolUsed' = poolUsed + 1
    /\ Goto(w, "count_global")
    /\ UNCHANGED <<db, lock, globalUsed, broker, mail, slips>>

CountGlobal(w) ==
    /\ job[w].pc = "count_global"
    /\ globalUsed' = globalUsed + 1
    /\ Goto(w, "release")
    /\ UNCHANGED <<db, lock, poolUsed, broker, mail, slips>>

\* finally: the lock is deleted whoever holds it, and the task is acked.
Release(w) ==
    /\ job[w].pc = "release"
    /\ lock' = [lock EXCEPT ![job[w].r] = FALSE]
    /\ job' = [job EXCEPT ![w] = Idle]
    /\ UNCHANGED <<db, caps, broker, mail, slips>>

-----------------------------------------------------------------------------
(* Faults.                                                                  *)

\* The worker process dies: the broker gets its unacknowledged task back, the
\* lock stays until its TTL ends.
Crash(w) ==
    /\ faults < MaxFaults
    /\ job[w].pc # "idle"
    /\ queue' = [queue EXCEPT ![TaskOf(w)] = @ + 1]
    /\ job' = [job EXCEPT ![w] = Idle]
    /\ lost' = IF AcceptedUnsettled(w) THEN Tally(lost, job[w].r) ELSE lost
    /\ uncounted' = IF AcceptedUncounted(w) THEN uncounted + 1 ELSE uncounted
    /\ faults' = faults + 1
    /\ UNCHANGED <<db, lock, caps, materialize, mail, overrun, blind>>

\* Mutant of LockExpires: SET without ex, the lock has no TTL.
LockNeverExpires(r) == FALSE /\ lock[r] /\ UNCHANGED vars

\* The lock of a worker that died reaches its TTL.
LockExpires(r) ==
    /\ lock[r]
    /\ Inside(r) = {}
    /\ lock' = [lock EXCEPT ![r] = FALSE]
    /\ UNCHANGED <<db, caps, broker, job, mail, slips>>

\* The lock reaches its TTL of 180 seconds under a worker still at work.
LockOverruns(r) ==
    /\ faults < MaxFaults
    /\ lock[r]
    /\ Inside(r) # {}
    /\ lock' = [lock EXCEPT ![r] = FALSE]
    /\ overrun' = Tally(overrun, r)
    /\ faults' = faults + 1
    /\ UNCHANGED <<db, caps, broker, job, mail, lost, uncounted, blind>>

\* The broker's visibility timeout of 3600 seconds ends for a task a worker
\* holds for a countdown as long: the task is delivered twice.
Redeliver(t) ==
    /\ faults < MaxFaults
    /\ queue[t] > 0
    /\ queue' = [queue EXCEPT ![t] = @ + 1]
    /\ faults' = faults + 1
    /\ UNCHANGED <<db, lock, caps, materialize, job, mail, lost, overrun,
                   uncounted, blind>>

-----------------------------------------------------------------------------
(* The broker is filled from the ledger.                                    *)

\* enqueue_pending_for_campaign: one more task for every pending row.
EnqueuePending ==
    /\ \A t \in Tasks : t.r \in Pending => queue[t] < MaxQueued
    /\ queue' = [t \in Tasks |->
                    IF t.r \in Pending /\ t.n = 0 THEN queue[t] + 1 ELSE queue[t]]

\* materialize_campaign over an unchanged contact list: every contact has its
\* row, so it recomputes the counters and enqueues what is pending.
Materialize ==
    /\ materialize
    /\ materialize' = FALSE
    /\ \/ /\ cstatus # "sending"
          /\ UNCHANGED <<counts, queue>>
       \/ /\ cstatus = "sending"
          /\ counts' = [counts EXCEPT !.skipped = Cardinality(Recipients \ Pending)]
          /\ EnqueuePending
    /\ UNCHANGED <<cstatus, hasTemplate, status, suppressed, lock, caps, job,
                   mail, slips>>

\* finalize_and_repump finds the campaign drained.
SweepFinalizes ==
    /\ cstatus = "sending"
    /\ Pending = {}
    /\ cstatus' = "completed"
    /\ UNCHANGED <<hasTemplate, status, counts, suppressed, lock, caps, broker,
                   job, mail, slips>>

\* finalize_and_repump finds pending rows none of which moved for 15 minutes.
SweepRepumps ==
    /\ cstatus = "sending"
    /\ Pending # {}
    /\ EnqueuePending
    /\ UNCHANGED <<db, lock, caps, materialize, job, mail, slips>>

-----------------------------------------------------------------------------
(* The operator, the suppression list and the calendar.                     *)

Pause ==
    /\ cstatus = "sending"
    /\ cstatus' = "paused"
    /\ UNCHANGED <<hasTemplate, status, counts, suppressed, lock, caps, broker,
                   job, mail, slips>>

Resume ==
    /\ cstatus = "paused"
    /\ cstatus' = "sending"
    /\ materialize' = TRUE
    /\ UNCHANGED <<hasTemplate, status, counts, suppressed, lock, caps, queue,
                   job, mail, slips>>

Cancel ==
    /\ cstatus \notin {"completed", "cancelled", "deleted"}
    /\ cstatus' = "cancelled"
    /\ UNCHANGED <<hasTemplate, status, counts, suppressed, lock, caps, broker,
                   job, mail, slips>>

\* delete_campaign: refused while sending; the rows go with the campaign.
Delete ==
    /\ cstatus \notin {"sending", "deleted"}
    /\ cstatus' = "deleted"
    /\ status' = [r \in Recipients |-> "missing"]
    /\ UNCHANGED <<hasTemplate, counts, suppressed, lock, caps, broker, job,
                   mail, slips>>

\* A bounce, a complaint or an unsubscribe puts the address on the list.
Suppress(r) ==
    /\ r \notin suppressed
    /\ suppressed' = suppressed \cup {r}
    /\ UNCHANGED <<cstatus, hasTemplate, status, counts, lock, caps, broker, job,
                   mail, slips>>

\* The keys of the daily counters carry the UTC date.
Midnight ==
    /\ poolUsed' = 0
    /\ globalUsed' = 0
    /\ acceptedToday' = 0
    /\ UNCHANGED <<db, lock, broker, job, accepted, late, slips>>

-----------------------------------------------------------------------------

Send(w) ==
    \/ \E t \in Tasks : TakeLock(w, t) \/ TakeLocked(w, t)
    \/ Validate(w)
    \/ RateGranted(w) \/ RateDenied(w)
    \/ CheckPoolCap(w) \/ CheckWarmingCap(w) \/ CheckCapBlind(w)
    \/ PostalAccepts(w) \/ PostalRejects(w)
    \/ PostalTransient(w) \/ PostalAnswerLost(w)
    \/ Recheck(w) \/ Settle(w) \/ SettleDeleted(w) \/ StepFails(w)
    \/ CountPool(w) \/ CountGlobal(w)
    \/ Release(w)
    \/ Crash(w)

Sweep == SweepFinalizes \/ SweepRepumps

Operate == Pause \/ Resume \/ Cancel \/ Delete

Next ==
    \/ \E w \in Workers : Send(w)
    \/ \E r \in Recipients : LockExpires(r) \/ LockOverruns(r) \/ Suppress(r)
    \/ \E t \in Tasks : Redeliver(t)
    \/ Materialize
    \/ Sweep
    \/ Operate
    \/ Midnight

Spec == Init /\ [][Next]_vars


-----------------------------------------------------------------------------
(* Safety.                                                                  *)

\* Postal accepts a recipient's message at most once, plus once for each
\* acceptance no worker recorded, plus once for each lock that expired under
\* a live worker: what "never double-sends" (ARCHITECTURE.md) amounts to.
AcceptBound == \A r \in Recipients : accepted[r] <= 1 + lost[r] + overrun[r]

\* Only a worker that cleared phase 1 before the suppression can still send
\* to the address, and with the lock in place there is one such worker.
LateBound == \A r \in Recipients : late[r] <= 1 + overrun[r]

\* The pool's daily cap is checked before the send and recorded after it: it
\* is overshot by at most one message per other worker (DECISIONS.md, 6), one
\* per send that was never recorded and one per check Redis did not answer.
DailyCapBound ==
    acceptedToday <= PoolCap + Cardinality(Workers) - 1 + uncounted + blind

\* As long as no lock expired under its holder, the campaign's sent and
\* failed counters are the numbers of rows with that status, in every state
\* between two commits: no crash, retry or duplicate bumps one twice.
CountersMatchLedger ==
    (cstatus # "deleted" /\ \A r \in Recipients : overrun[r] = 0) =>
        /\ counts.sent = Cardinality({r \in Recipients : status[r] = "sent"})
        /\ counts.failed = Cardinality({r \in Recipients : status[r] = "failed"})

\* MailLedger, read off this state: the rows and what Postal accepted.
Row == [r \in Recipients |->
           CASE status[r] = "missing" -> "gone"
             [] status[r] \in {"skipped_suppressed", "skipped_cap"} -> "skipped"
             [] OTHER -> status[r]]

Counted == [c \in {"sent", "failed"} |-> counts[c]]

Ledger == INSTANCE MailLedger WITH row <- Row, counted <- Counted

\* Every step of every process keeps what MailLedger promises: a settled row
\* keeps its status, a status and its counter change together, a row is SENT
\* only after an acceptance that no crash lost, and nobody sends a settled
\* row's message, unless a lock expired under its holder (the commit of a
\* status, sending.py:359-373, does not look at the status it overwrites).
LedgerKept == Ledger!Spec

-----------------------------------------------------------------------------
(* Why AcceptBound, LateBound and DailyCapBound hold: what every step of    *)
(* every worker preserves.                                                  *)

\* Past the checks of phase 1, with no answer from Postal yet.
IsCleared(j, r) ==
    j.r = r /\ j.pc \in {"rate", "pool_cap", "warming_cap", "postal"}

\* Holding Postal's acceptance for r, with the row not settled yet.
IsDelivering(j, r) ==
    j.r = r /\ j.pc \in {"recheck", "settle"} /\ j.verdict = "sent"

Cleared(r) == {w \in Workers : IsCleared(job[w], r)}
Delivering(r) == {w \in Workers : IsDelivering(job[w], r)}

\* The lock admits one worker; each overrun admits one more.
OneHolder(r) ==
    Cardinality(Inside(r)) <= overrun[r] + (IF lock[r] THEN 1 ELSE 0)

\* While the row is pending, every acceptance is in a worker's hands or lost.
PendingBudget(r) ==
    status[r] = "pending" => accepted[r] <= lost[r] + Cardinality(Delivering(r))

\* What was accepted and what may still be accepted, together.
SendBudget(r) ==
    accepted[r] + Cardinality(Cleared(r)) <= 1 + lost[r] + overrun[r]

LateBudget(r) ==
    /\ r \notin suppressed => late[r] = 0
    /\ r \in suppressed => late[r] + Cardinality(Cleared(r)) <= 1 + overrun[r]

SendBudgets ==
    \A r \in Recipients :
        OneHolder(r) /\ PendingBudget(r) /\ SendBudget(r) /\ LateBudget(r)

\* Holding an acceptance the pool's counter has not seen.
OwesPool(j) ==
    \/ j.pc \in {"recheck", "settle"} /\ j.verdict = "sent"
    \/ j.pc = "count_pool"

\* Past the check of the pool's cap and able to add one to its counter.
OnPool(j) == j.pc \in {"warming_cap", "postal"} \/ OwesPool(j)

PoolBudget ==
    /\ poolUsed + Cardinality({w \in Workers : OnPool(job[w])})
           <= PoolCap + Cardinality(Workers) - 1 + blind
    /\ acceptedToday
           <= poolUsed + Cardinality({w \in Workers : OwesPool(job[w])}) + uncounted

-----------------------------------------------------------------------------
(* A claim of the documentation that the code does not keep in every        *)
(* behaviour.                                                               *)

\* ARCHITECTURE.md: "a retry or a duplicate enqueue never double-sends".
NeverDoubleSends == \A r \in Recipients : accepted[r] <= 1

-----------------------------------------------------------------------------
(* Liveness.                                                                *)

\* The steps a worker takes by itself once it has a task.
Proceed(w) ==
    \/ Validate(w)
    \/ RateGranted(w) \/ RateDenied(w)
    \/ CheckPoolCap(w) \/ CheckWarmingCap(w)
    \/ PostalAccepts(w) \/ PostalRejects(w) \/ PostalTransient(w)
    \/ Recheck(w) \/ Settle(w) \/ SettleDeleted(w)
    \/ CountPool(w) \/ CountGlobal(w)
    \/ Release(w)

\* The broker delivers every task in the end.
Deliver(t) == \E w \in Workers : TakeLock(w, t) \/ TakeLocked(w, t)

\* A recipient tried again and again gets its tokens in the end (the buckets
\* refill) and a definite answer of Postal.
Grant(r) == \E w \in Inside(r) : RateGranted(w)

Answer(r) == \E w \in Inside(r) : PostalAccepts(w) \/ PostalRejects(w)

Fairness ==
    /\ \A w \in Workers : WF_vars(Proceed(w))
    /\ \A t \in Tasks : SF_vars(Deliver(t))
    /\ \A r \in Recipients : SF_vars(Grant(r)) /\ SF_vars(Answer(r))
    /\ \A r \in Recipients : WF_vars(LockExpires(r))
    /\ WF_vars(SweepFinalizes)
    /\ WF_vars(SweepRepumps)
    /\ WF_vars(Midnight)

FairSpec == Spec /\ Fairness

\* A campaign that is sending finishes, or the operator stops it, whatever
\* worker died with a lock, whatever task was dropped as "locked" or ran out
\* of retries on the way, and also when its materialization never comes: the
\* process that was to publish it may have died after the commit of SENDING.
CampaignFinishes == (cstatus = "sending") ~> (cstatus # "sending")

=============================================================================
