# A verification development for emailmarketing

The repository is a FastAPI application with Celery workers that sends e-mail
campaigns through Postal.  PostgreSQL holds the campaigns and one row per
campaign and contact (*the ledger*); Redis is the broker and holds the locks,
token buckets and daily counters the workers share.  The rules that matter are
kept by several processes over several stores: a message is sent once, a
suppressed address is left alone, a cap is kept, a campaign ends.  This directory
models those processes in TLA+, model-checks them with TLC and proves part of it
with TLAPS for every size.

## 1. The system

| component | state | operations | talks to |
|---|---|---|---|
| send pipeline (`app/tasks/sending.py`) | `campaign_recipients.status`, the counters of `campaigns`, `lock:send:<id>` | `send_one` in four phases, retry, re-enqueue, release | Redis, Postal, the campaign's status |
| daily caps (`services/rate_limit.py`) | `ipcap:<pool>:<day>`, `warmsent:<day>` | check before the send, INCR after it | called by `send_one` |
| token buckets (`services/rate_limit.py`) | `rl:global`, `rl:dom:<domain>`, each with a TTL | `acquire` by WATCH, HMGET, MULTI/EXEC | called by `send_one` |
| Postal client (`integrations/postal`) | none | one POST: accepted, refused, transient, or accepted with the answer lost | Postal |
| campaign lifecycle (`services/campaigns.py`, `web/campaigns.py`) | `campaigns.status`, `scheduled_at` | schedule, pause, resume, cancel, edit, delete | publishes `materialize_campaign` |
| scheduler (`tasks/scheduler.py`) | none of its own | `dispatch_due_campaigns`, `finalize_and_repump`, both by Beat | status, ledger, broker |
| materialization (`tasks/sending.py`) | the ledger and its counters | one INSERT per new contact, recount, enqueue | contact lists, suppression list |
| webhook reconciliation (`api/webhooks.py`, `tasks/webhooks.py`, `services/bounce.py`) | `email_events`, row status, `delivered_count`, `bounced_count` | `apply_event` | Postal, suppression list |
| suppression (`services/suppression.py`) | `suppressions`, `contacts.status` | `suppress_sync`, `suppress_async` | webhooks, unsubscribe page, removals, verification |
| list pages (`web/lists.py`, `services/lists.py`) | `contact_lists`, the uploaded files | upload, delete, add, remove, suppress | enqueue imports; suppression list |
| list import (`services/csv_import.py`, `tasks/imports.py`) | `contacts`, the import's report | batches of a file, each one transaction | chains the verification |
| verification (`tasks/verification.py`, `services/verification`) | verdicts of contacts, `mxcache:<domain>`, the list's status | DNS look-ups and one transaction per batch | `suppress_sync` |
| planner (`services/planner_engine.py`, `services/planner.py`, `tasks/planner.py`, `web/planner.py`) | `planner_placements`, the recurring campaign, its runs | edits of the grid, `run_planner` every five minutes and after an edit | makes scheduled campaigns |
| frequency rule (`services/frequency.py`) | `campaign_contact_sends` | asked by `materialize_campaign`, written by `send_one` | the run's parent |
| the rest: templates, accounts, settings, dashboard, preflight | single rows | reads and single-row writes | |

What is hard about it:

- **Two stores and an outside service.** A message is accepted by Postal before
  the row says so.  What happens when the worker dies, or the answer is lost, in
  between decides how often a person gets the mail.
- **A lock with a TTL** whose holder may be alive when it ends, and which is
  deleted by whoever finishes.
- **Tasks delivered at least once** (`acks_late`, a visibility timeout equal to a
  countdown the code uses) and tasks dropped at the lock; who puts a row
  back into the broker is a sweep.
- **Status columns read in one statement and written at a commit** at READ
  COMMITTED by requests, Beat's tasks and sends, with no version and no lock but
  the one the counter bump takes.
- **Batches that commit one by one**, in tasks that may be delivered again after any
  of them, beside requests that delete what they work on, with row locks taken in
  different orders.
- **Webhooks in any order and any number**, some of them for a message that was
  never recorded, in a transaction that another function may roll back half-way.

What makes each part correct, and where it bites, is the list of hazards in
`PROJECT.json`; the properties of section 4 are stated for those.

## 2. The modules

| module | what it models |
|---|---|
| `MailLedger` | what the send pipeline promises of a campaign's rows (abstract) |
| `SendOne` | `send_one` over the rows of one campaign, with lock, caps, Postal, sweep, operator and faults |
| `SendOneProofs`, `SendOneBounds`, `SendOneLedger` | its theorems: types; acceptances, suppression and the pool's cap; the refinement of `MailLedger` and the counters |
| `CampaignLifecycle` | the status column, Beat's tasks and `materialize_campaign`, for one campaign |
| `CampaignLifecycleProofs` | its theorems: types, the total, what a completed campaign has left, cancellation |
| `EventLog` | what webhook reconciliation promises (abstract) |
| `Reconciliation` | `process_webhook`, `suppress_sync`/`suppress_async` and the requests and imports beside them |
| `ReconciliationProofs` | its theorems, the refinement of `EventLog` among them |
| `Planner` | one recurring campaign: its grid, the runs `run_planner` makes, the frequency log |
| `PlannerProofs` | its theorems: types, twin runs, the log, the frequency rule |
| `RateLimiter` | `acquire` on the token buckets, Redis command by Redis command |
| `RateLimiterProofs` | its theorems: types, what is granted, what a refusal promises |
| `ContactStore` | what list pages, import and verification share: rows, locks, broker, and the requests |
| `ListImport`, `ListVerification` | the two Celery tasks over `ContactStore` |
| `Lists` | their composition, from an upload to "ready", and its properties |
| `ListsProofs` | its theorems: types and locks, verdicts, suppressions, rows, and what is left of a list |
| `MCSendOne`, `MCCampaignLifecycle`, `MCReconciliation`, `MCPlanner`, `MCRateLimiter`, `MCLists` | symmetry, constraints and sample data for TLC |

### SendOne and MailLedger

State: what PostgreSQL has of one campaign (`cstatus`, `status` of each row,
`counts`, `suppressed`), what Redis has (`lock`, `poolUsed`, `globalUsed`,
`queue`), and per worker where it is in `send_one` and what it means to
write (`job`).  `accepted`, `late`, `lost`, `overrun`, `acceptedToday`,
`uncounted`, `blind` and `faults` record history for the properties; no action
reads them except for the fault bound.

A step is what another process can see: one Redis command, one HTTP
call, one transaction's reads, one commit.  Phase 1 is `Validate`; phase 2
`RateGranted`/`RateDenied`, `CheckPoolCap`, `CheckWarmingCap`; phase 3 the four
`Postal...` actions; phase 4 `Recheck`, `Settle`, `CountPool`, `CountGlobal`;
the `finally` clause `Release`.  `Settle` reads and writes in one step because the
counter bump takes the campaign row's lock before `_maybe_finalize` counts the
pending rows; it writes the row's status whatever it is by then, as the code's
UPDATE does.  Faults: `Crash`, `StepFails`, `PostalAnswerLost`, `CheckCapBlind`,
`LockOverruns`, `Redeliver`; they share one budget, `MaxFaults`.  Time is left
out: a TTL, a countdown or a refill is a step that may happen at any time, except
that a lock under a live worker expires only as a fault.

The ledger is there from the start; how it got there is `CampaignLifecycle`.
A resume publishes a materialization, which for an unchanged list recounts and
enqueues (`Materialize`).

`MailLedger` is the promise, with no worker, lock, queue or retry in it: a row is
settled once, in one step with its counter, as SENT only while Postal has accepted a
message whose worker did not lose it, and Postal accepts no message of a settled row.  It
knows two excuses, an acceptance that was `lost` and a lock that ended under its
holder (`overrun`).  `SendOne!Ledger` maps it to the statuses (`Row`), `sent_count`
and `failed_count` (`Counted`; a resume recomputes `skipped_count`) and the history of
acceptances.

### CampaignLifecycle

One campaign, its web requests and workers.  Each process has a record `txn` of
what it read and where it is.  An operation is a read with its status
check (`Open`, `Dispatch`, `SweepLoad`, `SendStart`) and a commit
(`CommitRequest`, `CommitTask`, `SendCommit`); SQLAlchemy writes a column only
when it was given a different value, which `Written` models, so a stale
commit overwrites the status of another, and an unchanged one does not.
`materialize_campaign` goes statement by statement: load, read the contacts,
insert (waiting for, or failing on, the unique constraint), recount, commit,
enqueue.  A commit and the `delay()` after it are two steps with a death possible in
between.  `send_one` is two steps here.

### Reconciliation and EventLog

Every webhook task and web request is one transaction whose statements are steps;
what it wrote shows at its commit, and a lock or a unique key that another
transaction holds is a guard.  `Flush` is the bounce branch up to the flush that
`suppress_sync`'s query causes; `LookUp`, `Insert`, `Find` and `Finish` are
`suppress_sync`, with the rollback of a lost race that drops everything the
transaction wrote before (`open` becomes false).  `Accept`, `Record` and `Forget` are
what sending does to a row's token.  `JoinLook` and `Join` are the look at the
suppression list and the commit of an import, or of `add_contact`.

The contact is found by a statement of its own (`Find`, suppression.py:72 and 113)
and written with the commit (`Finish`): a contact that joins in between is not the one
that was found and stays as it is, and one that a removal deleted meanwhile makes the
UPDATE match no row (`Gone`).  `id` tells a contact from one that joins after its
deletion, and `row` in a transaction is the `id` it found.  `overtaken` records both
orders in which a suppression and a join miss each other.

`EventLog` is the promise: an event enters the log once, and in the same step its
row's share of the counters grows by at most one, and a bounce's address
is suppressed.  `Reconciliation!Abstract` maps it to `logged`, `delivered`,
`bounced` and `suppressed`.

### Planner

State: the recurring campaign (`exists`, `shift`), the cells it is `placed` on, its
`runs` with the day each was `made` for and the date it is `at`, the `row` of each
run and contact, and the `log` of the last mail to each contact.  Time is the day of
the application's timezone.  `shift` is what matters of a send time and a timezone:
whether the local time they name on a day falls on that date of the application's
timezone, the one before or the one after.

`Tick` is `dispatch_planner`'s look at the grid, `Look` is `ensure_run` up to its
query, `Create` its commit, which fails when the parent is gone (`CreateFails`).
Between `Look` and `Create` another worker may commit; the run that it overtook is
marked `raced`.  `ReadLog` and `CommitLedger` are the read and the commit of
`materialize_campaign`.  A last entry exactly at the cutoff depends on the hour, so
`Recent` leaves a contact of that age to either side.  `SendStart`, `PostalAccepts`,
`LookUpLog` and `CommitSend` are the phases of `send_one` that read or write the
parent and the log; `Refused` is every reason for which phase 4's commit fails with
the message out.  The rest of a run's life is `Dispatch`, `Complete`, `Stop`,
`Resume`, `Reschedule` and `Delete`, each in one step: their own races are in
`CampaignLifecycle`.

`mailedOn`, `unlogged`, `beside`, and the marks `raced` and `moved` record history
for the properties.

### RateLimiter

State: the clock, the Redis hash of each `bucket`, and per worker where it is in
`acquire` with its locals (`job`).  One action is one Redis command or the reading of
the clock: `Watch`, `ReadClock`, `ReadGlobal`, `ReadDomain`, then `Commit` when no
watched key was written, and else `Conflict`, the code's retry or, after
`max_watch_retries`, its "retry in a second".  `Commit` rewrites both hashes, refused
or not, as the code does.  `Expire` is the TTL of a hash.  `Abandon` is a worker that
dies or loses Redis.

Tokens are counted in the ticks they take to refill, so the arithmetic is exact: a
bucket of r tokens a minute holds a `Minute` at most, gains one unit a tick, and one of
its tokens is `Cost` units.  The TTL is then a minute and sixty seconds, which is
`2 * Minute`.  `excess`, `refusal` and `moved` record history for the properties.
`excess[b]` is the most that the EXECs of `b` granted in any stretch of time that ends
now, beyond the refill of the stretch: a grant adds to every stretch that ends now, and a
tick makes each of them one longer and starts an empty one.  A grant counts at the
time of its EXEC, whatever it stamped the hash with.

### ContactStore, ListImport, ListVerification, Lists

State: the rows of `contact_lists`, `contacts` and `suppressions`; the domain cache,
the broker and the uploaded files; each Celery worker (`job`), the uploads between
their commit and their enqueue (`uploads`), and the other requests (`req`).

A transaction that holds a lock while it waits for another is several steps; what it
wrote shows at its commit.  `held` and `keys` are the row locks of the contacts and
the uncommitted suppressions of a verification; a request holds a contact's row
between `Mark` and `CommitRequest`, a suppression's key between `InsertSuppression`
and `CommitRequest`, and a list's row between `DeleteList` and `Cascade`.  `WaitsFor`
says whom the next statement of a process waits for; a process on a cycle of those
(`Deadlocked`) may be the one PostgreSQL aborts.

`ListImport` goes from flush to flush: `ReadRows` and `EndOfFile` take the rows up to
the next one that fills the batch and make the two look-ups of `_flush_batch`;
`FlushBatch` is its commit, and `FlushError` the commit that fails, on the unique key,
on the foreign key of a deleted list, or because the database failed.  In the loop the
code catches it and keeps the batch for the next flush; after the loop nothing does.
`Finalize`, `Chain` and `RemoveFile` end the task.

`ListVerification`: `ReadContacts` is the first transaction; `ProbeBatch` asks the
cache and DNS (`Resolve`: the truth, or no answer in time) outside any transaction;
`Load`, `Flush` and `InsertKey` are the statements for one contact, and
`CommitBatch` the commit.  `InsertKey` has the lost race of `suppress_sync`: the
rollback drops the batch so far and its locks, and only the contact's status is
written after it.  `Aborted` is the handler of `verify_list`, `Conclude` its last
transaction, with READY or FAILED.

`WorkerDies` puts a task back in the queue (`acks_late`); `RequestFails`,
`UploadDies`, `ImportFails`, `VerifyFails` and `Struck` are processes and
transactions that fail without coming back.  `known`, `missed`, `manual` and `gaveUp`
record history for the properties.

## 3. The runs

`tlc -workers 2 -config X.cfg MC....tla`, for the cfg files here:

| run | properties | instance | what it shows |
|---|---|---|---|
| `send_locking` | `TypeOK`, `AcceptBound`, `LateBound`, `CountersMatchLedger`, `DailyCapBound`, `LedgerKept` | 2 recipients, 2 workers, 1 retry, pool cap 1, 2 disturbances | a message is accepted once, plus once per lost acceptance and per lock that ended under its holder; at most one acceptance after a suppression; no counter is bumped twice; check-then-count overshoots the cap by the other workers, lost counts and blind checks only; `SendOne` implements `MailLedger` |
| `send_recovers` | `CampaignFinishes` | 1 recipient, 2 workers, 1 fault, hard stop | no crash, dropped task, used-up retry or materialization that never comes leaves a campaign sending for ever |
| `lifecycle_safety` | `TypeOK`, `CompletedOrOverlapped`, `TotalMatchesLedger`, `CancelSticks` | 1 contact that comes and goes, every operation, 2 workers, 1 death | a completed campaign has a pending row only after a materialization under way at that time; `total_recipients` is the size of the ledger unless two materializations overlapped; a cancelled campaign comes back only with a request that schedules it or a process that read its status before |
| `webhooks` | `TypeOK`, `BouncesSuppressed`, `NoneLost`, `NoActiveSuppressed`, `CountersFollowStatus`, `AppliedOnce` | 1 row, 2 messages, 4 webhooks, 2 workers, 1 request, contacts that join, 1 fault | `Reconciliation` implements `EventLog`; no bounce is finished with before its address is suppressed; no webhook is lost but by a failed database or a deleted contact; a suppressed address has an active contact only when the join and the suppression overlapped |
| `planner_runs` | `TypeOK`, `TwinsExplained`, `FrequencyHeld`, `SentIsLogged` | 2 runs, 1 contact, 2 workers, 2 days, one disturbance | two runs of a day have an explanation; a contact hears twice within the interval only from runs made out side by side or when the log misses a mail; SENT comes with its log entry |
| `rate_limiter` | `TypeOK`, `WindowBound`, `RetryIsEnough`, `ContentionIsProgress` | 2 workers, global bucket of 2, 2 domains of 1, a minute of 2 ticks, 4 ticks, 2 tries | over any stretch of time, the EXECs of a bucket grant no more than a full one, its refill and one token; a refused worker that waits as told finds its tokens unless another got one; a transaction is lost to a write by another, or an expiry, only |
| `lists` | `TypeOK`, `NothingDropped`, `InvalidIsSuppressed`, `OnlyDeadDomains`, `ReadyMeansChecked`, `QuietMeansSettled` | 2 files that share addresses, batches of 2, 2 workers, 1 request of any kind, 1 fault | an import drops no row; an invalid verdict comes with its suppression, and only from DNS; a ready list is checked; no list is left unsettled but by the exceptions `gaveUp` names |
| `send_double_send` | `NeverDoubleSends` (violated) | 1 recipient, 1 worker, 1 fault | section 5 |
| `lifecycle_completes` | `CompletedIsDrained` (violated) | 1 contact, 2 workers | section 5 |
| `lifecycle_cancelled` | `CancelIsTerminal` (violated) | 1 contact, 1 request, 1 worker, no fault | section 5 |
| `planner_twins` | `OneRunPerDay` (violated) | 2 runs, 1 worker, 1 day, no fault | section 5 |
| `webhooks_recorded` | `EventsRecorded` (violated) | as `webhooks`, no fault | section 5 |

### Bounds

- `MaxFaults` bounds the sum of all faults.  The bounds of `SendOne` add up one
  term per fault, so two faults show that the terms combine (a crash during
  another worker's overrun).  `TwoDisturbances` counts a suppression and an operator's
  step as one each with the faults, so that `send_locking` has any two of them
  in a behaviour; the theorems have no such bound.
- `webhooks` has one fault, since its interleavings are many without; a redelivery, a
  death, a lost answer and a failed database are one each.  The theorems have no
  bound on them.
- `MaxQueued` bounds how many copies of a task a sweep may add to; one spare copy is
  what a duplicate needs.  The code marks a re-pumped campaign in Redis and waits
  15 minutes, so copies do not pile up there either.
- `MaxTasks` bounds the materializations in the broker when an operator asks for
  another: with one, two workers materialize at once after a pause and a resume.
- `MaxRetries` is the code's own setting (5); 0 and 1 show the last retry and a
  retry that is followed by another.
- `rate_limiter`: a minute of two ticks, with tokens of one tick (global) and of two
  (domain), has a bucket between tokens at a refusal; four ticks are a TTL from the first
  write, so that a hash expires.  The theorems hold for any `Minute`, `Cost` and time.
- `lists`: with batches of two, the file of three rows has a flush in the loop and a
  last one, and the other file has a refused row, a repetition and a filtered address;
  they share two addresses, so that an import loses the unique key to the other.
  One request and one fault are enough for every lost race and every deadlock of two;
  `FaultsOnOneList` has faults only while the other list is not uploaded yet.
- `planner_runs` has two days of one week (`FirstDay`, `LastDay`) and an interval of
  one day, so that a mail of the first day is recent on the first, on the edge on
  the second.  `OneDisturbance` allows one of a death, a moved run, a send time of
  the next date and a deleted recurring campaign in a behaviour, `OneCell` one
  placement at a time (it may move), and `MCGrid` has the cells of the days modelled:
  no other is looked at.  The theorems of `PlannerProofs` have none of these bounds.
- Symmetry is over workers, requests, contacts, recipients and runs, which the
  modules treat alike, and only in runs without liveness.
- `CHECK_DEADLOCK FALSE`: a campaign that is deleted, a system in which every
  webhook was handled and every request served, and the last day of a planner
  whose recurring campaign is gone really have nothing left to do, and the model of the
  buckets ends with its clock.  The runs of `SendOne` check deadlock, and so does
  `lists`, whose `Quiet` step allows a stop only when every task and request has ended.

### Fairness

- `SendOne`: a worker goes on with what it began (`WF`: `Proceed` without faults).
  The broker delivers a task some time (`SF`, because the task is undeliverable while
  all workers are busy).  A recipient tried again and again gets its tokens
  (the buckets refill by the clock and are taken by the tries alone) and a
  definite answer of Postal (`SF`); without the second assumption an outage for
  ever keeps a campaign sending, which is no fault of the code.  The lock of a dead
  worker ends by Redis's TTL, Beat runs the sweep, midnight comes (`WF`).
  Nothing is assumed of `Materialize`: the process that was to publish it may have died
  after the commit of SENDING (scheduler.py:51, web/campaigns.py:223), and the sweep has
  to end the campaign alone.
- `CampaignLifecycle` has none: its properties say what may not happen.
- `Lists` has no fairness: `QuietMeansSettled` says what is so when nothing is queued
  or running any more, and the deadlock check that something can go on until then.

## 4. The proofs

`tlapm` checks all of it with Z3, Zenon and LS4.  The assumptions are those named
`...Assumption` in the modules: finite sets of recipients, workers and webhooks,
natural bounds, an address for every row.

- **SendOneProofs.** `TypeCorrect`: `Spec => []TypeOK`.
- **SendOneBounds.** `AtMostOnce` and `SuppressionHolds` for any number of
  recipients, workers, retries and faults.  `AcceptBound` alone is not inductive:
  nothing in it says why a second worker may not be at `postal`.  `SendBudgets`
  does: the workers inside `send_one` for a row are as many as its lock
  (one or none) and its overruns allow (`OneHolder`); while the row is pending,
  every acceptance is in the hands of a worker or lost (`PendingBudget`); and the
  acceptances together with the workers that cleared phase 1 stay within the
  bound (`SendBudget`, `LateBudget`).  One lemma per action, over the cardinalities
  of those sets of workers.
  `OvershootBounded`, in the same module: the counter together with the workers past the
  check is within the cap, the other workers and the blind checks; what was
  accepted is within the counter, the workers that still owe an INCR, and the lost
  ones (`PoolBudget`).
- **SendOneLedger.** `LedgerImplemented`: every step of `SendOne` is a step of
  `MailLedger` or a stutter.  The invariant adds two facts to the budgets.  `RowKept`:
  the row of a worker past phase 1 is pending or gone while no lock on it ended early,
  since by `OneHolder` nobody else is there to settle it; so `Settle`, which does not
  look at the status it overwrites, overwrites a pending one.  `Held`: the lost
  acceptances and the workers that deliver are within the acceptances, so SENT stands
  for one of its own.  `CountersMatch` needs the same: a counter is bumped with the
  status of a row that was pending, so it stays the cardinality of the rows with that
  status; and a deleted campaign has no rows that a resumed materialization could find.
- **CampaignLifecycleProofs.** `SpecTypeOK`, `SpecTotal`, `SpecCompleted`,
  `SpecCancelSticks` for any number of contacts, requests and workers.  `Course` says
  what each transaction read before it got where it is, so that a request's
  commit has passed the check of the status it read.  `TotalMatchesLedger` needs
  `Recounts`: while no two materializations overlapped, the one that is under way is
  alone, and what it will write is the number of rows there will be, or nothing when that
  is the number already; `GoneIsEmpty` starts it off.  `CompletedOrOverlapped` needs
  `SweepsInformed` (a sweep between its count and its commit is right unless a
  ledger was committed meanwhile) and `CompletedIsClosed` (a completed campaign that
  nothing overlapped has no materialization under way either: it would add rows).
  `CancelSticks` needs `Course` alone: a commit that is not one of `Revives` leaves
  "cancelled" or writes what its check allows from it.
- **ReconciliationProofs.** The inductive invariant `IInv` adds to the properties
  what a transaction knows at each of its statements: its shape, that what it holds
  open is a bounce that is not logged yet (`Course`), that a row it found had a
  token (`Found`), that the lock on a row has one holder, that a row without a
  token is untouched, that what is logged was handled, and that a contact
  which is deleted under a transaction about to write it has its address on the list
  (`GoneIsSuppressed`).  From it come
  `BouncesAreSuppressed`, `WebhooksAreKept`, `SuppressedAreInactive`,
  `CountersAgree` and `Implements`: every step is a step of `EventLog` or a
  stutter.

- **PlannerProofs.** The invariant is built in layers, each preserved given those
  before it.  `Types` adds what each transaction is about; `Twins` adds to
  `TwinsExplained` that a worker about to insert knows of every run that its look
  would find (`LooksFree`); `Held` says who has a row in hand; `Said`, that a mail is
  in the log, or about to be told to it, or lost (`Recorded`); `Mails`, that two runs
  that may both yet mail a contact are beside each other (`Side`) and that a run
  that may mail it is an interval from the last mail (`Spaced`).  `FrequencyHeld`
  needs all but `Twins`: the check of `materialize_campaign` reads the log, so it
  stands on `Recorded`, and it is made once, so what happens between it and the
  mail stands on `Side`.

- **RateLimiterProofs.** `GrantsBounded`, `RetryAfterHonoured`,
  `GivingUpIsProgress` for any number of workers and domains and any rates.  The
  invariant has a part for each of the three.  `Budget`: of the stretches that end now,
  the one that granted most beyond its refill either began before the bucket's stamp, so
  that what it granted, what the bucket holds and what it will refill came from a full
  bucket, its refill and one token, or began after it and has but the last EXEC's token.
  A hash outlives its last EXEC by two full refills, so its expiry gives nothing away.
  `Fresh`: while none of its keys is written, no key of a worker was stamped or written
  after the worker read the clock, and what it read is what the bucket would give then.
  This is what WATCH is for, and `Commit` does not preserve `Budget` without it: of two
  workers with old readings of the clock only one gets through.
  `TokenDue`: a bucket of a refused
  worker holds its token or will by the time told.  `SpoiltByOthers`: each lost
  transaction is a write by another, or an expiry.

- **ListsProofs.** Everything the run `lists` checks, for any files, addresses,
  workers, requests and batch sizes, in layers of which each is preserved given those
  before it.  One lemma per action (`...Effect`) says what it makes of the worker or
  request that takes it; the layers use only those.
  - `Typed` and `RowsLocked` (`RowsSafe`): a contact row is held by one transaction, and
    while it is held it stays in its list; only so is what a commit writes a row of
    the list at all (`TypeOK` has no contact of a deleted list).
  - `DeadOnly` (`OnlyDeadDomainsHolds`): an "invalid" that is cached, in hand or
    written is of a dead domain.
  - `SuppressedWithVerdict` (`InvalidIsSuppressedHolds`): a row held with an invalid
    verdict has its suppression in the same transaction, or is suppressed, or is about
    to be; after a lost race nothing is held.
  - `KnownInv` (`NothingDroppedHolds`): of the wanted addresses that an import has read
    (`ReadBy`), none is lost: each is known or in the batch, and what a look skipped
    is known.
  - `Settling` (`ReadyMeansCheckedHolds`, `QuietMeansSettledHolds`).  `OneImport`: a list
    has one import, queued or running or about to be, which has the file until it
    enqueues the verification.  `VerdictsDefinite`: what a verification is to write is no
    "pending".  `ContactsCovered` and `ListsCovered`: a contact without a verdict is
    before a verification (`Checks`), or one is due whoever dies (`VerificationDue`), or
    the contact is one of the exceptions; and likewise each list that waits.  `DueStep` is
    the heart of it: what is due stays due until a verification begins or the list
    is deleted.

`VerdictsDefinite` is there because the rows of a verification go only when their
verdict is equal to what is stored: were "pending" a verdict, a row could be passed
over.  The attempt at `ReadyMeansChecked` showed a state that the run is too small
for: the contacts of a list that is deleted are free again, an import of another list that
had skipped them and is delivered twice stores them, and its last steps fail; its list
is ready from the first delivery, with contacts that no verification looked at.  The
property has this exception now (`gaveUp`).

Model-checked only: the liveness property `CampaignFinishes`.
Liveness under fairness and `ENABLED` are beyond this prover, as are what a
recursive definition computes for every input and modules with RECURSIVE operators; the
modules use none.  Deadlock is left to TLC, too.

## 5. Where the code and its documents disagree

Each is a run whose property TLC violates, with the line it comes from in
`PROJECT.json`.

1. `NeverDoubleSends`: a worker that dies, or an answer that is lost, between
   Postal's acceptance and the commit of SENT sends the message again
   (ARCHITECTURE.md: "never double-sends").  `AcceptBound` is what does hold.
2. `CompletedIsDrained`: the sweep completes a campaign between its dispatch and the
   commit of its ledger; its rows stay pending for good.
3. `EventsRecorded`: a bounce that loses the race for its suppression is rolled
   back, row, log entry and counter, and the task reports success.
4. `OneRunPerDay`: a run is looked for by the date of `scheduled_at` in the
   application's timezone, and scheduled at a time of its campaign's own.  When the two
   dates differ the look never finds it, and each tick makes another run
   (tasks/planner.py: "at most one run per calendar day").  `TwinsExplained` has
   the other ways to a second run: two ticks at once, and a run moved by an operator.
5. `CancelIsTerminal`: a dispatch that selected the campaign before its cancellation
   commits SENDING over it, and the campaign is sent (OPERATIONS.md: "Cancel --
   terminal; the campaign will not send further").  So do a resume, a sweep and a
   finalizing phase 1 that read the status before, and a request that schedules a cancelled
   campaign: `schedule` looks at no status, only the page hides the form.
   `CancelSticks` is what does hold: nothing else brings it back.

The modelling showed more, which the properties name as their exceptions or which
the actions show:

- A worker that cleared phase 1 before a suppression sends after it (`LateBound`).
- Two materializations at once leave the counters of the later commit
  (`parallel`).
- An import that looked at the list before a suppression inserts the
  address as an active contact after it, and one that commits between the suppression's
  look for the contact and its commit is not marked (`overtaken`); `send_one`'s check
  still skips the address.
- A webhook whose task fails in the database is not tried again, though Postal
  got its 200, nor one whose contact is deleted before its UPDATE (`dropped`).
- A delivery and a bounce of one row, or two bounces that read the row before either
  committed, bump a counter each; `AppliedOnce` says that no event does so twice.
- A delivery reported before the message's token is committed is lost.
- A campaign paused before its time and resumed is sent at once, whatever its
  `scheduled_at`; a planner's run likewise.
- A run whose date is shifted onto the next day is taken for the next day's run,
  which is then not made.  A run that was deleted is made anew at the next tick.
- Deleting a recurring campaign while one of its runs is sending makes phase 4's
  commit fail on the foreign key after Postal accepted the message (`unlogged`);
  the row stays pending and its message goes out again.
- A resume counts the rows already sent or failed as skipped: `skipped_count` is the
  total less the pending rows (sending.py:199; OPERATIONS.md: "Counters continue from
  where they were").
- A full bucket and its refill are two minutes' worth of mail in one minute, and a
  worker that stalls between the clock and EXEC adds one message: the bucket is then
  stamped with the old reading.  `WindowBound` is what holds, twice the rate that
  rate_limit.py:3-8 speaks of, and one.
- A flush that fails in the loop of the import counts its contacts as imported though
  they are not, and again at the next flush (csv_import.py:136); the batch itself is
  kept.  The same failure in the last flush ends the task, without summary or
  verification, against the comment in csv_import.py:201 ("never fail whole upload on
  one row"): `gaveUp`.
- An upload request that dies before `import_csv.delay`, and a database that fails
  in the first transaction of `verify_list` or in its handler, leave a list pending or
  verifying for good (`gaveUp`).
- A lost race in `suppress_sync` drops the verdicts and suppressions of the contacts
  before it in the batch, which the list's summary counts all the same (`missed`).
- A verification deadlocks with a request that suppresses one of its contacts, or that
  deletes its list; PostgreSQL aborts either, and the list may be FAILED or the request
  lost.
- Two verifications of a list, after a second delivery, each mark it when they end: a
  FAILED of the earlier may follow the READY of the later, or the other way round.
- `remove_and_suppress` leaves the list's `contact_count` as it was.
- `last_sent_at` may go back to an earlier day, when two sends to a contact commit in
  the order opposite to the times they took (`Overwritten`).

## 6. What is not modelled

- Rendering, merging, MIME, templates, parsing of payloads and files: text.
- Signature checks, logins, API keys, settings, dashboards: single reads and writes
  with no interplay.
- The clock: scheduled times, TTLs and countdowns are steps that may happen.
- Several campaigns at once: they share the caps (covered by more recipients)
  and the contacts (each has its frequency log; the runs of one are in `Planner`).
- Of the planner: the hours of a day, the months (the model is in one), the lists
  and the content that a run copies, the warming of IPs and the status page.
- Deadlocks between webhooks and `verify_list`: both have the order that a request of
  the list pages has, and `Lists` has the deadlock with a request.
- Of the buckets: clocks of several hosts (the deployment has one), floating-point
  rounding, and a change of the rates under way.
- Of the lists: headers, the counters of the report, `contact_count`; the row locks of
  a cascade one by one (it takes all at once); a request that updates a row another
  request is deleting.
- The ramp of a warming IP (`services/warming.py`): a sum over a table, whose result is
  a constant of `SendOne`.

## 7. Plan

Done, in this order: `SendOne` and its proofs; `CampaignLifecycle`; `EventLog`,
`Reconciliation` and its proofs; `Planner` and its proofs; `RateLimiter` and its proofs;
`ContactStore`, `ListImport`, `ListVerification`, `Lists`; `MailLedger` and the proof
that `SendOne` implements it; the proofs about `CampaignLifecycle`, the counters of
`SendOne`, and `Lists`.  Next:

1. An abstract specification of a list's life (uploaded, verified, settled once per
   delivery) for `Lists` to implement, and its proof.
2. A second request beside the first in `Lists`, which the time of a run does not
   allow yet; only locks of two requests on each other are missing from it.
