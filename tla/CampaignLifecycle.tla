-------------------------- MODULE CampaignLifecycle --------------------------
(***************************************************************************)
(* The life of one campaign: the status column that web requests and       *)
(* Celery tasks read in one statement and write at their commit, and the   *)
(* ledger that materialize_campaign fills from a contact list which may    *)
(* change meanwhile.  Modelled here: app/services/campaigns.py behind the  *)
(* routes of app/web/campaigns.py, app/tasks/scheduler.py, and             *)
(* materialize_campaign of app/tasks/sending.py.  The send of one message  *)
(* is two steps, phase 1 and the commit of its result; SendOne has the     *)
(* steps between them.                                                     *)
(*                                                                         *)
(* Transactions run at READ COMMITTED: one statement is one step, and what *)
(* a transaction wrote is seen from its commit on.  SQLAlchemy's UPDATE    *)
(* names the columns whose value changed, WHERE id = ..., so a commit      *)
(* overwrites a status that changed since it was read, and a status set to *)
(* the value that was read is not written at all.                          *)
(***************************************************************************)
EXTENDS Integers, FiniteSets

CONSTANTS
    Contacts,   \* the contacts that are, or come to be, on its lists
    Requests,   \* web requests served at the same time
    Workers,    \* Celery worker processes
    Requested,  \* the operations the operator makes use of
    NoContact,  \* what a process not at a send works on
    MaxFaults,  \* bound: processes that die
    MaxTasks    \* bound: materialize_campaign tasks in the broker when an
                \* operator makes for one more

ASSUME LifecycleAssumption ==
    /\ IsFiniteSet(Contacts)
    /\ Requested \subseteq {"schedule", "pause", "resume", "cancel", "delete", "edit"}
    /\ NoContact \notin Contacts
    /\ Requests \cap Workers = {}
    /\ MaxFaults \in Nat
    /\ MaxTasks \in Nat

VARIABLES
    \* PostgreSQL
    cstatus,      \* campaigns.status
    due,          \* campaigns.scheduled_at <= now
    hasList,      \* campaign_list_ids_sync finds a list
    active,       \* the contacts of its lists whose status is active
    row,          \* campaign_recipients.status of each contact
    counts,       \* the counters of the campaign
    \* the broker
    materialize,  \* materialize_campaign tasks
    sends,        \* the contacts whose row has send_one tasks
    \* the processes
    txn,
    \* what the model records to state properties; no action reads them
    overlapped,   \* it completed while a materialization was going on
    parallel,     \* two materializations were going on at once
    faults        \* processes that died, at most MaxFaults

db      == <<cstatus, due, hasList, active, row, counts>>
broker  == <<materialize, sends>>
history == <<overlapped, parallel>>
vars    == <<db, broker, txn, history, faults>>

Processes == Requests \cup Workers

CampaignStatuses == {"draft", "scheduled", "sending", "paused", "completed",
                     "failed", "cancelled", "deleted"}

\* "done" is sent or failed; "skipped" is any of the skipped statuses.
RowStatuses == {"none", "pending", "done", "skipped"}

\* total_recipients, queued_count, sent_count + failed_count, skipped_count.
Counters == {"total", "queued", "done", "skipped"}

\* The ones materialize_campaign computes from the ledger.
Recounted == {"total", "queued", "skipped"}

Jobs == Requested \cup {"dispatch", "sweep", "materialize", "send", "skip"}

\* Where a process is: "commit" has read the campaign and is about to commit,
\* "publish" and "enqueue" have committed and are about to call delay().
Phases == {"count", "load", "contacts", "insert", "recounted", "commit",
           "publish", "enqueue"}

\* A counter that the commit of a transaction does not write.
Kept == -1

Txns == [job : Jobs \cup {"none"}, pc : Phases \cup {"idle"},
         seen : CampaignStatuses \cup {"none"}, to : CampaignStatuses \cup {"none"},
         c : Contacts \cup {NoContact}, new : SUBSET Contacts,
         skip : SUBSET Contacts,
         vals : [Recounted -> Nat \cup {Kept}],   \* what it read, then what it writes
         raced : BOOLEAN]

Idle == [job |-> "none", pc |-> "idle", seen |-> "none", to |-> "none",
         c |-> NoContact, new |-> {}, skip |-> {}, raced |-> FALSE,
         vals |-> [f \in Recounted |-> Kept]]

TypeOK ==
    /\ cstatus \in CampaignStatuses
    /\ due \in BOOLEAN
    /\ hasList \in BOOLEAN
    /\ active \subseteq Contacts
    /\ row \in [Contacts -> RowStatuses]
    /\ counts \in [Counters -> Nat]
    /\ materialize \in Nat
    /\ sends \subseteq Contacts
    /\ txn \in [Processes -> Txns]
    /\ \A p \in Processes : txn[p].skip \subseteq txn[p].new
    /\ overlapped \in BOOLEAN
    /\ parallel \in BOOLEAN
    /\ faults \in 0 .. MaxFaults

-----------------------------------------------------------------------------
(* Reading the state.                                                       *)

Pending == {c \in Contacts : row[c] = "pending"}

Ledger == {c \in Contacts : row[c] # "none"}

\* A materialization that passed its status check and has not committed.
Materializing ==
    \E w \in Workers : txn[w].pc \in {"contacts", "insert", "recounted"}

Begin(p, job, pc) ==
    txn' = [txn EXCEPT ![p] = [Idle EXCEPT !.job = job, !.pc = pc]]

\* A transaction that read the status and is going to write another.
BeginWrite(p, job, to) ==
    txn' = [txn EXCEPT ![p] = [Idle EXCEPT !.job = job, !.pc = "commit",
                                           !.seen = cstatus, !.to = to]]

Goto(p, pc) == txn' = [txn EXCEPT ![p].pc = pc]

End(p) == txn' = [txn EXCEPT ![p] = Idle]

\* What the history keeps of a commit that leaves the campaign in status s.
Records(s, raced) ==
    overlapped' = IF s = "completed" /\ cstatus # "completed"
                  THEN raced \/ Materializing
                  ELSE overlapped

-----------------------------------------------------------------------------
(* A campaign of the wizard starts as a draft; a run that the planner made   *)
(* starts as scheduled, and its recurring campaign may have lost its lists.  *)

Init ==
    /\ cstatus \in {"draft", "scheduled"}
    /\ due = FALSE
    /\ hasList \in BOOLEAN
    /\ cstatus = "draft" => hasList
    /\ active \in SUBSET Contacts
    /\ row = [c \in Contacts |-> "none"]
    /\ counts = [f \in Counters |-> 0]
    /\ materialize = 0
    /\ sends = {}
    /\ txn = [p \in Processes |-> Idle]
    /\ overlapped = FALSE
    /\ parallel = FALSE
    /\ faults = 0

-----------------------------------------------------------------------------
(* The operator's requests.  Each reads the campaign and looks at its        *)
(* status, and then commits.                                                 *)

\* Mutant of Allows: resume takes any campaign that is not sending.
AllowsResumeOfAny(op, s) ==
    CASE op = "schedule" -> s # "deleted"
      [] op = "pause"    -> s \in {"sending", "scheduled"}
      [] op = "resume"   -> s \notin {"sending", "deleted"}
      [] op = "cancel"   -> s \notin {"completed", "cancelled", "deleted"}
      [] op = "delete"   -> s \notin {"sending", "deleted"}
      [] op = "edit"     -> s \in {"draft", "scheduled"}

\* The status check of each operation of services/campaigns.py.
Allows(op, s) ==
    CASE op = "schedule" -> s # "deleted"
      [] op = "pause"    -> s \in {"sending", "scheduled"}
      [] op = "resume"   -> s = "paused"
      [] op = "cancel"   -> s \notin {"completed", "cancelled", "deleted"}
      [] op = "delete"   -> s \notin {"sending", "deleted"}
      [] op = "edit"     -> s \in {"draft", "scheduled"}

\* The status each of them sets.
Target(op, s) ==
    CASE op = "schedule" -> "scheduled"
      [] op = "pause"    -> "paused"
      [] op = "resume"   -> "sending"
      [] op = "cancel"   -> "cancelled"
      [] op = "delete"   -> "deleted"
      [] op = "edit"     -> s

Open(q, op) ==
    /\ txn[q] = Idle
    /\ Allows(op, cstatus)
    /\ op = "schedule" => hasList
    /\ op \in {"schedule", "resume"} => materialize < MaxTasks
    /\ BeginWrite(q, op, Target(op, cstatus))
    /\ UNCHANGED <<db, broker, history, faults>>

\* The status after the commit of p: only a changed value is written.
Written(p) == IF txn[p].to # txn[p].seen THEN txn[p].to ELSE cstatus

\* The request commits; a campaign that is gone makes it fail instead.
CommitRequest(q) ==
    LET op == txn[q].job IN
    /\ txn[q].pc = "commit"
    /\ cstatus # "deleted"
    /\ cstatus' = Written(q)
    /\ IF op = "schedule" THEN due' \in BOOLEAN ELSE UNCHANGED due
    /\ row' = IF op = "delete" THEN [c \in Contacts |-> "none"] ELSE row
    /\ IF op = "resume" THEN Goto(q, "publish") ELSE End(q)
    /\ Records(Written(q), FALSE)
    /\ UNCHANGED <<hasList, active, counts, broker, parallel, faults>>

\* resume's route and dispatch_due_campaigns, after their commit.
Publish(p) ==
    /\ txn[p].pc = "publish"
    /\ materialize' = materialize + 1
    /\ End(p)
    /\ UNCHANGED <<db, sends, history, faults>>

\* The UPDATE finds no row: the transaction is rolled back.
CommitFails(p) ==
    /\ txn[p].pc \in {"commit", "insert", "recounted"}
    /\ cstatus = "deleted"
    /\ End(p)
    /\ UNCHANGED <<db, broker, history, faults>>

-----------------------------------------------------------------------------
(* Celery Beat's tasks.                                                      *)

\* dispatch_due_campaigns selects the campaign.
Dispatch(w) ==
    /\ txn[w] = Idle
    /\ cstatus = "scheduled" /\ due
    /\ BeginWrite(w, "dispatch", "sending")
    /\ UNCHANGED <<db, broker, history, faults>>

\* finalize_and_repump selects the campaign.
SweepSelect(w) ==
    /\ txn[w] = Idle
    /\ cstatus = "sending"
    /\ Begin(w, "sweep", "count")
    /\ UNCHANGED <<db, broker, history, faults>>

\* Mutant of SweepCount: the rows are not looked at.
SweepCountsNothing(w) ==
    /\ txn[w].pc = "count"
    /\ Goto(w, "load")
    /\ UNCHANGED <<db, broker, history, faults>>

\* It counts the pending rows and finds none.
SweepCount(w) ==
    /\ txn[w].pc = "count"
    /\ Pending = {}
    /\ Goto(w, "load")
    /\ UNCHANGED <<db, broker, history, faults>>

\* It finds some, and none of them moved for 15 minutes.
SweepStalled(w) ==
    /\ txn[w].pc = "count"
    /\ Pending # {}
    /\ Goto(w, "enqueue")
    /\ UNCHANGED <<db, broker, history, faults>>

\* It finds some that moved, or the campaign was re-pumped already.
SweepLeaves(w) ==
    /\ txn[w].pc = "count"
    /\ Pending # {}
    /\ End(w)
    /\ UNCHANGED <<db, broker, history, faults>>

\* It loads the campaign and looks at the status again.
SweepLoad(w) ==
    /\ txn[w].pc = "load"
    /\ IF cstatus = "sending"
       THEN txn' = [txn EXCEPT ![w].pc = "commit", ![w].seen = cstatus,
                               ![w].to = "completed"]
       ELSE End(w)
    /\ UNCHANGED <<db, broker, history, faults>>

\* The commit of a task that writes the status.
CommitTask(w) ==
    /\ txn[w].pc = "commit"
    /\ txn[w].job \in {"dispatch", "sweep", "materialize"}
    /\ cstatus # "deleted"
    /\ cstatus' = Written(w)
    /\ IF txn[w].job = "dispatch" THEN Goto(w, "publish") ELSE End(w)
    /\ Records(Written(w), txn[w].raced)
    /\ UNCHANGED <<due, hasList, active, row, counts, broker, parallel, faults>>

-----------------------------------------------------------------------------
(* materialize_campaign.                                                     *)

\* The campaign is loaded with its counters, and its status is looked at; a
\* campaign without a list fails.
MaterializeStart(w) ==
    /\ txn[w] = Idle
    /\ materialize > 0
    /\ materialize' = materialize - 1
    /\ \/ cstatus # "sending" /\ UNCHANGED <<txn, parallel>>
       \/ /\ cstatus = "sending" /\ ~hasList
          /\ BeginWrite(w, "materialize", "failed")
          /\ UNCHANGED parallel
       \/ /\ cstatus = "sending" /\ hasList
          /\ parallel' = (parallel \/ Materializing)
          /\ txn' = [txn EXCEPT ![w] =
                        [Idle EXCEPT !.job = "materialize", !.pc = "contacts",
                                     !.new = Ledger,
                                     !.vals = [f \in Recounted |-> counts[f]]]]
    /\ UNCHANGED <<db, sends, overlapped, faults>>

\* The active contacts that had no row when the rows were read.
ReadContacts(w) ==
    /\ txn[w].pc = "contacts"
    /\ txn' = [txn EXCEPT ![w].pc = "insert", ![w].new = active \ @]
    /\ UNCHANGED <<db, broker, history, faults>>

\* Mutant of InsertRows: the ledger is counted before the flush of the rows.
InsertRowsUnflushed(w) ==
    /\ txn[w].pc = "insert"
    /\ cstatus # "deleted"
    /\ txn[w].new \cap Ledger = {}
    /\ \E skip \in SUBSET txn[w].new :
          txn' = [txn EXCEPT
                     ![w].pc = "recounted", ![w].skip = skip,
                     ![w].vals = [total   |-> Cardinality(Ledger),
                                  queued  |-> Cardinality(Pending),
                                  skipped |-> Cardinality(Ledger \ Pending)]]
    /\ UNCHANGED <<db, broker, history, faults>>

\* Each of them is classified: on the suppression list or sent within the
\* frequency interval, or pending.  The rows are inserted, where an INSERT
\* waits for another transaction that inserted the same contact, and the
\* ledger is counted with the rows of this transaction in it.
InsertRows(w) ==
    LET new == txn[w].new IN
    /\ txn[w].pc = "insert"
    /\ cstatus # "deleted"
    /\ new \cap Ledger = {}
    /\ \A v \in Workers :
          txn[v].pc = "recounted" => new \cap txn[v].new = {}
    /\ \E skip \in SUBSET new :
          LET total   == Cardinality(Ledger \cup new)
              queued  == Cardinality(Pending \cup (new \ skip))
              now     == [total |-> total, queued |-> queued,
                          skipped |-> total - queued]
          IN txn' = [txn EXCEPT
                        ![w].pc = "recounted", ![w].skip = skip,
                        ![w].vals = [f \in Recounted |->
                                        IF now[f] = @[f] THEN Kept ELSE now[f]]]
    /\ UNCHANGED <<db, broker, history, faults>>

\* The unique constraint on (campaign_id, contact_id): the task fails.
InsertConflict(w) ==
    /\ txn[w].pc = "insert"
    /\ txn[w].new \cap Ledger # {}
    /\ End(w)
    /\ UNCHANGED <<db, broker, history, faults>>

\* The commit of the rows and of the counters that changed.  Every sweep that
\* has counted the pending rows is out of date from here on.
CommitLedger(w) ==
    LET t == txn[w] IN
    /\ t.pc = "recounted"
    /\ cstatus # "deleted"
    /\ row' = [c \in Contacts |-> IF c \in t.skip THEN "skipped"
                                  ELSE IF c \in t.new THEN "pending" ELSE row[c]]
    /\ counts' = [f \in Counters |->
                     IF f \in Recounted /\ t.vals[f] # Kept
                     THEN t.vals[f] ELSE counts[f]]
    /\ txn' = [p \in Processes |->
                  IF p = w THEN [Idle EXCEPT !.job = t.job, !.pc = "enqueue"]
                  ELSE IF txn[p].job = "sweep" /\ txn[p].pc \in {"load", "commit"}
                       THEN [txn[p] EXCEPT !.raced = TRUE]
                       ELSE txn[p]]
    /\ UNCHANGED <<cstatus, due, hasList, active, broker, history, faults>>

\* enqueue_pending_for_campaign, in a transaction of its own.
Enqueue(w) ==
    /\ txn[w].pc = "enqueue"
    /\ sends' = sends \cup Pending
    /\ End(w)
    /\ UNCHANGED <<db, materialize, history, faults>>

-----------------------------------------------------------------------------
(* send_one, seen from the campaign.                                         *)

\* Phase 1.  The task is dropped when another worker holds the lock, when the
\* row is not pending, or when the campaign is not sending; a suppressed
\* address or a missing template settles the row in the same transaction.
SendStart(w, c) ==
    /\ txn[w] = Idle
    /\ c \in sends
    /\ sends' = sends \ {c}
    /\ IF row[c] = "pending" /\ cstatus = "sending" /\ \A v \in Workers : txn[v].c # c
       THEN \E job \in {"send", "skip"} :
               txn' = [txn EXCEPT ![w] = [Idle EXCEPT !.job = job, !.pc = "commit",
                                                      !.seen = cstatus, !.c = c]]
       ELSE UNCHANGED txn
    /\ UNCHANGED <<db, materialize, history, faults>>

\* Mutant of SendLater: every try takes one off queued_count.
SendLaterFromQueue(w) ==
    /\ txn[w].job = "send"
    /\ sends' \in {sends, sends \cup {txn[w].c}}
    /\ counts' = [counts EXCEPT !.queued = @ - 1]
    /\ End(w)
    /\ UNCHANGED <<cstatus, due, hasList, active, row, materialize, history, faults>>

\* A token bucket or a cap holds the message back, or Postal asks for another
\* try: the task is in the broker again, unless it was the last try.
SendLater(w) ==
    /\ txn[w].job = "send"
    /\ sends' \in {sends, sends \cup {txn[w].c}}
    /\ End(w)
    /\ UNCHANGED <<db, materialize, history, faults>>

\* _maybe_finalize at the commit of c, under the campaign row's lock.  Phase 1
\* has the campaign in its identity map and goes by the status it read.
Finalized(w) ==
    LET status == IF txn[w].job = "skip" THEN txn[w].seen ELSE cstatus IN
    IF Pending \ {txn[w].c} = {} /\ status = "sending" THEN "completed" ELSE cstatus

\* The commit of the row's status.
Settle(w, status) ==
    /\ row' = [row EXCEPT ![txn[w].c] = status]
    /\ counts' = [counts EXCEPT ![status] = @ + 1]
    /\ cstatus' = Finalized(w)
    /\ Records(Finalized(w), FALSE)
    /\ UNCHANGED parallel

SendCommit(w) ==
    /\ txn[w].job \in {"send", "skip"}
    /\ \/ /\ row[txn[w].c] = "pending"
          /\ \E status \in {"done", "skipped"} : Settle(w, status)
       \/ row[txn[w].c] # "pending" /\ UNCHANGED <<cstatus, row, counts, history>>
    /\ End(w)
    /\ UNCHANGED <<due, hasList, active, broker, faults>>

-----------------------------------------------------------------------------
(* Deaths of processes, and what changes around the campaign.                *)

\* A worker dies and the broker delivers its task again; what Beat sent it
\* sends again anyway.
WorkerDies(w) ==
    /\ faults < MaxFaults
    /\ txn[w] # Idle
    /\ materialize' = IF txn[w].job = "materialize" THEN materialize + 1 ELSE materialize
    /\ sends' = IF txn[w].job \in {"send", "skip"} THEN sends \cup {txn[w].c} ELSE sends
    /\ End(w)
    /\ faults' = faults + 1
    /\ UNCHANGED <<db, history>>

\* The web process dies under a request.
RequestDies(q) ==
    /\ faults < MaxFaults
    /\ txn[q] # Idle
    /\ End(q)
    /\ faults' = faults + 1
    /\ UNCHANGED <<db, broker, history>>

TimePasses ==
    /\ cstatus # "draft"
    /\ ~due
    /\ due' = TRUE
    /\ UNCHANGED <<cstatus, hasList, active, row, counts, broker, txn, history, faults>>

\* An import puts a contact on a list of the campaign.
ContactJoins(c) ==
    /\ c \notin active
    /\ active' = active \cup {c}
    /\ UNCHANGED <<cstatus, due, hasList, row, counts, broker, txn, history, faults>>

\* A bounce, an unsubscribe or a deletion: the contact is active no more.
ContactLeaves(c) ==
    /\ c \in active
    /\ active' = active \ {c}
    /\ UNCHANGED <<cstatus, due, hasList, row, counts, broker, txn, history, faults>>

-----------------------------------------------------------------------------

Serve(q) ==
    \/ \E op \in Requested : Open(q, op)
    \/ CommitRequest(q) \/ Publish(q) \/ CommitFails(q)
    \/ RequestDies(q)

Sweep(w) ==
    \/ SweepSelect(w) \/ SweepCount(w) \/ SweepStalled(w) \/ SweepLeaves(w)
    \/ SweepLoad(w)

MaterializeStep(w) ==
    \/ ReadContacts(w) \/ InsertRows(w) \/ InsertConflict(w) \/ CommitLedger(w)

Work(w) ==
    \/ Dispatch(w)
    \/ Sweep(w)
    \/ CommitTask(w) \/ Publish(w) \/ CommitFails(w)
    \/ MaterializeStart(w) \/ MaterializeStep(w) \/ Enqueue(w)
    \/ \E c \in Contacts : SendStart(w, c)
    \/ SendLater(w) \/ SendCommit(w)
    \/ WorkerDies(w)

Next ==
    \/ \E q \in Requests : Serve(q)
    \/ \E w \in Workers : Work(w)
    \/ TimePasses
    \/ \E c \in Contacts : ContactJoins(c) \/ ContactLeaves(c)

Spec == Init /\ [][Next]_vars

-----------------------------------------------------------------------------
(* Safety.                                                                  *)

\* After every commit total_recipients is the number of rows in the ledger,
\* however often materialization died, failed, was repeated or met a changed
\* list, unless two materializations were under way at once.
TotalMatchesLedger ==
    cstatus # "deleted" => (counts.total = Cardinality(Ledger) \/ parallel)

\* A campaign that completed has no pending row, unless a materialization was
\* under way between the count that found none and the commit of COMPLETED:
\* the sweep's second look at the status and the finalizing transaction's row
\* lock cover every other order.
CompletedOrOverlapped ==
    cstatus = "completed" => (Pending = {} \/ overlapped)

\* The commits that can take a campaign out of CANCELLED: that of a request
\* that schedules it, which looks at no status, and that of a process which
\* goes by a status read before the cancellation.  A send does so in phase 1
\* only: its last transaction reads the status under the campaign's lock.
Revives(p) ==
    /\ txn[p].pc = "commit"
    /\ \/ txn[p].job = "schedule"
       \/ txn[p].job # "send" /\ txn[p].seen # "cancelled"
    /\ txn[p].to # txn[p].seen

\* A cancelled campaign leaves CANCELLED, other than by being deleted, only
\* with the commit of the very process that revives it: no sweep, resume, send
\* or dispatch that comes later does.  Cancelling is not terminal for all that:
\* see CancelIsTerminal.
CancelSticks ==
    [][(cstatus = "cancelled" /\ cstatus' \notin {"cancelled", "deleted"}) =>
           \E p \in Processes : Revives(p) /\ txn'[p] # txn[p]]_vars

-----------------------------------------------------------------------------
(* Claims of the repository that the code does not keep in every behaviour.  *)

\* sending.py: "Mark a campaign completed once no recipients remain PENDING."
CompletedIsDrained == cstatus = "completed" => Pending = {}

\* OPERATIONS.md: "Cancel -- terminal; the campaign will not send further.
\* Pending recipients simply never send."
CancelIsTerminal ==
    [][cstatus = "cancelled" => cstatus' \in {"cancelled", "deleted"}]_vars

=============================================================================
