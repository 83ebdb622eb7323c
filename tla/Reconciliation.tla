---------------------------- MODULE Reconciliation ----------------------------
(***************************************************************************)
(* Postal's webhooks and the suppression list: app/tasks/webhooks.py over  *)
(* app/services/bounce.py and app/services/suppression.py, beside the web  *)
(* requests that suppress an address and the workers that send.            *)
(*                                                                         *)
(* A task or a request is one transaction at READ COMMITTED.  Its          *)
(* statements are its steps, and what it wrote shows at its commit; a      *)
(* write that waits for another transaction's row or unique key waits as a *)
(* guard.  Statements that only take more locks, in the order row, event,  *)
(* campaign, are one step with the first of them.                          *)
(***************************************************************************)
EXTENDS Integers, FiniteSets

CONSTANTS
    Rows,        \* recipient rows, each in a campaign of its own
    Addresses,   \* normalized e-mail addresses
    AddressOf,   \* email_snapshot of each row
    Messages,    \* what Postal accepts, one token each
    RowOf,       \* the row a message was sent for
    Webhooks,    \* the events Postal reports, one uuid each
    MessageOf,   \* the message a webhook is about
    EventType,   \* its event
    EventStatus, \* its payload's status
    Workers,     \* Celery worker processes
    Requests,    \* web requests that suppress an address, each made once
    None,        \* no message, no webhook, no address
    MaxFaults    \* bound: deaths, failed statements, repeated deliveries

EventTypes == {"MessageSent", "MessageDelivered", "MessageDeliveryFailed",
               "MessageBounced", "MessageHeld", "MessageSpamReport",
               "MessageComplaint", "Unknown"}

EventStatuses == {"permanent", "other"}

ASSUME ReconciliationAssumption ==
    /\ IsFiniteSet(Webhooks)
    /\ AddressOf \in [Rows -> Addresses]
    /\ RowOf \in [Messages -> Rows]
    /\ MessageOf \in [Webhooks -> Messages]
    /\ EventType \in [Webhooks -> EventTypes]
    /\ EventStatus \in [Webhooks -> EventStatuses]
    /\ Workers \cap Requests = {}
    /\ None \notin Messages \cup Webhooks \cup Addresses
    /\ MaxFaults \in Nat

VARIABLES
    \* PostgreSQL
    status,      \* campaign_recipients.status
    token,       \* campaign_recipients.postal_message_id
    logged,      \* email_events.provider_event_id
    delivered,   \* what each row added to its campaign's delivered_count
    bounced,     \* and to its bounced_count
    suppressed,  \* suppressions.email
    contact,     \* contacts.status of each address, "none" without a contact
    id,          \* contacts.id of the contact of each address, or of the next
    joining,     \* addresses an import, or add_contact, is about to insert
    \* Postal and the broker
    accepted,    \* the messages Postal took
    inHand,      \* the one of them a worker is about to record, by row
    reported,    \* the webhooks Postal sent
    queue,       \* copies of each process_webhook task
    \* the processes
    txn,
    \* what the model records to state properties; no action reads them
    handled,     \* the webhooks of which a task came to its end
    dropped,     \* the ones of which a task failed
    overtaken,   \* addresses suppressed while their contact was joining
    faults       \* faults so far, at most MaxFaults

rows    == <<status, token, delivered, bounced>>
list    == <<suppressed, contact, id, joining>>
postal  == <<accepted, inHand, reported>>
history == <<handled, dropped, overtaken>>
vars    == <<rows, list, logged, postal, queue, txn, history, faults>>

Processes == Workers \cup Requests

RowStatuses == {"pending", "sent", "delivered", "bounced"}

ContactStatuses == {"none", "active", "bounced", "complained", "unsubscribed"}

\* Where a transaction is, and what it did: "open" has written the event and
\* the row, "added" has inserted the address, and "row" is the id of the
\* contact it writes, 0 for none.
Phases == {"match", "deliver", "log", "flush", "look", "insert", "find", "finish"}

Start(pc, e, a, mark) ==
    [pc |-> pc, e |-> e, a |-> a, mark |-> mark,
     seen |-> "none", open |-> FALSE, added |-> FALSE, row |-> 0]

Idle == Start("idle", None, None, "none")

Turn(t, pc, seen, open, added) ==
    [pc |-> pc, e |-> t.e, a |-> t.a, mark |-> t.mark,
     seen |-> seen, open |-> open, added |-> added, row |-> t.row]

\* A request is served once.
Served == Start("served", None, None, "none")

Txns == [pc    : Phases \cup {"idle", "served"},
         e     : Webhooks \cup {None},
         a     : Addresses \cup {None},
         mark  : ContactStatuses,
         seen  : RowStatuses \cup {"none"},
         open  : BOOLEAN,
         added : BOOLEAN,
         row   : Nat]

TypeOK ==
    /\ status \in [Rows -> RowStatuses]
    /\ token \in [Rows -> Messages \cup {None}]
    /\ logged \subseteq Webhooks
    /\ delivered \in [Rows -> Nat]
    /\ bounced \in [Rows -> Nat]
    /\ suppressed \subseteq Addresses
    /\ contact \in [Addresses -> ContactStatuses]
    /\ id \in [Addresses -> Nat \ {0}]
    /\ joining \subseteq Addresses
    /\ accepted \subseteq Messages
    /\ inHand \in [Rows -> Messages \cup {None}]
    /\ reported \subseteq Webhooks
    /\ queue \in [Webhooks -> Nat]
    /\ txn \in [Processes -> Txns]
    /\ handled \subseteq Webhooks
    /\ dropped \subseteq Webhooks
    /\ overtaken \subseteq Addresses
    /\ faults \in Nat

-----------------------------------------------------------------------------
(* What an event says.                                                      *)

Row(e) == RowOf[MessageOf[e]]

Address(e) == AddressOf[Row(e)]

IsDelivery(e) == EventType[e] \in {"MessageSent", "MessageDelivered"}

IsFailure(e) ==
    EventType[e] \in {"MessageDeliveryFailed", "MessageBounced", "MessageHeld"}

IsComplaint(e) == EventType[e] \in {"MessageSpamReport", "MessageComplaint"}

IsDeferral(e) ==
    /\ IsFailure(e) /\ ~IsComplaint(e)
    /\ EventType[e] # "MessageBounced"
    /\ EventStatus[e] # "permanent"

\* Mutant of ClassifyBounce: a hard failure does not count as a bounce.
ClassifyBouncedOnly(e) == IsComplaint(e) \/ EventType[e] = "MessageBounced"

ClassifyBounce(e) ==
    \/ IsComplaint(e)
    \/ EventType[e] = "MessageBounced"
    \/ EventStatus[e] = "permanent"

\* A failure or a complaint that is no deferral.
IsBounce(e) == (IsFailure(e) \/ IsComplaint(e)) /\ ~IsDeferral(e)

ContactStatus(e) == IF IsComplaint(e) THEN "complained" ELSE "bounced"

-----------------------------------------------------------------------------
(* Reading the state.                                                       *)

\* Nobody's transaction has written the row of e, or e itself.
Unlocked(e) == \A v \in Workers : txn[v].open => Row(txn[v].e) # Row(e)

\* Nobody's transaction has inserted the address.
NobodyAdds(a) == \A p \in Processes : txn[p].added => txn[p].a # a

Goto(p, pc) == txn' = [txn EXCEPT ![p].pc = pc]

End(p) == txn' = [txn EXCEPT ![p] = IF p \in Requests THEN Served ELSE Idle]

\* The task of w ends, with its event handled.
Return(w) ==
    /\ End(w)
    /\ handled' = handled \cup {txn[w].e}

\* The unique key of provider_event_id: rolled back, the task fails, and the
\* broker has it acknowledged.
Conflict(w) ==
    /\ txn[w].e \in logged
    /\ End(w)
    /\ UNCHANGED <<rows, list, logged, postal, queue, history, faults>>

Init ==
    /\ status = [r \in Rows |-> "pending"]
    /\ token = [r \in Rows |-> None]
    /\ logged = {}
    /\ delivered = [r \in Rows |-> 0]
    /\ bounced = [r \in Rows |-> 0]
    /\ suppressed = {}
    /\ contact = [a \in Addresses |-> "none"]
    /\ id = [a \in Addresses |-> 1]
    /\ joining = {}
    /\ accepted = {}
    /\ inHand = [r \in Rows |-> None]
    /\ reported = {}
    /\ queue = [e \in Webhooks |-> 0]
    /\ txn = [p \in Processes |-> Idle]
    /\ handled = {}
    /\ dropped = {}
    /\ overtaken = {}
    /\ faults = 0

-----------------------------------------------------------------------------
(* Sending.  SendOne has the steps between these.                           *)

\* Postal takes a message; phase 1 may have been long before.
Accept(m) ==
    LET r == RowOf[m] IN
    /\ m \notin accepted
    /\ status[r] = "pending" /\ inHand[r] = None
    /\ accepted' = accepted \cup {m}
    /\ inHand' = [inHand EXCEPT ![r] = m]
    /\ UNCHANGED <<rows, list, logged, reported, queue, txn, history, faults>>

\* The commit of SENT and of the message's token.
Record(r) ==
    /\ inHand[r] # None
    /\ status' = [status EXCEPT ![r] = "sent"]
    /\ token' = [token EXCEPT ![r] = inHand[r]]
    /\ inHand' = [inHand EXCEPT ![r] = None]
    /\ UNCHANGED <<delivered, bounced, list, logged, accepted, reported, queue,
                   txn, history, faults>>

\* The worker dies, or never gets Postal's answer; the row will be tried again.
Forget(r) ==
    /\ faults < MaxFaults
    /\ inHand[r] # None
    /\ inHand' = [inHand EXCEPT ![r] = None]
    /\ faults' = faults + 1
    /\ UNCHANGED <<rows, list, logged, accepted, reported, queue, txn, history>>

-----------------------------------------------------------------------------
(* Webhooks.                                                                *)

\* Postal calls the endpoint, which hands the payload to a task.  Nothing
\* orders the webhooks of a message, or holds them until it is recorded.
Report(e) ==
    /\ e \notin reported
    /\ MessageOf[e] \in accepted
    /\ reported' = reported \cup {e}
    /\ queue' = [queue EXCEPT ![e] = @ + 1]
    /\ UNCHANGED <<rows, list, logged, accepted, inHand, txn, history, faults>>

\* Postal calls again, or the broker delivers again.
Redeliver(e) ==
    /\ faults < MaxFaults
    /\ e \in reported
    /\ queue' = [queue EXCEPT ![e] = @ + 1]
    /\ faults' = faults + 1
    /\ UNCHANGED <<rows, list, logged, postal, txn, history>>

\* process_webhook: the event is in the log already, or the work goes on.
Take(w, e) ==
    /\ txn[w] = Idle
    /\ queue[e] > 0
    /\ queue' = [queue EXCEPT ![e] = @ - 1]
    /\ \/ e \in logged
          /\ handled' = handled \cup {e}
          /\ UNCHANGED txn
       \/ e \notin logged
          /\ txn' = [txn EXCEPT ![w] =
                        Start("match", e, Address(e), ContactStatus(e))]
          /\ UNCHANGED handled
    /\ UNCHANGED <<rows, list, logged, postal, dropped, overtaken, faults>>

\* No row has the message's token: a bounce suppresses its address all the
\* same, and the event is not logged.
Unmatched(w) ==
    LET e == txn[w].e IN
    /\ txn[w].pc = "match"
    /\ token[Row(e)] # MessageOf[e]
    /\ \/ /\ (IsFailure(e) \/ IsComplaint(e)) /\ ClassifyBounce(e)
          /\ Goto(w, "look")
          /\ UNCHANGED handled
       \/ /\ ~((IsFailure(e) \/ IsComplaint(e)) /\ ClassifyBounce(e))
          /\ Return(w)
    /\ UNCHANGED <<rows, list, logged, postal, queue, dropped, overtaken, faults>>

\* The row with the token, and its status as the rest of the task sees it.
Match(w) ==
    LET e == txn[w].e
        r == Row(e)
        next == IF IsDelivery(e) /\ status[r] # "delivered" THEN "deliver"
                ELSE IF IsBounce(e) THEN "flush"
                ELSE "log"
    IN
    /\ txn[w].pc = "match"
    /\ token[r] = MessageOf[e]
    /\ txn' = [txn EXCEPT ![w] = Turn(@, next, status[r], FALSE, FALSE)]
    /\ UNCHANGED <<rows, list, logged, postal, queue, history, faults>>

\* Mutant of Deliver: no unique key on provider_event_id.
DeliverWithoutKey(w) ==
    LET e == txn[w].e IN
    /\ txn[w].pc = "deliver"
    /\ Unlocked(e)
    /\ logged' = logged \cup {e}
    /\ status' = [status EXCEPT ![Row(e)] = "delivered"]
    /\ delivered' = [delivered EXCEPT ![Row(e)] = @ + 1]
    /\ Return(w)
    /\ UNCHANGED <<token, bounced, list, postal, queue, dropped, overtaken, faults>>

\* A delivery of a row that was not DELIVERED when it was read.
Deliver(w) ==
    LET e == txn[w].e IN
    /\ txn[w].pc = "deliver"
    /\ Unlocked(e)
    /\ \/ Conflict(w)
       \/ /\ e \notin logged
          /\ logged' = logged \cup {e}
          /\ status' = [status EXCEPT ![Row(e)] = "delivered"]
          /\ delivered' = [delivered EXCEPT ![Row(e)] = @ + 1]
          /\ Return(w)
          /\ UNCHANGED <<token, bounced, list, postal, queue, dropped, overtaken, faults>>

\* A delivery of a row that was, a deferral, or another event.
Log(w) ==
    LET e == txn[w].e IN
    /\ txn[w].pc = "log"
    /\ Unlocked(e)
    /\ \/ Conflict(w)
       \/ /\ e \notin logged
          /\ logged' = logged \cup {e}
          /\ Return(w)
          /\ UNCHANGED <<rows, list, postal, queue, dropped, overtaken, faults>>

\* A bounce: the event, BOUNCED and the counter are written, not committed.
\* classify_bounce then says yes of every failure that is no deferral.
Flush(w) ==
    LET e == txn[w].e IN
    /\ txn[w].pc = "flush"
    /\ Unlocked(e)
    /\ \/ Conflict(w)
       \/ /\ e \notin logged
          /\ txn' = [txn EXCEPT ![w] = Turn(@, "look", @.seen, TRUE, FALSE)]
          /\ UNCHANGED <<rows, list, logged, postal, queue, history, faults>>

-----------------------------------------------------------------------------
(* suppress_sync and suppress_async, and the end of their transaction.      *)

\* A web request unsubscribes an address, or removes it with its contact.
Ask(q, a, mark) ==
    /\ txn[q] = Idle
    /\ txn' = [txn EXCEPT ![q] = Start("look", None, a, mark)]
    /\ UNCHANGED <<rows, list, logged, postal, queue, history, faults>>

\* Is the address on the list?
LookUp(p) ==
    /\ txn[p].pc = "look"
    /\ Goto(p, IF txn[p].a \in suppressed THEN "find" ELSE "insert")
    /\ UNCHANGED <<rows, list, logged, postal, queue, history, faults>>

\* Insert it.  A transaction that finds it there now is rolled back, with all
\* it wrote before, and goes on to the contact.
Insert(p) ==
    LET lost == txn[p].a \in suppressed IN
    /\ txn[p].pc = "insert"
    /\ NobodyAdds(txn[p].a)
    /\ txn' = [txn EXCEPT ![p] = Turn(@, "find", @.seen, @.open /\ ~lost, ~lost)]
    /\ UNCHANGED <<rows, list, logged, postal, queue, history, faults>>

\* The SELECT of the contact, or a removal's DELETE.  A contact that has the
\* status already is not written.
Find(p) ==
    LET a == txn[p].a IN
    /\ txn[p].pc = "find"
    /\ txn' = [txn EXCEPT ![p].pc = "finish",
                          ![p].row = IF contact[a] \in {"none", txn[p].mark}
                                     THEN 0 ELSE id[a]]
    /\ UNCHANGED <<rows, list, logged, postal, queue, history, faults>>

\* Mutant of CommitRow: the row is compared after it was set to BOUNCED.
CommitRowUncounted(p) ==
    /\ logged' = logged \cup {txn[p].e}
    /\ status' = [status EXCEPT ![Row(txn[p].e)] = "bounced"]
    /\ UNCHANGED bounced

\* Mutant of CommitRow: the row gets the contact's status.
CommitRowAsContact(p) ==
    /\ logged' = logged \cup {txn[p].e}
    /\ status' = [status EXCEPT ![Row(txn[p].e)] = txn[p].mark]
    /\ bounced' = [bounced EXCEPT ![Row(txn[p].e)] = @ + 1]

\* The event, the status and the counter of a transaction that still has them.
\* A status that was BOUNCED when it was read is not written and not counted.
CommitRow(p) ==
    LET r   == Row(txn[p].e)
        was == txn[p].seen = "bounced"
    IN
    /\ logged' = logged \cup {txn[p].e}
    /\ status' = [status EXCEPT ![r] = IF was THEN @ ELSE "bounced"]
    /\ bounced' = [bounced EXCEPT ![r] = IF was THEN @ ELSE @ + 1]

\* Mutant of Marked: the contact is left alone.
MarkedNever(a, mark) == contact

\* The contact of the address is marked; without a status it is deleted.
Marked(a, mark) == [contact EXCEPT ![a] = mark]

\* The contact that was found is written, one that joined since is not, and all
\* of it is committed.  A removal may find that another one has deleted it.
Finish(p) ==
    LET t     == txn[p]
        found == t.row = id[t.a]
    IN
    /\ t.pc = "finish"
    /\ t.row \in {0, id[t.a]} \/ t.mark = "none"
    /\ IF t.open THEN CommitRow(p) ELSE UNCHANGED <<logged, status, bounced>>
    /\ suppressed' = IF t.added THEN suppressed \cup {t.a} ELSE suppressed
    /\ contact' = IF found THEN Marked(t.a, t.mark) ELSE contact
    /\ id' = IF found /\ t.mark = "none" THEN [id EXCEPT ![t.a] = @ + 1] ELSE id
    /\ overtaken' = IF t.row = 0 /\ contact[t.a] = "active"
                    THEN overtaken \cup {t.a} ELSE overtaken
    /\ End(p)
    /\ handled' = IF p \in Workers THEN handled \cup {t.e} ELSE handled
    /\ UNCHANGED <<token, delivered, joining, postal, queue, dropped, faults>>

\* The contact it found was deleted since, and the UPDATE of it matches no row:
\* StaleDataError, rolled back, and a task is acknowledged.
Gone(p) ==
    /\ txn[p].pc = "finish"
    /\ txn[p].row \notin {0, id[txn[p].a]}
    /\ End(p)
    /\ dropped' = IF p \in Workers THEN dropped \cup {txn[p].e} ELSE dropped
    /\ UNCHANGED <<rows, list, logged, postal, queue, handled, overtaken, faults>>

-----------------------------------------------------------------------------
(* Contacts that join a list, from a file or by hand.                       *)

\* The look at the suppression list.  That at the contacts is a statement of
\* its own, an import's before it and add_contact's after it.
JoinLook(a) ==
    /\ a \notin suppressed \cup joining
    /\ joining' = joining \cup {a}
    /\ UNCHANGED <<rows, suppressed, contact, id, logged, postal, queue, txn, history, faults>>

\* The contact is committed; where the address has one by now, the look or the
\* unique key of its e-mail leaves that one alone.
Join(a) ==
    /\ a \in joining
    /\ joining' = joining \ {a}
    /\ \/ /\ contact[a] = "none"
          /\ contact' = [contact EXCEPT ![a] = "active"]
          /\ overtaken' = overtaken \cup ({a} \cap suppressed)
       \/ /\ contact[a] # "none"
          /\ UNCHANGED <<contact, overtaken>>
    /\ UNCHANGED <<rows, suppressed, id, logged, postal, queue, txn, handled, dropped, faults>>

-----------------------------------------------------------------------------
(* Faults.                                                                  *)

\* Mutant of WorkerDies: the task was acknowledged when it was taken.
WorkerDiesAcknowledged(w) ==
    /\ faults < MaxFaults
    /\ txn[w] # Idle
    /\ End(w)
    /\ faults' = faults + 1
    /\ UNCHANGED <<rows, list, logged, postal, queue, history>>

\* A worker dies: rolled back, and the broker delivers the task again.
WorkerDies(w) ==
    /\ faults < MaxFaults
    /\ txn[w] # Idle
    /\ queue' = [queue EXCEPT ![txn[w].e] = @ + 1]
    /\ End(w)
    /\ faults' = faults + 1
    /\ UNCHANGED <<rows, list, logged, postal, history>>

\* The database fails under a task: rolled back, and the task is acknowledged.
TaskFails(w) ==
    /\ faults < MaxFaults
    /\ txn[w] # Idle
    /\ dropped' = dropped \cup {txn[w].e}
    /\ End(w)
    /\ faults' = faults + 1
    /\ UNCHANGED <<rows, list, logged, postal, queue, handled, overtaken>>

\* The web process dies under a request, or its database fails.
RequestDies(q) ==
    /\ faults < MaxFaults
    /\ txn[q].pc \in Phases
    /\ End(q)
    /\ faults' = faults + 1
    /\ UNCHANGED <<rows, list, logged, postal, queue, history>>

-----------------------------------------------------------------------------

Continue(w) ==
    \/ Unmatched(w) \/ Match(w) \/ Deliver(w) \/ Log(w) \/ Flush(w)
    \/ LookUp(w) \/ Insert(w) \/ Find(w) \/ Finish(w) \/ Gone(w)

Answer(q) == LookUp(q) \/ Insert(q) \/ Find(q) \/ Finish(q) \/ Gone(q)

Next ==
    \/ \E m \in Messages : Accept(m)
    \/ \E r \in Rows : Record(r) \/ Forget(r)
    \/ \E e \in Webhooks : Report(e) \/ Redeliver(e)
    \/ \E w \in Workers, e \in Webhooks : Take(w, e)
    \/ \E w \in Workers : Continue(w) \/ WorkerDies(w) \/ TaskFails(w)
    \/ \E q \in Requests, a \in Addresses, mark \in {"unsubscribed", "none"} :
          Ask(q, a, mark)
    \/ \E q \in Requests : Answer(q) \/ RequestDies(q)
    \/ \E a \in Addresses : JoinLook(a) \/ Join(a)

Spec == Init /\ [][Next]_vars

-----------------------------------------------------------------------------
(* Safety.                                                                  *)

Abstract == INSTANCE EventLog WITH
    Events     <- Webhooks,
    RowOf      <- [e \in Webhooks |-> Row(e)],
    Deliveries <- {e \in Webhooks : IsDelivery(e)},
    Bounces    <- {e \in Webhooks : IsBounce(e)}

\* However often a webhook is delivered, whoever dies and whatever two tasks
\* read before either of them committed, an event is logged once, is counted
\* once and only with its log entry, and a logged bounce has its address on
\* the suppression list from the same commit on.
AppliedOnce == Abstract!Spec

\* A bounce that a task has finished with, as a duplicate, for a row or for
\* none, has its address on the suppression list, also when the task lost the
\* race for it and was rolled back; and so has every BOUNCED row.
BouncesSuppressed ==
    /\ \A e \in handled : IsBounce(e) => Address(e) \in suppressed
    /\ \A r \in Rows : status[r] = "bounced" => AddressOf[r] \in suppressed

\* A webhook Postal was told 200 for is waiting, in a worker's hands, or was
\* handled to its end, through any number of deaths and lost races; only a
\* failure of the database under its task, or the deletion of a contact that
\* the task is about to write, loses it, and nobody tries it again.
NoneLost ==
    \A e \in reported :
        \/ queue[e] > 0
        \/ \E w \in Workers : txn[w].e = e
        \/ e \in handled \cup dropped

\* No contact of a suppressed address is active, which is what materialization
\* goes by before it looks at the list, unless the two transactions overlapped:
\* the suppression was committed between a join's look at the list and its
\* commit, or the join between the suppression's look for the contact and its
\* commit.
NoActiveSuppressed ==
    \A a \in suppressed : contact[a] = "active" => a \in overtaken

\* The status of a row and its share of the counters agree: nothing is counted
\* for a row no event has changed, and a DELIVERED or BOUNCED row was counted,
\* although both are computed from a status that may be out of date.
CountersFollowStatus ==
    \A r \in Rows :
        /\ status[r] \in {"pending", "sent"} => delivered[r] = 0 /\ bounced[r] = 0
        /\ status[r] = "delivered" => delivered[r] > 0
        /\ status[r] = "bounced" => bounced[r] > 0

-----------------------------------------------------------------------------
(* A claim of the documentation that the code does not keep in every         *)
(* behaviour.                                                                *)

\* ARCHITECTURE.md: "Matches the recipient by Postal message token, appends an
\* email_events row."  A task that found the row and came to its end did that.
EventsRecorded ==
    [][\A w \in Workers :
          LET e == txn[w].e IN
          /\ txn[w].seen # "none" /\ txn'[w] = Idle
          /\ e \in handled' /\ faults' = faults
          => e \in logged']_vars

=============================================================================
