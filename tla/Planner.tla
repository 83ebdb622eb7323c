-------------------------------- MODULE Planner --------------------------------
(***************************************************************************)
(* One recurring campaign of the 4-week planner: the grid it is placed on, *)
(* the runs that app/services/planner_engine.py makes of it day by day,    *)
(* and the rule of app/services/frequency.py that a contact receives it    *)
(* once per interval, which materialize_campaign asks about and send_one   *)
(* records.  How a run is scheduled, materialized and sent in detail is in *)
(* CampaignLifecycle and SendOne; here are the statements that read or     *)
(* write the runs and the frequency log.                                   *)
(*                                                                         *)
(* Time is counted in days of the application's timezone.  Transactions    *)
(* run at READ COMMITTED: a read and the commit after it are two steps.    *)
(***************************************************************************)
EXTENDS Integers, FiniteSets

CONSTANTS
    Runs,          \* the campaigns that may be made as its runs
    Contacts,      \* the active contacts of its lists
    Workers,       \* Celery worker processes
    None,          \* no run, no contact
    Grid,          \* the cells the operator makes use of
    FirstWeekday,  \* the weekday of the first of the month, Monday is 0
    FirstDay,      \* the days of the month the model goes through
    LastDay,
    Shifts,        \* how many days off a send time and a timezone put a run
    Interval,      \* frequency_interval_days
    MaxFaults      \* bound: workers that die

\* Four weeks of five days.
Cells == (1 .. 4) \X (0 .. 4)

ASSUME PlannerAssumption ==
    /\ None \notin Runs \cup Contacts
    /\ Grid \subseteq Cells
    /\ FirstWeekday \in 0 .. 6
    /\ FirstDay \in 1 .. 31 /\ LastDay \in FirstDay .. 31
    /\ Shifts \subseteq {-1, 0, 1}
    /\ Interval \in Nat \ {0}
    /\ MaxFaults \in Nat

VARIABLES
    \* PostgreSQL
    exists,    \* the recurring campaign is there, and is its runs' parent
    shift,     \* what its send time and timezone make of it
    placed,    \* the cells of the grid it is on
    runs,      \* its runs
    row,       \* campaign_recipients.status of each run and contact
    log,       \* campaign_contact_sends.last_sent_at of each contact
    \* the clock and the processes
    today,
    txn,
    \* what the model records to state properties; no action reads them
    mailedOn,  \* the day Postal last accepted a run's message for a contact
    unlogged,  \* a run and a contact of which the log misses an acceptance
    beside,    \* for each contact, the runs materialized beside another
    faults     \* workers that died, at most MaxFaults

grid    == <<exists, shift, placed>>
history == <<mailedOn, unlogged, beside>>
vars    == <<grid, runs, row, log, today, txn, history, faults>>

Never == 0

Days == FirstDay .. LastDay

\* "stopped" is paused, or cancelled: a stop that is never resumed.
RunStatuses == {"none", "scheduled", "sending", "stopped", "completed", "deleted"}

\* "skipped" is any final status but sent.
RowStatuses == {"none", "pending", "sent", "skipped"}

Phases == {"idle", "look", "insert", "ledger", "postal", "record", "commit"}

Idle == [pc |-> "idle", day |-> Never, at |-> Never, raced |-> FALSE,
         r |-> None, c |-> None, skip |-> {}, keyed |-> FALSE, seen |-> Never]

Unmade == [status |-> "none", made |-> Never, at |-> Never,
           raced |-> FALSE, moved |-> FALSE]

Live(r) == runs[r].status \notin {"none", "deleted"}

\* The dates of scheduled_at of a run made for a day: what a send time and a
\* timezone make of the day, or the date an operator moved it to.
DatesOf(made) == {made + s : s \in Shifts} \cup Days

RunRecords == [status : RunStatuses, made : Days \cup {Never}, at : Int,
               raced : BOOLEAN, moved : BOOLEAN]

Txns == [pc : Phases, day : Days \cup {Never}, at : Int, raced : BOOLEAN,
         r : Runs \cup {None}, c : Contacts \cup {None}, skip : SUBSET Contacts,
         keyed : BOOLEAN, seen : Days \cup {Never}]

TypeOK ==
    /\ exists \in BOOLEAN
    /\ shift \in Shifts
    /\ placed \subseteq Grid
    /\ runs \in [Runs -> RunRecords]
    /\ \A r \in Runs : Live(r) => runs[r].at \in DatesOf(runs[r].made)
    /\ row \in [Runs -> [Contacts -> RowStatuses]]
    /\ log \in [Contacts -> Days \cup {Never}]
    /\ today \in Days
    /\ txn \in [Workers -> Txns]
    /\ mailedOn \in [Runs -> [Contacts -> Days \cup {Never}]]
    /\ unlogged \subseteq Runs \X Contacts
    /\ beside \in [Contacts -> SUBSET (Runs \X Runs)]
    /\ faults \in Nat

-----------------------------------------------------------------------------
(* Reading the state.                                                       *)

\* A cell is the Nth occurrence of a weekday in the month; weekends and the
\* fifth occurrence are idle.
Position(day) ==
    LET weekday    == (FirstWeekday + day - 1) % 7
        occurrence == (day - 1) \div 7 + 1
    IN IF weekday > 4 \/ occurrence > 4 THEN <<>> ELSE <<occurrence, weekday>>

\* A run whose scheduled_at falls on the date.
RunExists(day) == \E r \in Runs : Live(r) /\ runs[r].at = day

\* The workers that are about to make a run.
Ticking == {w \in Workers : txn[w].pc \in {"look", "insert"}}

\* A worker is at the message of run r for c.
SendingTo(r, c) == \E w \in Workers : txn[w].r = r /\ txn[w].c = c

\* A materialization of r has read the log and has not committed.
Materializing(r) == \E w \in Workers : txn[w].pc = "ledger" /\ txn[w].r = r

End(w) == txn' = [txn EXCEPT ![w] = Idle]

-----------------------------------------------------------------------------

Init ==
    /\ exists = TRUE
    /\ shift \in Shifts
    /\ placed = {}
    /\ runs = [r \in Runs |-> Unmade]
    /\ row = [r \in Runs |-> [c \in Contacts |-> "none"]]
    /\ log = [c \in Contacts |-> Never]
    /\ today = FirstDay
    /\ txn = [w \in Workers |-> Idle]
    /\ mailedOn = [r \in Runs |-> [c \in Contacts |-> Never]]
    /\ unlogged = {}
    /\ beside = [c \in Contacts |-> {}]
    /\ faults = 0

-----------------------------------------------------------------------------
(* The grid and the recurring campaign, as the operator edits them.         *)

AddPlacement(cell) ==
    /\ exists
    /\ placed' = placed \cup {cell}
    /\ UNCHANGED <<exists, shift, runs, row, log, today, txn, history, faults>>

RemovePlacement(cell) ==
    /\ placed' = placed \ {cell}
    /\ UNCHANGED <<exists, shift, runs, row, log, today, txn, history, faults>>

\* A placement moved to a cell the campaign is in already is dropped.
MovePlacement(from, to) ==
    /\ from \in placed
    /\ placed' = (placed \ {from}) \cup {to}
    /\ UNCHANGED <<exists, shift, runs, row, log, today, txn, history, faults>>

\* Another send time, or another timezone.
UpdateRecurring(s) ==
    /\ exists
    /\ shift' = s
    /\ UNCHANGED <<exists, placed, runs, row, log, today, txn, history, faults>>

\* The placements and the frequency log go with it; its runs lose their parent.
DeleteRecurring ==
    /\ exists
    /\ exists' = FALSE
    /\ placed' = {}
    /\ log' = [c \in Contacts |-> Never]
    /\ UNCHANGED <<shift, runs, row, today, txn, history, faults>>

-----------------------------------------------------------------------------
(* run_planner.                                                             *)

\* The tick: today's date and the campaigns placed on its cell.  It runs every
\* five minutes and after every change of the grid.
Tick(w) ==
    /\ txn[w] = Idle
    /\ Position(today) \in placed
    /\ Cardinality(Ticking) < Cardinality({r \in Runs : runs[r].status = "none"})
    /\ txn' = [txn EXCEPT ![w] = [Idle EXCEPT !.pc = "look", !.day = today]]
    /\ UNCHANGED <<grid, runs, row, log, today, history, faults>>

\* A run goes by the date in the application's timezone, and is scheduled at
\* a local time of its own timezone on the same date.
Scheduled(w) ==
    txn' = [txn EXCEPT ![w] = [@ EXCEPT !.pc = "insert", !.at = txn[w].day + shift]]

\* Mutant of Look: a run that was dispatched does not count.
LookForScheduled(w) ==
    /\ txn[w].pc = "look"
    /\ IF exists /\ ~\E r \in Runs : /\ runs[r].status = "scheduled"
                                     /\ runs[r].at = txn[w].day
       THEN Scheduled(w)
       ELSE End(w)
    /\ UNCHANGED <<grid, runs, row, log, today, history, faults>>

\* Mutant of Look: the send time is taken to UTC twice.
LookShiftingTwice(w) ==
    /\ txn[w].pc = "look"
    /\ IF exists /\ ~RunExists(txn[w].day)
       THEN txn' = [txn EXCEPT ![w].pc = "insert", ![w].at = txn[w].day + 2 * shift]
       ELSE End(w)
    /\ UNCHANGED <<grid, runs, row, log, today, history, faults>>

\* ensure_run: the recurring campaign, and whether the date has its run.
Look(w) ==
    /\ txn[w].pc = "look"
    /\ IF exists /\ ~RunExists(txn[w].day) THEN Scheduled(w) ELSE End(w)
    /\ UNCHANGED <<grid, runs, row, log, today, history, faults>>

\* The clone is committed.  A look at the same date by another worker is out
\* of date from here on.
Create(w, r) ==
    LET day == txn[w].day IN
    /\ txn[w].pc = "insert"
    /\ exists
    /\ runs[r].status = "none"
    /\ runs' = [runs EXCEPT ![r] = [status |-> "scheduled", made |-> day, at |-> txn[w].at,
                                    raced |-> txn[w].raced, moved |-> FALSE]]
    /\ txn' = [v \in Workers |->
                  IF v = w THEN Idle
                  ELSE IF txn[v].pc = "insert" /\ txn[v].day = day
                       THEN [txn[v] EXCEPT !.raced = TRUE]
                       ELSE txn[v]]
    /\ UNCHANGED <<grid, row, log, today, history, faults>>

\* The foreign key of the parent: the tick fails.
CreateFails(w) ==
    /\ txn[w].pc = "insert"
    /\ ~exists
    /\ End(w)
    /\ UNCHANGED <<grid, runs, row, log, today, history, faults>>

-----------------------------------------------------------------------------
(* A run: dispatched, completed, and all an operator does with a campaign.  *)

BecomesStatus(r, s) ==
    /\ runs' = [runs EXCEPT ![r].status = s]
    /\ UNCHANGED <<grid, log, today, txn, history, faults>>

Dispatch(r) ==
    /\ runs[r].status = "scheduled" /\ runs[r].at <= today
    /\ BecomesStatus(r, "sending")
    /\ UNCHANGED row

Complete(r) ==
    /\ runs[r].status = "sending"
    /\ \A c \in Contacts : row[r][c] # "pending"
    /\ BecomesStatus(r, "completed")
    /\ UNCHANGED row

Stop(r) ==
    /\ runs[r].status \in {"scheduled", "sending"}
    /\ BecomesStatus(r, "stopped")
    /\ UNCHANGED row

Resume(r) ==
    /\ runs[r].status = "stopped"
    /\ BecomesStatus(r, "sending")
    /\ UNCHANGED row

\* schedule, of a run that an edit gave a list of its own.
Reschedule(r, day) ==
    /\ Live(r)
    /\ runs' = [runs EXCEPT ![r] =
                   [@ EXCEPT !.status = "scheduled", !.at = day, !.moved = TRUE]]
    /\ UNCHANGED <<grid, row, log, today, txn, history, faults>>

Delete(r) ==
    /\ Live(r) /\ runs[r].status # "sending"
    /\ BecomesStatus(r, "deleted")
    /\ row' = [row EXCEPT ![r] = [c \in Contacts |-> "none"]]

\* Mutant of Recent: the log is asked about the run and not about its parent.
RecentOfRun == {{}}

\* ineligible_contact_ids.  On the last day it depends on the hour.
Recent ==
    {skip \in SUBSET Contacts :
        \A c \in Contacts :
            LET age == today - log[c]
                sent == exists /\ log[c] # Never
            IN /\ sent /\ age < Interval => c \in skip
               /\ c \in skip => sent /\ age <= Interval}

\* The runs that may yet mail c, or have and not said so.
Underway(c) ==
    {s \in Runs : row[s][c] = "pending" \/ Materializing(s) \/ SendingTo(s, c)}

\* materialize_campaign asks the frequency log.
ReadLog(w, r) ==
    /\ txn[w] = Idle
    /\ runs[r].status = "sending"
    /\ \A c \in Contacts : row[r][c] = "none"
    /\ ~Materializing(r)
    /\ \E skip \in Recent :
          txn' = [txn EXCEPT ![w] = [Idle EXCEPT !.pc = "ledger", !.r = r, !.skip = skip]]
    /\ beside' = [c \in Contacts |-> beside[c] \cup ({r} \X Underway(c))]
    /\ UNCHANGED <<grid, runs, row, log, today, mailedOn, unlogged, faults>>

\* It commits the ledger; a run that was deleted makes it fail.
CommitLedger(w) ==
    LET r == txn[w].r IN
    /\ txn[w].pc = "ledger"
    /\ row' = IF Live(r)
              THEN [row EXCEPT ![r] = [c \in Contacts |->
                                          IF c \in txn[w].skip THEN "skipped" ELSE "pending"]]
              ELSE row
    /\ End(w)
    /\ UNCHANGED <<grid, runs, log, today, history, faults>>

-----------------------------------------------------------------------------
(* send_one, as far as it has to do with the log.                           *)

\* Phase 1: the row, the run and its parent; the lock keeps others away.
SendStart(w, r, c) ==
    /\ txn[w] = Idle
    /\ row[r][c] = "pending" /\ runs[r].status = "sending"
    /\ ~SendingTo(r, c)
    /\ txn' = [txn EXCEPT ![w] = [Idle EXCEPT !.pc = "postal", !.r = r, !.c = c,
                                              !.keyed = exists]]
    /\ UNCHANGED <<grid, runs, row, log, today, history, faults>>

\* It ends without a mail: later, or for good.
SendEnds(w) ==
    LET r == txn[w].r
        c == txn[w].c
    IN
    /\ txn[w].pc = "postal"
    /\ \E s \in {row[r][c], "skipped"} :
          row' = IF row[r][c] = "pending" THEN [row EXCEPT ![r][c] = s] ELSE row
    /\ End(w)
    /\ UNCHANGED <<grid, runs, log, today, history, faults>>

PostalAccepts(w) ==
    /\ txn[w].pc = "postal"
    /\ txn' = [txn EXCEPT ![w].pc = "record"]
    /\ mailedOn' = [mailedOn EXCEPT ![txn[w].r][txn[w].c] = today]
    /\ UNCHANGED <<grid, runs, row, log, today, unlogged, beside, faults>>

\* The acceptance that w holds gets lost.
Lose(w) ==
    /\ unlogged' = unlogged \cup {<<txn[w].r, txn[w].c>>}
    /\ End(w)

\* Phase 4 finds the row gone, or record_send looks the contact up.
LookUpLog(w) ==
    LET r == txn[w].r
        c == txn[w].c
    IN
    /\ txn[w].pc = "record"
    /\ \/ row[r][c] # "pending" /\ Lose(w)
       \/ /\ row[r][c] = "pending"
          /\ txn' = [txn EXCEPT ![w] =
                        [@ EXCEPT !.pc = "commit", !.day = today,
                                  !.seen = IF txn[w].keyed THEN log[c] ELSE Never]]
          /\ UNCHANGED unlogged
    /\ UNCHANGED <<grid, runs, row, log, today, mailedOn, beside, faults>>

\* The commit of phase 4 fails: the row is gone; the parent is gone; or the
\* log got an entry since it was found to have none.
Refused(w) ==
    LET c == txn[w].c IN
    \/ row[txn[w].r][c] # "pending"
    \/ txn[w].keyed /\ ~exists
    \/ txn[w].keyed /\ txn[w].seen = Never /\ log[c] # Never

\* The acceptances of messages to c that an entry of that day does not cover.
Overwritten(c, day) == {s \in Runs : mailedOn[s][c] > day} \X {c}

\* Mutant of CommitSend: an entry that is there is left as it is.
CommitSendOnce(w) ==
    LET r == txn[w].r
        c == txn[w].c
    IN
    /\ txn[w].pc = "commit"
    /\ \/ Refused(w) /\ Lose(w) /\ UNCHANGED <<row, log>>
       \/ /\ ~Refused(w)
          /\ row' = [row EXCEPT ![r][c] = "sent"]
          /\ log' = IF txn[w].keyed /\ txn[w].seen = Never
                    THEN [log EXCEPT ![c] = txn[w].day]
                    ELSE log
          /\ UNCHANGED unlogged
          /\ End(w)
    /\ UNCHANGED <<grid, runs, today, mailedOn, beside, faults>>

\* SENT and the log entry are committed together, or neither is: the row stays
\* pending although the mail is out.
CommitSend(w) ==
    LET r == txn[w].r
        c == txn[w].c
    IN
    /\ txn[w].pc = "commit"
    /\ \/ Refused(w) /\ Lose(w) /\ UNCHANGED <<row, log>>
       \/ /\ ~Refused(w)
          /\ row' = [row EXCEPT ![r][c] = "sent"]
          /\ IF txn[w].keyed
             THEN /\ log' = [log EXCEPT ![c] = txn[w].day]
                  /\ unlogged' = unlogged \cup Overwritten(c, txn[w].day)
             ELSE UNCHANGED <<log, unlogged>>
          /\ End(w)
    /\ UNCHANGED <<grid, runs, today, mailedOn, beside, faults>>

-----------------------------------------------------------------------------

\* A worker dies, or its database does.
WorkerDies(w) ==
    /\ faults < MaxFaults
    /\ txn[w] # Idle
    /\ IF txn[w].pc \in {"record", "commit"} THEN Lose(w) ELSE End(w) /\ UNCHANGED unlogged
    /\ faults' = faults + 1
    /\ UNCHANGED <<grid, runs, row, log, today, mailedOn, beside>>

NextDay ==
    /\ today < LastDay
    /\ today' = today + 1
    /\ UNCHANGED <<grid, runs, row, log, txn, history, faults>>

Edit ==
    \/ \E cell \in Grid : AddPlacement(cell) \/ RemovePlacement(cell)
    \/ \E from, to \in Grid : MovePlacement(from, to)
    \/ \E s \in Shifts : UpdateRecurring(s)
    \/ DeleteRecurring

Plan(w) == Tick(w) \/ Look(w) \/ (\E r \in Runs : Create(w, r)) \/ CreateFails(w)

Run(r) ==
    \/ Dispatch(r) \/ Complete(r)
    \/ Stop(r) \/ Resume(r) \/ Delete(r)
    \/ \E day \in Days : Reschedule(r, day)

Materialize(w) == (\E r \in Runs : ReadLog(w, r)) \/ CommitLedger(w)

Send(w) ==
    \/ \E r \in Runs, c \in Contacts : SendStart(w, r, c)
    \/ SendEnds(w) \/ PostalAccepts(w) \/ LookUpLog(w) \/ CommitSend(w)

Next ==
    \/ Edit
    \/ \E r \in Runs : Run(r)
    \/ \E w \in Workers : Plan(w) \/ Materialize(w) \/ Send(w) \/ WorkerDies(w)
    \/ NextDay

Spec == Init /\ [][Next]_vars

-----------------------------------------------------------------------------
(* Safety.                                                                  *)

\* Two runs made for one day: the send time of one of them falls on another
\* date of the application's timezone, where ensure_run does not look for it,
\* or an operator moved one, or one was committed between the other's look and its commit.
TwinsExplained ==
    \A r, s \in Runs :
        r # s /\ Live(r) /\ Live(s) /\ runs[r].made = runs[s].made =>
            \/ runs[r].at # runs[r].made \/ runs[s].at # runs[s].made
            \/ runs[r].moved \/ runs[s].moved
            \/ runs[r].raced \/ runs[s].raced

\* Two runs mail a contact within the interval only when one was materialized
\* while the other could still mail it, or when an acceptance is missing from
\* the log: the rule is looked at once, when the ledger is made.
FrequencyHeld ==
    exists =>
        \A c \in Contacts : \A r, s \in Runs :
            /\ r # s /\ mailedOn[r][c] # Never /\ mailedOn[s][c] # Never
            /\ mailedOn[r][c] <= mailedOn[s][c]
            /\ mailedOn[s][c] - mailedOn[r][c] < Interval
            => \/ <<r, s>> \in beside[c] \/ <<s, r>> \in beside[c]
               \/ <<r, c>> \in unlogged \/ <<s, c>> \in unlogged

\* A row is SENT only in the commit that has its mail in the log, and no later
\* entry takes it back but one that names an earlier day.
SentIsLogged ==
    exists =>
        \A r \in Runs, c \in Contacts :
            row[r][c] = "sent" =>
                log[c] >= mailedOn[r][c] \/ <<r, c>> \in unlogged

-----------------------------------------------------------------------------
(* A claim of the documentation that the code does not keep in every         *)
(* behaviour.                                                                *)

\* tasks/planner.py: "a recurring campaign gets at most one run per calendar
\* day regardless of how often this fires".
OneRunPerDay ==
    \A r, s \in Runs :
        r # s /\ Live(r) /\ Live(s) => runs[r].made # runs[s].made

=============================================================================
