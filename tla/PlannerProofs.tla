----------------------------- MODULE PlannerProofs -----------------------------
(***************************************************************************)
(* Proofs about Planner, for any number of runs, contacts and workers, any *)
(* grid, month, shifts and interval: its types, that twin runs have their  *)
(* excuse, and that the frequency rule holds but for its exceptions.       *)
(***************************************************************************)
EXTENDS Planner, TLAPS

-----------------------------------------------------------------------------
(* The inductive invariant, in layers: each is preserved given those before. *)

SendPhases == {"postal", "record", "commit"}

\* What a transaction is about, by where it is.
Shape(w) ==
    /\ txn[w].pc \in {"idle", "look", "insert"} => txn[w].r = None /\ txn[w].c = None
    /\ txn[w].pc = "ledger" => txn[w].r \in Runs /\ txn[w].c = None
    /\ txn[w].pc \in SendPhases => txn[w].r \in Runs /\ txn[w].c \in Contacts
    /\ txn[w].pc \in {"look", "insert", "commit"} => txn[w].day \in Days
    /\ txn[w].pc = "insert" => txn[w].at \in DatesOf(txn[w].day)

Shapes ==
    /\ \A r \in Runs : Live(r) => runs[r].made \in Days
    /\ \A w \in Workers : Shape(w)

Types == TypeOK /\ Shapes

\* Two runs of one day, and the excuse for it.
Excused(r, s) ==
    \/ runs[r].at # runs[r].made \/ runs[s].at # runs[s].made
    \/ runs[r].moved \/ runs[s].moved
    \/ runs[r].raced \/ runs[s].raced

\* A worker about to make a run knows of no other that looks like it.
LooksFree ==
    \A w \in Workers, s \in Runs :
        /\ txn[w].pc = "insert" /\ ~txn[w].raced
        /\ Live(s) /\ runs[s].made = txn[w].day
        => runs[s].at # runs[s].made \/ runs[s].moved \/ runs[s].raced

Twins == TwinsExplained /\ LooksFree

\* A run that was never made is unknown to all.
Fresh ==
    \A r \in Runs : runs[r].status = "none" =>
        /\ \A c \in Contacts : mailedOn[r][c] = Never
        /\ \A w \in Workers : txn[w].r # r

\* The rows, and who has them in hand.
Rows ==
    /\ \A r \in Runs, c \in Contacts :
          /\ ~Live(r) => row[r][c] = "none"
          /\ Live(r) /\ mailedOn[r][c] # Never => row[r][c] # "none"
    /\ \A w \in Workers :
          LET r == txn[w].r IN
          /\ txn[w].pc = "ledger" /\ Live(r) => \A c \in Contacts : row[r][c] = "none"
          /\ txn[w].pc \in SendPhases /\ Live(r) => row[r][txn[w].c] = "pending"

OneEach ==
    \A v, w \in Workers :
        /\ v # w
        /\ txn[v].r = txn[w].r /\ txn[v].c = txn[w].c
        => txn[v].r = None

Held == Fresh /\ Rows /\ OneEach

\* What the log has of a mail: all of it; or a worker is about to say it; or
\* it was lost.
Dated ==
    /\ \A r \in Runs, c \in Contacts : mailedOn[r][c] <= today
    /\ \A w \in Workers :
          /\ txn[w].pc = "commit" =>
                /\ mailedOn[txn[w].r][txn[w].c] <= txn[w].day
                /\ txn[w].day <= today
          /\ txn[w].pc \in SendPhases /\ exists => txn[w].keyed

Telling(s, c) ==
    \E w \in Workers :
        txn[w].pc \in {"record", "commit"} /\ txn[w].r = s /\ txn[w].c = c

Told(s, c) ==
    /\ row[s][c] # "pending"
    /\ ~SendingTo(s, c)
    /\ exists => log[c] >= mailedOn[s][c]

Recorded ==
    \A s \in Runs, c \in Contacts :
        mailedOn[s][c] # Never => <<s, c>> \in unlogged \/ Telling(s, c) \/ Told(s, c)

Said == Dated /\ Recorded

\* A run that passed the frequency check for c and may yet mail it.
Open(r, c) ==
    \/ \E w \in Workers : txn[w].pc = "ledger" /\ txn[w].r = r /\ c \notin txn[w].skip
    \/ row[r][c] = "pending"
    \/ SendingTo(r, c)

Beside(r, s, c) == <<r, s>> \in beside[c] \/ <<s, r>> \in beside[c]

Side ==
    \A c \in Contacts : \A r, s \in Runs :
        r # s /\ Open(r, c) /\ Open(s, c) => Beside(r, s, c)

\* The mails of r and s to c, or the mail of s and today, are an interval apart.
Apart(r, s, c) ==
    \/ mailedOn[r][c] = Never /\ mailedOn[s][c] + Interval <= today
    \/ mailedOn[r][c] # Never /\ mailedOn[s][c] + Interval <= mailedOn[r][c]
    \/ mailedOn[r][c] # Never /\ mailedOn[r][c] + Interval <= mailedOn[s][c]

Spaced ==
    \A c \in Contacts : \A r, s \in Runs :
        /\ exists /\ r # s
        /\ mailedOn[s][c] # Never
        /\ Open(r, c) \/ mailedOn[r][c] # Never
        => \/ Beside(r, s, c)
           \/ <<r, c>> \in unlogged \/ <<s, c>> \in unlogged
           \/ Apart(r, s, c)

Mails == Side /\ Spaced

-----------------------------------------------------------------------------
(* Types.                                                                    *)

\* Days are numbers, and Never is none of them.
LEMMA DaysAreNumbers == Days \subseteq Nat /\ Never \notin Days /\ Never \in Nat
  BY PlannerAssumption DEF Days, Never

\* A transaction that another one overtakes is a transaction.
LEMMA RacedType ==
    ASSUME NEW t \in Txns PROVE [t EXCEPT !.raced = TRUE] \in Txns
  BY DEF Txns

\* A worker with nothing to do.
LEMMA IdleType == Idle \in Txns
  BY DEF Idle, Txns, Phases, Never

\* A transaction that ends is one still.
LEMMA EndType ==
    ASSUME NEW w \in Workers, txn \in [Workers -> Txns], End(w)
    PROVE  txn' \in [Workers -> Txns]
  BY IdleType DEF End

\* One that goes on to its next statement is one still.
LEMMA GotoType ==
    ASSUME NEW t \in Txns, NEW pc \in Phases, NEW day \in Days, NEW seen \in Days \cup {Never}
    PROVE  /\ [t EXCEPT !.pc = pc] \in Txns
           /\ [t EXCEPT !.pc = pc, !.day = day, !.seen = seen] \in Txns
  BY DEF Txns

\* A row that changes its status is a row still.
LEMMA RowType ==
    ASSUME row \in [Runs -> [Contacts -> RowStatuses]],
           NEW r \in Runs, NEW c \in Contacts, NEW s \in RowStatuses,
           row' = [row EXCEPT ![r][c] = s]
    PROVE  row' \in [Runs -> [Contacts -> RowStatuses]]
  <1>1. [row[r] EXCEPT ![c] = s] \in [Contacts -> RowStatuses]
    OBVIOUS
  <1>2. row' = [row EXCEPT ![r] = [row[r] EXCEPT ![c] = s]]
    OBVIOUS
  <1>3. QED
    BY <1>1, <1>2

\* Init.
LEMMA InitTypes == Init => Types
  <1> SUFFICES ASSUME Init PROVE Types
    OBVIOUS
  <1>1. Idle \in Txns /\ Unmade \in RunRecords
    BY DEF Idle, Txns, Phases, Never, Unmade, RunRecords, RunStatuses
  <1>2. TypeOK
    BY <1>1, PlannerAssumption
       DEF Init, TypeOK, RowStatuses, Unmade, Live, Days
  <1>3. Shapes
    BY DEF Init, Shapes, Shape, Idle, Unmade, Live, SendPhases
  <1>4. QED
    BY <1>2, <1>3 DEF Types

\* The operator's edits.
LEMMA EditTypes == Types /\ Edit => Types'
  <1> SUFFICES ASSUME Types, Edit PROVE Types'
    OBVIOUS
  <1> USE DEF Types, TypeOK, Shapes, Shape, Live, history
  <1>1. ASSUME NEW cell \in Grid, AddPlacement(cell) \/ RemovePlacement(cell)
        PROVE  Types'
    BY <1>1 DEF AddPlacement, RemovePlacement
  <1>2. ASSUME NEW from \in Grid, NEW to \in Grid, MovePlacement(from, to)
        PROVE  Types'
    BY <1>2 DEF MovePlacement
  <1>3. ASSUME NEW s \in Shifts, UpdateRecurring(s) PROVE Types'
    BY <1>3 DEF UpdateRecurring
  <1>4. ASSUME DeleteRecurring PROVE Types'
    BY <1>4 DEF DeleteRecurring
  <1>5. QED
    BY <1>1, <1>2, <1>3, <1>4 DEF Edit

\* run_planner.
LEMMA PlanTypes ==
    ASSUME Types, NEW w \in Workers, Plan(w) PROVE Types'
  <1> USE DEF Types, Shapes, history, grid
  <1>1. CASE Tick(w)
    <2>1. txn' \in [Workers -> Txns]
      BY <1>1 DEF Tick, TypeOK, Idle, Txns, Phases
    <2>2. TypeOK'
      BY <1>1, <2>1 DEF Tick, TypeOK, Live
    <2>3. \A v \in Workers : Shape(v)'
      BY <1>1 DEF Tick, TypeOK, Idle, Shape, SendPhases, Txns
    <2>4. QED
      BY <1>1, <2>2, <2>3 DEF Tick, Live
  <1>2. CASE Look(w)
    <2>1. /\ txn[w] \in Txns /\ txn[w].day \in Days
          /\ txn[w].day + shift \in Int
          /\ txn[w].day + shift \in DatesOf(txn[w].day)
      <3>1. txn[w] \in Txns /\ txn[w].day \in Days
        BY <1>2 DEF Look, Shape, TypeOK
      <3>2. shift \in Shifts /\ shift \in Int /\ txn[w].day \in Int
        <4>1. shift \in {-1, 0, 1} /\ shift \in Shifts
          BY PlannerAssumption DEF TypeOK
        <4>2. txn[w].day \in Nat
          BY <3>1, DaysAreNumbers
        <4>3. QED
          BY <4>1, <4>2
      <3>3. QED
        BY <3>1, <3>2 DEF DatesOf
    <2>2. CASE Scheduled(w)
      <3>1. txn' \in [Workers -> Txns]
        BY <2>1, <2>2 DEF Scheduled, TypeOK, Txns, Phases
      <3>2. \A v \in Workers : Shape(v)'
        BY <1>2, <2>1, <2>2 DEF Look, Scheduled, TypeOK, Shape, SendPhases, Txns
      <3>3. QED
        BY <1>2, <3>1, <3>2 DEF Look, TypeOK, Live
    <2>3. CASE End(w)
      <3>1. \A v \in Workers : Shape(v)'
        BY <2>3 DEF End, TypeOK, Idle, Shape, SendPhases
      <3>2. QED
        BY <1>2, <2>3, <3>1, EndType DEF Look, TypeOK, Live
    <2>4. QED
      BY <1>2, <2>2, <2>3 DEF Look
  <1>3. ASSUME NEW r \in Runs, Create(w, r) PROVE Types'
    <2>1. txn' \in [Workers -> Txns]
      <3>1. txn \in [Workers -> Txns] /\ Idle \in Txns
        BY IdleType DEF TypeOK
      <3>2. \A v \in Workers : [txn[v] EXCEPT !.raced = TRUE] \in Txns
        BY <3>1, RacedType
      <3>3. QED
        BY <1>3, <3>1, <3>2 DEF Create
    <2>2. runs' \in [Runs -> RunRecords]
      BY <1>3 DEF Create, TypeOK, Txns, RunRecords, RunStatuses
    <2>3. \A s \in Runs : Live(s)' =>
              /\ runs'[s].at \in DatesOf(runs'[s].made)
              /\ runs'[s].made \in Days
      BY <1>3 DEF Create, TypeOK, Live, Shape
    <2>4. TypeOK'
      BY <1>3, <2>1, <2>2, <2>3 DEF Create, TypeOK
    <2>5. ASSUME NEW v \in Workers PROVE Shape(v)'
      <3>1. CASE v = w
        <4>1. txn'[v] = Idle
          BY <1>3, <3>1 DEF Create, TypeOK
        <4>2. QED
          BY <4>1 DEF Idle, Shape, SendPhases
      <3>2. CASE v # w
        <4>1. txn'[v] = txn[v] \/ txn'[v] = [txn[v] EXCEPT !.raced = TRUE]
          BY <1>3, <3>2 DEF Create
        <4>2. /\ txn'[v].pc = txn[v].pc /\ txn'[v].day = txn[v].day
              /\ txn'[v].at = txn[v].at
              /\ txn'[v].r = txn[v].r /\ txn'[v].c = txn[v].c
          BY <4>1 DEF TypeOK, Txns
        <4>3. Shape(v)
          OBVIOUS
        <4>4. QED
          BY <4>2, <4>3 DEF Shape
      <3>3. QED
        BY <3>1, <3>2
    <2>6. QED
      BY <2>3, <2>4, <2>5
  <1>4. CASE CreateFails(w)
    <2>1. TypeOK'
      BY <1>4, EndType DEF CreateFails, TypeOK, Live
    <2>2. \A v \in Workers : Shape(v)'
      BY <1>4 DEF CreateFails, End, TypeOK, Idle, Shape, SendPhases
    <2>3. QED
      BY <1>4, <2>1, <2>2 DEF CreateFails, Live
  <1>5. QED
    BY <1>1, <1>2, <1>3, <1>4 DEF Plan

\* What an edit or a change of its status leaves of a run is a run.
LEMMA RunEdits ==
    ASSUME NEW x \in RunRecords
    PROVE  /\ \A s \in RunStatuses : [x EXCEPT !.status = s] \in RunRecords
           /\ \A day \in Days :
                [x EXCEPT !.status = "scheduled", !.at = day, !.moved = TRUE] \in RunRecords
  <1>1. ASSUME NEW s \in RunStatuses PROVE [x EXCEPT !.status = s] \in RunRecords
    BY DEF RunRecords
  <1>2. ASSUME NEW day \in Days
        PROVE  [x EXCEPT !.status = "scheduled", !.at = day, !.moved = TRUE] \in RunRecords
    <2>1. day \in Int
      BY DaysAreNumbers
    <2>2. QED
      BY <2>1 DEF RunRecords, RunStatuses
  <1>3. QED
    BY <1>1, <1>2

\* The steps of a run change its status and date, and a deletion its rows.
LEMMA RunTypes ==
    ASSUME Types, NEW r \in Runs, Run(r) PROVE Types'
  <1> USE DEF Types, Shapes, history, grid, Live
  <1>1. ASSUME NEW s \in RunStatuses \ {"none"}, BecomesStatus(r, s),
               row' \in [Runs -> [Contacts -> RowStatuses]],
               Live(r) \/ s = "deleted"
        PROVE  Types'
    <2>1. runs' \in [Runs -> RunRecords]
      <3>1. runs \in [Runs -> RunRecords]
        BY DEF TypeOK
      <3>2. [runs[r] EXCEPT !.status = s] \in RunRecords
        BY <3>1, RunEdits
      <3>3. runs' = [runs EXCEPT ![r] = [runs[r] EXCEPT !.status = s]]
        BY <1>1, <3>1 DEF BecomesStatus
      <3>4. QED
        BY <3>1, <3>2, <3>3
    <2>2. ASSUME NEW q \in Runs, Live(q)'
          PROVE  /\ Live(q)
                 /\ runs'[q].at = runs[q].at /\ runs'[q].made = runs[q].made
      <3>1. CASE q = r
        <4>1. runs'[q] = [runs[q] EXCEPT !.status = s] /\ runs[q] \in RunRecords
          BY <1>1, <3>1 DEF BecomesStatus, TypeOK
        <4>2. runs'[q].status = s
          BY <4>1 DEF RunRecords
        <4>3. runs'[q].at = runs[q].at /\ runs'[q].made = runs[q].made
          BY <4>1 DEF RunRecords
        <4>4. QED
          BY <1>1, <2>2, <3>1, <4>2, <4>3
      <3>2. CASE q # r
        <4>1. runs'[q] = runs[q]
          BY <1>1, <3>2 DEF BecomesStatus, TypeOK
        <4>2. QED
          BY <2>2, <4>1
      <3>3. QED
        BY <3>1, <3>2
    <2>3. QED
      BY <1>1, <2>1, <2>2 DEF BecomesStatus, TypeOK, Shape
  <1>2. CASE Dispatch(r) \/ Complete(r) \/ Stop(r) \/ Resume(r)
    BY <1>1, <1>2 DEF Dispatch, Complete, Stop, Resume, TypeOK, RunStatuses
  <1>3. CASE Delete(r)
    <2>1. row' \in [Runs -> [Contacts -> RowStatuses]]
      BY <1>3 DEF Delete, TypeOK, RowStatuses
    <2>2. QED
      BY <1>1, <1>3, <2>1 DEF Delete, RunStatuses
  <1>4. ASSUME NEW day \in Days, Reschedule(r, day) PROVE Types'
    <2>1. runs' \in [Runs -> RunRecords]
      <3>1. runs \in [Runs -> RunRecords]
        BY DEF TypeOK
      <3>2. [runs[r] EXCEPT !.status = "scheduled", !.at = day, !.moved = TRUE]
                \in RunRecords
        BY <3>1, RunEdits
      <3>3. QED
        BY <1>4, <3>1, <3>2 DEF Reschedule
    <2>2. \A q \in Runs : Live(q)' =>
              /\ runs'[q].at \in DatesOf(runs'[q].made)
              /\ runs'[q].made \in Days
      <3>1. /\ runs'[r].at = day /\ runs'[r].made = runs[r].made
            /\ runs[r].made \in Days
        BY <1>4 DEF Reschedule, TypeOK, RunRecords
      <3>2. \A q \in Runs : q # r => runs'[q] = runs[q]
        BY <1>4 DEF Reschedule, TypeOK
      <3>3. runs'[r].at \in DatesOf(runs'[r].made)
        BY <3>1 DEF DatesOf
      <3>4. \A q \in Runs \ {r} : Live(q)' =>
              runs'[q].at \in DatesOf(runs'[q].made) /\ runs'[q].made \in Days
        BY <3>2 DEF TypeOK
      <3>5. QED
        BY <3>1, <3>3, <3>4
    <2>3. QED
      BY <1>4, <2>1, <2>2 DEF Reschedule, TypeOK, Shape
  <1>5. QED
    BY <1>2, <1>3, <1>4 DEF Run

\* materialize_campaign.
LEMMA MaterializeTypes ==
    ASSUME Types, NEW w \in Workers, Materialize(w) PROVE Types'
  <1> USE DEF Types, Shapes, history, grid, Live
  <1>1. ASSUME NEW r \in Runs, ReadLog(w, r) PROVE Types'
    <2>1. PICK skip \in SUBSET Contacts :
              txn' = [txn EXCEPT ![w] = [Idle EXCEPT !.pc = "ledger", !.r = r, !.skip = skip]]
      BY <1>1 DEF ReadLog, Recent
    <2>2. txn' \in [Workers -> Txns]
      BY <2>1, IdleType DEF TypeOK, Txns, Phases
    <2>3. \A v \in Workers : Shape(v)'
      BY <2>1 DEF TypeOK, Idle, Shape, SendPhases
    <2>4. beside' \in [Contacts -> SUBSET (Runs \X Runs)]
      BY <1>1 DEF ReadLog, Underway, TypeOK
    <2>5. QED
      BY <1>1, <2>2, <2>3, <2>4 DEF ReadLog, TypeOK
  <1>2. CASE CommitLedger(w)
    <2>1. row' \in [Runs -> [Contacts -> RowStatuses]]
      BY <1>2 DEF CommitLedger, TypeOK, RowStatuses
    <2>2. \A v \in Workers : Shape(v)'
      BY <1>2 DEF CommitLedger, End, TypeOK, Idle, Shape, SendPhases
    <2>3. QED
      BY <1>2, <2>1, <2>2, EndType DEF CommitLedger, TypeOK
  <1>3. QED
    BY <1>1, <1>2 DEF Materialize

\* An acceptance that gets lost.
LEMMA LoseTypes ==
    ASSUME Types, NEW w \in Workers, Lose(w), txn[w].pc \in SendPhases
    PROVE  /\ txn' \in [Workers -> Txns]
           /\ unlogged' \subseteq Runs \X Contacts
           /\ \A v \in Workers : Shape(v)'
  <1>1. txn' \in [Workers -> Txns] /\ unlogged' \subseteq Runs \X Contacts
    BY EndType DEF Lose, Types, TypeOK, Shapes, Shape
  <1>2. \A v \in Workers : Shape(v)'
    BY DEF Lose, End, Types, TypeOK, Shapes, Shape, Idle, SendPhases
  <1>3. QED
    BY <1>1, <1>2

\* send_one.
LEMMA SendTypes ==
    ASSUME Types, NEW w \in Workers, Send(w) PROVE Types'
  <1> USE DEF Types, Shapes, history, grid, Live
  <1>1. ASSUME NEW r \in Runs, NEW c \in Contacts, SendStart(w, r, c) PROVE Types'
    <2>1. txn' \in [Workers -> Txns]
      BY <1>1, IdleType DEF SendStart, TypeOK, Txns, Phases
    <2>2. \A v \in Workers : Shape(v)'
      BY <1>1 DEF SendStart, TypeOK, Idle, Shape, SendPhases
    <2>3. QED
      BY <1>1, <2>1, <2>2 DEF SendStart, TypeOK
  <1>2. CASE SendEnds(w)
    <2>1. row' \in [Runs -> [Contacts -> RowStatuses]]
      <3>1. txn[w].r \in Runs /\ txn[w].c \in Contacts
        BY <1>2 DEF SendEnds, Shape, SendPhases
      <3>2. \/ row' = row
            \/ \E s \in RowStatuses : row' = [row EXCEPT ![txn[w].r][txn[w].c] = s]
        BY <1>2, <3>1 DEF SendEnds, TypeOK, RowStatuses
      <3>3. QED
        BY <3>1, <3>2, RowType DEF TypeOK
    <2>2. \A v \in Workers : Shape(v)'
      BY <1>2 DEF SendEnds, End, TypeOK, Idle, Shape, SendPhases
    <2>3. QED
      BY <1>2, <2>1, <2>2, EndType DEF SendEnds, TypeOK
  <1>3. CASE PostalAccepts(w)
    <2>1. txn' \in [Workers -> Txns]
      <3>1. "record" \in Phases
        BY DEF Phases
      <3>2. QED
        BY <1>3, <3>1, GotoType DEF PostalAccepts, TypeOK
    <2>2. \A v \in Workers : Shape(v)'
      BY <1>3 DEF PostalAccepts, TypeOK, Shape, SendPhases, Txns
    <2>3. mailedOn' \in [Runs -> [Contacts -> Days \cup {Never}]]
      BY <1>3 DEF PostalAccepts, TypeOK
    <2>4. QED
      BY <1>3, <2>1, <2>2, <2>3 DEF PostalAccepts, TypeOK
  <1>4. CASE LookUpLog(w)
    <2>1. CASE Lose(w)
      BY <1>4, <2>1, LoseTypes DEF LookUpLog, TypeOK, SendPhases
    <2>2. CASE ~Lose(w)
      <3>1. PICK seen \in Days \cup {Never} :
                txn' = [txn EXCEPT ![w] = [@ EXCEPT !.pc = "commit", !.day = today,
                                                    !.seen = seen]]
        BY <1>4, <2>2 DEF LookUpLog, TypeOK, Shape, SendPhases
      <3>2. txn' \in [Workers -> Txns]
        <4>1. "commit" \in Phases /\ today \in Days
          BY DEF Phases, TypeOK
        <4>2. QED
          BY <3>1, <4>1, GotoType DEF TypeOK
      <3>3. \A v \in Workers : Shape(v)'
        BY <1>4, <3>1 DEF LookUpLog, TypeOK, Shape, SendPhases, Txns
      <3>4. QED
        BY <1>4, <2>2, <3>2, <3>3 DEF LookUpLog, TypeOK
    <2>3. QED
      BY <2>1, <2>2
  <1>5. CASE CommitSend(w)
    <2>1. CASE Lose(w) /\ UNCHANGED <<row, log>>
      BY <1>5, <2>1, LoseTypes DEF CommitSend, TypeOK, SendPhases
    <2>2. CASE End(w)
      <3>1. /\ txn[w].r \in Runs /\ txn[w].c \in Contacts /\ txn[w].day \in Days
        BY <1>5 DEF CommitSend, Shape, SendPhases
      <3>2. \/ UNCHANGED <<row, log>> /\ Lose(w)
            \/ /\ row' = [row EXCEPT ![txn[w].r][txn[w].c] = "sent"]
               /\ \/ log' = [log EXCEPT ![txn[w].c] = txn[w].day]
                  \/ log' = log
               /\ \/ unlogged' = unlogged \cup Overwritten(txn[w].c, txn[w].day)
                  \/ unlogged' = unlogged
        BY <1>5 DEF CommitSend
      <3>3. CASE UNCHANGED <<row, log>> /\ Lose(w)
        BY <2>1, <3>3
      <3>4. CASE ~(UNCHANGED <<row, log>> /\ Lose(w))
        <4>1. /\ row' \in [Runs -> [Contacts -> RowStatuses]]
              /\ log' \in [Contacts -> Days \cup {Never}]
              /\ unlogged' \subseteq Runs \X Contacts
          <5>1. "sent" \in RowStatuses
            BY DEF RowStatuses
          <5>2. Overwritten(txn[w].c, txn[w].day) \subseteq Runs \X Contacts
            BY <3>1 DEF Overwritten
          <5>3. row' = [row EXCEPT ![txn[w].r][txn[w].c] = "sent"]
            BY <3>2, <3>4
          <5>4. row' \in [Runs -> [Contacts -> RowStatuses]]
            BY <3>1, <5>1, <5>3, RowType DEF TypeOK
          <5>5. log' \in [Contacts -> Days \cup {Never}]
            BY <3>1, <3>2, <3>4 DEF TypeOK
          <5>6. unlogged' \subseteq Runs \X Contacts
            BY <3>2, <3>4, <5>2 DEF TypeOK
          <5>7. QED
            BY <5>4, <5>5, <5>6
        <4>2. \A v \in Workers : Shape(v)'
          BY <2>2 DEF End, TypeOK, Idle, Shape, SendPhases
        <4>3. QED
          BY <1>5, <2>2, <4>1, <4>2, EndType DEF CommitSend, TypeOK
      <3>5. QED
        BY <3>3, <3>4
    <2>3. QED
      BY <1>5, <2>1, <2>2 DEF CommitSend
  <1>6. QED
    BY <1>1, <1>2, <1>3, <1>4, <1>5 DEF Send

\* A death, and a night.
LEMMA FaultTypes ==
    /\ Types /\ (\E w \in Workers : WorkerDies(w)) => Types'
    /\ Types /\ NextDay => Types'
  <1> USE DEF Types, Shapes, history, grid, Live
  <1>1. ASSUME Types, NEW w \in Workers, WorkerDies(w) PROVE Types'
    <2>1. CASE Lose(w) /\ txn[w].pc \in SendPhases
      BY <1>1, <2>1, LoseTypes DEF WorkerDies, TypeOK
    <2>2. CASE End(w) /\ UNCHANGED unlogged
      <3>1. \A v \in Workers : Shape(v)'
        BY <1>1, <2>2 DEF End, TypeOK, Idle, Shape, SendPhases
      <3>2. QED
        BY <1>1, <2>2, <3>1, EndType DEF WorkerDies, TypeOK
    <2>3. QED
      BY <1>1, <2>1, <2>2 DEF WorkerDies, SendPhases
  <1>2. ASSUME Types, NextDay PROVE Types'
    <2>1. today' \in Days
      BY <1>2, PlannerAssumption DEF NextDay, TypeOK, Days
    <2>2. QED
      BY <1>2, <2>1 DEF NextDay, TypeOK, Shape
  <1>3. QED
    BY <1>1, <1>2

\* Every step keeps the types.
LEMMA TypesInductive == Types /\ [Next]_vars => Types'
  <1>1. Types /\ UNCHANGED vars => Types'
    BY DEF Types, TypeOK, Shapes, Shape, Live, vars, grid, history
  <1>2. QED
    BY <1>1, EditTypes, PlanTypes, RunTypes, MaterializeTypes, SendTypes, FaultTypes
       DEF Next

\* The types and shapes are those of every state.
LEMMA TypesHold == Spec => []Types
  BY InitTypes, TypesInductive, PTL DEF Spec

\* Every variable of Planner keeps its type: a run is on the date its send time
\* makes of its day, or on one an operator chose.
THEOREM PlannerTypes == Spec => []TypeOK
  <1>1. Types => TypeOK
    BY DEF Types
  <1>2. QED
    BY <1>1, TypesHold, PTL

-----------------------------------------------------------------------------
(* Twin runs.                                                                *)

\* A step of a run makes no new run, and a date that changed is a move.
LEMMA RunKeeps ==
    ASSUME Types, NEW r \in Runs, Run(r)
    PROVE  /\ UNCHANGED txn
           /\ \A s \in Runs : Live(s)' =>
                 /\ Live(s)
                 /\ runs'[s].made = runs[s].made /\ runs'[s].raced = runs[s].raced
                 /\ \/ runs'[s].moved
                    \/ runs'[s].moved = runs[s].moved /\ runs'[s].at = runs[s].at
  <1> USE DEF Types, TypeOK, RunRecords
  <1>1. ASSUME NEW st \in RunStatuses, BecomesStatus(r, st), Live(r)
        PROVE  /\ UNCHANGED txn
               /\ \A s \in Runs : Live(s)' =>
                     /\ Live(s)
                     /\ runs'[s].made = runs[s].made /\ runs'[s].raced = runs[s].raced
                     /\ runs'[s].moved = runs[s].moved /\ runs'[s].at = runs[s].at
    <2>1. \A s \in Runs : s # r => runs'[s] = runs[s]
      BY <1>1 DEF BecomesStatus
    <2>2. runs'[r] = [runs[r] EXCEPT !.status = st] /\ runs[r] \in RunRecords
      BY <1>1 DEF BecomesStatus
    <2>3. QED
      BY <1>1, <2>1, <2>2 DEF BecomesStatus, Live
  <1>2. CASE Dispatch(r) \/ Complete(r) \/ Stop(r) \/ Resume(r) \/ Delete(r)
    BY <1>1, <1>2 DEF Dispatch, Complete, Stop, Resume, Delete, Live, RunStatuses
  <1>3. ASSUME NEW day \in Days, Reschedule(r, day)
        PROVE  /\ UNCHANGED txn
               /\ \A s \in Runs : Live(s)' =>
                     /\ Live(s)
                     /\ runs'[s].made = runs[s].made /\ runs'[s].raced = runs[s].raced
                     /\ \/ runs'[s].moved
                        \/ runs'[s].moved = runs[s].moved /\ runs'[s].at = runs[s].at
    <2>1. \A s \in Runs : s # r => runs'[s] = runs[s]
      BY <1>3 DEF Reschedule
    <2>2. /\ runs'[r].made = runs[r].made /\ runs'[r].raced = runs[r].raced
          /\ runs'[r].moved
      BY <1>3 DEF Reschedule
    <2>3. Live(r) /\ UNCHANGED txn
      BY <1>3 DEF Reschedule
    <2>4. QED
      BY <2>1, <2>2, <2>3 DEF Live
  <1>4. QED
    BY <1>2, <1>3 DEF Run

\* A step that makes no run, and after which no worker has newly looked.
LEMMA QuietTwins ==
    ASSUME Twins, runs' = runs,
           \A v \in Workers : txn'[v].pc = "insert" => txn'[v] = txn[v]
    PROVE  Twins'
  BY DEF Twins, TwinsExplained, LooksFree, Live

\* A transaction that ends is not about to make a run.
LEMMA EndQuiet ==
    ASSUME Types, NEW w \in Workers, End(w)
    PROVE  \A v \in Workers : txn'[v].pc = "insert" => txn'[v] = txn[v]
  BY DEF Types, TypeOK, End, Idle

\* Materializing and sending make no run.
LEMMA WorkQuiet ==
    ASSUME Types, NEW w \in Workers, Materialize(w) \/ Send(w) \/ WorkerDies(w)
    PROVE  /\ runs' = runs
           /\ \A v \in Workers : txn'[v].pc = "insert" => txn'[v] = txn[v]
  <1> USE DEF Types, TypeOK
  <1>1. ASSUME NEW r \in Runs, ReadLog(w, r)
        PROVE  /\ runs' = runs
               /\ \A v \in Workers : txn'[v].pc = "insert" => txn'[v] = txn[v]
    BY <1>1 DEF ReadLog, Idle
  <1>2. ASSUME NEW r \in Runs, NEW c \in Contacts, SendStart(w, r, c)
        PROVE  /\ runs' = runs
               /\ \A v \in Workers : txn'[v].pc = "insert" => txn'[v] = txn[v]
    BY <1>2 DEF SendStart, Idle
  <1>3. CASE CommitLedger(w) \/ SendEnds(w) \/ CommitSend(w) \/ WorkerDies(w)
    BY <1>3, EndQuiet DEF CommitLedger, SendEnds, CommitSend, WorkerDies, Lose
  <1>4. CASE PostalAccepts(w)
    BY <1>4 DEF PostalAccepts, Txns
  <1>5. CASE LookUpLog(w)
    BY <1>5, EndQuiet DEF LookUpLog, Txns, Lose
  <1>6. QED
    BY <1>1, <1>2, <1>3, <1>4, <1>5 DEF Materialize, Send

\* run_planner.
LEMMA PlanTwins ==
    ASSUME Types, Twins, NEW w \in Workers, Plan(w) PROVE Twins'
  <1> USE DEF Types, TypeOK
  <1>1. CASE Tick(w)
    <2>1. \A v \in Workers : txn'[v].pc = "insert" => txn'[v] = txn[v]
      BY <1>1 DEF Tick, Idle
    <2>2. QED
      BY <1>1, <2>1, QuietTwins DEF Tick
  <1>2. CASE Look(w)
    <2>1. CASE End(w)
      BY <1>2, <2>1, EndQuiet, QuietTwins DEF Look
    <2>2. CASE ~End(w)
      <3>1. ~RunExists(txn[w].day) /\ Scheduled(w) /\ runs' = runs
        BY <1>2, <2>2 DEF Look
      <3>2. /\ txn'[w].day = txn[w].day
            /\ \A v \in Workers : v # w => txn'[v] = txn[v]
        BY <3>1 DEF Scheduled, Txns
      <3>3. \A s \in Runs : Live(s) /\ runs[s].made = txn[w].day =>
                runs[s].at # runs[s].made
        BY <3>1 DEF RunExists
      <3>4. LooksFree'
        BY <3>1, <3>2, <3>3 DEF LooksFree, Twins, Live
      <3>5. QED
        BY <3>1, <3>4 DEF Twins, TwinsExplained, Live
    <2>3. QED
      BY <2>1, <2>2
  <1>3. ASSUME NEW r \in Runs, Create(w, r) PROVE Twins'
    <2> DEFINE day == txn[w].day
    <2>1. /\ ~Live(r)
          /\ runs'[r].made = day /\ runs'[r].raced = txn[w].raced
          /\ \A s \in Runs : s # r => runs'[s] = runs[s]
      BY <1>3 DEF Create, Live
    <2>2. \A v \in Workers : txn'[v].pc = "insert" =>
              /\ v # w
              /\ txn[v].pc = "insert" /\ txn'[v].day = txn[v].day
              /\ txn'[v].raced \/ (txn'[v] = txn[v] /\ txn[v].day # day)
      <3>1. \A v \in Workers : v # w =>
                IF txn[v].pc = "insert" /\ txn[v].day = day
                THEN txn'[v] = [txn[v] EXCEPT !.raced = TRUE]
                ELSE txn'[v] = txn[v]
        BY <1>3 DEF Create
      <3>2. txn'[w].pc = "idle"
        BY <1>3 DEF Create, Idle
      <3>3. ASSUME NEW v \in Workers, txn'[v] = [txn[v] EXCEPT !.raced = TRUE]
            PROVE  txn'[v].raced /\ txn'[v].day = txn[v].day
        <4>1. txn[v] \in Txns
          OBVIOUS
        <4>2. QED
          BY <3>3, <4>1 DEF Txns
      <3>4. ASSUME NEW v \in Workers, txn'[v].pc = "insert"
            PROVE  /\ v # w
                   /\ txn[v].pc = "insert" /\ txn'[v].day = txn[v].day
                   /\ txn'[v].raced \/ (txn'[v] = txn[v] /\ txn[v].day # day)
        <4>1. CASE txn[v].pc = "insert" /\ txn[v].day = day
          BY <3>1, <3>2, <3>3, <3>4, <4>1
        <4>2. CASE ~(txn[v].pc = "insert" /\ txn[v].day = day)
          BY <3>1, <3>2, <3>4, <4>2
        <4>3. QED
          BY <4>1, <4>2
      <3>5. QED
        BY <3>4
    <2>3. \A s \in Runs : s # r /\ Live(s) /\ runs[s].made = day =>
              \/ txn[w].raced
              \/ runs[s].at # runs[s].made \/ runs[s].moved \/ runs[s].raced
      BY <1>3 DEF Create, Twins, LooksFree
    <2>4. TwinsExplained'
      BY <2>1, <2>3 DEF Twins, TwinsExplained, Live
    <2>5. LooksFree'
      BY <2>1, <2>2 DEF Twins, LooksFree, Live
    <2>6. QED
      BY <2>4, <2>5 DEF Twins
  <1>4. CASE CreateFails(w)
    BY <1>4, EndQuiet, QuietTwins DEF CreateFails
  <1>5. QED
    BY <1>1, <1>2, <1>3, <1>4 DEF Plan

\* Every step leaves two runs of a day their excuse.
LEMMA TwinsInductive == Types /\ Twins /\ [Next]_vars => Twins'
  <1> SUFFICES ASSUME Types, Twins, [Next]_vars PROVE Twins'
    OBVIOUS
  <1>1. CASE Edit \/ NextDay \/ UNCHANGED vars
    <2>1. runs' = runs /\ txn' = txn
      BY <1>1 DEF Edit, AddPlacement, RemovePlacement, MovePlacement, UpdateRecurring,
                  DeleteRecurring, NextDay, vars
    <2>2. QED
      BY <2>1, QuietTwins
  <1>2. ASSUME NEW r \in Runs, Run(r) PROVE Twins'
    BY <1>2, RunKeeps DEF Twins, TwinsExplained, LooksFree
  <1>3. ASSUME NEW w \in Workers, Plan(w) PROVE Twins'
    BY <1>3, PlanTwins
  <1>4. ASSUME NEW w \in Workers, Materialize(w) \/ Send(w) \/ WorkerDies(w) PROVE Twins'
    BY <1>4, WorkQuiet, QuietTwins
  <1>5. QED
    BY <1>1, <1>2, <1>3, <1>4 DEF Next

\* Two runs made for one day have an excuse: a date ensure_run does not look
\* at, an operator's move, or a look that another worker's commit overtook.
THEOREM TwinRunsExplained == Spec => []TwinsExplained
  <1>1. Init => Twins
    BY DEF Init, Twins, TwinsExplained, LooksFree, Live, Unmade, Idle
  <1>2. Twins => TwinsExplained
    BY DEF Twins
  <1>3. QED
    BY <1>1, <1>2, TypesHold, TwinsInductive, PTL DEF Spec

-----------------------------------------------------------------------------
(* Who has a row in hand.                                                    *)

Works == {"ledger"} \cup SendPhases

\* A worker goes on with the row or the run it had, or drops it.
Goes(v) ==
    \/ txn'[v].r = None /\ txn'[v].pc \notin Works
    \/ /\ txn'[v].r = txn[v].r /\ txn'[v].c = txn[v].c /\ txn'[v].skip = txn[v].skip
       /\ \/ txn'[v].pc = txn[v].pc
          \/ txn[v].pc \in SendPhases /\ txn'[v].pc \in SendPhases

\* A worker that ends drops what it had.
LEMMA EndGoes ==
    ASSUME Types, NEW w \in Workers, End(w)
    PROVE  \A v \in Workers : Goes(v) /\ (v # w => txn'[v] = txn[v])
  BY DEF Types, TypeOK, End, Idle, Goes, Works, SendPhases

\* Every step but ReadLog and SendStart takes up no row.
LEMMA StepsGo ==
    ASSUME Types, NEW w \in Workers,
           \/ Plan(w) \/ CommitLedger(w) \/ WorkerDies(w)
           \/ SendEnds(w) \/ PostalAccepts(w) \/ LookUpLog(w) \/ CommitSend(w)
    PROVE  \A v \in Workers : Goes(v)
  <1> USE DEF Types, TypeOK
  <1>1. CASE Tick(w)
    BY <1>1 DEF Tick, Idle, Goes, Works, SendPhases
  <1>2. CASE Look(w)
    <2>1. CASE End(w)
      BY <2>1, EndGoes
    <2>2. CASE Scheduled(w)
      <3>1. txn[w].r = None /\ txn[w] \in Txns
        BY <1>2 DEF Look, Shapes, Shape
      <3>2. QED
        BY <2>2, <3>1 DEF Scheduled, Goes, Works, SendPhases, Txns
    <2>3. QED
      BY <1>2, <2>1, <2>2 DEF Look
  <1>3. ASSUME NEW r \in Runs, Create(w, r) PROVE \A v \in Workers : Goes(v)
    <2>1. txn'[w].r = None /\ txn'[w].pc = "idle"
      BY <1>3 DEF Create, Idle
    <2>2. ASSUME NEW v \in Workers, v # w
          PROVE  /\ txn'[v].r = txn[v].r /\ txn'[v].c = txn[v].c
                 /\ txn'[v].pc = txn[v].pc /\ txn'[v].skip = txn[v].skip
      <3>1. txn[v] \in Txns
        OBVIOUS
      <3>2. \/ txn'[v] = [txn[v] EXCEPT !.raced = TRUE]
            \/ txn'[v] = txn[v]
        BY <1>3, <2>2 DEF Create
      <3>3. QED
        BY <3>1, <3>2 DEF Txns
    <2>3. QED
      BY <2>1, <2>2 DEF Goes, Works, SendPhases
  <1>4. CASE CreateFails(w) \/ CommitLedger(w) \/ SendEnds(w) \/ CommitSend(w) \/ WorkerDies(w)
    BY <1>4, EndGoes DEF CreateFails, CommitLedger, SendEnds, CommitSend, WorkerDies, Lose
  <1>5. CASE PostalAccepts(w)
    BY <1>5 DEF PostalAccepts, Goes, SendPhases, Txns
  <1>6. CASE LookUpLog(w)
    <2>1. CASE Lose(w)
      BY <2>1, EndGoes DEF Lose
    <2>2. CASE ~Lose(w)
      <3>1. PICK seen : txn' = [txn EXCEPT ![w] =
                            [@ EXCEPT !.pc = "commit", !.day = today, !.seen = seen]]
        BY <1>6, <2>2 DEF LookUpLog
      <3>2. QED
        BY <1>6, <3>1 DEF LookUpLog, Goes, SendPhases, Txns
    <2>3. QED
      BY <2>1, <2>2
  <1>7. QED
    BY <1>1, <1>2, <1>3, <1>4, <1>5, <1>6 DEF Plan

\* A step that changes no row and no status.
LEMMA QuietHeld ==
    ASSUME Types, Held,
           runs' = runs, row' = row, mailedOn' = mailedOn,
           \A v \in Workers : Goes(v)
    PROVE  Held'
  <1>1. Fresh'
    BY PlannerAssumption DEF Held, Fresh, Goes
  <1>2. Rows'
    BY DEF Held, Rows, Goes, Works, SendPhases, Live
  <1>3. OneEach'
    BY DEF Held, OneEach, Goes
  <1>4. QED
    BY <1>1, <1>2, <1>3 DEF Held

\* A worker that settles the row it has in hand, and ends.
LEMMA SettleHeld ==
    ASSUME Types, Held, NEW w \in Workers, txn[w].pc \in SendPhases, End(w),
           runs' = runs, mailedOn' = mailedOn,
           NEW s \in RowStatuses \ {"none"},
           row[txn[w].r][txn[w].c] = "pending",
           row' = [row EXCEPT ![txn[w].r][txn[w].c] = s]
    PROVE  Held'
  <1> DEFINE r == txn[w].r
             c == txn[w].c
  <1>1. r \in Runs /\ c \in Contacts /\ r # None /\ c # None
    BY PlannerAssumption DEF Types, Shapes, Shape
  <1>2. \A v \in Workers : Goes(v) /\ (v # w => txn'[v] = txn[v])
    BY EndGoes
  <1>3. Live(r) /\ \A q \in Runs : Live(q)' <=> Live(q)
    BY <1>1 DEF Held, Rows, Live
  <1>4. \A q \in Runs, d \in Contacts : row'[q][d] # row[q][d] => q = r /\ d = c
    BY <1>1 DEF Types, TypeOK
  <1>5. row'[r][c] = s
    BY <1>1 DEF Types, TypeOK
  <1>6. Fresh'
    BY <1>2, PlannerAssumption DEF Held, Fresh, Goes
  <1>7. OneEach'
    BY <1>2 DEF Held, OneEach, Goes
  <1>8. \A v \in Workers : v # w => ~(txn[v].r = r /\ txn[v].c = c)
    BY <1>1 DEF Held, OneEach
  <1>9. \A v \in Workers : txn[v].pc = "ledger" => txn[v].r # r
    BY <1>1, <1>3 DEF Held, Rows
  <1>10. txn'[w].pc = "idle"
    BY DEF End, Idle, Types, TypeOK
  <1>11. Rows'
    <2>1. \A q \in Runs, d \in Contacts :
              /\ ~Live(q)' => row'[q][d] = "none"
              /\ Live(q)' /\ mailedOn'[q][d] # Never => row'[q][d] # "none"
      BY <1>3, <1>4, <1>5 DEF Held, Rows
    <2>2. ASSUME NEW v \in Workers, Live(txn[v].r)', txn'[v].pc = "ledger",
                 NEW d \in Contacts
          PROVE  row'[txn'[v].r][d] = "none"
      <3>1. v # w /\ txn'[v] = txn[v] /\ txn[v].r \in Runs /\ Live(txn[v].r)
        BY <1>2, <1>3, <1>10, <2>2 DEF Types, Shapes, Shape
      <3>2. QED
        BY <1>4, <1>9, <2>2, <3>1 DEF Held, Rows
    <2>3. ASSUME NEW v \in Workers, Live(txn[v].r)', txn'[v].pc \in SendPhases
          PROVE  row'[txn'[v].r][txn'[v].c] = "pending"
      <3>1. v # w /\ txn'[v] = txn[v]
        BY <1>2, <1>10, <2>3 DEF SendPhases
      <3>2. txn[v].r \in Runs /\ txn[v].c \in Contacts /\ Live(txn[v].r)
        BY <1>3, <2>3, <3>1 DEF Types, Shapes, Shape
      <3>3. row[txn[v].r][txn[v].c] = "pending"
        BY <2>3, <3>1, <3>2 DEF Held, Rows
      <3>4. QED
        BY <1>4, <1>8, <3>1, <3>2, <3>3
    <2>4. QED
      BY <2>1, <2>2, <2>3 DEF Rows
  <1>12. QED
    BY <1>6, <1>7, <1>11 DEF Held

\* send_one.
LEMMA SendHeld ==
    ASSUME Types, Held, NEW w \in Workers, Send(w) PROVE Held'
  <1> DEFINE r == txn[w].r
             c == txn[w].c
  <1>1. ASSUME NEW q \in Runs, NEW d \in Contacts, SendStart(w, q, d) PROVE Held'
    <2>1. /\ txn'[w].pc = "postal" /\ txn'[w].r = q /\ txn'[w].c = d
          /\ \A v \in Workers : v # w => txn'[v] = txn[v]
      BY <1>1 DEF SendStart, Idle, Types, TypeOK
    <2>2. runs[q].status = "sending" /\ row[q][d] = "pending"
      BY <1>1 DEF SendStart
    <2>3. Fresh'
      BY <1>1, <2>1, <2>2 DEF SendStart, Held, Fresh, history
    <2>4. OneEach'
      BY <1>1, <2>1 DEF SendStart, SendingTo, Held, OneEach
    <2>5. Rows'
      BY <1>1, <2>1, <2>2 DEF SendStart, Held, Rows, Live, SendPhases, history
    <2>6. QED
      BY <2>3, <2>4, <2>5 DEF Held
  <1>2. CASE SendEnds(w)
    <2>1. CASE row' = row
      BY <1>2, <2>1, StepsGo, QuietHeld DEF SendEnds, history
    <2>2. CASE row' # row
      <3>1. row[r][c] = "pending" /\ row' = [row EXCEPT ![r][c] = "skipped"]
        <4>1. row[r][c] = "pending"
          BY <1>2, <2>2 DEF SendEnds
        <4>2. PICK s \in {row[r][c], "skipped"} : row' = [row EXCEPT ![r][c] = s]
          BY <1>2, <4>1 DEF SendEnds
        <4>3. [row EXCEPT ![r][c] = row[r][c]] = row
          BY DEF Types, TypeOK
        <4>4. QED
          BY <2>2, <4>1, <4>2, <4>3
      <3>2. QED
        BY <1>2, <3>1, SettleHeld DEF SendEnds, SendPhases, RowStatuses, history
    <2>3. QED
      BY <2>1, <2>2
  <1>3. CASE PostalAccepts(w)
    <2>1. \A v \in Workers : Goes(v)
      BY <1>3, StepsGo
    <2>2. r \in Runs /\ c \in Contacts /\ r # None
      BY <1>3, PlannerAssumption DEF PostalAccepts, Types, Shapes, Shape, SendPhases
    <2>3. \A q \in Runs, d \in Contacts :
              mailedOn'[q][d] # mailedOn[q][d] => q = r /\ d = c
      BY <1>3, <2>2 DEF PostalAccepts, Types, TypeOK
    <2>4. runs' = runs /\ row' = row
      BY <1>3 DEF PostalAccepts
    <2>5. Fresh'
      BY <2>1, <2>2, <2>3, <2>4, PlannerAssumption DEF Held, Fresh, Goes
    <2>6. Live(r) => row[r][c] = "pending"
      BY <1>3 DEF PostalAccepts, Held, Rows, SendPhases
    <2>7. Rows'
      BY <2>1, <2>3, <2>4, <2>6 DEF Held, Rows, Goes, Works, SendPhases, Live
    <2>8. OneEach'
      BY <2>1 DEF Held, OneEach, Goes
    <2>9. QED
      BY <2>5, <2>7, <2>8 DEF Held
  <1>4. CASE LookUpLog(w)
    BY <1>4, StepsGo, QuietHeld DEF LookUpLog
  <1>5. CASE CommitSend(w)
    <2>1. CASE row' = row
      BY <1>5, <2>1, StepsGo, QuietHeld DEF CommitSend
    <2>2. CASE row' # row
      <3>1. /\ ~Refused(w) /\ End(w)
            /\ row' = [row EXCEPT ![r][c] = "sent"]
        BY <1>5, <2>2 DEF CommitSend
      <3>2. QED
        <4>1. row[r][c] = "pending" /\ txn[w].pc \in SendPhases
          BY <1>5, <3>1 DEF CommitSend, Refused, SendPhases
        <4>2. runs' = runs /\ mailedOn' = mailedOn
          BY <1>5 DEF CommitSend
        <4>3. "sent" \in RowStatuses \ {"none"}
          BY DEF RowStatuses
        <4>4. QED
          BY <3>1, <4>1, <4>2, <4>3, SettleHeld
    <2>3. QED
      BY <2>1, <2>2
  <1>6. QED
    BY <1>1, <1>2, <1>3, <1>4, <1>5 DEF Send

\* A new run has no rows, and nobody knows of it.
LEMMA CreateHeld ==
    ASSUME Types, Held, NEW w \in Workers, NEW r \in Runs, Create(w, r)
    PROVE  Held'
  <1>1. \A v \in Workers : Goes(v)
    BY StepsGo DEF Plan
  <1>2. /\ row' = row /\ mailedOn' = mailedOn
        /\ \A s \in Runs : s # r => runs'[s] = runs[s]
        /\ runs[r].status = "none" /\ runs'[r].status = "scheduled"
    BY DEF Create, history, Types, TypeOK
  <1>3. Fresh'
    BY <1>1, <1>2, PlannerAssumption DEF Held, Fresh, Goes
  <1>4. \A v \in Workers : txn[v].r # r
    BY <1>2 DEF Held, Fresh
  <1>5. \A c \in Contacts : mailedOn[r][c] = Never /\ row[r][c] = "none"
    BY <1>2 DEF Held, Fresh, Rows, Live
  <1>6. Rows'
    <2>1. \A s \in Runs : s # r => (Live(s)' <=> Live(s))
      BY <1>2 DEF Live
    <2>2. ASSUME NEW v \in Workers, txn'[v].pc \in Works
          PROVE  /\ txn'[v].r = txn[v].r /\ txn'[v].c = txn[v].c
                 /\ txn[v].r \in Runs \ {r}
                 /\ txn[v].pc = "ledger" <=> txn'[v].pc = "ledger"
                 /\ txn[v].pc \in SendPhases <=> txn'[v].pc \in SendPhases
      <3>1. txn'[v].r = txn[v].r /\ txn'[v].c = txn[v].c /\ txn[v].pc \in Works
        BY <1>1, <2>2 DEF Goes, Works
      <3>2. txn[v].r \in Runs \ {r}
        BY <1>4, <3>1 DEF Types, Shapes, Shape, Works
      <3>3. QED
        BY <1>1, <2>2, <3>1, <3>2, PlannerAssumption DEF Goes, Works, SendPhases
    <2>3. QED
      BY <1>2, <1>5, <2>1, <2>2 DEF Held, Rows, Works
  <1>7. OneEach'
    BY <1>1 DEF Held, OneEach, Goes
  <1>8. QED
    BY <1>3, <1>6, <1>7 DEF Held

\* The steps of a run, and its deletion with its rows.
LEMMA RunHeld ==
    ASSUME Types, Held, NEW r \in Runs, Run(r) PROVE Held'
  <1>1. /\ UNCHANGED <<txn, mailedOn>>
        /\ \A s \in Runs : s # r => runs'[s] = runs[s]
        /\ Live(r)
        /\ \/ Live(r)' /\ row' = row
           \/ /\ ~Live(r)' /\ runs'[r].status # "none"
              /\ row' = [row EXCEPT ![r] = [c \in Contacts |-> "none"]]
    <2> USE DEF Types, TypeOK, RunRecords, Live, history
    <2>1. CASE Dispatch(r) \/ Complete(r) \/ Stop(r) \/ Resume(r)
      BY <2>1 DEF Dispatch, Complete, Stop, Resume, BecomesStatus
    <2>2. CASE Delete(r)
      BY <2>2 DEF Delete, BecomesStatus
    <2>3. CASE \E day \in Days : Reschedule(r, day)
      BY <2>3 DEF Reschedule
    <2>4. QED
      BY <2>1, <2>2, <2>3 DEF Run
  <1>2. Fresh'
    BY <1>1 DEF Held, Fresh, Live
  <1>3. OneEach'
    BY <1>1 DEF Held, OneEach
  <1>4. \A s \in Runs : Live(s)' => Live(s) /\ row'[s] = row[s]
    BY <1>1 DEF Live, Types, TypeOK
  <1>5. \A s \in Runs, c \in Contacts : ~Live(s)' => row'[s][c] = "none"
    BY <1>1 DEF Held, Rows, Live, Types, TypeOK
  <1>6. Rows'
    BY <1>1, <1>4, <1>5 DEF Held, Rows, Types, Shapes, Shape
  <1>7. QED
    BY <1>2, <1>3, <1>6 DEF Held

\* materialize_campaign.
LEMMA MaterializeHeld ==
    ASSUME Types, Held, NEW w \in Workers, Materialize(w) PROVE Held'
  <1>1. ASSUME NEW r \in Runs, ReadLog(w, r) PROVE Held'
    <2>1. /\ txn'[w].pc = "ledger" /\ txn'[w].r = r /\ txn'[w].c = None
          /\ \A v \in Workers : v # w => txn'[v] = txn[v]
          /\ UNCHANGED <<runs, row, mailedOn>>
      BY <1>1 DEF ReadLog, Idle, Types, TypeOK
    <2>2. runs[r].status = "sending" /\ (\A c \in Contacts : row[r][c] = "none")
      BY <1>1 DEF ReadLog
    <2>3. Fresh'
      BY <2>1, <2>2 DEF Held, Fresh
    <2>4. \A v \in Workers : ~(txn[v].r = r /\ txn[v].c = None)
      BY <1>1, PlannerAssumption
         DEF ReadLog, Materializing, Types, TypeOK, Txns, Phases, Shapes, Shape, SendPhases
    <2>5. OneEach'
      BY <2>1, <2>4 DEF Held, OneEach
    <2>6. Rows'
      BY <2>1, <2>2 DEF Held, Rows, Live, SendPhases
    <2>7. QED
      BY <2>3, <2>5, <2>6 DEF Held
  <1>2. CASE CommitLedger(w)
    <2> DEFINE r == txn[w].r
    <2>1. txn[w].pc = "ledger" /\ r \in Runs /\ r # None /\ txn[w].c = None
      BY <1>2, PlannerAssumption DEF CommitLedger, Types, Shapes, Shape
    <2>2. /\ \A v \in Workers : Goes(v) /\ (v # w => txn'[v] = txn[v])
          /\ txn'[w].pc = "idle" /\ runs' = runs /\ mailedOn' = mailedOn
      BY <1>2, EndGoes DEF CommitLedger, End, Idle, Types, TypeOK, history
    <2>3. CASE ~Live(r)
      BY <1>2, <2>2, <2>3, QuietHeld DEF CommitLedger
    <2>4. CASE Live(r)
      <3>1. /\ \A s \in Runs : s # r => row'[s] = row[s]
            /\ \A c \in Contacts : row'[r][c] # "none"
        BY <1>2, <2>1, <2>4 DEF CommitLedger, Types, TypeOK
      <3>2. Fresh'
        BY <2>2, PlannerAssumption DEF Held, Fresh, Goes
      <3>3. OneEach'
        BY <2>2 DEF Held, OneEach, Goes
      <3>4. \A c \in Contacts : row[r][c] = "none"
        BY <2>1, <2>4 DEF Held, Rows
      <3>5. ASSUME NEW v \in Workers, v # w, txn[v].pc \in Works PROVE txn[v].r # r
        <4>1. CASE txn[v].pc = "ledger"
          BY <2>1, <3>5, <4>1 DEF Held, OneEach, Types, Shapes, Shape
        <4>2. CASE txn[v].pc \in SendPhases
          BY <2>4, <3>4, <4>2 DEF Held, Rows, Types, Shapes, Shape
        <4>3. QED
          BY <3>5, <4>1, <4>2 DEF Works
      <3>6. \A s \in Runs : Live(s)' <=> Live(s)
        BY <2>2 DEF Live
      <3>7. \A s \in Runs, c \in Contacts :
                /\ ~Live(s)' => row'[s][c] = "none"
                /\ Live(s)' /\ mailedOn'[s][c] # Never => row'[s][c] # "none"
        BY <2>2, <2>4, <3>1, <3>6 DEF Held, Rows
      <3>8. ASSUME NEW v \in Workers, txn'[v].pc \in Works
            PROVE  /\ txn'[v] = txn[v] /\ txn[v].r \in Runs
                   /\ row'[txn[v].r] = row[txn[v].r]
        BY <2>2, <3>1, <3>5, <3>8 DEF Works, SendPhases, Types, Shapes, Shape
      <3>9. Rows'
        BY <3>6, <3>7, <3>8 DEF Held, Rows, Works
      <3>10. QED
        BY <3>2, <3>3, <3>9 DEF Held
    <2>5. QED
      BY <2>3, <2>4
  <1>3. QED
    BY <1>1, <1>2 DEF Materialize

\* Every step keeps the rows and the workers that have them in hand in accord.
LEMMA HeldInductive == Types /\ Held /\ [Next]_vars => Held'
  <1> SUFFICES ASSUME Types, Held, [Next]_vars PROVE Held'
    OBVIOUS
  <1>1. CASE Edit \/ NextDay \/ UNCHANGED vars
    <2>1. UNCHANGED <<runs, row, mailedOn, txn>>
      BY <1>1 DEF Edit, AddPlacement, RemovePlacement, MovePlacement, UpdateRecurring,
                  DeleteRecurring, NextDay, vars, history
    <2>2. QED
      BY <2>1, QuietHeld DEF Goes
  <1>2. ASSUME NEW r \in Runs, Run(r) PROVE Held'
    BY <1>2, RunHeld
  <1>3. ASSUME NEW w \in Workers, Plan(w) PROVE Held'
    <2>1. CASE Tick(w) \/ Look(w) \/ CreateFails(w)
      BY <1>3, <2>1, StepsGo, QuietHeld DEF Tick, Look, CreateFails, history
    <2>2. QED
      BY <1>3, <2>1, CreateHeld DEF Plan
  <1>4. ASSUME NEW w \in Workers, Materialize(w) PROVE Held'
    BY <1>4, MaterializeHeld
  <1>5. ASSUME NEW w \in Workers, Send(w) PROVE Held'
    BY <1>5, SendHeld
  <1>6. ASSUME NEW w \in Workers, WorkerDies(w) PROVE Held'
    BY <1>6, StepsGo, QuietHeld DEF WorkerDies
  <1>7. QED
    BY <1>1, <1>2, <1>3, <1>4, <1>5, <1>6 DEF Next

-----------------------------------------------------------------------------
(* What the log has.                                                         *)

\* The days in the state are numbers.
LEMMA Numbers ==
    ASSUME Types
    PROVE  /\ today \in Nat
           /\ \A s \in Runs, c \in Contacts : mailedOn[s][c] \in Nat
           /\ \A c \in Contacts : log[c] \in Nat
           /\ \A w \in Workers : txn[w].day \in Nat
  <1>1. \A d \in Days \cup {Never} : d \in Nat
    BY DaysAreNumbers
  <1>2. \A w \in Workers : txn[w].day \in Days \cup {Never}
    BY DEF Types, TypeOK, Txns
  <1>3. QED
    BY <1>1, <1>2 DEF Types, TypeOK

\* A step of those that send nothing, and record nothing.
LEMMA QuietSaid ==
    ASSUME Types, Said,
           \A s \in Runs, c \in Contacts : row'[s][c] = "pending" =>
               row[s][c] = "pending" \/ mailedOn[s][c] = Never,
           exists' => exists /\ UNCHANGED log,
           UNCHANGED <<mailedOn, unlogged>>,
           today' \in Days, today <= today',
           \A v \in Workers :
               txn'[v] = txn[v] \/ (txn[v].pc \notin SendPhases /\ txn'[v].pc \notin SendPhases),
           Types'
    PROVE  Said'
  <1>1. \A s \in Runs, c \in Contacts : Telling(s, c)' <=> Telling(s, c)
    BY DEF Telling, SendPhases
  <1>2. \A s \in Runs, c \in Contacts : SendingTo(s, c)' <=> SendingTo(s, c)
    <2>1. ASSUME NEW v \in Workers, NEW c \in Contacts, txn[v].c = c \/ txn'[v].c = c
          PROVE  txn'[v] = txn[v]
      BY <2>1, PlannerAssumption
         DEF Types, TypeOK, Txns, Phases, Shapes, Shape, SendPhases
    <2>2. QED
      BY <2>1 DEF SendingTo
  <1>3. Recorded'
    BY <1>1, <1>2 DEF Said, Recorded, Told
  <1>4. Dated'
    <2>1. \A s \in Runs, c \in Contacts : mailedOn'[s][c] <= today'
      <3>1. today' \in Nat
        BY DaysAreNumbers
      <3>2. QED
        BY <3>1, Numbers DEF Said, Dated
    <2>2. ASSUME NEW v \in Workers, txn'[v].pc = "commit"
          PROVE  /\ mailedOn'[txn'[v].r][txn'[v].c] <= txn'[v].day
                 /\ txn'[v].day <= today'
      <3>1. txn'[v] = txn[v] /\ txn[v].day \in Days
        BY <2>2 DEF SendPhases, Types, Shapes, Shape
      <3>2. today' \in Nat /\ today \in Nat /\ txn[v].day \in Nat
        BY DaysAreNumbers, Numbers
      <3>3. QED
        BY <2>2, <3>1, <3>2 DEF Said, Dated
    <2>3. ASSUME NEW v \in Workers, txn'[v].pc \in SendPhases, exists'
          PROVE  txn'[v].keyed
      BY <2>3 DEF Said, Dated
    <2>4. QED
      BY <2>1, <2>2, <2>3 DEF Dated
  <1>5. QED
    BY <1>3, <1>4 DEF Said

\* A worker that ends without a mail, or whose mail is lost.
LEMMA DropSaid ==
    ASSUME Types, Held, Said, NEW w \in Workers, End(w),
           UNCHANGED <<exists, log, today, mailedOn>>,
           unlogged \subseteq unlogged',
           txn[w].pc \in {"record", "commit"} => <<txn[w].r, txn[w].c>> \in unlogged',
           \A s \in Runs, c \in Contacts :
               row'[s][c] # row[s][c] => s = txn[w].r /\ c = txn[w].c
    PROVE  Said'
  <1>1. /\ \A v \in Workers : v # w => txn'[v] = txn[v]
        /\ txn'[w].pc = "idle" /\ txn'[w].r = None /\ txn'[w].c = None
    BY DEF End, Idle, Types, TypeOK
  <1>2. Dated'
    BY <1>1 DEF Said, Dated, SendPhases
  <1>3. ASSUME NEW s \in Runs, NEW c \in Contacts, mailedOn'[s][c] # Never
        PROVE  <<s, c>> \in unlogged' \/ Telling(s, c)' \/ Told(s, c)'
    <2>1. <<s, c>> \in unlogged \/ Telling(s, c) \/ Told(s, c)
      BY <1>3 DEF Said, Recorded
    <2>2. CASE txn[w].r = s /\ txn[w].c = c
      <3>1. ~Told(s, c)
        BY <2>2 DEF Told, SendingTo
      <3>2. ASSUME Telling(s, c) PROVE txn[w].pc \in {"record", "commit"}
        BY <2>2, <3>2, PlannerAssumption DEF Telling, Held, OneEach
      <3>3. QED
        BY <2>1, <2>2, <3>1, <3>2
    <2>3. CASE ~(txn[w].r = s /\ txn[w].c = c)
      <3>1. Telling(s, c) => Telling(s, c)'
        BY <1>1, <2>3 DEF Telling
      <3>2. ~SendingTo(s, c) => ~SendingTo(s, c)'
        BY <1>1, PlannerAssumption DEF SendingTo
      <3>3. row'[s][c] = row[s][c]
        BY <2>3
      <3>4. QED
        BY <2>1, <3>1, <3>2, <3>3 DEF Told
    <2>4. QED
      BY <2>2, <2>3
  <1>4. QED
    BY <1>2, <1>3 DEF Said, Recorded

\* materialize_campaign: a row it adds is of a run that mailed nothing yet.
LEMMA MaterializeSaid ==
    ASSUME Types, Held, Said, NEW w \in Workers, Materialize(w), Types'
    PROVE  Said'
  <1>1. ASSUME NEW r \in Runs, ReadLog(w, r) PROVE Said'
    <2>1. \A v \in Workers :
              txn'[v] = txn[v] \/ (txn[v].pc \notin SendPhases /\ txn'[v].pc \notin SendPhases)
      BY <1>1 DEF ReadLog, Idle, SendPhases, Types, TypeOK
    <2>2. QED
      BY <1>1, <2>1, Numbers, QuietSaid DEF ReadLog, grid, Types, TypeOK
  <1>2. CASE CommitLedger(w)
    <2>1. \A v \in Workers :
              txn'[v] = txn[v] \/ (txn[v].pc \notin SendPhases /\ txn'[v].pc \notin SendPhases)
      BY <1>2 DEF CommitLedger, End, Idle, SendPhases, Types, TypeOK
    <2>2. ASSUME NEW s \in Runs, NEW c \in Contacts, row'[s][c] = "pending"
          PROVE  row[s][c] = "pending" \/ mailedOn[s][c] = Never
      <3>1. CASE s = txn[w].r /\ Live(s)
        BY <1>2, <3>1 DEF CommitLedger, Held, Rows
      <3>2. CASE ~(s = txn[w].r /\ Live(s))
        BY <1>2, <2>2, <3>2 DEF CommitLedger, Types, TypeOK
      <3>3. QED
        BY <3>1, <3>2
    <2>3. QED
      BY <1>2, <2>1, <2>2, Numbers, QuietSaid DEF CommitLedger, history, grid, Types, TypeOK
  <1>3. QED
    BY <1>1, <1>2 DEF Materialize

\* A send begins: the row has no mail the log could be told of.
LEMMA StartSaid ==
    ASSUME Types, Held, Said, NEW w \in Workers, NEW r \in Runs, NEW c \in Contacts,
           SendStart(w, r, c)
    PROVE  Said'
  <1>1. /\ txn'[w].pc = "postal" /\ txn'[w].r = r /\ txn'[w].c = c /\ txn'[w].keyed = exists
        /\ txn[w].pc = "idle"
        /\ \A v \in Workers : v # w => txn'[v] = txn[v]
    BY DEF SendStart, Idle, Types, TypeOK
  <1>2. UNCHANGED <<exists, row, log, today, mailedOn, unlogged>>
    BY DEF SendStart, grid, history
  <1>3. Dated'
    BY <1>1, <1>2 DEF Said, Dated, SendPhases
  <1>4. ASSUME NEW s \in Runs, NEW d \in Contacts, mailedOn'[s][d] # Never
        PROVE  <<s, d>> \in unlogged' \/ Telling(s, d)' \/ Told(s, d)'
    <2>1. <<s, d>> \in unlogged \/ Telling(s, d) \/ Told(s, d)
      BY <1>2, <1>4 DEF Said, Recorded
    <2>2. Telling(s, d) => Telling(s, d)'
      BY <1>1 DEF Telling
    <2>3. CASE s = r /\ d = c
      BY <1>2, <2>1, <2>3 DEF SendStart, Told, Telling, SendingTo
    <2>4. CASE ~(s = r /\ d = c)
      <3>1. ~SendingTo(s, d) => ~SendingTo(s, d)'
        BY <1>1, <2>4 DEF SendingTo
      <3>2. QED
        BY <1>2, <2>1, <2>2, <3>1 DEF Told
    <2>5. QED
      BY <2>3, <2>4
  <1>5. QED
    BY <1>3, <1>4 DEF Said, Recorded

\* Postal accepts: the worker is about to say so.
LEMMA AcceptSaid ==
    ASSUME Types, Held, Said, NEW w \in Workers, PostalAccepts(w)
    PROVE  Said'
  <1> DEFINE r == txn[w].r
             c == txn[w].c
  <1>1. /\ r \in Runs /\ c \in Contacts /\ r # None
        /\ txn'[w].pc = "record" /\ txn'[w].r = r /\ txn'[w].c = c
        /\ txn'[w].keyed = txn[w].keyed /\ txn[w].pc = "postal"
        /\ \A v \in Workers : v # w => txn'[v] = txn[v]
    BY PlannerAssumption
       DEF PostalAccepts, Types, TypeOK, Txns, Shapes, Shape, SendPhases
  <1>2. UNCHANGED <<exists, row, log, today, unlogged>>
    BY DEF PostalAccepts, grid
  <1>3. /\ mailedOn'[r][c] = today
        /\ \A s \in Runs, d \in Contacts : ~(s = r /\ d = c) => mailedOn'[s][d] = mailedOn[s][d]
    BY <1>1 DEF PostalAccepts, Types, TypeOK
  <1>4. \A v \in Workers : v # w => ~(txn[v].r = r /\ txn[v].c = c)
    BY <1>1 DEF Held, OneEach
  <1>5. Dated'
    <2>1. \A s \in Runs, d \in Contacts : mailedOn'[s][d] <= today'
      BY <1>2, <1>3, Numbers DEF Said, Dated
    <2>2. ASSUME NEW v \in Workers, txn'[v].pc = "commit"
          PROVE  mailedOn'[txn'[v].r][txn'[v].c] <= txn'[v].day /\ txn'[v].day <= today'
      <3>1. v # w /\ txn'[v] = txn[v]
        BY <1>1, <2>2
      <3>2. txn[v].r \in Runs /\ txn[v].c \in Contacts
        BY <2>2, <3>1 DEF Types, Shapes, Shape, SendPhases
      <3>3. QED
        BY <1>2, <1>3, <1>4, <2>2, <3>1, <3>2 DEF Said, Dated
    <2>3. \A v \in Workers : txn'[v].pc \in SendPhases /\ exists' => txn'[v].keyed
      BY <1>1, <1>2 DEF Said, Dated, SendPhases
    <2>4. QED
      BY <2>1, <2>2, <2>3 DEF Dated
  <1>6. ASSUME NEW s \in Runs, NEW d \in Contacts, mailedOn'[s][d] # Never
        PROVE  <<s, d>> \in unlogged' \/ Telling(s, d)' \/ Told(s, d)'
    <2>1. CASE s = r /\ d = c
      BY <1>1, <2>1 DEF Telling
    <2>2. CASE ~(s = r /\ d = c)
      <3>1. <<s, d>> \in unlogged \/ Telling(s, d) \/ Told(s, d)
        BY <1>3, <1>6, <2>2 DEF Said, Recorded
      <3>2. Telling(s, d) => Telling(s, d)'
        BY <1>1 DEF Telling
      <3>3. ~SendingTo(s, d) => ~SendingTo(s, d)'
        BY <1>1 DEF SendingTo
      <3>4. QED
        BY <1>2, <1>3, <2>2, <3>1, <3>2, <3>3 DEF Told
    <2>3. QED
      BY <2>1, <2>2
  <1>7. QED
    BY <1>5, <1>6 DEF Said, Recorded

\* The look-up before the log's entry is written.
LEMMA LookUpSaid ==
    ASSUME Types, Held, Said, NEW w \in Workers, LookUpLog(w)
    PROVE  Said'
  <1> DEFINE r == txn[w].r
             c == txn[w].c
  <1>1. CASE Lose(w)
    BY <1>1, DropSaid DEF LookUpLog, Lose, grid
  <1>2. CASE ~Lose(w)
    <2>1. PICK seen : txn' = [txn EXCEPT ![w] =
                          [@ EXCEPT !.pc = "commit", !.day = today, !.seen = seen]]
      BY <1>2 DEF LookUpLog
    <2>2. /\ r \in Runs /\ c \in Contacts
          /\ txn'[w].pc = "commit" /\ txn'[w].r = r /\ txn'[w].c = c
          /\ txn'[w].day = today /\ txn'[w].keyed = txn[w].keyed /\ txn[w].pc = "record"
          /\ \A v \in Workers : v # w => txn'[v] = txn[v]
      BY <2>1 DEF LookUpLog, Types, TypeOK, Txns, Shapes, Shape, SendPhases
    <2>3. UNCHANGED <<exists, row, log, today, mailedOn, unlogged>>
      BY <1>2 DEF LookUpLog, grid
    <2>4. \A s \in Runs, d \in Contacts :
              (Telling(s, d)' <=> Telling(s, d)) /\ (SendingTo(s, d)' <=> SendingTo(s, d))
      BY <2>2 DEF Telling, SendingTo
    <2>5. Recorded'
      BY <2>3, <2>4 DEF Said, Recorded, Told
    <2>6. Dated'
      BY <2>2, <2>3, Numbers DEF Said, Dated, SendPhases
    <2>7. QED
      BY <2>5, <2>6 DEF Said
  <1>3. QED
    BY <1>1, <1>2

\* The commit of phase 4, with the entry of the log.
LEMMA CommitSaid ==
    ASSUME Types, Held, Said, NEW w \in Workers, CommitSend(w)
    PROVE  Said'
  <1> DEFINE r == txn[w].r
             c == txn[w].c
             day == txn[w].day
  <1>1. CASE Lose(w) /\ UNCHANGED <<row, log>>
    BY <1>1, DropSaid DEF CommitSend, Lose, grid
  <1>2. CASE ~(Lose(w) /\ UNCHANGED <<row, log>>)
    <2>1. /\ End(w) /\ txn[w].pc = "commit"
          /\ row' = [row EXCEPT ![r][c] = "sent"]
          /\ UNCHANGED <<exists, today, mailedOn>>
          /\ IF txn[w].keyed
             THEN /\ log' = [log EXCEPT ![c] = day]
                  /\ unlogged' = unlogged \cup Overwritten(c, day)
             ELSE UNCHANGED <<log, unlogged>>
      BY <1>2 DEF CommitSend, grid
    <2>2. /\ r \in Runs /\ c \in Contacts /\ r # None
          /\ mailedOn[r][c] <= day /\ (exists => txn[w].keyed)
      BY <2>1, PlannerAssumption DEF Types, Shapes, Shape, SendPhases, Said, Dated
    <2>3. /\ row'[r][c] = "sent"
          /\ \A s \in Runs, d \in Contacts : ~(s = r /\ d = c) => row'[s][d] = row[s][d]
      BY <2>1, <2>2 DEF Types, TypeOK
    <2>4. /\ \A v \in Workers : v # w => txn'[v] = txn[v]
          /\ txn'[w].pc = "idle" /\ txn'[w].r = None /\ txn'[w].c = None
      BY <2>1 DEF End, Idle, Types, TypeOK
    <2>5. \A v \in Workers : v # w => ~(txn[v].r = r /\ txn[v].c = c)
      BY <2>2 DEF Held, OneEach
    <2>6. Dated'
      BY <2>1, <2>4 DEF Said, Dated, SendPhases
    <2>7. ASSUME NEW s \in Runs, NEW d \in Contacts, mailedOn'[s][d] # Never
          PROVE  <<s, d>> \in unlogged' \/ Telling(s, d)' \/ Told(s, d)'
      <3>1. CASE s = r /\ d = c
        <4>1. ~SendingTo(s, d)'
          BY <2>2, <2>4, <2>5, <3>1 DEF SendingTo
        <4>2. exists' => log'[d] = day
          BY <2>1, <2>2, <3>1 DEF Types, TypeOK
        <4>3. mailedOn'[s][d] <= day /\ day \in Nat /\ mailedOn[s][d] \in Nat
          BY <2>1, <2>2, <3>1, Numbers
        <4>4. QED
          BY <2>1, <2>3, <3>1, <4>1, <4>2, <4>3 DEF Told
      <3>2. CASE ~(s = r /\ d = c)
        <4>1. <<s, d>> \in unlogged \/ Telling(s, d) \/ Told(s, d)
          BY <2>1, <2>7 DEF Said, Recorded
        <4>2. Telling(s, d) => Telling(s, d)'
          BY <2>4, <3>2 DEF Telling
        <4>3. ~SendingTo(s, d) => ~SendingTo(s, d)'
          BY <2>4, PlannerAssumption DEF SendingTo
        <4>4. unlogged \subseteq unlogged'
          BY <2>1
        <4>5. ASSUME Told(s, d) PROVE <<s, d>> \in unlogged' \/ Told(s, d)'
          <5>1. CASE log'[d] = log[d]
            BY <2>1, <2>3, <3>2, <4>3, <4>5, <5>1 DEF Told
          <5>2. CASE log'[d] # log[d]
            <6>1. d = c /\ log'[d] = day /\ unlogged' = unlogged \cup Overwritten(c, day)
              BY <2>1, <5>2 DEF Types, TypeOK
            <6>2. CASE mailedOn[s][d] > day
              BY <6>1, <6>2 DEF Overwritten
            <6>3. CASE ~(mailedOn[s][d] > day)
              <7>1. mailedOn[s][d] <= day
                BY <6>3, Numbers
              <7>2. log'[d] >= mailedOn'[s][d]
                BY <2>1, <6>1, <7>1, Numbers
              <7>3. QED
                BY <2>3, <3>2, <4>3, <4>5, <7>2 DEF Told
            <6>4. QED
              BY <6>2, <6>3
          <5>3. QED
            BY <5>1, <5>2
        <4>6. QED
          BY <4>1, <4>2, <4>4, <4>5
      <3>3. QED
        BY <3>1, <3>2
    <2>8. QED
      BY <2>6, <2>7 DEF Said, Recorded
  <1>3. QED
    BY <1>1, <1>2

\* Every step keeps account of the mails the log has yet to be told of.
LEMMA SaidInductive == Types /\ Held /\ Said /\ [Next]_vars => Said'
  <1> SUFFICES ASSUME Types, Held, Said, [Next]_vars PROVE Said'
    OBVIOUS
  <1>1. Types'
    BY TypesInductive
  <1>2. CASE Edit \/ NextDay \/ UNCHANGED vars
    <2>1. /\ UNCHANGED <<row, mailedOn, txn, unlogged>>
          /\ exists' => exists /\ UNCHANGED log
          /\ today' = today \/ today' = today + 1
      BY <1>2 DEF Edit, AddPlacement, RemovePlacement, MovePlacement, UpdateRecurring,
                  DeleteRecurring, NextDay, vars, grid, history
    <2>2. today' \in Days /\ today <= today'
      BY <1>1, <2>1, Numbers DEF Types, TypeOK
    <2>3. QED
      BY <1>1, <2>1, <2>2, QuietSaid
  <1>3. ASSUME NEW r \in Runs, Run(r) PROVE Said'
    <2>1. UNCHANGED <<exists, log, today, txn, mailedOn, unlogged>>
      BY <1>3 DEF Run, Dispatch, Complete, Stop, Resume, Delete, Reschedule,
                  BecomesStatus, grid, history
    <2>2. ASSUME NEW s \in Runs, NEW c \in Contacts, row'[s][c] = "pending"
          PROVE  row[s][c] = "pending"
      BY <1>3, <2>2 DEF Run, Dispatch, Complete, Stop, Resume, Delete, Reschedule,
                        Types, TypeOK
    <2>3. today' \in Days /\ today <= today'
      BY <1>1, <2>1, Numbers DEF Types, TypeOK
    <2>4. QED
      BY <1>1, <2>1, <2>2, <2>3, QuietSaid
  <1>4. ASSUME NEW w \in Workers, Plan(w) PROVE Said'
    <2>1. UNCHANGED <<exists, row, log, today, mailedOn, unlogged>>
      BY <1>4 DEF Plan, Tick, Look, Create, CreateFails, grid, history
    <2>2. \A v \in Workers :
              txn'[v] = txn[v] \/ (txn[v].pc \notin SendPhases /\ txn'[v].pc \notin SendPhases)
      <3>1. CASE Tick(w)
        BY <3>1 DEF Tick, Idle, SendPhases, Types, TypeOK
      <3>2. CASE Look(w)
        <4>1. txn[w] \in Txns /\ txn[w].pc = "look"
          BY <3>2 DEF Look, Types, TypeOK
        <4>2. CASE End(w)
          BY <4>1, <4>2 DEF End, Idle, SendPhases, Types, TypeOK
        <4>3. CASE Scheduled(w)
          BY <4>1, <4>3 DEF Scheduled, SendPhases, Types, TypeOK, Txns
        <4>4. QED
          BY <3>2, <4>2, <4>3 DEF Look
      <3>3. ASSUME NEW r \in Runs, Create(w, r), NEW v \in Workers
            PROVE  txn'[v] = txn[v] \/ (txn[v].pc \notin SendPhases /\ txn'[v].pc \notin SendPhases)
        <4>1. txn[v] \in Txns
          BY DEF Types, TypeOK
        <4>2. QED
          BY <3>3, <4>1 DEF Create, Idle, SendPhases, Txns
      <3>4. CASE CreateFails(w)
        BY <3>4 DEF CreateFails, End, Idle, SendPhases, Types, TypeOK
      <3>5. QED
        BY <1>4, <3>1, <3>2, <3>3, <3>4 DEF Plan
    <2>3. today' \in Days /\ today <= today'
      BY <1>1, <2>1, Numbers DEF Types, TypeOK
    <2>4. QED
      BY <1>1, <2>1, <2>2, <2>3, QuietSaid
  <1>5. ASSUME NEW w \in Workers, Materialize(w) PROVE Said'
    BY <1>1, <1>5, MaterializeSaid
  <1>6. ASSUME NEW w \in Workers, Send(w) PROVE Said'
    <2>1. CASE SendEnds(w)
      <3>1. /\ End(w) /\ txn[w].pc = "postal"
            /\ UNCHANGED <<exists, log, today, mailedOn, unlogged>>
        BY <2>1 DEF SendEnds, grid, history
      <3>2. ASSUME NEW s \in Runs, NEW c \in Contacts, row'[s][c] # row[s][c]
            PROVE  s = txn[w].r /\ c = txn[w].c
        BY <2>1, <3>2 DEF SendEnds, Types, TypeOK
      <3>3. QED
        BY <3>1, <3>2, DropSaid
    <2>2. QED
      BY <1>6, <2>1, StartSaid, AcceptSaid, LookUpSaid, CommitSaid DEF Send
  <1>7. ASSUME NEW w \in Workers, WorkerDies(w) PROVE Said'
    BY <1>7, DropSaid DEF WorkerDies, Lose, grid
  <1>8. QED
    BY <1>2, <1>3, <1>4, <1>5, <1>6, <1>7 DEF Next

\* The layers so far hold at the start.
LEMMA InitHeldSaid == Init => Held /\ Said
  <1> SUFFICES ASSUME Init PROVE Held /\ Said
    OBVIOUS
  <1>1. Held
    BY PlannerAssumption
       DEF Init, Held, Fresh, Rows, OneEach, Unmade, Idle, Live, SendPhases
  <1>2. today \in Nat
    BY PlannerAssumption DEF Init
  <1>3. Said
    BY <1>2 DEF Init, Said, Dated, Recorded, Idle, SendPhases, Never
  <1>4. QED
    BY <1>1, <1>3

\* A row is SENT with its mail in the log, in one commit; an entry of an earlier
\* day may overwrite it, as one of a death in between may miss.
THEOREM SentRowsLogged == Spec => []SentIsLogged
  <1>1. ASSUME Types, Held, Said PROVE SentIsLogged
    <2>1. SUFFICES ASSUME NEW r \in Runs, NEW c \in Contacts, exists, row[r][c] = "sent"
                   PROVE  log[c] >= mailedOn[r][c] \/ <<r, c>> \in unlogged
      BY DEF SentIsLogged
    <2>2. CASE mailedOn[r][c] = Never
      BY <1>1, <2>2, Numbers DEF Never
    <2>3. CASE mailedOn[r][c] # Never
      <3>1. ~Telling(r, c)
        <4>1. Live(r)
          BY <1>1, <2>1 DEF Held, Rows
        <4>2. QED
          BY <1>1, <2>1, <4>1 DEF Telling, Held, Rows, SendPhases
      <3>2. QED
        BY <1>1, <2>1, <2>3, <3>1 DEF Said, Recorded, Told
    <2>4. QED
      BY <2>2, <2>3
  <1>2. QED
    BY <1>1, InitHeldSaid, TypesHold, HeldInductive, SaidInductive, PTL DEF Spec

-----------------------------------------------------------------------------
(* The frequency rule.                                                       *)

\* A step that opens no row.
LEMMA OpenGoes ==
    ASSUME Types, \A v \in Workers : Goes(v),
           \A r \in Runs, c \in Contacts : row'[r][c] = "pending" => Open(r, c)
    PROVE  \A r \in Runs, c \in Contacts : Open(r, c)' => Open(r, c)
  BY PlannerAssumption DEF Open, SendingTo, Goes, Works, SendPhases

\* The same, and it has no mail accepted.
LEMMA QuietMails ==
    ASSUME Types, Mails, exists' => exists, mailedOn' = mailedOn,
           \A r \in Runs, c \in Contacts : Open(r, c)' => Open(r, c),
           \A c \in Contacts : beside[c] \subseteq beside'[c],
           unlogged \subseteq unlogged',
           today \in Nat, today' \in Nat, today <= today'
    PROVE  Mails'
  <1>1. Side'
    BY DEF Mails, Side, Beside
  <1>2. ASSUME NEW c \in Contacts, NEW r \in Runs, NEW s \in Runs, Apart(r, s, c)
        PROVE  Apart(r, s, c)'
    BY <1>2, Numbers, PlannerAssumption DEF Apart
  <1>3. Spaced'
    BY <1>2 DEF Mails, Spaced, Beside
  <1>4. QED
    BY <1>1, <1>3 DEF Mails

\* materialize_campaign reads the log: every other run that may yet mail the
\* contact is beside it, and the log has the mails of those that have.
LEMMA ReadLogMails ==
    ASSUME Types, Said, Mails, NEW w \in Workers, NEW r \in Runs, ReadLog(w, r)
    PROVE  Mails'
  <1>1. PICK skip \in Recent :
            txn' = [txn EXCEPT ![w] = [Idle EXCEPT !.pc = "ledger", !.r = r, !.skip = skip]]
    BY DEF ReadLog
  <1>2. UNCHANGED <<exists, row, log, today, mailedOn, unlogged>>
    BY DEF ReadLog, grid
  <1>3. \A c \in Contacts : beside'[c] = beside[c] \cup ({r} \X Underway(c))
    BY DEF ReadLog
  <1>4. /\ txn'[w].pc = "ledger" /\ txn'[w].r = r /\ txn'[w].c = None /\ txn'[w].skip = skip
        /\ \A v \in Workers : v # w => txn'[v] = txn[v]
    BY <1>1 DEF Idle, Types, TypeOK
  <1>5. ASSUME NEW s \in Runs, NEW c \in Contacts, Open(s, c)'
        PROVE  Open(s, c) \/ (s = r /\ c \notin skip)
    BY <1>2, <1>4, <1>5, PlannerAssumption DEF Open, SendingTo
  <1>6. \A s \in Runs, c \in Contacts : Open(s, c) => s \in Underway(c)
    BY DEF Open, Underway, Materializing
  <1>7. Side'
    <2>1. SUFFICES ASSUME NEW c \in Contacts, NEW a \in Runs, NEW b \in Runs, a # b,
                          Open(a, c)', Open(b, c)'
                   PROVE  Beside(a, b, c)'
      BY DEF Side
    <2>2. CASE Open(a, c) /\ Open(b, c)
      BY <1>3, <2>1, <2>2 DEF Mails, Side, Beside
    <2>3. CASE ~(Open(a, c) /\ Open(b, c))
      <3>1. \/ a = r /\ b \in Underway(c)
            \/ b = r /\ a \in Underway(c)
        BY <1>5, <1>6, <2>1, <2>3
      <3>2. QED
        BY <1>3, <3>1 DEF Beside
    <2>4. QED
      BY <2>2, <2>3
  <1>8. ASSUME NEW c \in Contacts, NEW s \in Runs, exists, mailedOn[s][c] # Never,
               c \notin skip, s \notin Underway(c)
        PROVE  <<s, c>> \in unlogged \/ mailedOn[s][c] + Interval <= today
    <2>1. ~SendingTo(s, c) /\ ~Telling(s, c)
      BY <1>8 DEF Underway, Telling, SendingTo
    <2>2. <<s, c>> \in unlogged \/ log[c] >= mailedOn[s][c]
      BY <1>8, <2>1 DEF Said, Recorded, Told
    <2>3. CASE log[c] >= mailedOn[s][c]
      <3>1. mailedOn[s][c] > 0 /\ log[c] > 0 /\ today \in Nat
        BY <1>8, <2>3, Numbers DEF Never
      <3>2. ~(today - log[c] < Interval)
        BY <1>1, <1>8, <3>1 DEF Recent, Never
      <3>3. QED
        BY <2>3, <3>1, <3>2, Numbers, PlannerAssumption
    <2>4. QED
      BY <2>2, <2>3
  <1>9. Spaced'
    <2>1. SUFFICES ASSUME NEW c \in Contacts, NEW a \in Runs, NEW b \in Runs,
                          exists', a # b, mailedOn'[b][c] # Never,
                          Open(a, c)' \/ mailedOn'[a][c] # Never
                   PROVE  \/ Beside(a, b, c)'
                          \/ <<a, c>> \in unlogged' \/ <<b, c>> \in unlogged'
                          \/ Apart(a, b, c)'
      BY DEF Spaced
    <2>2. CASE Open(a, c) \/ mailedOn[a][c] # Never
      <3>1. \/ Beside(a, b, c)
            \/ <<a, c>> \in unlogged \/ <<b, c>> \in unlogged
            \/ Apart(a, b, c)
        BY <1>2, <2>1, <2>2 DEF Mails, Spaced
      <3>2. QED
        BY <1>2, <1>3, <3>1 DEF Beside, Apart
    <2>3. CASE ~(Open(a, c) \/ mailedOn[a][c] # Never)
      <3>1. a = r /\ c \notin skip /\ mailedOn[a][c] = Never
        BY <1>2, <1>5, <2>1, <2>3
      <3>2. CASE b \in Underway(c)
        BY <1>3, <3>1, <3>2 DEF Beside
      <3>3. CASE b \notin Underway(c)
        BY <1>2, <1>8, <2>1, <3>1, <3>3 DEF Apart
      <3>4. QED
        BY <3>2, <3>3
    <2>4. QED
      BY <2>2, <2>3
  <1>10. QED
    BY <1>7, <1>9 DEF Mails

\* Postal accepts a mail: the check of its run keeps it an interval from the
\* mails before, or is excused; a mail that is out a second time is unlogged.
LEMMA AcceptMails ==
    ASSUME Types, Held, Said, Mails, NEW w \in Workers, PostalAccepts(w)
    PROVE  Mails'
  <1> DEFINE r == txn[w].r
             c == txn[w].c
  <1>1. /\ r \in Runs /\ c \in Contacts /\ txn[w].pc = "postal"
        /\ UNCHANGED <<exists, row, today, unlogged, beside>>
    BY DEF PostalAccepts, Types, Shapes, Shape, SendPhases, grid
  <1>2. /\ mailedOn'[r][c] = today
        /\ \A s \in Runs, d \in Contacts : ~(s = r /\ d = c) => mailedOn'[s][d] = mailedOn[s][d]
    BY <1>1 DEF PostalAccepts, Types, TypeOK
  <1>3. today > 0 /\ today \in Nat
    BY PlannerAssumption DEF Types, TypeOK, Days
  <1>4. Open(r, c)
    BY DEF Open, SendingTo
  <1>5. \A s \in Runs, d \in Contacts : Open(s, d)' => Open(s, d)
    <2>1. \A v \in Workers : Goes(v)
      BY StepsGo
    <2>2. \A s \in Runs, d \in Contacts : row'[s][d] = "pending" => Open(s, d)
      BY <1>1 DEF Open
    <2>3. QED
      BY <2>1, <2>2, OpenGoes
  <1>6. Side'
    BY <1>1, <1>5 DEF Mails, Side, Beside
  <1>7. mailedOn[r][c] # Never => <<r, c>> \in unlogged
    <2>1. ~Told(r, c)
      BY DEF Told, SendingTo
    <2>2. ~Telling(r, c)
      BY <1>1, PlannerAssumption DEF Telling, Held, OneEach
    <2>3. QED
      BY <1>1, <2>1, <2>2 DEF Said, Recorded
  <1>8. ASSUME NEW b \in Runs, b # r, exists, mailedOn[b][c] # Never
        PROVE  \/ Beside(r, b, c)
               \/ <<r, c>> \in unlogged \/ <<b, c>> \in unlogged
               \/ mailedOn[b][c] + Interval <= today
    BY <1>1, <1>4, <1>7, <1>8 DEF Mails, Spaced, Apart
  <1>9. ASSUME NEW d \in Contacts, NEW a \in Runs, NEW b \in Runs,
               exists', a # b, mailedOn'[b][d] # Never,
               Open(a, d)' \/ mailedOn'[a][d] # Never
        PROVE  \/ Beside(a, b, d)'
               \/ <<a, d>> \in unlogged' \/ <<b, d>> \in unlogged'
               \/ Apart(a, b, d)'
    <2>1. CASE d = c /\ a = r
      <3>1. mailedOn'[b][d] = mailedOn[b][d] /\ mailedOn'[a][d] = today /\ today # Never
        BY <1>2, <1>3, <1>9, <2>1 DEF Never
      <3>2. QED
        BY <1>1, <1>8, <1>9, <2>1, <3>1 DEF Beside, Apart
    <2>2. CASE d = c /\ b = r
      <3>1. mailedOn'[a][d] = mailedOn[a][d] /\ mailedOn'[b][d] = today
        BY <1>2, <1>9, <2>2
      <3>2. CASE mailedOn[a][d] # Never
        BY <1>1, <1>8, <1>9, <2>2, <3>1, <3>2 DEF Beside, Apart
      <3>3. CASE mailedOn[a][d] = Never
        <4>1. Open(a, d)
          BY <1>5, <1>9, <3>1, <3>3
        <4>2. QED
          BY <1>1, <1>4, <1>9, <2>2, <4>1 DEF Mails, Side, Beside
      <3>4. QED
        BY <3>2, <3>3
    <2>3. CASE ~(d = c /\ (a = r \/ b = r))
      <3>1. mailedOn'[a][d] = mailedOn[a][d] /\ mailedOn'[b][d] = mailedOn[b][d]
        BY <1>2, <2>3
      <3>2. \/ Beside(a, b, d)
            \/ <<a, d>> \in unlogged \/ <<b, d>> \in unlogged
            \/ Apart(a, b, d)
        BY <1>1, <1>5, <1>9, <3>1 DEF Mails, Spaced
      <3>3. QED
        BY <1>1, <3>1, <3>2 DEF Beside, Apart
    <2>4. QED
      BY <2>1, <2>2, <2>3
  <1>10. QED
    BY <1>6, <1>9 DEF Mails, Spaced

\* Every other step opens no row and has no mail accepted.
LEMMA OtherMails ==
    ASSUME Types, Mails, [Next]_vars, Types',
           \A w \in Workers :
               ~PostalAccepts(w) /\ \A r \in Runs : ~ReadLog(w, r)
    PROVE  Mails'
  <1>1. /\ UNCHANGED <<mailedOn, beside>>
        /\ exists' => exists
        /\ unlogged \subseteq unlogged'
        /\ today' = today \/ today' = today + 1
    <2>1. CASE Edit \/ NextDay \/ UNCHANGED vars
      BY <2>1 DEF Edit, AddPlacement, RemovePlacement, MovePlacement, UpdateRecurring,
                  DeleteRecurring, NextDay, vars, grid, history
    <2>2. ASSUME NEW r \in Runs, Run(r) PROVE UNCHANGED <<exists, mailedOn, beside, unlogged, today>>
      BY <2>2 DEF Run, Dispatch, Complete, Stop, Resume, Delete, Reschedule,
                  BecomesStatus, grid, history
    <2>3. ASSUME NEW w \in Workers, Plan(w) \/ Materialize(w)
          PROVE  UNCHANGED <<exists, mailedOn, beside, unlogged, today>>
      BY <2>3 DEF Plan, Tick, Look, Create, CreateFails, Materialize, CommitLedger, grid, history
    <2>4. ASSUME NEW w \in Workers, Send(w) \/ WorkerDies(w)
          PROVE  UNCHANGED <<exists, mailedOn, beside, today>> /\ unlogged \subseteq unlogged'
      BY <2>4 DEF Send, SendStart, SendEnds, LookUpLog, CommitSend, WorkerDies, Lose, grid, history
    <2>5. QED
      BY <2>1, <2>2, <2>3, <2>4 DEF Next
  <1>2. ASSUME NEW s \in Runs, NEW c \in Contacts, Open(s, c)' PROVE Open(s, c)
    <2>1. CASE Edit \/ NextDay \/ UNCHANGED vars
      <3>1. UNCHANGED <<txn, row>>
        BY <2>1 DEF Edit, AddPlacement, RemovePlacement, MovePlacement, UpdateRecurring,
                    DeleteRecurring, NextDay, vars
      <3>2. QED
        BY <1>2, <3>1 DEF Open, SendingTo
    <2>2. ASSUME NEW r \in Runs, Run(r) PROVE Open(s, c)
      <3>1. UNCHANGED txn
        BY <2>2 DEF Run, Dispatch, Complete, Stop, Resume, Delete, Reschedule, BecomesStatus
      <3>2. row'[s][c] = "pending" => row[s][c] = "pending"
        BY <2>2 DEF Run, Dispatch, Complete, Stop, Resume, Delete, Reschedule, Types, TypeOK
      <3>3. QED
        BY <1>2, <3>1, <3>2 DEF Open, SendingTo
    <2>3. ASSUME NEW w \in Workers,
                 Plan(w) \/ SendEnds(w) \/ LookUpLog(w) \/ CommitSend(w) \/ WorkerDies(w)
          PROVE  Open(s, c)
      <3>1. \A r \in Runs, d \in Contacts : row'[r][d] = "pending" => row[r][d] = "pending"
        <4>1. CASE SendEnds(w)
          <5>1. txn[w].r \in Runs /\ txn[w].c \in Contacts
            BY <4>1 DEF SendEnds, Types, Shapes, Shape, SendPhases
          <5>2. QED
            BY <4>1, <5>1 DEF SendEnds, Types, TypeOK
        <4>2. CASE CommitSend(w)
          BY <4>2 DEF CommitSend, Types, TypeOK
        <4>3. CASE Plan(w) \/ LookUpLog(w) \/ WorkerDies(w)
          BY <4>3 DEF Plan, Tick, Look, Create, CreateFails, LookUpLog, WorkerDies
        <4>4. QED
          BY <2>3, <4>1, <4>2, <4>3
      <3>2. \A v \in Workers : Goes(v)
        BY <2>3, StepsGo
      <3>3. QED
        BY <1>2, <3>1, <3>2, OpenGoes DEF Open
    <2>4. ASSUME NEW w \in Workers, CommitLedger(w) PROVE Open(s, c)
      <3>1. ASSUME NEW r \in Runs, NEW d \in Contacts, row'[r][d] = "pending"
            PROVE  Open(r, d)
        <4>1. CASE row' = row
          BY <3>1, <4>1 DEF Open
        <4>2. CASE row' # row
          <5>1. /\ txn[w].pc = "ledger"
                /\ row' = [row EXCEPT ![txn[w].r] = [e \in Contacts |->
                               IF e \in txn[w].skip THEN "skipped" ELSE "pending"]]
            BY <2>4, <4>2 DEF CommitLedger
          <5>2. CASE r = txn[w].r
            <6>1. row'[r][d] = IF d \in txn[w].skip THEN "skipped" ELSE "pending"
              BY <5>1, <5>2 DEF Types, TypeOK
            <6>2. QED
              BY <3>1, <5>1, <5>2, <6>1 DEF Open
          <5>3. CASE r # txn[w].r
            BY <3>1, <5>1, <5>3 DEF Open, Types, TypeOK
          <5>4. QED
            BY <5>2, <5>3
        <4>3. QED
          BY <4>1, <4>2
      <3>2. \A v \in Workers : Goes(v)
        BY <2>4, StepsGo
      <3>3. QED
        BY <1>2, <3>1, <3>2, OpenGoes
    <2>5. ASSUME NEW w \in Workers, NEW r \in Runs, NEW d \in Contacts, SendStart(w, r, d)
          PROVE  Open(s, c)
      <3>1. /\ txn'[w].pc = "postal" /\ txn'[w].r = r /\ txn'[w].c = d
            /\ \A v \in Workers : v # w => txn'[v] = txn[v]
            /\ row[r][d] = "pending" /\ row' = row
        BY <2>5 DEF SendStart, Idle, Types, TypeOK
      <3>2. QED
        BY <1>2, <3>1 DEF Open, SendingTo
    <2>6. QED
      BY <2>1, <2>2, <2>3, <2>4, <2>5 DEF Next, Materialize, Send
  <1>3. today \in Nat /\ today' \in Nat /\ today <= today'
    BY <1>1, DaysAreNumbers DEF Types, TypeOK
  <1>4. QED
    BY <1>1, <1>2, <1>3, QuietMails

\* Every step leaves the mails to a contact an interval apart, or excused.
LEMMA MailsInductive == Types /\ Held /\ Said /\ Mails /\ [Next]_vars => Mails'
  <1> SUFFICES ASSUME Types, Held, Said, Mails, [Next]_vars PROVE Mails'
    OBVIOUS
  <1>1. CASE \E w \in Workers, r \in Runs : ReadLog(w, r)
    BY <1>1, ReadLogMails
  <1>2. CASE \E w \in Workers : PostalAccepts(w)
    BY <1>2, AcceptMails
  <1>3. CASE \A w \in Workers : ~PostalAccepts(w) /\ \A r \in Runs : ~ReadLog(w, r)
    BY <1>3, TypesInductive, OtherMails
  <1>4. QED
    BY <1>1, <1>2, <1>3

\* At the start nothing is open and nothing mailed.
LEMMA InitMails == Init => Mails
  BY PlannerAssumption DEF Init, Mails, Side, Spaced, Open, SendingTo, Idle

\* Mails that are an interval apart, but for the excuses, keep the rule.
LEMMA SpacedHolds ==
    ASSUME Types, Mails
    PROVE  FrequencyHeld
  <1>1. SUFFICES ASSUME NEW c \in Contacts, NEW r \in Runs, NEW s \in Runs, exists, r # s,
                        mailedOn[r][c] # Never, mailedOn[s][c] # Never,
                        mailedOn[r][c] <= mailedOn[s][c],
                        mailedOn[s][c] - mailedOn[r][c] < Interval
                 PROVE  \/ <<r, s>> \in beside[c] \/ <<s, r>> \in beside[c]
                        \/ <<r, c>> \in unlogged \/ <<s, c>> \in unlogged
    BY DEF FrequencyHeld
  <1>2. ~Apart(r, s, c)
    BY <1>1, Numbers, PlannerAssumption DEF Apart
  <1>3. QED
    BY <1>1, <1>2 DEF Mails, Spaced, Beside

\* A contact hears from two runs within the interval only when one was
\* materialized while the other could still mail it, or the log misses a mail.
THEOREM FrequencyRule == Spec => []FrequencyHeld
  BY InitHeldSaid, InitMails, TypesHold, HeldInductive, SaidInductive, MailsInductive,
     SpacedHolds, PTL DEF Spec

=============================================================================
