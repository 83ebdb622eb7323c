----------------------- MODULE CampaignLifecycleProofs -----------------------
(***************************************************************************)
(* Proofs about CampaignLifecycle, for any number of contacts, requests    *)
(* and workers: the counters, what a completed campaign has left, and what *)
(* may follow a cancellation.                                              *)
(***************************************************************************)
EXTENDS CampaignLifecycle, FiniteSetTheorems, TLAPS

-----------------------------------------------------------------------------
(* What every step of every process preserves.                              *)

\* What a process holds, given what it does and where it is: an operator's
\* write passed the check of the status it read, and so did a task's.
Course(p, t) ==
    \/ t = Idle
    \/ /\ p \in Requests /\ t.job \in Requested
       /\ t.pc \in {"commit", "publish"}
       /\ t.seen \in CampaignStatuses
       /\ Allows(t.job, t.seen) /\ t.to = Target(t.job, t.seen)
    \/ /\ p \in Workers /\ t.job = "dispatch"
       /\ t.pc \in {"commit", "publish"}
       /\ t.seen = "scheduled" /\ t.to = "sending"
    \/ /\ p \in Workers /\ t.job = "sweep"
       /\ \/ t.pc \in {"count", "load", "enqueue"}
          \/ t.pc = "commit" /\ t.seen = "sending" /\ t.to = "completed"
    \/ /\ p \in Workers /\ t.job = "materialize"
       /\ \/ t.pc \in {"contacts", "insert"} /\ t.skip = {}
          \/ t.pc \in {"recounted", "enqueue"}
          \/ t.pc = "commit" /\ t.seen = "sending" /\ t.to = "failed"
    \/ /\ p \in Workers /\ t.job \in {"send", "skip"}
       /\ t.pc = "commit" /\ t.c \in Contacts
       /\ t.seen = "sending" /\ t.to = "none"

\* A campaign that is gone has no rows.
GoneIsEmpty == cstatus = "deleted" => Ledger = {}

\* A transaction between its status check and the commit of its ledger.
Fills(t) == t.pc \in {"contacts", "insert", "recounted"}

\* What a materialization is going to make of the total is the number of rows
\* there will be.
Recount(t) ==
    /\ t.pc # "recounted" => t.vals["total"] = counts["total"]
    /\ t.pc = "recounted" =>
           /\ t.new \cap Ledger = {}
           /\ cstatus # "deleted" =>
                  Cardinality(Ledger \cup t.new) =
                      IF t.vals["total"] = Kept THEN counts["total"]
                      ELSE t.vals["total"]

\* Unless there were two, one materialization at a time, with its recount.
Recounts ==
    ~parallel => \A w \in Workers : Fills(txn[w]) =>
        /\ Recount(txn[w])
        /\ \A v \in Workers : Fills(txn[v]) => v = w

\* A sweep that counted no pending row, none having been committed since.
Sure(t) == t.job = "sweep" /\ t.pc \in {"load", "commit"} /\ ~t.raced

\* Such a sweep is right.
SweepsInformed == \A w \in Workers : Sure(txn[w]) => Pending = {}

\* A campaign that completed with nothing going on gets no new rows.
CompletedIsClosed ==
    cstatus = "completed" => (overlapped \/ (Pending = {} /\ ~Materializing))

\* The state is of its types and every process is on its course.
Typed == TypeOK /\ \A p \in Processes : Course(p, txn[p])

IInv ==
    /\ Typed
    /\ GoneIsEmpty
    /\ Recounts
    /\ TotalMatchesLedger
    /\ SweepsInformed
    /\ CompletedIsClosed

-----------------------------------------------------------------------------
(* What a step makes of the transactions.                                   *)

\* p moves to a transaction on its course, and no other process moves.
Moves(p) ==
    /\ txn' \in [Processes -> Txns]
    /\ txn'[p].skip \subseteq txn'[p].new
    /\ Course(p, txn'[p])
    /\ \A v \in Processes \ {p} : txn'[v] = txn[v]

\* The jobs of requests and of workers are apart, and so are the two.
LEMMA JobsApart ==
    /\ Requested \subseteq Jobs
    /\ \A j \in {"none", "dispatch", "sweep", "materialize", "send", "skip"} :
           j \notin Requested
    /\ \A p \in Requests : p \notin Workers /\ p \in Processes
    /\ \A p \in Workers : p \notin Requests /\ p \in Processes
    /\ IsFiniteSet(Contacts) /\ MaxFaults \in Nat
  BY LifecycleAssumption DEF Jobs, Processes

\* The transaction of a process at nothing.
LEMMA IdleType ==
    /\ Idle \in Txns
    /\ Idle.job = "none" /\ Idle.pc = "idle" /\ Idle.new = {} /\ Idle.skip = {}
    /\ Idle.seen = "none" /\ Idle.to = "none" /\ ~Idle.raced
  BY DEF Idle, Txns, Recounted

\* Putting a transaction in the place of another.
LEMMA PutType ==
    ASSUME txn \in [Processes -> Txns], NEW p \in Processes, NEW t \in Txns,
           txn' = [txn EXCEPT ![p] = t]
    PROVE  /\ txn' \in [Processes -> Txns]
           /\ txn'[p] = t
           /\ \A v \in Processes \ {p} : txn'[v] = txn[v]
  OBVIOUS

\* A process that ends is idle.
LEMMA EndMoves ==
    ASSUME TypeOK, NEW p \in Processes, End(p)
    PROVE  Moves(p) /\ txn'[p] = Idle
  <1>1. txn \in [Processes -> Txns] /\ txn' = [txn EXCEPT ![p] = Idle]
    BY DEF TypeOK, End
  <1>2. /\ txn' \in [Processes -> Txns]
        /\ txn'[p] = Idle
        /\ \A v \in Processes \ {p} : txn'[v] = txn[v]
    BY <1>1, IdleType, PutType
  <1> QED
    BY <1>2, IdleType DEF Moves, Course

\* A process that goes to another place keeps what it holds.
LEMMA GotoMoves ==
    ASSUME TypeOK, NEW p \in Processes, NEW pc \in Phases, Goto(p, pc)
    PROVE  /\ txn' \in [Processes -> Txns]
           /\ \A v \in Processes \ {p} : txn'[v] = txn[v]
           /\ txn'[p].skip \subseteq txn'[p].new
           /\ txn'[p].pc = pc
           /\ txn'[p].job = txn[p].job /\ txn'[p].seen = txn[p].seen
           /\ txn'[p].to = txn[p].to /\ txn'[p].c = txn[p].c
           /\ txn'[p].raced = txn[p].raced
  <1> DEFINE t == [txn[p] EXCEPT !.pc = pc]
  <1>1. txn \in [Processes -> Txns] /\ txn[p] \in Txns
    BY DEF TypeOK
  <1>2. txn[p].skip \subseteq txn[p].new
    BY DEF TypeOK
  <1>3. /\ t \in Txns /\ t.pc = pc /\ t.job = txn[p].job /\ t.seen = txn[p].seen
        /\ t.to = txn[p].to /\ t.c = txn[p].c /\ t.raced = txn[p].raced
        /\ t.skip = txn[p].skip /\ t.new = txn[p].new
    BY <1>1 DEF Txns
  <1>4. txn' = [txn EXCEPT ![p] = t]
    BY DEF Goto
  <1> HIDE DEF t
  <1>5. txn'[p] = t
    BY <1>1, <1>3, <1>4, PutType
  <1> QED
    BY <1>1, <1>2, <1>3, <1>4, <1>5, PutType

\* A process that begins holds nothing yet.
LEMMA BeginMoves ==
    ASSUME TypeOK, NEW p \in Processes, NEW job \in Jobs, NEW pc \in Phases,
           Begin(p, job, pc)
    PROVE  /\ txn' \in [Processes -> Txns]
           /\ \A v \in Processes \ {p} : txn'[v] = txn[v]
           /\ txn'[p].skip \subseteq txn'[p].new
           /\ txn'[p].pc = pc /\ txn'[p].job = job
  <1> DEFINE t == [Idle EXCEPT !.job = job, !.pc = pc]
  <1>1. txn \in [Processes -> Txns]
    BY DEF TypeOK
  <1>2. t \in Txns /\ t.pc = pc /\ t.job = job /\ t.skip \subseteq t.new
    BY IdleType DEF Txns
  <1>3. txn' = [txn EXCEPT ![p] = t]
    BY DEF Begin
  <1> HIDE DEF t
  <1> QED
    BY <1>1, <1>2, <1>3, PutType

\* One that is going to write the status holds the one it read.
LEMMA BeginWriteMoves ==
    ASSUME TypeOK, NEW p \in Processes, NEW job \in Jobs,
           NEW to \in CampaignStatuses, BeginWrite(p, job, to)
    PROVE  /\ txn' \in [Processes -> Txns]
           /\ \A v \in Processes \ {p} : txn'[v] = txn[v]
           /\ txn'[p].skip \subseteq txn'[p].new
           /\ txn'[p].pc = "commit" /\ txn'[p].job = job
           /\ txn'[p].seen = cstatus /\ txn'[p].to = to
  <1> DEFINE t == [Idle EXCEPT !.job = job, !.pc = "commit", !.seen = cstatus,
                               !.to = to]
  <1>1. txn \in [Processes -> Txns] /\ cstatus \in CampaignStatuses
    BY DEF TypeOK
  <1>2. /\ t \in Txns /\ t.pc = "commit" /\ t.job = job /\ t.skip \subseteq t.new
        /\ t.seen = cstatus /\ t.to = to
    BY <1>1, IdleType DEF Txns, Phases
  <1>3. txn' = [txn EXCEPT ![p] = t]
    BY DEF BeginWrite
  <1> HIDE DEF t
  <1> QED
    BY <1>1, <1>2, <1>3, PutType

-----------------------------------------------------------------------------
(* The steps that leave the campaign and its ledger as they are.            *)

\* A step of p alone that touches the broker at most, and after which p is
\* neither at a ledger nor sure of what it has not seen.
Quiet(p) ==
    /\ Moves(p)
    /\ UNCHANGED <<db, history>>
    /\ materialize' \in Nat /\ sends' \subseteq Contacts /\ faults' \in 0 .. MaxFaults
    /\ ~Fills(txn'[p])
    /\ Sure(txn'[p]) => Pending = {}

\* An operator's request that reads the status.
LEMMA OpenIsQuiet ==
    ASSUME Typed, NEW q \in Requests, NEW op \in Requested, Open(q, op)
    PROVE  Quiet(q)
  <1>1. /\ TypeOK /\ q \in Processes /\ op \in Jobs /\ cstatus \in CampaignStatuses
        /\ op \notin {"none", "dispatch", "sweep", "materialize", "send", "skip"}
    BY JobsApart DEF Typed, TypeOK
  <1>2. Allows(op, cstatus) /\ BeginWrite(q, op, Target(op, cstatus))
    BY DEF Open
  <1>3. Target(op, cstatus) \in CampaignStatuses
    BY <1>1, LifecycleAssumption DEF Target, CampaignStatuses
  <1>4. /\ txn' \in [Processes -> Txns]
        /\ \A v \in Processes \ {q} : txn'[v] = txn[v]
        /\ txn'[q].skip \subseteq txn'[q].new
        /\ txn'[q].pc = "commit" /\ txn'[q].job = op
        /\ txn'[q].seen = cstatus /\ txn'[q].to = Target(op, cstatus)
    BY <1>1, <1>2, <1>3, BeginWriteMoves
  <1>5. Moves(q)
    BY <1>1, <1>2, <1>4 DEF Moves, Course
  <1> QED
    BY <1>1, <1>4, <1>5 DEF Quiet, Open, broker, TypeOK, Fills, Sure

\* The publication of a materialization.
LEMMA PublishIsQuiet ==
    ASSUME Typed, NEW p \in Processes, Publish(p)
    PROVE  Quiet(p)
  <1>1. Moves(p) /\ txn'[p] = Idle
    BY EndMoves DEF Publish, Typed
  <1> QED
    BY <1>1, IdleType DEF Quiet, Publish, Typed, TypeOK, Fills, Sure

\* A transaction that finds its campaign gone.
LEMMA CommitFailsIsQuiet ==
    ASSUME Typed, NEW p \in Processes, CommitFails(p)
    PROVE  Quiet(p)
  <1>1. Moves(p) /\ txn'[p] = Idle
    BY EndMoves DEF CommitFails, Typed
  <1> QED
    BY <1>1, IdleType DEF Quiet, CommitFails, broker, Typed, TypeOK, Fills, Sure

\* A request whose process dies.
LEMMA RequestDiesIsQuiet ==
    ASSUME Typed, NEW q \in Requests, RequestDies(q)
    PROVE  Quiet(q)
  <1>1. q \in Processes /\ MaxFaults \in Nat
    BY JobsApart
  <1>2. Moves(q) /\ txn'[q] = Idle
    BY <1>1, EndMoves DEF RequestDies, Typed
  <1>3. faults' \in 0 .. MaxFaults
    BY <1>1 DEF RequestDies, Typed, TypeOK
  <1> QED
    BY <1>2, <1>3, IdleType DEF Quiet, RequestDies, broker, Typed, TypeOK, Fills, Sure

\* A send holds a contact.
LEMMA SendHolds ==
    ASSUME Typed, NEW w \in Workers, txn[w].job \in {"send", "skip"}
    PROVE  /\ txn[w].c \in Contacts /\ txn[w].pc = "commit"
           /\ txn[w].seen = "sending" /\ txn[w].to = "none"
  BY JobsApart, IdleType DEF Typed, Course

\* A worker that dies, and its task in the broker again.
LEMMA WorkerDiesIsQuiet ==
    ASSUME Typed, NEW w \in Workers, WorkerDies(w)
    PROVE  Quiet(w)
  <1>1. w \in Processes /\ MaxFaults \in Nat
    BY JobsApart
  <1>2. Moves(w) /\ txn'[w] = Idle
    BY <1>1, EndMoves DEF WorkerDies, Typed
  <1>3. faults' \in 0 .. MaxFaults /\ materialize' \in Nat
    BY <1>1 DEF WorkerDies, Typed, TypeOK
  <1>4. sends' \subseteq Contacts
    BY SendHolds DEF WorkerDies, Typed, TypeOK
  <1> QED
    BY <1>2, <1>3, <1>4, IdleType DEF Quiet, WorkerDies, Fills, Sure

\* A dispatch that selects the campaign.
LEMMA DispatchIsQuiet ==
    ASSUME Typed, NEW w \in Workers, Dispatch(w)
    PROVE  Quiet(w)
  <1>1. w \in Processes /\ TypeOK /\ "dispatch" \in Jobs /\ "sending" \in CampaignStatuses
    BY JobsApart DEF Typed, Jobs, CampaignStatuses
  <1>2. BeginWrite(w, "dispatch", "sending") /\ cstatus = "scheduled"
    BY DEF Dispatch
  <1>3. /\ txn' \in [Processes -> Txns]
        /\ \A v \in Processes \ {w} : txn'[v] = txn[v]
        /\ txn'[w].skip \subseteq txn'[w].new
        /\ txn'[w].pc = "commit" /\ txn'[w].job = "dispatch"
        /\ txn'[w].seen = cstatus /\ txn'[w].to = "sending"
    BY <1>1, <1>2, BeginWriteMoves
  <1>4. Moves(w)
    BY <1>2, <1>3 DEF Moves, Course
  <1> QED
    BY <1>1, <1>3, <1>4 DEF Quiet, Dispatch, broker, TypeOK, Fills, Sure

\* A sweep that selects the campaign.
LEMMA SweepSelectIsQuiet ==
    ASSUME Typed, NEW w \in Workers, SweepSelect(w)
    PROVE  Quiet(w)
  <1>1. w \in Processes /\ TypeOK /\ "sweep" \in Jobs /\ "count" \in Phases
    BY JobsApart DEF Typed, Jobs, Phases
  <1>2. /\ txn' \in [Processes -> Txns]
        /\ \A v \in Processes \ {w} : txn'[v] = txn[v]
        /\ txn'[w].skip \subseteq txn'[w].new
        /\ txn'[w].pc = "count" /\ txn'[w].job = "sweep"
    BY <1>1, BeginMoves DEF SweepSelect
  <1>3. Moves(w)
    BY <1>2 DEF Moves, Course
  <1> QED
    BY <1>1, <1>2, <1>3 DEF Quiet, SweepSelect, broker, TypeOK, Fills, Sure

\* A process at a place of the sweep or of the materialization has that job.
LEMMA PlacesOfJobs ==
    ASSUME Typed, NEW p \in Processes
    PROVE  /\ txn[p].pc \in {"count", "load"} =>
                  (p \in Workers /\ txn[p].job = "sweep")
           /\ txn[p].pc = "enqueue" =>
                  (p \in Workers /\ txn[p].job \in {"sweep", "materialize"})
           /\ Fills(txn[p]) => (p \in Workers /\ txn[p].job = "materialize")
           /\ txn[p].pc = "publish" =>
                  (txn[p].job \in Requested \/ txn[p].job = "dispatch")
  BY IdleType DEF Typed, Course, Fills

\* A sweep that counted the pending rows.
LEMMA SweepCountIsQuiet ==
    ASSUME Typed, NEW w \in Workers,
           SweepCount(w) \/ SweepStalled(w)
    PROVE  Quiet(w)
  <1>1. w \in Processes /\ TypeOK /\ {"load", "enqueue"} \subseteq Phases
    BY JobsApart DEF Typed, Phases
  <1>2. txn[w].pc = "count" /\ txn[w].job = "sweep"
    BY <1>1, PlacesOfJobs DEF SweepCount, SweepStalled
  <1>3. PICK pc \in {"load", "enqueue"} :
            Goto(w, pc) /\ (pc = "load" => Pending = {})
    BY DEF SweepCount, SweepStalled
  <1>4. /\ txn' \in [Processes -> Txns]
        /\ \A v \in Processes \ {w} : txn'[v] = txn[v]
        /\ txn'[w].skip \subseteq txn'[w].new
        /\ txn'[w].pc = pc /\ txn'[w].job = "sweep"
    BY <1>1, <1>2, <1>3, GotoMoves
  <1>5. Moves(w)
    BY <1>3, <1>4 DEF Moves, Course
  <1>6. UNCHANGED <<db, history, broker, faults>>
    BY DEF SweepCount, SweepStalled
  <1> QED
    BY <1>1, <1>3, <1>4, <1>5, <1>6 DEF Quiet, broker, TypeOK, Fills, Sure

\* A sweep that leaves the campaign alone.
LEMMA SweepLeavesIsQuiet ==
    ASSUME Typed, NEW w \in Workers, SweepLeaves(w)
    PROVE  Quiet(w)
  <1>1. Moves(w) /\ txn'[w] = Idle
    BY JobsApart, EndMoves DEF SweepLeaves, Typed
  <1> QED
    BY <1>1, IdleType DEF Quiet, SweepLeaves, broker, Typed, TypeOK, Fills, Sure

\* A sweep that looks at the status again: what it counted is still so.
LEMMA SweepLoadIsQuiet ==
    ASSUME Typed, SweepsInformed, NEW w \in Workers, SweepLoad(w)
    PROVE  Quiet(w)
  <1>1. w \in Processes /\ TypeOK /\ txn \in [Processes -> Txns]
    BY JobsApart DEF Typed, TypeOK
  <1>2. UNCHANGED <<db, history, broker, faults>> /\ txn[w].pc = "load"
    BY DEF SweepLoad
  <1>3. txn[w].job = "sweep" /\ txn[w].skip \subseteq txn[w].new /\ txn[w] \in Txns
    BY <1>1, <1>2, PlacesOfJobs DEF TypeOK
  <1>4. CASE cstatus = "sending"
    <2> DEFINE t == [txn[w] EXCEPT !.pc = "commit", !.seen = cstatus,
                                   !.to = "completed"]
    <2>1. /\ t \in Txns /\ t.pc = "commit" /\ t.job = "sweep"
          /\ t.skip \subseteq t.new /\ t.seen = "sending" /\ t.to = "completed"
          /\ t.raced = txn[w].raced
      BY <1>3, <1>4 DEF Txns, Phases, CampaignStatuses
    <2>2. txn' = [txn EXCEPT ![w] = t]
      BY <1>1, <1>4 DEF SweepLoad
    <2> HIDE DEF t
    <2>3. /\ txn' \in [Processes -> Txns] /\ txn'[w] = t
          /\ \A v \in Processes \ {w} : txn'[v] = txn[v]
      BY <1>1, <2>1, <2>2, PutType
    <2>4. Moves(w)
      BY <2>1, <2>3 DEF Moves, Course
    <2>5. Sure(txn'[w]) => Pending = {}
      BY <1>2, <1>3, <2>1, <2>3 DEF Sure, SweepsInformed
    <2> QED
      BY <1>1, <1>2, <2>1, <2>3, <2>4, <2>5 DEF Quiet, broker, TypeOK, Fills
  <1>5. CASE cstatus # "sending"
    <2>1. Moves(w) /\ txn'[w] = Idle
      BY <1>1, <1>5, EndMoves DEF SweepLoad
    <2> QED
      BY <1>1, <1>2, <2>1, IdleType DEF Quiet, broker, TypeOK, Fills, Sure
  <1> QED
    BY <1>4, <1>5

\* A materialization that has nothing to do, or no list.
LEMMA MaterializeRefusedIsQuiet ==
    ASSUME Typed, NEW w \in Workers, MaterializeStart(w),
           ~ (cstatus = "sending" /\ hasList)
    PROVE  Quiet(w) \/ (UNCHANGED <<db, sends, txn, history, faults>> /\ materialize' \in Nat)
  <1>1. /\ w \in Processes /\ TypeOK /\ "materialize" \in Jobs
        /\ "failed" \in CampaignStatuses
    BY JobsApart DEF Typed, Jobs, CampaignStatuses
  <1>2. /\ UNCHANGED <<db, sends, overlapped, faults>> /\ materialize' \in Nat
    BY <1>1 DEF MaterializeStart, TypeOK
  <1>3. CASE cstatus # "sending"
    BY <1>2, <1>3 DEF MaterializeStart, history
  <1>4. CASE cstatus = "sending"
    <2>1. BeginWrite(w, "materialize", "failed") /\ UNCHANGED parallel
      BY <1>4 DEF MaterializeStart
    <2>2. /\ txn' \in [Processes -> Txns]
          /\ \A v \in Processes \ {w} : txn'[v] = txn[v]
          /\ txn'[w].skip \subseteq txn'[w].new
          /\ txn'[w].pc = "commit" /\ txn'[w].job = "materialize"
          /\ txn'[w].seen = cstatus /\ txn'[w].to = "failed"
      BY <1>1, <2>1, BeginWriteMoves
    <2>3. Moves(w)
      BY <1>4, <2>2 DEF Moves, Course
    <2> QED
      BY <1>1, <1>2, <2>1, <2>2, <2>3 DEF Quiet, history, TypeOK, Fills, Sure
  <1> QED
    BY <1>3, <1>4

\* A materialization that fails on the unique constraint.
LEMMA InsertConflictIsQuiet ==
    ASSUME Typed, NEW w \in Workers, InsertConflict(w)
    PROVE  Quiet(w)
  <1>1. Moves(w) /\ txn'[w] = Idle
    BY JobsApart, EndMoves DEF InsertConflict, Typed
  <1> QED
    BY <1>1, IdleType DEF Quiet, InsertConflict, broker, Typed, TypeOK, Fills, Sure

\* The enqueueing of the pending rows.
LEMMA EnqueueIsQuiet ==
    ASSUME Typed, NEW w \in Workers, Enqueue(w)
    PROVE  Quiet(w)
  <1>1. Moves(w) /\ txn'[w] = Idle
    BY JobsApart, EndMoves DEF Enqueue, Typed
  <1>2. sends' \subseteq Contacts
    BY DEF Enqueue, Typed, TypeOK, Pending
  <1> QED
    BY <1>1, <1>2, IdleType DEF Quiet, Enqueue, Typed, TypeOK, Fills, Sure

\* Phase 1 of a send, or its task dropped.
LEMMA SendStartIsQuiet ==
    ASSUME Typed, NEW w \in Workers, NEW c \in Contacts, SendStart(w, c)
    PROVE  Quiet(w) \/ (UNCHANGED <<db, materialize, txn, history, faults>> /\ sends' \subseteq Contacts)
  <1>1. /\ w \in Processes /\ TypeOK /\ txn \in [Processes -> Txns]
        /\ {"send", "skip"} \subseteq Jobs
    BY JobsApart DEF Typed, TypeOK, Jobs
  <1>2. UNCHANGED <<db, materialize, history, faults>> /\ sends' \subseteq Contacts
    BY <1>1 DEF SendStart, TypeOK
  <1>3. CASE UNCHANGED txn
    BY <1>2, <1>3
  <1>4. CASE cstatus = "sending" /\ \E job \in {"send", "skip"} :
               txn' = [txn EXCEPT ![w] = [Idle EXCEPT !.job = job, !.pc = "commit",
                                                      !.seen = cstatus, !.c = c]]
    <2>1. PICK job \in {"send", "skip"} :
               txn' = [txn EXCEPT ![w] = [Idle EXCEPT !.job = job, !.pc = "commit",
                                                      !.seen = cstatus, !.c = c]]
      BY <1>4
    <2> DEFINE t == [Idle EXCEPT !.job = job, !.pc = "commit", !.seen = cstatus, !.c = c]
    <2>2. /\ t \in Txns /\ t.pc = "commit" /\ t.job = job
          /\ t.skip \subseteq t.new /\ t.seen = "sending" /\ t.to = "none" /\ t.c = c
      BY <1>1, <1>4, IdleType DEF Txns, Phases, CampaignStatuses
    <2>3. txn' = [txn EXCEPT ![w] = t]
      BY <2>1
    <2> HIDE DEF t
    <2>4. /\ txn' \in [Processes -> Txns] /\ txn'[w] = t
          /\ \A v \in Processes \ {w} : txn'[v] = txn[v]
      BY <1>1, <2>2, <2>3, PutType
    <2>5. Moves(w)
      BY <2>2, <2>4 DEF Moves, Course
    <2> QED
      BY <1>1, <1>2, <2>2, <2>4, <2>5 DEF Quiet, TypeOK, Fills, Sure
  <1> QED
    BY <1>3, <1>4 DEF SendStart

\* A message that is held back.
LEMMA SendLaterIsQuiet ==
    ASSUME Typed, NEW w \in Workers, SendLater(w)
    PROVE  Quiet(w)
  <1>1. Moves(w) /\ txn'[w] = Idle
    BY JobsApart, EndMoves DEF SendLater, Typed
  <1>2. sends' \subseteq Contacts
    BY SendHolds DEF SendLater, Typed, TypeOK
  <1> QED
    BY <1>1, <1>2, IdleType DEF Quiet, SendLater, Typed, TypeOK, Fills, Sure

\* What a state knows of the ledger when nothing in the campaign changes.
LEMMA SameLedger ==
    ASSUME UNCHANGED row
    PROVE  Ledger' = Ledger /\ Pending' = Pending
  BY DEF Ledger, Pending

\* A quiet step keeps the types and the courses.
LEMMA QuietKeepsTypes ==
    ASSUME Typed, NEW p \in Processes, Quiet(p)
    PROVE  Typed'
  <1>1. TypeOK'
    BY DEF Quiet, Moves, Typed, TypeOK, db, history
  <1>2. \A v \in Processes : Course(v, txn'[v])
    BY DEF Quiet, Moves, Typed
  <1> QED
    BY <1>1, <1>2 DEF Typed

\* And everything else.
LEMMA QuietKeeps ==
    ASSUME IInv, NEW p \in Processes, Quiet(p)
    PROVE  IInv'
  <1>1. /\ cstatus' = cstatus /\ row' = row /\ counts' = counts
        /\ overlapped' = overlapped /\ parallel' = parallel
    BY DEF Quiet, db, history
  <1>2. Ledger' = Ledger /\ Pending' = Pending
    BY <1>1, SameLedger
  <1>3. /\ \A v \in Processes \ {p} : txn'[v] = txn[v]
        /\ ~Fills(txn'[p]) /\ (Sure(txn'[p]) => Pending = {})
    BY DEF Quiet, Moves
  <1>4. \A w \in Workers : w \in Processes
    BY DEF Processes
  <1>5. Typed'
    BY QuietKeepsTypes DEF IInv
  <1>6. GoneIsEmpty' /\ TotalMatchesLedger'
    BY <1>1, <1>2 DEF IInv, GoneIsEmpty, TotalMatchesLedger
  <1>7. \A w \in Workers : Fills(txn'[w]) => w # p /\ txn'[w] = txn[w]
    BY <1>3, <1>4
  <1>8. Recounts'
    <2> SUFFICES ASSUME ~parallel', NEW w \in Workers, Fills(txn'[w])
                 PROVE  /\ Recount(txn[w])'
                        /\ \A v \in Workers : Fills(txn'[v]) => v = w
      BY DEF Recounts, Fills
    <2>1. Recount(txn[w]) /\ \A v \in Workers : Fills(txn[v]) => v = w
      BY <1>1, <1>7 DEF IInv, Recounts
    <2>2. txn'[w] = txn[w]
      BY <1>7
    <2> QED
      BY <1>1, <1>2, <1>7, <2>1, <2>2 DEF Recount
  <1>9. SweepsInformed'
    BY <1>2, <1>3, <1>4 DEF IInv, SweepsInformed, Sure
  <1>10. Materializing' => Materializing
    BY <1>7 DEF Materializing, Fills
  <1>11. CompletedIsClosed'
    BY <1>1, <1>2, <1>10 DEF IInv, CompletedIsClosed
  <1> QED
    BY <1>5, <1>6, <1>8, <1>9, <1>11 DEF IInv

\* So does a step that leaves the processes, the ledger and the status alone.
LEMMA StillKeeps ==
    ASSUME IInv, UNCHANGED <<cstatus, row, counts, txn, history>>, TypeOK'
    PROVE  IInv'
  <1>1. /\ cstatus' = cstatus /\ row' = row /\ counts' = counts /\ txn' = txn
        /\ overlapped' = overlapped /\ parallel' = parallel
    BY DEF history
  <1>2. Ledger' = Ledger /\ Pending' = Pending
    BY <1>1, SameLedger
  <1>3. Typed' /\ GoneIsEmpty' /\ TotalMatchesLedger'
    BY <1>1, <1>2 DEF IInv, Typed, GoneIsEmpty, TotalMatchesLedger
  <1>4. Recounts'
    BY <1>1, <1>2 DEF IInv, Recounts, Recount, Fills
  <1>5. SweepsInformed' /\ CompletedIsClosed'
    BY <1>1, <1>2 DEF IInv, SweepsInformed, Sure, CompletedIsClosed, Materializing
  <1> QED
    BY <1>3, <1>4, <1>5 DEF IInv

-----------------------------------------------------------------------------
(* The steps of a materialization.                                          *)

\* The ledger, the pending rows and a set of contacts are finite, and a part
\* of a ledger has no more rows than it.
LEMMA LedgerCounts ==
    ASSUME NEW new \in SUBSET Contacts, NEW skip \in SUBSET new
    PROVE  /\ Cardinality(Ledger \cup new) \in Nat
           /\ Cardinality(Pending \cup (new \ skip)) \in Nat
           /\ Cardinality(Pending \cup (new \ skip)) <= Cardinality(Ledger \cup new)
  <1>1. Ledger \cup new \subseteq Contacts /\ IsFiniteSet(Contacts)
    BY LifecycleAssumption DEF Ledger
  <1>2. IsFiniteSet(Ledger \cup new)
    BY <1>1, FS_Subset
  <1>3. Pending \cup (new \ skip) \subseteq Ledger \cup new
    BY DEF Pending, Ledger
  <1>4. /\ IsFiniteSet(Pending \cup (new \ skip))
        /\ Cardinality(Pending \cup (new \ skip)) <= Cardinality(Ledger \cup new)
    BY <1>2, <1>3, FS_Subset
  <1> QED
    BY <1>2, <1>4, FS_CardinalityType

\* A step of w at its ledger that leaves the campaign as it is.
LEMMA FillStepKeeps ==
    ASSUME IInv, NEW w \in Workers, Moves(w), TypeOK',
           UNCHANGED <<cstatus, row, counts, overlapped>>,
           Fills(txn'[w]), ~Sure(txn'[w]),
           ~parallel' => (/\ ~parallel /\ Recount(txn[w])'
                          /\ \A v \in Workers : Fills(txn[v]) => v = w),
           parallel' \in BOOLEAN, parallel => parallel',
           cstatus = "completed" => Materializing
    PROVE  IInv'
  <1>1. cstatus' = cstatus /\ row' = row /\ counts' = counts /\ overlapped' = overlapped
    OBVIOUS
  <1>2. Ledger' = Ledger /\ Pending' = Pending
    BY SameLedger
  <1>3. \A v \in Workers : v # w => txn'[v] = txn[v]
    BY DEF Moves, Processes
  <1>4. Typed'
    BY DEF Moves, Typed, IInv
  <1>5. GoneIsEmpty' /\ TotalMatchesLedger'
    BY <1>1, <1>2 DEF IInv, GoneIsEmpty, TotalMatchesLedger
  <1>6. Recounts'
    <2> SUFFICES ASSUME ~parallel', NEW v \in Workers, Fills(txn'[v])
                 PROVE  /\ Recount(txn[v])'
                        /\ \A u \in Workers : Fills(txn'[u]) => u = v
      BY DEF Recounts, Fills
    <2>1. /\ Recount(txn[w])'
          /\ \A u \in Workers : Fills(txn[u]) => u = w
      OBVIOUS
    <2>2. \A u \in Workers : Fills(txn'[u]) => u = w
      BY <1>3, <2>1
    <2>3. v = w
      BY <2>2
    <2> QED
      BY <2>1, <2>2, <2>3
  <1>7. SweepsInformed'
    BY <1>2, <1>3 DEF IInv, SweepsInformed, Sure
  <1>8. CompletedIsClosed'
    BY <1>1 DEF IInv, CompletedIsClosed
  <1> QED
    BY <1>4, <1>5, <1>6, <1>7, <1>8 DEF IInv

\* A materialization that begins counts from what the campaign has.
LEMMA MaterializeStartKeeps ==
    ASSUME IInv, NEW w \in Workers, MaterializeStart(w)
    PROVE  IInv'
  <1>1. w \in Processes /\ Typed /\ TypeOK /\ txn \in [Processes -> Txns]
    BY JobsApart DEF IInv, Typed, TypeOK
  <1>2. CASE ~ (cstatus = "sending" /\ hasList)
    <2>1. CASE Quiet(w)
      BY <1>1, <2>1, QuietKeeps
    <2>2. CASE UNCHANGED <<db, sends, txn, history, faults>> /\ materialize' \in Nat
      BY <1>1, <2>2, StillKeeps DEF TypeOK, db, history
    <2> QED
      BY <1>1, <1>2, <2>1, <2>2, MaterializeRefusedIsQuiet
  <1>3. CASE cstatus = "sending" /\ hasList
    <2> DEFINE t == [Idle EXCEPT !.job = "materialize", !.pc = "contacts",
                                 !.new = Ledger,
                                 !.vals = [f \in Recounted |-> counts[f]]]
    <2>1. /\ txn[w] = Idle /\ txn' = [txn EXCEPT ![w] = t]
          /\ parallel' = (parallel \/ Materializing)
          /\ UNCHANGED <<db, sends, overlapped, faults>>
          /\ materialize' \in Nat
      BY <1>1, <1>3 DEF MaterializeStart, TypeOK
    <2>2. [f \in Recounted |-> counts[f]] \in [Recounted -> Nat \cup {Kept}]
      BY <1>1 DEF TypeOK, Recounted, Counters
    <2>3. /\ t \in Txns /\ t.pc = "contacts" /\ t.job = "materialize"
          /\ t.skip = {} /\ t.vals["total"] = counts["total"]
      BY <2>2, IdleType DEF Txns, Jobs, Phases, Ledger, Recounted
    <2> HIDE DEF t
    <2>4. /\ txn' \in [Processes -> Txns] /\ txn'[w] = t
          /\ \A v \in Processes \ {w} : txn'[v] = txn[v]
      BY <1>1, <2>1, <2>3, PutType
    <2>5. Moves(w)
      BY <2>3, <2>4 DEF Moves, Course
    <2>6. TypeOK' /\ parallel' \in BOOLEAN
      BY <1>1, <2>1, <2>3, <2>4, <2>5 DEF TypeOK, db, Moves
    <2>7. Recount(txn[w])'
      BY <2>1, <2>3, <2>4 DEF Recount, db
    <2>8. ~Fills(txn[w]) /\ Fills(txn'[w]) /\ ~Sure(txn'[w])
      BY <2>1, <2>3, <2>4, IdleType DEF Fills, Sure
    <2>9. ~parallel' => (~parallel /\ \A v \in Workers : Fills(txn[v]) => v = w)
      BY <2>1 DEF Materializing, Fills
    <2> QED
      BY <1>3, <2>1, <2>5, <2>6, <2>7, <2>8, <2>9, FillStepKeeps DEF db
  <1> QED
    BY <1>2, <1>3

\* What holds of a materialization before a step of it.
LEMMA FillsAlone ==
    ASSUME IInv, NEW w \in Workers, Fills(txn[w])
    PROVE  /\ txn[w].job = "materialize" /\ txn[w] \in Txns /\ w \in Processes
           /\ txn \in [Processes -> Txns]
           /\ Materializing
           /\ ~parallel => (/\ Recount(txn[w])
                            /\ \A v \in Workers : Fills(txn[v]) => v = w)
  <1>1. w \in Processes /\ txn \in [Processes -> Txns]
    BY JobsApart DEF IInv, Typed, TypeOK
  <1>2. txn[w].job = "materialize"
    BY <1>1, PlacesOfJobs DEF IInv
  <1> QED
    BY <1>1, <1>2 DEF IInv, Recounts, Materializing, Fills

\* Reading the contacts leaves the counters it holds.
LEMMA ReadContactsKeeps ==
    ASSUME IInv, NEW w \in Workers, ReadContacts(w)
    PROVE  IInv'
  <1> DEFINE t == [txn[w] EXCEPT !.pc = "insert", !.new = active \ txn[w].new]
  <1>1. /\ txn[w].pc = "contacts" /\ UNCHANGED <<db, broker, history, faults>>
    BY DEF ReadContacts
  <1>2. Fills(txn[w]) /\ active \subseteq Contacts /\ TypeOK
    BY <1>1 DEF Fills, IInv, Typed, TypeOK
  <1>3. /\ txn[w].job = "materialize" /\ txn[w] \in Txns /\ w \in Processes
        /\ txn \in [Processes -> Txns] /\ Materializing
        /\ ~parallel => (/\ Recount(txn[w])
                         /\ \A v \in Workers : Fills(txn[v]) => v = w)
    BY <1>2, FillsAlone
  <1>4. txn[w].skip = {}
    BY <1>1, <1>3, IdleType DEF IInv, Typed, Course
  <1>5. /\ t \in Txns /\ t.pc = "insert" /\ t.job = "materialize"
        /\ t.skip = {} /\ t.vals = txn[w].vals
    BY <1>2, <1>3, <1>4 DEF Txns, Phases
  <1>6. txn' = [txn EXCEPT ![w] = t]
    BY <1>3 DEF ReadContacts
  <1> HIDE DEF t
  <1>7. /\ txn' \in [Processes -> Txns] /\ txn'[w] = t
        /\ \A v \in Processes \ {w} : txn'[v] = txn[v]
    BY <1>3, <1>5, <1>6, PutType
  <1>8. Moves(w)
    BY <1>5, <1>7 DEF Moves, Course
  <1>9. TypeOK'
    BY <1>1, <1>2, <1>7, <1>8 DEF TypeOK, db, broker, history, Moves
  <1>10. Fills(txn'[w]) /\ ~Sure(txn'[w])
    BY <1>5, <1>7 DEF Fills, Sure
  <1>11. ~parallel' => (/\ ~parallel /\ Recount(txn[w])'
                        /\ \A v \in Workers : Fills(txn[v]) => v = w)
    BY <1>1, <1>3, <1>5, <1>7 DEF Recount, db, history
  <1> QED
    BY <1>1, <1>2, <1>3, <1>8, <1>9, <1>10, <1>11, FillStepKeeps DEF db, history, TypeOK

\* Inserting the rows counts what the ledger will have.
LEMMA InsertRowsKeeps ==
    ASSUME IInv, NEW w \in Workers, InsertRows(w)
    PROVE  IInv'
  <1> DEFINE new == txn[w].new
  <1>1. /\ txn[w].pc = "insert" /\ UNCHANGED <<db, broker, history, faults>>
        /\ new \cap Ledger = {}
    BY DEF InsertRows
  <1>2. Fills(txn[w]) /\ TypeOK
    BY <1>1 DEF Fills, IInv, Typed
  <1>3. /\ txn[w].job = "materialize" /\ txn[w] \in Txns /\ w \in Processes
        /\ txn \in [Processes -> Txns] /\ Materializing
        /\ ~parallel => (/\ Recount(txn[w])
                         /\ \A v \in Workers : Fills(txn[v]) => v = w)
    BY <1>2, FillsAlone
  <1>4. new \in SUBSET Contacts
    BY <1>3 DEF Txns
  <1>5. PICK skip \in SUBSET new :
          LET total   == Cardinality(Ledger \cup new)
              queued  == Cardinality(Pending \cup (new \ skip))
              now     == [total |-> total, queued |-> queued,
                          skipped |-> total - queued]
          IN txn' = [txn EXCEPT
                        ![w].pc = "recounted", ![w].skip = skip,
                        ![w].vals = [f \in Recounted |->
                                        IF now[f] = @[f] THEN Kept ELSE now[f]]]
    BY DEF InsertRows
  <1> DEFINE total  == Cardinality(Ledger \cup new)
             queued == Cardinality(Pending \cup (new \ skip))
             now    == [total |-> total, queued |-> queued,
                        skipped |-> total - queued]
             vals   == [f \in Recounted |->
                           IF now[f] = txn[w].vals[f] THEN Kept ELSE now[f]]
             t      == [txn[w] EXCEPT !.pc = "recounted", !.skip = skip, !.vals = vals]
  <1>6. txn' = [txn EXCEPT ![w] = t]
    BY <1>3, <1>5
  <1>7. total \in Nat /\ queued \in Nat /\ queued <= total
    BY <1>4, LedgerCounts
  <1> HIDE DEF total, queued
  <1>8. \A f \in Recounted : now[f] \in Nat
    BY <1>7 DEF Recounted
  <1>9. now["total"] = total
    OBVIOUS
  <1> HIDE DEF now
  <1>10. vals \in [Recounted -> Nat \cup {Kept}]
    BY <1>8
  <1>11. vals["total"] = IF total = txn[w].vals["total"] THEN Kept ELSE total
    BY <1>9 DEF Recounted
  <1> HIDE DEF vals
  <1>12. /\ t \in Txns /\ t.pc = "recounted" /\ t.job = "materialize"
         /\ t.skip \subseteq t.new /\ t.new = new /\ t.vals = vals
    BY <1>3, <1>4, <1>10 DEF Txns, Phases
  <1> HIDE DEF t
  <1>13. /\ txn' \in [Processes -> Txns] /\ txn'[w] = t
         /\ \A v \in Processes \ {w} : txn'[v] = txn[v]
    BY <1>3, <1>6, <1>12, PutType
  <1>14. Moves(w)
    BY <1>12, <1>13 DEF Moves, Course
  <1>15. TypeOK'
    BY <1>1, <1>2, <1>13, <1>14 DEF TypeOK, db, broker, history, Moves
  <1>16. Fills(txn'[w]) /\ ~Sure(txn'[w])
    BY <1>12, <1>13 DEF Fills, Sure
  <1>17. Recount(txn[w]) => Recount(txn[w])'
    <2>1. Ledger' = Ledger /\ counts' = counts /\ cstatus' = cstatus
      BY <1>1, SameLedger DEF db
    <2>2. total = IF vals["total"] = Kept THEN txn[w].vals["total"] ELSE vals["total"]
      BY <1>7, <1>11 DEF Kept
    <2>3. Cardinality(Ledger \cup new) = total
      BY DEF total
    <2> QED
      BY <1>1, <1>12, <1>13, <2>1, <2>2, <2>3 DEF Recount
  <1> QED
    BY <1>1, <1>2, <1>3, <1>14, <1>15, <1>16, <1>17, FillStepKeeps DEF db, history, TypeOK

\* The commit of a ledger writes the total that was counted, and no sweep is
\* sure after it.
LEMMA CommitLedgerKeeps ==
    ASSUME IInv, NEW w \in Workers, CommitLedger(w)
    PROVE  IInv'
  <1> DEFINE t    == txn[w]
             mine == [Idle EXCEPT !.job = t.job, !.pc = "enqueue"]
  <1>1. /\ t.pc = "recounted" /\ cstatus # "deleted"
        /\ UNCHANGED <<cstatus, due, hasList, active, broker, history, faults>>
    BY DEF CommitLedger
  <1>2. Fills(t) /\ TypeOK
    BY <1>1 DEF Fills, IInv, Typed
  <1>3. /\ t.job = "materialize" /\ t \in Txns /\ w \in Processes
        /\ txn \in [Processes -> Txns] /\ Materializing
        /\ ~parallel => (/\ Recount(t)
                         /\ \A v \in Workers : Fills(txn[v]) => v = w)
    BY <1>2, FillsAlone
  <1>4. t.skip \subseteq t.new /\ t.new \subseteq Contacts
    BY <1>2, <1>3 DEF TypeOK, Txns
  <1>5. /\ mine \in Txns /\ mine.job = "materialize" /\ mine.pc = "enqueue"
        /\ mine.skip = {}
    BY <1>3, IdleType DEF Txns, Phases
  <1>6. txn' = [p \in Processes |->
                  IF p = w THEN mine
                  ELSE IF txn[p].job = "sweep" /\ txn[p].pc \in {"load", "commit"}
                       THEN [txn[p] EXCEPT !.raced = TRUE]
                       ELSE txn[p]]
    BY DEF CommitLedger
  <1> HIDE DEF mine
  <1>7. txn'[w] = mine
    BY <1>3, <1>6
  <1>8. ASSUME NEW p \in Processes, p # w
        PROVE  /\ txn'[p] \in Txns /\ txn'[p].skip \subseteq txn'[p].new
               /\ Course(p, txn'[p]) /\ txn'[p].pc = txn[p].pc
               /\ ~Sure(txn'[p])
    <2>1. /\ txn[p] \in Txns /\ txn[p].skip \subseteq txn[p].new
          /\ Course(p, txn[p])
      BY <1>2, <1>3 DEF TypeOK, IInv, Typed
    <2>2. CASE txn[p].job = "sweep" /\ txn[p].pc \in {"load", "commit"}
      <3> DEFINE u == [txn[p] EXCEPT !.raced = TRUE]
      <3>1. /\ u \in Txns /\ u.raced /\ u.skip = txn[p].skip /\ u.new = txn[p].new
            /\ u.job = txn[p].job /\ u.pc = txn[p].pc /\ u.seen = txn[p].seen
            /\ u.to = txn[p].to /\ u.c = txn[p].c
        BY <2>1 DEF Txns
      <3>2. txn'[p] = u
        BY <1>6, <1>8, <2>2
      <3> HIDE DEF u
      <3>3. txn[p] # Idle
        BY <2>2, IdleType
      <3>4. Course(p, u)
        BY <2>1, <3>1, <3>3 DEF Course
      <3> QED
        BY <2>1, <3>1, <3>2, <3>4 DEF Sure
    <2>3. CASE ~ (txn[p].job = "sweep" /\ txn[p].pc \in {"load", "commit"})
      <3>1. txn'[p] = txn[p]
        BY <1>6, <1>8, <2>3
      <3> QED
        BY <2>1, <2>3, <3>1 DEF Sure
    <2> QED
      BY <2>2, <2>3
  <1>9. /\ Course(w, txn'[w]) /\ txn'[w] \in Txns /\ ~Sure(txn'[w]) /\ ~Fills(txn'[w])
        /\ txn'[w].skip \subseteq txn'[w].new
    BY <1>5, <1>7 DEF Course, Sure, Fills
  <1>10. /\ row' \in [Contacts -> RowStatuses]
         /\ Ledger' = Ledger \cup t.new
    <2>1. row' = [c \in Contacts |-> IF c \in t.skip THEN "skipped"
                                     ELSE IF c \in t.new THEN "pending" ELSE row[c]]
      BY DEF CommitLedger
    <2>2. row \in [Contacts -> RowStatuses]
      BY <1>2 DEF TypeOK
    <2> QED
      BY <1>4, <2>1, <2>2 DEF RowStatuses, Ledger
  <1>11. /\ counts' \in [Counters -> Nat]
         /\ counts'["total"] = IF t.vals["total"] = Kept THEN counts["total"]
                               ELSE t.vals["total"]
    <2>1. counts' = [f \in Counters |->
                        IF f \in Recounted /\ t.vals[f] # Kept
                        THEN t.vals[f] ELSE counts[f]]
      BY DEF CommitLedger
    <2>2. counts \in [Counters -> Nat] /\ t.vals \in [Recounted -> Nat \cup {Kept}]
      BY <1>2, <1>3 DEF TypeOK, Txns
    <2> QED
      BY <2>1, <2>2 DEF Recounted, Counters
  <1>12. Typed'
    <2>1. txn' \in [Processes -> Txns]
      BY <1>6, <1>8, <1>9
    <2>2. \A p \in Processes : txn'[p].skip \subseteq txn'[p].new /\ Course(p, txn'[p])
      BY <1>8, <1>9
    <2>3. TypeOK'
      BY <1>1, <1>2, <1>10, <1>11, <2>1, <2>2 DEF TypeOK, broker, history
    <2> QED
      BY <2>2, <2>3 DEF Typed
  <1>13. GoneIsEmpty'
    BY <1>1 DEF GoneIsEmpty
  <1>14. parallel' = parallel /\ overlapped' = overlapped
    BY <1>1 DEF history
  <1>15. Recounts'
    BY <1>3, <1>8, <1>9, <1>14, JobsApart DEF Recounts, Fills
  <1>16. TotalMatchesLedger'
    BY <1>1, <1>3, <1>10, <1>11, <1>14 DEF TotalMatchesLedger, Recount
  <1>17. SweepsInformed'
    BY <1>8, <1>9, JobsApart DEF SweepsInformed
  <1>18. CompletedIsClosed'
    BY <1>1, <1>3, <1>14 DEF IInv, CompletedIsClosed
  <1> QED
    BY <1>12, <1>13, <1>15, <1>16, <1>17, <1>18 DEF IInv

-----------------------------------------------------------------------------
(* The steps that write the status of the campaign.                         *)

\* A commit of p that may settle pending rows, and takes none away unless it
\* deletes the campaign; it completes only what has no pending row.
Commits(p) ==
    /\ Moves(p)
    /\ ~Fills(txn[p]) /\ ~Fills(txn'[p]) /\ ~Sure(txn'[p])
    /\ cstatus # "deleted"
    /\ Pending' \subseteq Pending
    /\ IF cstatus' = "deleted" THEN Ledger' = {} ELSE Ledger' = Ledger
    /\ counts'["total"] = counts["total"]
    /\ \E raced \in BOOLEAN :
        /\ Records(cstatus', raced)
        /\ cstatus' = "completed" /\ cstatus # "completed" => (raced \/ Pending' = {})
    /\ parallel' = parallel

\* Such a commit keeps what the campaign is known to be.
LEMMA CommitKeeps ==
    ASSUME IInv, NEW p \in Processes, Commits(p), TypeOK'
    PROVE  IInv'
  <1>1. /\ \A v \in Processes \ {p} : txn'[v] = txn[v]
        /\ ~Fills(txn[p]) /\ ~Fills(txn'[p]) /\ ~Sure(txn'[p])
        /\ cstatus # "deleted" /\ Pending' \subseteq Pending
        /\ cstatus' = "deleted" => Ledger' = {}
        /\ cstatus' # "deleted" => Ledger' = Ledger
        /\ counts'["total"] = counts["total"] /\ parallel' = parallel
    BY DEF Commits, Moves
  <1>2. \A w \in Workers : w \in Processes
    BY DEF Processes
  <1>3. Typed'
    BY DEF Commits, Moves, Typed, IInv
  <1>4. GoneIsEmpty' /\ TotalMatchesLedger'
    BY <1>1 DEF IInv, GoneIsEmpty, TotalMatchesLedger
  <1>5. \A w \in Workers : /\ Fills(txn'[w]) => txn'[w] = txn[w]
                           /\ Fills(txn[w]) => txn'[w] = txn[w]
                           /\ Sure(txn'[w]) => txn'[w] = txn[w]
    BY <1>1, <1>2
  <1>6. Recounts'
    <2> SUFFICES ASSUME ~parallel', NEW w \in Workers, Fills(txn'[w])
                 PROVE  /\ Recount(txn[w])'
                        /\ \A v \in Workers : Fills(txn'[v]) => v = w
      BY DEF Recounts, Fills
    <2>1. /\ Recount(txn[w]) /\ txn'[w] = txn[w]
          /\ \A v \in Workers : Fills(txn[v]) => v = w
      BY <1>1, <1>5 DEF IInv, Recounts
    <2>2. \A v \in Workers : Fills(txn'[v]) => v = w
      BY <1>5, <2>1
    <2>3. Recount(txn[w])'
      BY <1>1, <2>1 DEF Recount
    <2> QED
      BY <2>2, <2>3
  <1>7. SweepsInformed'
    BY <1>1, <1>5 DEF IInv, SweepsInformed
  <1>8. Materializing' <=> Materializing
    BY <1>5 DEF Materializing, Fills
  <1>9. CompletedIsClosed'
    <2>1. PICK raced \in BOOLEAN :
            /\ Records(cstatus', raced)
            /\ cstatus' = "completed" /\ cstatus # "completed" => (raced \/ Pending' = {})
      BY DEF Commits
    <2> SUFFICES ASSUME cstatus' = "completed"
                 PROVE  (overlapped \/ (Pending = {} /\ ~Materializing))'
      BY DEF CompletedIsClosed
    <2>2. CASE cstatus = "completed"
      BY <1>1, <1>8, <2>1, <2>2 DEF IInv, CompletedIsClosed, Records
    <2>3. CASE cstatus # "completed"
      <3>1. overlapped' = (raced \/ Materializing)
        BY <2>1, <2>3 DEF Records
      <3> QED
        BY <1>8, <2>1, <2>3, <3>1
    <2> QED
      BY <2>2, <2>3
  <1> QED
    BY <1>3, <1>4, <1>6, <1>7, <1>9 DEF IInv

\* The commit of an operator's request: none completes a campaign.
LEMMA CommitRequestKeeps ==
    ASSUME IInv, NEW q \in Requests, CommitRequest(q)
    PROVE  IInv'
  <1> DEFINE t == txn[q]
  <1>1. /\ q \in Processes /\ q \notin Workers /\ Typed /\ TypeOK
    BY JobsApart DEF IInv, Typed
  <1>2. /\ t.pc = "commit" /\ cstatus # "deleted" /\ cstatus' = Written(q)
        /\ row' = IF t.job = "delete" THEN [c \in Contacts |-> "none"] ELSE row
        /\ Records(Written(q), FALSE)
        /\ due' \in BOOLEAN
        /\ UNCHANGED <<hasList, active, counts, broker, parallel, faults>>
    BY <1>1 DEF CommitRequest, TypeOK
  <1>3. /\ t.job \in Requested /\ t.seen \in CampaignStatuses
        /\ Allows(t.job, t.seen) /\ t.to = Target(t.job, t.seen)
    BY <1>1, <1>2, IdleType DEF Typed, Course
  <1>4. t.job \in {"schedule", "pause", "resume", "cancel", "delete", "edit"}
    BY <1>3, LifecycleAssumption
  <1>5. /\ t.to \in CampaignStatuses
        /\ t.to = "completed" => t.to = t.seen
        /\ (t.to = "deleted" /\ t.to # t.seen) <=> t.job = "delete"
    BY <1>3, <1>4 DEF Target, Allows, CampaignStatuses
  <1>6. /\ cstatus' \in CampaignStatuses
        /\ cstatus' = "completed" => cstatus = "completed"
        /\ cstatus' = "deleted" <=> t.job = "delete"
    BY <1>1, <1>2, <1>5 DEF Written, TypeOK
  <1>7. Moves(q) /\ ~Fills(txn'[q]) /\ ~Sure(txn'[q])
    <2>1. CASE t.job = "resume"
      <3>1. Goto(q, "publish") /\ "publish" \in Phases
        BY <2>1 DEF CommitRequest, Phases
      <3>2. /\ txn' \in [Processes -> Txns]
            /\ \A v \in Processes \ {q} : txn'[v] = txn[v]
            /\ txn'[q].skip \subseteq txn'[q].new
            /\ txn'[q].pc = "publish"
            /\ txn'[q].job = t.job /\ txn'[q].seen = t.seen /\ txn'[q].to = t.to
        BY <1>1, <3>1, GotoMoves
      <3> QED
        BY <1>3, <3>2 DEF Moves, Course, Fills, Sure
    <2>2. CASE t.job # "resume"
      <3>1. Moves(q) /\ txn'[q] = Idle
        BY <1>1, <2>2, EndMoves DEF CommitRequest
      <3> QED
        BY <3>1, IdleType DEF Fills, Sure
    <2> QED
      BY <2>1, <2>2
  <1>8. /\ row' \in [Contacts -> RowStatuses]
        /\ Pending' \subseteq Pending
        /\ IF cstatus' = "deleted" THEN Ledger' = {} ELSE Ledger' = Ledger
    <2>1. CASE t.job = "delete"
      <3>1. row' = [c \in Contacts |-> "none"]
        BY <1>2, <2>1
      <3>2. Pending' = {} /\ Ledger' = {}
        BY <3>1 DEF Pending, Ledger
      <3> QED
        BY <1>6, <2>1, <3>1, <3>2 DEF RowStatuses
    <2>2. CASE t.job # "delete"
      BY <1>1, <1>2, <1>6, <2>2, SameLedger DEF TypeOK
    <2> QED
      BY <2>1, <2>2
  <1>9. overlapped' \in BOOLEAN
    BY <1>1, <1>2, <1>6 DEF Records, TypeOK
  <1>10. TypeOK'
    BY <1>1, <1>2, <1>6, <1>7, <1>8, <1>9 DEF TypeOK, broker, Moves
  <1>11. ~Fills(t)
    BY <1>2 DEF Fills
  <1>12. Commits(q)
    BY <1>2, <1>6, <1>7, <1>8, <1>11 DEF Commits
  <1> QED
    BY <1>1, <1>10, <1>12, CommitKeeps

\* The commit of a task: only a sweep completes a campaign.
LEMMA CommitTaskKeeps ==
    ASSUME IInv, NEW w \in Workers, CommitTask(w)
    PROVE  IInv'
  <1> DEFINE t == txn[w]
  <1>1. /\ w \in Processes /\ w \notin Requests /\ Typed /\ TypeOK
    BY JobsApart DEF IInv, Typed
  <1>2. /\ t.pc = "commit" /\ t.job \in {"dispatch", "sweep", "materialize"}
        /\ cstatus # "deleted" /\ cstatus' = Written(w)
        /\ Records(Written(w), t.raced)
        /\ UNCHANGED <<due, hasList, active, row, counts, broker, parallel, faults>>
    BY DEF CommitTask
  <1>3. t \in Txns /\ t.raced \in BOOLEAN
    BY <1>1 DEF TypeOK, Txns
  <1>4. \/ t.job = "dispatch" /\ t.seen = "scheduled" /\ t.to = "sending"
        \/ t.job = "sweep" /\ t.seen = "sending" /\ t.to = "completed"
        \/ t.job = "materialize" /\ t.seen = "sending" /\ t.to = "failed"
    BY <1>1, <1>2, IdleType DEF Typed, Course
  <1>5. /\ cstatus' \in CampaignStatuses /\ cstatus' # "deleted"
        /\ cstatus' = "completed" => t.job = "sweep"
    BY <1>2, <1>4 DEF Written, CampaignStatuses
  <1>6. Pending' = Pending /\ Ledger' = Ledger
    BY <1>2, SameLedger
  <1>7. Moves(w) /\ ~Fills(txn'[w]) /\ ~Sure(txn'[w])
    <2>1. CASE t.job = "dispatch"
      <3>1. Goto(w, "publish") /\ "publish" \in Phases
        BY <2>1 DEF CommitTask, Phases
      <3>2. /\ txn' \in [Processes -> Txns]
            /\ \A v \in Processes \ {w} : txn'[v] = txn[v]
            /\ txn'[w].skip \subseteq txn'[w].new
            /\ txn'[w].pc = "publish"
            /\ txn'[w].job = t.job /\ txn'[w].seen = t.seen /\ txn'[w].to = t.to
        BY <1>1, <3>1, GotoMoves
      <3> QED
        BY <1>4, <2>1, <3>2 DEF Moves, Course, Fills, Sure
    <2>2. CASE t.job # "dispatch"
      <3>1. Moves(w) /\ txn'[w] = Idle
        BY <1>1, <2>2, EndMoves DEF CommitTask
      <3> QED
        BY <3>1, IdleType DEF Fills, Sure
    <2> QED
      BY <2>1, <2>2
  <1>8. overlapped' \in BOOLEAN
    BY <1>1, <1>2, <1>3 DEF Records, TypeOK
  <1>9. TypeOK'
    BY <1>1, <1>2, <1>5, <1>7, <1>8 DEF TypeOK, broker, Moves
  <1>10. cstatus' = "completed" => (t.raced \/ Pending' = {})
    BY <1>2, <1>5, <1>6 DEF IInv, SweepsInformed, Sure
  <1>11. ~Fills(t)
    BY <1>2 DEF Fills
  <1>12. Commits(w)
    BY <1>2, <1>3, <1>5, <1>6, <1>7, <1>10, <1>11 DEF Commits
  <1> QED
    BY <1>1, <1>9, <1>12, CommitKeeps

\* The commit of a send: it completes the campaign when its row was the last.
LEMMA SendCommitKeeps ==
    ASSUME IInv, NEW w \in Workers, SendCommit(w)
    PROVE  IInv'
  <1> DEFINE c == txn[w].c
  <1>1. /\ w \in Processes /\ Typed /\ TypeOK /\ txn[w].job \in {"send", "skip"}
    BY JobsApart DEF IInv, Typed, SendCommit
  <1>2. c \in Contacts /\ txn[w].pc = "commit"
    BY <1>1, SendHolds
  <1>3. Moves(w) /\ txn'[w] = Idle
    BY <1>1, EndMoves DEF SendCommit
  <1>4. ~Fills(txn[w]) /\ ~Fills(txn'[w]) /\ ~Sure(txn'[w])
    BY <1>2, <1>3, IdleType DEF Fills, Sure
  <1>5. UNCHANGED <<due, hasList, active, broker, faults>>
    BY DEF SendCommit
  <1>6. CASE row[c] # "pending"
    <2>1. UNCHANGED <<cstatus, row, counts, history>>
      BY <1>6 DEF SendCommit
    <2>2. Quiet(w)
      BY <1>1, <1>3, <1>4, <1>5, <2>1 DEF Quiet, db, broker, TypeOK
    <2> QED
      BY <1>1, <2>2, QuietKeeps
  <1>7. ASSUME NEW status \in {"done", "skipped"}, row[c] = "pending", Settle(w, status)
        PROVE  IInv'
    <2>1. /\ row' = [row EXCEPT ![c] = status]
          /\ counts' = [counts EXCEPT ![status] = @ + 1]
          /\ cstatus' = Finalized(w)
          /\ Records(Finalized(w), FALSE)
          /\ parallel' = parallel
      BY <1>7 DEF Settle
    <2>2. /\ row' \in [Contacts -> RowStatuses]
          /\ Ledger' = Ledger /\ Pending' = Pending \ {c}
      BY <1>1, <1>2, <1>7, <2>1 DEF TypeOK, RowStatuses, Ledger, Pending
    <2>3. counts' \in [Counters -> Nat] /\ counts'["total"] = counts["total"]
      BY <1>1, <2>1 DEF TypeOK, Counters
    <2>4. /\ cstatus' \in CampaignStatuses
          /\ cstatus' # cstatus => (cstatus' = "completed" /\ Pending' = {})
      BY <1>1, <2>1, <2>2 DEF Finalized, TypeOK, CampaignStatuses
    <2>5. overlapped' \in BOOLEAN
      BY <1>1, <2>1 DEF Records, TypeOK
    <2>6. TypeOK'
      BY <1>1, <1>3, <1>5, <2>1, <2>2, <2>3, <2>4, <2>5 DEF TypeOK, broker, Moves
    <2>7. CASE cstatus # "deleted"
      <3>1. Commits(w)
        BY <1>3, <1>4, <2>1, <2>2, <2>3, <2>4, <2>7 DEF Commits
      <3> QED
        BY <1>1, <2>6, <3>1, CommitKeeps
    <2>8. CASE cstatus = "deleted"
      BY <1>2, <1>7, <2>8 DEF IInv, GoneIsEmpty, Ledger
    <2> QED
      BY <2>7, <2>8
  <1> QED
    BY <1>6, <1>7 DEF SendCommit

-----------------------------------------------------------------------------
(* The invariant.                                                           *)

\* The invariant holds of a new campaign.
LEMMA InitIInv == Init => IInv
  <1> SUFFICES ASSUME Init PROVE IInv
    OBVIOUS
  <1>1. \A p \in Processes : txn[p] = Idle
    BY DEF Init
  <1>2. Typed
    <2>1. /\ row \in [Contacts -> RowStatuses] /\ counts \in [Counters -> Nat]
          /\ cstatus \in CampaignStatuses /\ faults \in 0 .. MaxFaults
      BY LifecycleAssumption DEF Init, RowStatuses, CampaignStatuses
    <2>2. txn \in [Processes -> Txns]
      BY IdleType DEF Init
    <2>3. \A p \in Processes : txn[p].skip \subseteq txn[p].new
      BY <1>1, IdleType
    <2>4. TypeOK
      BY <2>1, <2>2, <2>3 DEF Init, TypeOK
    <2> QED
      BY <1>1, <2>4 DEF Typed, Course
  <1>3. Ledger = {} /\ Cardinality(Ledger) = 0 /\ counts["total"] = 0
    BY FS_EmptySet DEF Init, Ledger, Counters
  <1>4. \A w \in Workers : ~Fills(txn[w]) /\ ~Sure(txn[w])
    BY <1>1, IdleType, JobsApart DEF Fills, Sure
  <1>5. cstatus # "completed"
    BY DEF Init
  <1> QED
    BY <1>2, <1>3, <1>4, <1>5 DEF IInv, GoneIsEmpty, Recounts, TotalMatchesLedger,
                                  SweepsInformed, CompletedIsClosed

\* Every step keeps the invariant.
LEMMA NextIInv == IInv /\ [Next]_vars => IInv'
  <1> SUFFICES ASSUME IInv, [Next]_vars PROVE IInv'
    OBVIOUS
  <1>0. Typed /\ TypeOK /\ SweepsInformed
    BY DEF IInv, Typed
  <1>1. ASSUME NEW p \in Processes, Quiet(p) PROVE IInv'
    BY <1>1, QuietKeeps
  <1>2. ASSUME NEW q \in Requests, Serve(q) PROVE IInv'
    <2>1. q \in Processes
      BY JobsApart
    <2>2. CASE \E op \in Requested : Open(q, op)
      BY <1>0, <1>1, <2>1, <2>2, OpenIsQuiet
    <2>3. CASE CommitRequest(q)
      BY <2>3, CommitRequestKeeps
    <2>4. CASE Publish(q)
      BY <1>0, <1>1, <2>1, <2>4, PublishIsQuiet
    <2>5. CASE CommitFails(q)
      BY <1>0, <1>1, <2>1, <2>5, CommitFailsIsQuiet
    <2>6. CASE RequestDies(q)
      BY <1>0, <1>1, <2>1, <2>6, RequestDiesIsQuiet
    <2> QED
      BY <1>2, <2>2, <2>3, <2>4, <2>5, <2>6 DEF Serve
  <1>3. ASSUME NEW w \in Workers, Work(w) PROVE IInv'
    <2>1. w \in Processes
      BY JobsApart
    <2>2. CASE Dispatch(w)
      BY <1>0, <1>1, <2>1, <2>2, DispatchIsQuiet
    <2>3. CASE Sweep(w)
      BY <1>0, <1>1, <2>1, <2>3, SweepSelectIsQuiet, SweepCountIsQuiet,
         SweepLeavesIsQuiet, SweepLoadIsQuiet DEF Sweep
    <2>4. CASE CommitTask(w)
      BY <2>4, CommitTaskKeeps
    <2>5. CASE Publish(w)
      BY <1>0, <1>1, <2>1, <2>5, PublishIsQuiet
    <2>6. CASE CommitFails(w)
      BY <1>0, <1>1, <2>1, <2>6, CommitFailsIsQuiet
    <2>7. CASE MaterializeStart(w)
      BY <2>7, MaterializeStartKeeps
    <2>8. CASE MaterializeStep(w)
      BY <1>0, <1>1, <2>1, <2>8, ReadContactsKeeps, InsertRowsKeeps,
         InsertConflictIsQuiet, CommitLedgerKeeps DEF MaterializeStep
    <2>9. CASE Enqueue(w)
      BY <1>0, <1>1, <2>1, <2>9, EnqueueIsQuiet
    <2>10. ASSUME NEW c \in Contacts, SendStart(w, c) PROVE IInv'
      <3>1. CASE Quiet(w)
        BY <1>1, <2>1, <3>1
      <3>2. CASE UNCHANGED <<db, materialize, txn, history, faults>> /\ sends' \subseteq Contacts
        <4>1. TypeOK'
          BY <1>0, <3>2 DEF TypeOK, db, history
        <4> QED
          BY <3>2, <4>1, StillKeeps DEF db
      <3> QED
        BY <1>0, <2>10, <3>1, <3>2, SendStartIsQuiet
    <2>11. CASE SendLater(w)
      BY <1>0, <1>1, <2>1, <2>11, SendLaterIsQuiet
    <2>12. CASE SendCommit(w)
      BY <2>12, SendCommitKeeps
    <2>13. CASE WorkerDies(w)
      BY <1>0, <1>1, <2>1, <2>13, WorkerDiesIsQuiet
    <2> QED
      BY <1>3, <2>2, <2>3, <2>4, <2>5, <2>6, <2>7, <2>8, <2>9, <2>10, <2>11,
         <2>12, <2>13 DEF Work
  <1>4. ASSUME TimePasses \/ \E c \in Contacts : ContactJoins(c) \/ ContactLeaves(c)
        PROVE  IInv'
    <2>1. /\ UNCHANGED <<cstatus, row, counts, txn, history, broker, hasList, faults>>
          /\ due' \in BOOLEAN /\ active' \subseteq Contacts
      BY <1>0, <1>4 DEF TimePasses, ContactJoins, ContactLeaves, TypeOK
    <2>2. TypeOK'
      BY <1>0, <2>1 DEF TypeOK, broker, history
    <2> QED
      BY <2>1, <2>2, StillKeeps
  <1>5. CASE UNCHANGED vars
    <2>1. UNCHANGED <<cstatus, row, counts, txn, history>> /\ TypeOK'
      BY <1>0, <1>5 DEF vars, db, broker, history, TypeOK
    <2> QED
      BY <2>1, StillKeeps
  <1> QED
    BY <1>2, <1>3, <1>4, <1>5 DEF Next

-----------------------------------------------------------------------------
(* The theorems.                                                            *)

\* The invariant holds in every behaviour.
THEOREM SpecIInv == Spec => []IInv
  BY InitIInv, NextIInv, PTL DEF Spec

\* Every variable keeps its type: no counter of the campaign falls below zero.
THEOREM SpecTypeOK == Spec => []TypeOK
  <1>1. IInv => TypeOK
    BY DEF IInv, Typed
  <1> QED
    BY <1>1, SpecIInv, PTL

\* total_recipients is the number of rows, whatever dies or fails, unless two
\* materializations were under way at once.
THEOREM SpecTotal == Spec => []TotalMatchesLedger
  <1>1. IInv => TotalMatchesLedger
    BY DEF IInv
  <1> QED
    BY <1>1, SpecIInv, PTL

\* A completed campaign has no pending row, unless a materialization was under
\* way when it completed.
THEOREM SpecCompleted == Spec => []CompletedOrOverlapped
  <1>1. IInv => CompletedOrOverlapped
    BY DEF IInv, CompletedIsClosed, CompletedOrOverlapped
  <1> QED
    BY <1>1, SpecIInv, PTL

\* One step out of a cancellation is the commit of a process that revives it.
LEMMA CancelStep ==
    ASSUME Typed, [Next]_vars, cstatus = "cancelled",
           cstatus' \notin {"cancelled", "deleted"}
    PROVE  \E p \in Processes : Revives(p) /\ txn'[p] # txn[p]
  <1> DEFINE Revived(p) == Revives(p) /\ txn'[p] # txn[p]
  <1>1. ASSUME NEW q \in Requests, CommitRequest(q)
        PROVE  Revived(q) /\ q \in Processes
    <2>1. q \in Processes /\ q \notin Workers
      BY JobsApart
    <2>2. /\ cstatus' = Written(q) /\ txn[q].pc = "commit"
          /\ txn' = [txn EXCEPT ![q].pc = "publish"] \/ txn' = [txn EXCEPT ![q] = Idle]
      BY <1>1 DEF CommitRequest, Goto, End
    <2>3. /\ txn[q].job \in Requested /\ txn[q].seen \in CampaignStatuses
          /\ Allows(txn[q].job, txn[q].seen)
          /\ txn[q].to = Target(txn[q].job, txn[q].seen)
      BY <2>1, <2>2, IdleType DEF Typed, Course
    <2>4. txn[q].to # txn[q].seen /\ txn[q].to \notin {"cancelled", "deleted"}
      BY <2>2 DEF Written
    <2>5. txn[q].job \in {"schedule", "delete", "cancel", "pause", "resume", "edit"}
      BY <2>3, LifecycleAssumption
    <2>6. txn[q].seen = "cancelled" => txn[q].job = "schedule"
      BY <2>3, <2>4, <2>5 DEF Allows, Target
    <2>7. Revives(q)
      BY <2>2, <2>4, <2>5, <2>6 DEF Revives
    <2>8. txn'[q].pc # "commit"
      BY <2>1, <2>2 DEF Typed, TypeOK, Txns, Idle
    <2> QED
      BY <2>1, <2>2, <2>7, <2>8
  <1>2. ASSUME NEW w \in Workers, CommitTask(w)
        PROVE  Revived(w) /\ w \in Processes
    <2>1. w \in Processes /\ w \notin Requests
      BY JobsApart
    <2>2. /\ txn[w].pc = "commit"
          /\ txn[w].job \in {"dispatch", "sweep", "materialize"}
          /\ txn' = [txn EXCEPT ![w].pc = "publish"] \/ txn' = [txn EXCEPT ![w] = Idle]
      BY <1>2 DEF CommitTask, Goto, End
    <2>3. txn[w].seen \in {"scheduled", "sending"} /\ txn[w].to # txn[w].seen
      BY <2>1, <2>2, IdleType DEF Typed, Course
    <2>4. txn'[w].pc # "commit"
      BY <2>1, <2>2 DEF Typed, TypeOK, Txns, Idle
    <2> QED
      BY <2>1, <2>2, <2>3, <2>4 DEF Revives
  <1>3. ASSUME NEW w \in Workers, SendCommit(w)
        PROVE  Revived(w) /\ w \in Processes
    <2>1. /\ w \in Processes /\ txn[w].seen = "sending" /\ txn[w].to = "none"
          /\ txn[w].pc = "commit"
      BY <1>3, SendHolds, JobsApart DEF SendCommit
    <2>2. txn[w].job = "skip" /\ txn' = [txn EXCEPT ![w] = Idle]
      BY <1>3 DEF SendCommit, Settle, Finalized, End
    <2>3. txn'[w].pc # "commit"
      BY <2>1, <2>2 DEF Typed, TypeOK, Idle
    <2> QED
      BY <2>1, <2>2, <2>3 DEF Revives
  <1>4. cstatus' # cstatus
    OBVIOUS
  <1>5. ASSUME NEW q \in Requests, Serve(q)
        PROVE  UNCHANGED cstatus \/ CommitRequest(q)
    BY <1>5 DEF Serve, Open, Publish, CommitFails, RequestDies, db
  <1>6. ASSUME NEW w \in Workers, Work(w)
        PROVE  UNCHANGED cstatus \/ CommitTask(w) \/ SendCommit(w)
    <2>1. CASE Dispatch(w) \/ Publish(w) \/ CommitFails(w) \/ Enqueue(w)
      BY <2>1 DEF Dispatch, Publish, CommitFails, Enqueue, db
    <2>2. CASE Sweep(w)
      BY <2>2 DEF Sweep, SweepSelect, SweepCount, SweepStalled, SweepLeaves,
                  SweepLoad, db
    <2>3. CASE MaterializeStart(w)
      BY <2>3 DEF MaterializeStart, db
    <2>4. CASE MaterializeStep(w)
      BY <2>4 DEF MaterializeStep, ReadContacts, InsertRows, InsertConflict,
                  CommitLedger, db
    <2>5. CASE \E c \in Contacts : SendStart(w, c)
      BY <2>5 DEF SendStart, db
    <2>6. CASE SendLater(w) \/ WorkerDies(w)
      BY <2>6 DEF SendLater, WorkerDies, db
    <2> QED
      BY <1>6, <2>1, <2>2, <2>3, <2>4, <2>5, <2>6 DEF Work
  <1>7. CASE TimePasses \/ \E c \in Contacts : ContactJoins(c) \/ ContactLeaves(c)
    BY <1>4, <1>7 DEF TimePasses, ContactJoins, ContactLeaves
  <1>8. CASE UNCHANGED vars
    BY <1>4, <1>8 DEF vars, db
  <1> QED
    BY <1>1, <1>2, <1>3, <1>4, <1>5, <1>6, <1>7, <1>8 DEF Next

\* A cancelled campaign leaves CANCELLED, other than by being deleted, only with
\* the commit of a process that schedules it, or that goes by a status it read
\* before the cancellation.
THEOREM SpecCancelSticks == Spec => CancelSticks
  <1>1. IInv /\ [Next]_vars =>
            [(cstatus = "cancelled" /\ cstatus' \notin {"cancelled", "deleted"}) =>
                 \E p \in Processes : Revives(p) /\ txn'[p] # txn[p]]_vars
    BY CancelStep DEF IInv
  <1> QED
    BY <1>1, SpecIInv, PTL DEF Spec, CancelSticks

=============================================================================
