------------------------- MODULE ReconciliationProofs -------------------------
(***************************************************************************)
(* Proofs about Reconciliation, for any number of rows, addresses,         *)
(* messages, webhooks, workers, requests and faults: its invariants, and   *)
(* that it implements EventLog.                                            *)
(***************************************************************************)
EXTENDS Reconciliation, TLAPS

-----------------------------------------------------------------------------
(* The inductive invariant.                                                 *)

\* A transaction under way is about an address, and a worker's about an event.
Working(p) ==
    /\ txn[p].pc \in Phases
    /\ txn[p].a \in Addresses
    /\ txn[p].mark # "active"
    /\ p \in Requests => txn[p].e = None /\ txn[p].pc \in {"look", "insert", "find", "finish"}
    /\ p \in Workers => txn[p].e \in Webhooks /\ txn[p].a = Address(txn[p].e)

Shape(p) ==
    \/ txn[p] = Idle
    \/ p \in Requests /\ txn[p] = Served
    \/ Working(p)

\* What a transaction holds open is a bounce that is not in the log yet, and
\* one that looks for the contact has its address on the list, or adds it.
Course(p) ==
    /\ txn[p].open =>
          /\ p \in Workers
          /\ txn[p].pc \in {"look", "insert", "find", "finish"}
          /\ IsBounce(txn[p].e)
          /\ txn[p].e \notin logged
    /\ txn[p].added => txn[p].pc \in {"find", "finish"}
    /\ txn[p].pc \in {"find", "finish"} => txn[p].added \/ txn[p].a \in suppressed
    /\ txn[p].pc = "deliver" => IsDelivery(txn[p].e)
    /\ txn[p].pc = "log" => ~IsBounce(txn[p].e)
    /\ txn[p].pc = "flush" => IsBounce(txn[p].e)

\* A task that found its row found it recorded.
Found(p) ==
    (txn[p].open \/ txn[p].pc \in {"deliver", "log", "flush"}) =>
        token[Row(txn[p].e)] # None

Txn == \A p \in Processes : Shape(p) /\ Course(p) /\ Found(p)

\* The lock on a row has one holder.
OneHolder ==
    \A v, w \in Workers :
        v # w /\ txn[v].open /\ txn[w].open => Row(txn[v].e) # Row(txn[w].e)

\* A row without a token is untouched by webhooks, and so is its message.
Untouched ==
    \A r \in Rows :
        /\ token[r] = None <=> status[r] = "pending"
        /\ inHand[r] # None => status[r] = "pending"

\* The log: what is in it was handled, and a bounce in it is suppressed.
LogHandled ==
    /\ logged \subseteq handled
    /\ \A e \in logged : IsBounce(e) => Address(e) \in suppressed

\* A contact that is gone when a transaction is about to write it was removed,
\* with its address put on the list in the same commit.
GoneIsSuppressed ==
    \A p \in Processes :
        txn[p].pc = "finish" /\ txn[p].row \notin {0, id[txn[p].a]}
            => txn[p].a \in suppressed

IInv ==
    /\ TypeOK
    /\ Txn
    /\ OneHolder
    /\ Untouched
    /\ LogHandled
    /\ BouncesSuppressed
    /\ NoneLost
    /\ GoneIsSuppressed
    /\ NoActiveSuppressed
    /\ CountersFollowStatus

-----------------------------------------------------------------------------
(* Events and transactions.                                                 *)

\* A webhook is about a row, an address and a message.
LEMMA EventType0 ==
    ASSUME NEW e \in Webhooks
    PROVE  /\ Row(e) \in Rows /\ Address(e) \in Addresses
           /\ MessageOf[e] \in Messages /\ MessageOf[e] # None /\ e # None
  BY ReconciliationAssumption DEF Row, Address

\* The policy of classify_bounce: a failure that is no deferral suppresses, so
\* a bounce without a row does.
LEMMA BounceSuppresses ==
    ASSUME NEW e, IsBounce(e)
    PROVE  (IsFailure(e) \/ IsComplaint(e)) /\ ClassifyBounce(e)
  BY DEF IsBounce, IsDeferral, IsFailure, IsComplaint, ClassifyBounce

\* A delivery is not a bounce.
LEMMA DeliveryIsNoBounce ==
    ASSUME NEW e, IsDelivery(e) PROVE ~IsBounce(e)
  BY DEF IsBounce, IsFailure, IsComplaint, IsDelivery

\* A worker in the middle of a task works on an event.
LEMMA AtWork ==
    ASSUME Txn, NEW w \in Workers, txn[w].pc \in Phases
    PROVE  /\ txn[w].e \in Webhooks /\ txn[w].a = Address(txn[w].e)
           /\ txn[w].e # None /\ txn[w].a \in Addresses
           /\ txn[w].mark # "active"
           /\ Row(txn[w].e) \in Rows
  <1>1. Shape(w)
    BY DEF Txn, Processes
  <1>2. Working(w)
    BY <1>1, ReconciliationAssumption DEF Shape, Idle, Served, Start, Phases
  <1>3. QED
    BY <1>2, EventType0 DEF Working

\* A process in the middle of a transaction has an address to suppress.
LEMMA InPhase ==
    ASSUME Txn, NEW p \in Processes, txn[p].pc \in Phases
    PROVE  Working(p)
  <1>1. Shape(p)
    BY DEF Txn
  <1>2. QED
    BY <1>1 DEF Shape, Idle, Served, Start, Phases

-----------------------------------------------------------------------------
(* Type correctness.                                                        *)

\* A transaction that ends is one still.
LEMMA EndType ==
    ASSUME txn \in [Processes -> Txns], NEW p \in Processes, End(p)
    PROVE  txn' \in [Processes -> Txns]
  BY DEF End, Idle, Served, Start, Txns, RowStatuses, ContactStatuses

\* A transaction that goes on to its next statement is one still.
LEMMA GotoType ==
    ASSUME txn \in [Processes -> Txns], NEW p \in Processes, NEW pc \in Phases,
           Goto(p, pc)
    PROVE  txn' \in [Processes -> Txns]
  BY DEF Goto, Txns

\* So is one that goes on with more than it knew before.
LEMMA TurnType ==
    ASSUME txn \in [Processes -> Txns], NEW p \in Processes, NEW pc \in Phases,
           NEW seen \in RowStatuses \cup {"none"},
           NEW open \in BOOLEAN, NEW added \in BOOLEAN,
           txn' = [txn EXCEPT ![p] = Turn(@, pc, seen, open, added)]
    PROVE  txn' \in [Processes -> Txns]
  BY DEF Turn, Txns

\* What an event makes of its contact.
LEMMA MarkType == \A e : ContactStatus(e) \in {"complained", "bounced"}
  BY DEF ContactStatus

\* The initial state is well typed.
LEMMA InitType == Init => TypeOK
  BY DEF Init, TypeOK, Txns, Idle, Start, Processes, RowStatuses, ContactStatuses

\* The steps of sending, of Postal and of joining contacts keep the types.
LEMMA OutsideType ==
    ASSUME TypeOK,
           \/ \E m \in Messages : Accept(m)
           \/ \E r \in Rows : Record(r) \/ Forget(r)
           \/ \E e \in Webhooks : Report(e) \/ Redeliver(e)
           \/ \E a \in Addresses : JoinLook(a) \/ Join(a)
    PROVE  TypeOK'
  <1> USE DEF TypeOK, rows, list, postal, history
  <1>1. ASSUME NEW m \in Messages, Accept(m) PROVE TypeOK'
    BY <1>1, ReconciliationAssumption DEF Accept
  <1>2. ASSUME NEW r \in Rows, Record(r) PROVE TypeOK'
    BY <1>2 DEF Record, RowStatuses
  <1>3. ASSUME NEW r \in Rows, Forget(r) PROVE TypeOK'
    BY <1>3 DEF Forget
  <1>4. ASSUME NEW e \in Webhooks, Report(e) PROVE TypeOK'
    BY <1>4 DEF Report
  <1>5. ASSUME NEW e \in Webhooks, Redeliver(e) PROVE TypeOK'
    BY <1>5 DEF Redeliver
  <1>6. ASSUME NEW a \in Addresses, JoinLook(a) PROVE TypeOK'
    BY <1>6 DEF JoinLook
  <1>7. ASSUME NEW a \in Addresses, Join(a) PROVE TypeOK'
    BY <1>7 DEF Join, ContactStatuses
  <1>8. QED
    BY <1>1, <1>2, <1>3, <1>4, <1>5, <1>6, <1>7

\* So do the steps of apply_event.
LEMMA ApplyType ==
    ASSUME TypeOK, Txn, NEW w \in Workers,
           \/ \E e \in Webhooks : Take(w, e)
           \/ Unmatched(w) \/ Match(w) \/ Deliver(w) \/ Log(w) \/ Flush(w)
    PROVE  TypeOK'
  <1> USE DEF TypeOK, rows, list, postal, history
  <1>0. w \in Processes
    BY DEF Processes
  <1>1. ASSUME NEW e \in Webhooks, Take(w, e) PROVE TypeOK'
    <2>1. txn' \in [Processes -> Txns]
      <3>1. Start("match", e, Address(e), ContactStatus(e)) \in Txns
        BY EventType0, MarkType DEF Start, Txns, Phases, ContactStatuses
      <3>2. QED
        BY <1>0, <1>1, <3>1 DEF Take
    <2>2. queue' \in [Webhooks -> Nat]
      BY <1>1 DEF Take
    <2>3. QED
      BY <1>1, <2>1, <2>2 DEF Take
  <1>2. CASE Unmatched(w)
    <2>1. txn' \in [Processes -> Txns]
      BY <1>0, <1>2, EndType, GotoType DEF Unmatched, Return, Phases
    <2>2. handled' \subseteq Webhooks
      BY <1>2, AtWork DEF Unmatched, Return, Phases
    <2>3. QED
      BY <1>2, <2>1, <2>2 DEF Unmatched
  <1>3. CASE Match(w)
    <2>1. PICK pc \in Phases :
             txn' = [txn EXCEPT ![w] =
                        Turn(@, pc, status[Row(txn[w].e)], FALSE, FALSE)]
      BY <1>3 DEF Match, Phases
    <2>2. status[Row(txn[w].e)] \in RowStatuses
      BY <1>3, AtWork DEF Match, Phases
    <2>3. txn' \in [Processes -> Txns]
      BY <1>0, <2>1, <2>2, TurnType
    <2>4. QED
      BY <1>3, <2>3 DEF Match
  <1>4. CASE Deliver(w)
    <2>1. CASE Conflict(w)
      BY <1>0, <2>1, EndType DEF Conflict
    <2>2. CASE ~Conflict(w)
      <3>1. txn' \in [Processes -> Txns]
        BY <1>0, <1>4, <2>2, EndType DEF Deliver, Return
      <3>2. txn[w].e \in Webhooks /\ Row(txn[w].e) \in Rows
        BY <1>4, AtWork DEF Deliver, Phases
      <3>3. QED
        BY <1>4, <2>2, <3>1, <3>2 DEF Deliver, Return, RowStatuses
    <2>3. QED
      BY <2>1, <2>2
  <1>5. CASE Log(w)
    <2>1. CASE Conflict(w)
      BY <1>0, <2>1, EndType DEF Conflict
    <2>2. CASE ~Conflict(w)
      <3>1. txn' \in [Processes -> Txns]
        BY <1>0, <1>5, <2>2, EndType DEF Log, Return
      <3>2. txn[w].e \in Webhooks
        BY <1>5, AtWork DEF Log, Phases
      <3>3. QED
        BY <1>5, <2>2, <3>1, <3>2 DEF Log, Return
    <2>3. QED
      BY <2>1, <2>2
  <1>6. CASE Flush(w)
    <2>1. CASE Conflict(w)
      BY <1>0, <2>1, EndType DEF Conflict
    <2>2. CASE ~Conflict(w)
      <3>1. txn' \in [Processes -> Txns]
        BY <1>0, <1>6, <2>2, TurnType DEF Flush, Txns, Phases
      <3>2. QED
        BY <1>6, <2>2, <3>1 DEF Flush
    <2>3. QED
      BY <2>1, <2>2
  <1>7. QED
    BY <1>1, <1>2, <1>3, <1>4, <1>5, <1>6

\* So do the steps that suppress an address, and the end of a transaction.
LEMMA SuppressType ==
    ASSUME TypeOK, Txn, NEW p \in Processes,
           LookUp(p) \/ Insert(p) \/ Find(p) \/ Finish(p) \/ Gone(p)
    PROVE  TypeOK'
  <1> USE DEF TypeOK, rows, list, postal, history
  <1>1. CASE LookUp(p)
    <2>1. txn' \in [Processes -> Txns]
      BY <1>1, GotoType DEF LookUp, Phases
    <2>2. QED
      BY <1>1, <2>1 DEF LookUp
  <1>2. CASE Insert(p)
    <2>1. txn' \in [Processes -> Txns]
      <3>1. txn[p].seen \in RowStatuses \cup {"none"} /\ txn[p].open \in BOOLEAN
        BY DEF Txns
      <3>2. PICK open \in BOOLEAN, added \in BOOLEAN :
               txn' = [txn EXCEPT ![p] = Turn(@, "find", @.seen, open, added)]
        BY <1>2, <3>1 DEF Insert
      <3>3. QED
        BY <3>1, <3>2, TurnType DEF Phases
    <2>2. QED
      BY <1>2, <2>1 DEF Insert
  <1>3. CASE Finish(p)
    <2>1. txn' \in [Processes -> Txns]
      BY <1>3, EndType DEF Finish
    <2>2. Working(p) /\ txn[p].mark \in ContactStatuses
      BY <1>3, InPhase DEF Finish, Phases, Txns
    <2>3. contact' \in [Addresses -> ContactStatuses]
      BY <1>3, <2>2 DEF Finish, Marked, ContactStatuses
    <2>9. id' \in [Addresses -> Nat \ {0}] /\ overtaken' \subseteq Addresses
      BY <1>3, <2>2 DEF Finish, Working
    <2>4. suppressed' \subseteq Addresses
      BY <1>3, <2>2 DEF Finish, Working
    <2>5. p \in Workers => txn[p].e \in Webhooks /\ Row(txn[p].e) \in Rows
      BY <2>2, EventType0 DEF Working
    <2>6. handled' \subseteq Webhooks
      BY <1>3, <2>5 DEF Finish
    <2>7. /\ status' \in [Rows -> RowStatuses] /\ bounced' \in [Rows -> Nat]
          /\ logged' \subseteq Webhooks
      <3>1. CASE txn[p].open
        <4>1. p \in Workers
          BY <3>1 DEF Txn, Course
        <4>2. CommitRow(p)
          BY <1>3, <3>1 DEF Finish
        <4>3. QED
          BY <2>5, <4>1, <4>2 DEF CommitRow, RowStatuses
      <3>2. CASE ~txn[p].open
        BY <1>3, <3>2 DEF Finish
      <3>3. QED
        BY <3>1, <3>2
    <2>8. QED
      BY <1>3, <2>1, <2>3, <2>4, <2>6, <2>7, <2>9 DEF Finish
  <1>4. CASE Find(p)
    <2>1. Working(p)
      BY <1>4, InPhase DEF Find, Phases
    <2>2. PICK row \in Nat :
             txn' = [txn EXCEPT ![p].pc = "finish", ![p].row = row]
      BY <1>4, <2>1 DEF Find, Working
    <2>3. [txn[p] EXCEPT !.pc = "finish", !.row = row] \in Txns
      BY <2>2 DEF Txns, Phases
    <2>5. txn' \in [Processes -> Txns]
      BY <2>2, <2>3
    <2>4. QED
      BY <1>4, <2>5 DEF Find
  <1>5. CASE Gone(p)
    <2>1. txn' \in [Processes -> Txns]
      BY <1>5, EndType DEF Gone
    <2>2. Working(p)
      BY <1>5, InPhase DEF Gone, Phases
    <2>3. dropped' \subseteq Webhooks
      BY <1>5, <2>2 DEF Gone, Working
    <2>4. QED
      BY <1>5, <2>1, <2>3 DEF Gone
  <1>6. QED
    BY <1>1, <1>2, <1>3, <1>4, <1>5

\* So do a request, and the deaths and failures.
LEMMA FaultType ==
    ASSUME TypeOK, Txn,
           \/ \E w \in Workers : WorkerDies(w) \/ TaskFails(w)
           \/ \E q \in Requests : RequestDies(q)
           \/ \E q \in Requests, a \in Addresses, mark \in {"unsubscribed", "none"} :
                 Ask(q, a, mark)
    PROVE  TypeOK'
  <1> USE DEF TypeOK, rows, list, postal, history, Processes
  <1>1. ASSUME NEW w \in Workers, txn[w] # Idle PROVE txn[w].e \in Webhooks
    BY <1>1, ReconciliationAssumption DEF Txn, Shape, Working
  <1>2. ASSUME NEW w \in Workers, WorkerDies(w) PROVE TypeOK'
    <2>1. txn' \in [Processes -> Txns]
      BY <1>2, EndType DEF WorkerDies
    <2>2. queue' \in [Webhooks -> Nat]
      BY <1>1, <1>2 DEF WorkerDies
    <2>3. QED
      BY <1>2, <2>1, <2>2 DEF WorkerDies
  <1>3. ASSUME NEW w \in Workers, TaskFails(w) PROVE TypeOK'
    <2>1. txn' \in [Processes -> Txns]
      BY <1>3, EndType DEF TaskFails
    <2>2. QED
      BY <1>1, <1>3, <2>1 DEF TaskFails
  <1>4. ASSUME NEW q \in Requests, RequestDies(q) PROVE TypeOK'
    <2>1. txn' \in [Processes -> Txns]
      BY <1>4, EndType DEF RequestDies
    <2>2. QED
      BY <1>4, <2>1 DEF RequestDies
  <1>5. ASSUME NEW q \in Requests, NEW a \in Addresses,
               NEW mark \in {"unsubscribed", "none"}, Ask(q, a, mark)
        PROVE  TypeOK'
    <2>1. Start("look", None, a, mark) \in Txns
      BY DEF Start, Txns, Phases, ContactStatuses
    <2>2. txn' \in [Processes -> Txns]
      BY <1>5, <2>1 DEF Ask
    <2>3. QED
      BY <1>5, <2>2 DEF Ask
  <1>6. QED
    BY <1>2, <1>3, <1>4, <1>5

\* Every step keeps every variable's type.
LEMMA TypeStep ==
    ASSUME TypeOK, Txn, [Next]_vars PROVE TypeOK'
  <1>1. CASE UNCHANGED vars
    BY <1>1 DEF TypeOK, vars, rows, list, postal, history
  <1>2. CASE Next
    BY <1>2, OutsideType, ApplyType, SuppressType, FaultType
       DEF Next, Continue, Answer, Processes
  <1>3. QED
    BY <1>1, <1>2

-----------------------------------------------------------------------------
(* What transactions know stays true.                                       *)

\* A process that is idle, or served, knows nothing.
LEMMA AtRest ==
    ASSUME NEW p \in Processes,
           txn[p] = Idle \/ (p \in Requests /\ txn[p] = Served)
    PROVE  /\ Shape(p) /\ Course(p) /\ Found(p)
           /\ ~txn[p].open /\ ~txn[p].added
  BY DEF Shape, Course, Found, Idle, Served, Start

\* Where a transaction has found the row, the event has one.
LEMMA FoundRow ==
    ASSUME Txn, NEW p \in Processes,
           txn[p].open \/ txn[p].pc \in {"deliver", "log", "flush"}
    PROVE  p \in Workers /\ Row(txn[p].e) \in Rows /\ txn[p].e \in Webhooks
  <1>1. Shape(p) /\ Course(p)
    BY DEF Txn
  <1>2. txn[p].pc \in Phases
    BY <1>1 DEF Course, Phases
  <1>3. p \in Workers
    BY <1>1, <1>2, InPhase DEF Working, Processes, Course
  <1>4. QED
    BY <1>2, <1>3, AtWork

\* A step that changes one process' transaction at most, takes no address off
\* the list, puts nothing into the log that another one holds, and takes no
\* row's token away leaves the others what they know.
LEMMA TxnKeeps ==
    ASSUME Txn, NEW p,
           \A q \in Processes \ {p} : txn'[q] = txn[q],
           suppressed \subseteq suppressed',
           \A q \in Workers \ {p} : txn[q].open => txn[q].e \notin logged',
           \A r \in Rows : token[r] # None => token'[r] # None,
           p \in Processes => (Shape(p) /\ Course(p) /\ Found(p))'
    PROVE  Txn'
  <1>1. ASSUME NEW q \in Processes, q # p
        PROVE  (Shape(q) /\ Course(q) /\ Found(q))'
    <2>1. txn'[q] = txn[q] /\ Shape(q) /\ Course(q) /\ Found(q)
      BY <1>1 DEF Txn
    <2>2. Shape(q)'
      BY <2>1 DEF Shape, Working, Address, Row
    <2>3. Course(q)'
      BY <1>1, <2>1 DEF Course, IsBounce, IsDelivery, IsFailure, IsComplaint, IsDeferral
    <2>4. Found(q)'
      BY <2>1, FoundRow DEF Found, Row
    <2>5. QED
      BY <2>2, <2>3, <2>4
  <1>2. QED
    BY <1>1 DEF Txn

\* So does a step of no transaction.
LEMMA OutsideTxn ==
    ASSUME TypeOK, Txn, OneHolder,
           \/ \E m \in Messages : Accept(m)
           \/ \E r \in Rows : Record(r) \/ Forget(r)
           \/ \E e \in Webhooks : Report(e) \/ Redeliver(e)
           \/ \E a \in Addresses : JoinLook(a) \/ Join(a)
           \/ UNCHANGED vars
    PROVE  Txn' /\ OneHolder'
  <1>1. /\ txn' = txn /\ suppressed' = suppressed /\ logged' = logged
    BY DEF Accept, Record, Forget, Report, Redeliver, JoinLook, Join,
           vars, rows, list, postal, history
  <1>2. \A r \in Rows : token[r] # None => token'[r] # None
    BY DEF Accept, Record, Forget, Report, Redeliver, JoinLook, Join,
           vars, rows, list, postal, history, TypeOK
  <1>3. \A q \in Workers : txn[q].open => txn[q].e \notin logged'
    BY <1>1 DEF Txn, Course, Processes
  <1>4. \A p \in Processes : (Shape(p) /\ Course(p) /\ Found(p))'
    <2> SUFFICES ASSUME NEW p \in Processes
                 PROVE  (Shape(p) /\ Course(p) /\ Found(p))'
      OBVIOUS
    <2>1. Shape(p) /\ Course(p) /\ Found(p)
      BY DEF Txn
    <2>2. Shape(p)' /\ Course(p)'
      BY <1>1, <2>1 DEF Shape, Working, Address, Row, Course, IsBounce, IsDelivery,
                        IsFailure, IsComplaint, IsDeferral
    <2>3. Found(p)'
      BY <1>1, <1>2, <2>1, FoundRow DEF Found, Row
    <2>4. QED
      BY <2>2, <2>3
  <1>5. QED
    BY <1>1, <1>4 DEF Txn, OneHolder, Row

\* A row's holder is the only one still when one process' step lets go of the
\* row, or changes nothing about it.
LEMMA HolderKeeps ==
    ASSUME OneHolder, NEW p, \A q \in Processes \ {p} : txn'[q] = txn[q],
           p \in Workers /\ txn'[p].open => txn[p].open /\ txn'[p].e = txn[p].e
    PROVE  OneHolder'
  BY DEF OneHolder, Processes, Row

\* A transaction that ends.
LEMMA EndTxn ==
    ASSUME TypeOK, Txn, OneHolder, NEW p \in Processes, End(p),
           suppressed \subseteq suppressed',
           \A q \in Workers \ {p} : txn[q].open => txn[q].e \notin logged',
           token' = token
    PROVE  Txn' /\ OneHolder' /\ \A q \in Processes \ {p} : txn'[q] = txn[q]
  <1>1. \A q \in Processes \ {p} : txn'[q] = txn[q]
    BY DEF End, TypeOK
  <1>2. txn'[p] = Idle \/ (p \in Requests /\ txn'[p] = Served)
    BY DEF End, TypeOK
  <1>3. (Shape(p) /\ Course(p) /\ Found(p))' /\ ~txn'[p].open
    BY <1>2 DEF Shape, Course, Found, Idle, Served, Start
  <1>4. Txn'
    BY <1>1, <1>3, TxnKeeps
  <1>5. OneHolder'
    BY <1>1, <1>3, HolderKeeps
  <1>6. QED
    BY <1>1, <1>4, <1>5

\* A row a worker may write is held by nobody, and so is the event.
LEMMA UnlockedEvent ==
    ASSUME NEW e, Unlocked(e)
    PROVE  \A q \in Workers : txn[q].open => txn[q].e # e
  BY DEF Unlocked

\* The steps of apply_event.
LEMMA ApplyTxn ==
    ASSUME TypeOK, Txn, OneHolder, NEW w \in Workers,
           \/ \E e \in Webhooks : Take(w, e)
           \/ Unmatched(w) \/ Match(w) \/ Deliver(w) \/ Log(w) \/ Flush(w)
    PROVE  Txn' /\ OneHolder'
  <1> USE DEF rows, list, postal, history
  <1>a. w \in Processes /\ txn \in [Processes -> Txns]
    BY DEF Processes, TypeOK
  <1>b. \A q \in Workers : txn[q].open => txn[q].e \notin logged
    BY DEF Txn, Course, Processes
  <1>c. Shape(w) /\ Course(w) /\ Found(w)
    BY <1>a DEF Txn
  <1>1. ASSUME NEW e \in Webhooks, Take(w, e) PROVE Txn' /\ OneHolder'
    <2>1. CASE txn' = txn
      <3>1. (Shape(w) /\ Course(w) /\ Found(w))'
        BY <1>1, <1>c, <2>1 DEF Take, Shape, Working, Address, Row, Course, Found,
              IsBounce, IsDelivery, IsFailure, IsComplaint, IsDeferral
      <3>2. QED
        BY <1>1, <1>b, <2>1, <3>1, TxnKeeps, HolderKeeps DEF Take
    <2>2. CASE txn' # txn
      <3>1. txn' = [txn EXCEPT ![w] = Start("match", e, Address(e), ContactStatus(e))]
        BY <1>1, <2>2 DEF Take
      <3>2. \A q \in Processes \ {w} : txn'[q] = txn[q]
        BY <1>a, <3>1
      <3>3. txn'[w] = Start("match", e, Address(e), ContactStatus(e))
        BY <1>a, <3>1
      <3>4. (Shape(w) /\ Course(w) /\ Found(w))' /\ ~txn'[w].open
        BY <3>3, EventType0, MarkType, ReconciliationAssumption
           DEF Start, Shape, Working, Phases, Course, Found, Address, Row
      <3>5. suppressed' = suppressed /\ logged' = logged /\ token' = token
        BY <1>1 DEF Take
      <3>6. QED
        BY <1>b, <3>2, <3>4, <3>5, TxnKeeps, HolderKeeps
    <2>3. QED
      BY <2>1, <2>2
  <1>2. CASE Unmatched(w)
    <2>1. suppressed' = suppressed /\ logged' = logged /\ token' = token
      BY <1>2 DEF Unmatched
    <2>2. CASE End(w)
      BY <1>a, <1>b, <2>1, <2>2, EndTxn
    <2>3. CASE Goto(w, "look")
      <3>1. \A q \in Processes \ {w} : txn'[q] = txn[q]
        BY <1>a, <2>3 DEF Goto
      <3>2. /\ txn'[w].pc = "look" /\ txn'[w].e = txn[w].e /\ txn'[w].a = txn[w].a
            /\ txn'[w].mark = txn[w].mark /\ txn'[w].open = txn[w].open
            /\ txn'[w].added = txn[w].added
        BY <1>a, <2>3 DEF Goto, Txns
      <3>3. txn[w].pc = "match" /\ ~txn[w].open /\ ~txn[w].added
        BY <1>2, <1>c DEF Unmatched, Course
      <3>4. (Shape(w) /\ Course(w) /\ Found(w))' /\ ~txn'[w].open
        BY <1>a, <3>2, <3>3, AtWork, ReconciliationAssumption
           DEF Shape, Working, Phases, Course, Found, Address, Row
      <3>5. QED
        BY <1>b, <2>1, <3>1, <3>4, TxnKeeps, HolderKeeps
    <2>4. QED
      BY <1>2, <2>2, <2>3 DEF Unmatched, Return
  <1>3. CASE Match(w)
    <2> DEFINE e == txn[w].e
    <2>1. suppressed' = suppressed /\ logged' = logged /\ token' = token
      BY <1>3 DEF Match
    <2>2. PICK pc \in {"deliver", "flush", "log"} :
             /\ txn' = [txn EXCEPT ![w] = Turn(@, pc, status[Row(e)], FALSE, FALSE)]
             /\ pc = "deliver" => IsDelivery(e)
             /\ pc = "flush" => IsBounce(e)
             /\ pc = "log" => ~IsBounce(e)
      <3>1. CASE IsDelivery(e) /\ status[Row(e)] # "delivered"
        BY <1>3, <3>1 DEF Match
      <3>2. CASE ~(IsDelivery(e) /\ status[Row(e)] # "delivered") /\ IsBounce(e)
        BY <1>3, <3>2 DEF Match
      <3>3. CASE ~(IsDelivery(e) /\ status[Row(e)] # "delivered") /\ ~IsBounce(e)
        BY <1>3, <3>3 DEF Match
      <3>4. QED
        BY <3>1, <3>2, <3>3
    <2>3. \A q \in Processes \ {w} : txn'[q] = txn[q]
      BY <1>a, <2>2
    <2>4. txn'[w] = Turn(txn[w], pc, status[Row(e)], FALSE, FALSE)
      BY <1>a, <2>2
    <2>5. /\ txn'[w].pc = pc /\ txn'[w].e = e /\ txn'[w].a = txn[w].a
          /\ txn'[w].mark = txn[w].mark /\ ~txn'[w].open /\ ~txn'[w].added
      BY <2>4 DEF Turn
    <2>6. txn[w].pc \in Phases
      BY <1>3 DEF Match, Phases
    <2>7. token[Row(e)] # None
      BY <1>3, <2>6, AtWork, EventType0 DEF Match
    <2>8. Shape(w)'
      BY <2>5, <2>6, AtWork, ReconciliationAssumption
         DEF Shape, Working, Phases, Address, Row
    <2>9. Course(w)'
      BY <2>2, <2>5 DEF Course, IsBounce, IsDelivery, IsFailure, IsComplaint, IsDeferral
    <2>10. Found(w)'
      BY <2>1, <2>5, <2>7 DEF Found, Row
    <2>11. QED
      BY <1>b, <2>1, <2>3, <2>5, <2>8, <2>9, <2>10, TxnKeeps, HolderKeeps
  <1>4. ASSUME Conflict(w) PROVE Txn' /\ OneHolder'
    BY <1>4, <1>a, <1>b, EndTxn DEF Conflict
  <1>5. CASE Deliver(w) \/ Log(w)
    <2>1. CASE ~Conflict(w)
      <3>1. End(w) /\ suppressed' = suppressed /\ token' = token
        BY <1>5, <2>1 DEF Deliver, Log, Return
      <3>2. Unlocked(txn[w].e) /\ logged' = logged \cup {txn[w].e}
        BY <1>5, <2>1 DEF Deliver, Log
      <3>3. QED
        BY <1>a, <1>b, <3>1, <3>2, UnlockedEvent, EndTxn
    <2>2. QED
      BY <1>4, <2>1
  <1>6. CASE Flush(w)
    <2>1. CASE ~Conflict(w)
      <3>1. /\ suppressed' = suppressed /\ logged' = logged /\ token' = token
            /\ txn' = [txn EXCEPT ![w] = Turn(@, "look", @.seen, TRUE, FALSE)]
            /\ txn[w].e \notin logged /\ Unlocked(txn[w].e)
            /\ txn[w].pc = "flush"
        BY <1>6, <2>1 DEF Flush
      <3>2. \A q \in Processes \ {w} : txn'[q] = txn[q]
        BY <1>a, <3>1
      <3>3. /\ txn'[w].pc = "look" /\ txn'[w].e = txn[w].e /\ txn'[w].a = txn[w].a
            /\ txn'[w].mark = txn[w].mark /\ txn'[w].open /\ ~txn'[w].added
        BY <1>a, <3>1 DEF Turn
      <3>4. Shape(w)'
        BY <3>1, <3>3, AtWork, ReconciliationAssumption
           DEF Shape, Working, Phases, Address, Row
      <3>5. Course(w)'
        <4>1. IsBounce(txn[w].e)
          BY <1>c, <3>1 DEF Course
        <4>2. IsBounce(txn[w].e)'
          BY <3>3, <4>1 DEF IsBounce, IsFailure, IsComplaint, IsDeferral
        <4>3. txn'[w].e \notin logged'
          <5>1. txn[w].e \notin logged /\ logged' = logged
            BY <3>1
          <5>2. QED
            BY <3>3, <5>1
        <4>4. QED
          BY <3>3, <4>2, <4>3 DEF Course
      <3>6. Found(w)'
        BY <1>c, <3>1, <3>3 DEF Found, Row
      <3>7. Txn'
        BY <1>b, <3>1, <3>2, <3>4, <3>5, <3>6, TxnKeeps
      <3>8. OneHolder'
        <4>1. \A q \in Workers : q # w => txn'[q] = txn[q]
          BY <3>2 DEF Processes
        <4>2. \A q \in Workers : txn[q].open => Row(txn[q].e) # Row(txn[w].e)
          BY <3>1 DEF Unlocked
        <4>3. \A q \in Workers : q # w /\ txn'[q].open
                 => Row(txn'[q].e) # Row(txn'[w].e)
          BY <3>3, <4>1, <4>2
        <4>4. \A u, v \in Workers : u # w /\ v # w /\ u # v
                 /\ txn'[u].open /\ txn'[v].open => Row(txn'[u].e) # Row(txn'[v].e)
          BY <4>1 DEF OneHolder
        <4>5. QED
          BY <4>3, <4>4 DEF OneHolder, Row
      <3>9. QED
        BY <3>7, <3>8
    <2>2. QED
      BY <1>4, <2>1
  <1>7. QED
    BY <1>1, <1>2, <1>3, <1>5, <1>6

\* The steps of a suppression.
LEMMA SuppressTxn ==
    ASSUME TypeOK, Txn, OneHolder, NEW p \in Processes,
           LookUp(p) \/ Insert(p) \/ Find(p) \/ Finish(p) \/ Gone(p)
    PROVE  Txn' /\ OneHolder'
  <1> USE DEF rows, list, postal, history
  <1>a. txn \in [Processes -> Txns]
    BY DEF TypeOK
  <1>b. \A q \in Workers : txn[q].open => txn[q].e \notin logged
    BY DEF Txn, Course, Processes
  <1>c. Shape(p) /\ Course(p) /\ Found(p)
    BY DEF Txn
  <1>d. Working(p)
    BY InPhase DEF LookUp, Insert, Find, Finish, Gone, Phases
  <1>1. CASE LookUp(p)
    <2>1. suppressed' = suppressed /\ logged' = logged /\ token' = token
      BY <1>1 DEF LookUp
    <2>2. PICK pc \in {"insert", "find"} :
             /\ Goto(p, pc)
             /\ pc = "find" => txn[p].a \in suppressed
      BY <1>1 DEF LookUp
    <2>3. \A q \in Processes \ {p} : txn'[q] = txn[q]
      BY <1>a, <2>2 DEF Goto
    <2>4. /\ txn'[p].pc = pc /\ txn'[p].e = txn[p].e /\ txn'[p].a = txn[p].a
          /\ txn'[p].mark = txn[p].mark /\ txn'[p].open = txn[p].open
          /\ txn'[p].added = txn[p].added
      BY <1>a, <2>2 DEF Goto, Txns
    <2>5. ~txn[p].added
      BY <1>1, <1>c DEF LookUp, Course
    <2>6. Shape(p)'
      BY <1>d, <2>4 DEF Shape, Working, Phases, Address, Row
    <2>7. Course(p)'
      BY <1>c, <2>1, <2>2, <2>4, <2>5
         DEF Course, IsBounce, IsDelivery, IsFailure, IsComplaint, IsDeferral
    <2>8. Found(p)'
      BY <1>c, <2>1, <2>2, <2>4 DEF Found, Row
    <2>9. QED
      BY <1>b, <2>1, <2>3, <2>4, <2>6, <2>7, <2>8, TxnKeeps, HolderKeeps
  <1>2. CASE Insert(p)
    <2>1. suppressed' = suppressed /\ logged' = logged /\ token' = token
      BY <1>2 DEF Insert
    <2> DEFINE lost == txn[p].a \in suppressed
               left == txn[p].open /\ ~lost
    <2>2. txn' = [txn EXCEPT ![p] = Turn(@, "find", @.seen, left, ~lost)]
      BY <1>2 DEF Insert
    <2>3. \A q \in Processes \ {p} : txn'[q] = txn[q]
      BY <1>a, <2>2
    <2>4. txn'[p] = Turn(txn[p], "find", txn[p].seen, left, ~lost)
      BY <1>a, <2>2
    <2>5. /\ txn'[p].pc = "find" /\ txn'[p].e = txn[p].e /\ txn'[p].a = txn[p].a
          /\ txn'[p].mark = txn[p].mark
          /\ txn'[p].open = left
          /\ txn'[p].added = ~lost
      BY <2>4 DEF Turn
    <2>6. Shape(p)'
      BY <1>d, <2>5 DEF Shape, Working, Phases, Address, Row
    <2>7. Course(p)'
      BY <1>c, <2>1, <2>5
         DEF Course, IsBounce, IsDelivery, IsFailure, IsComplaint, IsDeferral
    <2>8. Found(p)'
      BY <1>c, <2>1, <2>5 DEF Found, Row
    <2>9. QED
      BY <1>b, <2>1, <2>3, <2>5, <2>6, <2>7, <2>8, TxnKeeps, HolderKeeps
  <1>3. CASE Finish(p)
    <2>1. /\ End(p) /\ token' = token
          /\ suppressed \subseteq suppressed'
      BY <1>3 DEF Finish
    <2>2. ASSUME NEW q \in Workers \ {p}, txn[q].open PROVE txn[q].e \notin logged'
      <3>1. CASE txn[p].open
        <4>1. p \in Workers
          BY <1>c, <3>1 DEF Course
        <4>2. logged' = logged \cup {txn[p].e}
          BY <1>3, <3>1 DEF Finish, CommitRow
        <4>3. Row(txn[q].e) # Row(txn[p].e)
          BY <2>2, <3>1, <4>1 DEF OneHolder
        <4>4. QED
          BY <1>b, <2>2, <4>2, <4>3
      <3>2. CASE ~txn[p].open
        BY <1>3, <1>b, <2>2, <3>2 DEF Finish
      <3>3. QED
        BY <3>1, <3>2
    <2>3. QED
      BY <2>1, <2>2, EndTxn
  <1>4. CASE Find(p)
    <2>1. suppressed' = suppressed /\ logged' = logged /\ token' = token
      BY <1>4 DEF Find
    <2>2. PICK row : txn' = [txn EXCEPT ![p].pc = "finish", ![p].row = row]
      BY <1>4 DEF Find
    <2>3. \A q \in Processes \ {p} : txn'[q] = txn[q]
      BY <1>a, <2>2
    <2>4. /\ txn'[p].pc = "finish" /\ txn'[p].e = txn[p].e /\ txn'[p].a = txn[p].a
          /\ txn'[p].mark = txn[p].mark /\ txn'[p].open = txn[p].open
          /\ txn'[p].added = txn[p].added
      BY <1>a, <2>2 DEF Txns
    <2>5. txn[p].pc = "find"
      BY <1>4 DEF Find
    <2>6. Shape(p)'
      BY <1>d, <2>4 DEF Shape, Working, Phases, Address, Row
    <2>7. Course(p)'
      BY <1>c, <2>1, <2>4, <2>5
         DEF Course, IsBounce, IsDelivery, IsFailure, IsComplaint, IsDeferral
    <2>8. Found(p)'
      BY <1>c, <2>1, <2>4 DEF Found, Row
    <2>9. QED
      BY <1>b, <2>1, <2>3, <2>4, <2>6, <2>7, <2>8, TxnKeeps, HolderKeeps
  <1>5. CASE Gone(p)
    <2>1. /\ End(p) /\ token' = token /\ suppressed' = suppressed
          /\ logged' = logged
      BY <1>5 DEF Gone
    <2>2. QED
      BY <1>b, <2>1, EndTxn
  <1>6. QED
    BY <1>1, <1>2, <1>3, <1>4, <1>5

\* Requests, deaths and failures.
LEMMA FaultTxn ==
    ASSUME TypeOK, Txn, OneHolder,
           \/ \E w \in Workers : WorkerDies(w) \/ TaskFails(w)
           \/ \E q \in Requests : RequestDies(q)
           \/ \E q \in Requests, a \in Addresses, mark \in {"unsubscribed", "none"} :
                 Ask(q, a, mark)
    PROVE  Txn' /\ OneHolder'
  <1> USE DEF rows, list, postal, history, Processes
  <1>a. txn \in [Processes -> Txns]
    BY DEF TypeOK
  <1>b. \A q \in Workers : txn[q].open => txn[q].e \notin logged
    BY DEF Txn, Course
  <1>1. ASSUME NEW w \in Workers, WorkerDies(w) \/ TaskFails(w)
        PROVE  Txn' /\ OneHolder'
    <2>1. /\ End(w) /\ token' = token /\ suppressed' = suppressed
          /\ logged' = logged
      BY <1>1 DEF WorkerDies, TaskFails
    <2>2. QED
      BY <1>b, <2>1, EndTxn
  <1>2. ASSUME NEW q \in Requests, RequestDies(q) PROVE Txn' /\ OneHolder'
    <2>1. /\ End(q) /\ token' = token /\ suppressed' = suppressed
          /\ logged' = logged
      BY <1>2 DEF RequestDies
    <2>2. QED
      BY <1>b, <2>1, EndTxn
  <1>3. ASSUME NEW q \in Requests, NEW a \in Addresses,
               NEW mark \in {"unsubscribed", "none"}, Ask(q, a, mark)
        PROVE  Txn' /\ OneHolder'
    <2>1. suppressed' = suppressed /\ logged' = logged /\ token' = token
      BY <1>3 DEF Ask
    <2>2. \A o \in Processes \ {q} : txn'[o] = txn[o]
      BY <1>3, <1>a DEF Ask
    <2>3. txn'[q] = Start("look", None, a, mark)
      BY <1>3, <1>a DEF Ask
    <2>4. (Shape(q) /\ Course(q) /\ Found(q))' /\ ~txn'[q].open
      BY <2>3, ReconciliationAssumption
         DEF Start, Shape, Working, Phases, Course, Found
    <2>5. QED
      BY <1>b, <2>1, <2>2, <2>4, TxnKeeps, HolderKeeps
  <1>4. QED
    BY <1>1, <1>2, <1>3

\* Every step.
LEMMA TxnStep ==
    ASSUME TypeOK, Txn, OneHolder, [Next]_vars PROVE Txn' /\ OneHolder'
  BY OutsideTxn, ApplyTxn, SuppressTxn, FaultTxn DEF Next, Continue, Answer, Processes

-----------------------------------------------------------------------------
(* The rows and their counters.                                             *)

\* Only Accept, Record, Forget, Deliver and the end of a bounce write rows.
LEMMA RowsKept ==
    ASSUME [Next]_vars,
           ~ \E m \in Messages : Accept(m),
           ~ \E r \in Rows : Record(r) \/ Forget(r),
           ~ \E w \in Workers : Deliver(w) /\ ~Conflict(w),
           ~ \E p \in Processes : Finish(p) /\ txn[p].open
    PROVE  /\ status' = status /\ token' = token /\ inHand' = inHand
           /\ delivered' = delivered /\ bounced' = bounced
  <1> USE DEF rows, postal, Processes
  <1>1. ASSUME NEW w \in Workers, Conflict(w)
        PROVE  rows' = rows /\ postal' = postal
    BY <1>1 DEF Conflict
  <1>2. ASSUME NEW p \in Processes,
               LookUp(p) \/ Insert(p) \/ Find(p) \/ Finish(p) \/ Gone(p)
        PROVE  rows' = rows /\ postal' = postal
    BY <1>2 DEF LookUp, Insert, Find, Finish, Gone
  <1>3. ASSUME NEW w \in Workers,
               \/ \E e \in Webhooks : Take(w, e)
               \/ Continue(w) \/ WorkerDies(w) \/ TaskFails(w)
        PROVE  rows' = rows /\ postal' = postal
    BY <1>1, <1>2, <1>3
       DEF Take, Continue, Unmatched, Match, Deliver, Log, Flush, WorkerDies, TaskFails
  <1>4. ASSUME NEW q \in Requests,
               \/ \E a \in Addresses, mark \in {"unsubscribed", "none"} : Ask(q, a, mark)
               \/ Answer(q) \/ RequestDies(q)
        PROVE  rows' = rows /\ postal' = postal
    BY <1>2, <1>4 DEF Ask, Answer, RequestDies
  <1>5. ASSUME \/ \E e \in Webhooks : Report(e) \/ Redeliver(e)
               \/ \E a \in Addresses : JoinLook(a) \/ Join(a)
               \/ UNCHANGED vars
        PROVE  rows' = rows /\ inHand' = inHand
    BY <1>5 DEF Report, Redeliver, JoinLook, Join, vars
  <1>6. QED
    BY <1>3, <1>4, <1>5 DEF Next

\* Every step keeps the status of a row in agreement with its token and its
\* share of the counters.
LEMMA RowStep ==
    ASSUME TypeOK, Txn, Untouched, CountersFollowStatus, [Next]_vars
    PROVE  Untouched' /\ CountersFollowStatus'
  <1> USE DEF rows, postal, Untouched, CountersFollowStatus
  <1>1. ASSUME NEW m \in Messages, Accept(m)
        PROVE  Untouched' /\ CountersFollowStatus'
    BY <1>1, ReconciliationAssumption DEF Accept, TypeOK
  <1>2. ASSUME NEW r \in Rows, Record(r) \/ Forget(r)
        PROVE  Untouched' /\ CountersFollowStatus'
    <2>1. CASE Record(r)
      BY <2>1 DEF Record, TypeOK
    <2>2. CASE Forget(r)
      BY <2>2 DEF Forget, TypeOK
    <2>3. QED
      BY <1>2, <2>1, <2>2
  <1>3. ASSUME NEW w \in Workers, Deliver(w), ~Conflict(w)
        PROVE  Untouched' /\ CountersFollowStatus'
    <2> DEFINE r == Row(txn[w].e)
    <2>1. r \in Rows /\ token[r] # None
      BY <1>3, FoundRow DEF Deliver, Processes, Txn, Found
    <2>2. /\ status' = [status EXCEPT ![r] = "delivered"]
          /\ delivered' = [delivered EXCEPT ![r] = @ + 1]
          /\ bounced' = bounced /\ token' = token /\ inHand' = inHand
      BY <1>3 DEF Deliver
    <2>3. QED
      BY <2>1, <2>2 DEF TypeOK
  <1>4. ASSUME NEW p \in Processes, Finish(p), txn[p].open
        PROVE  Untouched' /\ CountersFollowStatus'
    <2> DEFINE r == Row(txn[p].e)
    <2>1. r \in Rows /\ token[r] # None
      BY <1>4, FoundRow DEF Txn, Found
    <2>2. /\ \/ status' = status /\ bounced' = bounced
             \/ /\ status' = [status EXCEPT ![r] = "bounced"]
                /\ bounced' = [bounced EXCEPT ![r] = @ + 1]
          /\ delivered' = delivered /\ token' = token /\ inHand' = inHand
      BY <1>4 DEF Finish, CommitRow, TypeOK
    <2>3. QED
      BY <2>1, <2>2 DEF TypeOK
  <1>5. QED
    BY <1>1, <1>2, <1>3, <1>4, RowsKept

-----------------------------------------------------------------------------
(* The suppression list.                                                    *)

\* The log and the handled webhooks agree, and their bounces are suppressed.
Listed == LogHandled /\ BouncesSuppressed

\* One more event that is no bounce.
LEMMA ListedNoBounce ==
    ASSUME Listed, NEW e, ~IsBounce(e), suppressed' = suppressed,
           handled' = handled \cup {e},
           logged' \in {logged, logged \cup {e}},
           \A r \in Rows : status'[r] = "bounced" => status[r] = "bounced"
    PROVE  Listed'
  BY DEF Listed, LogHandled, BouncesSuppressed, Address, Row,
         IsBounce, IsFailure, IsComplaint, IsDeferral

\* Nothing new.
LEMMA ListedKept ==
    ASSUME Listed, suppressed' = suppressed, handled' = handled, logged' = logged,
           \A r \in Rows : status'[r] = "bounced" => status[r] = "bounced"
    PROVE  Listed'
  BY DEF Listed, LogHandled, BouncesSuppressed, Address, Row,
         IsBounce, IsFailure, IsComplaint, IsDeferral

\* The end of a transaction puts the address of its event on the list.
LEMMA ListedFinish ==
    ASSUME TypeOK, Txn, Listed, NEW p \in Processes, Finish(p)
    PROVE  Listed'
  <1> DEFINE e == txn[p].e
             a == txn[p].a
  <1>1. Working(p) /\ Course(p)
    BY InPhase DEF Finish, Phases, Txn
  <1>2. /\ suppressed \subseteq suppressed'
        /\ a \in suppressed'
    BY <1>1 DEF Finish, Course
  <1>3. /\ handled \subseteq handled'
        /\ handled' \subseteq handled \cup (IF p \in Workers THEN {e} ELSE {})
        /\ p \in Workers => e \in handled'
    BY DEF Finish
  <1>4. p \in Workers => a = Address(e)
    BY <1>1 DEF Working
  <1>5. /\ logged \subseteq logged'
        /\ logged' # logged => p \in Workers /\ logged' = logged \cup {e}
    BY <1>1 DEF Finish, CommitRow, Course
  <1>6. ASSUME NEW r \in Rows, status'[r] = "bounced"
        PROVE  AddressOf[r] \in suppressed'
    <2>1. CASE status[r] = "bounced"
      BY <1>2, <2>1 DEF Listed, BouncesSuppressed
    <2>2. CASE status[r] # "bounced"
      <3>1. txn[p].open
        BY <1>6, <2>2 DEF Finish
      <3>2. r = Row(e) /\ p \in Workers
        BY <1>1, <1>6, <2>2, <3>1 DEF Finish, CommitRow, Course, TypeOK
      <3>3. QED
        BY <1>2, <1>4, <3>2 DEF Address
    <2>3. QED
      BY <2>1, <2>2
  <1>7. ASSUME NEW f \in handled', IsBounce(f) PROVE Address(f) \in suppressed'
    <2>1. CASE f \in handled
      BY <1>2, <1>7, <2>1 DEF Listed, BouncesSuppressed
    <2>2. CASE f \notin handled
      BY <1>2, <1>3, <1>4, <1>7, <2>2
    <2>3. QED
      BY <2>1, <2>2
  <1>8. logged' \subseteq handled'
    BY <1>3, <1>5 DEF Listed, LogHandled
  <1>9. QED
    BY <1>6, <1>7, <1>8 DEF Listed, LogHandled, BouncesSuppressed, Address, Row,
       IsBounce, IsFailure, IsComplaint, IsDeferral

\* Every step keeps the bounces suppressed.
LEMMA ListedStep ==
    ASSUME TypeOK, Txn, Listed, [Next]_vars PROVE Listed'
  <1> USE DEF rows, list, postal, history, Processes
  <1>1. ASSUME NEW w \in Workers, NEW e \in Webhooks, Take(w, e) PROVE Listed'
    <2>1. /\ suppressed' = suppressed /\ logged' = logged /\ status' = status
          /\ \/ handled' = handled
             \/ e \in logged /\ handled' = handled \cup {e}
      BY <1>1 DEF Take
    <2>2. CASE handled' = handled
      BY <2>1, <2>2, ListedKept
    <2>3. CASE e \in logged /\ handled' = handled \cup {e}
      <3>1. handled' = handled
        BY <2>3 DEF Listed, LogHandled
      <3>2. QED
        BY <2>2, <3>1
    <2>4. QED
      BY <2>1, <2>2, <2>3
  <1>2. ASSUME NEW w \in Workers, Unmatched(w) PROVE Listed'
    <2>1. suppressed' = suppressed /\ logged' = logged /\ status' = status
      BY <1>2 DEF Unmatched
    <2>2. CASE handled' = handled
      BY <2>1, <2>2, ListedKept
    <2>3. CASE handled' # handled
      <3>1. /\ ~((IsFailure(txn[w].e) \/ IsComplaint(txn[w].e)) /\ ClassifyBounce(txn[w].e))
            /\ handled' = handled \cup {txn[w].e}
        BY <1>2, <2>3 DEF Unmatched, Return
      <3>2. ~IsBounce(txn[w].e)
        BY <3>1, BounceSuppresses
      <3>3. QED
        BY <2>1, <3>1, <3>2, ListedNoBounce
    <2>4. QED
      BY <2>2, <2>3
  <1>3. ASSUME NEW w \in Workers, Conflict(w) PROVE Listed'
    BY <1>3, ListedKept DEF Conflict
  <1>4. ASSUME NEW w \in Workers, Deliver(w) \/ Log(w) PROVE Listed'
    <2>1. CASE ~Conflict(w)
      <3>1. ~IsBounce(txn[w].e)
        BY <1>4, DeliveryIsNoBounce DEF Deliver, Log, Txn, Course
      <3>2. /\ suppressed' = suppressed
            /\ handled' = handled \cup {txn[w].e}
            /\ logged' = logged \cup {txn[w].e}
        BY <1>4, <2>1 DEF Deliver, Log, Return
      <3>3. \A r \in Rows : status'[r] = "bounced" => status[r] = "bounced"
        BY <1>4, <2>1 DEF Deliver, Log, TypeOK
      <3>4. QED
        BY <3>1, <3>2, <3>3, ListedNoBounce
    <2>2. QED
      BY <1>3, <2>1
  <1>5. ASSUME NEW w \in Workers, Match(w) \/ Flush(w) PROVE Listed'
    <2>1. CASE ~Conflict(w)
      BY <1>5, <2>1, ListedKept DEF Match, Flush
    <2>2. QED
      BY <1>3, <2>1
  <1>6. ASSUME NEW p \in Processes,
               LookUp(p) \/ Insert(p) \/ Find(p) \/ Finish(p) \/ Gone(p)
        PROVE  Listed'
    <2>1. CASE LookUp(p) \/ Insert(p) \/ Find(p) \/ Gone(p)
      BY <2>1, ListedKept DEF LookUp, Insert, Find, Gone
    <2>2. QED
      BY <1>6, <2>1, ListedFinish
  <1>7. ASSUME NEW w \in Workers, WorkerDies(w) \/ TaskFails(w) PROVE Listed'
    BY <1>7, ListedKept DEF WorkerDies, TaskFails
  <1>8. ASSUME \/ \E q \in Requests : RequestDies(q)
               \/ \E q \in Requests, a \in Addresses,
                     mark \in {"unsubscribed", "none"} : Ask(q, a, mark)
               \/ \E m \in Messages : Accept(m)
               \/ \E r \in Rows : Forget(r)
               \/ \E e \in Webhooks : Report(e) \/ Redeliver(e)
               \/ \E a \in Addresses : JoinLook(a) \/ Join(a)
               \/ UNCHANGED vars
        PROVE  Listed'
    BY <1>8, ListedKept
       DEF RequestDies, Ask, Accept, Forget, Report, Redeliver, JoinLook, Join, vars
  <1>9. ASSUME NEW r \in Rows, Record(r) PROVE Listed'
    <2>1. \A s \in Rows : status'[s] = "bounced" => status[s] = "bounced"
      BY <1>9 DEF Record, TypeOK
    <2>2. QED
      BY <1>9, <2>1, ListedKept DEF Record
  <1>10. QED
    BY <1>1, <1>2, <1>4, <1>5, <1>6, <1>7, <1>8, <1>9 DEF Next, Continue, Answer

-----------------------------------------------------------------------------
(* Contacts.                                                                *)

\* A step that leaves a transaction where it was with its contact, or brings
\* one that has found its contact just now, or no transaction there at all.
LEMMA GoneKept ==
    ASSUME GoneIsSuppressed, suppressed \subseteq suppressed', id' = id,
           \A p \in Processes : \/ txn'[p] = txn[p]
                                \/ txn'[p].pc # "finish"
                                \/ txn'[p].row \in {0, id[txn'[p].a]}
    PROVE  GoneIsSuppressed'
  BY DEF GoneIsSuppressed

\* A transaction that moves to a statement before the last one.
LEMMA GoneTurn ==
    ASSUME TypeOK, GoneIsSuppressed, suppressed \subseteq suppressed', id' = id,
           NEW p, NEW t, t.pc # "finish", txn' = [txn EXCEPT ![p] = t]
    PROVE  GoneIsSuppressed'
  <1>1. \A q \in Processes : txn'[q] = txn[q] \/ txn'[q].pc # "finish"
    BY DEF TypeOK
  <1>2. QED
    BY <1>1, GoneKept

\* So does one that ends.
LEMMA GoneEnd ==
    ASSUME TypeOK, GoneIsSuppressed, suppressed \subseteq suppressed', id' = id,
           NEW p \in Processes, End(p)
    PROVE  GoneIsSuppressed'
  <1>1. Idle.pc # "finish" /\ Served.pc # "finish"
    BY DEF Idle, Served, Start
  <1>2. PICK t : t \in {Idle, Served} /\ txn' = [txn EXCEPT ![p] = t]
    BY DEF End
  <1>3. QED
    BY <1>1, <1>2, GoneTurn

\* Every step keeps it: what deletes a contact suppresses its address.
LEMMA GoneStep ==
    ASSUME TypeOK, Txn, GoneIsSuppressed, [Next]_vars
    PROVE  GoneIsSuppressed'
  <1> USE DEF rows, list, postal, history
  <1>a. txn \in [Processes -> Txns] /\ Workers \subseteq Processes
        /\ Requests \subseteq Processes
    BY DEF TypeOK, Processes
  <1>1. ASSUME NEW w \in Workers, NEW e \in Webhooks, Take(w, e)
        PROVE  GoneIsSuppressed'
    <2>1. CASE txn' = txn
      BY <1>1, <2>1, GoneKept DEF Take
    <2>2. CASE txn' # txn
      <3>1. txn' = [txn EXCEPT ![w] = Start("match", e, Address(e), ContactStatus(e))]
        BY <1>1, <2>2 DEF Take
      <3>2. QED
        BY <1>1, <3>1, GoneTurn DEF Take, Start
    <2>3. QED
      BY <2>1, <2>2
  <1>2. ASSUME NEW p \in Processes, NEW pc, pc # "finish", Goto(p, pc),
               suppressed' = suppressed, id' = id
        PROVE  GoneIsSuppressed'
    <2>1. \A q \in Processes : txn'[q] = txn[q] \/ txn'[q].pc # "finish"
      BY <1>2, <1>a DEF Goto, Txns
    <2>2. QED
      BY <1>2, <2>1, GoneKept
  <1>3. ASSUME NEW w \in Workers, Unmatched(w) PROVE GoneIsSuppressed'
    BY <1>2, <1>3, <1>a, GoneEnd DEF Unmatched, Return
  <1>4. ASSUME NEW w \in Workers, Match(w) PROVE GoneIsSuppressed'
    <2>1. PICK t : t.pc # "finish" /\ txn' = [txn EXCEPT ![w] = t]
      <3>1. PICK pc \in {"deliver", "flush", "log"} :
               txn' = [txn EXCEPT ![w] =
                          Turn(txn[w], pc, status[Row(txn[w].e)], FALSE, FALSE)]
        BY <1>4, <1>a DEF Match
      <3>2. Turn(txn[w], pc, status[Row(txn[w].e)], FALSE, FALSE).pc = pc
        BY DEF Turn
      <3>3. QED
        BY <3>1, <3>2
    <2>2. QED
      BY <1>4, <2>1, GoneTurn DEF Match
  <1>5. ASSUME NEW w \in Workers, Deliver(w) \/ Log(w) PROVE GoneIsSuppressed'
    BY <1>5, <1>a, GoneEnd DEF Deliver, Log, Conflict, Return
  <1>6. ASSUME NEW w \in Workers, Flush(w) PROVE GoneIsSuppressed'
    <2>1. CASE Conflict(w)
      BY <1>a, <2>1, GoneEnd DEF Conflict
    <2>2. CASE ~Conflict(w)
      <3>1. txn' = [txn EXCEPT ![w] = Turn(txn[w], "look", txn[w].seen, TRUE, FALSE)]
        BY <1>6, <2>2, <1>a DEF Flush
      <3>2. QED
        BY <1>6, <2>2, <3>1, GoneTurn DEF Flush, Turn
    <2>3. QED
      BY <2>1, <2>2
  <1>7. ASSUME NEW p \in Processes, LookUp(p) PROVE GoneIsSuppressed'
    BY <1>2, <1>7 DEF LookUp
  <1>8. ASSUME NEW p \in Processes, Insert(p) PROVE GoneIsSuppressed'
    <2>1. PICK left, lost :
             txn' = [txn EXCEPT ![p] = Turn(txn[p], "find", txn[p].seen, left, lost)]
      BY <1>8, <1>a DEF Insert
    <2>2. Turn(txn[p], "find", txn[p].seen, left, lost).pc # "finish"
      BY DEF Turn
    <2>3. QED
      BY <1>8, <2>1, <2>2, GoneTurn DEF Insert
  <1>9. ASSUME NEW p \in Processes, Find(p) PROVE GoneIsSuppressed'
    <2>1. txn'[p].row \in {0, id[txn'[p].a]}
      BY <1>9, <1>a DEF Find, Txns
    <2>2. \A q \in Processes \ {p} : txn'[q] = txn[q]
      BY <1>9, <1>a DEF Find
    <2>3. QED
      BY <1>9, <2>1, <2>2, GoneKept DEF Find
  <1>10. ASSUME NEW p \in Processes, Finish(p) PROVE GoneIsSuppressed'
    <2>1. Working(p) /\ txn[p].a \in suppressed' /\ suppressed \subseteq suppressed'
      BY <1>10, InPhase DEF Finish, Phases, Txn, Course
    <2>2. \A a \in Addresses : id'[a] # id[a] => a = txn[p].a
      BY <1>10 DEF Finish, TypeOK
    <2>3. \A q \in Processes : txn'[q] = txn[q] \/ txn'[q].pc # "finish"
      BY <1>10, <1>a DEF Finish, End, Idle, Served, Start
    <2>4. ASSUME NEW q \in Processes, txn'[q].pc = "finish",
                 txn'[q].row \notin {0, id'[txn'[q].a]}
          PROVE  txn'[q].a \in suppressed'
      <3>1. txn'[q] = txn[q] /\ txn[q].a \in Addresses
        BY <2>3, <2>4, InPhase DEF Phases, Working
      <3>2. CASE id'[txn[q].a] = id[txn[q].a]
        BY <2>1, <2>4, <3>1, <3>2 DEF GoneIsSuppressed
      <3>3. CASE id'[txn[q].a] # id[txn[q].a]
        BY <2>1, <2>2, <3>1, <3>3
      <3>4. QED
        BY <3>2, <3>3
    <2>5. QED
      BY <2>4 DEF GoneIsSuppressed
  <1>11. ASSUME NEW p \in Processes,
                \/ Gone(p)
                \/ p \in Workers /\ (WorkerDies(p) \/ TaskFails(p))
                \/ p \in Requests /\ RequestDies(p)
         PROVE  GoneIsSuppressed'
    BY <1>11, GoneEnd DEF Gone, WorkerDies, TaskFails, RequestDies
  <1>12. ASSUME NEW q \in Requests, NEW a \in Addresses,
                NEW mark \in {"unsubscribed", "none"}, Ask(q, a, mark)
         PROVE  GoneIsSuppressed'
    BY <1>12, GoneTurn DEF Ask, Start
  <1>13. ASSUME \/ \E m \in Messages : Accept(m)
                \/ \E r \in Rows : Record(r) \/ Forget(r)
                \/ \E e \in Webhooks : Report(e) \/ Redeliver(e)
                \/ \E a \in Addresses : JoinLook(a) \/ Join(a)
                \/ UNCHANGED vars
         PROVE  GoneIsSuppressed'
    BY <1>13, GoneKept DEF Accept, Record, Forget, Report, Redeliver, JoinLook,
       Join, vars
  <1>14. QED
    BY <1>1, <1>3, <1>4, <1>5, <1>6, <1>7, <1>8, <1>9, <1>10, <1>11, <1>12, <1>13,
       <1>a DEF Next, Continue, Answer

\* Every step keeps the contacts of suppressed addresses out of the active
\* ones, the overtaken apart.
LEMMA ContactStep ==
    ASSUME TypeOK, Txn, GoneIsSuppressed, NoActiveSuppressed, [Next]_vars
    PROVE  NoActiveSuppressed'
  <1> USE DEF rows, list, postal, history, Processes
  <1>1. ASSUME NEW p \in Processes, Finish(p) PROVE NoActiveSuppressed'
    <2> DEFINE a == txn[p].a
               found == txn[p].row = id[a]
    <2>1. Working(p) /\ txn[p].row \in Nat
      BY <1>1, InPhase DEF Finish, Phases, TypeOK, Txns
    <2>2. /\ suppressed' \subseteq suppressed \cup {a}
          /\ contact' = IF found THEN [contact EXCEPT ![a] = txn[p].mark] ELSE contact
          /\ overtaken' = IF txn[p].row = 0 /\ contact[a] = "active"
                          THEN overtaken \cup {a} ELSE overtaken
      BY <1>1 DEF Finish, Marked
    <2>3. ASSUME contact'[a] = "active" PROVE a \in overtaken'
      <3>1. ~found
        BY <2>1, <2>2, <2>3 DEF Working, TypeOK
      <3>2. contact[a] = "active"
        BY <2>2, <2>3, <3>1
      <3>3. CASE txn[p].row = 0
        BY <2>2, <3>2, <3>3
      <3>4. CASE txn[p].row # 0
        <4>1. a \in suppressed
          BY <1>1, <3>1, <3>4 DEF GoneIsSuppressed, Finish
        <4>2. a \in overtaken
          BY <3>2, <4>1 DEF NoActiveSuppressed
        <4>3. QED
          BY <2>2, <4>2
      <3>5. QED
        BY <3>3, <3>4
    <2>4. ASSUME NEW b \in suppressed', contact'[b] = "active" PROVE b \in overtaken'
      <3>1. CASE b = a
        BY <2>3, <2>4, <3>1
      <3>2. CASE b # a
        <4>1. b \in suppressed /\ contact[b] = "active"
          BY <2>2, <2>4, <3>2 DEF TypeOK
        <4>2. QED
          BY <2>2, <4>1 DEF NoActiveSuppressed
      <3>3. QED
        BY <3>1, <3>2
    <2>5. QED
      BY <2>4 DEF NoActiveSuppressed
  <1>2. ASSUME NEW a \in Addresses, Join(a) PROVE NoActiveSuppressed'
    BY <1>2 DEF Join, NoActiveSuppressed, TypeOK
  <1>3. ASSUME \/ \E w \in Workers :
                     \/ \E e \in Webhooks : Take(w, e)
                     \/ Unmatched(w) \/ Match(w) \/ Deliver(w) \/ Log(w) \/ Flush(w)
                     \/ WorkerDies(w) \/ TaskFails(w)
               \/ \E p \in Processes : LookUp(p) \/ Insert(p) \/ Find(p) \/ Gone(p)
               \/ \E q \in Requests : RequestDies(q)
               \/ \E q \in Requests, a \in Addresses,
                     mark \in {"unsubscribed", "none"} : Ask(q, a, mark)
               \/ \E m \in Messages : Accept(m)
               \/ \E r \in Rows : Record(r) \/ Forget(r)
               \/ \E e \in Webhooks : Report(e) \/ Redeliver(e)
               \/ \E a \in Addresses : JoinLook(a)
               \/ UNCHANGED vars
        PROVE  NoActiveSuppressed'
    <2>1. suppressed' = suppressed /\ contact' = contact /\ overtaken' = overtaken
      BY <1>3 DEF Take, Unmatched, Match, Deliver, Log, Flush, Conflict, WorkerDies,
            TaskFails, LookUp, Insert, Find, Gone, RequestDies, Ask, Accept, Record,
            Forget, Report, Redeliver, JoinLook, vars
    <2>2. QED
      BY <2>1 DEF NoActiveSuppressed
  <1>4. QED
    BY <1>1, <1>2, <1>3 DEF Next, Continue, Answer

-----------------------------------------------------------------------------
(* Webhooks.                                                                *)

\* Where a webhook is.
Somewhere(e) ==
    \/ queue[e] > 0
    \/ \E w \in Workers : txn[w].e = e
    \/ e \in handled \cup dropped

\* A step of one worker that takes nothing out of the queue, and leaves the
\* worker its webhook or has it handled, dropped or queued, loses none.
LEMMA NoneLostKept ==
    ASSUME TypeOK, NoneLost, NEW p,
           \A q \in Processes \ {p} : txn'[q] = txn[q],
           reported' = reported,
           \A e \in Webhooks : queue[e] > 0 => queue'[e] > 0,
           handled \cup dropped \subseteq handled' \cup dropped',
           p \in Workers /\ txn[p].e \in Webhooks =>
              \/ txn'[p].e = txn[p].e
              \/ txn[p].e \in handled' \cup dropped'
              \/ queue'[txn[p].e] > 0
    PROVE  NoneLost'
  <1>1. ASSUME NEW e \in reported PROVE Somewhere(e)'
    <2>1. e \in Webhooks /\ Somewhere(e)
      BY <1>1 DEF NoneLost, Somewhere, TypeOK
    <2>2. CASE queue[e] > 0 \/ e \in handled \cup dropped
      BY <2>1, <2>2 DEF Somewhere
    <2>3. ASSUME NEW w \in Workers, txn[w].e = e PROVE Somewhere(e)'
      <3>1. CASE w = p
        BY <2>1, <2>3, <3>1 DEF Somewhere
      <3>2. CASE w # p
        BY <2>3, <3>2 DEF Somewhere, Processes
      <3>3. QED
        BY <3>1, <3>2
    <2>4. QED
      BY <2>1, <2>2, <2>3 DEF Somewhere
  <1>2. QED
    BY <1>1 DEF NoneLost, Somewhere

\* A step that moves no transaction.
LEMMA NoneLostOutside ==
    ASSUME TypeOK, NoneLost, txn' = txn,
           \A e \in reported' \ reported : queue'[e] > 0,
           \A e \in reported : queue[e] > 0 => queue'[e] > 0,
           handled' = handled, dropped' = dropped
    PROVE  NoneLost'
  BY DEF NoneLost

\* Every step loses none.
LEMMA NoneLostStep ==
    ASSUME TypeOK, Txn, LogHandled, NoneLost, [Next]_vars
    PROVE  NoneLost'
  <1> USE DEF rows, list, postal, history
  <1>a. Workers \subseteq Processes /\ txn \in [Processes -> Txns]
    BY DEF Processes, TypeOK
  <1>1. ASSUME NEW w \in Workers, NEW e \in Webhooks, Take(w, e) PROVE NoneLost'
    <2>1. ASSUME NEW f \in reported PROVE Somewhere(f)'
      <3>1. Somewhere(f)
        BY <2>1 DEF NoneLost, Somewhere
      <3>2. CASE f = e
        <4>1. e \in handled' \/ txn'[w].e = e
          BY <1>1, <1>a DEF Take, Start
        <4>2. QED
          BY <3>2, <4>1 DEF Somewhere
      <3>3. CASE f # e /\ queue[f] > 0
        <4>1. queue'[f] = queue[f]
          BY <1>1, <2>1, <3>3 DEF Take, TypeOK
        <4>2. QED
          BY <3>3, <4>1 DEF Somewhere
      <3>4. CASE f \in handled \cup dropped
        BY <1>1, <3>4 DEF Somewhere, Take
      <3>5. ASSUME NEW v \in Workers, txn[v].e = f PROVE Somewhere(f)'
        <4>1. f # None
          BY <2>1, ReconciliationAssumption DEF TypeOK
        <4>2. v # w
          BY <1>1, <3>5, <4>1 DEF Take, Idle, Start
        <4>3. txn'[v] = txn[v]
          BY <1>1, <1>a, <4>2 DEF Take
        <4>4. QED
          BY <3>5, <4>3 DEF Somewhere
      <3>6. QED
        BY <3>1, <3>2, <3>3, <3>4, <3>5 DEF Somewhere
    <2>2. reported' = reported
      BY <1>1 DEF Take
    <2>3. QED
      BY <2>1, <2>2 DEF NoneLost, Somewhere
  <1>2. ASSUME NEW p \in Processes, End(p), reported' = reported, queue' = queue,
               handled \cup dropped \subseteq handled' \cup dropped',
               p \in Workers => txn[p].e \in handled' \cup dropped'
        PROVE  NoneLost'
    <2>1. \A q \in Processes \ {p} : txn'[q] = txn[q]
      BY <1>2, <1>a DEF End
    <2>2. QED
      BY <1>2, <2>1, NoneLostKept
  <1>3. ASSUME NEW p \in Processes, reported' = reported, queue' = queue,
               handled' = handled, dropped' = dropped,
               \A q \in Processes \ {p} : txn'[q] = txn[q],
               txn'[p].e = txn[p].e
        PROVE  NoneLost'
    BY <1>3, NoneLostKept
  <1>4. ASSUME NEW p \in Processes, NEW pc, Goto(p, pc) PROVE
               /\ \A q \in Processes \ {p} : txn'[q] = txn[q]
               /\ txn'[p].e = txn[p].e
    BY <1>4, <1>a DEF Goto, Txns
  <1>5. ASSUME NEW w \in Workers, Conflict(w) PROVE NoneLost'
    BY <1>2, <1>5, <1>a DEF Conflict, LogHandled
  <1>6. ASSUME NEW w \in Workers, Unmatched(w) PROVE NoneLost'
    <2>1. reported' = reported /\ queue' = queue /\ dropped' = dropped
      BY <1>6 DEF Unmatched
    <2>2. CASE Goto(w, "look") /\ handled' = handled
      BY <1>3, <1>4, <1>a, <2>1, <2>2
    <2>3. CASE Return(w)
      BY <1>2, <1>a, <2>1, <2>3 DEF Return
    <2>4. QED
      BY <1>6, <2>2, <2>3 DEF Unmatched
  <1>7. ASSUME NEW w \in Workers, Match(w) PROVE NoneLost'
    <2>1. PICK pc : txn' = [txn EXCEPT ![w] =
                              Turn(@, pc, status[Row(txn[w].e)], FALSE, FALSE)]
      BY <1>7 DEF Match
    <2>2. /\ \A q \in Processes \ {w} : txn'[q] = txn[q]
          /\ txn'[w].e = txn[w].e
      BY <1>a, <2>1 DEF Turn
    <2>3. QED
      BY <1>3, <1>7, <1>a, <2>2 DEF Match
  <1>8. ASSUME NEW w \in Workers, Deliver(w) \/ Log(w) PROVE NoneLost'
    <2>1. CASE ~Conflict(w)
      <3>1. /\ Return(w) /\ reported' = reported /\ queue' = queue
            /\ dropped' = dropped
        BY <1>8, <2>1 DEF Deliver, Log
      <3>2. QED
        BY <1>2, <1>a, <3>1 DEF Return
    <2>2. QED
      BY <1>5, <2>1
  <1>9. ASSUME NEW w \in Workers, Flush(w) PROVE NoneLost'
    <2>1. CASE ~Conflict(w)
      <3>1. /\ txn' = [txn EXCEPT ![w] = Turn(@, "look", @.seen, TRUE, FALSE)]
            /\ reported' = reported /\ queue' = queue
            /\ handled' = handled /\ dropped' = dropped
        BY <1>9, <2>1 DEF Flush
      <3>2. /\ \A q \in Processes \ {w} : txn'[q] = txn[q]
            /\ txn'[w].e = txn[w].e
        BY <1>a, <3>1 DEF Turn
      <3>3. reported' = reported /\ queue' = queue
            /\ handled' = handled /\ dropped' = dropped
        BY <1>9, <2>1 DEF Flush
      <3>4. QED
        BY <1>3, <1>a, <3>2, <3>3
    <2>2. QED
      BY <1>5, <2>1
  <1>10. ASSUME NEW p \in Processes, LookUp(p) PROVE NoneLost'
    BY <1>3, <1>4, <1>10 DEF LookUp
  <1>11. ASSUME NEW p \in Processes, Insert(p) PROVE NoneLost'
    <2>1. PICK left, lost : txn' = [txn EXCEPT ![p] =
                                      Turn(@, "find", @.seen, left, lost)]
      BY <1>11 DEF Insert
    <2>2. /\ \A q \in Processes \ {p} : txn'[q] = txn[q]
          /\ txn'[p].e = txn[p].e
      BY <1>a, <2>1 DEF Turn
    <2>3. QED
      BY <1>3, <1>11, <2>2 DEF Insert
  <1>12. ASSUME NEW p \in Processes, Finish(p) PROVE NoneLost'
    BY <1>2, <1>12 DEF Finish
  <1>13. ASSUME NEW w \in Workers, WorkerDies(w) PROVE NoneLost'
    <2>1. \A q \in Processes \ {w} : txn'[q] = txn[q]
      BY <1>13, <1>a DEF WorkerDies, End
    <2>2. queue' = [queue EXCEPT ![txn[w].e] = @ + 1]
      BY <1>13 DEF WorkerDies
    <2>3. /\ \A e \in Webhooks : queue[e] > 0 => queue'[e] > 0
          /\ txn[w].e \in Webhooks => queue'[txn[w].e] > 0
      BY <2>2 DEF TypeOK
    <2>4. QED
      BY <1>13, <2>1, <2>3, NoneLostKept DEF WorkerDies
  <1>14. ASSUME NEW w \in Workers, TaskFails(w) PROVE NoneLost'
    BY <1>2, <1>14, <1>a DEF TaskFails
  <1>15. ASSUME NEW q \in Requests, RequestDies(q) \/ (\E a \in Addresses,
                     mark \in {"unsubscribed", "none"} : Ask(q, a, mark))
         PROVE  NoneLost'
    <2>1. q \in Processes /\ q \notin Workers
      BY ReconciliationAssumption DEF Processes
    <2>2. /\ \A o \in Processes \ {q} : txn'[o] = txn[o]
          /\ reported' = reported /\ queue' = queue
          /\ handled' = handled /\ dropped' = dropped
      BY <1>15, <1>a DEF RequestDies, End, Ask
    <2>3. QED
      BY <2>1, <2>2, NoneLostKept
  <1>16. ASSUME NEW e \in Webhooks, Report(e) \/ Redeliver(e) PROVE NoneLost'
    <2>1. /\ queue' = [queue EXCEPT ![e] = @ + 1]
          /\ reported' \in {reported, reported \cup {e}}
          /\ txn' = txn /\ handled' = handled /\ dropped' = dropped
      BY <1>16 DEF Report, Redeliver
    <2>2. QED
      BY <2>1, NoneLostOutside DEF TypeOK
  <1>17. ASSUME \/ \E m \in Messages : Accept(m)
                \/ \E r \in Rows : Record(r) \/ Forget(r)
                \/ \E a \in Addresses : JoinLook(a) \/ Join(a)
                \/ UNCHANGED vars
         PROVE  NoneLost'
    BY <1>17, NoneLostOutside DEF Accept, Record, Forget, JoinLook, Join, vars
  <1>18. ASSUME NEW p \in Processes, Find(p) PROVE NoneLost'
    <2>1. PICK row : txn' = [txn EXCEPT ![p].pc = "finish", ![p].row = row]
      BY <1>18 DEF Find
    <2>2. /\ \A q \in Processes \ {p} : txn'[q] = txn[q]
          /\ txn'[p].e = txn[p].e
      BY <1>a, <2>1 DEF Txns
    <2>3. QED
      BY <1>3, <1>18, <2>2 DEF Find
  <1>19. ASSUME NEW p \in Processes, Gone(p) PROVE NoneLost'
    BY <1>2, <1>19 DEF Gone
  <1>20. QED
    BY <1>1, <1>6, <1>7, <1>8, <1>9, <1>10, <1>11, <1>12, <1>13, <1>14, <1>15,
       <1>16, <1>17, <1>18, <1>19 DEF Next, Continue, Answer, Processes

-----------------------------------------------------------------------------
(* The theorems.                                                            *)

\* The initial state satisfies the invariant.
LEMMA InitInv == Init => IInv
  <1> SUFFICES ASSUME Init PROVE IInv
    OBVIOUS
  <1>1. TypeOK
    BY InitType
  <1>2. Txn /\ OneHolder
    BY DEF Init, Txn, OneHolder, Shape, Course, Found, Idle, Start, Processes
  <1>3. Untouched /\ CountersFollowStatus
    BY DEF Init, Untouched, CountersFollowStatus
  <1>4. LogHandled /\ BouncesSuppressed /\ NoneLost /\ NoActiveSuppressed
    BY DEF Init, LogHandled, BouncesSuppressed, NoneLost, NoActiveSuppressed
  <1>6. GoneIsSuppressed
    BY DEF Init, GoneIsSuppressed, Idle, Start
  <1>5. QED
    BY <1>1, <1>2, <1>3, <1>4, <1>6 DEF IInv

\* Every step keeps it.
LEMMA StepInv == IInv /\ [Next]_vars => IInv'
  <1> SUFFICES ASSUME IInv, [Next]_vars PROVE IInv'
    OBVIOUS
  <1> USE DEF IInv
  <1>1. TypeOK'
    BY TypeStep
  <1>2. Txn' /\ OneHolder'
    BY TxnStep
  <1>3. Untouched' /\ CountersFollowStatus'
    BY RowStep
  <1>4. LogHandled' /\ BouncesSuppressed'
    BY ListedStep DEF Listed
  <1>5. NoneLost'
    BY NoneLostStep
  <1>6. GoneIsSuppressed' /\ NoActiveSuppressed'
    BY GoneStep, ContactStep
  <1>7. QED
    BY <1>1, <1>2, <1>3, <1>4, <1>5, <1>6

\* The inductive invariant holds in every behaviour.
THEOREM InvHolds == Spec => []IInv
  BY InitInv, StepInv, PTL DEF Spec

\* Every variable keeps its type.
THEOREM ReconciliationTypes == Spec => []TypeOK
  BY InvHolds, PTL DEF IInv

\* No bounce is finished with, as a duplicate, unmatched, or rolled back after
\* a lost race, and no row is BOUNCED, before the address is suppressed.
THEOREM BouncesAreSuppressed == Spec => []BouncesSuppressed
  BY InvHolds, PTL DEF IInv

\* A webhook the endpoint took is queued, in hand or handled, unless the
\* database failed under its task, or the contact it was to write was removed.
THEOREM WebhooksAreKept == Spec => []NoneLost
  BY InvHolds, PTL DEF IInv

\* No suppressed address has an active contact, unless the contact joined
\* between a suppression's look for it and that suppression's commit, or the
\* suppression was committed between the join's look for it and the join's.
THEOREM SuppressedAreInactive == Spec => []NoActiveSuppressed
  BY InvHolds, PTL DEF IInv

\* A row's status and its share of the campaign's counters agree.
THEOREM CountersAgree == Spec => []CountersFollowStatus
  BY InvHolds, PTL DEF IInv

-----------------------------------------------------------------------------
(* Reconciliation implements EventLog.                                      *)

ledger == <<logged, delivered, bounced, suppressed>>

\* A task that ends with a delivery, or with an event that changes no row.
LEMMA ApplyImplements ==
    ASSUME IInv, NEW w \in Workers, Deliver(w) \/ Log(w)
    PROVE  Abstract!Next \/ UNCHANGED ledger
  <1> DEFINE e == txn[w].e
  <1>1. CASE Conflict(w)
    BY <1>1 DEF Conflict, ledger, rows, list
  <1>2. CASE ~Conflict(w)
    <2>1. e \in Webhooks /\ Row(e) \in Rows
      BY AtWork DEF IInv, Deliver, Log, Phases
    <2>2. ~IsBounce(e)
      BY DeliveryIsNoBounce DEF IInv, Txn, Course, Deliver, Log, Processes
    <2>3. e \notin logged /\ logged' = logged \cup {e} /\ suppressed' = suppressed
          /\ bounced' = bounced
      BY <1>2 DEF Deliver, Log, rows, list
    <2>4. \/ delivered' = delivered
          \/ IsDelivery(e) /\ delivered' = [delivered EXCEPT ![Row(e)] = @ + 1]
      BY <1>2 DEF Deliver, Log, rows, IInv, Txn, Course, Processes
    <2>5. Abstract!Apply(e)
      BY <2>1, <2>2, <2>3, <2>4 DEF Abstract!Apply, Abstract!Counted
    <2>6. QED
      BY <2>1, <2>5 DEF Abstract!Next
  <1>3. QED
    BY <1>1, <1>2

\* A transaction that ends: the event with its suppression, a suppression
\* alone, or nothing.
LEMMA FinishImplements ==
    ASSUME IInv, NEW p \in Processes, Finish(p)
    PROVE  Abstract!Next \/ UNCHANGED ledger
  <1> DEFINE e == txn[p].e
             a == txn[p].a
  <1>1. Working(p) /\ Course(p)
    BY InPhase DEF Finish, Phases, IInv, Txn
  <1>2. delivered' = delivered
    BY DEF Finish
  <1>3. CASE txn[p].open
    <2>1. p \in Workers /\ IsBounce(e) /\ e \notin logged
      BY <1>1, <1>3 DEF Course
    <2>2. e \in Webhooks /\ a = Address(e) /\ Row(e) \in Rows
      BY <1>1, <2>1, EventType0 DEF Working
    <2>3. logged' = logged \cup {e}
      BY <1>3 DEF Finish, CommitRow
    <2>4. bounced' = bounced \/ bounced' = [bounced EXCEPT ![Row(e)] = @ + 1]
      BY <1>3 DEF Finish, CommitRow, IInv, TypeOK
    <2>5. suppressed' = suppressed \cup {Address(e)}
      BY <1>1, <2>2 DEF Finish, Course
    <2>6. Abstract!Apply(e)
      BY <1>2, <2>1, <2>2, <2>3, <2>4, <2>5
         DEF Abstract!Apply, Abstract!Counted, Address
    <2>7. QED
      BY <2>2, <2>6 DEF Abstract!Next
  <1>4. CASE ~txn[p].open
    <2>1. logged' = logged /\ bounced' = bounced
      BY <1>4 DEF Finish
    <2>2. suppressed' = suppressed \/ suppressed' = suppressed \cup {a}
      BY DEF Finish
    <2>3. CASE suppressed' = suppressed
      BY <1>2, <2>1, <2>3 DEF ledger
    <2>4. CASE suppressed' = suppressed \cup {a}
      <3>1. Abstract!Suppress(a)
        BY <1>2, <2>1, <2>4 DEF Abstract!Suppress
      <3>2. QED
        BY <1>1, <3>1 DEF Abstract!Next, Working
    <2>5. QED
      BY <2>2, <2>3, <2>4
  <1>5. QED
    BY <1>3, <1>4

\* Every other step is none of EventLog's.
LEMMA OthersStutter ==
    ASSUME [Next]_vars,
           ~ \E w \in Workers : Deliver(w) \/ Log(w),
           ~ \E p \in Processes : Finish(p)
    PROVE  UNCHANGED ledger
  BY DEF Next, Continue, Answer, Processes, Take, Unmatched, Match, Flush, Conflict,
         WorkerDies, TaskFails, LookUp, Insert, Find, Gone, RequestDies, Ask,
         Accept, Record,
         Forget, Report, Redeliver, JoinLook, Join, vars, rows, list, ledger

\* Every step of Reconciliation is one of EventLog, or none: an event is applied
\* once, with its counter and its suppression, or not at all.
THEOREM Implements == Spec => AppliedOnce
  <1>1. Init => Abstract!Init
    BY DEF Init, Abstract!Init
  <1>2. IInv /\ [Next]_vars => [Abstract!Next]_ledger
    BY ApplyImplements, FinishImplements, OthersStutter
  <1>3. QED
    BY <1>1, <1>2, InvHolds, PTL DEF Spec, AppliedOnce, Abstract!Spec, ledger

=============================================================================
