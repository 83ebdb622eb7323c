----------------------------- MODULE ListsProofs -----------------------------
(***************************************************************************)
(* Proofs about Lists, for any lists, files, addresses, workers, requests  *)
(* and batch sizes: what an import keeps, what a verdict rests on, and     *)
(* what is left of a list when nothing runs on it any more.                *)
(***************************************************************************)
EXTENDS Lists, WellFoundedInduction, TLAPS

-----------------------------------------------------------------------------
(* What every step of every process preserves.                              *)

\* What a worker holds, given where it is.
Course(j) ==
    \/ j = Idle
    \/ /\ j.kind = "import" /\ j.list \in Lists
       /\ j.pc \in {"rows", "insert", "finalize", "chain", "remove"}
       /\ j.held = {} /\ j.keys = {}
    \/ /\ j.kind = "verify" /\ j.list \in Lists
       /\ j.pc \in {"start", "probe", "write", "flush", "key", "fail"}
       /\ j.pc \in {"start", "probe", "fail"} => j.held = {} /\ j.keys = {}
       /\ j.pc \in {"start", "probe"} => j.batch = {}
       /\ j.pc \in {"flush", "key"} => j.cur \in Addresses
       /\ j.pc = "key" => j.cur \in j.held

\* What a request holds.
Asked(c) ==
    /\ c.pc \in {"insert", "mark", "commit", "add"} => c.addr \in Addresses
    /\ c.pc \in {"add", "cascade"} => c.list \in Lists

\* The types, and every process on its course.
Typed ==
    /\ TypeOK
    /\ \A w \in Workers : Course(job[w])
    /\ \A q \in Requests : Asked(req[q])

\* A contact row is locked by one transaction at a time, and stays in its
\* list for as long.
RowsLocked ==
    /\ \A w \in Workers : \A a \in job[w].held : contact[a].list = job[w].list
    /\ \A q \in Requests : (req[q].pc = "commit" /\ req[q].list # NoList) =>
            contact[req[q].addr].list = req[q].list
    /\ \A a \in Addresses : \A x, y \in RowHolders(a) : x = y

\* A verdict of "invalid", cached, in hand or written, is of a dead domain.
DeadOnly ==
    /\ \A a \in Addresses : mxcache[a] = "invalid" => a \in DeadDomains
    /\ \A w \in Workers : \A a \in Addresses :
            job[w].verdict[a] = "invalid" => a \in DeadDomains
    /\ OnlyDeadDomains

\* A verification suppresses an address in the transaction that calls it
\* invalid, unless it is suppressed already.
SuppressedWithVerdict ==
    /\ \A w \in Workers : \A a \in job[w].held :
            job[w].verdict[a] = "invalid" =>
                \/ a \in suppressed \cup job[w].keys
                \/ job[w].pc = "key" /\ job[w].cur = a
    /\ InvalidIsSuppressed

\* The wanted addresses an import has read.
ReadBy(j) ==
    IF j.pos > Len(FileOf[j.list]) THEN Wanted(j.list)
    ELSE Wanted(j.list) \cap RowsUpTo(j.list, j.pos)

\* Of these, an import has lost none.
KeepsRows(j) ==
    /\ j.pc \in {"rows", "insert"} => ReadBy(j) \subseteq known \cup j.pending
    /\ j.pc = "rows" => j.pos <= Len(FileOf[j.list])
    /\ j.pc = "insert" => j.skip \subseteq known
    /\ j.pc \in {"finalize", "chain", "remove"} => Wanted(j.list) \subseteq known

\* A suppressed address and a contact are known.
KnownInv ==
    /\ suppressed \subseteq known
    /\ \A a \in Addresses : contact[a] # NoContact => a \in known
    /\ \A w \in Workers : job[w].kind = "import" => KeepsRows(job[w])
    /\ NothingDropped

ImportTask(l) == [kind |-> "import", list |-> l]
VerifyTask(l) == [kind |-> "verify", list |-> l]

Imports(w, l) == job[w].kind = "import" /\ job[w].list = l
Verifies(w, l) == job[w].kind = "verify" /\ job[w].list = l

\* An import that has not enqueued its verification yet.
Unchained(w, l) == Imports(w, l) /\ job[w].pc # "remove"

\* A list is imported by one task at a time, which has its file until it
\* enqueues the verification.
OneImport(l) ==
    /\ queue[ImportTask(l)] <= 1
    /\ (list[l].status = "unused" \/ l \in uploads) =>
            queue[ImportTask(l)] = 0 /\ \A w \in Workers : ~Imports(w, l)
    /\ list[l].status = "unused" => l \notin uploads
    /\ queue[ImportTask(l)] = 1 => \A w \in Workers : ~Imports(w, l)
    /\ \A v, w \in Workers : Imports(v, l) /\ Imports(w, l) => v = w
    /\ (l \in uploads \/ \E w \in Workers : Unchained(w, l)) => l \in file

\* A verification of the list is to come, whoever dies.
VerificationDue(l) ==
    \/ l \in uploads
    \/ queue[ImportTask(l)] > 0 /\ l \in file
    \/ \E w \in Workers : Unchained(w, l)
    \/ queue[VerifyTask(l)] > 0
    \/ l \in gaveUp

\* A verification under way has the contact before it.
Checks(w, a) ==
    \/ job[w].pc = "start"
    \/ /\ job[w].pc \in {"probe", "write", "flush", "key"}
       /\ a \in job[w].rows \cup job[w].batch \cup job[w].held
    \/ job[w].pc \in {"flush", "key"} /\ job[w].cur = a

\* What is left to be done about contact a of the list, or will not be.
Covered(l, a) ==
    \/ a \in missed \cup manual
    \/ VerificationDue(l)
    \/ \E w \in Workers : Verifies(w, l) /\ Checks(w, a)

\* A verification of the list is to come, or begins, or has no list.
Ahead(l) ==
    \/ VerificationDue(l)
    \/ \E w \in Workers : Verifies(w, l) /\ job[w].pc = "start"
    \/ ~Exists(l)

\* No contact without a verdict is forgotten.
ContactsCovered ==
    \A l \in Lists : \A a \in InList(l) :
        contact[a].result = "pending" => Covered(l, a)

\* Nor is a list.
Attended(l) == VerificationDue(l) \/ \E w \in Workers : Verifies(w, l)

ListsCovered ==
    \A l \in Lists :
        list[l].status \in {"pending_verification", "verifying"} => Attended(l)

\* The verdicts in hand are verdicts, but for those a rollback took.
Definite(w) ==
    job[w].kind = "verify" =>
        /\ job[w].pc \in {"write", "flush", "key"} =>
            \A a \in job[w].batch \cup job[w].held : job[w].verdict[a] # "pending"
        /\ job[w].pc \in {"flush", "key"} => job[w].verdict[job[w].cur] # "pending"
        /\ \A a \in Addresses : job[w].verdict[a] = "lost" => a \in missed

VerdictsDefinite == \A w \in Workers : Definite(w)

-----------------------------------------------------------------------------
(* Workers and requests that move, one at a time.                           *)

\* Only worker w moves, and it keeps to its course.
Moves(w) ==
    /\ job' \in [Workers -> Jobs]
    /\ \A v \in Workers : Course(job'[v])
    /\ \A v \in Workers \ {w} : job'[v] = job[v]

\* Only request q moves.
Proceeds(q) ==
    /\ req' \in [Requests -> Calls]
    /\ \A p \in Requests : Asked(req'[p])
    /\ \A p \in Requests \ {q} : req'[p] = req[p]

\* The parts of a worker's state that a step may leave alone.
SameTask(w) == job'[w].kind = job[w].kind /\ job'[w].list = job[w].list
SameLocks(w) == job'[w].held = job[w].held /\ job'[w].keys = job[w].keys
SameBatch(w) ==
    /\ job'[w].rows = job[w].rows /\ job'[w].batch = job[w].batch
    /\ job'[w].verdict = job[w].verdict /\ job'[w].cur = job[w].cur

\* The state of a worker that begins a task, or has none.
LEMMA Fresh ==
    ASSUME NEW pc \in {"idle", "rows", "start"},
           NEW kind \in {"none", "import", "verify"},
           NEW l \in Lists \cup {NoList}
    PROVE  LET j == At(pc, kind, l)
           IN /\ j \in Jobs
              /\ j.pc = pc /\ j.kind = kind /\ j.list = l
              /\ j.pos = 0 /\ j.pending = {} /\ j.skip = {} /\ j.rows = {}
              /\ j.batch = {} /\ j.verdict = NoVerdict /\ j.cur = Nobody
              /\ j.held = {} /\ j.keys = {}
  BY DEF At, Jobs, NoVerdict, Verdicts

\* A worker is idle exactly when it has no task.
LEMMA IdleWorker ==
    /\ Idle \in Jobs /\ Course(Idle)
    /\ Idle.pc = "idle" /\ Idle.kind = "none" /\ Idle.list = NoList
    /\ Idle.held = {} /\ Idle.keys = {} /\ Idle.verdict = NoVerdict
    /\ \A j : Course(j) /\ (j.pc = "idle" \/ j.kind = "none") => j = Idle
  <1>1. Idle.held = {} /\ Idle.keys = {} /\ Idle.verdict = NoVerdict
        /\ Idle \in Jobs /\ Idle.pc = "idle" /\ Idle.kind = "none" /\ Idle.list = NoList
    BY Fresh DEF Idle
  <1>2. QED
    BY <1>1 DEF Course

\* The assignment of a worker's next state.
LEMMA Reassign ==
    ASSUME Typed, NEW w \in Workers, NEW j \in Jobs, Course(j),
           job' = [job EXCEPT ![w] = j]
    PROVE  Moves(w) /\ job'[w] = j
  BY DEF Typed, TypeOK, Moves

\* A worker that gives its task up.
LEMMA Rests ==
    ASSUME Typed, NEW w \in Workers, job' = [job EXCEPT ![w] = Idle]
    PROVE  Moves(w) /\ job'[w] = Idle
  BY IdleWorker, Reassign

\* The assignment of a request's next state.
LEMMA Reply ==
    ASSUME Typed, NEW q \in Requests, NEW c \in Calls, Asked(c),
           req' = [req EXCEPT ![q] = c]
    PROVE  Proceeds(q) /\ req'[q] = c
  BY DEF Typed, TypeOK, Proceeds

\* The fields of a request.
LEMMA CallFields ==
    ASSUME NEW pc \in {"new", "insert", "mark", "commit", "add", "cascade", "done"},
           NEW kind \in {"none", "suppress", "remove", "add", "delete"},
           NEW a \in Addresses \cup {Nobody}, NEW l \in Lists \cup {NoList}
    PROVE  LET c == Call(pc, kind, a, l)
           IN /\ c \in Calls
              /\ c.pc = pc /\ c.kind = kind /\ c.addr = a /\ c.list = l
  BY DEF Call, Calls

\* A request that is answered.
LEMMA Answered ==
    ASSUME Typed, NEW q \in Requests, req' = [req EXCEPT ![q] = Done]
    PROVE  Proceeds(q) /\ req'[q].pc = "done"
  <1>1. Done \in Calls /\ Done.pc = "done"
    BY CallFields DEF Done
  <1>2. Asked(Done)
    BY <1>1 DEF Asked
  <1>3. QED
    BY <1>1, <1>2, Reply

-----------------------------------------------------------------------------
(* The steps of an import.                                                  *)

\* An import reads and stores rows; it locks nothing for long and has no
\* verdict in hand.
Importing(w) ==
    /\ Moves(w)
    /\ job'[w].held = {} /\ job'[w].keys = {}
    /\ job'[w].verdict \in {job[w].verdict, NoVerdict}
    /\ job'[w].kind # "verify"

\* Those of A that a look finds suppressed or a contact.
Stored(A) == {a \in A : a \in suppressed \/ contact[a] # NoContact}

\* A worker in one of the phases of an import.
LEMMA ImportPhase ==
    ASSUME Typed, NEW w \in Workers,
           job[w].pc \in {"rows", "insert", "finalize", "chain", "remove"}
    PROVE  /\ job[w] \in Jobs /\ job[w].kind = "import" /\ job[w].list \in Lists
           /\ job[w].held = {} /\ job[w].keys = {}
           /\ job[w].pos \in Nat /\ job[w].pending \in SUBSET Addresses
           /\ job[w].skip \in SUBSET Addresses
           /\ FileOf[job[w].list] \in Seq(Addresses \cup {BadRow})
  <1>1. job[w] \in Jobs /\ Course(job[w])
    BY DEF Typed, TypeOK
  <1>2. job[w] # Idle
    BY IdleWorker
  <1>3. /\ job[w].kind = "import" /\ job[w].list \in Lists
        /\ job[w].held = {} /\ job[w].keys = {}
    BY <1>1, <1>2 DEF Course
  <1>4. QED
    BY <1>1, <1>3, ContactStoreAssumption DEF Jobs

\* A worker takes up an import, or finds its file gone.
LEMMA StartImportEffect ==
    ASSUME Typed, NEW w \in Workers, NEW l \in Lists, StartImport(w, l)
    PROVE  /\ Importing(w) /\ job[w] = Idle
           /\ IF l \in file
              THEN /\ job'[w].pc = "rows" /\ job'[w].kind = "import"
                   /\ job'[w].list = l /\ job'[w].pos = 0
                   /\ job'[w].pending = {} /\ job'[w].skip = {}
              ELSE job'[w] = Idle
  <1>1. job[w] = Idle
    BY IdleWorker DEF StartImport, Take, Typed
  <1>2. CASE l \in file
    <2> DEFINE j == At("rows", "import", l)
    <2>1. /\ j \in Jobs /\ j.pc = "rows" /\ j.kind = "import" /\ j.list = l
          /\ j.pos = 0 /\ j.pending = {} /\ j.skip = {}
          /\ j.held = {} /\ j.keys = {} /\ j.verdict = NoVerdict
      BY Fresh
    <2>2. job' = [job EXCEPT ![w] = j]
      BY <1>2 DEF StartImport, Take
    <2> HIDE DEF j
    <2>3. Course(j)
      BY <2>1 DEF Course
    <2>4. QED
      BY <1>1, <1>2, <2>1, <2>2, <2>3, Reassign DEF Importing
  <1>3. CASE l \notin file
    <2>1. job' = [job EXCEPT ![w] = Idle]
      BY <1>3 DEF StartImport, Take
    <2>2. QED
      BY <1>1, <1>3, <2>1, Rests, IdleWorker DEF Importing
  <1>4. QED
    BY <1>2, <1>3

\* A worker that takes the look before an insert.
Looking(w, n, A) == job' = [job EXCEPT ![w] = Look(w, n, A)]

LEMMA Looks ==
    ASSUME Typed, NEW w \in Workers, job[w].pc = "rows", NEW n \in Nat,
           NEW A \in SUBSET Addresses, Looking(w, n, A)
    PROVE  /\ Importing(w) /\ SameTask(w)
           /\ job'[w].pc = "insert" /\ job'[w].pos = n /\ job'[w].pending = A
           /\ job'[w].skip = Stored(A)
  <1> DEFINE S == Stored(A)
             j == [job[w] EXCEPT !.pc = "insert", !.pos = n, !.pending = A,
                                 !.skip = S]
  <1>1. job[w] \in Jobs /\ job[w].kind = "import" /\ job[w].list \in Lists
        /\ job[w].held = {} /\ job[w].keys = {}
    BY ImportPhase
  <1>2. S \in SUBSET Addresses
    BY DEF Stored
  <1>3. job' = [job EXCEPT ![w] = j]
    BY DEF Looking, Look, Stored
  <1> HIDE DEF S
  <1>4. /\ j \in Jobs /\ j.pc = "insert" /\ j.pos = n /\ j.pending = A /\ j.skip = S
        /\ j.kind = job[w].kind /\ j.list = job[w].list /\ j.held = job[w].held
        /\ j.keys = job[w].keys /\ j.verdict = job[w].verdict
    BY <1>1, <1>2 DEF Jobs
  <1> HIDE DEF j
  <1>5. Course(j)
    BY <1>1, <1>4 DEF Course
  <1>6. Moves(w) /\ job'[w] = j
    BY <1>3, <1>4, <1>5, Reassign
  <1>7. QED
    BY <1>1, <1>4, <1>6 DEF Importing, SameTask, S

\* The batch at any row is a set of addresses.
LEMMA PendingType ==
    ASSUME Typed, NEW w \in Workers, job[w].pc = "rows",
           NEW n \in 0 .. Len(FileOf[job[w].list])
    PROVE  PendingAt(w, n) \in SUBSET Addresses
  <1>1. job[w].pending \in SUBSET Addresses
    BY ImportPhase
  <1>2. ASSUME NEW i, Kept(job[w].list, i)
        PROVE  FileOf[job[w].list][i] \in Addresses
    <2>1. /\ FileOf[job[w].list] \in Seq(Addresses \cup {BadRow})
          /\ FileOf[job[w].list][i] \in RowsUpTo(job[w].list, Len(FileOf[job[w].list]))
      BY <1>2, ImportPhase DEF Kept, Wanted
    <2>2. QED
      BY <2>1 DEF RowsUpTo
  <1>3. QED
    BY <1>1, <1>2 DEF PendingAt

\* The import fills a batch and looks at it.
LEMMA ReadRowsEffect ==
    ASSUME Typed, NEW w \in Workers, ReadRows(w)
    PROVE  /\ Importing(w) /\ SameTask(w)
           /\ job[w].pc = "rows" /\ job'[w].pc = "insert"
           /\ job'[w].pos \in 1 .. Len(FileOf[job[w].list])
           /\ job'[w].pos > job[w].pos
           /\ job'[w].pending = PendingAt(w, job'[w].pos)
           /\ job'[w].skip = Stored(PendingAt(w, job'[w].pos))
  <1>1. job[w].pc = "rows"
    BY DEF ReadRows
  <1>2. PICK n \in RowsLeft(w) : job' = [job EXCEPT ![w] = Look(w, n, PendingAt(w, n))]
    BY DEF ReadRows
  <1>3. n \in 1 .. Len(FileOf[job[w].list]) /\ n > job[w].pos
    BY <1>1, <1>2, ImportPhase DEF RowsLeft
  <1>4. PendingAt(w, n) \in SUBSET Addresses
    BY <1>1, <1>3, ImportPhase, PendingType
  <1>5. /\ Importing(w) /\ SameTask(w) /\ job'[w].pc = "insert"
        /\ job'[w].pos = n /\ job'[w].pending = PendingAt(w, n)
        /\ job'[w].skip = Stored(PendingAt(w, n))
    <2>1. n \in Nat
      BY <1>3
    <2>2. Looking(w, n, PendingAt(w, n))
      BY <1>2 DEF Looking
    <2>3. QED
      BY <1>1, <1>4, <2>1, <2>2, Looks
  <1>6. QED
    BY <1>1, <1>3, <1>5

\* The import reads the rest of the file.
LEMMA EndOfFileEffect ==
    ASSUME Typed, NEW w \in Workers, EndOfFile(w)
    PROVE  /\ Importing(w) /\ SameTask(w) /\ job[w].pc = "rows"
           /\ LET last == Len(FileOf[job[w].list])
              IN \/ PendingAt(w, last) = {} /\ job'[w].pc = "finalize"
                 \/ /\ job'[w].pc = "insert" /\ job'[w].pos = last + 1
                    /\ job'[w].pending = PendingAt(w, last)
                    /\ job'[w].skip = Stored(PendingAt(w, last))
  <1> DEFINE last == Len(FileOf[job[w].list])
             j == [job[w] EXCEPT !.pc = "finalize"]
  <1>1. /\ job[w].pc = "rows" /\ job[w] \in Jobs /\ job[w].kind = "import"
        /\ job[w].list \in Lists /\ job[w].held = {} /\ job[w].keys = {}
        /\ last \in Nat
    BY ImportPhase DEF EndOfFile
  <1>2. PendingAt(w, last) \in SUBSET Addresses
    BY <1>1, PendingType
  <1>3. CASE PendingAt(w, last) = {}
    <2>1. job' = [job EXCEPT ![w] = j]
      BY <1>3 DEF EndOfFile
    <2>2. /\ j \in Jobs /\ j.pc = "finalize" /\ j.kind = job[w].kind
          /\ j.list = job[w].list /\ j.held = job[w].held /\ j.keys = job[w].keys
          /\ j.verdict = job[w].verdict
      BY <1>1 DEF Jobs
    <2> HIDE DEF j
    <2>3. Course(j)
      BY <1>1, <2>2 DEF Course
    <2>4. QED
      BY <1>1, <1>3, <2>1, <2>2, <2>3, Reassign DEF Importing, SameTask
  <1>4. CASE PendingAt(w, last) # {}
    <2>1. job' = [job EXCEPT ![w] = Look(w, last + 1, PendingAt(w, last))]
      BY <1>4 DEF EndOfFile
    <2>2. PICK n \in Nat : n = last + 1
      BY <1>1
    <2>3. PICK A \in SUBSET Addresses : A = PendingAt(w, last)
      BY <1>2
    <2>4. Looking(w, n, A)
      BY <2>1, <2>2, <2>3 DEF Looking
    <2>5. job[w].pc = "rows"
      BY <1>1
    <2>6. /\ Importing(w) /\ SameTask(w) /\ job'[w].pc = "insert"
          /\ job'[w].pos = n /\ job'[w].pending = A /\ job'[w].skip = Stored(A)
      BY <2>4, <2>5, Looks
    <2>7. QED
      BY <1>1, <2>2, <2>3, <2>6
  <1>5. QED
    BY <1>3, <1>4

\* The import inserts the addresses its look found new.
LEMMA FlushBatchEffect ==
    ASSUME Typed, NEW w \in Workers, FlushBatch(w)
    PROVE  LET new == job[w].pending \ job[w].skip
           IN /\ Importing(w) /\ SameTask(w) /\ job[w].pc = "insert"
              /\ job'[w].pending = {} /\ job'[w].skip = {}
              /\ job'[w].pos = job[w].pos
              /\ job'[w].pc = IF job[w].pos > Len(FileOf[job[w].list])
                              THEN "finalize" ELSE "rows"
              /\ new \subseteq Addresses
              /\ new # {} => Exists(job[w].list)
              /\ \A a \in new :
                    /\ contact[a] = NoContact
                    /\ contact'[a] = [list |-> job[w].list, active |-> TRUE,
                                      result |-> "pending"]
              /\ \A a \in Addresses \ new : contact'[a] = contact[a]
              /\ known' = known \cup new
  <1> DEFINE new == job[w].pending \ job[w].skip
             pc == IF job[w].pos > Len(FileOf[job[w].list])
                   THEN "finalize" ELSE "rows"
             j == [job[w] EXCEPT !.pending = {}, !.skip = {}, !.pc = pc]
  <1>1. /\ job[w].pc = "insert" /\ job[w] \in Jobs /\ job[w].kind = "import"
        /\ job[w].list \in Lists /\ job[w].held = {} /\ job[w].keys = {}
        /\ new \in SUBSET Addresses
    BY ImportPhase DEF FlushBatch
  <1>2. job' = [job EXCEPT ![w] = j]
    BY DEF FlushBatch, Typed, TypeOK
  <1>3. pc \in {"finalize", "rows"}
    OBVIOUS
  <1>4. /\ new # {} => Exists(job[w].list)
        /\ \A a \in new : contact[a] = NoContact
    BY DEF FlushBatch, FlushFails
  <1>5. /\ \A a \in new : contact'[a] = [list |-> job[w].list, active |-> TRUE,
                                          result |-> "pending"]
        /\ \A a \in Addresses \ new : contact'[a] = contact[a]
        /\ known' = known \cup new
    BY <1>1 DEF FlushBatch
  <1> HIDE DEF new, pc
  <1>6. /\ j \in Jobs /\ j.pending = {} /\ j.skip = {} /\ j.pc = pc
        /\ j.pos = job[w].pos /\ j.kind = job[w].kind
        /\ j.list = job[w].list /\ j.held = job[w].held /\ j.keys = job[w].keys
        /\ j.verdict = job[w].verdict
    BY <1>1, <1>3 DEF Jobs
  <1> HIDE DEF j
  <1>7. Course(j)
    BY <1>1, <1>3, <1>6 DEF Course
  <1>8. Moves(w) /\ job'[w] = j
    BY <1>2, <1>6, <1>7, Reassign
  <1>9. Importing(w) /\ SameTask(w)
    BY <1>1, <1>6, <1>8 DEF Importing, SameTask
  <1>10. QED
    BY <1>1, <1>4, <1>5, <1>6, <1>8, <1>9 DEF new, pc

\* A failed flush keeps its batch, or ends the import.
LEMMA FlushErrorEffect ==
    ASSUME Typed, NEW w \in Workers, FlushError(w)
    PROVE  /\ Importing(w) /\ job[w].pc = "insert"
           /\ \/ /\ job[w].pos <= Len(FileOf[job[w].list])
                 /\ SameTask(w) /\ UNCHANGED gaveUp
                 /\ job'[w].pc = "rows" /\ job'[w].skip = {}
                 /\ job'[w].pending = job[w].pending /\ job'[w].pos = job[w].pos
              \/ job'[w] = Idle /\ gaveUp' = gaveUp \cup {job[w].list}
  <1> DEFINE j == [job[w] EXCEPT !.pc = "rows", !.skip = {}]
  <1>1. /\ job[w].pc = "insert" /\ job[w] \in Jobs /\ job[w].kind = "import"
        /\ job[w].list \in Lists /\ job[w].held = {} /\ job[w].keys = {}
    BY ImportPhase DEF FlushError
  <1>2. CASE job[w].pos <= Len(FileOf[job[w].list])
    <2>1. job' = [job EXCEPT ![w] = j] /\ UNCHANGED gaveUp
      BY <1>2 DEF FlushError, Typed, TypeOK
    <2>2. /\ j \in Jobs /\ j.pc = "rows" /\ j.skip = {}
          /\ j.pending = job[w].pending /\ j.pos = job[w].pos
          /\ j.kind = job[w].kind /\ j.list = job[w].list
          /\ j.held = job[w].held /\ j.keys = job[w].keys
          /\ j.verdict = job[w].verdict
      BY <1>1 DEF Jobs
    <2> HIDE DEF j
    <2>3. Course(j)
      BY <1>1, <2>2 DEF Course
    <2>4. Moves(w) /\ job'[w] = j
      BY <2>1, <2>2, <2>3, Reassign
    <2>5. QED
      BY <1>1, <1>2, <2>1, <2>2, <2>4 DEF Importing, SameTask
  <1>3. CASE ~(job[w].pos <= Len(FileOf[job[w].list]))
    <2>1. job' = [job EXCEPT ![w] = Idle] /\ gaveUp' = gaveUp \cup {job[w].list}
      BY <1>3 DEF FlushError
    <2>2. QED
      BY <1>1, <2>1, Rests, IdleWorker DEF Importing
  <1>4. QED
    BY <1>2, <1>3

\* The import is reported, or its list is gone.
LEMMA FinalizeEffect ==
    ASSUME Typed, NEW w \in Workers, Finalize(w)
    PROVE  /\ Importing(w) /\ job[w].pc = "finalize"
           /\ \/ SameTask(w) /\ job'[w].pc = "chain"
              \/ ~Exists(job[w].list) /\ job'[w] = Idle
  <1> DEFINE j == [job[w] EXCEPT !.pc = "chain"]
  <1>1. /\ job[w].pc = "finalize" /\ job[w] \in Jobs /\ job[w].kind = "import"
        /\ job[w].list \in Lists /\ job[w].held = {} /\ job[w].keys = {}
    BY ImportPhase DEF Finalize
  <1>2. ASSUME job' = [job EXCEPT ![w].pc = "chain"]
        PROVE  Importing(w) /\ SameTask(w) /\ job'[w].pc = "chain"
    <2>1. job' = [job EXCEPT ![w] = j]
      BY <1>2
    <2>2. /\ j \in Jobs /\ j.pc = "chain" /\ j.kind = job[w].kind
          /\ j.list = job[w].list /\ j.held = job[w].held /\ j.keys = job[w].keys
          /\ j.verdict = job[w].verdict
      BY <1>1 DEF Jobs
    <2> HIDE DEF j
    <2>3. Course(j)
      BY <1>1, <2>2 DEF Course
    <2>4. Moves(w) /\ job'[w] = j
      BY <2>1, <2>2, <2>3, Reassign
    <2>5. QED
      BY <1>1, <2>2, <2>4 DEF Importing, SameTask
  <1>3. ASSUME ~Exists(job[w].list), job' = [job EXCEPT ![w] = Idle]
        PROVE  Importing(w) /\ job'[w] = Idle
    BY <1>3, Rests, IdleWorker DEF Importing
  <1>4. QED
    BY <1>1, <1>2, <1>3 DEF Finalize

\* The import enqueues the verification.
LEMMA ChainEffect ==
    ASSUME Typed, NEW w \in Workers, Chain(w)
    PROVE  /\ Importing(w) /\ SameTask(w) /\ job[w].pc = "chain"
           /\ job'[w].pc = "remove"
  <1> DEFINE j == [job[w] EXCEPT !.pc = "remove"]
  <1>1. /\ job[w].pc = "chain" /\ job[w] \in Jobs /\ job[w].kind = "import"
        /\ job[w].list \in Lists /\ job[w].held = {} /\ job[w].keys = {}
    BY ImportPhase DEF Chain
  <1>2. job' = [job EXCEPT ![w] = j]
    BY DEF Chain
  <1>3. /\ j \in Jobs /\ j.pc = "remove" /\ j.kind = job[w].kind
        /\ j.list = job[w].list /\ j.held = job[w].held /\ j.keys = job[w].keys
        /\ j.verdict = job[w].verdict
    BY <1>1 DEF Jobs
  <1> HIDE DEF j
  <1>4. Course(j)
    BY <1>1, <1>3 DEF Course
  <1>5. Moves(w) /\ job'[w] = j
    BY <1>2, <1>3, <1>4, Reassign
  <1>6. QED
    BY <1>1, <1>3, <1>5 DEF Importing, SameTask

\* The import removes its file and ends.
LEMMA RemoveFileEffect ==
    ASSUME Typed, NEW w \in Workers, RemoveFile(w)
    PROVE  /\ Importing(w) /\ job[w].pc = "remove" /\ job[w].kind = "import"
           /\ job[w].list \in Lists /\ job'[w] = Idle
  BY Rests, IdleWorker, ImportPhase DEF RemoveFile, Importing

\* The import ends with an exception.
LEMMA ImportFailsEffect ==
    ASSUME Typed, NEW w \in Workers, ImportFails(w)
    PROVE  /\ Importing(w) /\ job[w].kind = "import" /\ job[w].list \in Lists
           /\ job'[w] = Idle /\ gaveUp' = gaveUp \cup {job[w].list}
  BY Rests, IdleWorker, ImportPhase DEF ImportFails, Importing

-----------------------------------------------------------------------------
(* The steps of a verification.                                             *)

\* A worker in one of the phases of a verification.
LEMMA VerifyPhase ==
    ASSUME Typed, NEW w \in Workers,
           job[w].pc \in {"start", "probe", "write", "flush", "key", "fail"}
    PROVE  /\ job[w] \in Jobs /\ job[w].kind = "verify" /\ job[w].list \in Lists
           /\ job[w].rows \in SUBSET Addresses /\ job[w].batch \in SUBSET Addresses
           /\ job[w].held \in SUBSET Addresses /\ job[w].keys \in SUBSET Addresses
           /\ job[w].verdict \in [Addresses -> Verdicts \cup {"lost"}]
           /\ job[w].pc \in {"start", "probe", "fail"} =>
                    job[w].held = {} /\ job[w].keys = {}
           /\ job[w].pc \in {"start", "probe"} => job[w].batch = {}
           /\ job[w].pc \in {"flush", "key"} => job[w].cur \in Addresses
           /\ job[w].pc = "key" => job[w].cur \in job[w].held
  <1>1. job[w] \in Jobs /\ Course(job[w])
    BY DEF Typed, TypeOK
  <1>2. job[w] # Idle
    BY IdleWorker
  <1>3. QED
    BY <1>1, <1>2 DEF Course, Jobs

\* The state after a rollback.
LEMMA RolledBack ==
    ASSUME NEW j \in Jobs
    PROVE  /\ Rollback(j) \in Jobs
           /\ Rollback(j).held = {} /\ Rollback(j).keys = {}
           /\ Rollback(j).pc = j.pc
           /\ Rollback(j).kind = j.kind /\ Rollback(j).list = j.list
           /\ Rollback(j).rows = j.rows /\ Rollback(j).batch = j.batch
           /\ Rollback(j).verdict = j.verdict /\ Rollback(j).cur = j.cur
  BY DEF Rollback, Jobs

\* A verification that is over but for its mark on the list.
LEMMA Failing ==
    ASSUME Typed, NEW w \in Workers,
           job[w].pc \in {"probe", "write", "flush", "key"},
           job' = [job EXCEPT ![w] = [Rollback(@) EXCEPT !.pc = "fail"]]
    PROVE  /\ Moves(w) /\ SameTask(w) /\ SameBatch(w) /\ job'[w].pc = "fail"
           /\ job'[w].held = {} /\ job'[w].keys = {}
  <1> DEFINE k == Rollback(job[w])
             j == [k EXCEPT !.pc = "fail"]
  <1>1. job[w] \in Jobs /\ job[w].kind = "verify" /\ job[w].list \in Lists
    BY VerifyPhase
  <1>2. job' = [job EXCEPT ![w] = j]
    OBVIOUS
  <1>3. /\ k \in Jobs /\ k.held = {} /\ k.keys = {}
        /\ k.kind = job[w].kind /\ k.list = job[w].list
        /\ k.rows = job[w].rows /\ k.batch = job[w].batch
        /\ k.verdict = job[w].verdict /\ k.cur = job[w].cur
    BY <1>1, RolledBack
  <1> HIDE DEF k
  <1>4. /\ j \in Jobs /\ j.held = k.held /\ j.keys = k.keys /\ j.pc = "fail"
        /\ j.kind = k.kind /\ j.list = k.list
        /\ j.rows = k.rows /\ j.batch = k.batch
        /\ j.verdict = k.verdict /\ j.cur = k.cur
    BY <1>3 DEF Jobs
  <1> HIDE DEF j
  <1>5. Course(j)
    BY <1>1, <1>3, <1>4 DEF Course
  <1>6. Moves(w) /\ job'[w] = j
    BY <1>2, <1>4, <1>5, Reassign
  <1>7. QED
    BY <1>3, <1>4, <1>6 DEF SameTask, SameBatch

\* A worker takes up a verification, or finds its list gone.
LEMMA StartVerifyEffect ==
    ASSUME Typed, NEW w \in Workers, NEW l \in Lists, StartVerify(w, l)
    PROVE  /\ Moves(w) /\ job[w] = Idle
           /\ job'[w].verdict = NoVerdict
           /\ job'[w].held = {} /\ job'[w].keys = {}
           /\ IF Exists(l)
              THEN /\ job'[w].pc = "start" /\ job'[w].kind = "verify"
                   /\ job'[w].list = l
              ELSE job'[w] = Idle
  <1>1. job[w] = Idle
    BY IdleWorker DEF StartVerify, Take, Typed
  <1>2. CASE Exists(l)
    <2> DEFINE j == At("start", "verify", l)
    <2>1. /\ j \in Jobs /\ j.pc = "start" /\ j.kind = "verify" /\ j.list = l
          /\ j.held = {} /\ j.keys = {} /\ j.verdict = NoVerdict /\ j.batch = {}
      BY Fresh
    <2>2. job' = [job EXCEPT ![w] = j]
      BY <1>2 DEF StartVerify, Take
    <2> HIDE DEF j
    <2>3. Course(j)
      BY <2>1 DEF Course
    <2>4. QED
      BY <1>1, <1>2, <2>1, <2>2, <2>3, Reassign
  <1>3. CASE ~Exists(l)
    <2>1. job' = [job EXCEPT ![w] = Idle]
      BY <1>3 DEF StartVerify, Take
    <2>2. QED
      BY <1>1, <1>3, <2>1, Rests, IdleWorker
  <1>4. QED
    BY <1>2, <1>3

\* The verification reads the contacts of its list.
LEMMA ReadContactsEffect ==
    ASSUME Typed, NEW w \in Workers, ReadContacts(w)
    PROVE  /\ Moves(w) /\ job[w].pc = "start"
           /\ job'[w].verdict \in {job[w].verdict, NoVerdict}
           /\ job'[w].held = {} /\ job'[w].keys = {}
           /\ IF Exists(job[w].list)
              THEN /\ SameTask(w) /\ job'[w].pc = "probe"
                   /\ job'[w].rows = InList(job[w].list)
                   /\ job'[w].verdict = job[w].verdict
                   /\ list' = [list EXCEPT ![job[w].list].status = "verifying"]
              ELSE job'[w] = Idle /\ UNCHANGED list
  <1> DEFINE j == [job[w] EXCEPT !.pc = "probe", !.rows = InList(job[w].list)]
  <1>1. /\ job[w].pc = "start" /\ job[w] \in Jobs /\ job[w].kind = "verify"
        /\ job[w].list \in Lists /\ job[w].held = {} /\ job[w].keys = {}
        /\ job[w].batch = {}
    BY VerifyPhase DEF ReadContacts
  <1>2. CASE Exists(job[w].list)
    <2>1. job' = [job EXCEPT ![w] = j]
      BY <1>2 DEF ReadContacts, Typed, TypeOK
    <2>2. list' = [list EXCEPT ![job[w].list].status = "verifying"]
      BY <1>2 DEF ReadContacts
    <2>3. InList(job[w].list) \in SUBSET Addresses
      BY DEF InList
    <2>4. /\ j \in Jobs /\ j.pc = "probe" /\ j.rows = InList(job[w].list)
          /\ j.kind = job[w].kind /\ j.list = job[w].list
          /\ j.held = job[w].held /\ j.keys = job[w].keys
          /\ j.verdict = job[w].verdict /\ j.batch = job[w].batch
      BY <1>1, <2>3 DEF Jobs
    <2> HIDE DEF j
    <2>5. Course(j)
      BY <1>1, <2>4 DEF Course
    <2>6. Moves(w) /\ job'[w] = j
      BY <2>1, <2>4, <2>5, Reassign
    <2>7. QED
      BY <1>1, <1>2, <2>2, <2>4, <2>6 DEF SameTask
  <1>3. CASE ~Exists(job[w].list)
    BY <1>1, <1>3, Rests, IdleWorker DEF ReadContacts
  <1>4. QED
    BY <1>2, <1>3

\* The verification looks a batch of domains up.
LEMMA ProbeBatchEffect ==
    ASSUME Typed, NEW w \in Workers, ProbeBatch(w)
    PROVE  /\ Moves(w) /\ SameTask(w) /\ job[w].pc = "probe"
           /\ job'[w].pc = "write"
           /\ job[w].held = {} /\ job[w].batch = {}
           /\ job'[w].held = {} /\ job'[w].keys = {}
           /\ job'[w].batch \subseteq job[w].rows
           /\ job'[w].rows = job[w].rows \ job'[w].batch
           /\ \A a \in job'[w].batch :
                    job'[w].verdict[a] \in DomainStatus(a) \ {"pending"}
           /\ \A a \in Addresses \ job'[w].batch : job'[w].verdict[a] = "pending"
           /\ \A a \in Addresses : job'[w].verdict[a] # "lost"
           /\ mxcache' \in [Addresses -> Verdicts \ {"unknown"}]
           /\ \A a \in Addresses :
                    \/ mxcache'[a] = mxcache[a]
                    \/ a \in job'[w].batch /\ mxcache'[a] = job'[w].verdict[a]
  <1>1. /\ job[w].pc = "probe" /\ job[w] \in Jobs /\ job[w].kind = "verify"
        /\ job[w].list \in Lists /\ job[w].held = {} /\ job[w].keys = {}
        /\ job[w].batch = {} /\ job[w].rows \in SUBSET Addresses
    BY VerifyPhase DEF ProbeBatch
  <1>2. PICK batch \in SUBSET job[w].rows :
            \E v \in [batch -> Verdicts \ {"pending"}] :
            /\ \A a \in batch : v[a] \in DomainStatus(a)
            /\ mxcache' = [a \in Addresses |->
                    IF a \in batch THEN Cached(mxcache[a], v[a])
                    ELSE mxcache[a]]
            /\ job' = [job EXCEPT ![w].pc = "write", ![w].batch = batch,
                    ![w].rows = @ \ batch,
                    ![w].verdict = [a \in Addresses |->
                        IF a \in batch THEN v[a] ELSE "pending"]]
    BY DEF ProbeBatch
  <1>0. PICK v \in [batch -> Verdicts \ {"pending"}] :
            /\ \A a \in batch : v[a] \in DomainStatus(a)
            /\ mxcache' = [a \in Addresses |->
                    IF a \in batch THEN Cached(mxcache[a], v[a])
                    ELSE mxcache[a]]
            /\ job' = [job EXCEPT ![w].pc = "write", ![w].batch = batch,
                    ![w].rows = @ \ batch,
                    ![w].verdict = [a \in Addresses |->
                        IF a \in batch THEN v[a] ELSE "pending"]]
    BY <1>2
  <1> DEFINE verdict == [a \in Addresses |-> IF a \in batch THEN v[a] ELSE "pending"]
             rows == job[w].rows \ batch
             j == [job[w] EXCEPT !.pc = "write", !.batch = batch, !.rows = rows,
                                 !.verdict = verdict]
  <1>3. job' = [job EXCEPT ![w] = j]
    BY <1>0 DEF Typed, TypeOK
  <1>4. /\ verdict \in [Addresses -> Verdicts \cup {"lost"}]
        /\ \A a \in batch : verdict[a] \in DomainStatus(a) \ {"pending"}
        /\ \A a \in Addresses \ batch : verdict[a] = "pending"
        /\ \A a \in Addresses : verdict[a] # "lost"
    BY <1>1, <1>0 DEF Verdicts
  <1>5. /\ mxcache' \in [Addresses -> Verdicts \ {"unknown"}]
        /\ \A a \in Addresses : \/ mxcache'[a] = mxcache[a]
                                \/ a \in batch /\ mxcache'[a] = verdict[a]
    <2>1. mxcache \in [Addresses -> Verdicts \ {"unknown"}]
      BY DEF Typed, TypeOK
    <2>2. \A a \in batch : v[a] \in Verdicts /\ a \in Addresses
      BY <1>1, <1>0
    <2>3. QED
      BY <1>0, <2>1, <2>2 DEF Cached
  <1>6. batch \in SUBSET Addresses /\ rows \in SUBSET Addresses
    BY <1>1
  <1> HIDE DEF verdict, rows
  <1>7. /\ j \in Jobs /\ j.pc = "write" /\ j.batch = batch /\ j.rows = rows
        /\ j.verdict = verdict /\ j.kind = job[w].kind /\ j.list = job[w].list
        /\ j.held = job[w].held /\ j.keys = job[w].keys
    BY <1>1, <1>4, <1>6 DEF Jobs
  <1> HIDE DEF j
  <1>8. Course(j)
    BY <1>1, <1>7 DEF Course
  <1>9. Moves(w) /\ job'[w] = j
    BY <1>3, <1>7, <1>8, Reassign
  <1>10. QED
    BY <1>1, <1>4, <1>5, <1>7, <1>9 DEF SameTask, rows

\* The verification loads the next contact of the batch.
LEMMA LoadEffect ==
    ASSUME Typed, NEW w \in Workers, NEW a \in Addresses, Load(w, a)
    PROVE  /\ Moves(w) /\ SameTask(w) /\ SameLocks(w)
           /\ job[w].pc = "write" /\ a \in job[w].batch
           /\ job'[w].rows = job[w].rows /\ job'[w].batch = job[w].batch \ {a}
           /\ job'[w].verdict = job[w].verdict
           /\ IF Present(w, a) /\ contact[a].result # job[w].verdict[a]
              THEN job'[w].pc = "flush" /\ job'[w].cur = a
              ELSE job'[w].pc = "write" /\ job'[w].cur = Nobody
  <1> DEFINE write == Present(w, a) /\ contact[a].result # job[w].verdict[a]
             pc == IF write THEN "flush" ELSE "write"
             cur == IF write THEN a ELSE Nobody
             batch == job[w].batch \ {a}
             j == [job[w] EXCEPT !.batch = batch, !.pc = pc, !.cur = cur]
  <1>1. /\ job[w].pc = "write" /\ job[w] \in Jobs /\ job[w].kind = "verify"
        /\ job[w].list \in Lists /\ job[w].batch \in SUBSET Addresses
        /\ a \in job[w].batch
    BY VerifyPhase DEF Load
  <1>2. job' = [job EXCEPT ![w] = j]
    BY DEF Load, Typed, TypeOK
  <1>3. /\ pc \in {"flush", "write"} /\ cur \in Addresses \cup {Nobody}
        /\ pc = "flush" => cur \in Addresses
        /\ batch \in SUBSET Addresses
    BY <1>1
  <1>4. IF write THEN pc = "flush" /\ cur = a ELSE pc = "write" /\ cur = Nobody
    OBVIOUS
  <1> HIDE DEF write, pc, cur, batch
  <1>5. /\ j \in Jobs /\ j.pc = pc /\ j.batch = batch /\ j.cur = cur
        /\ j.rows = job[w].rows /\ j.verdict = job[w].verdict
        /\ j.kind = job[w].kind /\ j.list = job[w].list
        /\ j.held = job[w].held /\ j.keys = job[w].keys
    BY <1>1, <1>3 DEF Jobs
  <1> HIDE DEF j
  <1>6. Course(j)
    BY <1>1, <1>3, <1>5 DEF Course
  <1>7. Moves(w) /\ job'[w] = j
    BY <1>2, <1>5, <1>6, Reassign
  <1>8. QED
    BY <1>1, <1>4, <1>5, <1>7 DEF SameTask, SameLocks, write, batch

\* A flush finds the row gone and fails, or passes over it after a rollback,
\* or locks the row.
LEMMA FlushEffect ==
    ASSUME Typed, NEW w \in Workers, Flush(w)
    PROVE  LET a == job[w].cur
           IN /\ Moves(w) /\ SameTask(w) /\ job[w].pc = "flush"
              /\ a \in Addresses
              /\ job'[w].rows = job[w].rows /\ job'[w].batch = job[w].batch
              /\ job'[w].verdict = job[w].verdict
              /\ \/ /\ ~Present(w, a) /\ job'[w].pc = "fail"
                    /\ job'[w].held = {} /\ job'[w].keys = {}
                    /\ missed' = missed \cup Unwritten(w)
                 \/ /\ ~Present(w, a) /\ job'[w].pc = "write" /\ SameLocks(w)
                    /\ UNCHANGED missed
                 \/ /\ Present(w, a) /\ UNCHANGED missed
                    /\ job'[w].held = job[w].held \cup {a}
                    /\ job'[w].keys = job[w].keys
                    /\ IF job[w].verdict[a] = "invalid" /\ a \notin suppressed
                       THEN job'[w].pc = "key" /\ job'[w].cur = a
                       ELSE job'[w].pc = "write"
  <1> DEFINE a == job[w].cur
  <1>1. /\ job[w].pc = "flush" /\ job[w] \in Jobs /\ job[w].kind = "verify"
        /\ job[w].list \in Lists /\ a \in Addresses
        /\ job[w].held \in SUBSET Addresses
    BY VerifyPhase DEF Flush
  <1>2. CASE /\ ~Present(w, a)
             /\ job' = [job EXCEPT ![w] = [Rollback(@) EXCEPT !.pc = "fail"]]
             /\ missed' = missed \cup Unwritten(w)
    BY <1>1, <1>2, Failing DEF SameBatch
  <1>3. CASE /\ ~Present(w, a) /\ UNCHANGED missed
             /\ job' = [job EXCEPT ![w].pc = "write", ![w].cur = Nobody]
    <2> DEFINE j == [job[w] EXCEPT !.pc = "write", !.cur = Nobody]
    <2>1. job' = [job EXCEPT ![w] = j]
      BY <1>3 DEF Typed, TypeOK
    <2>2. /\ j \in Jobs /\ j.pc = "write" /\ j.kind = job[w].kind
          /\ j.list = job[w].list /\ j.rows = job[w].rows
          /\ j.batch = job[w].batch /\ j.verdict = job[w].verdict
          /\ j.held = job[w].held /\ j.keys = job[w].keys
      BY <1>1 DEF Jobs
    <2> HIDE DEF j
    <2>3. Course(j)
      BY <1>1, <2>2 DEF Course
    <2>4. Moves(w) /\ job'[w] = j
      BY <2>1, <2>2, <2>3, Reassign
    <2>5. QED
      BY <1>1, <1>3, <2>2, <2>4 DEF SameTask, SameLocks
  <1>4. CASE /\ Present(w, a) /\ UNCHANGED missed
             /\ job[w].verdict[a] = "invalid" /\ a \notin suppressed
             /\ job' = [job EXCEPT ![w] = [Locking(w, a) EXCEPT !.pc = "key"]]
    <2> DEFINE held == job[w].held \cup {a}
               j == [job[w] EXCEPT !.held = held, !.pc = "key"]
    <2>1. job' = [job EXCEPT ![w] = j]
      BY <1>4 DEF Locking
    <2>2. held \in SUBSET Addresses /\ a \in held
      BY <1>1
    <2> HIDE DEF held
    <2>3. /\ j \in Jobs /\ j.pc = "key" /\ j.kind = job[w].kind
          /\ j.list = job[w].list /\ j.rows = job[w].rows
          /\ j.batch = job[w].batch /\ j.verdict = job[w].verdict
          /\ j.cur = a /\ j.held = held /\ j.keys = job[w].keys
      BY <1>1, <2>2 DEF Jobs
    <2> HIDE DEF j
    <2>4. Course(j)
      BY <1>1, <2>2, <2>3 DEF Course
    <2>5. Moves(w) /\ job'[w] = j
      BY <2>1, <2>3, <2>4, Reassign
    <2>6. QED
      BY <1>1, <1>4, <2>3, <2>5 DEF SameTask, held
  <1>5. CASE /\ Present(w, a) /\ UNCHANGED missed
             /\ ~(job[w].verdict[a] = "invalid" /\ a \notin suppressed)
             /\ job' = [job EXCEPT ![w] =
                            [Locking(w, a) EXCEPT !.pc = "write", !.cur = Nobody]]
    <2> DEFINE held == job[w].held \cup {a}
               j == [job[w] EXCEPT !.held = held, !.pc = "write", !.cur = Nobody]
    <2>1. job' = [job EXCEPT ![w] = j]
      BY <1>5 DEF Locking
    <2>2. held \in SUBSET Addresses
      BY <1>1
    <2> HIDE DEF held
    <2>3. /\ j \in Jobs /\ j.pc = "write" /\ j.kind = job[w].kind
          /\ j.list = job[w].list /\ j.rows = job[w].rows
          /\ j.batch = job[w].batch /\ j.verdict = job[w].verdict
          /\ j.held = held /\ j.keys = job[w].keys
      BY <1>1, <2>2 DEF Jobs
    <2> HIDE DEF j
    <2>4. Course(j)
      BY <1>1, <2>3 DEF Course
    <2>5. Moves(w) /\ job'[w] = j
      BY <2>1, <2>3, <2>4, Reassign
    <2>6. QED
      BY <1>1, <1>5, <2>3, <2>5 DEF SameTask, held
  <1>6. QED
    BY <1>2, <1>3, <1>4, <1>5 DEF Flush

\* The key of the suppression: taken, or lost with all the transaction held.
LEMMA InsertKeyEffect ==
    ASSUME Typed, NEW w \in Workers, InsertKey(w)
    PROVE  LET a == job[w].cur
           IN /\ Moves(w) /\ SameTask(w) /\ job[w].pc = "key"
              /\ a \in Addresses /\ a \in job[w].held
              /\ job'[w].rows = job[w].rows /\ job'[w].batch = job[w].batch
              /\ IF a \in suppressed
                 THEN /\ job'[w].held = {} /\ job'[w].keys = {}
                      /\ job'[w].cur = a /\ job'[w].pc = "flush"
                      /\ job'[w].verdict[a] = "lost"
                      /\ \A b \in Addresses \ {a} :
                            job'[w].verdict[b] = job[w].verdict[b]
                      /\ missed' = missed \cup job[w].held
                 ELSE /\ job'[w].held = job[w].held
                      /\ job'[w].keys = job[w].keys \cup {a}
                      /\ job'[w].pc = "write"
                      /\ job'[w].verdict = job[w].verdict
                      /\ UNCHANGED missed
  <1> DEFINE a == job[w].cur
  <1>1. /\ job[w].pc = "key" /\ job[w] \in Jobs /\ job[w].kind = "verify"
        /\ job[w].list \in Lists /\ a \in Addresses /\ a \in job[w].held
        /\ job[w].held \in SUBSET Addresses /\ job[w].keys \in SUBSET Addresses
        /\ job[w].verdict \in [Addresses -> Verdicts \cup {"lost"}]
    BY VerifyPhase DEF InsertKey
  <1>2. CASE a \in suppressed
    <2> DEFINE k == Rollback(job[w])
               verdict == [job[w].verdict EXCEPT ![a] = "lost"]
               j == [k EXCEPT !.verdict = verdict, !.pc = "flush"]
    <2>1. /\ k \in Jobs /\ k.held = {} /\ k.keys = {}
          /\ k.kind = job[w].kind /\ k.list = job[w].list
          /\ k.rows = job[w].rows /\ k.batch = job[w].batch
          /\ k.verdict = job[w].verdict /\ k.cur = a
      BY <1>1, RolledBack
    <2>2. /\ job' = [job EXCEPT ![w] = [Rollback(@) EXCEPT
                    !.verdict = [job[w].verdict EXCEPT ![a] = "lost"],
                    !.pc = "flush"]]
          /\ missed' = missed \cup job[w].held
      BY <1>2 DEF InsertKey
    <2>3. job' = [job EXCEPT ![w] = j]
      BY <2>1, <2>2
    <2>4. /\ verdict \in [Addresses -> Verdicts \cup {"lost"}]
          /\ verdict[a] = "lost"
          /\ \A b \in Addresses \ {a} : verdict[b] = job[w].verdict[b]
      BY <1>1
    <2> HIDE DEF k, verdict
    <2>5. /\ j \in Jobs /\ j.held = k.held /\ j.keys = k.keys /\ j.pc = "flush"
          /\ j.kind = k.kind /\ j.list = k.list
          /\ j.rows = k.rows /\ j.batch = k.batch
          /\ j.verdict = verdict /\ j.cur = k.cur
      BY <2>1, <2>4 DEF Jobs
    <2> HIDE DEF j
    <2>6. Course(j)
      BY <1>1, <2>1, <2>5 DEF Course
    <2>7. Moves(w) /\ job'[w] = j
      BY <2>3, <2>5, <2>6, Reassign
    <2>8. QED
      BY <1>1, <1>2, <2>1, <2>2, <2>4, <2>5, <2>7 DEF SameTask
  <1>3. CASE a \notin suppressed
    <2> DEFINE keys == job[w].keys \cup {a}
               j == [job[w] EXCEPT !.keys = keys, !.pc = "write", !.cur = Nobody]
    <2>1. job' = [job EXCEPT ![w] = j] /\ UNCHANGED missed
      BY <1>3 DEF InsertKey, Typed, TypeOK
    <2>2. keys \in SUBSET Addresses
      BY <1>1
    <2> HIDE DEF keys
    <2>3. /\ j \in Jobs /\ j.pc = "write" /\ j.kind = job[w].kind
          /\ j.list = job[w].list /\ j.rows = job[w].rows
          /\ j.batch = job[w].batch /\ j.verdict = job[w].verdict
          /\ j.held = job[w].held /\ j.keys = keys
      BY <1>1, <2>2 DEF Jobs
    <2> HIDE DEF j
    <2>4. Course(j)
      BY <1>1, <2>3 DEF Course
    <2>5. Moves(w) /\ job'[w] = j
      BY <2>1, <2>3, <2>4, Reassign
    <2>6. QED
      BY <1>1, <1>3, <2>1, <2>3, <2>5 DEF SameTask, keys
  <1>4. QED
    BY <1>2, <1>3

\* What a commit makes of contact c, of verdict v.
Written(c, v) ==
    CASE v = "lost" -> [c EXCEPT !.active = FALSE]
      [] v = "invalid" -> [c EXCEPT !.active = FALSE, !.result = "invalid"]
      [] OTHER -> [c EXCEPT !.result = v]

\* The verification commits a batch.
LEMMA CommitBatchEffect ==
    ASSUME Typed, NEW w \in Workers, CommitBatch(w)
    PROVE  /\ Moves(w) /\ SameTask(w)
           /\ job[w].pc = "write" /\ job[w].batch = {}
           /\ job'[w].rows = job[w].rows /\ job'[w].batch = {}
           /\ job'[w].held = {} /\ job'[w].keys = {}
           /\ job'[w].verdict = NoVerdict
           /\ \/ job'[w].pc = "probe"
              \/ job'[w].pc = "fail" /\ ~Exists(job[w].list)
           /\ job[w].held \subseteq Addresses /\ job[w].keys \subseteq Addresses
           /\ contact' = [a \in Addresses |->
                    IF a \in job[w].held THEN Written(contact[a], job[w].verdict[a])
                    ELSE contact[a]]
           /\ suppressed' = suppressed \cup job[w].keys
           /\ known' = known \cup job[w].keys
  <1>1. /\ job[w].pc = "write" /\ job[w].batch = {}
        /\ job[w] \in Jobs /\ job[w].kind = "verify" /\ job[w].list \in Lists
        /\ job[w].held \in SUBSET Addresses /\ job[w].keys \in SUBSET Addresses
    BY VerifyPhase DEF CommitBatch
  <1>2. PICK next \in {"probe", "fail"} :
            /\ next = "probe" \/ ~Exists(job[w].list)
            /\ job' = [job EXCEPT ![w] = [Rollback(@) EXCEPT
                            !.pc = next, !.verdict = NoVerdict]]
    BY DEF CommitBatch
  <1>3. contact' = [a \in Addresses |->
                    IF a \in job[w].held THEN Written(contact[a], job[w].verdict[a])
                    ELSE contact[a]]
    BY DEF CommitBatch, Written
  <1> DEFINE k == Rollback(job[w])
             j == [k EXCEPT !.pc = next, !.verdict = NoVerdict]
  <1>4. /\ k \in Jobs /\ k.held = {} /\ k.keys = {}
        /\ k.kind = job[w].kind /\ k.list = job[w].list
        /\ k.rows = job[w].rows /\ k.batch = job[w].batch
    BY <1>1, RolledBack
  <1>5. job' = [job EXCEPT ![w] = j]
    BY <1>2
  <1>6. NoVerdict \in [Addresses -> Verdicts \cup {"lost"}]
    BY DEF NoVerdict, Verdicts
  <1> HIDE DEF k
  <1>7. /\ j \in Jobs /\ j.held = k.held /\ j.keys = k.keys /\ j.pc = next
        /\ j.kind = k.kind /\ j.list = k.list
        /\ j.rows = k.rows /\ j.batch = k.batch /\ j.verdict = NoVerdict
    BY <1>2, <1>4, <1>6 DEF Jobs
  <1> HIDE DEF j
  <1>8. Course(j)
    BY <1>1, <1>2, <1>4, <1>7 DEF Course
  <1>9. Moves(w) /\ job'[w] = j
    BY <1>5, <1>7, <1>8, Reassign
  <1>10. suppressed' = suppressed \cup job[w].keys /\ known' = known \cup job[w].keys
    BY DEF CommitBatch
  <1>11. QED
    BY <1>1, <1>2, <1>3, <1>4, <1>7, <1>9, <1>10 DEF SameTask

\* The verification marks its list and ends.
LEMMA ConcludeEffect ==
    ASSUME Typed, NEW w \in Workers, Conclude(w)
    PROVE  /\ Moves(w) /\ job'[w] = Idle
           /\ job[w].kind = "verify" /\ job[w].list \in Lists
           /\ job[w].held = {}
           /\ job[w].pc \in {"probe", "fail"}
           /\ job[w].pc = "probe" => job[w].rows = {} /\ job[w].batch = {}
  BY Rests, VerifyPhase DEF Conclude

\* The verification is rolled back and is to report it.
LEMMA AbortedEffect ==
    ASSUME Typed, NEW w \in Workers, Aborted(w)
    PROVE  /\ Moves(w) /\ SameTask(w) /\ SameBatch(w)
           /\ job[w].kind = "verify" /\ job[w].list \in Lists
           /\ job'[w].pc = "fail" /\ job'[w].held = {} /\ job'[w].keys = {}
           /\ missed' = missed \cup Unwritten(w)
  <1>1. job[w].pc \in {"probe", "write", "flush", "key"}
    BY DEF Aborted, Struck
  <1>2. QED
    BY <1>1, Failing, VerifyPhase DEF Aborted

\* The verification ends with an exception.
LEMMA VerifyFailsEffect ==
    ASSUME Typed, NEW w \in Workers, VerifyFails(w)
    PROVE  /\ Moves(w) /\ job'[w] = Idle
           /\ job[w].kind = "verify" /\ job[w].list \in Lists
           /\ job[w].pc \in {"start", "fail"}
           /\ gaveUp' = gaveUp \cup {job[w].list}
  BY Rests, VerifyPhase DEF VerifyFails

\* A worker dies with a task.
LEMMA WorkerDiesEffect ==
    ASSUME Typed, NEW w \in Workers, WorkerDies(w)
    PROVE  /\ Moves(w) /\ job'[w] = Idle
           /\ job[w].kind \in {"import", "verify"} /\ job[w].list \in Lists
           /\ job[w].pc # "idle"
  <1>1. job[w] # Idle /\ Course(job[w])
    BY IdleWorker DEF WorkerDies, Typed
  <1>2. QED
    BY <1>1, Rests DEF WorkerDies, Course

-----------------------------------------------------------------------------
(* The steps of a request.                                                  *)

\* A deletion begins.
LEMMA DeleteListEffect ==
    ASSUME Typed, NEW q \in Requests, NEW l \in Lists, DeleteList(q, l)
    PROVE  Proceeds(q) /\ req'[q].pc = "cascade"
  <1> DEFINE c == Call("cascade", "delete", Nobody, l)
  <1>1. c \in Calls /\ c.pc = "cascade" /\ c.list = l
    BY CallFields
  <1>2. req' = [req EXCEPT ![q] = c]
    BY DEF DeleteList
  <1> HIDE DEF c
  <1>3. Asked(c)
    BY <1>1 DEF Asked
  <1>4. QED
    BY <1>1, <1>2, <1>3, Reply

\* A request looks at the suppressions.
LEMMA AskEffect ==
    ASSUME Typed, NEW q \in Requests, NEW a \in Addresses,
           NEW kind \in {"suppress", "remove", "add"},
           NEW l \in Lists \cup {NoList}, kind = "add" => l \in Lists,
           Ask(q, kind, a, l)
    PROVE  Proceeds(q) /\ req'[q].pc \in {"done", "add", "mark", "insert"}
  <1> DEFINE pc == IF kind = "add" THEN "add"
                   ELSE IF a \in suppressed THEN "mark" ELSE "insert"
             c == Call(pc, kind, a, l)
  <1>1. CASE kind = "add" /\ a \in suppressed
    BY <1>1, Answered DEF Ask
  <1>2. CASE ~(kind = "add" /\ a \in suppressed)
    <2>1. req' = [req EXCEPT ![q] = c]
      BY <1>2 DEF Ask
    <2>2. pc \in {"add", "mark", "insert"} /\ (pc = "add" => l \in Lists)
      OBVIOUS
    <2> HIDE DEF pc
    <2>3. c \in Calls /\ c.pc = pc /\ c.addr = a /\ c.list = l
      BY <2>2, CallFields
    <2> HIDE DEF c
    <2>4. Asked(c)
      BY <2>2, <2>3 DEF Asked
    <2>5. QED
      BY <2>1, <2>2, <2>3, <2>4, Reply
  <1>3. QED
    BY <1>1, <1>2

\* A request inserts a suppression.
LEMMA InsertSuppressionEffect ==
    ASSUME Typed, NEW q \in Requests, InsertSuppression(q)
    PROVE  Proceeds(q) /\ req'[q].pc = "mark"
  <1> DEFINE c == [req[q] EXCEPT !.pc = "mark"]
  <1>1. req[q] \in Calls /\ Asked(req[q]) /\ req[q].pc = "insert"
    BY DEF InsertSuppression, Typed, TypeOK
  <1>2. req' = [req EXCEPT ![q] = c]
    BY DEF InsertSuppression
  <1>3. c \in Calls /\ c.pc = "mark" /\ c.addr = req[q].addr
    BY <1>1 DEF Calls
  <1> HIDE DEF c
  <1>4. Asked(c)
    BY <1>1, <1>3 DEF Asked
  <1>5. QED
    BY <1>2, <1>3, <1>4, Reply

\* A request marks the contact, and locks its row.
LEMMA MarkEffect ==
    ASSUME Typed, NEW q \in Requests, Mark(q)
    PROVE  /\ Proceeds(q) /\ req'[q].pc = "commit"
           /\ req[q].addr \in Addresses /\ req'[q].addr = req[q].addr
           /\ req'[q].list = contact[req[q].addr].list
  <1> DEFINE l == contact[req[q].addr].list
             c == [req[q] EXCEPT !.pc = "commit", !.list = l]
  <1>1. req[q] \in Calls /\ Asked(req[q]) /\ req[q].pc = "mark"
    BY DEF Mark, Typed, TypeOK
  <1>2. req[q].addr \in Addresses
    BY <1>1 DEF Asked
  <1>3. l \in Lists \cup {NoList}
    BY <1>2 DEF Typed, TypeOK
  <1>4. req' = [req EXCEPT ![q] = c]
    BY DEF Mark, Typed, TypeOK
  <1> HIDE DEF l
  <1>5. c \in Calls /\ c.pc = "commit" /\ c.addr = req[q].addr /\ c.list = l
    BY <1>1, <1>3 DEF Calls
  <1> HIDE DEF c
  <1>6. Asked(c)
    BY <1>2, <1>5 DEF Asked
  <1>7. QED
    BY <1>2, <1>4, <1>5, <1>6, Reply DEF l

\* The four ways a request ends.
LEMMA EndEffect ==
    ASSUME Typed, NEW q \in Requests,
           CommitRequest(q) \/ Add(q) \/ Cascade(q) \/ RequestFails(q)
    PROVE  Proceeds(q) /\ req'[q].pc = "done"
  <1>1. req' = [req EXCEPT ![q] = Done]
    BY DEF CommitRequest, Add, Cascade, RequestFails
  <1>2. QED
    BY <1>1, Answered

-----------------------------------------------------------------------------
(* What a step may do to the contact rows and to their locks.               *)

\* The rest of the types, with the processes set apart.
RowsTyped ==
    /\ list \in [Lists -> [status : ListStatuses, imported : BOOLEAN]]
    /\ contact \in [Addresses -> [list : Lists \cup {NoList},
                                  active : BOOLEAN, result : Verdicts]]
    /\ \A a \in Addresses : contact[a].list = NoList => contact[a] = NoContact
    /\ \A a \in Addresses : contact[a].list # NoList =>
            list[contact[a].list].status \notin {"unused", "deleted"}
ElseTyped ==
    /\ suppressed \subseteq Addresses
    /\ mxcache \in [Addresses -> Verdicts \ {"unknown"}]
    /\ queue \in [Tasks -> Nat]
    /\ file \subseteq Lists
    /\ uploads \subseteq Lists
    /\ known \subseteq Addresses /\ missed \subseteq Addresses
    /\ manual \subseteq Addresses
    /\ gaveUp \subseteq Lists
    /\ faults \in 0 .. MaxFaults

\* The type invariant in parts: what is stored, and the processes.
LEMMA TypedParts ==
    Typed <=> /\ RowsTyped /\ ElseTyped
              /\ job \in [Workers -> Jobs] /\ \A w \in Workers : Course(job[w])
              /\ req \in [Requests -> Calls] /\ \A q \in Requests : Asked(req[q])
  BY DEF Typed, TypeOK, RowsTyped, ElseTyped

\* One step of one process, as far as the types of the processes go.
LEMMA ProcessesTyped ==
    ASSUME Typed, RowsTyped', ElseTyped',
           \/ UNCHANGED job
           \/ \E w \in Workers : Moves(w),
           \/ UNCHANGED req
           \/ \E q \in Requests : Proceeds(q)
    PROVE  Typed'
  <1>1. job' \in [Workers -> Jobs] /\ \A w \in Workers : Course(job'[w])
    BY DEF Moves, Typed, TypeOK
  <1>2. req' \in [Requests -> Calls] /\ \A q \in Requests : Asked(req'[q])
    BY DEF Proceeds, Typed, TypeOK
  <1>3. QED
    BY <1>1, <1>2 DEF Typed, TypeOK, RowsTyped, ElseTyped

\* No step but Flush and Mark locks a row, so the locks are as good as before
\* when the rows still locked stay in their lists.
LEMMA LocksKept ==
    ASSUME Typed, RowsLocked, Typed',
           \A w \in Workers : \A a \in job'[w].held :
                a \in job[w].held /\ job'[w].list = job[w].list,
           \A q \in Requests : (req'[q].pc = "commit" /\ req'[q].list # NoList) =>
                req[q].pc = "commit" /\ req'[q] = req[q],
           \A a \in Addresses : contact'[a].list = contact[a].list
                                    \/ RowHolders(a)' = {}
    PROVE  RowsLocked'
  <1>1. \A a \in Addresses : RowHolders(a)' \subseteq RowHolders(a)
    BY DEF RowHolders
  <1>2. ASSUME NEW w \in Workers, NEW a \in job'[w].held
        PROVE  contact'[a].list = job'[w].list
    <2>1. a \in Addresses /\ w \in RowHolders(a)'
      BY <1>2 DEF Typed, TypeOK, Jobs, RowHolders
    <2>2. contact[a].list = job[w].list
      BY <1>2 DEF RowsLocked
    <2>3. QED
      BY <1>2, <2>1, <2>2
  <1>3. ASSUME NEW q \in Requests, req'[q].pc = "commit", req'[q].list # NoList
        PROVE  contact'[req'[q].addr].list = req'[q].list
    <2>1. PICK a \in Addresses : a = req'[q].addr
      BY <1>3 DEF Typed, Asked
    <2>2. q \in RowHolders(a)'
      BY <1>3, <2>1 DEF RowHolders
    <2>3. contact[req[q].addr].list = req[q].list /\ req'[q] = req[q]
      BY <1>3 DEF RowsLocked
    <2>4. QED
      BY <2>1, <2>2, <2>3
  <1>4. \A a \in Addresses : \A x, y \in RowHolders(a)' : x = y
    BY <1>1 DEF RowsLocked
  <1>5. QED
    BY <1>2, <1>3, <1>4 DEF RowsLocked

\* The same for a worker that gives its locks up or keeps them.
LEMMA WorkerLocks ==
    ASSUME Typed, RowsLocked, Typed', UNCHANGED req,
           NEW w \in Workers, Moves(w),
           job'[w].held = {} \/ (job'[w].held = job[w].held /\ SameTask(w)),
           \A a \in Addresses : RowHolders(a) # {} =>
                contact'[a].list = contact[a].list
    PROVE  RowsLocked'
  <1>1. \A v \in Workers : \A a \in job'[v].held :
                a \in job[v].held /\ job'[v].list = job[v].list
    BY DEF Moves, SameTask
  <1>2. \A a \in Addresses : RowHolders(a)' \subseteq RowHolders(a)
    BY <1>1 DEF RowHolders
  <1>3. QED
    BY <1>1, <1>2, LocksKept

\* And for a request that moves and locks nothing.
LEMMA RequestLocks ==
    ASSUME Typed, RowsLocked, Typed', UNCHANGED job,
           NEW q \in Requests, Proceeds(q), req'[q].pc # "commit",
           \A a \in Addresses : contact'[a].list = contact[a].list
                                    \/ RowHolders(a) \subseteq {q}
    PROVE  RowsLocked'
  <1>1. \A p \in Requests : (req'[p].pc = "commit" /\ req'[p].list # NoList) =>
                req[p].pc = "commit" /\ req'[p] = req[p]
    BY DEF Proceeds
  <1>2. \A a \in Addresses : RowHolders(a)' \subseteq RowHolders(a) \ {q}
    BY <1>1, ContactStoreAssumption DEF RowHolders
  <1>3. QED
    BY <1>1, <1>2, LocksKept

\* Who locks the row of an address is there to be found in its list.
LEMMA HolderHasRow ==
    ASSUME Typed, RowsLocked, NEW a \in Addresses, RowHolders(a) # {}
    PROVE  contact[a].list \in Lists
  <1>1. CASE \E w \in Workers : a \in job[w].held
    <2>1. PICK w \in Workers : a \in job[w].held
      BY <1>1
    <2>2. job[w].list \in Lists
      BY <2>1, IdleWorker DEF Typed, Course
    <2>3. QED
      BY <2>1, <2>2 DEF RowsLocked
  <1>2. CASE \E q \in Requests : /\ req[q].pc = "commit" /\ req[q].addr = a
                                 /\ req[q].list # NoList
    BY <1>2 DEF RowsLocked, Typed, TypeOK, Calls
  <1>3. QED
    BY <1>1, <1>2 DEF RowHolders

\* The next commit of a worker is of rows that are there.
LEMMA HeldRow ==
    ASSUME Typed, RowsLocked, NEW w \in Workers, NEW a \in job[w].held
    PROVE  /\ a \in Addresses /\ job[w].list \in Lists
           /\ contact[a].list = job[w].list /\ contact[a] # NoContact
           /\ job[w].kind = "verify"
  <1>1. a \in Addresses
    BY DEF Typed, TypeOK, Jobs
  <1>2. job[w].kind = "verify" /\ job[w].list \in Lists
    BY IdleWorker DEF Typed, Course
  <1>3. contact[a].list = job[w].list
    BY DEF RowsLocked
  <1>4. QED
    BY <1>1, <1>2, <1>3, ContactStoreAssumption DEF NoContact

-----------------------------------------------------------------------------
(* Types and locks.                                                         *)

\* What is neither a process, nor a list, nor a contact keeps its type.
LEMMA RequestElse ==
    ASSUME Typed, NEW q \in Requests,
           NewRequest(q) \/ RequestStep(q) \/ RequestFails(q)
    PROVE  ElseTyped'
  <1>1. ElseTyped /\ req[q] \in Calls /\ Asked(req[q])
    BY TypedParts DEF Typed, TypeOK
  <1>2. ASSUME CommitRequest(q) \/ Add(q)
        PROVE  req[q].addr \in Addresses
    BY <1>1, <1>2 DEF CommitRequest, Add, Asked
  <1>3. CASE \/ NewRequest(q) \/ InsertSuppression(q) \/ Mark(q)
             \/ Cascade(q) \/ RequestFails(q)
    BY <1>1, <1>3, ContactStoreAssumption
       DEF NewRequest, DeleteList, Ask, InsertSuppression, Mark, Cascade,
           RequestFails, Fault, db, ghosts, ElseTyped
  <1>4. CASE CommitRequest(q)
    BY <1>1, <1>2, <1>4 DEF CommitRequest, ElseTyped
  <1>5. CASE Add(q)
    BY <1>1, <1>2, <1>5 DEF Add, ElseTyped
  <1>6. QED
    BY <1>3, <1>4, <1>5 DEF RequestStep

\* A queue of tasks, after one more or one less.
LEMMA QueueType ==
    ASSUME queue \in [Tasks -> Nat], NEW t \in Tasks,
           \/ queue' = [queue EXCEPT ![t] = @ + 1]
           \/ queue[t] > 0 /\ queue' = [queue EXCEPT ![t] = @ - 1]
    PROVE  queue' \in [Tasks -> Nat]
  OBVIOUS

\* An import keeps the types of all but rows and processes.
LEMMA ImportElse ==
    ASSUME Typed, NEW w \in Workers, ImportStep(w)
    PROVE  ElseTyped'
  <1>1. ElseTyped
    BY TypedParts
  <1>2. CASE \E l \in Lists : StartImport(w, l)
    <2>1. PICK l \in Lists : StartImport(w, l)
      BY <1>2
    <2>2. [kind |-> "import", list |-> l] \in Tasks
      BY DEF Tasks
    <2>3. queue' \in [Tasks -> Nat]
      BY <1>1, <2>1, <2>2, QueueType DEF StartImport, Take, ElseTyped
    <2>4. QED
      BY <1>1, <2>1, <2>3 DEF StartImport, OnlyImport, ElseTyped, web, db
  <1>3. CASE ReadRows(w) \/ EndOfFile(w) \/ Finalize(w) \/ RemoveFile(w)
    BY <1>1, <1>3 DEF ReadRows, EndOfFile, Finalize, RemoveFile,
                      OnlyImport, ElseTyped, web, db
  <1>4. CASE FlushBatch(w)
    BY <1>1, <1>4, FlushBatchEffect DEF FlushBatch, OnlyImport, ElseTyped, web
  <1>5. CASE FlushError(w) \/ ImportFails(w)
    <2>1. job[w].list \in Lists
      BY <1>5, ImportPhase DEF FlushError, ImportFails
    <2>2. QED
      BY <1>1, <1>5, <2>1, ContactStoreAssumption
         DEF FlushError, ImportFails, Fault, OnlyImport, ElseTyped, web, db
  <1>6. CASE Chain(w)
    <2>1. job[w].list \in Lists
      BY <1>6, ImportPhase DEF Chain
    <2>2. [kind |-> "verify", list |-> job[w].list] \in Tasks
      BY <2>1 DEF Tasks
    <2>3. queue' \in [Tasks -> Nat]
      BY <1>1, <1>6, <2>2, QueueType DEF Chain, Enqueue, ElseTyped
    <2>4. QED
      BY <1>1, <1>6, <2>3 DEF Chain, OnlyImport, ElseTyped, web, db
  <1>7. QED
    BY <1>2, <1>3, <1>4, <1>5, <1>6 DEF ImportStep

\* So does a verification.
LEMMA VerifyElse ==
    ASSUME Typed, NEW w \in Workers, VerifyStep(w)
    PROVE  ElseTyped'
  <1>1. ElseTyped
    BY TypedParts
  <1>2. CASE \E l \in Lists : StartVerify(w, l)
    <2>1. PICK l \in Lists : StartVerify(w, l)
      BY <1>2
    <2>2. [kind |-> "verify", list |-> l] \in Tasks
      BY DEF Tasks
    <2>3. queue' \in [Tasks -> Nat]
      BY <1>1, <2>1, <2>2, QueueType DEF StartVerify, Take, ElseTyped
    <2>4. QED
      BY <1>1, <2>1, <2>3 DEF StartVerify, OnlyVerify, ElseTyped, web, db
  <1>3. CASE ReadContacts(w) \/ (\E a \in Addresses : Load(w, a)) \/ Conclude(w)
    BY <1>1, <1>3 DEF ReadContacts, Load, Conclude, OnlyVerify, ElseTyped, web, db
  <1>4. CASE ProbeBatch(w)
    BY <1>1, <1>4, ProbeBatchEffect DEF ProbeBatch, OnlyVerify, ElseTyped, web, db
  <1>5. ASSUME job[w].pc \in {"start", "probe", "write", "flush", "key", "fail"}
        PROVE  /\ Unwritten(w) \subseteq Addresses /\ job[w].held \subseteq Addresses
               /\ job[w].keys \subseteq Addresses /\ job[w].list \in Lists
    <2>1. job[w] \in Jobs /\ job[w].list \in Lists
      BY <1>5, VerifyPhase
    <2>2. QED
      BY <2>1 DEF Unwritten, Jobs
  <1>6. CASE Flush(w)
    BY <1>1, <1>5, <1>6 DEF Flush, OnlyVerify, ElseTyped, web, db
  <1>7. CASE InsertKey(w)
    BY <1>1, <1>5, <1>7 DEF InsertKey, OnlyVerify, ElseTyped, web, db
  <1>8. CASE CommitBatch(w)
    BY <1>1, <1>5, <1>8 DEF CommitBatch, OnlyVerify, ElseTyped, web
  <1>9. CASE Aborted(w)
    BY <1>1, <1>5, <1>9, ContactStoreAssumption
       DEF Aborted, Struck, Fault, ElseTyped, web, db
  <1>10. CASE VerifyFails(w)
    BY <1>1, <1>5, <1>10, ContactStoreAssumption
       DEF VerifyFails, Fault, ElseTyped, web, db
  <1>11. QED
    BY <1>2, <1>3, <1>4, <1>6, <1>7, <1>8, <1>9, <1>10 DEF VerifyStep

\* So does a worker that dies.
LEMMA DiesElse ==
    ASSUME Typed, NEW w \in Workers, WorkerDies(w)
    PROVE  ElseTyped'
  <1>1. ElseTyped
    BY TypedParts
  <1>2. [kind |-> job[w].kind, list |-> job[w].list] \in Tasks
    BY WorkerDiesEffect DEF Tasks
  <1>3. queue' \in [Tasks -> Nat]
    BY <1>1, <1>2, QueueType DEF WorkerDies, Enqueue, ElseTyped
  <1>4. QED
    BY <1>1, <1>3, ContactStoreAssumption DEF WorkerDies, Fault, ElseTyped, web, db

\* So does an upload.
LEMMA UploadElse ==
    ASSUME Typed, NEW l \in Lists, Upload(l) \/ UploadEnqueue(l) \/ UploadDies(l)
    PROVE  ElseTyped'
  <1>1. ElseTyped
    BY TypedParts
  <1>2. CASE Upload(l) \/ UploadDies(l)
    BY <1>1, <1>2, ContactStoreAssumption
       DEF Upload, UploadDies, Fault, ElseTyped, ghosts, db
  <1>3. CASE UploadEnqueue(l)
    <2>1. [kind |-> "import", list |-> l] \in Tasks
      BY DEF Tasks
    <2>2. queue' \in [Tasks -> Nat]
      BY <1>1, <1>3, <2>1, QueueType DEF UploadEnqueue, Enqueue, ElseTyped
    <2>3. QED
      BY <1>1, <1>3, <2>2 DEF UploadEnqueue, ElseTyped, ghosts, db
  <1>4. QED
    BY <1>2, <1>3

\* The status of a list changes, and it keeps existing or begins to.
LEMMA StatusRows ==
    ASSUME Typed, UNCHANGED contact,
           list' \in [Lists -> [status : ListStatuses, imported : BOOLEAN]],
           \A l \in Lists : Exists(l) => Exists(l)'
    PROVE  RowsTyped'
  <1>1. RowsTyped
    BY TypedParts
  <1>2. QED
    BY <1>1 DEF RowsTyped, Exists

\* An upload keeps types and locks.
LEMMA UploadRows ==
    ASSUME Typed, RowsLocked, NEW l \in Lists,
           Upload(l) \/ UploadEnqueue(l) \/ UploadDies(l)
    PROVE  Typed' /\ RowsLocked'
  <1>1. RowsTyped /\ UNCHANGED <<contact, job, req>>
    BY TypedParts DEF Upload, UploadEnqueue, UploadDies, db, ghosts
  <1>2. RowsTyped'
    <2>1. CASE Upload(l)
      <3>1. /\ list' \in [Lists -> [status : ListStatuses, imported : BOOLEAN]]
            /\ \A k \in Lists : Exists(k) => Exists(k)'
        BY <1>1, <2>1 DEF Upload, RowsTyped, Exists, ListStatuses
      <3>2. QED
        BY <1>1, <3>1, StatusRows
    <2>2. CASE UploadEnqueue(l) \/ UploadDies(l)
      BY <1>1, <2>2 DEF UploadEnqueue, UploadDies, RowsTyped, db
    <2>3. QED
      BY <2>1, <2>2
  <1>3. Typed'
    BY <1>1, <1>2, UploadElse, ProcessesTyped
  <1>4. \A a \in Addresses : RowHolders(a)' = RowHolders(a)
    BY <1>1 DEF RowHolders
  <1>5. QED
    BY <1>1, <1>3, <1>4 DEF RowsLocked

\* A request that neither writes nor locks.
LEMMA QuietRequestRows ==
    ASSUME Typed, RowsLocked, NEW q \in Requests,
           NewRequest(q) \/ InsertSuppression(q) \/ RequestFails(q)
    PROVE  Typed' /\ RowsLocked'
  <1>1. Proceeds(q) /\ req'[q].pc # "commit"
    <2>1. CASE \E l \in Lists : DeleteList(q, l)
      BY <2>1, DeleteListEffect
    <2>2. CASE \E a \in Addresses, kind \in {"suppress", "remove"} :
                    Ask(q, kind, a, NoList)
      BY <2>2, AskEffect
    <2>3. CASE \E a \in Addresses, l \in Lists : Ask(q, "add", a, l)
      BY <2>3, AskEffect
    <2>4. CASE InsertSuppression(q) \/ RequestFails(q)
      BY <2>4, InsertSuppressionEffect, EndEffect
    <2>5. QED
      BY <2>1, <2>2, <2>3, <2>4 DEF NewRequest
  <1>2. RowsTyped /\ UNCHANGED <<list, contact, job>>
    BY TypedParts DEF NewRequest, DeleteList, Ask, InsertSuppression,
                      RequestFails, db
  <1>3. Typed'
    <2>1. ElseTyped'
      BY RequestElse DEF RequestStep
    <2>2. RowsTyped'
      BY <1>2 DEF RowsTyped
    <2>3. QED
      BY <1>1, <1>2, <2>1, <2>2, ProcessesTyped
  <1>4. QED
    BY <1>1, <1>2, <1>3, RequestLocks

\* A request that locks a row keeps types and locks.
LEMMA MarkRows ==
    ASSUME Typed, RowsLocked, NEW q \in Requests, Mark(q)
    PROVE  Typed' /\ RowsLocked'
  <1>1. /\ Proceeds(q) /\ req'[q].pc = "commit"
        /\ req[q].addr \in Addresses /\ req'[q].addr = req[q].addr
        /\ req'[q].list = contact[req[q].addr].list
    BY MarkEffect
  <1>2. RowsTyped /\ UNCHANGED <<list, contact, job>>
    BY TypedParts DEF Mark, db
  <1>3. Typed'
    <2>1. ElseTyped'
      BY RequestElse DEF RequestStep
    <2>2. RowsTyped'
      BY <1>2 DEF RowsTyped
    <2>3. QED
      BY <1>1, <1>2, <2>1, <2>2, ProcessesTyped
  <1>4. RowHolders(req[q].addr) = {}
    <2>1. q \notin Workers /\ req[q].pc = "mark" /\ WaitsFor(q) = {}
      BY ContactStoreAssumption DEF Mark
    <2>2. QED
      BY <2>1 DEF WaitsFor
  <1>5. \A a \in Addresses : RowHolders(a)' \subseteq
            RowHolders(a) \cup (IF a = req[q].addr THEN {q} ELSE {})
    BY <1>1, <1>2 DEF RowHolders, Proceeds
  <1>6. \A a \in Addresses : \A x, y \in RowHolders(a)' : x = y
    BY <1>4, <1>5 DEF RowsLocked
  <1>7. \A w \in Workers : \A a \in job'[w].held : contact'[a].list = job'[w].list
    BY <1>2 DEF RowsLocked
  <1>8. \A p \in Requests : (req'[p].pc = "commit" /\ req'[p].list # NoList) =>
            contact'[req'[p].addr].list = req'[p].list
    BY <1>1, <1>2 DEF RowsLocked, Proceeds
  <1>9. QED
    BY <1>3, <1>6, <1>7, <1>8 DEF RowsLocked

\* The commit of a request keeps types and locks.
LEMMA CommitRequestRows ==
    ASSUME Typed, RowsLocked, NEW q \in Requests, CommitRequest(q)
    PROVE  Typed' /\ RowsLocked'
  <1> DEFINE a == req[q].addr
  <1>1. /\ Proceeds(q) /\ req'[q].pc = "done"
        /\ req[q].pc = "commit" /\ a \in Addresses /\ UNCHANGED <<list, job>>
    BY EndEffect DEF CommitRequest, Typed, Asked
  <1>2. RowsTyped
    BY TypedParts
  <1>3. \/ UNCHANGED contact
        \/ req[q].list # NoList /\ contact' = [contact EXCEPT ![a] = NoContact]
        \/ req[q].list # NoList /\ contact' = [contact EXCEPT ![a].active = FALSE]
    BY DEF CommitRequest
  <1>4. RowsTyped'
    <2>1. CASE UNCHANGED contact
      BY <1>1, <1>2, <2>1 DEF RowsTyped
    <2>2. CASE contact' = [contact EXCEPT ![a] = NoContact]
      BY <1>1, <1>2, <2>2 DEF RowsTyped, NoContact, Verdicts
    <2>3. CASE /\ req[q].list # NoList
               /\ contact' = [contact EXCEPT ![a].active = FALSE]
      <3> DEFINE c == [contact[a] EXCEPT !.active = FALSE]
      <3>1. contact' = [contact EXCEPT ![a] = c]
        BY <2>3
      <3>2. /\ c \in [list : Lists \cup {NoList}, active : BOOLEAN, result : Verdicts]
            /\ c.list = contact[a].list
        BY <1>1, <1>2 DEF RowsTyped
      <3>3. contact[a].list # NoList
        BY <1>1, <2>3 DEF RowsLocked
      <3> HIDE DEF c
      <3>4. /\ contact'[a] = c
            /\ \A b \in Addresses \ {a} : contact'[b] = contact[b]
            /\ contact' \in [Addresses -> [list : Lists \cup {NoList},
                                          active : BOOLEAN, result : Verdicts]]
        BY <1>1, <1>2, <3>1, <3>2 DEF RowsTyped
      <3>5. ASSUME NEW b \in Addresses
            PROVE  /\ contact'[b].list = contact[b].list
                   /\ contact[b].list = NoList => contact'[b] = NoContact
        <4>1. CASE b = a
          BY <3>2, <3>3, <3>4, <4>1
        <4>2. CASE b # a
          BY <1>2, <3>4, <4>2 DEF RowsTyped
        <4>3. QED
          BY <4>1, <4>2
      <3>6. QED
        BY <1>1, <1>2, <3>4, <3>5 DEF RowsTyped
    <2>4. QED
      BY <1>3, <2>1, <2>2, <2>3
  <1>5. Typed'
    <2>1. ElseTyped'
      BY RequestElse DEF RequestStep
    <2>2. QED
      BY <1>1, <1>4, <2>1, ProcessesTyped
  <1>6. \A b \in Addresses : contact'[b].list = contact[b].list
                                \/ RowHolders(b) \subseteq {q}
    <2>1. CASE UNCHANGED contact \/ contact' = [contact EXCEPT ![a].active = FALSE]
      BY <1>1, <1>2, <2>1 DEF RowsTyped
    <2>2. CASE req[q].list # NoList /\ contact' = [contact EXCEPT ![a] = NoContact]
      <3>1. q \in RowHolders(a)
        BY <1>1, <2>2 DEF RowHolders
      <3>2. RowHolders(a) \subseteq {q}
        BY <1>1, <3>1 DEF RowsLocked
      <3>3. QED
        BY <1>1, <1>2, <2>2, <3>2 DEF RowsTyped
    <2>3. QED
      BY <1>3, <2>1, <2>2
  <1>7. QED
    BY <1>1, <1>5, <1>6, RequestLocks

\* A contact added by hand keeps types and locks.
LEMMA AddRows ==
    ASSUME Typed, RowsLocked, NEW q \in Requests, Add(q)
    PROVE  Typed' /\ RowsLocked'
  <1> DEFINE a == req[q].addr
             row == [list |-> req[q].list, active |-> TRUE, result |-> "pending"]
  <1>1. /\ Proceeds(q) /\ req'[q].pc = "done"
        /\ a \in Addresses /\ req[q].list \in Lists /\ UNCHANGED <<list, job>>
    BY EndEffect DEF Add, Typed, Asked
  <1>2. RowsTyped
    BY TypedParts
  <1>3. \/ UNCHANGED contact
        \/ /\ contact[a] = NoContact /\ Exists(req[q].list)
           /\ contact' = [contact EXCEPT ![a] = row]
    BY DEF Add
  <1>4. RowsTyped'
    <2>1. CASE UNCHANGED contact
      BY <1>1, <1>2, <2>1 DEF RowsTyped
    <2>2. CASE Exists(req[q].list) /\ contact' = [contact EXCEPT ![a] = row]
      BY <1>1, <1>2, <2>2, ContactStoreAssumption
         DEF RowsTyped, NoContact, Verdicts, Exists
    <2>3. QED
      BY <1>3, <2>1, <2>2
  <1>5. Typed'
    <2>1. ElseTyped'
      BY RequestElse DEF RequestStep
    <2>2. QED
      BY <1>1, <1>4, <2>1, ProcessesTyped
  <1>6. \A b \in Addresses : contact'[b].list = contact[b].list
                                \/ RowHolders(b) \subseteq {q}
    <2>1. contact[a] = NoContact => RowHolders(a) = {}
      BY <1>1, HolderHasRow, ContactStoreAssumption DEF NoContact
    <2>2. QED
      BY <1>1, <1>2, <1>3, <2>1 DEF RowsTyped
  <1>7. QED
    BY <1>1, <1>5, <1>6, RequestLocks

\* The deletion of a list keeps types and locks.
LEMMA CascadeRows ==
    ASSUME Typed, RowsLocked, NEW q \in Requests, Cascade(q)
    PROVE  Typed' /\ RowsLocked'
  <1> DEFINE l == req[q].list
  <1>1. /\ Proceeds(q) /\ req'[q].pc = "done" /\ req[q].pc = "cascade"
        /\ l \in Lists /\ UNCHANGED job
    BY EndEffect DEF Cascade, Typed, Asked
  <1>2. RowsTyped
    BY TypedParts
  <1>3. /\ list' = [list EXCEPT ![l] = [status |-> "deleted", imported |-> FALSE]]
        /\ \A a \in Addresses :
                contact'[a] = IF contact[a].list = l THEN NoContact ELSE contact[a]
        /\ contact' = [a \in Addresses |->
                IF contact[a].list = l THEN NoContact ELSE contact[a]]
    BY DEF Cascade, InList
  <1>4. RowsTyped'
    <2>1. list' \in [Lists -> [status : ListStatuses, imported : BOOLEAN]]
      BY <1>1, <1>2, <1>3 DEF RowsTyped, ListStatuses
    <2>2. contact' \in [Addresses -> [list : Lists \cup {NoList},
                                      active : BOOLEAN, result : Verdicts]]
      BY <1>2, <1>3 DEF RowsTyped, NoContact, Verdicts
    <2>3. ASSUME NEW a \in Addresses
          PROVE  /\ contact'[a].list = NoList => contact'[a] = NoContact
                 /\ contact'[a].list # NoList =>
                        list'[contact'[a].list].status \notin {"unused", "deleted"}
      <3>1. CASE contact[a].list = l
        BY <1>3, <3>1 DEF NoContact
      <3>2. CASE contact[a].list # l
        BY <1>1, <1>2, <1>3, <3>2 DEF RowsTyped
      <3>3. QED
        BY <3>1, <3>2
    <2>4. QED
      BY <2>1, <2>2, <2>3 DEF RowsTyped
  <1>5. Typed'
    <2>1. ElseTyped'
      BY RequestElse DEF RequestStep
    <2>2. QED
      BY <1>1, <1>4, <2>1, ProcessesTyped
  <1>6. \A a \in Addresses : contact[a].list = l => RowHolders(a) = {}
    <2>1. q \notin Workers /\ WaitsFor(q) = {}
      BY ContactStoreAssumption DEF Cascade
    <2>2. UNION {RowHolders(a) : a \in InList(l)} = {}
      BY <1>1, <2>1 DEF WaitsFor
    <2>3. QED
      BY <2>2 DEF InList
  <1>7. \A a \in Addresses : contact'[a].list = contact[a].list
                                \/ RowHolders(a) \subseteq {q}
    BY <1>3, <1>6
  <1>8. QED
    BY <1>1, <1>5, <1>7, RequestLocks

\* A worker's step that writes no contact and locks no row.
LEMMA QuietWorkerRows ==
    ASSUME Typed, RowsLocked, ElseTyped', NEW w \in Workers, Moves(w),
           UNCHANGED <<list, contact, req>>,
           job'[w].held = {} \/ (job'[w].held = job[w].held /\ SameTask(w))
    PROVE  Typed' /\ RowsLocked'
  <1>1. RowsTyped'
    BY TypedParts DEF RowsTyped
  <1>2. Typed'
    BY <1>1, ProcessesTyped
  <1>3. QED
    BY <1>2, WorkerLocks

\* A worker's step that changes the status of its list.
LEMMA MarkingRows ==
    ASSUME Typed, RowsLocked, ElseTyped', NEW w \in Workers, Moves(w),
           UNCHANGED <<contact, req>>, job'[w].held = {},
           list' \in [Lists -> [status : ListStatuses, imported : BOOLEAN]],
           \A l \in Lists : Exists(l) => Exists(l)'
    PROVE  Typed' /\ RowsLocked'
  <1>1. Typed'
    BY StatusRows, ProcessesTyped
  <1>2. QED
    BY <1>1, WorkerLocks

\* The insert of an import keeps types and locks.
LEMMA FlushBatchRows ==
    ASSUME Typed, RowsLocked, ElseTyped', NEW w \in Workers, FlushBatch(w)
    PROVE  Typed' /\ RowsLocked'
  <1> DEFINE new == job[w].pending \ job[w].skip
             row == [list |-> job[w].list, active |-> TRUE, result |-> "pending"]
  <1>1. /\ Moves(w) /\ job'[w].held = {} /\ job[w].list \in Lists
        /\ new # {} => Exists(job[w].list)
        /\ \A a \in new : contact[a] = NoContact
        /\ UNCHANGED <<list, req>>
    BY FlushBatchEffect, ImportPhase DEF Importing, FlushBatch, OnlyImport, web
  <1>2. contact' = [a \in Addresses |-> IF a \in new THEN row ELSE contact[a]]
    BY DEF FlushBatch
  <1>3. RowsTyped
    BY TypedParts
  <1>4. row \in [list : Lists \cup {NoList}, active : BOOLEAN, result : Verdicts]
        /\ row.list = job[w].list
    BY <1>1 DEF Verdicts
  <1> HIDE DEF row, new
  <1>5. RowsTyped'
    <2>1. contact' \in [Addresses -> [list : Lists \cup {NoList},
                                      active : BOOLEAN, result : Verdicts]]
      BY <1>2, <1>3, <1>4 DEF RowsTyped
    <2>2. ASSUME NEW a \in Addresses
          PROVE  /\ contact'[a].list = NoList => contact'[a] = NoContact
                 /\ contact'[a].list # NoList =>
                        list'[contact'[a].list].status \notin {"unused", "deleted"}
      <3>1. CASE a \in new
        BY <1>1, <1>2, <1>4, <3>1, ContactStoreAssumption DEF Exists
      <3>2. CASE a \notin new
        BY <1>1, <1>2, <1>3, <3>2 DEF RowsTyped
      <3>3. QED
        BY <3>1, <3>2
    <2>3. QED
      BY <1>1, <1>3, <2>1, <2>2 DEF RowsTyped
  <1>6. Typed'
    BY <1>1, <1>5, ProcessesTyped
  <1>7. \A a \in Addresses : RowHolders(a) # {} => contact'[a].list = contact[a].list
    <2>1. \A a \in Addresses : RowHolders(a) # {} => a \notin new
      BY <1>1, HolderHasRow, ContactStoreAssumption DEF NoContact
    <2>2. QED
      BY <1>2, <2>1
  <1>8. QED
    BY <1>1, <1>6, <1>7, WorkerLocks

\* A commit writes rows of its list, and leaves them there.
LEMMA WrittenRow ==
    ASSUME Typed, RowsLocked, NEW w \in Workers, NEW a \in job[w].held
    PROVE  LET c == Written(contact[a], job[w].verdict[a])
           IN /\ c \in [list : Lists \cup {NoList}, active : BOOLEAN,
                        result : Verdicts]
              /\ c.list = contact[a].list
              /\ c.result \in {contact[a].result, job[w].verdict[a]}
              /\ c.active \in {FALSE, contact[a].active}
              /\ job[w].verdict[a] = "invalid" => c.active = FALSE
              /\ job[w].verdict[a] # "lost" => c.result = job[w].verdict[a]
              /\ job[w].verdict[a] = "lost" => c.result = contact[a].result
  <1> DEFINE v == job[w].verdict[a]
             d == contact[a]
  <1>1. a \in Addresses
    BY HeldRow
  <1>2. /\ v \in Verdicts \cup {"lost"}
        /\ d \in [list : Lists \cup {NoList}, active : BOOLEAN, result : Verdicts]
    BY <1>1 DEF Typed, TypeOK, Jobs
  <1> HIDE DEF v, d
  <1>3. /\ Written(d, v) \in [list : Lists \cup {NoList}, active : BOOLEAN,
                              result : Verdicts]
        /\ Written(d, v).list = d.list
        /\ Written(d, v).result = (IF v = "lost" THEN d.result ELSE v)
        /\ Written(d, v).active =
                (IF v \in {"lost", "invalid"} THEN FALSE ELSE d.active)
    BY <1>2 DEF Written, Verdicts
  <1>4. QED
    BY <1>2, <1>3 DEF v, d

\* What a commit says of a contact.
LEMMA WrittenVerdict ==
    ASSUME Typed, RowsLocked, NEW w \in Workers, NEW a \in job[w].held,
           NEW c, c = Written(contact[a], job[w].verdict[a])
    PROVE  /\ c.list = contact[a].list
           /\ job[w].verdict[a] = "invalid" => c.active = FALSE
           /\ job[w].verdict[a] # "lost" => c.result = job[w].verdict[a]
           /\ job[w].verdict[a] = "lost" => c.result = contact[a].result
  BY WrittenRow

\* The commit of a batch of verdicts keeps types and locks.
LEMMA CommitBatchRows ==
    ASSUME Typed, RowsLocked, ElseTyped', NEW w \in Workers, CommitBatch(w)
    PROVE  Typed' /\ RowsLocked'
  <1>1. /\ Moves(w) /\ job'[w].held = {} /\ UNCHANGED <<list, req>>
    BY CommitBatchEffect DEF CommitBatch, OnlyVerify, web
  <1>2. contact' = [a \in Addresses |->
                    IF a \in job[w].held THEN Written(contact[a], job[w].verdict[a])
                    ELSE contact[a]]
    BY CommitBatchEffect
  <1>3. RowsTyped
    BY TypedParts
  <1>4. ASSUME NEW a \in Addresses
        PROVE  /\ contact'[a] \in [list : Lists \cup {NoList}, active : BOOLEAN,
                                   result : Verdicts]
               /\ contact'[a].list = contact[a].list
               /\ contact[a].list = NoList => contact'[a] = contact[a]
    <2>1. CASE a \in job[w].held
      <3> DEFINE c == Written(contact[a], job[w].verdict[a])
      <3>1. c \in [list : Lists \cup {NoList}, active : BOOLEAN, result : Verdicts]
            /\ c.list = contact[a].list
        BY <2>1, WrittenRow
      <3>2. contact'[a] = c
        BY <1>2, <2>1
      <3>3. contact[a].list # NoList
        BY <2>1, HeldRow, ContactStoreAssumption
      <3> HIDE DEF c
      <3>4. QED
        BY <3>1, <3>2, <3>3
    <2>2. CASE a \notin job[w].held
      BY <1>2, <1>3, <2>2 DEF RowsTyped
    <2>3. QED
      BY <2>1, <2>2
  <1>5. RowsTyped'
    BY <1>1, <1>2, <1>3, <1>4 DEF RowsTyped
  <1>6. Typed'
    BY <1>1, <1>5, ProcessesTyped
  <1>7. QED
    BY <1>1, <1>4, <1>6, WorkerLocks

\* The flush of a verdict keeps types and locks.
LEMMA FlushRows ==
    ASSUME Typed, RowsLocked, ElseTyped', NEW w \in Workers, Flush(w)
    PROVE  Typed' /\ RowsLocked'
  <1> DEFINE a == job[w].cur
  <1>1. /\ Moves(w) /\ SameTask(w) /\ job[w].pc = "flush" /\ a \in Addresses
        /\ UNCHANGED <<list, contact, req>>
    BY FlushEffect DEF Flush, OnlyVerify, web, db
  <1>2. CASE job'[w].held = {} \/ SameLocks(w)
    BY <1>1, <1>2, QuietWorkerRows DEF SameLocks
  <1>3. CASE Present(w, a) /\ job'[w].held = job[w].held \cup {a}
    <2>1. Typed'
      <3>1. RowsTyped'
        BY <1>1, TypedParts DEF RowsTyped
      <3>2. QED
        BY <1>1, <3>1, ProcessesTyped
    <2>2. RowHolders(a) \subseteq {w}
      <3>1. WaitsFor(w) = {}
        BY DEF Flush
      <3>2. QED
        BY <1>1, <3>1 DEF WaitsFor
    <2>3. \A b \in Addresses : RowHolders(b)' \subseteq
                RowHolders(b) \cup (IF b = a THEN {w} ELSE {})
      BY <1>1, <1>3 DEF RowHolders, Moves
    <2>4. \A b \in Addresses : \A x, y \in RowHolders(b)' : x = y
      BY <2>2, <2>3 DEF RowsLocked
    <2>5. \A v \in Workers : \A b \in job'[v].held : contact'[b].list = job'[v].list
      BY <1>1, <1>3 DEF RowsLocked, Moves, SameTask, Present
    <2>6. QED
      BY <1>1, <2>1, <2>4, <2>5 DEF RowsLocked
  <1>4. QED
    BY <1>2, <1>3, FlushEffect

\* Every step of an import keeps types and locks.
LEMMA ImportRows ==
    ASSUME Typed, RowsLocked, NEW w \in Workers, ImportStep(w)
    PROVE  Typed' /\ RowsLocked'
  <1>1. ElseTyped' /\ RowsTyped
    BY ImportElse, TypedParts
  <1>2. UNCHANGED req
    BY DEF ImportStep, StartImport, ReadRows, EndOfFile, FlushBatch, FlushError,
           Finalize, Chain, RemoveFile, ImportFails, OnlyImport, web
  <1>3. CASE \/ \E l \in Lists : StartImport(w, l)
             \/ ReadRows(w) \/ EndOfFile(w) \/ FlushError(w) \/ Chain(w)
             \/ RemoveFile(w) \/ ImportFails(w)
    <2>1. Importing(w)
      BY <1>3, StartImportEffect, ReadRowsEffect, EndOfFileEffect,
         FlushErrorEffect, ChainEffect, RemoveFileEffect, ImportFailsEffect
    <2>2. UNCHANGED <<list, contact>>
      BY <1>3 DEF StartImport, ReadRows, EndOfFile, FlushError, Chain,
                  RemoveFile, ImportFails, db
    <2>3. QED
      BY <1>1, <1>2, <2>1, <2>2, QuietWorkerRows DEF Importing
  <1>4. CASE FlushBatch(w)
    BY <1>1, <1>4, FlushBatchRows
  <1>5. CASE Finalize(w)
    <2>1. Moves(w) /\ job'[w].held = {} /\ UNCHANGED contact
          /\ job[w].list \in Lists
      BY <1>5, FinalizeEffect, ImportPhase DEF Importing, Finalize
    <2>2. /\ list' \in [Lists -> [status : ListStatuses, imported : BOOLEAN]]
          /\ \A l \in Lists : Exists(l) => Exists(l)'
      <3>1. PICK k \in Lists : k = job[w].list
        BY <2>1
      <3>2. UNCHANGED list \/ list' = [list EXCEPT ![k].imported = TRUE]
        BY <1>5, <3>1 DEF Finalize
      <3>3. list \in [Lists -> [status : ListStatuses, imported : BOOLEAN]]
        BY <1>1 DEF RowsTyped
      <3>4. CASE UNCHANGED list
        BY <3>3, <3>4 DEF Exists
      <3>5. CASE list' = [list EXCEPT ![k].imported = TRUE]
        <4>1. list' \in [Lists -> [status : ListStatuses, imported : BOOLEAN]]
          BY <3>3, <3>5
        <4>2. ASSUME NEW l \in Lists
              PROVE  list'[l].status = list[l].status
          <5>1. CASE l = k
            BY <3>3, <3>5, <5>1
          <5>2. CASE l # k
            BY <3>3, <3>5, <5>2
          <5>3. QED
            BY <5>1, <5>2
        <4>3. QED
          BY <4>1, <4>2 DEF Exists
      <3>6. QED
        BY <3>2, <3>4, <3>5
    <2>3. QED
      BY <1>1, <1>2, <2>1, <2>2, MarkingRows
  <1>6. QED
    BY <1>3, <1>4, <1>5 DEF ImportStep

\* Every step of a verification keeps types and locks.
LEMMA VerifyRows ==
    ASSUME Typed, RowsLocked, NEW w \in Workers, VerifyStep(w)
    PROVE  Typed' /\ RowsLocked'
  <1>1. ElseTyped' /\ RowsTyped
    BY VerifyElse, TypedParts
  <1>2. UNCHANGED req
    BY DEF VerifyStep, StartVerify, ReadContacts, ProbeBatch, Load, Flush,
           InsertKey, CommitBatch, Conclude, Aborted, VerifyFails, OnlyVerify, web
  <1>3. CASE \/ \E l \in Lists : StartVerify(w, l)
             \/ ProbeBatch(w) \/ (\E a \in Addresses : Load(w, a))
             \/ InsertKey(w) \/ Aborted(w) \/ VerifyFails(w)
    <2>1. Moves(w) /\ (job'[w].held = {} \/ (job'[w].held = job[w].held /\ SameTask(w)))
      <3>1. CASE (\E l \in Lists : StartVerify(w, l)) \/ ProbeBatch(w)
        BY <3>1, StartVerifyEffect, ProbeBatchEffect
      <3>2. CASE \E a \in Addresses : Load(w, a)
        BY <3>2, LoadEffect DEF SameLocks
      <3>3. CASE InsertKey(w)
        BY <3>3, InsertKeyEffect
      <3>4. CASE Aborted(w) \/ VerifyFails(w)
        BY <3>4, AbortedEffect, VerifyFailsEffect, IdleWorker
      <3>5. QED
        BY <1>3, <3>1, <3>2, <3>3, <3>4
    <2>2. UNCHANGED <<list, contact>>
      BY <1>3 DEF StartVerify, ProbeBatch, Load, InsertKey, Aborted, VerifyFails, db
    <2>3. QED
      BY <1>1, <1>2, <2>1, <2>2, QuietWorkerRows
  <1>4. CASE ReadContacts(w) \/ Conclude(w)
    <2>1. Moves(w) /\ job'[w].held = {} /\ UNCHANGED contact
          /\ job[w].list \in Lists
      BY <1>4, ReadContactsEffect, ConcludeEffect, VerifyPhase, IdleWorker
         DEF ReadContacts, Conclude
    <2>2. /\ list' \in [Lists -> [status : ListStatuses, imported : BOOLEAN]]
          /\ \A l \in Lists : Exists(l) => Exists(l)'
      BY <1>1, <1>4, <2>1 DEF ReadContacts, Conclude, RowsTyped, Exists, ListStatuses
    <2>3. QED
      BY <1>1, <1>2, <2>1, <2>2, MarkingRows
  <1>5. CASE CommitBatch(w)
    BY <1>1, <1>5, CommitBatchRows
  <1>6. CASE Flush(w)
    BY <1>1, <1>6, FlushRows
  <1>7. QED
    BY <1>3, <1>4, <1>5, <1>6 DEF VerifyStep

\* A worker that dies keeps types and locks.
LEMMA DiesRows ==
    ASSUME Typed, RowsLocked, NEW w \in Workers, WorkerDies(w)
    PROVE  Typed' /\ RowsLocked'
  <1>1. ElseTyped' /\ Moves(w) /\ job'[w].held = {}
    BY DiesElse, WorkerDiesEffect, IdleWorker
  <1>2. UNCHANGED <<list, contact, req>>
    BY DEF WorkerDies, db, web
  <1>3. QED
    BY <1>1, <1>2, QuietWorkerRows

\* Every step keeps types and locks.
LEMMA RowsStep ==
    ASSUME Typed, RowsLocked, [Next]_vars
    PROVE  Typed' /\ RowsLocked'
  <1>1. CASE \E l \in Lists : Upload(l) \/ UploadEnqueue(l) \/ UploadDies(l)
    BY <1>1, UploadRows
  <1>2. CASE \E q \in Requests : NewRequest(q) \/ RequestStep(q) \/ RequestFails(q)
    BY <1>2, QuietRequestRows, MarkRows, CommitRequestRows, AddRows, CascadeRows
       DEF RequestStep
  <1>3. CASE \E w \in Workers : WorkerStep(w) \/ WorkerDies(w)
    BY <1>3, ImportRows, VerifyRows, DiesRows DEF WorkerStep
  <1>4. CASE UNCHANGED vars
    <2>1. UNCHANGED <<list, contact, suppressed, mxcache, queue, file, job,
                      uploads, req, known, missed, manual, gaveUp, faults>>
      BY <1>4 DEF vars, db, web, ghosts
    <2>2. \A a \in Addresses : RowHolders(a)' = RowHolders(a)
      BY <2>1 DEF RowHolders
    <2>3. RowsLocked'
      BY <2>1, <2>2 DEF RowsLocked
    <2>4. RowsTyped' /\ ElseTyped'
      BY <2>1, TypedParts DEF RowsTyped, ElseTyped
    <2>5. QED
      BY <2>1, <2>3, <2>4, ProcessesTyped
  <1>5. QED
    BY <1>1, <1>2, <1>3, <1>4 DEF Next, Quiet

\* Types and locks are right at first.
LEMMA RowsInit ==
    ASSUME Init
    PROVE  Typed /\ RowsLocked
  <1> DEFINE new == Call("new", "none", Nobody, NoList)
  <1>1. new \in Calls /\ new.pc = "new" /\ Asked(new)
    BY CallFields DEF Asked
  <1>2. Idle \in Jobs /\ Course(Idle) /\ Idle.held = {}
    BY IdleWorker
  <1> HIDE DEF new
  <1>3. /\ job = [w \in Workers |-> Idle] /\ req = [q \in Requests |-> new]
        /\ \A w \in Workers : job[w] = Idle
        /\ \A q \in Requests : req[q] = new
    BY DEF Init, new
  <1>4. /\ job \in [Workers -> Jobs] /\ \A w \in Workers : Course(job[w])
        /\ req \in [Requests -> Calls] /\ \A q \in Requests : Asked(req[q])
    BY <1>1, <1>2, <1>3
  <1>5. RowsTyped
    BY DEF Init, RowsTyped, NoContact, Verdicts, ListStatuses
  <1>6. ElseTyped
    BY ContactStoreAssumption DEF Init, ElseTyped, Verdicts
  <1>7. Typed
    BY <1>4, <1>5, <1>6, TypedParts
  <1>8. \A a \in Addresses : RowHolders(a) = {}
    BY <1>1, <1>2, <1>3 DEF RowHolders
  <1>9. RowsLocked
    BY <1>1, <1>2, <1>3, <1>8 DEF RowsLocked
  <1>10. QED
    BY <1>7, <1>9

\* The state has its types in every behaviour, and a contact row is locked by
\* one transaction at a time and never leaves its list meanwhile: the row
\* locks of suppress_sync, of the verdicts and of the deletion of a list.
THEOREM RowsSafe == Spec => [](Typed /\ RowsLocked)
  <1>1. Init => Typed /\ RowsLocked
    BY RowsInit
  <1>2. Typed /\ RowsLocked /\ [Next]_vars => Typed' /\ RowsLocked'
    BY RowsStep
  <1>3. QED
    BY <1>1, <1>2, PTL DEF Spec

\* Every contact belongs to a list that exists, and the rest of TypeOK.
THEOREM TypeCorrect == Spec => []TypeOK
  <1>1. Typed => TypeOK
    BY DEF Typed
  <1>2. QED
    BY <1>1, RowsSafe, PTL

-----------------------------------------------------------------------------
(* Verdicts: of dead domains only, and together with their suppression.     *)

\* No contact becomes invalid, and none that is becomes active.
NoNewVerdict ==
    \A a \in Addresses : contact'[a].result = "invalid" =>
        contact[a].result = "invalid" /\ (~contact[a].active => ~contact'[a].active)

\* Of all steps, only a commit of a verification writes a verdict.
LEMMA RequestVerdicts ==
    ASSUME Typed, NEW q \in Requests,
           NewRequest(q) \/ RequestStep(q) \/ RequestFails(q)
    PROVE  NoNewVerdict /\ suppressed \subseteq suppressed'
  <1>1. Asked(req[q])
        /\ contact \in [Addresses -> [list : Lists \cup {NoList},
                                      active : BOOLEAN, result : Verdicts]]
    BY DEF Typed, TypeOK
  <1>2. CASE NewRequest(q) \/ InsertSuppression(q) \/ Mark(q) \/ RequestFails(q)
    BY <1>2 DEF NewRequest, DeleteList, Ask, InsertSuppression, Mark,
                RequestFails, db, NoNewVerdict
  <1>3. CASE CommitRequest(q)
    <2>1. req[q].addr \in Addresses
      BY <1>1, <1>3 DEF CommitRequest, Asked
    <2>2. CASE UNCHANGED contact
      BY <1>3, <2>2 DEF CommitRequest, NoNewVerdict
    <2>3. CASE contact' = [contact EXCEPT ![req[q].addr] = NoContact]
      BY <1>1, <1>3, <2>1, <2>3 DEF CommitRequest, NoNewVerdict, NoContact
    <2>4. CASE contact' = [contact EXCEPT ![req[q].addr].active = FALSE]
      BY <1>1, <1>3, <2>1, <2>4 DEF CommitRequest, NoNewVerdict
    <2>5. QED
      BY <1>3, <2>2, <2>3, <2>4 DEF CommitRequest
  <1>4. CASE Add(q)
    <2>1. req[q].addr \in Addresses
      BY <1>1, <1>4 DEF Add, Asked
    <2>2. QED
      BY <1>1, <1>4, <2>1 DEF Add, NoNewVerdict
  <1>5. CASE Cascade(q)
    BY <1>1, <1>5 DEF Cascade, NoNewVerdict, NoContact
  <1>6. QED
    BY <1>2, <1>3, <1>4, <1>5 DEF RequestStep

\* The workers make no contact invalid but with a commit.
LEMMA WorkerVerdicts ==
    ASSUME Typed, NEW w \in Workers, WorkerStep(w) \/ WorkerDies(w),
           ~CommitBatch(w)
    PROVE  NoNewVerdict /\ UNCHANGED suppressed
  <1>1. UNCHANGED suppressed
    BY DEF WorkerStep, WorkerDies, ImportStep, VerifyStep, StartImport, ReadRows,
       EndOfFile, FlushBatch, FlushError, Finalize, Chain, RemoveFile,
       ImportFails, StartVerify, ReadContacts, ProbeBatch, Load, Flush,
       InsertKey, Conclude, Aborted, VerifyFails, OnlyImport, db
  <1>2. CASE FlushBatch(w)
    <2>1. ASSUME NEW a \in Addresses
          PROVE  contact'[a] = contact[a] \/ contact'[a].result = "pending"
      BY <1>2 DEF FlushBatch
    <2>2. QED
      BY <1>1, <2>1 DEF NoNewVerdict
  <1>3. CASE ~FlushBatch(w)
    <2>1. UNCHANGED contact
      BY <1>3 DEF WorkerStep, WorkerDies, ImportStep, VerifyStep, StartImport,
         ReadRows, EndOfFile, FlushError, Finalize, Chain, RemoveFile,
         ImportFails, StartVerify, ReadContacts, ProbeBatch, Load, Flush,
         InsertKey, Conclude, Aborted, VerifyFails, db
    <2>2. QED
      BY <1>1, <2>1 DEF NoNewVerdict
  <1>4. QED
    BY <1>2, <1>3

\* The verdicts in hand become no worse, but for a batch of answers.
NoNewAnswer ==
    \A w \in Workers : \A a \in Addresses :
        job'[w].verdict[a] = "invalid" => job[w].verdict[a] = "invalid"

\* Only a probe gives a worker answers.
LEMMA Answers ==
    ASSUME Typed, NEW w \in Workers, WorkerStep(w) \/ WorkerDies(w),
           ~ProbeBatch(w)
    PROVE  NoNewAnswer /\ UNCHANGED mxcache
  <1>1. UNCHANGED mxcache
    BY DEF WorkerStep, WorkerDies, ImportStep, VerifyStep, StartImport, ReadRows,
       EndOfFile, FlushBatch, FlushError, Finalize, Chain, RemoveFile,
       ImportFails, StartVerify, ReadContacts, Load, Flush, CommitBatch,
       InsertKey, Conclude, Aborted, VerifyFails, OnlyImport
  <1>2. \A a \in Addresses : NoVerdict[a] # "invalid"
    BY DEF NoVerdict
  <1>3. Moves(w) /\ \A a \in Addresses :
            job'[w].verdict[a] = "invalid" => job[w].verdict[a] = "invalid"
    <2>1. CASE ImportStep(w)
      <3>1. Importing(w)
        BY <2>1, StartImportEffect, ReadRowsEffect, EndOfFileEffect,
           FlushBatchEffect, FlushErrorEffect, FinalizeEffect, ChainEffect,
           RemoveFileEffect, ImportFailsEffect DEF ImportStep
      <3>2. QED
        BY <1>2, <3>1 DEF Importing
    <2>2. CASE WorkerDies(w) \/ Conclude(w) \/ VerifyFails(w)
      BY <1>2, <2>2, WorkerDiesEffect, ConcludeEffect, VerifyFailsEffect, IdleWorker
    <2>3. CASE (\E l \in Lists : StartVerify(w, l)) \/ ReadContacts(w)
      BY <1>2, <2>3, StartVerifyEffect, ReadContactsEffect
    <2>4. CASE \/ \E a \in Addresses : Load(w, a)
               \/ Flush(w) \/ Aborted(w) \/ CommitBatch(w)
      BY <1>2, <2>4, LoadEffect, FlushEffect, AbortedEffect, CommitBatchEffect
         DEF SameBatch
    <2>5. CASE InsertKey(w)
      <3>1. Moves(w) /\ job[w].cur \in Addresses
        BY <2>5, InsertKeyEffect
      <3>2. \/ job'[w].verdict = job[w].verdict
            \/ /\ job'[w].verdict[job[w].cur] = "lost"
               /\ \A b \in Addresses \ {job[w].cur} :
                        job'[w].verdict[b] = job[w].verdict[b]
        BY <2>5, InsertKeyEffect
      <3>3. QED
        BY <3>1, <3>2
    <2>6. QED
      BY <2>1, <2>2, <2>3, <2>4, <2>5 DEF WorkerStep, VerifyStep
  <1>4. QED
    BY <1>1, <1>3 DEF NoNewAnswer, Moves

\* DeadOnly, from one state to the next.
LEMMA DeadKept ==
    ASSUME DeadOnly, UNCHANGED mxcache, NoNewAnswer,
           \A a \in Addresses : contact'[a].result = "invalid" =>
                \/ contact[a].result = "invalid"
                \/ \E w \in Workers : job[w].verdict[a] = "invalid"
    PROVE  DeadOnly'
  BY DEF DeadOnly, OnlyDeadDomains, NoNewAnswer

\* Every step keeps to dead domains.
LEMMA DeadStep ==
    ASSUME Typed, RowsLocked, DeadOnly, [Next]_vars
    PROVE  DeadOnly'
  <1>1. CASE \E q \in Requests : NewRequest(q) \/ RequestStep(q) \/ RequestFails(q)
    <2>1. PICK q \in Requests : NewRequest(q) \/ RequestStep(q) \/ RequestFails(q)
      BY <1>1
    <2>2. NoNewVerdict
      BY <2>1, RequestVerdicts
    <2>3. UNCHANGED <<mxcache, job>>
      BY <2>1 DEF NewRequest, DeleteList, Ask, RequestStep, InsertSuppression,
                  Mark, CommitRequest, Add, Cascade, RequestFails
    <2>4. QED
      BY <2>2, <2>3, DeadKept DEF NoNewVerdict, NoNewAnswer
  <1>2. CASE (\E l \in Lists : Upload(l) \/ UploadEnqueue(l) \/ UploadDies(l))
             \/ UNCHANGED vars
    <2>1. UNCHANGED <<mxcache, job, contact>>
      BY <1>2 DEF Upload, UploadEnqueue, UploadDies, db, vars
    <2>2. QED
      BY <2>1 DEF DeadOnly, OnlyDeadDomains
  <1>3. ASSUME NEW w \in Workers, WorkerStep(w) \/ WorkerDies(w)
        PROVE  DeadOnly'
    <2>1. CASE ProbeBatch(w)
      <3>1. ASSUME NEW a \in job'[w].batch
            PROVE  a \in Addresses
                   /\ (job'[w].verdict[a] = "invalid" => a \in DeadDomains)
        <4>1. job'[w].verdict[a] \in DomainStatus(a) /\ a \in Addresses
          BY <2>1, <3>1, ProbeBatchEffect, VerifyPhase DEF ProbeBatch
        <4>2. QED
          BY <4>1 DEF DomainStatus, Resolve, DeadOnly
      <3>2. ASSUME NEW a \in Addresses
            PROVE  job'[w].verdict[a] = "invalid" => a \in DeadDomains
        BY <2>1, <3>1, ProbeBatchEffect
      <3>3. \A a \in Addresses : mxcache'[a] = "invalid" => a \in DeadDomains
        BY <2>1, <3>1, ProbeBatchEffect DEF DeadOnly
      <3>4. Moves(w) /\ UNCHANGED contact
        BY <2>1, ProbeBatchEffect DEF ProbeBatch, db
      <3>5. QED
        BY <3>2, <3>3, <3>4 DEF DeadOnly, OnlyDeadDomains, Moves
    <2>2. CASE CommitBatch(w)
      <3>1. ASSUME NEW a \in Addresses, contact'[a].result = "invalid"
            PROVE  contact[a].result = "invalid" \/ job[w].verdict[a] = "invalid"
        <4>1. CASE a \in job[w].held
          <5>1. contact'[a] = Written(contact[a], job[w].verdict[a])
            BY <2>2, <4>1, CommitBatchEffect
          <5>2. QED
            BY <3>1, <4>1, <5>1, WrittenRow
        <4>2. CASE a \notin job[w].held
          BY <2>2, <3>1, <4>2, CommitBatchEffect
        <4>3. QED
          BY <4>1, <4>2
      <3>2. NoNewAnswer /\ UNCHANGED mxcache
        BY <1>3, <2>2, Answers DEF CommitBatch, ProbeBatch
      <3>3. QED
        BY <3>1, <3>2, DeadKept
    <2>3. CASE ~ProbeBatch(w) /\ ~CommitBatch(w)
      BY <1>3, <2>3, Answers, WorkerVerdicts, DeadKept DEF NoNewVerdict
    <2>4. QED
      BY <2>1, <2>2, <2>3
  <1>4. QED
    BY <1>1, <1>2, <1>3 DEF Next, Quiet

\* OnlyDeadDomains in every behaviour: whatever timed out, was cached or was
\* asked for another list meanwhile, an address is called invalid only if DNS
\* denied its domain.
THEOREM OnlyDeadDomainsHolds == Spec => []OnlyDeadDomains
  <1>1. Init => DeadOnly
    BY IdleWorker DEF Init, DeadOnly, OnlyDeadDomains, NoVerdict, NoContact
  <1>2. Typed /\ RowsLocked /\ DeadOnly /\ [Next]_vars => DeadOnly'
    BY DeadStep
  <1>3. DeadOnly => OnlyDeadDomains
    BY DEF DeadOnly
  <1>4. QED
    BY <1>1, <1>2, <1>3, RowsSafe, PTL DEF Spec

\* SuppressedWithVerdict, from one state to the next, but for the moves that
\* touch a row or a key.
LEMMA SuppressedKept ==
    ASSUME SuppressedWithVerdict, NoNewVerdict, suppressed \subseteq suppressed',
           \A w \in Workers :
                \/ job'[w].held = {}
                \/ job'[w] = job[w]
    PROVE  SuppressedWithVerdict'
  BY DEF SuppressedWithVerdict, InvalidIsSuppressed, NoNewVerdict

\* Every step suppresses what it calls invalid.
LEMMA SuppressedStep ==
    ASSUME Typed, RowsLocked, SuppressedWithVerdict, [Next]_vars
    PROVE  SuppressedWithVerdict'
  <1>1. CASE \E q \in Requests : NewRequest(q) \/ RequestStep(q) \/ RequestFails(q)
    <2>1. PICK q \in Requests : NewRequest(q) \/ RequestStep(q) \/ RequestFails(q)
      BY <1>1
    <2>2. UNCHANGED job
      BY <2>1 DEF NewRequest, DeleteList, Ask, RequestStep, InsertSuppression,
                  Mark, CommitRequest, Add, Cascade, RequestFails
    <2>3. QED
      BY <2>1, <2>2, RequestVerdicts, SuppressedKept
  <1>2. CASE (\E l \in Lists : Upload(l) \/ UploadEnqueue(l) \/ UploadDies(l))
             \/ UNCHANGED vars
    <2>1. UNCHANGED <<suppressed, job, contact>>
      BY <1>2 DEF Upload, UploadEnqueue, UploadDies, db, vars
    <2>2. QED
      BY <2>1 DEF SuppressedWithVerdict, InvalidIsSuppressed
  <1>3. ASSUME NEW w \in Workers, WorkerStep(w) \/ WorkerDies(w), ~CommitBatch(w),
               Moves(w), job'[w].held = {}
        PROVE  SuppressedWithVerdict'
    BY <1>3, WorkerVerdicts, SuppressedKept DEF Moves
  <1>4. ASSUME NEW w \in Workers, WorkerStep(w) \/ WorkerDies(w), ~CommitBatch(w),
               Moves(w),
               \A a \in job'[w].held : job'[w].verdict[a] = "invalid" =>
                    \/ a \in suppressed \cup job'[w].keys
                    \/ job'[w].pc = "key" /\ job'[w].cur = a
        PROVE  SuppressedWithVerdict'
    <2>1. NoNewVerdict /\ UNCHANGED suppressed
      BY <1>4, WorkerVerdicts
    <2>2. QED
      BY <1>4, <2>1
         DEF SuppressedWithVerdict, InvalidIsSuppressed, NoNewVerdict, Moves
  <1>5. ASSUME NEW w \in Workers, CommitBatch(w)
        PROVE  SuppressedWithVerdict'
    <2>1. /\ Moves(w) /\ job'[w].held = {}
          /\ suppressed' = suppressed \cup job[w].keys
          /\ job[w].pc = "write"
      BY <1>5, CommitBatchEffect
    <2>2. ASSUME NEW a \in Addresses, contact'[a].result = "invalid"
          PROVE  a \in suppressed' /\ ~contact'[a].active
      <3>1. CASE a \in job[w].held
        <4>1. contact'[a] = Written(contact[a], job[w].verdict[a])
          BY <1>5, <3>1, CommitBatchEffect
        <4>2. CASE job[w].verdict[a] = "invalid"
          <5>1. ~contact'[a].active
            <6>1. contact'[a].active = FALSE
              BY <3>1, <4>1, <4>2, WrittenVerdict
            <6>2. QED
              BY <6>1
          <5>2. a \in suppressed \cup job[w].keys
            BY <2>1, <3>1, <4>2 DEF SuppressedWithVerdict
          <5>3. QED
            BY <2>1, <5>1, <5>2
        <4>3. CASE job[w].verdict[a] # "invalid"
          <5>1. contact[a].result = "invalid"
            BY <2>2, <3>1, <4>1, <4>3, WrittenRow
          <5>2. a \in suppressed /\ ~contact[a].active
            BY <5>1 DEF SuppressedWithVerdict, InvalidIsSuppressed
          <5>3. contact'[a].active \in {FALSE, contact[a].active}
            BY <3>1, <4>1, WrittenRow
          <5>4. ~contact'[a].active
            BY <5>2, <5>3
          <5>5. QED
            BY <2>1, <5>2, <5>4
        <4>4. QED
          BY <4>2, <4>3
      <3>2. CASE a \notin job[w].held
        <4>1. contact'[a] = contact[a]
          BY <1>5, <3>2, CommitBatchEffect
        <4>2. QED
          BY <2>1, <2>2, <4>1 DEF SuppressedWithVerdict, InvalidIsSuppressed
      <3>3. QED
        BY <3>1, <3>2
    <2>3. QED
      BY <2>1, <2>2 DEF SuppressedWithVerdict, InvalidIsSuppressed, Moves
  <1>6. ASSUME NEW w \in Workers, WorkerStep(w) \/ WorkerDies(w), ~CommitBatch(w)
        PROVE  SuppressedWithVerdict'
    <2>1. CASE ImportStep(w)
      <3>1. Importing(w)
        BY <2>1, StartImportEffect, ReadRowsEffect, EndOfFileEffect,
           FlushBatchEffect, FlushErrorEffect, FinalizeEffect, ChainEffect,
           RemoveFileEffect, ImportFailsEffect DEF ImportStep
      <3>2. QED
        BY <1>3, <1>6, <3>1 DEF Importing
    <2>2. CASE WorkerDies(w) \/ Conclude(w) \/ VerifyFails(w) \/ Aborted(w)
      BY <1>3, <1>6, <2>2, WorkerDiesEffect, ConcludeEffect, VerifyFailsEffect,
         AbortedEffect, IdleWorker
    <2>3. CASE \/ \E l \in Lists : StartVerify(w, l)
               \/ ReadContacts(w) \/ ProbeBatch(w)
      BY <1>3, <1>6, <2>3, StartVerifyEffect, ReadContactsEffect, ProbeBatchEffect
    <2>4. CASE \E a \in Addresses : Load(w, a)
      <3>1. /\ Moves(w) /\ job[w].pc = "write"
            /\ job'[w].held = job[w].held /\ job'[w].keys = job[w].keys
            /\ job'[w].verdict = job[w].verdict
        BY <2>4, LoadEffect DEF SameLocks
      <3>2. QED
        BY <1>4, <1>6, <3>1 DEF SuppressedWithVerdict
    <2>5. CASE Flush(w)
      <3>1. /\ Moves(w) /\ job[w].pc = "flush"
            /\ job'[w].verdict = job[w].verdict
            /\ \/ job'[w].held = {}
               \/ job'[w].held = job[w].held /\ job'[w].keys = job[w].keys
               \/ /\ job'[w].held = job[w].held \cup {job[w].cur}
                  /\ job'[w].keys = job[w].keys
                  /\ job[w].verdict[job[w].cur] = "invalid" =>
                        \/ job[w].cur \in suppressed
                        \/ job'[w].pc = "key" /\ job'[w].cur = job[w].cur
        BY <2>5, FlushEffect DEF SameLocks
      <3>2. QED
        BY <1>4, <1>6, <3>1 DEF SuppressedWithVerdict
    <2>6. CASE InsertKey(w)
      <3>1. /\ Moves(w) /\ job[w].pc = "key"
            /\ \/ job'[w].held = {}
               \/ /\ job'[w].held = job[w].held /\ job'[w].verdict = job[w].verdict
                  /\ job'[w].keys = job[w].keys \cup {job[w].cur}
        BY <2>6, InsertKeyEffect
      <3>2. QED
        BY <1>4, <1>6, <3>1 DEF SuppressedWithVerdict
    <2>7. QED
      BY <1>6, <2>1, <2>2, <2>3, <2>4, <2>5, <2>6 DEF WorkerStep, VerifyStep
  <1>7. QED
    BY <1>1, <1>2, <1>5, <1>6 DEF Next, Quiet, WorkerStep

\* InvalidIsSuppressed in every behaviour: the verdict, the suppression and the
\* status are written together or not at all, whoever else suppresses the
\* address, deletes its list or dies meanwhile.
THEOREM InvalidIsSuppressedHolds == Spec => []InvalidIsSuppressed
  <1>1. Init => SuppressedWithVerdict
    BY IdleWorker DEF Init, SuppressedWithVerdict, InvalidIsSuppressed, NoContact
  <1>2. Typed /\ RowsLocked /\ SuppressedWithVerdict /\ [Next]_vars
            => SuppressedWithVerdict'
    BY SuppressedStep
  <1>3. SuppressedWithVerdict => InvalidIsSuppressed
    BY DEF SuppressedWithVerdict
  <1>4. QED
    BY <1>1, <1>2, <1>3, RowsSafe, PTL DEF Spec

-----------------------------------------------------------------------------
(* What an import keeps.                                                    *)

\* An address of the first n rows has a first row among them.
LEMMA FirstRow ==
    ASSUME NEW l \in Lists, NEW n \in 0 .. Len(FileOf[l]), NEW b \in RowsUpTo(l, n)
    PROVE  \E i \in 1 .. n : FileOf[l][i] = b /\ b \notin RowsUpTo(l, i - 1)
  <1> DEFINE S == {i \in 1 .. n : FileOf[l][i] = b}
  <1>1. FileOf[l] \in Seq(Addresses \cup {BadRow})
    BY ContactStoreAssumption
  <1>2. S \subseteq Nat /\ S # {} /\ n \in Nat
    BY <1>1 DEF RowsUpTo
  <1>3. IsWellFoundedOn(OpToRel(<, Nat), Nat)
    BY NatLessThanWellFounded
  <1>4. PICK i \in S : \A m \in S : <<m, i>> \notin OpToRel(<, Nat)
    BY <1>2, <1>3, WFMin
  <1>5. \A m \in S : ~(m < i)
    BY <1>2, <1>4 DEF OpToRel
  <1>6. b \notin RowsUpTo(l, i - 1)
    <2>1. SUFFICES ASSUME b \in RowsUpTo(l, i - 1) PROVE FALSE
      OBVIOUS
    <2>2. PICK m \in 1 .. i - 1 : FileOf[l][m] = b
      BY <2>1 DEF RowsUpTo
    <2>3. i \in 1 .. n /\ n \in Nat
      BY <1>2, <1>4
    <2>4. m \in 1 .. n /\ m < i
      BY <2>2, <2>3
    <2>5. QED
      BY <1>5, <2>2, <2>4
  <1>7. QED
    BY <1>4, <1>6

\* Reading on to row n, an import misses no row it wants.
LEMMA ReadOn ==
    ASSUME Typed, NEW w \in Workers, job[w].pc = "rows",
           NEW n \in 0 .. Len(FileOf[job[w].list]), job[w].pos <= n,
           KeepsRows(job[w])
    PROVE  Wanted(job[w].list) \cap RowsUpTo(job[w].list, n)
                \subseteq known \cup PendingAt(w, n)
  <1> DEFINE l == job[w].list
  <1>1. l \in Lists /\ job[w].pos \in Nat
    BY ImportPhase
  <1>2. Wanted(l) \cap RowsUpTo(l, job[w].pos) \subseteq known \cup job[w].pending
    BY <1>1 DEF KeepsRows, ReadBy
  <1>3. ASSUME NEW b \in Wanted(l) \cap RowsUpTo(l, n)
        PROVE  b \in known \cup PendingAt(w, n)
    <2>1. PICK i \in 1 .. n : FileOf[l][i] = b /\ b \notin RowsUpTo(l, i - 1)
      BY <1>1, FirstRow
    <2>2. CASE i <= job[w].pos
      <3>1. b \in RowsUpTo(l, job[w].pos)
        BY <1>1, <1>3, <2>1, <2>2 DEF RowsUpTo
      <3>2. QED
        BY <1>2, <1>3, <3>1 DEF PendingAt
    <2>3. CASE i > job[w].pos
      <3>1. Kept(l, i) /\ i \in job[w].pos + 1 .. n
        BY <1>1, <1>3, <2>1, <2>3 DEF Kept
      <3>2. QED
        BY <2>1, <3>1 DEF PendingAt
    <2>4. QED
      BY <1>1, <2>2, <2>3
  <1>4. QED
    BY <1>3

\* KnownInv, from one state to the next.
LEMMA KnownStays ==
    ASSUME KnownInv, known \subseteq known', suppressed' \subseteq known',
           \A a \in Addresses : contact'[a] # NoContact => a \in known',
           \A w \in Workers : job'[w] = job[w] \/ job'[w].kind # "import"
                                  \/ KeepsRows(job[w])',
           \A l \in Lists : list'[l].imported =>
                list[l].imported \/ Wanted(l) \subseteq known'
    PROVE  KnownInv'
  <1>1. ASSUME NEW w \in Workers, job'[w].kind = "import"
        PROVE  KeepsRows(job[w])'
    <2>1. CASE job'[w] = job[w]
      BY <1>1, <2>1 DEF KnownInv, KeepsRows, ReadBy
    <2>2. QED
      BY <1>1, <2>1
  <1>2. QED
    BY <1>1 DEF KnownInv, NothingDropped

\* The requests of the pages lose no row.
LEMMA KnownRequest ==
    ASSUME Typed, RowsLocked, KnownInv, NEW q \in Requests,
           NewRequest(q) \/ RequestStep(q) \/ RequestFails(q)
    PROVE  KnownInv'
  <1>1. UNCHANGED job
    BY DEF NewRequest, DeleteList, Ask, RequestStep, InsertSuppression,
           Mark, CommitRequest, Add, Cascade, RequestFails
  <1>2. Asked(req[q]) /\ RowsTyped
    BY TypedParts
  <1>3. CASE NewRequest(q) \/ InsertSuppression(q) \/ Mark(q) \/ RequestFails(q)
    <2>1. UNCHANGED <<list, contact, suppressed, known>>
      BY <1>3 DEF NewRequest, DeleteList, Ask, InsertSuppression, Mark,
                  RequestFails, db, ghosts
    <2>2. QED
      BY <1>1, <2>1, KnownStays DEF KnownInv
  <1>4. CASE CommitRequest(q)
    <2>1. /\ req[q].addr \in Addresses /\ UNCHANGED list
          /\ suppressed' = suppressed \cup {req[q].addr}
          /\ known' = known \cup {req[q].addr}
      BY <1>2, <1>4 DEF CommitRequest, Asked
    <2>2. \A a \in Addresses \ {req[q].addr} : contact'[a] = contact[a]
      BY <1>2, <1>4 DEF CommitRequest, RowsTyped
    <2>3. QED
      BY <1>1, <2>1, <2>2, KnownStays DEF KnownInv
  <1>5. CASE Add(q)
    <2>1. req[q].addr \in Addresses /\ req[q].list \in Lists
          /\ UNCHANGED <<list, suppressed>>
      BY <1>2, <1>5 DEF Add, Asked
    <2>2. CASE contact' = contact
      BY <1>1, <1>5, <2>1, <2>2, KnownStays DEF Add, KnownInv
    <2>3. CASE contact' # contact
      <3>1. known' = known \cup {req[q].addr}
            /\ \A a \in Addresses \ {req[q].addr} : contact'[a] = contact[a]
        BY <1>2, <1>5, <2>3 DEF Add, RowsTyped
      <3>2. QED
        BY <1>1, <2>1, <3>1, KnownStays DEF KnownInv
    <2>4. QED
      BY <2>2, <2>3
  <1>6. CASE Cascade(q)
    <2>1. UNCHANGED <<suppressed, known>>
          /\ \A a \in Addresses : contact'[a] \in {contact[a], NoContact}
      BY <1>6 DEF Cascade, ghosts
    <2>2. \A l \in Lists : list'[l].imported => list[l].imported
      BY <1>2, <1>6 DEF Cascade, RowsTyped
    <2>3. QED
      BY <1>1, <2>1, <2>2, KnownStays DEF KnownInv
  <1>7. QED
    BY <1>3, <1>4, <1>5, <1>6 DEF RequestStep

\* The steps of an import that store nothing.
LEMMA KnownImport ==
    ASSUME Typed, KnownInv, NEW w \in Workers, Moves(w),
           UNCHANGED <<contact, suppressed, known>>,
           job'[w].kind # "import" \/ KeepsRows(job[w])',
           \A l \in Lists : list'[l].imported =>
                list[l].imported \/ Wanted(l) \subseteq known
    PROVE  KnownInv'
  BY KnownStays DEF Moves, KnownInv

\* Rows read are in the batch, or known.
LEMMA ReadRowsKnown ==
    ASSUME Typed, KnownInv, NEW w \in Workers, ReadRows(w)
    PROVE  KnownInv'
  <1> DEFINE l == job[w].list
             n == job'[w].pos
  <1>1. /\ Moves(w) /\ job[w].pc = "rows" /\ job[w].kind = "import"
        /\ job'[w].pc = "insert" /\ job'[w].kind = "import" /\ job'[w].list = l
        /\ n \in 1 .. Len(FileOf[l]) /\ n > job[w].pos /\ job[w].pos \in Nat
        /\ job'[w].pending = PendingAt(w, n) /\ job'[w].skip = Stored(PendingAt(w, n))
    BY ReadRowsEffect, ImportPhase DEF Importing, SameTask
  <1>2. UNCHANGED <<list, contact, suppressed, known>>
    BY DEF ReadRows, OnlyImport, db
  <1>3. Len(FileOf[l]) \in Nat
    BY <1>1, ImportPhase
  <1>4. PICK m \in 0 .. Len(FileOf[l]) : m = n /\ job[w].pos <= m
    BY <1>1, <1>3
  <1>5. Wanted(l) \cap RowsUpTo(l, n) \subseteq known \cup PendingAt(w, n)
    BY <1>1, <1>4, ReadOn DEF KnownInv
  <1>6. PendingAt(w, n) \in SUBSET Addresses
    BY <1>1, <1>4, PendingType
  <1>7. Stored(PendingAt(w, n)) \subseteq known
    BY <1>6 DEF Stored, KnownInv
  <1>8. KeepsRows(job[w])'
    BY <1>1, <1>2, <1>3, <1>5, <1>7 DEF KeepsRows, ReadBy
  <1>9. QED
    BY <1>1, <1>2, <1>8, KnownImport

\* All rows wanted are among all rows.
LEMMA WantedRows ==
    ASSUME NEW l \in Lists
    PROVE  Wanted(l) \cap RowsUpTo(l, Len(FileOf[l])) = Wanted(l)
  BY DEF Wanted

\* So is the rest of the file.
LEMMA EndOfFileKnown ==
    ASSUME Typed, KnownInv, NEW w \in Workers, EndOfFile(w)
    PROVE  KnownInv'
  <1> DEFINE l == job[w].list
             last == Len(FileOf[l])
  <1>1. /\ Moves(w) /\ job[w].pc = "rows" /\ job[w].kind = "import"
        /\ job'[w].kind = "import" /\ job'[w].list = l /\ l \in Lists
        /\ last \in Nat /\ job[w].pos \in Nat
    BY EndOfFileEffect, ImportPhase DEF Importing, SameTask
  <1>2. UNCHANGED <<list, contact, suppressed, known>>
    BY DEF EndOfFile, OnlyImport, db
  <1>3. KeepsRows(job[w]) /\ job[w].pos <= last
    BY <1>1 DEF KnownInv, KeepsRows
  <1>4. PICK m \in 0 .. Len(FileOf[l]) : m = last
    BY <1>1
  <1>5. Wanted(l) \subseteq known \cup PendingAt(w, last)
    BY <1>1, <1>3, <1>4, ReadOn, WantedRows
  <1>6. PendingAt(w, last) \in SUBSET Addresses
    BY <1>1, <1>4, PendingType
  <1>7. Stored(PendingAt(w, last)) \subseteq known
    BY <1>6 DEF Stored, KnownInv
  <1>8. \/ PendingAt(w, last) = {} /\ job'[w].pc = "finalize"
        \/ /\ job'[w].pc = "insert" /\ job'[w].pos = last + 1
           /\ job'[w].pending = PendingAt(w, last)
           /\ job'[w].skip = Stored(PendingAt(w, last))
    BY EndOfFileEffect
  <1>9. KeepsRows(job[w])'
    <2>1. CASE PendingAt(w, last) = {} /\ job'[w].pc = "finalize"
      BY <1>1, <1>2, <1>5, <2>1 DEF KeepsRows
    <2>2. CASE /\ job'[w].pc = "insert" /\ job'[w].pos = last + 1
               /\ job'[w].pending = PendingAt(w, last)
               /\ job'[w].skip = Stored(PendingAt(w, last))
      <3>1. job'[w].pos > Len(FileOf[job'[w].list])
        BY <1>1, <2>2
      <3>2. QED
        BY <1>1, <1>2, <1>5, <1>7, <2>2, <3>1 DEF KeepsRows, ReadBy
    <2>3. QED
      BY <1>8, <2>1, <2>2
  <1>10. QED
    BY <1>1, <1>2, <1>9, KnownImport

\* What a flush stores is known.
LEMMA FlushBatchKnown ==
    ASSUME Typed, KnownInv, NEW w \in Workers, FlushBatch(w)
    PROVE  KnownInv'
  <1> DEFINE l == job[w].list
             new == job[w].pending \ job[w].skip
  <1>1. /\ Importing(w) /\ SameTask(w) /\ job[w].pc = "insert"
        /\ job'[w].pending = {} /\ job'[w].pos = job[w].pos
        /\ job'[w].pc = IF job[w].pos > Len(FileOf[l]) THEN "finalize" ELSE "rows"
        /\ \A a \in Addresses \ new : contact'[a] = contact[a]
        /\ known' = known \cup new
    BY FlushBatchEffect
  <1>2. /\ job[w].kind = "import" /\ l \in Lists
        /\ Len(FileOf[l]) \in Nat /\ job[w].pos \in Nat
    BY <1>1, ImportPhase
  <1>3. Moves(w) /\ job'[w].kind = "import" /\ job'[w].list = l
    BY <1>1, <1>2 DEF Importing, SameTask
  <1>4. UNCHANGED <<list, suppressed>>
    BY DEF FlushBatch, OnlyImport
  <1>5. ReadBy(job[w]) \subseteq known'
    BY <1>1, <1>2, <1>3 DEF KnownInv, KeepsRows
  <1>6. KeepsRows(job[w])'
    <2>1. CASE job[w].pos > Len(FileOf[l])
      BY <1>1, <1>2, <1>3, <1>5, <2>1 DEF KeepsRows, ReadBy
    <2>2. CASE job[w].pos <= Len(FileOf[l])
      BY <1>1, <1>2, <1>3, <1>5, <2>2 DEF KeepsRows, ReadBy
    <2>3. QED
      BY <1>1, <1>2, <1>3, <2>1, <2>2
  <1>7. \A a \in Addresses : contact'[a] # NoContact => a \in known'
    BY <1>1, <1>2, <1>3 DEF KnownInv
  <1>8. QED
    BY <1>1, <1>2, <1>3, <1>4, <1>6, <1>7, KnownStays DEF KnownInv, Moves

\* An import loses no row.
LEMMA ImportKnown ==
    ASSUME Typed, KnownInv, NEW w \in Workers, ImportStep(w)
    PROVE  KnownInv'
  <1>1. CASE \E l \in Lists : StartImport(w, l)
    <2>1. PICK l \in Lists : StartImport(w, l)
      BY <1>1
    <2>2. /\ UNCHANGED <<list, contact, suppressed, known>>
          /\ FileOf[l] \in Seq(Addresses \cup {BadRow})
      BY <2>1, ContactStoreAssumption DEF StartImport, OnlyImport, db
    <2>3. Moves(w) /\ (job'[w].kind # "import" \/ KeepsRows(job[w])')
      <3>1. CASE l \in file
        <4>1. /\ Moves(w) /\ job'[w].pc = "rows" /\ job'[w].list = l
              /\ job'[w].pos = 0
          BY <2>1, <3>1, StartImportEffect DEF Importing
        <4>2. RowsUpTo(l, 0) = {} /\ 0 <= Len(FileOf[l])
          BY <2>2 DEF RowsUpTo
        <4>3. ReadBy(job[w])' = {}
          BY <2>2, <4>1, <4>2 DEF ReadBy
        <4>4. QED
          BY <4>1, <4>2, <4>3 DEF KeepsRows
      <3>2. CASE l \notin file
        BY <2>1, <3>2, StartImportEffect, IdleWorker DEF Importing
      <3>3. QED
        BY <3>1, <3>2
    <2>4. QED
      BY <2>2, <2>3, KnownImport
  <1>2. CASE FlushError(w)
    <2>1. /\ UNCHANGED <<list, contact, suppressed, known>>
          /\ job[w].kind = "import" /\ KeepsRows(job[w]) /\ job[w].pc = "insert"
      BY <1>2, ImportPhase DEF FlushError, OnlyImport, db, KnownInv
    <2>2. Moves(w) /\ (job'[w].kind # "import" \/ KeepsRows(job[w])')
      <3>1. CASE job'[w] = Idle
        BY <1>2, <3>1, FlushErrorEffect, IdleWorker DEF Importing
      <3>2. CASE job'[w] # Idle
        <4>1. /\ Moves(w) /\ job'[w].pc = "rows" /\ job'[w].list = job[w].list
              /\ job'[w].pos = job[w].pos /\ job'[w].pending = job[w].pending
              /\ job[w].pos <= Len(FileOf[job[w].list])
          BY <1>2, <3>2, FlushErrorEffect DEF Importing, SameTask
        <4>2. QED
          BY <2>1, <4>1 DEF KeepsRows, ReadBy
      <3>3. QED
        BY <3>1, <3>2
    <2>3. QED
      BY <2>1, <2>2, KnownImport
  <1>3. CASE Finalize(w)
    <2>1. /\ UNCHANGED <<contact, suppressed, known>>
          /\ job[w].list \in Lists /\ Wanted(job[w].list) \subseteq known
      BY <1>3, ImportPhase DEF Finalize, OnlyImport, KnownInv, KeepsRows
    <2>2. Moves(w) /\ (job'[w].kind # "import" \/ KeepsRows(job[w])')
      BY <1>3, <2>1, FinalizeEffect, IdleWorker DEF Importing, SameTask, KeepsRows
    <2>3. \A l \in Lists : list'[l].imported => list[l].imported \/ l = job[w].list
      BY <1>3, <2>1 DEF Finalize, Typed, TypeOK
    <2>4. QED
      BY <2>1, <2>2, <2>3, KnownImport
  <1>4. CASE Chain(w)
    <2>1. /\ UNCHANGED <<list, contact, suppressed, known>>
          /\ Wanted(job[w].list) \subseteq known
      BY <1>4, ImportPhase DEF Chain, OnlyImport, KnownInv, KeepsRows, db
    <2>2. Moves(w) /\ (job'[w].kind # "import" \/ KeepsRows(job[w])')
      BY <1>4, <2>1, ChainEffect DEF Importing, SameTask, KeepsRows
    <2>3. QED
      BY <2>1, <2>2, KnownImport
  <1>5. CASE RemoveFile(w) \/ ImportFails(w)
    <2>1. Moves(w) /\ job'[w].kind # "import"
      BY <1>5, RemoveFileEffect, ImportFailsEffect, IdleWorker DEF Importing
    <2>2. UNCHANGED <<list, contact, suppressed, known>>
      BY <1>5 DEF RemoveFile, ImportFails, OnlyImport, db
    <2>3. QED
      BY <2>1, <2>2, KnownImport
  <1>6. QED
    BY <1>1, <1>2, <1>3, <1>4, <1>5, ReadRowsKnown, EndOfFileKnown,
       FlushBatchKnown DEF ImportStep

\* Nor do a verification and a worker that dies.
LEMMA VerifyKnown ==
    ASSUME Typed, RowsLocked, KnownInv, NEW w \in Workers,
           VerifyStep(w) \/ WorkerDies(w)
    PROVE  KnownInv'
  <1>1. Moves(w) /\ job'[w].kind # "import"
    <2>1. CASE \/ \E l \in Lists : StartVerify(w, l)
               \/ ReadContacts(w)
      <3>1. ReadContacts(w) => job[w].kind = "verify"
        BY VerifyPhase DEF ReadContacts
      <3>2. QED
        BY <2>1, <3>1, StartVerifyEffect, ReadContactsEffect, IdleWorker DEF SameTask
    <2>2. CASE \/ ProbeBatch(w) \/ (\E a \in Addresses : Load(w, a))
               \/ Flush(w) \/ InsertKey(w) \/ CommitBatch(w) \/ Aborted(w)
      <3>1. job[w].pc \in {"probe", "write", "flush", "key"}
        BY <2>2 DEF ProbeBatch, Load, Flush, InsertKey, CommitBatch, Aborted, Struck
      <3>2. job[w].kind = "verify"
        BY <3>1, VerifyPhase
      <3>3. Moves(w) /\ SameTask(w)
        BY <2>2, ProbeBatchEffect, LoadEffect, FlushEffect, InsertKeyEffect,
           CommitBatchEffect, AbortedEffect
      <3>4. QED
        BY <3>2, <3>3 DEF SameTask
    <2>3. CASE Conclude(w) \/ VerifyFails(w) \/ WorkerDies(w)
      BY <2>3, ConcludeEffect, VerifyFailsEffect, WorkerDiesEffect, IdleWorker
    <2>4. QED
      BY <2>1, <2>2, <2>3 DEF VerifyStep
  <1>2. CASE CommitBatch(w)
    <2>1. /\ suppressed' = suppressed \cup job[w].keys
          /\ known' = known \cup job[w].keys
          /\ UNCHANGED list
      BY <1>2, CommitBatchEffect DEF CommitBatch
    <2>2. \A a \in Addresses : contact'[a] # NoContact => a \in known'
      <3>1. \A a \in job[w].held : a \in known
        BY HeldRow DEF KnownInv
      <3>2. \A a \in Addresses \ job[w].held : contact'[a] = contact[a]
        BY <1>2, CommitBatchEffect
      <3>3. QED
        BY <2>1, <3>1, <3>2 DEF KnownInv
    <2>3. QED
      BY <1>1, <2>1, <2>2, KnownStays DEF Moves, KnownInv
  <1>3. CASE ~CommitBatch(w)
    <2>1. UNCHANGED <<contact, suppressed, known>>
      BY <1>3 DEF VerifyStep, WorkerDies, StartVerify, ReadContacts, ProbeBatch,
         Load, Flush, InsertKey, Conclude, Aborted, VerifyFails, db
    <2>2. \A l \in Lists : list'[l].imported => list[l].imported
      <3>1. CASE UNCHANGED list
        BY <3>1
      <3>2. CASE ReadContacts(w) \/ Conclude(w)
        <4>1. PICK k \in Lists : k = job[w].list
          BY <3>2, VerifyPhase DEF ReadContacts, Conclude
        <4>2. \/ UNCHANGED list
              \/ \E s \in {"verifying", "failed", "ready"} :
                    list' = [list EXCEPT ![k].status = s]
          BY <3>2, <4>1 DEF ReadContacts, Conclude
        <4>3. list \in [Lists -> [status : ListStatuses, imported : BOOLEAN]]
          BY DEF Typed, TypeOK
        <4>4. QED
          BY <4>2, <4>3
      <3>3. QED
        BY <1>3, <3>1, <3>2 DEF VerifyStep, WorkerDies, StartVerify, ProbeBatch,
           Load, Flush, InsertKey, Aborted, VerifyFails, db
    <2>3. QED
      BY <1>1, <2>1, <2>2, KnownImport
  <1>4. QED
    BY <1>2, <1>3

\* Nor does any step.
LEMMA KnownStep ==
    ASSUME Typed, RowsLocked, KnownInv, [Next]_vars
    PROVE  KnownInv'
  <1>1. ASSUME NEW l \in Lists, Upload(l) \/ UploadEnqueue(l) \/ UploadDies(l)
        PROVE  KnownInv'
    <2>1. UNCHANGED <<contact, suppressed, known, job>>
      BY <1>1 DEF Upload, UploadEnqueue, UploadDies, db, ghosts
    <2>2. \A k \in Lists : list'[k].imported => list[k].imported
      BY <1>1 DEF Upload, UploadEnqueue, UploadDies, db, Typed, TypeOK
    <2>3. QED
      BY <2>1, <2>2, KnownStays DEF KnownInv
  <1>2. CASE UNCHANGED vars
    <2>1. UNCHANGED <<list, contact, suppressed, known, job>>
      BY <1>2 DEF vars, db, ghosts
    <2>2. QED
      BY <2>1, KnownStays DEF KnownInv
  <1>3. QED
    BY <1>1, <1>2, KnownRequest, ImportKnown, VerifyKnown
       DEF Next, Quiet, WorkerStep

\* NothingDropped in every behaviour, for any file and batch size: an import
\* that reports its summary has stored, or found suppressed or stored, every
\* row of the file that it was to store, however many of its flushes failed.
THEOREM NothingDroppedHolds == Spec => []NothingDropped
  <1>1. Init => KnownInv
    BY IdleWorker DEF Init, KnownInv, NothingDropped
  <1>2. Typed /\ RowsLocked /\ KnownInv /\ [Next]_vars => KnownInv'
    BY KnownStep
  <1>3. KnownInv => NothingDropped
    BY DEF KnownInv
  <1>4. QED
    BY <1>1, <1>2, <1>3, RowsSafe, PTL DEF Spec

-----------------------------------------------------------------------------
(* One import of a list at a time, and the verdicts in hand.                *)

\* The tasks of a list.
LEMMA ListTasks ==
    ASSUME NEW l \in Lists
    PROVE  /\ ImportTask(l) \in Tasks /\ VerifyTask(l) \in Tasks
           /\ \A k \in Lists : /\ ImportTask(l) = ImportTask(k) <=> l = k
                               /\ VerifyTask(l) = VerifyTask(k) <=> l = k
                               /\ ImportTask(l) # VerifyTask(k)
           /\ ImportTask(l).list = l /\ VerifyTask(l).list = l
  BY DEF ImportTask, VerifyTask, Tasks

\* A task more in the queue.
LEMMA Enqueued ==
    ASSUME Typed, NEW t \in Tasks, queue' = [queue EXCEPT ![t] = @ + 1]
    PROVE  /\ queue[t] \in Nat /\ queue'[t] = queue[t] + 1
           /\ \A u \in Tasks \ {t} : queue'[u] = queue[u]
  BY DEF Typed, TypeOK

\* A task less.
LEMMA Taken ==
    ASSUME Typed, NEW t \in Tasks, queue' = [queue EXCEPT ![t] = @ - 1]
    PROVE  /\ queue[t] \in Nat /\ queue'[t] = queue[t] - 1
           /\ \A u \in Tasks \ {t} : queue'[u] = queue[u]
  BY DEF Typed, TypeOK

\* OneImport, from one state to the next, when no import begins.
LEMMA OneImportStays ==
    ASSUME NEW l \in Lists, OneImport(l),
           queue'[ImportTask(l)] = queue[ImportTask(l)],
           list'[l].status = "unused" => list[l].status = "unused",
           l \in uploads' => l \in uploads,
           \A w \in Workers : (Imports(w, l)' => Imports(w, l))
                                /\ (Unchained(w, l)' => Unchained(w, l)),
           \/ l \in file => l \in file'
           \/ \E w \in Workers : Imports(w, l) /\ job[w].pc = "remove"
    PROVE  OneImport(l)'
  <1>1. ASSUME l \in uploads \/ \E w \in Workers : Unchained(w, l)
        PROVE  ~\E w \in Workers : Imports(w, l) /\ job[w].pc = "remove"
    BY <1>1 DEF OneImport, Unchained, Imports
  <1>2. (l \in uploads' \/ \E w \in Workers : Unchained(w, l)') => l \in file'
    BY <1>1 DEF OneImport
  <1>3. QED
    BY <1>2 DEF OneImport

\* No status goes back to "unused".
LEMMA StaysUsed ==
    ASSUME Typed, [Next]_vars, NEW l \in Lists, list'[l].status = "unused"
    PROVE  list[l].status = "unused"
  <1>1. list \in [Lists -> [status : ListStatuses, imported : BOOLEAN]]
    BY DEF Typed, TypeOK
  <1>2. ASSUME NEW q \in Requests, NewRequest(q) \/ RequestStep(q) \/ RequestFails(q)
        PROVE  list[l].status = "unused"
    BY <1>1, <1>2 DEF NewRequest, DeleteList, Ask, RequestStep, InsertSuppression,
       Mark, CommitRequest, Add, Cascade, RequestFails, db
  <1>3. ASSUME NEW k \in Lists, Upload(k) \/ UploadEnqueue(k) \/ UploadDies(k)
        PROVE  list[l].status = "unused"
    BY <1>1, <1>3 DEF Upload, UploadEnqueue, UploadDies, db
  <1>4. ASSUME NEW w \in Workers, WorkerStep(w) \/ WorkerDies(w)
        PROVE  list[l].status = "unused"
    <2>1. CASE Finalize(w) \/ ReadContacts(w) \/ Conclude(w)
      BY <1>1, <2>1 DEF Finalize, ReadContacts, Conclude
    <2>2. CASE ~(Finalize(w) \/ ReadContacts(w) \/ Conclude(w))
      BY <1>4, <2>2 DEF WorkerStep, WorkerDies, ImportStep, VerifyStep, StartImport,
         ReadRows, EndOfFile, FlushBatch, FlushError, Chain, RemoveFile,
         ImportFails, StartVerify, ProbeBatch, Load, Flush,
         InsertKey, CommitBatch, Aborted, VerifyFails, db
    <2>3. QED
      BY <2>1, <2>2
  <1>5. CASE UNCHANGED vars
    BY <1>5 DEF vars, db
  <1>6. QED
    BY <1>2, <1>3, <1>4, <1>5 DEF Next, Quiet

\* A worker whose step begins no import.
LEMMA OneImportWorker ==
    ASSUME NEW l \in Lists, OneImport(l), NEW w \in Workers, Moves(w),
           \/ job'[w].kind # "import"
           \/ SameTask(w) /\ (job[w].pc = "remove" => job'[w].pc = "remove"),
           queue'[ImportTask(l)] = queue[ImportTask(l)],
           list'[l].status = "unused" => list[l].status = "unused",
           UNCHANGED uploads,
           l \in file => l \in file' \/ (Imports(w, l) /\ job[w].pc = "remove")
    PROVE  OneImport(l)'
  <1>1. ASSUME NEW v \in Workers
        PROVE  (Imports(v, l)' => Imports(v, l))
               /\ (Unchained(v, l)' => Unchained(v, l))
    BY DEF Moves, SameTask, Imports, Unchained
  <1>2. QED
    BY <1>1, OneImportStays

\* Uploads, and requests of the pages.
LEMMA OneImportWeb ==
    ASSUME Typed, NEW l \in Lists, OneImport(l), [Next]_vars,
           ~\E w \in Workers : WorkerStep(w) \/ WorkerDies(w)
    PROVE  OneImport(l)'
  <1>1. list'[l].status = "unused" => list[l].status = "unused"
    BY StaysUsed
  <1>2. \A w \in Workers : /\ Imports(w, l)' <=> Imports(w, l)
                           /\ Unchained(w, l)' <=> Unchained(w, l)
    <2>1. UNCHANGED job
      BY DEF Next, Upload, UploadEnqueue, UploadDies, NewRequest, DeleteList, Ask,
         RequestStep, InsertSuppression, Mark, CommitRequest, Add, Cascade,
         RequestFails, Quiet, vars
    <2>2. QED
      BY <2>1 DEF Imports, Unchained
  <1>3. ASSUME NEW k \in Lists, Upload(k)
        PROVE  OneImport(l)'
    <2>1. /\ list[k].status = "unused" /\ file' = file \cup {k}
          /\ uploads' = uploads \cup {k} /\ UNCHANGED queue
          /\ list' = [list EXCEPT ![k].status = "pending_verification"]
      BY <1>3 DEF Upload
    <2>2. CASE k # l
      BY <1>1, <1>2, <2>1, <2>2, OneImportStays
    <2>3. CASE k = l
      <3>1. list'[l].status # "unused"
        BY <2>1, <2>3 DEF Typed, TypeOK
      <3>2. QED
        BY <1>2, <2>1, <2>3, <3>1 DEF OneImport
    <2>4. QED
      BY <2>2, <2>3
  <1>4. ASSUME NEW k \in Lists, UploadEnqueue(k)
        PROVE  OneImport(l)'
    <2>1. /\ k \in uploads /\ uploads' = uploads \ {k} /\ UNCHANGED <<list, file>>
          /\ queue' = [queue EXCEPT ![ImportTask(k)] = @ + 1]
      BY <1>4 DEF UploadEnqueue, Enqueue, ImportTask, db
    <2>2. CASE k # l
      <3>1. queue'[ImportTask(l)] = queue[ImportTask(l)]
        BY <2>1, <2>2, ListTasks, Enqueued
      <3>2. QED
        BY <1>1, <1>2, <2>1, <2>2, <3>1, OneImportStays
    <2>3. CASE k = l
      <3>1. ImportTask(l) \in Tasks /\ queue' = [queue EXCEPT ![ImportTask(l)] = @ + 1]
        BY <2>1, <2>3, ListTasks
      <3>2. queue[ImportTask(l)] = 0
        BY <2>1, <2>3 DEF OneImport
      <3>3. queue'[ImportTask(l)] = 1
        <4>1. queue'[ImportTask(l)] = queue[ImportTask(l)] + 1
          BY <3>1, Enqueued
        <4>2. QED
          BY <3>2, <4>1
      <3>4. QED
        BY <1>1, <1>2, <2>1, <2>3, <3>2, <3>3 DEF OneImport
    <2>4. QED
      BY <2>2, <2>3
  <1>5. ASSUME UNCHANGED <<queue, file>>, uploads' \subseteq uploads
        PROVE  OneImport(l)'
    BY <1>1, <1>2, <1>5, OneImportStays
  <1>6. CASE \E k \in Lists : UploadDies(k)
    BY <1>5, <1>6 DEF UploadDies
  <1>7. CASE \E q \in Requests : NewRequest(q) \/ RequestStep(q) \/ RequestFails(q)
    BY <1>5, <1>7 DEF NewRequest, DeleteList, Ask, RequestStep, InsertSuppression,
       Mark, CommitRequest, Add, Cascade, RequestFails
  <1>8. CASE UNCHANGED vars
    BY <1>5, <1>8 DEF vars, web
  <1>9. QED
    BY <1>3, <1>4, <1>6, <1>7, <1>8 DEF Next, Quiet

\* An import under way stays the only one of its list.
LEMMA OneImportImport ==
    ASSUME Typed, NEW l \in Lists, OneImport(l), NEW w \in Workers, ImportStep(w)
    PROVE  OneImport(l)'
  <1>1. /\ list'[l].status = "unused" => list[l].status = "unused"
        /\ UNCHANGED uploads
    <2>1. Next
      BY DEF Next, WorkerStep
    <2>2. UNCHANGED uploads
      BY DEF ImportStep, StartImport, ReadRows, EndOfFile, FlushBatch, FlushError,
             Finalize, Chain, RemoveFile, ImportFails, OnlyImport, web
    <2>3. QED
      BY <2>1, <2>2, StaysUsed
  <1>2. ASSUME NEW k \in Lists, StartImport(w, k)
        PROVE  OneImport(l)'
    <2>1. /\ queue[ImportTask(k)] > 0 /\ UNCHANGED <<file, list>>
          /\ queue' = [queue EXCEPT ![ImportTask(k)] = @ - 1]
      BY <1>2 DEF StartImport, Take, ImportTask, db
    <2>2. /\ Moves(w) /\ job[w] = Idle
          /\ job'[w] = Idle \/ (k \in file /\ job'[w].list = k)
      BY <1>2, StartImportEffect DEF Importing
    <2>3. CASE k # l
      <3>1. queue'[ImportTask(l)] = queue[ImportTask(l)]
        BY <2>1, <2>3, ListTasks, Taken
      <3>2. \A v \in Workers : (Imports(v, l)' => Imports(v, l))
                               /\ (Unchained(v, l)' => Unchained(v, l))
        BY <2>2, <2>3, IdleWorker DEF Moves, Imports, Unchained
      <3>3. QED
        BY <1>1, <2>1, <3>1, <3>2, OneImportStays
    <2>4. CASE k = l
      <3>0. ImportTask(l) \in Tasks /\ queue' = [queue EXCEPT ![ImportTask(l)] = @ - 1]
        BY <2>1, <2>4, ListTasks
      <3>1. queue[ImportTask(l)] = 1 /\ queue'[ImportTask(l)] = 0
        <4>1. queue[ImportTask(l)] \in Nat
              /\ queue'[ImportTask(l)] = queue[ImportTask(l)] - 1
          BY <3>0, Taken
        <4>2. queue[ImportTask(l)] > 0 /\ queue[ImportTask(l)] <= 1
          BY <2>1, <2>4 DEF OneImport
        <4>3. QED
          BY <4>1, <4>2
      <3>2. \A v \in Workers : Imports(v, l)' => v = w
        BY <2>2, <3>1 DEF OneImport, Moves, Imports
      <3>3. (\E v \in Workers : Unchained(v, l)') => l \in file
        BY <2>2, <2>4, <3>2, IdleWorker DEF Unchained, Imports
      <3>4. QED
        BY <1>1, <2>1, <3>1, <3>2, <3>3 DEF OneImport
    <2>5. QED
      BY <2>3, <2>4
  <1>3. CASE \/ ReadRows(w) \/ EndOfFile(w) \/ FlushBatch(w) \/ FlushError(w)
             \/ Finalize(w) \/ ImportFails(w)
    <2>1. Moves(w) /\ (job'[w].kind # "import"
                          \/ (SameTask(w) /\ job[w].pc # "remove"))
      <3>1. CASE ReadRows(w) \/ EndOfFile(w) \/ FlushBatch(w)
        BY <3>1, ReadRowsEffect, EndOfFileEffect, FlushBatchEffect DEF Importing
      <3>2. CASE FlushError(w)
        BY <3>2, FlushErrorEffect, IdleWorker DEF Importing
      <3>3. CASE Finalize(w) \/ ImportFails(w)
        BY <3>3, FinalizeEffect, ImportFailsEffect, IdleWorker DEF Importing
      <3>4. QED
        BY <1>3, <3>1, <3>2, <3>3
    <2>2. UNCHANGED <<queue, file>>
      BY <1>3 DEF ReadRows, EndOfFile, FlushBatch, FlushError, Finalize, ImportFails
    <2>3. QED
      BY <1>1, <2>1, <2>2, OneImportWorker
  <1>4. CASE Chain(w)
    <2>1. /\ Moves(w) /\ SameTask(w) /\ job'[w].pc = "remove"
          /\ job[w].list \in Lists
      BY <1>4, ChainEffect, ImportPhase DEF Importing
    <2>2. /\ queue' = [queue EXCEPT ![VerifyTask(job[w].list)] = @ + 1]
          /\ UNCHANGED file
      BY <1>4 DEF Chain, Enqueue, VerifyTask
    <2>3. queue'[ImportTask(l)] = queue[ImportTask(l)]
      BY <2>1, <2>2, ListTasks, Enqueued
    <2>4. QED
      BY <1>1, <2>1, <2>2, <2>3, OneImportWorker
  <1>5. CASE RemoveFile(w)
    <2>1. /\ Moves(w) /\ job'[w] = Idle /\ job[w].pc = "remove"
          /\ job[w].kind = "import"
      BY <1>5, RemoveFileEffect DEF Importing
    <2>2. UNCHANGED queue /\ file' = file \ {job[w].list}
      BY <1>5 DEF RemoveFile
    <2>3. l \in file => l \in file' \/ (Imports(w, l) /\ job[w].pc = "remove")
      BY <2>1, <2>2 DEF Imports
    <2>4. QED
      BY <1>1, <2>1, <2>2, <2>3, OneImportWorker, IdleWorker
  <1>6. QED
    BY <1>2, <1>3, <1>4, <1>5 DEF ImportStep

\* A verification leaves the imports alone, and so does one that dies; a dead
\* import is queued again.
LEMMA VerifyMoves ==
    ASSUME Typed, NEW w \in Workers, VerifyStep(w)
    PROVE  Moves(w) /\ job'[w].kind # "import" /\ job[w].kind # "import"
  <1>1. CASE \E l \in Lists : StartVerify(w, l)
    BY <1>1, StartVerifyEffect, IdleWorker
  <1>2. CASE \/ ReadContacts(w) \/ ProbeBatch(w) \/ (\E a \in Addresses : Load(w, a))
             \/ Flush(w) \/ InsertKey(w) \/ CommitBatch(w) \/ Aborted(w)
    <2>1. job[w].kind = "verify"
      BY <1>2, VerifyPhase DEF ReadContacts, ProbeBatch, Load, Flush, InsertKey,
                               CommitBatch, Aborted, Struck
    <2>2. Moves(w) /\ (SameTask(w) \/ job'[w] = Idle)
      BY <1>2, ReadContactsEffect, ProbeBatchEffect, LoadEffect, FlushEffect,
         InsertKeyEffect, CommitBatchEffect, AbortedEffect
    <2>3. QED
      BY <2>1, <2>2, IdleWorker DEF SameTask
  <1>3. CASE Conclude(w) \/ VerifyFails(w)
    BY <1>3, ConcludeEffect, VerifyFailsEffect, IdleWorker
  <1>4. QED
    BY <1>1, <1>2, <1>3 DEF VerifyStep

\* A verification begins no import.
LEMMA OneImportVerify ==
    ASSUME Typed, NEW l \in Lists, OneImport(l), NEW w \in Workers, VerifyStep(w)
    PROVE  OneImport(l)'
  <1>1. Moves(w) /\ job'[w].kind # "import"
    BY VerifyMoves
  <1>2. UNCHANGED <<file, uploads>>
    BY DEF VerifyStep, StartVerify, ReadContacts, ProbeBatch, Load, Flush,
           InsertKey, CommitBatch, Conclude, Aborted, VerifyFails, OnlyVerify, web
  <1>3. queue'[ImportTask(l)] = queue[ImportTask(l)]
    <2>1. CASE \E k \in Lists : StartVerify(w, k)
      <3>1. PICK k \in Lists : StartVerify(w, k)
        BY <2>1
      <3>2. queue' = [queue EXCEPT ![VerifyTask(k)] = @ - 1]
        BY <3>1 DEF StartVerify, Take, VerifyTask
      <3>3. QED
        BY <3>2, ListTasks, Taken
    <2>2. CASE ~\E k \in Lists : StartVerify(w, k)
      BY <2>2 DEF VerifyStep, ReadContacts, ProbeBatch, Load, Flush,
           InsertKey, CommitBatch, Conclude, Aborted, VerifyFails
    <2>3. QED
      BY <2>1, <2>2
  <1>4. list'[l].status = "unused" => list[l].status = "unused"
    BY StaysUsed DEF Next, WorkerStep
  <1>5. QED
    BY <1>1, <1>2, <1>3, <1>4, OneImportWorker

\* An import that dies is queued in its own place.
LEMMA OneImportDies ==
    ASSUME Typed, NEW l \in Lists, OneImport(l), NEW w \in Workers, WorkerDies(w)
    PROVE  OneImport(l)'
  <1> DEFINE k == job[w].list
             t == [kind |-> job[w].kind, list |-> k]
  <1>1. /\ Moves(w) /\ job'[w] = Idle /\ k \in Lists
        /\ job[w].kind \in {"import", "verify"}
    BY WorkerDiesEffect
  <1>2. /\ queue' = [queue EXCEPT ![t] = @ + 1] /\ UNCHANGED <<uploads, list>>
        /\ file' = file \/ (job[w].pc = "remove" /\ file' = file \ {k})
    BY DEF WorkerDies, Enqueue, web, db
  <1>3. t \in Tasks /\ t = (IF job[w].kind = "import" THEN ImportTask(k)
                             ELSE VerifyTask(k))
    BY <1>1 DEF Tasks, ImportTask, VerifyTask
  <1> HIDE DEF t
  <1>4. job'[w].kind # "import"
    BY <1>1, IdleWorker
  <1>5. CASE Imports(w, l)
    <2>1. t = ImportTask(l)
      BY <1>3, <1>5 DEF Imports
    <2>2. queue'[ImportTask(l)] = 1
      <3>1. queue[t] \in Nat /\ queue'[t] = queue[t] + 1
        BY <1>2, <1>3, Enqueued
      <3>2. queue[t] <= 1 /\ queue[t] # 1
        BY <1>5, <2>1 DEF OneImport
      <3>3. QED
        BY <2>1, <3>1, <3>2
    <2>3. \A v \in Workers : ~Imports(v, l)'
      BY <1>1, <1>4, <1>5 DEF OneImport, Imports, Moves
    <2>4. l \notin uploads /\ list[l].status # "unused"
      BY <1>5 DEF OneImport
    <2>5. QED
      BY <1>2, <2>2, <2>3, <2>4 DEF OneImport, Unchained
  <1>6. CASE ~Imports(w, l)
    <2>1. queue'[ImportTask(l)] = queue[ImportTask(l)]
      <3>1. t # ImportTask(l)
        BY <1>1, <1>3, <1>6, ListTasks DEF Imports
      <3>2. QED
        BY <1>2, <1>3, <3>1, ListTasks, Enqueued
    <2>2. l \in file => l \in file'
      <3>1. job[w].pc = "remove" => job[w].kind = "import"
        BY ImportPhase
      <3>2. QED
        BY <1>2, <1>6, <3>1 DEF Imports
    <2>3. QED
      BY <1>1, <1>2, <1>4, <2>1, <2>2, OneImportWorker
  <1>7. QED
    BY <1>5, <1>6

\* Every step keeps to one import of a list.
LEMMA OneImportStep ==
    ASSUME Typed, \A l \in Lists : OneImport(l), [Next]_vars
    PROVE  \A l \in Lists : OneImport(l)'
  BY OneImportWeb, OneImportImport, OneImportVerify, OneImportDies DEF WorkerStep

-----------------------------------------------------------------------------
(* The verdicts in hand.                                                    *)

\* What is missed is not found again.
LEMMA MissedGrows ==
    ASSUME Typed, [Next]_vars
    PROVE  missed \subseteq missed' /\ manual \subseteq manual'
                /\ gaveUp \subseteq gaveUp'
  <1>1. CASE \/ UNCHANGED vars
             \/ \E l \in Lists : Upload(l) \/ UploadEnqueue(l) \/ UploadDies(l)
    BY <1>1 DEF vars, ghosts, Upload, UploadEnqueue, UploadDies
  <1>2. CASE \E q \in Requests : NewRequest(q) \/ RequestStep(q) \/ RequestFails(q)
    BY <1>2 DEF NewRequest, DeleteList, Ask, RequestStep, InsertSuppression,
       Mark, CommitRequest, Add, Cascade, RequestFails, ghosts
  <1>3. CASE \E w \in Workers : ImportStep(w) \/ WorkerDies(w)
    BY <1>3 DEF ImportStep, StartImport, ReadRows, EndOfFile, FlushBatch,
       FlushError, Finalize, Chain, RemoveFile, ImportFails, WorkerDies, OnlyImport
  <1>4. CASE \E w \in Workers : VerifyStep(w)
    <2>1. PICK w \in Workers : VerifyStep(w)
      BY <1>4
    <2>2. CASE Flush(w) \/ InsertKey(w)
      BY <2>2 DEF Flush, InsertKey, OnlyVerify
    <2>3. CASE Aborted(w) \/ VerifyFails(w)
      BY <2>3 DEF Aborted, VerifyFails
    <2>4. CASE ~(Flush(w) \/ InsertKey(w) \/ Aborted(w) \/ VerifyFails(w))
      BY <2>1, <2>4 DEF VerifyStep, StartVerify, ReadContacts, ProbeBatch, Load,
         CommitBatch, Conclude, OnlyVerify
    <2>5. QED
      BY <2>2, <2>3, <2>4
  <1>5. QED
    BY <1>1, <1>2, <1>3, <1>4 DEF Next, Quiet, WorkerStep

\* The worker that moves is the one to look at.
LEMMA DefiniteElse ==
    ASSUME VerdictsDefinite, missed \subseteq missed', NEW w \in Workers, Moves(w),
           job'[w].kind = "verify" => Definite(w)'
    PROVE  VerdictsDefinite'
  BY DEF VerdictsDefinite, Definite, Moves

\* The verdicts of a verification, from one step to the next.
LEMMA DefiniteVerify ==
    ASSUME Typed, VerdictsDefinite, missed \subseteq missed', NEW w \in Workers,
           VerifyStep(w)
    PROVE  VerdictsDefinite'
  <1>1. CASE (\E l \in Lists : StartVerify(w, l)) \/ ReadContacts(w)
    <2>1. /\ Moves(w) /\ job'[w].verdict \in {job[w].verdict, NoVerdict}
          /\ job'[w].kind = "verify" => job'[w].pc \in {"start", "probe"}
      BY <1>1, StartVerifyEffect, ReadContactsEffect, IdleWorker
    <2>2. job[w].kind = "verify" \/ job[w] = Idle
      BY <1>1, StartVerifyEffect, VerifyPhase DEF ReadContacts
    <2>3. \A a \in Addresses : job'[w].verdict[a] = "lost" => a \in missed
      BY <2>1, <2>2, IdleWorker DEF VerdictsDefinite, Definite, NoVerdict
    <2>4. QED
      BY <2>1, <2>3, DefiniteElse DEF Definite
  <1>2. CASE ProbeBatch(w)
    <2>1. /\ Moves(w) /\ job'[w].pc = "write" /\ job'[w].held = {}
          /\ \A a \in job'[w].batch : job'[w].verdict[a] # "pending"
          /\ \A a \in Addresses : job'[w].verdict[a] # "lost"
      BY <1>2, ProbeBatchEffect
    <2>2. QED
      BY <2>1, DefiniteElse DEF Definite
  <1>3. ASSUME NEW b \in Addresses, Load(w, b)
        PROVE  VerdictsDefinite'
    <2>1. /\ Moves(w) /\ job'[w].verdict = job[w].verdict
          /\ job[w].pc = "write" /\ b \in job[w].batch
          /\ job'[w].held = job[w].held /\ job'[w].batch = job[w].batch \ {b}
          /\ job'[w].pc = "write" \/ (job'[w].pc = "flush" /\ job'[w].cur = b)
      BY <1>3, LoadEffect DEF SameLocks
    <2>2. job[w].kind = "verify"
      BY <2>1, VerifyPhase
    <2>3. QED
      BY <2>1, <2>2, DefiniteElse DEF VerdictsDefinite, Definite
  <1>4. CASE Flush(w)
    <2>1. /\ Moves(w) /\ job[w].pc = "flush" /\ job'[w].verdict = job[w].verdict
          /\ job'[w].batch = job[w].batch
          /\ job'[w].held \subseteq job[w].held \cup {job[w].cur}
          /\ \/ job'[w].pc \in {"fail", "write"}
             \/ job'[w].pc = "key" /\ job'[w].cur = job[w].cur
      BY <1>4, FlushEffect DEF SameLocks
    <2>2. job[w].kind = "verify"
      BY <2>1, VerifyPhase
    <2>3. QED
      BY <2>1, <2>2, DefiniteElse DEF VerdictsDefinite, Definite
  <1>5. CASE InsertKey(w)
    <2>1. /\ Moves(w) /\ job[w].pc = "key" /\ job'[w].batch = job[w].batch
          /\ job[w].cur \in job[w].held /\ job[w].cur \in Addresses
          /\ \/ /\ job'[w].verdict = job[w].verdict /\ job'[w].pc = "write"
                /\ job'[w].held = job[w].held
             \/ /\ job'[w].held = {} /\ job'[w].pc = "flush"
                /\ job'[w].cur = job[w].cur
                /\ job'[w].verdict[job[w].cur] = "lost"
                /\ \A b \in Addresses \ {job[w].cur} :
                        job'[w].verdict[b] = job[w].verdict[b]
                /\ missed' = missed \cup job[w].held
      BY <1>5, InsertKeyEffect
    <2>2. job[w].kind = "verify" /\ job[w].batch \subseteq Addresses
      BY <2>1, VerifyPhase
    <2>3. QED
      BY <2>1, <2>2, DefiniteElse DEF VerdictsDefinite, Definite
  <1>6. CASE CommitBatch(w)
    <2>1. /\ Moves(w) /\ job'[w].verdict = NoVerdict
          /\ job'[w].pc \in {"probe", "fail"}
      BY <1>6, CommitBatchEffect
    <2>2. QED
      BY <2>1, DefiniteElse DEF Definite, NoVerdict
  <1>7. CASE Aborted(w)
    <2>1. /\ Moves(w) /\ job'[w].verdict = job[w].verdict /\ job'[w].pc = "fail"
          /\ job[w].kind = "verify"
      BY <1>7, AbortedEffect DEF SameBatch
    <2>2. QED
      BY <2>1, DefiniteElse DEF VerdictsDefinite, Definite
  <1>8. CASE Conclude(w) \/ VerifyFails(w)
    <2>1. Moves(w) /\ job'[w].kind # "verify"
      BY <1>8, ConcludeEffect, VerifyFailsEffect, IdleWorker
    <2>2. QED
      BY <2>1, DefiniteElse
  <1>9. QED
    BY <1>1, <1>2, <1>3, <1>4, <1>5, <1>6, <1>7, <1>8 DEF VerifyStep

\* The verdicts in hand, from one state to the next.
LEMMA DefiniteStep ==
    ASSUME Typed, VerdictsDefinite, [Next]_vars
    PROVE  VerdictsDefinite'
  <1>1. missed \subseteq missed'
    BY MissedGrows
  <1>2. ASSUME NEW w \in Workers, ImportStep(w) \/ WorkerDies(w)
        PROVE  VerdictsDefinite'
    <2>1. CASE ImportStep(w)
      <3>1. Moves(w) /\ job'[w].kind # "verify"
        BY <2>1, StartImportEffect, ReadRowsEffect, EndOfFileEffect, FlushBatchEffect,
           FlushErrorEffect, FinalizeEffect, ChainEffect, RemoveFileEffect,
           ImportFailsEffect DEF ImportStep, Importing
      <3>2. QED
        BY <1>1, <3>1, DefiniteElse
    <2>2. CASE WorkerDies(w)
      BY <1>1, <2>2, WorkerDiesEffect, IdleWorker, DefiniteElse
    <2>3. QED
      BY <1>2, <2>1, <2>2
  <1>3. CASE ~\E w \in Workers : WorkerStep(w) \/ WorkerDies(w)
    <2>1. UNCHANGED job
      BY <1>3 DEF Next, Upload, UploadEnqueue, UploadDies, NewRequest, DeleteList,
         Ask, RequestStep, InsertSuppression, Mark, CommitRequest, Add, Cascade,
         RequestFails, Quiet, vars
    <2>2. QED
      BY <1>1, <2>1 DEF VerdictsDefinite, Definite
  <1>4. QED
    BY <1>1, <1>2, <1>3, DefiniteVerify DEF WorkerStep

-----------------------------------------------------------------------------
(* The verification to come.                                                *)

\* A worker that leaves alone what the verification of l is due by.
LEMMA DueStays ==
    ASSUME NEW l \in Lists, VerificationDue(l), NEW w \in Workers, Moves(w),
           UNCHANGED uploads, gaveUp \subseteq gaveUp',
           queue'[ImportTask(l)] = queue[ImportTask(l)],
           queue[VerifyTask(l)] > 0 => queue'[VerifyTask(l)] > 0,
           queue[ImportTask(l)] > 0 /\ l \in file => l \in file',
           Unchained(w, l) => VerificationDue(l)' \/ Ahead(l)'
    PROVE  Ahead(l)'
  <1>1. CASE \E v \in Workers : Unchained(v, l)
    BY <1>1 DEF Ahead, VerificationDue, Moves, Unchained, Imports
  <1>2. CASE ~\E v \in Workers : Unchained(v, l)
    BY <1>2 DEF Ahead, VerificationDue
  <1>3. QED
    BY <1>1, <1>2

\* The list of an import under way has no other import queued.
LEMMA OneImportHere ==
    ASSUME Typed, NEW l \in Lists, OneImport(l), queue[ImportTask(l)] > 0,
           NEW w \in Workers, job[w].kind = "import"
    PROVE  job[w].list # l
  <1>1. queue[ImportTask(l)] \in Nat
    BY ListTasks DEF Typed, TypeOK
  <1>2. queue[ImportTask(l)] = 1
    BY <1>1 DEF OneImport
  <1>3. QED
    BY <1>2 DEF OneImport, Imports

\* Uploads, and requests of the pages.
LEMMA DueWeb ==
    ASSUME Typed, NEW l \in Lists, OneImport(l), VerificationDue(l), [Next]_vars,
           ~\E w \in Workers : WorkerStep(w) \/ WorkerDies(w)
    PROVE  Ahead(l)'
  <1>1. \A w \in Workers : Unchained(w, l)' <=> Unchained(w, l)
    <2>1. UNCHANGED job
      BY DEF Next, Upload, UploadEnqueue, UploadDies, NewRequest, DeleteList, Ask,
         RequestStep, InsertSuppression, Mark, CommitRequest, Add, Cascade,
         RequestFails, Quiet, vars
    <2>2. QED
      BY <2>1 DEF Imports, Unchained
  <1>2. gaveUp \subseteq gaveUp'
    BY MissedGrows
  <1>3. ASSUME NEW k \in Lists, UploadEnqueue(k)
        PROVE  Ahead(l)'
    <2>1. /\ k \in uploads /\ uploads' = uploads \ {k} /\ UNCHANGED file
          /\ queue' = [queue EXCEPT ![ImportTask(k)] = @ + 1]
      BY <1>3 DEF UploadEnqueue, Enqueue, ImportTask
    <2>2. CASE k # l
      <3>1. queue'[ImportTask(l)] = queue[ImportTask(l)]
            /\ queue'[VerifyTask(l)] = queue[VerifyTask(l)]
        BY <2>1, <2>2, ListTasks, Enqueued
      <3>2. QED
        BY <1>1, <1>2, <2>1, <2>2, <3>1 DEF VerificationDue, Ahead
    <2>3. CASE k = l
      <3>1. ImportTask(l) \in Tasks /\ queue' = [queue EXCEPT ![ImportTask(l)] = @ + 1]
        BY <2>1, <2>3, ListTasks
      <3>2. queue'[ImportTask(l)] > 0
        <4>1. queue[ImportTask(l)] \in Nat
              /\ queue'[ImportTask(l)] = queue[ImportTask(l)] + 1
          BY <3>1, Enqueued
        <4>2. QED
          BY <4>1
      <3>3. l \in file'
        BY <2>1, <2>3 DEF OneImport
      <3>4. QED
        BY <3>2, <3>3 DEF VerificationDue, Ahead
    <2>4. QED
      BY <2>2, <2>3
  <1>4. ASSUME UNCHANGED queue, file \subseteq file',
               l \in uploads => l \in uploads' \/ l \in gaveUp'
        PROVE  Ahead(l)'
    BY <1>1, <1>2, <1>4 DEF VerificationDue, Ahead
  <1>5. CASE \E k \in Lists : Upload(k) \/ UploadDies(k)
    BY <1>4, <1>5 DEF Upload, UploadDies
  <1>6. CASE \E q \in Requests : NewRequest(q) \/ RequestStep(q) \/ RequestFails(q)
    BY <1>4, <1>6 DEF NewRequest, DeleteList, Ask, RequestStep, InsertSuppression,
       Mark, CommitRequest, Add, Cascade, RequestFails
  <1>7. CASE UNCHANGED vars
    BY <1>4, <1>7 DEF vars, web
  <1>8. QED
    BY <1>3, <1>5, <1>6, <1>7 DEF Next, Quiet

\* An import has the verification due until it enqueues it.
LEMMA DueImport ==
    ASSUME Typed, NEW l \in Lists, OneImport(l), VerificationDue(l),
           NEW w \in Workers, ImportStep(w)
    PROVE  Ahead(l)'
  <1>1. UNCHANGED uploads /\ gaveUp \subseteq gaveUp'
    BY DEF ImportStep, StartImport, ReadRows, EndOfFile, FlushBatch, FlushError,
           Finalize, Chain, RemoveFile, ImportFails, OnlyImport, web
  <1>2. ASSUME NEW k \in Lists, StartImport(w, k)
        PROVE  Ahead(l)'
    <2>1. /\ queue' = [queue EXCEPT ![ImportTask(k)] = @ - 1] /\ UNCHANGED file
          /\ Moves(w) /\ job[w] = Idle
          /\ k \in file => job'[w].pc = "rows" /\ job'[w].kind = "import"
                            /\ job'[w].list = k
      BY <1>2, StartImportEffect DEF StartImport, Take, ImportTask, Importing
    <2>2. ~Unchained(w, l)
      BY <2>1, IdleWorker DEF Unchained, Imports
    <2>3. queue'[VerifyTask(l)] = queue[VerifyTask(l)]
      BY <2>1, ListTasks, Taken
    <2>4. CASE k # l
      <3>1. queue'[ImportTask(l)] = queue[ImportTask(l)]
        BY <2>1, <2>4, ListTasks, Taken
      <3>2. QED
        BY <1>1, <2>1, <2>2, <2>3, <3>1, DueStays
    <2>5. CASE k = l /\ l \in file
      BY <2>1, <2>5 DEF Ahead, VerificationDue, Unchained, Imports
    <2>6. CASE l \notin file
      BY <1>1, <2>1, <2>2, <2>3, <2>6
         DEF Ahead, VerificationDue, Moves, Unchained, Imports
    <2>7. QED
      BY <2>4, <2>5, <2>6
  <1>3. CASE \/ ReadRows(w) \/ EndOfFile(w) \/ FlushBatch(w) \/ FlushError(w)
             \/ Finalize(w) \/ ImportFails(w)
    <2>1. UNCHANGED <<queue, file>>
      BY <1>3 DEF ReadRows, EndOfFile, FlushBatch, FlushError, Finalize, ImportFails
    <2>2. Moves(w)
      BY <1>3, ReadRowsEffect, EndOfFileEffect, FlushBatchEffect, FlushErrorEffect,
         FinalizeEffect, ImportFailsEffect DEF Importing
    <2>3. Unchained(w, l) => VerificationDue(l)' \/ Ahead(l)'
      <3>1. CASE SameTask(w) /\ job'[w].pc # "remove"
        BY <3>1 DEF VerificationDue, Unchained, Imports, SameTask
      <3>2. CASE gaveUp' = gaveUp \cup {job[w].list}
        BY <3>2 DEF VerificationDue, Unchained, Imports
      <3>3. CASE Finalize(w)
        <4>1. ~Exists(job[w].list) => UNCHANGED list
          BY <3>3 DEF Finalize
        <4>2. CASE job'[w].pc = "chain" /\ SameTask(w)
          BY <3>1, <4>2
        <4>3. CASE ~Exists(job[w].list)
          BY <4>1, <4>3 DEF Ahead, Exists, Unchained, Imports
        <4>4. QED
          BY <3>3, <4>2, <4>3, FinalizeEffect
      <3>4. CASE ReadRows(w) \/ EndOfFile(w) \/ FlushBatch(w) \/ FlushError(w)
        BY <3>1, <3>2, <3>4, ReadRowsEffect, EndOfFileEffect, FlushBatchEffect,
           FlushErrorEffect
      <3>5. QED
        BY <1>3, <3>2, <3>3, <3>4, ImportFailsEffect
    <2>4. QED
      BY <1>1, <2>1, <2>2, <2>3, DueStays
  <1>4. CASE Chain(w)
    <2>1. /\ Moves(w) /\ SameTask(w) /\ job[w].list \in Lists
          /\ queue' = [queue EXCEPT ![VerifyTask(job[w].list)] = @ + 1]
          /\ UNCHANGED file
      BY <1>4, ChainEffect, ImportPhase DEF Chain, Enqueue, VerifyTask, Importing
    <2>2. queue'[ImportTask(l)] = queue[ImportTask(l)]
      BY <2>1, ListTasks, Enqueued
    <2>3. /\ queue[VerifyTask(l)] > 0 => queue'[VerifyTask(l)] > 0
          /\ l = job[w].list => queue'[VerifyTask(l)] > 0
      <3>1. PICK k \in Lists : k = job[w].list
        BY <2>1
      <3>0. queue' = [queue EXCEPT ![VerifyTask(k)] = @ + 1]
        BY <2>1, <3>1
      <3>2. /\ queue[VerifyTask(k)] \in Nat
            /\ queue'[VerifyTask(k)] = queue[VerifyTask(k)] + 1
            /\ \A u \in Tasks \ {VerifyTask(k)} : queue'[u] = queue[u]
        <4>1. VerifyTask(k) \in Tasks
          BY ListTasks
        <4>2. QED
          BY <3>0, <4>1, Enqueued
      <3>3. l # k => queue'[VerifyTask(l)] = queue[VerifyTask(l)]
        BY <3>2, ListTasks
      <3>4. queue'[VerifyTask(k)] > 0
        BY <3>2
      <3>5. QED
        BY <3>1, <3>3, <3>4
    <2>4. Unchained(w, l) => VerificationDue(l)'
      BY <2>3 DEF Unchained, Imports, VerificationDue
    <2>5. QED
      BY <1>1, <2>1, <2>2, <2>3, <2>4, DueStays
  <1>5. CASE RemoveFile(w)
    <2>1. /\ Moves(w) /\ job[w].pc = "remove" /\ job[w].kind = "import"
          /\ UNCHANGED queue /\ file' = file \ {job[w].list}
      BY <1>5, RemoveFileEffect DEF RemoveFile, Importing
    <2>2. queue[ImportTask(l)] > 0 /\ l \in file => l \in file'
      BY <2>1, OneImportHere
    <2>3. ~Unchained(w, l)
      BY <2>1 DEF Unchained
    <2>4. QED
      BY <1>1, <2>1, <2>2, <2>3, DueStays
  <1>6. QED
    BY <1>2, <1>3, <1>4, <1>5 DEF ImportStep

\* A verification taken from the queue begins.
LEMMA DueVerify ==
    ASSUME Typed, NEW l \in Lists, VerificationDue(l), NEW w \in Workers,
           VerifyStep(w)
    PROVE  Ahead(l)'
  <1>1. /\ UNCHANGED <<uploads, file>>
        /\ Moves(w) /\ ~Unchained(w, l)
    BY VerifyMoves DEF VerifyStep, StartVerify, ReadContacts, ProbeBatch, Load, Flush,
       InsertKey, CommitBatch, Conclude, Aborted, VerifyFails, OnlyVerify, web,
       Unchained, Imports
  <1>2. gaveUp \subseteq gaveUp'
    BY MissedGrows DEF Next, WorkerStep
  <1>3. ASSUME NEW k \in Lists, StartVerify(w, k)
        PROVE  Ahead(l)'
    <2>1. queue' = [queue EXCEPT ![VerifyTask(k)] = @ - 1] /\ UNCHANGED list
      BY <1>3 DEF StartVerify, Take, VerifyTask, db
    <2>2. queue'[ImportTask(l)] = queue[ImportTask(l)]
      BY <2>1, ListTasks, Taken
    <2>3. CASE k # l
      <3>1. queue'[VerifyTask(l)] = queue[VerifyTask(l)]
        BY <2>1, <2>3, ListTasks, Taken
      <3>2. QED
        BY <1>1, <1>2, <2>2, <3>1, DueStays
    <2>4. CASE k = l
      <3>1. \/ ~Exists(l)
            \/ job'[w].pc = "start" /\ job'[w].kind = "verify" /\ job'[w].list = l
        BY <1>3, <2>4, StartVerifyEffect
      <3>2. QED
        BY <2>1, <3>1 DEF Ahead, Exists, Verifies
    <2>5. QED
      BY <2>3, <2>4
  <1>4. CASE ~\E k \in Lists : StartVerify(w, k)
    <2>1. UNCHANGED queue
      BY <1>4 DEF VerifyStep, ReadContacts, ProbeBatch, Load, Flush,
       InsertKey, CommitBatch, Conclude, Aborted, VerifyFails
    <2>2. QED
      BY <1>1, <1>2, <2>1, DueStays
  <1>5. QED
    BY <1>3, <1>4

\* A worker that dies leaves its task in the queue.
LEMMA Redelivered ==
    ASSUME Typed, NEW w \in Workers, WorkerDies(w)
    PROVE  /\ \A t \in Tasks : queue[t] > 0 => queue'[t] > 0
           /\ \A l \in Lists : /\ Imports(w, l) => queue'[ImportTask(l)] > 0
                               /\ Verifies(w, l) => queue'[VerifyTask(l)] > 0
  <1>1. PICK t \in Tasks : t = [kind |-> job[w].kind, list |-> job[w].list]
    BY WorkerDiesEffect DEF Tasks
  <1>2. queue' = [queue EXCEPT ![t] = @ + 1]
    BY <1>1 DEF WorkerDies, Enqueue
  <1>3. /\ queue[t] \in Nat /\ queue'[t] = queue[t] + 1
        /\ \A u \in Tasks \ {t} : queue'[u] = queue[u]
    BY <1>2, Enqueued
  <1>4. /\ queue'[t] > 0
        /\ \A u \in Tasks : queue[u] > 0 => queue'[u] > 0
    BY <1>3
  <1>5. QED
    BY <1>1, <1>4 DEF Imports, Verifies, ImportTask, VerifyTask

\* A worker that dies takes no verification along.
LEMMA DueDies ==
    ASSUME Typed, NEW l \in Lists, OneImport(l), VerificationDue(l),
           NEW w \in Workers, WorkerDies(w)
    PROVE  Ahead(l)'
  <1>1. /\ UNCHANGED <<uploads, gaveUp>> /\ Moves(w)
        /\ file' = file \/ (job[w].pc = "remove" /\ file' = file \ {job[w].list})
    BY WorkerDiesEffect DEF WorkerDies, web
  <1>2. /\ queue[ImportTask(l)] > 0 => queue'[ImportTask(l)] > 0
        /\ queue[VerifyTask(l)] > 0 => queue'[VerifyTask(l)] > 0
    BY Redelivered, ListTasks
  <1>3. CASE \E v \in Workers \ {w} : Unchained(v, l)
    BY <1>1, <1>3 DEF Ahead, VerificationDue, Moves, Unchained, Imports
  <1>4. CASE Unchained(w, l)
    <2>1. queue'[ImportTask(l)] > 0
      BY <1>4, Redelivered DEF Unchained
    <2>2. l \in file'
      BY <1>1, <1>4 DEF OneImport, Unchained
    <2>3. QED
      BY <2>1, <2>2 DEF Ahead, VerificationDue
  <1>5. CASE queue[ImportTask(l)] > 0 /\ l \in file
    <2>1. l \in file'
      <3>1. job[w].pc = "remove" => job[w].kind = "import"
        BY ImportPhase
      <3>2. QED
        BY <1>1, <1>5, <3>1, OneImportHere
    <2>2. QED
      BY <1>2, <1>5, <2>1 DEF Ahead, VerificationDue
  <1>6. CASE l \in uploads \/ queue[VerifyTask(l)] > 0 \/ l \in gaveUp
    BY <1>1, <1>2, <1>6 DEF Ahead, VerificationDue
  <1>7. QED
    BY <1>3, <1>4, <1>5, <1>6 DEF VerificationDue

\* A verification that is due stays so until it begins.
LEMMA DueStep ==
    ASSUME Typed, NEW l \in Lists, OneImport(l), VerificationDue(l), [Next]_vars
    PROVE  Ahead(l)'
  BY DueWeb, DueImport, DueVerify, DueDies DEF WorkerStep

-----------------------------------------------------------------------------
(* What is left to be done about a list.                                    *)

\* A contact of the list without a verdict.
Unchecked(l, a) == contact[a].list = l /\ contact[a].result = "pending"

\* What the requests make of the contacts without a verdict.
LEMMA UncheckedRequest ==
    ASSUME Typed, NEW q \in Requests,
           NewRequest(q) \/ RequestStep(q) \/ RequestFails(q),
           NEW l \in Lists, NEW a \in Addresses, Unchecked(l, a)'
    PROVE  Unchecked(l, a) \/ a \in manual'
  <1>1. RowsTyped /\ Asked(req[q])
    BY TypedParts
  <1>2. NoContact.list = NoList /\ NoList # l
    BY ContactStoreAssumption DEF NoContact
  <1>3. CASE UNCHANGED contact
    BY <1>3 DEF Unchecked
  <1>4. CASE CommitRequest(q)
    <2> DEFINE b == req[q].addr
    <2>1. b \in Addresses
      BY <1>1, <1>4 DEF CommitRequest, Asked
    <2>2. \/ UNCHANGED contact
          \/ contact' = [contact EXCEPT ![b] = NoContact]
          \/ contact' = [contact EXCEPT ![b].active = FALSE]
      BY <1>4 DEF CommitRequest
    <2>3. CASE contact' = [contact EXCEPT ![b] = NoContact]
      BY <1>1, <1>2, <2>1, <2>3 DEF Unchecked, RowsTyped
    <2>4. CASE contact' = [contact EXCEPT ![b].active = FALSE]
      BY <1>1, <2>1, <2>4 DEF Unchecked, RowsTyped
    <2>5. QED
      BY <1>3, <2>2, <2>3, <2>4
  <1>5. CASE Add(q)
    <2> DEFINE b == req[q].addr
               row == [list |-> req[q].list, active |-> TRUE, result |-> "pending"]
    <2>1. \/ UNCHANGED contact
          \/ contact' = [contact EXCEPT ![b] = row]
      BY <1>5 DEF Add
    <2>2. contact' = contact \/ manual' = manual \cup {b}
      BY <1>5 DEF Add
    <2>3. CASE a = b
      BY <1>3, <2>2, <2>3
    <2>4. CASE a # b
      BY <1>1, <2>1, <2>4 DEF Unchecked, RowsTyped
    <2>5. QED
      BY <2>3, <2>4
  <1>6. CASE Cascade(q)
    <2>1. contact'[a] = contact[a] \/ contact'[a] = NoContact
      BY <1>6 DEF Cascade
    <2>2. QED
      BY <1>2, <2>1 DEF Unchecked
  <1>7. QED
    BY <1>3, <1>4, <1>5, <1>6 DEF NewRequest, DeleteList, Ask, RequestStep,
       InsertSuppression, Mark, RequestFails, db

\* What the workers make of them.
LEMMA UncheckedWorker ==
    ASSUME Typed, RowsLocked, VerdictsDefinite, NEW w \in Workers,
           WorkerStep(w) \/ WorkerDies(w),
           NEW l \in Lists, NEW a \in Addresses, Unchecked(l, a)'
    PROVE  /\ Unchecked(l, a) \/ Unchained(w, l)'
           /\ CommitBatch(w) /\ a \in job[w].held => a \in missed
  <1>1. CASE FlushBatch(w)
    <2> DEFINE new == job[w].pending \ job[w].skip
    <2>1. /\ SameTask(w) /\ job[w].pc = "insert" /\ job'[w].pc \in {"finalize", "rows"}
          /\ \A b \in new : contact'[b] = [list |-> job[w].list, active |-> TRUE,
                                           result |-> "pending"]
          /\ \A b \in Addresses \ new : contact'[b] = contact[b]
      BY <1>1, FlushBatchEffect
    <2>2. job[w].kind = "import" /\ ~CommitBatch(w)
      BY <2>1, ImportPhase DEF CommitBatch
    <2>3. CASE a \in new
      <3>1. job'[w].list = l
        BY <2>1, <2>3 DEF Unchecked, SameTask
      <3>2. QED
        BY <2>1, <2>2, <3>1 DEF Unchained, Imports, SameTask
    <2>4. CASE a \notin new
      <3>1. contact'[a] = contact[a]
        BY <2>1, <2>4
      <3>2. QED
        BY <2>2, <3>1 DEF Unchecked
    <2>5. QED
      BY <2>3, <2>4
  <1>2. CASE CommitBatch(w)
    <2>1. /\ job[w].pc = "write"
          /\ contact'[a] = IF a \in job[w].held
                           THEN Written(contact[a], job[w].verdict[a])
                           ELSE contact[a]
      BY <1>2, CommitBatchEffect
    <2>2. CASE a \in job[w].held
      <3>1. job[w].kind = "verify"
        BY <2>1, VerifyPhase
      <3>2. /\ job[w].verdict[a] # "pending"
            /\ job[w].verdict[a] = "lost" => a \in missed
        BY <2>1, <2>2, <3>1 DEF VerdictsDefinite, Definite
      <3>3. /\ contact'[a].list = contact[a].list
            /\ job[w].verdict[a] # "lost" => contact'[a].result = job[w].verdict[a]
            /\ job[w].verdict[a] = "lost" => contact'[a].result = contact[a].result
        BY <2>1, <2>2, WrittenVerdict
      <3>4. QED
        BY <3>2, <3>3 DEF Unchecked
    <2>3. CASE a \notin job[w].held
      BY <2>1, <2>3 DEF Unchecked
    <2>4. QED
      BY <2>2, <2>3
  <1>3. CASE ~FlushBatch(w) /\ ~CommitBatch(w)
    <2>1. UNCHANGED contact
      BY <1>3 DEF WorkerStep, WorkerDies, ImportStep, VerifyStep, StartImport,
         ReadRows, EndOfFile, FlushError, Finalize, Chain, RemoveFile,
         ImportFails, StartVerify, ReadContacts, ProbeBatch, Load, Flush,
         InsertKey, Conclude, Aborted, VerifyFails, db
    <2>2. QED
      BY <1>3, <2>1 DEF Unchecked
  <1>4. QED
    BY <1>1, <1>2, <1>3

\* A verification does not pass over a contact without a verdict.
LEMMA ChecksOn ==
    ASSUME Typed, RowsLocked, VerdictsDefinite, NEW w \in Workers, VerifyStep(w),
           NEW l \in Lists, NEW a \in Addresses, Unchecked(l, a), Unchecked(l, a)',
           Verifies(w, l), Checks(w, a)
    PROVE  \/ Verifies(w, l)' /\ Checks(w, a)'
           \/ a \in missed' \/ VerificationDue(l)'
  <1>1. job[w].list = l /\ job[w].kind = "verify" /\ job[w] # Idle /\ a # Nobody
    BY IdleWorker, ContactStoreAssumption DEF Verifies
  <1>2. Exists(l)
    BY ContactStoreAssumption DEF Unchecked, Typed, TypeOK, Exists
  <1>3. CASE \E k \in Lists : StartVerify(w, k)
    BY <1>1, <1>3, StartVerifyEffect
  <1>4. CASE ReadContacts(w)
    <2>1. SameTask(w) /\ job'[w].pc = "probe" /\ job'[w].rows = InList(l)
      BY <1>1, <1>2, <1>4, ReadContactsEffect
    <2>2. QED
      BY <1>1, <2>1 DEF Unchecked, Verifies, Checks, InList, SameTask
  <1>5. CASE ProbeBatch(w)
    <2>1. /\ SameTask(w) /\ job[w].pc = "probe" /\ job'[w].pc = "write"
          /\ job[w].held = {} /\ job[w].batch = {}
          /\ job'[w].rows = job[w].rows \ job'[w].batch
      BY <1>5, ProbeBatchEffect
    <2>2. QED
      BY <1>1, <2>1 DEF Verifies, Checks, SameTask
  <1>6. ASSUME NEW b \in Addresses, Load(w, b)
        PROVE  Verifies(w, l)' /\ Checks(w, a)'
    <2>1. /\ SameTask(w) /\ job'[w].held = job[w].held
          /\ job[w].pc = "write" /\ b \in job[w].batch
          /\ job'[w].rows = job[w].rows /\ job'[w].batch = job[w].batch \ {b}
          /\ IF Present(w, b) /\ contact[b].result # job[w].verdict[b]
             THEN job'[w].pc = "flush" /\ job'[w].cur = b
             ELSE job'[w].pc = "write"
      BY <1>6, LoadEffect DEF SameLocks
    <2>2. a \in job[w].rows \cup job[w].batch \cup job[w].held
      BY <2>1 DEF Checks
    <2>3. a = b => Present(w, b) /\ contact[b].result # job[w].verdict[b]
      BY <1>1, <2>1 DEF Unchecked, Present, VerdictsDefinite, Definite
    <2>4. QED
      BY <1>1, <2>1, <2>2, <2>3 DEF Verifies, Checks, SameTask
  <1>7. CASE Flush(w)
    <2> DEFINE b == job[w].cur
    <2>1. /\ SameTask(w) /\ job[w].pc = "flush"
          /\ job'[w].rows = job[w].rows /\ job'[w].batch = job[w].batch
          /\ \/ /\ ~Present(w, b) /\ job'[w].pc = "fail"
                /\ missed' = missed \cup Unwritten(w)
             \/ /\ ~Present(w, b) /\ job'[w].pc = "write"
                /\ job'[w].held = job[w].held
             \/ /\ job'[w].held = job[w].held \cup {b}
                /\ job'[w].pc \in {"key", "write"}
      BY <1>7, FlushEffect DEF SameLocks
    <2>2. a \in job[w].rows \cup job[w].batch \cup job[w].held \/ a = b
      BY <2>1 DEF Checks
    <2>3. a \in Unwritten(w)
      BY <1>1, <2>2 DEF Unwritten
    <2>4. a = b => Present(w, b)
      BY <1>1 DEF Unchecked, Present
    <2>5. QED
      BY <1>1, <2>1, <2>2, <2>3, <2>4 DEF Verifies, Checks, SameTask
  <1>8. CASE InsertKey(w)
    <2>1. /\ SameTask(w) /\ job[w].pc = "key" /\ job[w].cur \in job[w].held
          /\ job'[w].rows = job[w].rows /\ job'[w].batch = job[w].batch
          /\ \/ missed' = missed \cup job[w].held /\ job'[w].pc = "flush"
             \/ job'[w].held = job[w].held /\ job'[w].pc = "write"
      BY <1>8, InsertKeyEffect
    <2>2. a \in job[w].rows \cup job[w].batch \cup job[w].held
      BY <2>1 DEF Checks
    <2>3. QED
      BY <1>1, <2>1, <2>2 DEF Verifies, Checks, SameTask
  <1>9. CASE CommitBatch(w)
    <2>1. /\ SameTask(w) /\ job[w].pc = "write" /\ job[w].batch = {}
          /\ job'[w].rows = job[w].rows /\ UNCHANGED missed
          /\ job'[w].pc = "probe" \/ ~Exists(job[w].list)
      BY <1>9, CommitBatchEffect DEF CommitBatch
    <2>2. a \in job[w].held => a \in missed
      BY <1>9, UncheckedWorker DEF WorkerStep, VerifyStep
    <2>3. a \in job[w].rows \cup job[w].held
      BY <2>1 DEF Checks
    <2>4. QED
      BY <1>1, <1>2, <2>1, <2>2, <2>3 DEF Verifies, Checks, SameTask
  <1>10. CASE Conclude(w)
    <2>1. /\ job[w].pc \in {"probe", "fail"} /\ job[w].held = {}
          /\ job[w].pc = "probe" => job[w].rows = {} /\ job[w].batch = {}
      BY <1>10, ConcludeEffect
    <2>2. QED
      BY <2>1 DEF Checks
  <1>11. CASE Aborted(w)
    <2>1. /\ missed' = missed \cup Unwritten(w)
          /\ job[w].pc \in {"probe", "write", "flush", "key"}
      BY <1>11 DEF Aborted, Struck
    <2>2. a \in Unwritten(w)
      BY <1>1, <2>1 DEF Checks, Unwritten
    <2>3. QED
      BY <2>1, <2>2
  <1>12. CASE VerifyFails(w)
    BY <1>1, <1>12, VerifyFailsEffect DEF VerificationDue
  <1>13. QED
    BY <1>3, <1>4, <1>5, <1>6, <1>7, <1>8, <1>9, <1>10, <1>11, <1>12 DEF VerifyStep

\* A process moves, one at a time.
LEMMA OneMoves ==
    ASSUME Typed, [Next]_vars
    PROVE  \/ UNCHANGED job
           \/ \E w \in Workers : Moves(w) /\ (WorkerStep(w) \/ WorkerDies(w))
  <1>1. ASSUME NEW w \in Workers, ImportStep(w)
        PROVE  Moves(w)
    BY <1>1, StartImportEffect, ReadRowsEffect, EndOfFileEffect, FlushBatchEffect,
       FlushErrorEffect, FinalizeEffect, ChainEffect, RemoveFileEffect,
       ImportFailsEffect DEF ImportStep, Importing
  <1>2. CASE ~\E w \in Workers : WorkerStep(w) \/ WorkerDies(w)
    BY <1>2 DEF Next, Upload, UploadEnqueue, UploadDies, NewRequest, DeleteList, Ask,
       RequestStep, InsertSuppression, Mark, CommitRequest, Add, Cascade,
       RequestFails, Quiet, vars
  <1>3. QED
    BY <1>1, <1>2, VerifyMoves, WorkerDiesEffect DEF WorkerStep

\* An import is no verification.
LEMMA ImportIsNoVerification ==
    ASSUME Typed, NEW w \in Workers, ImportStep(w)
    PROVE  job[w].kind # "verify"
  <1>1. job[w].pc \in {"rows", "insert", "finalize", "chain", "remove"}
        \/ \E l \in Lists : StartImport(w, l)
    BY DEF ImportStep, ReadRows, EndOfFile, FlushBatch, FlushError, Finalize, Chain,
           RemoveFile, ImportFails
  <1>2. QED
    BY <1>1, ImportPhase, StartImportEffect, IdleWorker

\* What a verification has before it stays covered.
LEMMA CheckedOn ==
    ASSUME Typed, RowsLocked, VerdictsDefinite, [Next]_vars, NEW w \in Workers,
           NEW l \in Lists, NEW a \in Addresses, Unchecked(l, a), Unchecked(l, a)',
           Verifies(w, l), Checks(w, a)
    PROVE  Covered(l, a)'
  <1>1. CASE VerifyStep(w)
    <2>1. \/ Verifies(w, l)' /\ Checks(w, a)'
          \/ a \in missed' \/ VerificationDue(l)'
      BY <1>1, ChecksOn
    <2>2. QED
      BY <2>1 DEF Covered
  <1>2. CASE WorkerDies(w)
    BY <1>2, Redelivered DEF Covered, VerificationDue
  <1>3. CASE job'[w] = job[w]
    <2>1. Verifies(w, l)' /\ Checks(w, a)'
      BY <1>3 DEF Verifies, Checks
    <2>2. QED
      BY <2>1 DEF Covered
  <1>4. \/ VerifyStep(w) \/ WorkerDies(w) \/ job'[w] = job[w]
    BY OneMoves, ImportIsNoVerification DEF Verifies, Moves, WorkerStep
  <1>5. QED
    BY <1>1, <1>2, <1>3, <1>4

\* Every step forgets no contact.
LEMMA ContactsStep ==
    ASSUME Typed, RowsLocked, Typed', \A l \in Lists : OneImport(l),
           VerdictsDefinite, ContactsCovered, [Next]_vars
    PROVE  ContactsCovered'
  <1>1. SUFFICES ASSUME NEW l \in Lists, NEW a \in Addresses, Unchecked(l, a)'
                 PROVE  Covered(l, a)'
    BY DEF ContactsCovered, Unchecked, InList
  <1>2. Exists(l)'
    <2>1. contact'[a].list = l
      BY <1>1 DEF Unchecked
    <2>2. QED
      BY <2>1, ContactStoreAssumption DEF Typed, TypeOK, Exists
  <1>3. CASE Unchecked(l, a)
    <2>1. Covered(l, a)
      BY <1>3 DEF ContactsCovered, Unchecked, InList
    <2>2. CASE a \in missed \cup manual
      BY <2>2, MissedGrows DEF Covered
    <2>3. CASE VerificationDue(l)
      <3>1. Ahead(l)'
        BY <2>3, DueStep
      <3>2. QED
        BY <1>2, <3>1 DEF Ahead, Covered, Checks
    <2>4. CASE \E w \in Workers : Verifies(w, l) /\ Checks(w, a)
      BY <1>1, <1>3, <2>4, CheckedOn
    <2>5. QED
      BY <2>1, <2>2, <2>3, <2>4 DEF Covered
  <1>4. CASE ~Unchecked(l, a)
    <2>1. \/ a \in manual'
          \/ \E w \in Workers : Unchained(w, l)'
      <3>1. ASSUME NEW q \in Requests,
                   NewRequest(q) \/ RequestStep(q) \/ RequestFails(q)
            PROVE  a \in manual'
        BY <1>1, <1>4, <3>1, UncheckedRequest
      <3>2. ASSUME NEW w \in Workers, WorkerStep(w) \/ WorkerDies(w)
            PROVE  Unchained(w, l)'
        BY <1>1, <1>4, <3>2, UncheckedWorker
      <3>3. ~UNCHANGED contact
        BY <1>1, <1>4 DEF Unchecked
      <3>4. QED
        BY <3>1, <3>2, <3>3 DEF Next, Upload, UploadEnqueue, UploadDies, Quiet,
           vars, db
    <2>2. QED
      BY <2>1 DEF Covered, VerificationDue
  <1>5. QED
    BY <1>3, <1>4

\* A verification goes on, is due again, or gives its list a status.
LEMMA VerifiesOn ==
    ASSUME Typed, NEW w \in Workers, VerifyStep(w),
           NEW l \in Lists, Verifies(w, l),
           list'[l].status \in {"pending_verification", "verifying"}
    PROVE  Attended(l)'
  <1>1. job[w].list = l /\ job[w].kind = "verify" /\ job[w] # Idle
    BY IdleWorker DEF Verifies
  <1>2. CASE SameTask(w)
    BY <1>1, <1>2 DEF Attended, Verifies, SameTask
  <1>3. CASE ReadContacts(w)
    <2>1. \/ SameTask(w)
          \/ ~Exists(l) /\ UNCHANGED list
      BY <1>1, <1>3, ReadContactsEffect
    <2>2. QED
      BY <1>2, <2>1 DEF Exists, Typed, TypeOK
  <1>4. CASE Conclude(w)
    <2>1. list' = IF ~Exists(l) THEN list
                  ELSE [list EXCEPT ![l].status =
                            IF job[w].pc = "fail" THEN "failed" ELSE "ready"]
      BY <1>1, <1>4 DEF Conclude
    <2>2. CASE ~Exists(l)
      BY <2>1, <2>2 DEF Exists
    <2>3. CASE Exists(l)
      BY <2>1, <2>3 DEF Typed, TypeOK
    <2>4. QED
      BY <2>2, <2>3
  <1>5. CASE VerifyFails(w)
    BY <1>1, <1>5, VerifyFailsEffect DEF Attended, VerificationDue
  <1>6. QED
    BY <1>1, <1>2, <1>3, <1>4, <1>5, StartVerifyEffect, ProbeBatchEffect, LoadEffect,
       FlushEffect, InsertKeyEffect, CommitBatchEffect, AbortedEffect DEF VerifyStep

\* A list begins to wait when it is uploaded, and to be verified when a
\* verification reads it.
LEMMA BeginsToWait ==
    ASSUME Typed, [Next]_vars, NEW l \in Lists,
           list[l].status \notin {"pending_verification", "verifying"},
           list'[l].status \in {"pending_verification", "verifying"}
    PROVE  Attended(l)'
  <1>1. list \in [Lists -> [status : ListStatuses, imported : BOOLEAN]]
    BY DEF Typed, TypeOK
  <1>2. ASSUME NEW q \in Requests, NewRequest(q) \/ RequestStep(q) \/ RequestFails(q)
        PROVE  FALSE
    BY <1>1, <1>2 DEF NewRequest, DeleteList, Ask, RequestStep, InsertSuppression,
       Mark, CommitRequest, Add, Cascade, RequestFails, db
  <1>3. ASSUME NEW k \in Lists, Upload(k) \/ UploadEnqueue(k) \/ UploadDies(k)
        PROVE  Attended(l)'
    <2>1. list' # list
      BY <1>1
    <2>2. uploads' = uploads \cup {k}
          /\ list' = [list EXCEPT ![k].status = "pending_verification"]
      BY <1>3, <2>1 DEF Upload, UploadEnqueue, UploadDies, db
    <2>3. l = k
      BY <1>1, <2>2
    <2>4. QED
      BY <2>2, <2>3 DEF Attended, VerificationDue
  <1>4. ASSUME NEW w \in Workers, WorkerStep(w) \/ WorkerDies(w)
        PROVE  Attended(l)'
    <2>1. CASE ReadContacts(w)
      <3>1. /\ SameTask(w) /\ job[w].pc = "start"
            /\ list' = [list EXCEPT ![job[w].list].status = "verifying"]
        BY <2>1, ReadContactsEffect
      <3>2. job[w].list = l
        BY <1>1, <3>1
      <3>3. QED
        BY <3>1, <3>2, VerifyPhase DEF Attended, Verifies, SameTask
    <2>2. CASE Finalize(w) \/ Conclude(w)
      BY <1>1, <2>2 DEF Finalize, Conclude
    <2>3. CASE ~(Finalize(w) \/ ReadContacts(w) \/ Conclude(w))
      BY <1>4, <2>3 DEF WorkerStep, WorkerDies, ImportStep, VerifyStep, StartImport,
         ReadRows, EndOfFile, FlushBatch, FlushError, Chain, RemoveFile,
         ImportFails, StartVerify, ProbeBatch, Load, Flush,
         InsertKey, CommitBatch, Aborted, VerifyFails, db
    <2>4. QED
      BY <2>1, <2>2, <2>3
  <1>5. CASE UNCHANGED vars
    BY <1>5 DEF vars, db
  <1>6. QED
    BY <1>2, <1>3, <1>4, <1>5 DEF Next, Quiet

\* Nor a list.
LEMMA ListsStep ==
    ASSUME Typed, \A l \in Lists : OneImport(l), ListsCovered, [Next]_vars
    PROVE  ListsCovered'
  <1>1. SUFFICES ASSUME NEW l \in Lists,
                        list'[l].status \in {"pending_verification", "verifying"}
                 PROVE  Attended(l)'
    BY DEF ListsCovered
  <1>2. CASE list[l].status \notin {"pending_verification", "verifying"}
    BY <1>1, <1>2, BeginsToWait
  <1>3. CASE VerificationDue(l)
    <2>1. Ahead(l)'
      BY <1>3, DueStep
    <2>2. QED
      BY <1>1, <2>1 DEF Ahead, Attended, Exists
  <1>4. ASSUME NEW w \in Workers, Verifies(w, l)
        PROVE  Attended(l)'
    <2>1. CASE VerifyStep(w)
      BY <1>1, <1>4, <2>1, VerifiesOn
    <2>2. CASE WorkerDies(w)
      BY <1>4, <2>2, Redelivered DEF Attended, VerificationDue
    <2>3. CASE job'[w] = job[w]
      BY <1>4, <2>3 DEF Attended, Verifies
    <2>4. VerifyStep(w) \/ WorkerDies(w) \/ job'[w] = job[w]
      BY <1>4, OneMoves, ImportIsNoVerification DEF Verifies, Moves, WorkerStep
    <2>5. QED
      BY <2>1, <2>2, <2>3, <2>4
  <1>5. QED
    BY <1>2, <1>3, <1>4 DEF ListsCovered, Attended

\* Nothing is left to do for a list that is not busy.
LEMMA NotBusy ==
    ASSUME NEW l \in Lists, ~Busy(l)
    PROVE  /\ VerificationDue(l) => l \in gaveUp
           /\ ~\E w \in Workers : Verifies(w, l)
  <1>1. /\ l \notin uploads
        /\ ~(queue[ImportTask(l)] > 0) /\ ~(queue[VerifyTask(l)] > 0)
        /\ \A w \in Workers : job[w].list # l
    BY ListTasks DEF Busy
  <1>2. QED
    BY <1>1 DEF VerificationDue, Unchained, Imports, Verifies

\* What the two theorems below need: every list and every contact of it is
\* attended to.
Settling ==
    /\ \A l \in Lists : OneImport(l)
    /\ VerdictsDefinite
    /\ ContactsCovered
    /\ ListsCovered

\* Every step keeps all of it.
LEMMA SettlingStep ==
    ASSUME Typed, RowsLocked, Settling, [Next]_vars
    PROVE  Settling'
  <1>1. Typed'
    BY RowsStep
  <1>2. (\A l \in Lists : OneImport(l))'
    BY OneImportStep DEF Settling
  <1>3. QED
    BY <1>1, <1>2, DefiniteStep, ContactsStep, ListsStep DEF Settling

\* It holds at first.
LEMMA SettlingInit ==
    ASSUME Init
    PROVE  Settling
  <1>1. \A w \in Workers : job[w].kind = "none" /\ job[w].list = NoList
    BY IdleWorker DEF Init
  <1>2. \A l \in Lists : queue[ImportTask(l)] = 0 /\ queue[VerifyTask(l)] = 0
    BY ListTasks DEF Init
  <1>3. \A l \in Lists : OneImport(l)
    BY <1>1, <1>2 DEF Init, OneImport, Imports, Unchained
  <1>4. VerdictsDefinite
    BY <1>1 DEF VerdictsDefinite, Definite
  <1>5. ContactsCovered /\ ListsCovered
    BY ContactStoreAssumption
       DEF Init, ContactsCovered, ListsCovered, InList, NoContact
  <1>6. QED
    BY <1>3, <1>4, <1>5 DEF Settling

\* So it holds in every state of every behaviour.
LEMMA SettlingHolds == Spec => []Settling
  <1>1. Init => Settling
    BY SettlingInit
  <1>2. Typed /\ RowsLocked /\ Settling /\ [Next]_vars => Settling'
    BY SettlingStep
  <1>3. QED
    BY <1>1, <1>2, RowsSafe, PTL DEF Spec

\* ReadyMeansChecked in every behaviour: however the workers and the requests
\* interleave, die and deadlock, a contact without a verdict is always before
\* a verification under way or to come, or its verdict was rolled back, or it
\* was added by hand, or a task of its list ended unheeded.
THEOREM ReadyMeansCheckedHolds == Spec => []ReadyMeansChecked
  <1>1. Settling => ReadyMeansChecked
    BY NotBusy DEF Settling, ContactsCovered, Covered, ReadyMeansChecked
  <1>2. QED
    BY <1>1, SettlingHolds, PTL

\* QuietMeansSettled in every behaviour: a list that waits or is verified has
\* a task queued or running that will give it another status, unless one ended
\* unheeded.
THEOREM QuietMeansSettledHolds == Spec => []QuietMeansSettled
  <1>1. Typed /\ Settling => QuietMeansSettled
    BY NotBusy DEF Settling, ListsCovered, Attended, QuietMeansSettled, Typed,
                   TypeOK, ListStatuses
  <1>2. QED
    BY <1>1, RowsSafe, SettlingHolds, PTL

=============================================================================
