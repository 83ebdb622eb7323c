---------------------------- MODULE ContactStore ----------------------------
(***************************************************************************)
(* The contacts and the global suppression list, as PostgreSQL keeps them  *)
(* for the list pages (app/web/lists.py, app/services/lists.py), the CSV   *)
(* import and the verification of a list: the state these share, the locks *)
(* their open transactions hold, and the requests of the pages.  ListImport*)
(* and ListVerification add the two Celery tasks, and Lists composes all.  *)
(*                                                                         *)
(* An address is its own domain.  A contact row, named by its address, has *)
(* the list it is in; names, counts and other display data are left out.   *)
(***************************************************************************)
EXTENDS Integers, FiniteSets, Sequences

CONSTANTS
    Addresses,      \* normalized e-mail addresses
    FreeProviders,  \* those the free-provider patterns match
    DeadDomains,    \* those whose domain has neither MX nor A record
    BadRow,         \* a row validate_syntax refuses
    Lists,          \* contact_lists rows, each the upload of one file
    NoList,
    FileOf,         \* the rows of each list's file, in order
    Filtered,       \* the lists uploaded with the free-provider filter
    Workers,        \* the Celery worker processes
    Requests,       \* requests of the list pages, one each
    Nobody,         \* no address
    ImportBatch,    \* csv_import._BATCH
    VerifyBatch,    \* verification._BATCH
    MaxFaults       \* bound: processes that die, transactions that fail

ASSUME ContactStoreAssumption ==
    /\ IsFiniteSet(Addresses)
    /\ Nobody \notin Addresses /\ BadRow \notin Addresses
    /\ FreeProviders \subseteq Addresses /\ DeadDomains \subseteq Addresses
    /\ NoList \notin Lists
    /\ FileOf \in [Lists -> Seq(Addresses \cup {BadRow})]
    /\ Filtered \subseteq Lists
    /\ Requests \cap Workers = {}
    /\ ImportBatch \in Nat \ {0} /\ VerifyBatch \in Nat \ {0}
    /\ MaxFaults \in Nat

VARIABLES
    \* PostgreSQL
    list,        \* contact_lists: verification_status, import_summary is set
    contact,     \* contacts: the row of each address
    suppressed,  \* suppressions
    \* Redis, the broker and the upload directory
    mxcache,     \* mxcache:<domain>
    queue,       \* copies of each task in the broker
    file,        \* the lists whose uploaded file is on disk
    \* the processes
    job,         \* the Celery workers
    uploads,     \* the uploads committed and not enqueued yet
    req,         \* the other web requests
    \* what the model records to state properties; no action reads them
    known,       \* addresses that were a contact or suppressed at some time
    missed,      \* addresses whose verdict was rolled back, or not come to
    manual,      \* addresses whose contact was added by hand
    gaveUp,      \* the lists of which an upload or a task ended unheeded
    faults       \* faults so far, at most MaxFaults

db     == <<list, contact, suppressed>>
ghosts == <<known, missed, manual, gaveUp, faults>>
web    == <<uploads, req>>
vars   == <<db, mxcache, queue, file, job, web, ghosts>>

ListStatuses == {"pending_verification", "verifying", "ready", "failed",
                 "unused", "deleted"}

Verdicts == {"pending", "valid", "invalid", "unknown"}

NoContact == [list |-> NoList, active |-> FALSE, result |-> "pending"]

Tasks == [kind : {"import", "verify"}, list : Lists]

\* A worker.  Import: the rows read so far, the addresses not stored yet, and
\* of these the ones the last look found suppressed or existing.  Verify: the
\* rows still to check, the batch in hand, its verdicts, the contact in hand,
\* and the row and key locks of the open transaction.
Jobs == [pc : {"idle", "rows", "insert", "finalize", "chain", "remove",
               "start", "probe", "write", "flush", "key", "fail"},
         kind : {"none", "import", "verify"},
         list : Lists \cup {NoList}, pos : Nat,
         pending : SUBSET Addresses, skip : SUBSET Addresses,
         rows : SUBSET Addresses, batch : SUBSET Addresses,
         verdict : [Addresses -> Verdicts \cup {"lost"}],
         cur : Addresses \cup {Nobody},
         held : SUBSET Addresses, keys : SUBSET Addresses]

NoVerdict == [a \in Addresses |-> "pending"]

At(pc, kind, l) ==
    [pc |-> pc, kind |-> kind, list |-> l, pos |-> 0, pending |-> {},
     skip |-> {}, rows |-> {}, batch |-> {}, verdict |-> NoVerdict,
     cur |-> Nobody, held |-> {}, keys |-> {}]

Idle == At("idle", "none", NoList)

\* A request, the address it is about, and the list: the one an address is
\* added to, the one whose row a deletion holds, or the one of the contact
\* whose row the open transaction holds.
Calls == [pc : {"new", "insert", "mark", "commit", "add", "cascade", "done"},
          kind : {"none", "suppress", "remove", "add", "delete"},
          addr : Addresses \cup {Nobody}, list : Lists \cup {NoList}]

Call(pc, kind, a, l) == [pc |-> pc, kind |-> kind, addr |-> a, list |-> l]

Done == Call("done", "none", Nobody, NoList)

TypeOK ==
    /\ list \in [Lists -> [status : ListStatuses, imported : BOOLEAN]]
    /\ contact \in [Addresses -> [list : Lists \cup {NoList},
                                  active : BOOLEAN, result : Verdicts]]
    /\ \A a \in Addresses : contact[a].list = NoList => contact[a] = NoContact
    /\ \A a \in Addresses : contact[a].list # NoList =>
            list[contact[a].list].status \notin {"unused", "deleted"}
    /\ suppressed \subseteq Addresses
    /\ mxcache \in [Addresses -> Verdicts \ {"unknown"}]
    /\ queue \in [Tasks -> Nat]
    /\ file \subseteq Lists
    /\ job \in [Workers -> Jobs]
    /\ req \in [Requests -> Calls]
    /\ uploads \subseteq Lists
    /\ known \subseteq Addresses /\ missed \subseteq Addresses
    /\ manual \subseteq Addresses
    /\ gaveUp \subseteq Lists
    /\ faults \in 0 .. MaxFaults

-----------------------------------------------------------------------------
(* Reading the state.                                                       *)

Exists(l) == list[l].status \notin {"unused", "deleted"}

InList(l) == {a \in Addresses : contact[a].list = l}

\* Whose open transaction locks the contact row, or the key of the
\* suppression it inserted, of address a.
RowHolders(a) ==
    {w \in Workers : a \in job[w].held} \cup
    {q \in Requests : /\ req[q].pc = "commit" /\ req[q].addr = a
                      /\ req[q].list # NoList}

KeyHolders(a) ==
    {w \in Workers : a \in job[w].keys} \cup
    {q \in Requests : /\ req[q].pc \in {"mark", "commit"} /\ req[q].addr = a
                      /\ a \notin suppressed}

\* Who is deleting the list, and so locks its row against every update of it
\* and every insert of a contact into it.
Deleters(l) == {q \in Requests : req[q].pc = "cascade" /\ req[q].list = l}

\* Whom a process waits for at its next statement.
WaitsFor(p) ==
    IF p \in Workers
    THEN CASE job[p].pc = "flush" -> RowHolders(job[p].cur) \ {p}
           [] job[p].pc = "key"   -> KeyHolders(job[p].cur) \ {p}
           [] OTHER -> IF job[p].batch = {} THEN Deleters(job[p].list) ELSE {}
    ELSE CASE req[p].pc = "insert"  -> KeyHolders(req[p].addr)
           [] req[p].pc = "mark"    -> RowHolders(req[p].addr)
           [] req[p].pc = "cascade" ->
                UNION {RowHolders(a) : a \in InList(req[p].list)}
           [] req[p].pc = "add"     -> Deleters(req[p].list)
           [] OTHER                 -> {}

\* p and others wait for one another; PostgreSQL aborts one of them.
Deadlocked(p) ==
    \E S \in SUBSET (Workers \cup Requests) :
        p \in S /\ \A x \in S : WaitsFor(x) \cap S # {}

Enqueue(kind, l) ==
    queue' = [queue EXCEPT ![[kind |-> kind, list |-> l]] = @ + 1]

Fault == faults < MaxFaults /\ faults' = faults + 1

-----------------------------------------------------------------------------
(* The list pages.                                                          *)

\* POST /lists/upload: the file and the list are stored and committed, and
\* then the import is enqueued.
Upload(l) ==
    /\ list[l].status = "unused"
    /\ file' = file \cup {l}
    /\ list' = [list EXCEPT ![l].status = "pending_verification"]
    /\ uploads' = uploads \cup {l}
    /\ UNCHANGED <<contact, suppressed, mxcache, queue, job, req, ghosts>>

UploadEnqueue(l) ==
    /\ l \in uploads
    /\ uploads' = uploads \ {l}
    /\ Enqueue("import", l)
    /\ UNCHANGED <<db, mxcache, file, job, req, ghosts>>

UploadDies(l) ==
    /\ l \in uploads
    /\ Fault
    /\ uploads' = uploads \ {l}
    /\ gaveUp' = gaveUp \cup {l}
    /\ UNCHANGED <<db, mxcache, queue, file, job, req, known, missed, manual>>

\* POST /lists/<id>/delete: the DELETE locks the row of the list.
DeleteList(q, l) ==
    /\ req[q].pc = "new"
    /\ Exists(l)
    /\ Deleters(l) = {}
    /\ req' = [req EXCEPT ![q] = Call("cascade", "delete", Nobody, l)]
    /\ UNCHANGED <<db, mxcache, queue, file, job, uploads, ghosts>>

\* Mutant of Cascade: the contacts of the list stay.
CascadeNothing(q) ==
    /\ req[q].pc = "cascade"
    /\ list' = [list EXCEPT ![req[q].list] =
            [status |-> "deleted", imported |-> FALSE]]
    /\ req' = [req EXCEPT ![q] = Done]
    /\ UNCHANGED <<contact, suppressed, mxcache, queue, file, job, uploads,
                   ghosts>>

\* The foreign key takes the contacts along, once no open transaction holds
\* one of them, and the deletion commits.
Cascade(q) ==
    /\ req[q].pc = "cascade"
    /\ WaitsFor(q) = {}
    /\ list' = [list EXCEPT ![req[q].list] =
            [status |-> "deleted", imported |-> FALSE]]
    /\ contact' = [a \in Addresses |->
            IF a \in InList(req[q].list) THEN NoContact ELSE contact[a]]
    /\ req' = [req EXCEPT ![q] = Done]
    /\ UNCHANGED <<suppressed, mxcache, queue, file, job, uploads, ghosts>>

\* POST /suppress/add, /search/remove and /lists/<id>/contacts begin with a
\* look at the suppression list.
Ask(q, kind, a, l) ==
    /\ req[q].pc = "new"
    /\ kind = "add" => Exists(l)
    /\ kind # "add" => l = NoList
    /\ req' = [req EXCEPT ![q] =
            IF kind = "add" /\ a \in suppressed THEN Done
            ELSE Call(IF kind = "add" THEN "add"
                      ELSE IF a \in suppressed THEN "mark" ELSE "insert",
                      kind, a, l)]
    /\ UNCHANGED <<db, mxcache, queue, file, job, uploads, ghosts>>

\* The INSERT of the suppression: it waits for another's, and loses to it.
InsertSuppression(q) ==
    /\ req[q].pc = "insert"
    /\ WaitsFor(q) = {}
    /\ req' = [req EXCEPT ![q].pc = "mark"]
    /\ UNCHANGED <<db, mxcache, queue, file, job, uploads, ghosts>>

\* The contact, if there is one, is marked, or marked and deleted.
Mark(q) ==
    /\ req[q].pc = "mark"
    /\ WaitsFor(q) = {}
    /\ req' = [req EXCEPT ![q].pc = "commit",
                          ![q].list = contact[req[q].addr].list]
    /\ UNCHANGED <<db, mxcache, queue, file, job, uploads, ghosts>>

CommitRequest(q) ==
    LET a == req[q].addr
    IN /\ req[q].pc = "commit"
       /\ suppressed' = suppressed \cup {a}
       /\ known' = known \cup {a}
       /\ contact' = IF req[q].list = NoList THEN contact
                     ELSE IF req[q].kind = "remove"
                     THEN [contact EXCEPT ![a] = NoContact]
                     ELSE [contact EXCEPT ![a].active = FALSE]
       /\ req' = [req EXCEPT ![q] = Done]
       /\ UNCHANGED <<list, mxcache, queue, file, job, uploads, missed,
                      manual, gaveUp, faults>>

\* add_contact: an address that is a contact already, or a list deleted
\* since, adds nothing.
Add(q) ==
    LET a == req[q].addr
    IN /\ req[q].pc = "add"
       /\ WaitsFor(q) = {}
       /\ contact' = IF contact[a] = NoContact /\ Exists(req[q].list)
                     THEN [contact EXCEPT ![a] = [list |-> req[q].list,
                                    active |-> TRUE, result |-> "pending"]]
                     ELSE contact
       /\ known' = IF contact' = contact THEN known ELSE known \cup {a}
       /\ manual' = IF contact' = contact THEN manual ELSE manual \cup {a}
       /\ req' = [req EXCEPT ![q] = Done]
       /\ UNCHANGED <<list, suppressed, mxcache, queue, file, job, uploads,
                      missed, gaveUp, faults>>

\* The web process dies, or PostgreSQL picks the request as the one to abort.
RequestFails(q) ==
    /\ req[q].pc \notin {"new", "done"}
    /\ \/ Fault
       \/ Deadlocked(q) /\ UNCHANGED faults
    /\ req' = [req EXCEPT ![q] = Done]
    /\ UNCHANGED <<db, mxcache, queue, file, job, uploads, known, missed,
                   manual, gaveUp>>

\* A worker dies: its open transaction is rolled back and its task goes back
\* to the queue (acks_late), before or after the import removed its file.
WorkerDies(w) ==
    /\ job[w].pc # "idle"
    /\ Fault
    /\ job' = [job EXCEPT ![w] = Idle]
    /\ Enqueue(job[w].kind, job[w].list)
    /\ file' \in {file, IF job[w].pc = "remove" THEN file \ {job[w].list}
                        ELSE file}
    /\ UNCHANGED <<db, mxcache, web, known, missed, manual, gaveUp>>

\* A worker takes a task.
Take(w, kind, l, pc) ==
    /\ job[w].pc = "idle"
    /\ queue[[kind |-> kind, list |-> l]] > 0
    /\ queue' = [queue EXCEPT ![[kind |-> kind, list |-> l]] = @ - 1]
    /\ job' = [job EXCEPT ![w] = IF pc = "idle" THEN Idle ELSE At(pc, kind, l)]

NewRequest(q) ==
    \/ \E l \in Lists : DeleteList(q, l)
    \/ \E a \in Addresses :
        \/ \E kind \in {"suppress", "remove"} : Ask(q, kind, a, NoList)
        \/ \E l \in Lists : Ask(q, "add", a, l)

RequestStep(q) ==
    \/ InsertSuppression(q)
    \/ Mark(q)
    \/ CommitRequest(q)
    \/ Add(q)
    \/ Cascade(q)

=============================================================================
