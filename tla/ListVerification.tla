-------------------------- MODULE ListVerification --------------------------
(***************************************************************************)
(* The verification of a list: app/tasks/verification.py:verify_list with  *)
(* the in-house provider (app/services/verification/inhouse.py) and        *)
(* suppress_sync.  A transaction reads the contacts and marks the list;    *)
(* then, batch by batch, the domains are looked up outside any transaction *)
(* and one transaction writes the verdicts and suppresses the invalid      *)
(* addresses, contact by contact, in the order the database gave the rows. *)
(***************************************************************************)
EXTENDS ContactStore

\* One verification step that leaves the rest of the state alone.
OnlyVerify == UNCHANGED <<file, web, manual, gaveUp, faults>>

\* Still the row verify_list read.
Present(w, a) == contact[a].list = job[w].list

Locking(w, a) == [job[w] EXCEPT !.held = @ \cup {a}]

Rollback(j) == [j EXCEPT !.held = {}, !.keys = {}]

\* The task fails: of what it read, this is not written.
Unwritten(w) ==
    (job[w].rows \cup job[w].batch \cup job[w].held \cup {job[w].cur})
        \ {Nobody}

\* What DNS may answer for a domain: the truth, or nothing in time.
Resolve(a) == {"unknown", IF a \in DeadDomains THEN "invalid" ELSE "valid"}

\* _domain_status: the cached answer while it lives (six hours for a dead
\* domain, a day for a live one), and otherwise what DNS says.
DomainStatus(a) == Resolve(a) \cup ({mxcache[a]} \ {"pending"})

\* Mutant of Cached: a timeout is cached as "cannot receive mail".
CachedTimeout(old, answer) == IF answer = "unknown" THEN "invalid" ELSE answer

\* Only a definite answer is cached.
Cached(old, answer) == IF answer = "unknown" THEN old ELSE answer

StartVerify(w, l) ==
    /\ Take(w, "verify", l, IF Exists(l) THEN "start" ELSE "idle")
    /\ UNCHANGED <<db, mxcache, known, missed>>
    /\ OnlyVerify

ReadContacts(w) ==
    /\ job[w].pc = "start"
    /\ IF Exists(job[w].list)
       THEN /\ WaitsFor(w) = {}
            /\ job' = [job EXCEPT ![w].pc = "probe",
                                  ![w].rows = InList(job[w].list)]
            /\ list' = [list EXCEPT ![job[w].list].status = "verifying"]
       ELSE /\ job' = [job EXCEPT ![w] = Idle]
            /\ UNCHANGED list
    /\ UNCHANGED <<contact, suppressed, mxcache, queue, known, missed>>
    /\ OnlyVerify

\* Mutant of ProbeBatch: the loop over the batches ends after the first.
ProbeFirstBatch(w) ==
    /\ job[w].pc = "probe"
    /\ job[w].rows # {}
    /\ \E batch \in SUBSET job[w].rows :
        /\ \/ Cardinality(batch) = VerifyBatch
           \/ batch = job[w].rows /\ Cardinality(batch) < VerifyBatch
        /\ job' = [job EXCEPT ![w].pc = "write", ![w].batch = batch,
                ![w].rows = {}, ![w].verdict = [a \in Addresses |->
                    IF a \in batch THEN "unknown" ELSE "pending"]]
    /\ UNCHANGED <<db, mxcache, queue, known, missed>>
    /\ OnlyVerify

\* verify_batch: the next rows, whichever the database gave; definite
\* answers are cached.
ProbeBatch(w) ==
    /\ job[w].pc = "probe"
    /\ job[w].rows # {}
    /\ \E batch \in SUBSET job[w].rows :
        /\ \/ Cardinality(batch) = VerifyBatch
           \/ batch = job[w].rows /\ Cardinality(batch) < VerifyBatch
        /\ \E v \in [batch -> Verdicts \ {"pending"}] :
            /\ \A a \in batch : v[a] \in DomainStatus(a)
            /\ mxcache' = [a \in Addresses |->
                    IF a \in batch THEN Cached(mxcache[a], v[a])
                    ELSE mxcache[a]]
            /\ job' = [job EXCEPT ![w].pc = "write", ![w].batch = batch,
                    ![w].rows = @ \ batch,
                    ![w].verdict = [a \in Addresses |->
                        IF a \in batch THEN v[a] ELSE "pending"]]
    /\ UNCHANGED <<db, queue, known, missed>>
    /\ OnlyVerify

\* The next contact of the batch: gone, or nothing to write, or its verdict
\* is set in the session.
Load(w, a) ==
    /\ job[w].pc = "write"
    /\ a \in job[w].batch
    /\ job' = [job EXCEPT ![w].batch = @ \ {a},
            ![w].pc = IF Present(w, a) /\ contact[a].result # job[w].verdict[a]
                      THEN "flush" ELSE "write",
            ![w].cur = IF Present(w, a) /\ contact[a].result # job[w].verdict[a]
                       THEN a ELSE Nobody]
    /\ UNCHANGED <<db, mxcache, queue, known, missed>>
    /\ OnlyVerify

\* The next query flushes the verdict and locks the row; a row deleted since
\* it was loaded fails the task.  suppress_sync then looks the address up.
\* After its rollback it is the contact's status alone that is flushed, if
\* the contact is still found.
Flush(w) ==
    LET a == job[w].cur
    IN /\ job[w].pc = "flush"
       /\ WaitsFor(w) = {}
       /\ \/ /\ ~Present(w, a)
             /\ job' = [job EXCEPT ![w] = [Rollback(@) EXCEPT !.pc = "fail"]]
             /\ missed' = missed \cup Unwritten(w)
          \/ /\ ~Present(w, a)
             /\ job[w].verdict[a] = "lost"
             /\ job' = [job EXCEPT ![w].pc = "write", ![w].cur = Nobody]
             /\ UNCHANGED missed
          \/ /\ Present(w, a)
             /\ job' = [job EXCEPT ![w] =
                    IF job[w].verdict[a] = "invalid" /\ a \notin suppressed
                    THEN [Locking(w, a) EXCEPT !.pc = "key"]
                    ELSE [Locking(w, a) EXCEPT !.pc = "write", !.cur = Nobody]]
             /\ UNCHANGED missed
       /\ UNCHANGED <<db, mxcache, queue, known>>
       /\ OnlyVerify

\* Mutant of InsertKey: the rollback takes the suppressions and leaves the
\* verdicts of the batch to be written.
InsertKeyKeepsRows(w) ==
    /\ job[w].pc = "key"
    /\ WaitsFor(w) = {}
    /\ job' = [job EXCEPT ![w].pc = "write", ![w].cur = Nobody,
            ![w].keys = IF job[w].cur \in suppressed THEN {}
                        ELSE @ \cup {job[w].cur}]
    /\ UNCHANGED <<db, mxcache, queue, known, missed>>
    /\ OnlyVerify

\* suppress_sync's INSERT.  When another transaction committed the address
\* meanwhile, session.rollback() drops the batch so far, with its locks, and
\* only the contact's status is left to write.
InsertKey(w) ==
    LET a == job[w].cur
    IN /\ job[w].pc = "key"
       /\ WaitsFor(w) = {}
       /\ IF a \in suppressed
          THEN /\ job' = [job EXCEPT ![w] = [Rollback(@) EXCEPT
                    !.verdict = [job[w].verdict EXCEPT ![a] = "lost"],
                    !.pc = "flush"]]
               /\ missed' = missed \cup job[w].held
          ELSE /\ job' = [job EXCEPT ![w].keys = @ \cup {a},
                    ![w].pc = "write", ![w].cur = Nobody]
               /\ UNCHANGED missed
       /\ UNCHANGED <<db, mxcache, queue, known>>
       /\ OnlyVerify

\* The commit of a batch, which updates the list's summary too: for a list
\* deleted since it was loaded, the update fails.
CommitBatch(w) ==
    /\ job[w].pc = "write"
    /\ job[w].batch = {}
    /\ WaitsFor(w) = {}
    /\ contact' = [a \in Addresses |->
            IF a \notin job[w].held THEN contact[a]
            ELSE CASE job[w].verdict[a] = "lost" ->
                        [contact[a] EXCEPT !.active = FALSE]
                   [] job[w].verdict[a] = "invalid" ->
                        [contact[a] EXCEPT !.active = FALSE,
                                           !.result = "invalid"]
                   [] OTHER -> [contact[a] EXCEPT !.result = job[w].verdict[a]]]
    /\ suppressed' = suppressed \cup job[w].keys
    /\ known' = known \cup job[w].keys
    /\ \E next \in {"probe"} \cup IF Exists(job[w].list) THEN {} ELSE {"fail"} :
        job' = [job EXCEPT ![w] = [Rollback(@) EXCEPT
                    !.pc = next, !.verdict = NoVerdict]]
    /\ UNCHANGED <<list, mxcache, queue, missed>>
    /\ OnlyVerify

\* The last transaction marks the list, and so does the one that reports a
\* failure.
Conclude(w) ==
    /\ \/ job[w].pc = "probe" /\ job[w].rows = {}
       \/ job[w].pc = "fail"
    /\ WaitsFor(w) = {}
    /\ list' = IF ~Exists(job[w].list) THEN list
               ELSE [list EXCEPT ![job[w].list].status =
                        IF job[w].pc = "fail" THEN "failed" ELSE "ready"]
    /\ job' = [job EXCEPT ![w] = Idle]
    /\ UNCHANGED <<contact, suppressed, mxcache, queue, known, missed>>
    /\ OnlyVerify

\* Why an exception may reach verify_list's handler: PostgreSQL picked the
\* transaction to break a deadlock, or the database or Redis failed.
Struck(w) ==
    /\ job[w].pc \in {"probe", "write", "flush", "key"}
    /\ \/ Deadlocked(w) /\ UNCHANGED faults
       \/ Fault

\* Mutant of Aborted: the error ends the task without a mark on the list.
AbortedSilently(w) ==
    /\ Struck(w)
    /\ job' = [job EXCEPT ![w] = Idle]
    /\ missed' = missed \cup Unwritten(w)
    /\ UNCHANGED <<db, mxcache, queue, known, file, web, manual, gaveUp>>

\* The handler: the open transaction is rolled back, and the list is to be
\* marked as failed.
Aborted(w) ==
    /\ Struck(w)
    /\ job' = [job EXCEPT ![w] = [Rollback(@) EXCEPT !.pc = "fail"]]
    /\ missed' = missed \cup Unwritten(w)
    /\ UNCHANGED <<db, mxcache, queue, known, file, web, manual, gaveUp>>

\* Outside the handler's try, and in the handler, a failure of the database
\* ends the task with the exception; it is acknowledged.
VerifyFails(w) ==
    /\ job[w].pc \in {"start", "fail"}
    /\ Fault
    /\ job' = [job EXCEPT ![w] = Idle]
    /\ gaveUp' = gaveUp \cup {job[w].list}
    /\ UNCHANGED <<db, mxcache, queue, known, missed, file, web, manual>>

VerifyStep(w) ==
    \/ \E l \in Lists : StartVerify(w, l)
    \/ ReadContacts(w)
    \/ ProbeBatch(w)
    \/ \E a \in Addresses : Load(w, a)
    \/ Flush(w)
    \/ InsertKey(w)
    \/ CommitBatch(w)
    \/ Conclude(w)
    \/ Aborted(w)
    \/ VerifyFails(w)

=============================================================================
