------------------------------- MODULE Lists --------------------------------
(***************************************************************************)
(* A list from its upload to "ready": the requests of the list pages, the  *)
(* import and the verification over the same contacts, suppressions and    *)
(* broker, with the processes that die and the deadlocks PostgreSQL breaks.*)
(***************************************************************************)
EXTENDS ListImport, ListVerification

Init ==
    /\ list = [l \in Lists |-> [status |-> "unused", imported |-> FALSE]]
    /\ contact = [a \in Addresses |-> NoContact]
    /\ suppressed = {}
    /\ mxcache = [a \in Addresses |-> "pending"]
    /\ queue = [t \in Tasks |-> 0]
    /\ file = {}
    /\ job = [w \in Workers |-> Idle]
    /\ uploads = {}
    /\ req = [q \in Requests |-> Call("new", "none", Nobody, NoList)]
    /\ known = {} /\ missed = {} /\ manual = {} /\ gaveUp = {}
    /\ faults = 0

WorkerStep(w) == ImportStep(w) \/ VerifyStep(w)

\* Tasks of l that are queued or run.
Busy(l) ==
    \/ l \in uploads
    \/ \E t \in Tasks : t.list = l /\ queue[t] > 0
    \/ \E w \in Workers : job[w].list = l

\* Nothing is left to do; in any other state some process can go on.
Quiet ==
    /\ \A l \in Lists : ~Busy(l) /\ list[l].status # "unused"
    /\ \A q \in Requests : req[q].pc = "done"
    /\ UNCHANGED vars

Next ==
    \/ \E l \in Lists : Upload(l) \/ UploadEnqueue(l) \/ UploadDies(l)
    \/ \E q \in Requests : NewRequest(q) \/ RequestStep(q) \/ RequestFails(q)
    \/ \E w \in Workers : WorkerStep(w) \/ WorkerDies(w)
    \/ Quiet

Spec == Init /\ [][Next]_vars

-----------------------------------------------------------------------------
(* Properties.                                                              *)

\* An import that reports its summary dropped no row: every valid address of
\* the file that the free-provider filter lets through was a contact or a
\* suppressed address at some time, whatever batch failed in between
\* (csv_import.py:190-206 keeps the batch for the next flush).
NothingDropped ==
    \A l \in Lists : list[l].imported => Wanted(l) \subseteq known

\* A contact whose verdict is "invalid" is suppressed and not active: the
\* verdict, the suppression and the status are written together or not at all
\* (verification.py:64-81, suppression.py:63-75).
InvalidIsSuppressed ==
    \A a \in Addresses : contact[a].result = "invalid" =>
        a \in suppressed /\ ~contact[a].active

\* Only a domain DNS denied makes an address invalid: a timeout, an error or
\* a cached answer of another list never does (inhouse.py:56-106).
OnlyDeadDomains ==
    \A a \in Addresses : contact[a].result = "invalid" => a \in DeadDomains

\* When a list is ready and nothing runs on it any more, every contact its
\* import stored has a verdict, unless the transaction that wrote it lost a
\* race for a suppression, or a task of the list ended unheeded: an import
\* delivered twice may store contacts another list gave up meanwhile, and fail
\* before it enqueues their verification (verification.py:57-90;
\* suppression.py:69; tasks/imports.py:24-38).
ReadyMeansChecked ==
    \A l \in Lists : (list[l].status = "ready" /\ ~Busy(l)) =>
        \A a \in InList(l) :
            contact[a].result = "pending" =>
                a \in missed \cup manual \/ l \in gaveUp

\* No upload is forgotten: when nothing of a list is queued or runs any more,
\* whatever died, was delivered twice or was struck by a deadlock, the list is
\* ready, failed or deleted (web/lists.py:46-52, tasks/imports.py:27-34,
\* verification.py:91-111).  The exceptions end unheeded: an upload request
\* that died before its import was enqueued, the last flush of an import
\* (csv_import.py:206), and a database or broker that failed outside the
\* handlers of import_into_list and verify_list.
QuietMeansSettled ==
    \A l \in Lists : ~Busy(l) =>
        \/ list[l].status \in {"unused", "ready", "failed", "deleted"}
        \/ l \in gaveUp

=============================================================================
