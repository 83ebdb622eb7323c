----------------------------- MODULE ListImport -----------------------------
(***************************************************************************)
(* The CSV import of a list: app/tasks/imports.py:import_csv and           *)
(* app/services/csv_import.py.  It reads the file row by row, and flushes  *)
(* what survives in batches: a look at the contacts and the suppressions,  *)
(* then one transaction that inserts the rest.                             *)
(***************************************************************************)
EXTENDS ContactStore

\* One import step that leaves the rest of the state alone.
OnlyImport == UNCHANGED <<suppressed, mxcache, web, missed, manual>>

\* The addresses of the first n rows of l's file.
RowsUpTo(l, n) == {FileOf[l][i] : i \in 1 .. n} \ {BadRow}

\* The rows the import must not drop: valid, and not filtered.
Wanted(l) ==
    RowsUpTo(l, Len(FileOf[l])) \ (IF l \in Filtered THEN FreeProviders ELSE {})

\* The two IN queries of _flush_batch, before its insert.
Look(w, pos, pending) ==
    [job[w] EXCEPT !.pc = "insert", !.pos = pos, !.pending = pending,
        !.skip = {a \in pending : a \in suppressed \/ contact[a] # NoContact}]

\* A redelivered import may find its file removed, and fails.
StartImport(w, l) ==
    /\ Take(w, "import", l, IF l \in file THEN "rows" ELSE "idle")
    /\ UNCHANGED <<db, file, known, gaveUp, faults>>
    /\ OnlyImport

\* Row i is not refused, not filtered and not a repetition.
Kept(l, i) == FileOf[l][i] \in Wanted(l) \ RowsUpTo(l, i - 1)

\* The batch once row n is read, and whether that row fills it.
PendingAt(w, n) ==
    job[w].pending \cup
        {FileOf[job[w].list][i] :
            i \in {i \in job[w].pos + 1 .. n : Kept(job[w].list, i)}}

FullAt(w, n) ==
    Kept(job[w].list, n) /\ Cardinality(PendingAt(w, n)) >= ImportBatch

RowsLeft(w) == job[w].pos + 1 .. Len(FileOf[job[w].list])

\* The rows up to the next one that fills the batch.
ReadRows(w) ==
    /\ job[w].pc = "rows"
    /\ \E n \in RowsLeft(w) :
        /\ FullAt(w, n)
        /\ \A m \in RowsLeft(w) : m < n => ~FullAt(w, m)
        /\ job' = [job EXCEPT ![w] = Look(w, n, PendingAt(w, n))]
    /\ UNCHANGED <<db, queue, file, known, gaveUp, faults>>
    /\ OnlyImport

\* The rest of the file, and the last flush, with pos past the last row.
EndOfFile(w) ==
    LET last == Len(FileOf[job[w].list])
        rest == PendingAt(w, last)
    IN /\ job[w].pc = "rows"
       /\ \A n \in RowsLeft(w) : ~FullAt(w, n)
       /\ job' = [job EXCEPT ![w] =
            IF rest = {} THEN [@ EXCEPT !.pc = "finalize"]
            ELSE Look(w, last + 1, rest)]
       /\ UNCHANGED <<db, queue, file, known, gaveUp, faults>>
       /\ OnlyImport

\* The insert fails as a whole when one of its addresses became a contact
\* since the look, or the list was deleted.
FlushFails(w) ==
    LET new == job[w].pending \ job[w].skip
    IN /\ new # {}
       /\ \/ ~Exists(job[w].list)
          \/ \E a \in new : contact[a] # NoContact

FlushBatch(w) ==
    /\ job[w].pc = "insert"
    /\ WaitsFor(w) = {}
    /\ ~FlushFails(w)
    /\ LET new == job[w].pending \ job[w].skip
       IN /\ contact' = [a \in Addresses |->
                IF a \in new THEN [list |-> job[w].list, active |-> TRUE,
                                   result |-> "pending"]
                ELSE contact[a]]
          /\ known' = known \cup new
    /\ job' = [job EXCEPT ![w].pending = {}, ![w].skip = {},
            ![w].pc = IF job[w].pos > Len(FileOf[job[w].list])
                      THEN "finalize" ELSE "rows"]
    /\ UNCHANGED <<list, queue, file, gaveUp, faults>>
    /\ OnlyImport

\* Mutant of FlushError: the failed batch is an error, and forgotten.
FlushErrorDropsBatch(w) ==
    /\ job[w].pc = "insert"
    /\ FlushFails(w)
    /\ job' = [job EXCEPT ![w].pc = "rows", ![w].pending = {}, ![w].skip = {}]
    /\ UNCHANGED <<db, queue, file, known, gaveUp, faults>>
    /\ OnlyImport

\* In the loop a failed flush, whatever its reason, is an error row, and the
\* batch waits for the next flush; the last flush fails the task.
FlushError(w) ==
    /\ job[w].pc = "insert"
    /\ \/ WaitsFor(w) = {} /\ FlushFails(w) /\ UNCHANGED faults
       \/ Fault
    /\ IF job[w].pos <= Len(FileOf[job[w].list])
       THEN /\ job' = [job EXCEPT ![w].pc = "rows", ![w].skip = {}]
            /\ UNCHANGED gaveUp
       ELSE /\ job' = [job EXCEPT ![w] = Idle]
            /\ gaveUp' = gaveUp \cup {job[w].list}
    /\ UNCHANGED <<db, queue, file, known>>
    /\ OnlyImport

\* The summary of the import; a list deleted before it was loaded is passed
\* over, and one deleted after fails the task.
Finalize(w) ==
    /\ job[w].pc = "finalize"
    /\ WaitsFor(w) = {}
    /\ \/ job' = [job EXCEPT ![w].pc = "chain"]
       \/ ~Exists(job[w].list) /\ job' = [job EXCEPT ![w] = Idle]
    /\ list' = IF Exists(job[w].list)
               THEN [list EXCEPT ![job[w].list].imported = TRUE] ELSE list
    /\ UNCHANGED <<contact, queue, file, known, gaveUp, faults>>
    /\ OnlyImport

\* verify_list.delay, then os.remove and the return.
Chain(w) ==
    /\ job[w].pc = "chain"
    /\ job' = [job EXCEPT ![w].pc = "remove"]
    /\ Enqueue("verify", job[w].list)
    /\ UNCHANGED <<db, file, known, gaveUp, faults>>
    /\ OnlyImport

RemoveFile(w) ==
    /\ job[w].pc = "remove"
    /\ job' = [job EXCEPT ![w] = Idle]
    /\ file' = file \ {job[w].list}
    /\ UNCHANGED <<db, queue, known, gaveUp, faults>>
    /\ OnlyImport

\* The file, the database or the broker fails outside a flush: the task ends
\* with the exception and is acknowledged.
ImportFails(w) ==
    /\ job[w].pc \in {"rows", "finalize", "chain"}
    /\ Fault
    /\ job' = [job EXCEPT ![w] = Idle]
    /\ gaveUp' = gaveUp \cup {job[w].list}
    /\ UNCHANGED <<db, queue, file, known>>
    /\ OnlyImport

ImportStep(w) ==
    \/ \E l \in Lists : StartImport(w, l)
    \/ ReadRows(w)
    \/ EndOfFile(w)
    \/ FlushBatch(w)
    \/ FlushError(w)
    \/ Finalize(w)
    \/ Chain(w)
    \/ RemoveFile(w)
    \/ ImportFails(w)

=============================================================================
