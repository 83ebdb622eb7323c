----------------------------- MODULE MailLedger -----------------------------
(***************************************************************************)
(* What the send pipeline promises of a campaign's ledger, whatever its    *)
(* workers, lock and retries do: a row is settled once, in one step with   *)
(* its counter; Postal accepts its message once, and not after it is       *)
(* settled; and SENT means an acceptance.  Two things excuse more: an      *)
(* acceptance whose worker never recorded it, and a lock that ended under  *)
(* its holder.                                                             *)
(***************************************************************************)
EXTENDS Naturals

CONSTANT Recipients

VARIABLES
    row,        \* pending, settled as one of Verdicts, or gone
    counted,    \* sent_count and failed_count
    accepted,   \* how often Postal accepted each recipient's message
    lost,       \* of those, the acceptances no worker recorded
    overrun     \* times the lock on the row ended under its holder

vars == <<row, counted, accepted, lost, overrun>>

Verdicts == {"sent", "failed", "skipped"}

Counted == {"sent", "failed"}

Once(f, r) == [f EXCEPT ![r] = @ + 1]

Init ==
    /\ row = [r \in Recipients |-> "pending"]
    /\ counted = [v \in Counted |-> 0]
    /\ accepted = [r \in Recipients |-> 0]
    /\ lost = [r \in Recipients |-> 0]
    /\ overrun = [r \in Recipients |-> 0]

\* The lock no longer says who may work on the row.
Excused(r) == overrun[r] > 0

\* Postal accepts; its answer may be lost at once.
Accept(r) ==
    /\ row[r] \notin Verdicts \/ Excused(r)
    /\ accepted[r] <= lost[r] + overrun[r]
    /\ accepted' = Once(accepted, r)
    /\ lost' \in {lost, Once(lost, r)}
    /\ UNCHANGED <<row, counted, overrun>>

Settle(r, v) ==
    /\ row[r] = "pending" \/ (Excused(r) /\ row[r] # "gone")
    /\ v = "sent" => accepted[r] > lost[r]
    /\ row' = [row EXCEPT ![r] = v]
    /\ counted' = IF v \in Counted THEN Once(counted, v) ELSE counted
    /\ UNCHANGED <<accepted, lost, overrun>>

\* The worker that holds an acceptance dies or fails.
Lose(r) ==
    /\ accepted[r] > lost[r]
    /\ lost' = Once(lost, r)
    /\ UNCHANGED <<row, counted, accepted, overrun>>

Overrun(r) ==
    /\ overrun' = Once(overrun, r)
    /\ UNCHANGED <<row, counted, accepted, lost>>

\* The campaign is deleted with its rows.
Delete ==
    /\ row' = [r \in Recipients |-> "gone"]
    /\ UNCHANGED <<counted, accepted, lost, overrun>>

Next ==
    \/ \E r \in Recipients :
        \/ Accept(r)
        \/ \E v \in Verdicts : Settle(r, v)
        \/ Lose(r)
        \/ Overrun(r)
    \/ Delete

Spec == Init /\ [][Next]_vars

=============================================================================
