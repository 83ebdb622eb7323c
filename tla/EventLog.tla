------------------------------- MODULE EventLog -------------------------------
(***************************************************************************)
(* What the reconciliation of Postal's webhooks promises: an event is put  *)
(* into the log once, and in the same step its row's share of the          *)
(* campaign's counters grows by at most one and a bounce's address is on   *)
(* the suppression list.  Events may be left out; none is applied twice or *)
(* by halves.                                                              *)
(***************************************************************************)
EXTENDS Integers

CONSTANTS
    Events,      \* what Postal reports, each with a uuid of its own
    Rows,        \* the recipient rows
    Addresses,   \* the e-mail addresses, with a row or without
    RowOf,       \* the row of an event
    AddressOf,   \* the address of a row
    Deliveries,  \* the events that say a message was delivered
    Bounces      \* the events that say it came back, or was complained about

VARIABLES
    logged,      \* the events in the log
    delivered,   \* each row's share of its campaign's delivered_count
    bounced,     \* and of its bounced_count
    suppressed   \* the suppression list

Init ==
    /\ logged = {}
    /\ delivered = [r \in Rows |-> 0]
    /\ bounced = [r \in Rows |-> 0]
    /\ suppressed = {}

Counted(f, r) == [f EXCEPT ![r] = @ + 1]

Apply(e) ==
    LET r == RowOf[e] IN
    /\ e \notin logged
    /\ logged' = logged \cup {e}
    /\ \/ delivered' = delivered
       \/ e \in Deliveries /\ delivered' = Counted(delivered, r)
    /\ \/ bounced' = bounced
       \/ e \in Bounces /\ bounced' = Counted(bounced, r)
    /\ suppressed' = IF e \in Bounces
                     THEN suppressed \cup {AddressOf[r]}
                     ELSE suppressed

\* An unsubscription, a removal, or a bounce that belongs to no row.
Suppress(a) ==
    /\ suppressed' = suppressed \cup {a}
    /\ UNCHANGED <<logged, delivered, bounced>>

Next ==
    \/ \E e \in Events : Apply(e)
    \/ \E a \in Addresses : Suppress(a)

Spec == Init /\ [][Next]_<<logged, delivered, bounced, suppressed>>

=============================================================================
