---------------------------- MODULE DurableQueue ----------------------------
(***************************************************************************)
(* What burnbag_history.TelemetryWriter promises its callers, with no      *)
(* thread, lock, batch or clock: records are accepted in order, stored in  *)
(* order, and a caller is told "durable" only of records that are stored.  *)
(***************************************************************************)
EXTENDS Integers

CONSTANT MaxRecords       \* bound on the number of accepted records

VARIABLES
    accepted,             \* how many records submit() has accepted
    stored,               \* the record numbers that survive a crash
    acked,                \* every record up to this one was reported durable
    sealed,               \* no further record will be accepted
    failed                \* the failure is visible to every caller

abstractVars == <<accepted, stored, acked, sealed, failed>>

Init ==
    /\ accepted = 0
    /\ stored = {}
    /\ acked = 0
    /\ sealed = FALSE
    /\ failed = FALSE

(* One more record enters memory; refused once sealed or failed.           *)
Accept ==
    /\ ~sealed
    /\ ~failed
    /\ accepted < MaxRecords
    /\ accepted' = accepted + 1
    /\ UNCHANGED <<stored, acked, sealed, failed>>

(* One transaction makes a longer prefix of the accepted records durable.  *)
Persist ==
    /\ ~failed
    /\ \E n \in 1..accepted : stored \subseteq 1..n /\ stored' = 1..n
    /\ UNCHANGED <<accepted, acked, sealed, failed>>

(* A flush answers: everything accepted before it began is stored.         *)
Acknowledge ==
    /\ \E n \in 0..accepted :
        /\ 1..n \subseteq stored
        /\ acked <= n
        /\ acked' = n
    /\ UNCHANGED <<accepted, stored, sealed, failed>>

Seal ==
    /\ sealed' = TRUE
    /\ UNCHANGED <<accepted, stored, acked, failed>>

Fail ==
    /\ failed' = TRUE
    /\ UNCHANGED <<accepted, stored, acked, sealed>>

Next == Accept \/ Persist \/ Acknowledge \/ Seal \/ Fail

Spec == Init /\ [][Next]_abstractVars
=============================================================================
