---------------------------- MODULE SleepJournal ----------------------------
(***************************************************************************)
(* Naming the sleeps that the clocks show (classify_sleep_records of       *)
(* burnbag.py).                                                            *)
(*                                                                         *)
(* A journal is a sequence of trusted records of systemd-sleep in the      *)
(* order of their monotonic stamps: a process announces an operation       *)
(* ("start", with the `kind' it names) and reports its return ("stop",     *)
(* `good' when it has every mark of success: priority, no errno, matching  *)
(* unit and invocation, a success message).  An interval is what a monitor *)
(* observed: the monotonic clock of the readings on its two sides.         *)
(***************************************************************************)
EXTENDS Integers, Sequences

CONSTANT Kinds      \* the operations a sleep may be named after

Unknown == "unknown"

(* The record that follows record i of the same process, or 0.             *)
Follower(journal, i) ==
    LET later == {j \in i + 1..Len(journal) : journal[j].process = journal[i].process}
    IN  IF later = {} THEN 0 ELSE CHOOSE j \in later : \A k \in later : j <= k

Opened(journal, j) ==
    \E i \in 1..j - 1 : journal[i].what = "start" /\ Follower(journal, i) = j

(* Defect: only starts count, and a stop alone is passed over.             *)
AttemptsStarted(journal) ==
    {[opening |-> i, closing |-> Follower(journal, i)] :
        i \in {i \in DOMAIN journal : journal[i].what = "start"}}

(* Every start opens an attempt, closed by the next record of its process  *)
(* or by none; a stop no start precedes closes one of unknown beginning.   *)
(* A record number of 0 stands for an unbounded side.                      *)
Attempts(journal) ==
    {IF journal[i].what = "start"
     THEN [opening |-> i, closing |-> Follower(journal, i)]
     ELSE [opening |-> 0, closing |-> i] :
        i \in {i \in DOMAIN journal : journal[i].what = "start" \/ ~Opened(journal, i)}}

Overlaps(journal, attempt, interval) ==
    /\ attempt.opening # 0 => journal[attempt.opening].stamp <= interval.upper
    /\ attempt.closing # 0 => journal[attempt.closing].stamp >= interval.lower

Succeeded(journal, attempt) ==
    /\ attempt.opening # 0 /\ attempt.closing # 0
    /\ journal[attempt.closing].what = "stop" /\ journal[attempt.closing].good
    /\ journal[attempt.opening].stamp < journal[attempt.closing].stamp
    /\ journal[attempt.opening].kind \in Kinds

Within(journal, attempt, interval) ==
    /\ interval.lower <= journal[attempt.opening].stamp
    /\ journal[attempt.closing].stamp <= interval.upper

(* One attempt, and no other, overlaps the interval; it succeeded, and     *)
(* both its records lie inside.                                            *)
NameOf(journal, interval) ==
    LET matches == {a \in Attempts(journal) : Overlaps(journal, a, interval)}
        only == CHOOSE a \in matches : TRUE
    IN  IF /\ \E a \in matches : matches = {a}
           /\ Succeeded(journal, only)
           /\ Within(journal, only, interval)
        THEN journal[only.opening].kind
        ELSE Unknown
=============================================================================
