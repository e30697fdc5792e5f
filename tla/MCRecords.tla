------------------------------ MODULE MCRecords ------------------------------
(***************************************************************************)
(* What a run writes down, for TLC: the lines of its running log           *)
(* (RunningLog), and the sleeps it reports in them at its end              *)
(* (SuspendMonitor).  The two share no state: in each behaviour one of     *)
(* them is at work, so that their states add up and do not multiply.       *)
(***************************************************************************)
EXTENDS RunningLog, SuspendMonitor

VARIABLE half     \* "lines" or "sleeps": the half at work

all == <<logVars, vars, half>>

MCInit == LogInit /\ Init /\ half \in {"lines", "sleeps"}

MCNext ==
    /\ UNCHANGED half
    /\ \/ half = "lines" /\ LogNext /\ UNCHANGED vars
       \/ half = "sleeps" /\ Next /\ UNCHANGED logVars

MCSpec == MCInit /\ [][MCNext]_all
=============================================================================
