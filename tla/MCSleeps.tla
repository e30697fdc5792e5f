------------------------------- MODULE MCSleeps -------------------------------
(***************************************************************************)
(* What a collector does around a sleep, for TLC: before it, the delay     *)
(* lock holds logind back until the pending history is committed           *)
(* (DelayLocks); after it, the sleep is found, named and recorded          *)
(* (SleepOwnership).  The two share no state: in each behaviour one of     *)
(* them is at work, so that their states add up and do not multiply.       *)
(***************************************************************************)
EXTENDS DelayLocks, SleepOwnership

VARIABLE half     \* "before" or "after": the half at work

all == <<lockVars, vars, half>>

MCInit == LocksInit /\ Init /\ half \in {"before", "after"}

MCNext ==
    /\ UNCHANGED half
    /\ \/ half = "before" /\ LocksNext /\ UNCHANGED vars
       \/ half = "after" /\ Next /\ UNCHANGED lockVars

MCSpec ==
    /\ MCInit /\ [][MCNext]_all
    /\ half = "before" => LocksFairness
    /\ half = "after" => Fairness
=============================================================================
