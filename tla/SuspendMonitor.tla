--------------------------- MODULE SuspendMonitor ---------------------------
(***************************************************************************)
(* How a run finds out when the machine slept (SuspendMonitor, the journal *)
(* classification and finish_suspend_monitoring of burnbag.py).            *)
(*                                                                         *)
(* CLOCK_BOOTTIME advances while the machine sleeps, CLOCK_MONOTONIC does  *)
(* not.  A reading brackets the monotonic clock with two boottime reads,   *)
(* several times, and keeps the tightest bracket; time may pass and the    *)
(* machine may sleep between any two of those reads.  A worker thread      *)
(* takes readings while the run lives; the main thread takes the first,    *)
(* joins the worker, takes the last ones and names the sleeps it found     *)
(* from the records systemd-sleep left in the journal.                     *)
(*                                                                         *)
(* Clock values are ticks.  The middle of a bracket needs half ticks and   *)
(* the estimated edge of an interval quarter ticks: `boot2', `unc2' and    *)
(* Floor2 count halves, `from4', `to4' and `unc4' count quarters.          *)
(***************************************************************************)
EXTENDS Integers, Sequences, FiniteSets, FiniteSetsExt

CONSTANTS
    Pairs,          \* brackets per reading (3 in read_suspend_clocks)
    Floor2,         \* DETECTION_FLOOR_SECONDS, in half ticks
    Lengths,        \* how long one sleep may last, in ticks
    Nothing,        \* no reading, no record
    MaxClock,       \* bound: ticks of the monotonic clock
    MaxSleeps,      \* bound: sleeps of the machine
    MaxFailures     \* bound: clock readings that fail

(* A reading that was kept: boottime at the middle of its bracket, the     *)
(* monotonic clock, and half the width of the bracket.                     *)
Reading == [boot2 : Nat, mono : Nat, unc2 : Nat]

ASSUME ClockAssumption ==
    /\ Pairs \in Nat \ {0}
    /\ Floor2 \in Nat
    /\ Lengths \subseteq Nat \ {0}
    /\ Nothing \notin Reading

Readers == {"main", "worker"}

VARIABLES
    mono, boot,      \* the kernel's clocks
    slept,           \* what really happened: the sleeps, in order
    reading,         \* per thread: the reading it is taking
    failures,        \* readings that failed
    main,            \* where the main thread is
    worker,          \* "none", "alive" or "gone"
    stop,            \* _stop
    initial, latest, accounted, pendingStart,
    intervals,
    errors,          \* whether self.errors is not empty
    discontinuity,   \* whether observe ever reported lost continuity
    finalRead,       \* final_read_succeeded
    span             \* history: boottime at application entry and at finish

clocks == <<mono, boot, slept>>
observed == <<initial, latest, accounted, pendingStart, intervals, discontinuity>>
threads == <<main, worker, stop, span>>
vars == <<clocks, reading, failures, threads, observed, errors, finalRead>>

Larger(a, b) == IF a >= b THEN a ELSE b
Smaller(a, b) == IF a <= b THEN a ELSE b

-----------------------------------------------------------------------------
(* Readings *)

Offset2(r) == r.boot2 - 2 * r.mono

NotReading == [at |-> "idle", before |-> 0, mono |-> 0, best |-> Nothing, left |-> 0]
Starting == [NotReading EXCEPT !.at = "before", !.left = Pairs]

Candidate(p) ==
    [boot2 |-> reading[p].before + boot, mono |-> reading[p].mono,
     unc2 |-> boot - reading[p].before]

(* min() keeps the first of the tightest. *)
Tightest(best, candidate) ==
    IF best = Nothing \/ candidate.unc2 < best.unc2 THEN candidate ELSE best

ReadBefore(p) ==
    /\ reading[p].at = "before"
    /\ reading' = [reading EXCEPT ![p].at = "monotonic", ![p].before = boot]
    /\ UNCHANGED <<clocks, failures, threads, observed, errors, finalRead>>

ReadMonotonic(p) ==
    /\ reading[p].at = "monotonic"
    /\ reading' = [reading EXCEPT ![p].at = "after", ![p].mono = mono]
    /\ UNCHANGED <<clocks, failures, threads, observed, errors, finalRead>>

ReadAfter(p) ==
    /\ reading[p].at = "after"
    /\ LET best == Tightest(reading[p].best, Candidate(p)) IN
       reading' = [reading EXCEPT ![p] =
           IF @.left > 1
           THEN [Starting EXCEPT !.best = best, !.left = reading[p].left - 1]
           ELSE [NotReading EXCEPT !.at = "taken", !.best = best]]
    /\ UNCHANGED <<clocks, failures, threads, observed, errors, finalRead>>

-----------------------------------------------------------------------------
(* observe *)

Uncertainty2(current) == current.unc2 + accounted.unc2
Change2(current) == Offset2(current) - Offset2(accounted)

(* Defect: any shrinking of the offset counts, however uncertain.          *)
DiscontinuousAtOnce(current) ==
    current.boot2 < latest.boot2 \/ current.mono < latest.mono \/ Change2(current) < 0

Discontinuous(current) ==
    \/ current.boot2 < latest.boot2
    \/ current.mono < latest.mono
    \/ Change2(current) < -Larger(Floor2, Uncertainty2(current))

Confirmed(current) == Change2(current) > Larger(Floor2, Uncertainty2(current))

WindowStart(current) == IF pendingStart = Nothing THEN latest ELSE pendingStart

(* The awake part of the window is split equally before and after.         *)
Interval(start, current) ==
    LET window2 == current.boot2 - start.boot2
        suspended2 == Smaller(Change2(current), window2)
        awake2 == Larger(0, window2 - suspended2)
    IN  [from4 |-> 2 * start.boot2 + awake2,
         to4 |-> Larger(2 * start.boot2 + awake2, 2 * current.boot2 - awake2),
         unc4 |-> awake2 + 2 * Uncertainty2(current),
         lower |-> start.mono, upper |-> current.mono]

(* Defect: a confirmed change is not accounted for.                        *)
ObserveAgain(current) ==
    IF latest = Nothing
    THEN /\ initial' = current /\ latest' = current /\ accounted' = current
         /\ UNCHANGED <<pendingStart, intervals, discontinuity, errors>>
    ELSE LET found == Interval(WindowStart(current), current) IN
         /\ intervals' = IF Confirmed(current) /\ found.to4 > found.from4
                         THEN Append(intervals, found) ELSE intervals
         /\ latest' = current
         /\ UNCHANGED <<initial, accounted, pendingStart, discontinuity, errors>>

Observe(current) ==
    IF latest = Nothing
    THEN /\ initial' = current /\ latest' = current /\ accounted' = current
         /\ UNCHANGED <<pendingStart, intervals, discontinuity, errors>>
    ELSE IF Discontinuous(current)
    THEN /\ discontinuity' = TRUE /\ errors' = TRUE
         /\ UNCHANGED <<initial, latest, accounted, pendingStart, intervals>>
    ELSE LET found == Interval(WindowStart(current), current) IN
         /\ intervals' = IF Confirmed(current) /\ found.to4 > found.from4
                         THEN Append(intervals, found) ELSE intervals
         /\ accounted' = IF Confirmed(current) THEN current ELSE accounted
         /\ pendingStart' =
                IF Confirmed(current) \/ Change2(current) <= Uncertainty2(current)
                THEN Nothing ELSE WindowStart(current)
         /\ latest' = current
         /\ UNCHANGED <<initial, discontinuity, errors>>

-----------------------------------------------------------------------------
(* The worker thread *)

WorkerSamples ==
    /\ worker = "alive" /\ reading["worker"].at = "idle" /\ ~stop
    /\ reading' = [reading EXCEPT !["worker"] = Starting]
    /\ UNCHANGED <<clocks, failures, threads, observed, errors, finalRead>>

WorkerEnds ==
    /\ worker = "alive" /\ reading["worker"].at = "idle" /\ stop
    /\ worker' = "gone"
    /\ UNCHANGED <<clocks, reading, failures, main, stop, span, observed, errors, finalRead>>

(* _stop is looked at again under the lock: a late reading is dropped.     *)
WorkerObserves ==
    /\ reading["worker"].at = "taken"
    /\ IF stop THEN UNCHANGED <<observed, errors>>
               ELSE Observe(reading["worker"].best)
    /\ reading' = [reading EXCEPT !["worker"] = NotReading]
    /\ UNCHANGED <<clocks, failures, threads, finalRead>>

WorkerReadFails ==
    /\ reading["worker"].at \in {"before", "monotonic", "after"}
    /\ failures < MaxFailures
    /\ failures' = failures + 1
    /\ reading' = [reading EXCEPT !["worker"] = NotReading]
    /\ errors' = (errors \/ ~stop)
    /\ UNCHANGED <<clocks, threads, observed, finalRead>>

-----------------------------------------------------------------------------
(* The main thread: application entry, start, finish, report *)

MainReads(from, to) ==
    /\ main = from
    /\ main' = to
    /\ reading' = [reading EXCEPT !["main"] = Starting]

(* The reading at application entry is the monitor's first baseline.       *)
TakeBaseline ==
    /\ main = "entry" /\ reading["main"].at = "taken"
    /\ LET first == reading["main"].best IN
       initial' = first /\ latest' = first /\ accounted' = first
    /\ main' = "setup"
    /\ span' = [span EXCEPT !.from = boot]
    /\ reading' = [reading EXCEPT !["main"] = NotReading]
    /\ UNCHANGED <<clocks, failures, worker, stop, pendingStart, intervals,
                   discontinuity, errors, finalRead>>

(* SuspendMonitor.start: a sample of the caller's, then the thread.        *)
Start ==
    /\ MainReads("setup", "first")
    /\ UNCHANGED <<clocks, failures, worker, stop, span, observed, errors, finalRead>>

StartThread ==
    /\ main = "thread"
    /\ main' = "run"
    /\ \/ worker' = "alive" /\ errors' = errors
       \/ worker' = "none" /\ errors' = TRUE
    /\ UNCHANGED <<clocks, reading, failures, stop, span, observed, finalRead>>

Finish ==
    /\ main = "run"
    /\ main' = "join"
    /\ stop' = TRUE
    /\ span' = [span EXCEPT !.to = boot]
    /\ UNCHANGED <<clocks, reading, failures, worker, observed, errors, finalRead>>

Joined ==
    /\ worker # "alive"
    /\ MainReads("join", "final")
    /\ UNCHANGED <<clocks, failures, worker, stop, span, observed, errors, finalRead>>

(* WORKER_JOIN_SECONDS passed: no final reading while the worker may read. *)
JoinTimesOut ==
    /\ main = "join" /\ worker = "alive"
    /\ main' = "query"
    /\ errors' = TRUE
    /\ UNCHANGED <<clocks, reading, failures, worker, stop, span, observed, finalRead>>

AfterSample == [first |-> "thread", final |-> "query", last |-> "done"]

MainObserves ==
    /\ main \in DOMAIN AfterSample /\ reading["main"].at = "taken"
    /\ Observe(reading["main"].best)
    /\ finalRead' = IF main = "first" THEN finalRead ELSE discontinuity' = discontinuity
    /\ main' = AfterSample[main]
    /\ reading' = [reading EXCEPT !["main"] = NotReading]
    /\ UNCHANGED <<clocks, failures, worker, stop, span>>

(* Defect: a reading that fails after the query leaves no trace.           *)
MainReadFailsUnnoticed ==
    /\ reading["main"].at \in {"before", "monotonic", "after"}
    /\ failures < MaxFailures
    /\ failures' = failures + 1
    /\ main' = IF main = "entry" THEN "setup" ELSE AfterSample[main]
    /\ span' = IF main = "entry" THEN [span EXCEPT !.from = boot] ELSE span
    /\ reading' = [reading EXCEPT !["main"] = NotReading]
    /\ UNCHANGED <<clocks, worker, stop, observed, errors, finalRead>>

MainReadFails ==
    /\ reading["main"].at \in {"before", "monotonic", "after"}
    /\ failures < MaxFailures
    /\ failures' = failures + 1
    /\ errors' = TRUE
    /\ finalRead' = (finalRead /\ main # "last")
    /\ main' = IF main = "entry" THEN "setup" ELSE AfterSample[main]
    /\ span' = IF main = "entry" THEN [span EXCEPT !.from = boot] ELSE span
    /\ reading' = [reading EXCEPT !["main"] = NotReading]
    /\ UNCHANGED <<clocks, worker, stop, observed>>

(* The journal is asked for the names of the sleeps, which takes a while;  *)
(* the last reading follows, unless the worker may still be reading.       *)
Queried ==
    /\ main = "query"
    /\ IF worker = "alive"
       THEN main' = "done" /\ UNCHANGED reading
       ELSE MainReads("query", "last")
    /\ UNCHANGED <<clocks, failures, worker, stop, span, observed, errors, finalRead>>

-----------------------------------------------------------------------------
(* The machine *)

Tick ==
    /\ mono < MaxClock
    /\ mono' = mono + 1 /\ boot' = boot + 1
    /\ UNCHANGED <<slept, reading, failures, threads, observed, errors, finalRead>>

Sleep(length) ==
    /\ Len(slept) < MaxSleeps
    /\ boot' = boot + length
    /\ slept' = Append(slept, [from |-> boot, to |-> boot + length, at |-> mono])
    /\ UNCHANGED <<mono, reading, failures, threads, observed, errors, finalRead>>

-----------------------------------------------------------------------------
Init ==
    /\ mono = 0 /\ boot = 0 /\ slept = <<>>
    /\ reading = [p \in Readers |-> IF p = "main" THEN Starting ELSE NotReading]
    /\ failures = 0
    /\ main = "entry" /\ worker = "none" /\ stop = FALSE
    /\ initial = Nothing /\ latest = Nothing /\ accounted = Nothing
    /\ pendingStart = Nothing /\ intervals = <<>>
    /\ span = [from |-> 0, to |-> 0]
    /\ errors = FALSE /\ discontinuity = FALSE /\ finalRead = FALSE

Next ==
    \/ \E p \in Readers : ReadBefore(p) \/ ReadMonotonic(p) \/ ReadAfter(p)
    \/ WorkerSamples \/ WorkerObserves \/ WorkerReadFails \/ WorkerEnds
    \/ TakeBaseline \/ Start \/ StartThread \/ Finish \/ Joined \/ JoinTimesOut
    \/ MainObserves \/ MainReadFails \/ Queried
    \/ Tick
    \/ \E length \in Lengths : Sleep(length)

Spec == Init /\ [][Next]_vars

-----------------------------------------------------------------------------
(* Properties *)

(* A reading being taken. *)
InProgress ==
    [at : {"idle", "before", "monotonic", "after", "taken"},
     before : Nat, mono : Nat, best : Reading \cup {Nothing}, left : Nat]

Stages == {"entry", "setup", "first", "thread", "run", "join", "final", "query", "last", "done"}

(* Every variable has a value of its kind, and the monitor has both the    *)
(* latest and the accounted reading or neither.                            *)
TypeOK ==
    /\ mono \in Nat /\ boot \in Nat
    /\ reading \in [Readers -> InProgress]
    /\ main \in Stages /\ worker \in {"none", "alive", "gone"} /\ stop \in BOOLEAN
    /\ initial \in Reading \cup {Nothing} /\ latest \in Reading \cup {Nothing}
    /\ accounted \in Reading \cup {Nothing} /\ pendingStart \in Reading \cup {Nothing}
    /\ (latest = Nothing) <=> (accounted = Nothing)
    /\ intervals \in Seq([from4 : Nat, to4 : Nat, unc4 : Nat, lower : Nat, upper : Nat])

(* What a reading brackets: the boottime of its first and last clock read. *)
Opens(r) == (r.boot2 - r.unc2) \div 2
Closes(r) == (r.boot2 + r.unc2) \div 2

Length(i) == slept[i].to - slept[i].from

(* How long the machine slept, for sleeps that fell whole between two      *)
(* boottimes.                                                              *)
SleepsBetween(from, to) == {i \in DOMAIN slept : from <= slept[i].from /\ slept[i].to <= to}
SleptBetween(from, to) == MapThenSumSet(Length, SleepsBetween(from, to))

(* The machine slept while an interval's two readings were apart.          *)
Inside(i, k) == intervals[k].lower <= slept[i].at /\ slept[i].at <= intervals[k].upper

(* observe never reports that the clocks lost continuity when they did     *)
(* not: readings reach it in the order they were taken, from either        *)
(* thread, and a sleep inside a bracket moves the middle of the bracket by *)
(* no more than the uncertainty the reading admits.                        *)
NoFalseDiscontinuity == ~discontinuity

(* Recorded intervals are not empty and do not overlap.                    *)
Ordered ==
    \A k \in DOMAIN intervals :
        /\ intervals[k].from4 < intervals[k].to4
        /\ k + 1 \in DOMAIN intervals => intervals[k].to4 <= intervals[k + 1].from4

(* Together they are as long as the sleeps between the baseline and the    *)
(* last reading that was accounted for, within the uncertainty they carry. *)
Measured ==
    LET Length4(k) == intervals[k].to4 - intervals[k].from4
        Admitted4(k) == intervals[k].unc4
        found4 == MapThenSumSet(Length4, DOMAIN intervals)
        slack4 == MapThenSumSet(Admitted4, DOMAIN intervals)
                  + 2 * (initial.unc2 + accounted.unc2)
    IN  latest # Nothing =>
            /\ found4 <= 4 * SleptBetween(Opens(initial), Closes(accounted)) + slack4
            /\ found4 >= 4 * SleptBetween(Closes(initial), Opens(accounted)) - slack4

(* An interval that spans one sleep is where that sleep was.               *)
Placed ==
    \A k \in DOMAIN intervals : \A i \in DOMAIN slept :
        {j \in DOMAIN slept : Inside(j, k)} = {i} =>
            LET error4 == -intervals[k].unc4..intervals[k].unc4 IN
            /\ 4 * slept[i].from - intervals[k].from4 \in error4
            /\ 4 * slept[i].to - intervals[k].to4 \in error4

(* The sleeps a run reports are the sleeps there were: in order, with no   *)
(* sleep counted twice, over- or understated by more than the uncertainty  *)
(* recorded beside it, or put where it was not, although a sleep may fall  *)
(* inside a reading, a small change may have to wait for confirmation, and *)
(* two threads take the readings.                                          *)
IntervalsMeasure == Ordered /\ Measured /\ Placed

CoverageComplete == finalRead /\ ~errors

(* A report that calls its sleep coverage complete has an interval for     *)
(* every sleep between application entry and finish that is too long to    *)
(* be a jitter of the readings, also when the worker failed, never         *)
(* started, did not end in time or was just observing.                     *)
CoverageHonest ==
    main = "done" /\ CoverageComplete =>
        \A i \in SleepsBetween(span.from, span.to) :
            LET error2 == accounted.unc2 + latest.unc2 IN
            2 * Length(i) > Larger(Floor2, error2) + error2 =>
                \E k \in DOMAIN intervals : Inside(i, k)
=============================================================================
