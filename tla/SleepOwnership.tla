--------------------------- MODULE SleepOwnership ---------------------------
(***************************************************************************)
(* Who records a sleep: the collector of a foreground run and the          *)
(* background service, each with a SuspendMonitor of its own, and the      *)
(* handoffs between them (_Collector of burnbag_service.py).               *)
(*                                                                         *)
(* A reading of the clocks is atomic here: it tells how often the machine  *)
(* has slept and what the monotonic clock shows (SuspendMonitor is about   *)
(* the reading itself).  Between taking a reading and observing it under   *)
(* the lock, anything may happen.                                          *)
(***************************************************************************)
EXTENDS SleepJournal, FiniteSets

CONSTANTS
    Processes,      \* systemd-sleep processes
    Nothing,        \* no reading
    MaxSleeps,      \* bound: sleeps of the machine
    MaxLost,        \* bound: oldest records the journal has dropped
    MaxEvents       \* bound: operations begun and starts of the service, together

Collectors == {"local", "service"}

ASSUME SleepOwnershipAssumption ==
    /\ Nothing \notin Collectors \cup [slept : Nat, mono : Nat]
    /\ MaxLost \in Nat

VARIABLES
    mono,            \* the monotonic clock
    sleeps,          \* history: what each sleep was for, who owned it, and
                     \* whether it may be missing from the records
    running,         \* per systemd-sleep process: its operation under way
    journal,         \* its records
    operations,      \* operations started
    state,           \* per collector: "off", "ready", "up", "closing", "read"
    starts,          \* times the service was started, for the bound
    monitor,         \* per collector: latest, taken, intervals
    localDelegated,  \* delegated, of the local collector
    switching,       \* its sampler in _set_delegated: "no" or the step it is at
    records          \* the sleep_interval records submitted

machine == <<mono, sleeps, running, journal, operations>>
collectors == <<state, starts, monitor, localDelegated, switching, records>>
vars == <<machine, collectors>>

-----------------------------------------------------------------------------
(* The monitor of a collector *)

NoMonitor == [latest |-> Nothing, taken |-> Nothing, intervals |-> <<>>]
ClockReading == [slept |-> Len(sleeps), mono |-> mono]

Observed(m, current) ==
    [latest |-> current, taken |-> Nothing,
     intervals |->
         IF m.latest # Nothing /\ current.slept > m.latest.slept
         THEN Append(m.intervals,
                     [first |-> m.latest.slept + 1, last |-> current.slept,
                      lower |-> m.latest.mono, upper |-> current.mono])
         ELSE m.intervals]

(* The worker reads the clocks outside the lock ...                        *)
WorkerReads(c) ==
    /\ state[c] = "up"
    /\ monitor[c].taken = Nothing
    /\ monitor' = [monitor EXCEPT ![c].taken = ClockReading]
    /\ UNCHANGED <<machine, state, starts, localDelegated, switching, records>>

(* ... and observes the reading under it.                                  *)
WorkerObserves(c) ==
    /\ state[c] = "up"
    /\ monitor[c].taken # Nothing
    /\ monitor' = [monitor EXCEPT ![c] = Observed(@, @.taken)]
    /\ UNCHANGED <<machine, state, starts, localDelegated, switching, records>>

Idle == [kind |-> "none", slept |-> FALSE]

(* What read_sleep_journal may return: nothing, when the journal cannot be *)
(* read in time and in full, or the records it still holds.  The journal   *)
(* drops whole old files: never a record of an operation still under way.  *)
Readable ==
    {<<>>} \cup
    {SubSeq(journal, k + 1, Len(journal)) :
        k \in {k \in 0..MaxLost : k = 0 \/ \A p \in Processes : running[p] = Idle}}

Recorded(c, interval, found) ==
    [by |-> c, first |-> interval.first, last |-> interval.last,
     kind |-> NameOf(found, interval)]

Yields(c) == c = "local" /\ localDelegated

(* _drain_sleep: the intervals leave the monitor; a collector that has     *)
(* delegated forgets them, an owner names and submits them.                *)
DrainSleep(c) ==
    IF Yields(c)
    THEN records' = records
    ELSE \E found \in Readable :
         records' = records \o
             [i \in DOMAIN monitor[c].intervals |-> Recorded(c, monitor[c].intervals[i], found)]

-----------------------------------------------------------------------------
(* The sampling loops *)

(* One turn of the loop of an owner that sees no reason to switch.         *)
Drains(c) ==
    /\ state[c] = "up"
    /\ ~Yields(c) /\ (c = "local" => switching = "no")
    /\ monitor[c].intervals # <<>>
    /\ DrainSleep(c)
    /\ monitor' = [monitor EXCEPT ![c].intervals = <<>>]
    /\ UNCHANGED <<machine, state, starts, localDelegated, switching>>

ServiceReady == state["service"] \in {"ready", "up"}
SamplerRuns(c) == state[c] # "off"

(* The local sampler finds out that the service came or went.              *)
Probe ==
    /\ state["local"] \in {"ready", "up"}
    /\ switching = "no" /\ localDelegated # ServiceReady
    /\ switching' = IF ServiceReady THEN "leaving" ELSE "returning"
    /\ UNCHANGED <<machine, state, starts, monitor, localDelegated, records>>

(* _set_delegated(True): what the monitor has found is recorded first; the *)
(* query of the journal takes time before the reset that follows.          *)
DrainBeforeHandoff ==
    /\ SamplerRuns("local") /\ switching = "leaving"
    /\ DrainSleep("local")
    /\ monitor' = [monitor EXCEPT !["local"].intervals = <<>>]
    /\ switching' = "reset"
    /\ UNCHANGED <<machine, state, starts, localDelegated>>

(* Defect: the monitor is emptied but keeps its baseline.                  *)
ResetMonitorKeepingBaseline ==
    /\ SamplerRuns("local") /\ switching \in {"reset", "returning"}
    /\ monitor' = [monitor EXCEPT !["local"].intervals = <<>>]
    /\ localDelegated' = (switching = "reset")
    /\ switching' = "no"
    /\ UNCHANGED <<machine, state, starts, records>>

(* The monitor starts over under its lock; a reading taken before stays.   *)
ResetMonitor ==
    /\ SamplerRuns("local") /\ switching \in {"reset", "returning"}
    /\ monitor' = [monitor EXCEPT !["local"].latest = Nothing, !["local"].intervals = <<>>]
    /\ localDelegated' = (switching = "reset")
    /\ switching' = "no"
    /\ UNCHANGED <<machine, state, starts, records>>

-----------------------------------------------------------------------------
(* Start, close, and the death of the service *)

Excuse(these) ==
    sleeps' = [i \in DOMAIN sleeps |-> [sleeps[i] EXCEPT !.excused = @ \/ i \in these]]

Seen(c) == IF monitor[c].latest = Nothing THEN 0 ELSE monitor[c].latest.slept

(* `ready' is true before the monitor has its first reading.  A sleep that *)
(* the local monitor has not noticed by now may fall to neither.           *)
StartService ==
    /\ state["service"] = "off" /\ operations + starts < MaxEvents
    /\ starts' = starts + 1
    /\ state' = [state EXCEPT !["service"] = "ready"]
    /\ Excuse({i \in DOMAIN sleeps : sleeps[i].owner = "local" /\ i > Seen("local")})
    /\ UNCHANGED <<mono, running, journal, operations, monitor, localDelegated, switching, records>>

Baseline(c) ==
    /\ state[c] = "ready"
    /\ state' = [state EXCEPT ![c] = "up"]
    /\ monitor' = [monitor EXCEPT ![c] = Observed(@, ClockReading)]
    /\ UNCHANGED <<machine, starts, localDelegated, switching, records>>

(* close: not ready any more; the worker's reading under way is dropped.   *)
Close(c) ==
    /\ state[c] = "up"
    /\ state' = [state EXCEPT ![c] = "closing"]
    /\ monitor' = [monitor EXCEPT ![c].taken = Nothing]
    /\ UNCHANGED <<machine, starts, localDelegated, switching, records>>

(* Defect: a close trusts what the worker has observed.                    *)
FinalReadingSkipped(c) ==
    /\ state[c] = "closing"
    /\ state' = [state EXCEPT ![c] = "read"]
    /\ UNCHANGED <<machine, starts, monitor, localDelegated, switching, records>>

(* SuspendMonitor.finish *)
FinalReading(c) ==
    /\ state[c] = "closing"
    /\ state' = [state EXCEPT ![c] = "read"]
    /\ monitor' = [monitor EXCEPT ![c] = Observed(@, ClockReading)]
    /\ UNCHANGED <<machine, starts, localDelegated, switching, records>>

(* The sampler has been joined; the last intervals are submitted.          *)
FinalDrain(c) ==
    /\ state[c] = "read"
    /\ c = "local" => switching = "no"
    /\ DrainSleep(c)
    /\ state' = [state EXCEPT ![c] = "off"]
    /\ monitor' = [monitor EXCEPT ![c] = NoMonitor]
    /\ UNCHANGED <<machine, starts, localDelegated, switching>>

KillService ==
    /\ state["service"] # "off"
    /\ state' = [state EXCEPT !["service"] = "off"]
    /\ monitor' = [monitor EXCEPT !["service"] = NoMonitor]
    /\ Excuse({i \in DOMAIN sleeps : sleeps[i].owner = "service"})
    /\ UNCHANGED <<mono, running, journal, operations, starts, localDelegated, switching, records>>

-----------------------------------------------------------------------------
(* The machine *)

(* Which collector owns the sleeps of this moment beyond doubt: it has a   *)
(* baseline, nobody is switching, and no reading of the other is on its    *)
(* way to be observed.                                                     *)
Owner ==
    IF switching # "no" THEN Nothing
    ELSE IF /\ ~localDelegated /\ state["local"] = "up" /\ state["service"] = "off"
            /\ monitor["local"].latest # Nothing
         THEN "local"
    ELSE IF /\ localDelegated /\ state["service"] = "up" /\ monitor["local"].taken = Nothing
         THEN "service"
    ELSE Nothing

(* The machine sleeps for an operation under way.                          *)
Sleep(p) ==
    /\ Len(sleeps) < MaxSleeps
    /\ running[p].kind # "none" /\ ~running[p].slept
    /\ sleeps' = Append(sleeps, [kind |-> running[p].kind, owner |-> Owner, excused |-> FALSE])
    /\ running' = [running EXCEPT ![p].slept = TRUE]
    /\ UNCHANGED <<mono, journal, operations, collectors>>

(* Time passes before and after a record: no reading carries its stamp.    *)
Write(record) ==
    /\ journal' = Append(journal, record)
    /\ mono' = mono + 2

(* systemd-sleep announces an operation, perhaps one of several of a       *)
(* compound request, ...                                                   *)
BeginOperation(p, kind) ==
    /\ operations + starts < MaxEvents /\ running[p] = Idle
    /\ operations' = operations + 1
    /\ running' = [running EXCEPT ![p] = [kind |-> kind, slept |-> FALSE]]
    /\ Write([what |-> "start", process |-> p, stamp |-> mono + 1, kind |-> kind, good |-> TRUE])
    /\ UNCHANGED <<sleeps, collectors>>

(* ... and reports the return of the machine, or its refusal to sleep.     *)
EndOperation(p) ==
    /\ running[p] # Idle
    /\ running' = [running EXCEPT ![p] = Idle]
    /\ Write([what |-> "stop", process |-> p, stamp |-> mono + 1, kind |-> running[p].kind,
              good |-> running[p].slept])
    /\ UNCHANGED <<sleeps, operations, collectors>>

-----------------------------------------------------------------------------
Init ==
    /\ mono = 0 /\ sleeps = <<>> /\ journal = <<>> /\ operations = 0
    /\ running = [p \in Processes |-> Idle]
    /\ state = [c \in Collectors |-> IF c = "local" THEN "ready" ELSE "off"]
    /\ starts = 0
    /\ monitor = [c \in Collectors |-> NoMonitor]
    /\ localDelegated = FALSE /\ switching = "no"
    /\ records = <<>>

Next ==
    \/ \E c \in Collectors :
           \/ WorkerReads(c) \/ WorkerObserves(c) \/ Drains(c) \/ Baseline(c)
           \/ Close(c) \/ FinalReading(c) \/ FinalDrain(c)
    \/ Probe \/ DrainBeforeHandoff \/ ResetMonitor
    \/ StartService \/ KillService
    \/ \E p \in Processes :
           Sleep(p) \/ EndOperation(p) \/ \E kind \in Kinds : BeginOperation(p, kind)

Fairness ==
    /\ \A c \in Collectors :
           /\ WF_vars(WorkerReads(c)) /\ WF_vars(WorkerObserves(c)) /\ WF_vars(Drains(c))
           /\ WF_vars(FinalReading(c)) /\ WF_vars(FinalDrain(c))
    /\ WF_vars(DrainBeforeHandoff) /\ WF_vars(ResetMonitor)

Spec == Init /\ [][Next]_vars /\ Fairness

-----------------------------------------------------------------------------
(* Properties *)

RecordsOf(i) == {k \in DOMAIN records : records[k].first <= i /\ i <= records[k].last}

(* A sleep is in at most one record of each collector, and one that has an *)
(* owner is in no record of anybody else: delegating forgets what the      *)
(* local monitor goes on seeing, taking over starts from a new baseline.   *)
(* Only around a handoff may both collectors record one sleep.             *)
OwnedOnce ==
    \A i \in DOMAIN sleeps :
        /\ \A c \in Collectors : Cardinality({k \in RecordsOf(i) : records[k].by = c}) <= 1
        /\ sleeps[i].owner # Nothing => \A k \in RecordsOf(i) : records[k].by = sleeps[i].owner

(* A named record holds a sleep of that name.                              *)
NamedAfterASleep ==
    \A k \in DOMAIN records : records[k].kind # Unknown =>
        \E i \in records[k].first..records[k].last : sleeps[i].kind = records[k].kind

(* An interval that a monitor holds, read with the journal from record     *)
(* k + 1 on: when no operation under way is cut off and all that is lost   *)
(* is older than the interval, a name is that of every sleep in it.        *)
NamesFollowJournal ==
    \A c \in Collectors : \A n \in 1..Len(monitor[c].intervals) : \A k \in 0..Len(journal) :
        LET v == monitor[c].intervals[n]
            found == SubSeq(journal, k + 1, Len(journal)) IN
        /\ k = 0 \/ \A p \in Processes : running[p] = Idle
        /\ \A b \in 1..k : journal[b].stamp < v.lower
        /\ NameOf(found, v) # Unknown
        => \A i \in v.first..v.last : sleeps[i].kind = NameOf(found, v)

(* Whatever has left the journal, a sleep is named after something the     *)
(* machine did; and after all it did, when only records from before the    *)
(* interval are gone, although operations of several processes overlap,    *)
(* fail or are under way (classify_sleep_records, read_sleep_journal).     *)
NamesAreEarned == NamedAfterASleep /\ NamesFollowJournal

(* A sleep that has an owner is recorded in the end, by the loop, by the   *)
(* drain that precedes a handoff or by a close, unless the service that    *)
(* owned it is killed, or starts before the local monitor noticed it.      *)
OwnedIsRecorded ==
    \A i \in 1..MaxSleeps :
        (i \in DOMAIN sleeps /\ sleeps[i].owner # Nothing)
            ~> (i \in DOMAIN sleeps /\ (RecordsOf(i) # {} \/ sleeps[i].excused))
=============================================================================
