# Verification of burnbag

TLA+ specifications of burnbag's concurrent and failure-prone parts, the TLC
configurations that check them on small instances, and TLAPS proofs. Every
definition is translated from the Python source; `PROJECT.json` ("map") names
the lines each one stands for.

## 1. The system and its parts

burnbag keeps a laptop running with its lid closed (or suspends it), undoes
every temporary change when it ends, and records a power history. Four kinds of
process take part: foreground *runs* (`burnbag.py`), an optional per-user
background *service* and a system *service* (`burnbag_service.py`), the *viewer*,
and the operating system's own: logind, power-profiles-daemon, the kernel.

| Part | State | Operations | Hard behaviour | What makes it correct | Modelled by |
|---|---|---|---|---|---|
| `TelemetryWriter` (`burnbag_history.py`) | queue, byte and record counters, `_sequence`, `_committed`, `_flush_through`, `_error`, `_closing`, a thread, a condition variable | `submit`, `flush`, `set_prudent`, `close`, `_run` | batches leave the queue before they are committed; deadlines of different length; failures at connect and commit; several callers | a flush or close that succeeds is durable; nothing is dropped in silence; memory is bounded; nobody oversleeps | `HistoryWriter`, `DurableQueue`, `HistoryProofs` |
| Run lifecycle: `_main`, `LidCloseManager` (`burnbag.py`) | obligations (profile, inhibitor, backlights), outcome, timers, signal note, GLib loop | set-up, callbacks, signals, teardown, report | signals between any two steps; calls that fail after they took effect; the log failing under any record; quits that are lost | intent before change; every change owed until undone; restored or reported; one late change at most; stops end | `RunLifecycle`, `HostObligations`, `RunLifecycleProofs` |
| `RunningLog` (`burnbag.py`) | shared JSON-lines file, flock, sequence, `failed_reason` | `open`, `append`, `close` | several processes, torn writes, kills, power loss | an acknowledged record is durable, whole and numbered without gaps; fragments are closed on opening | `RunningLog`, `RunningLogProofs` |
| Recording ownership (`_Collector`, `ForegroundRecorder`, `probe_service`) | two sockets, `delegated`, per-run queue, address, drain lock | start, sample, delegate, take over, `record_event`, `flush`, `close` | service comes and goes, two runs start at once, lost answers, owner of the shared collector leaves | events neither lost in silence nor doubled; somebody records | `Handoff`, `HandoffProofs` |
| Durability leases (`PrudentLease`, `prudent` command) | connections, `leases` counter, policy of the writer, relayed lease | ask, grant, hang up, relay | a lease lives as long as its connection; threads count while the sampler reads | requests combine; start-up policy stands; nothing left over | `PrudentLeases`, `PrudentLeasesProofs` |
| `_BusObserver` and logind | delay locks, main context, `delegated`, `stop` | inhibit, flush and release on `PrepareFor…`, pause, resume, close | a lock granted after delegation or shutdown; impatient logind; failing commit | host sleeps after the commit was tried; no stray lock; delay bounded | `DelayLocks`, `DelayLocksProofs` |
| `SuspendMonitor` (`burnbag.py`) | pairs of clock readings `initial`, `latest`, `accounted`, `pending_start`; intervals; a worker thread and its stop flag | `sample`, `observe`, `start`, `finish`, `finish_suspend_monitoring` | readings bracketed in time and taken outside the lock by two threads; small changes; a worker that does not end | intervals measure the sleeps there were; continuity is not doubted without cause; complete coverage missed nothing | `SuspendMonitor`, `SuspendMonitorProofs` |
| Sleep classification (`read_sleep_journal`, `classify_sleep_records`) and `_drain_sleep` of the collectors | a journal; per collector a monitor and the intervals not yet recorded | pair records, name intervals, drain, reset at a handoff | overlapping, failed, half-forgotten operations; handoffs around a sleep | a sleep is recorded by its owner, once, under a name the journal vouches for | `SleepJournal`, `SleepOwnership`, `SleepOwnershipProofs` |
| History report (`read_history`, `_read_subset`) | two databases, read in short statements | ceiling, count, keys by page, rows, coverage, merge, `_spread` | writers append in between; a source fails at any statement; rank arithmetic | nothing hidden; representatives span the interval | `HistoryStore`, `HistoryReport`, `HistoryProofs` |
| Viewer sources and window (`burnbag_viewer_data.py`, `burnbag_viewer.py`) | ceilings, coverage, state per source; table, generation, cursor, selection, graph | open, page, search, select, drag, zoom, follow the cursor, close | results that arrive late; a source failing between two pages | the window shows what is asked now, and comes to rest | `HistoryStore`, `HistoryViewer`, `HistoryProofs` |
| Service management, installer | files, units, a manifest | install, uninstall | interruption between steps | the next run recognises the state | not modelled |
| History command, duration parsing, battery monitor and statistics, charts, `PowerSampler` | readings | sample, parse, draw | file parsing, real arithmetic | – | not modelled |
| Development tools (`makedocs.py`, `update_ubersight.py`) | – | – | – | – | not modelled |

How they interact: a run asks a collector (the service's, or the one a run of
the same user owns) over a Unix socket for leases, snapshots, events and
flushes; each collector has one `TelemetryWriter`, a sampling loop and a
`_BusObserver`; the run's main thread calls `flush` before it asks logind to
sleep and `close` when it ends; the running log is shared by all processes of a
user and is independent of the history. Each collector and each run has a suspend
monitor; the drain of a collector's monitor precedes the change of its role. Reports
and the viewer never talk to a collector: they read the databases, read-only,
while the writers go on.

## 2. Modules

### HistoryWriter, refining DurableQueue
One action is one critical section of `_condition`, or one step outside it
(connect, SQLite commit, thread exit). `wpc` is the place of the writer thread in
`_run`: `wait` and `timed` are its two waits; `NotifyAll` moves sleepers to the
top of their loops. A record has a number, a size and a deadline (a sample one
`BatchTicks`, an event `EventTicks`); its content, and the coverage rows that
travel in the same transaction, are abstracted. Callers may give up (`timeout`)
whenever they wait. `MaxRecords` and `MaxTime` bound the model.
`DurableQueue` says what callers may rely on: acceptance in order, prefix
durability, honest acknowledgement, nothing accepted after sealing or failure.
`ImplementsQueue` is the refinement.

### RunLifecycle, refining HostObligations
One invocation from the startup plan to the closed log. `stage` is the place of
the main thread; callbacks of the GLib loop run on it one at a time; a signal may
fall between any two steps and only leaves a note (`signal`, and `source` when
there is a loop to queue a quit on). The check for a signal and the change it
protects are separate steps, as in the code. A host call may fail before or after
it took effect. `intents` is the set of intent records on disk. `Modes` selects
run, normal and the one-shot sleep; `out` collects exit code, goal, stop flag and
reason. `BatteryLogFaults` allows the log to fail under the report of a battery
error, where the failure is swallowed (finding 1); the passing run forbids
exactly that. Names of profiles, texts, and battery numbers are abstracted.
`HostObligations` says what the run owes the host, without signals, timers, callbacks or
a log: a change is announced, then promised to be undone, and only then made; only what was promised
is undone; nothing is changed once the recovery began; and who goes with a change in place that is
not to be kept says so in the exit status. `ImplementsObligations` is the refinement. A
change goes by the name of its intent, which for a backlight is its own name; the
inhibitor is its descriptor, so that having it and owing its release are one step (`Take`).

### RunningLog
The file is a sequence of pieces, a record being a head and a rest, so that a
write can stop in the middle. `open` closes an interrupted last line under the
flock; `append` writes, syncs, unlocks. A power loss keeps at least the synced
part and any further prefix. A write may stop half way at any time, also beside another
open log. `base` remembers where the file ended when each session had repaired it. Path and permission
checks are an `open` that may fail.

### Handoff
The service (`svc`, with its number of starts `epoch`), the shared local collector
(`local`, its `owner`, `delegated` and its sampling loop), and per run the
worker of `ForegroundRecorder` and the main thread in `record_event`, `flush` and
`close`. A run that began to close while its worker started a collector closes that one at
once, and the worker gives up the lock of the queue after its three seconds. `held`, `rows` and `gone` say where each event is: in the memory of a
writer, committed, or dead with a process or its failing storage. `Faults`
chooses lost or late answers, failing storage and kills; `Recorders` the runs
that record events; `Sampling` whether readings are followed. A writer is here
only its promise (`Commit`, `Lose`), which `HistoryWriter` justifies. Join
time-outs, the limit of client slots, and the events of `MIRRORED_EVENTS` (answered
and dropped) are left out; a full queue is a refused event.

### PrudentLeases
Each slot serves one connection through the phases of `_client`; `leases` and
`policy` are the counter and the writer's policy; `Upstream` is the lease a
delegating collector holds at the service for those it serves. A run closes its lease
when any request of its loop fails, and asks again. Both collectors
draw on one set of slots, which only lessens what can run at once.

### DelayLocks
One kind of transition (sleep and shutdown are handled alike and share nothing)
between logind, the observer's thread with its queue of callbacks (`inbox`), the
sampling loop that delegates or takes over, and `close()`. Of the writer it keeps
whether something submitted before the announcement, before the flush, or at all
is uncommitted. `waived` remembers why a host need not have waited: no lock, no
recording, the flush of an earlier transition still under way, a commit that
cannot be tried, logind out of patience. At most one rearm is pending. The property signals (lid,
charger, profile) of the observer are not modelled.

### SuspendMonitor
The kernel's two clocks tick and the machine sleeps between any two clock reads.
A reading takes `Pairs` brackets, keeps the tightest and is then observed under
the lock, while another thread may be reading. `main` is the place of the main
thread from the application's entry through `start` and `finish` to the second
reading after the journal query; `worker` is the thread that samples. The middle
of a bracket needs half ticks and an estimated edge quarter ticks, hence the
names ending in 2 and 4. `slept` is what really happened. Wall-clock stamps and
the wording of the log details are left out.

### SleepJournal and SleepOwnership
`SleepJournal` is the pairing of journal records into attempts and of attempts
with intervals, as operators; each mark of a successful return is part of one
flag. `SleepOwnership` puts the monitors of a run and of the service beside
each other, with systemd-sleep processes that write the journal, forgotten
records, a service that starts and is killed, and the drain, reset and baseline
around a handoff. A reading is atomic here, its observation is not.
Each sleep carries its `owner`, the collector that was recording when the
machine fell asleep and not changing its role; `excused` marks those that
nobody can be blamed for (the service killed, or taking over before the local
monitor noticed). The intervals a collector forgets are told apart from the ones
it records by the number of the sleeps they hold.

### HistoryStore, HistoryReport, HistoryViewer, HistoryReaders
`HistoryStore` holds the rows of both databases as readers see them, and one
step that commits a row; `covered` are the boot times in the coverage segments
of the system source. `HistoryReport` has one action for each SQL statement of
a report, each of which may find newer rows or fail; `Ranks` is the choice of
representatives. `HistoryViewer` has one action for each handler of the window's
main thread and for each step of a reading thread; `table.gen` and `graph.gen`
are the generation counters that tell late results from current ones. A read may also raise as a
whole, and showing its rows may fail after the first few: both end the table where it is (`failed`, which
the code tells by the status line only until the next status), without giving up the record it was looking for.
The thread of the overview reads
the same sources and may be the one that meets a fault or an invalid row. The selection of events by
overlap of a sleep with the interval is modelled as their time being in it; the
bound on coverage rows, terms too long to search for, scaling and the buckets
of a graph series are left out. `HistoryReaders` composes a report and a viewer over the same
databases, to which the writers append; it is the specification of the theorems. `MCHistory`
extends it, supplies the databases, and lets one reader work in each behaviour, so that their
states add up. What a reader finds is `WellFormed`: identities differ within a table,
new rows get new ones, and a record that is in both databases is in the system's at a time no later than in the
user's. An identity is a collector's and a sequence number (`burnbag_history.py`), and a record that reaches both
stores keeps its `captured_at`, so the times are in fact equal; the model allows a later one. The viewer needs the last of these when the system source fails
between two pages: from then on a record in both is shown from the user's rows, and had
it been earlier there, it would belong to a page already shown.

`MCRecords` and `MCSleeps` check two specifications each that share no state (what a run writes
down: `RunningLog` and `SuspendMonitor`; what a collector does before and after a sleep: `DelayLocks` and
`SleepOwnership`). In each behaviour one of the two is at work, under its own fairness, so that here
too the states add up. The other `MC…` modules add nothing to the
specification they extend. Definitions marked `Defect:` are
single mistakes of the kind the neighbouring action could contain, and are used
to see that each property can fail.

## 3. Runs

| Run | Bounds | Shows |
|---|---|---|
| `writer` | 2 callers, sizes 1–2, 2 records, queue of 2 records / 3 bytes, clock 0–2 | flush and close are honest, nothing forgotten, memory bound includes the batch, no lost wake-up, refinement of `DurableQueue`; accepted records, flushes and close come to an end |
| `lifecycle` | 2 backlights, all modes and options | intent first, restored or reported, at most one late change, flush before sleep, honest `session_end`, refinement of `HostObligations`, stops end |
| `handoff` | 2 runs, 1 event, 1 start of the service, lost answers, kills | every event accounted for and none twice; flush durable while there is no service |
| `handoff_samples` | 2 runs, 1 start, kills, failing storage | no reading doubled; recording resumes |
| `leases` | 1 run and the relay, 2 slots, 2 requests, time-outs, kills | the policy is that of the requests; a request held at a delegating collector reaches the service and does not outlive its cause |
| `sleeps` | before: 3 transitions, all faults; after: 2 kinds, 2 systemd-sleep processes, 2 sleeps, 2 operations or starts, any of the 4 journal records lost | commit before sleep, no stray lock, lock when quiet, delay bounded; a sleep is recorded once, by its owner, under a name the journal vouches for, and in the end |
| `records` | lines: 2 processes, 3 sessions of 2 records, writes that stop anywhere; sleeps: 3 brackets per reading, 2 ticks, 2 sleeps of 3 or 5 ticks, floor of 3½ ticks, 1 failed reading | an acknowledged line is durable, no interleaving, numbers in order, every fragment older than a session closed by its `open`; continuity never doubted, intervals in order, of the right length and place, honest coverage |
| `history` | 3 rows per source that collide, are covered or corrupt, and for the report 6 and 7, 4 of a kind; 1 append; pages of 1; 3 representatives; 2 resets, 2 graph reads, 1 fault of a source or a read | the report leaves out a row only for a reason and spans the interval; the window shows what is asked and comes to rest |
| `battery_log_failure` (violation) | 1 backlight | finding 1 |
| `handoff_flush` (violation) | 1 run, 1 event, 1 start | finding 2 |
| `sleep_signal` (violation) | one-shot sleep | finding 3 |
| `log_torn` (violation) | 2 processes, 2 sessions of 1 record | finding 4 |

Why the bounds suffice: two callers, processes or runs are enough for every
interference the code provides for (each lock, counter and socket is contended
by two); the writer's limits are set so low that the byte limit refuses a record
while a batch is in flight (the record limit, which only two accepted records
could reach, refuses nothing in this run: that half of `MemoryIsBounded` rests on
`MemoryStaysBounded`, section 4); three log sessions are the fewest in
which one tears, one repairs and one appends; one start of the service already
gives arrival, role change, departure and return of the local collector; three
transitions let a stale announcement meet its successor. One sleep is shorter and
one longer than the floor, so that pending, confirmed and dropped changes all
occur, and there are fewer sleeps than brackets in a reading, which the code relies on
when it keeps the tightest one. Both records of both operations may leave the journal.
Pages of one row make every row a page turn;
four measurements against three representatives are the fewest for which the steps between ranks are
rounded, and two sources that pick three each are the fewest whose merge is reduced once more. Deadlock is not checked
because every system here really stops: the writer ends, invocations end, and
sessions, starts, clocks and requests are bounded; only `leases` never stops and is
checked for it.

### Findings
1. `_record_battery_error` swallows the failure of its own log record during
   set-up, because the failure has just set `teardown_in_progress`; set-up goes on
   and changes the host unlogged. `IntentBeforeMutation` fails
   (`battery_log_failure`).
2. `flush()` asks the collector of the moment, which need not be the one that
   holds the events. `FlushIsDurable` fails (`handoff_flush`); without a service
   it holds (`FlushIsDurableLocally`).
3. A signal before a one-shot sleep request still records success
   (`burnbag.py:2692`), while `docs/specifications/power-lifecycle.md:102` ties
   success to logind's acceptance. `SuccessAfterAcceptance` fails
   (`sleep_signal`); `HonestOutcome`, which counts a signal as a reason in every mode, holds.
4. A record appended behind another process's torn write joins the fragment
   (`burnbag.py:531`); only `open` repairs the tail, although its comment
   (`burnbag.py:403`) aims at "a later record is never concatenated". `AckedIsLegible` fails
   (`log_torn`); what `open` does ensure is `LegibleAfterOpening`.

Other disagreements met while modelling, which the models contain and their
properties allow for:
- An interval that merges two sleeps is named after the one operation of which the
  journal still has the records (`burnbag.py:1208`), although "missing pairs [...] retain mode
  `unknown`" (`docs/specifications/power-lifecycle.md:168-170`). In the run `sleeps` any record may
  be lost, so this happens there; `NamesAreEarned` says how far a name can be relied on.
- A sleep in the window of a handoff may be recorded by both collectors or by
  neither, although the reset is there so that a run "must not recreate the
  daemon's intervals" (`burnbag_service.py:479-480`). `OwnedOnce` and `OwnedIsRecorded`
  speak of sleeps outside it.
- In a report, coverage is read last, so a user's measurement may be suppressed
  although the system row that covers it lies beyond the snapshot.
- `install_services.py` decides from `LoadState` whether an installation is new. If it fails
  after writing the unit and before the manifest, rerunning finds the unit loaded
  and neither enables nor starts it, although `docs/specifications/installation.md:73-75`
  and `194-198` direct the operator to rerun.

### Fairness
Threads keep running: weak fairness for the writer, the workers, the observer
and the main thread, for the drains and readings of a suspend monitor, and for the
threads of the viewer, its main loop and its search timer. GLib reaches a ready
source, and leaves a loop told to quit,
although periodic timers keep firing: strong fairness for these two. Nothing
obliges a caller to call, a run or the service to start or close, a user to act,
a fault to occur, or a wait to time out, so liveness never rests on a timeout. The end of
the observer's loop is not fair, because a quit sent before the loop runs is
lost; `close()` then waits 2.5 s and releases the locks itself.
`RecordingResumes` excuses a run whose attempts to open a collector fail for ever
(`BindFails`).

## 4. Proofs

TLC checks the instances above; the theorems hold for every value of the
constants that satisfies the `ASSUME` of the module. Where a theorem assumes more,
its statement says so.

| Module | Obligations | Theorems |
|---|---|---|
| `HistoryProofs` | 4939 | `TypeCorrect`, `FlushIsHonest`, `CloseIsComplete`, `CrashKeepsPrefix`, `NothingIsForgotten`, `MemoryStaysBounded`, `NobodyOversleeps`, `WriterImplementsQueue`; `ReportHidesNothing`, `ReportSpansInterval`, `ViewerFaithful` |
| `RunLifecycleProofs` | 2797 | `TypeCorrect`, `ChangesAreAnnounced`, `SleepIsFlushed`, `RunImplementsObligations`, `RunIsHonoured` (these four without `BatteryLogFaults`), `ObligationsAreHonoured`, `ChangesAreOwed`, `NothingLeftSilently`, `AtMostOneLate`, `OutcomeIsHonest` |
| `RunningLogProofs` | 1203 | `TypeCorrect`, `AcknowledgedSurvives`, `RecordsStayWhole`, `OpeningKeepsLegible`, `NumbersAreOrdered` |
| `SuspendMonitorProofs` | 3747 | `TypeCorrect`, `NeverDoubtsTheClocks`, `IntervalsApart`, `SleepsAreMeasured`, `CompleteMeansComplete` (the last two as long as sleeps take longer than readings) |
| `PrudentLeasesProofs` | 521 | `TypeCorrect`, `CounterCounts`, `PolicyIsThatOfRequests` |
| `DelayLocksProofs` | 524 | `TypeCorrect`, `SleepWaits`, `LocksGo`, `LockComesBack` |
| `SleepOwnershipProofs` | 1996 | `TypeCorrect`, `SleepsAreOwnedOnce`, `NamesASleep`, `NamesFollow`, `NamesEarned` |
| `HandoffProofs` | 1127 | `TypeCorrect`, `EventsAreKeptOnce`, `LocalFlushIsDurable`, `ReadingsAreYielded` (without lost or late answers) |

Each module defines an inductive strengthening, `IInv` (in `HistoryProofs` there are three:
`WriterInv`, `ReportInv` and `ViewerInv`), proves that `Init`
establishes it and every step keeps it (`Invariance`), and draws the properties
from it. Type invariants are proved, so no run repeats them.

**Writer.** `FlushedIsDurable` says nothing of where records are while they
travel, so it is not inductive. `Accounting` numbers them: committed, then the
batch, then the queue, without gap, `_sequence` being the last. `Storage` ties
what SQLite holds to the place of the writer: exactly the committed prefix, and
between the commit and its publication the batch as well. `Ending` says which
ends are clean, `Promises` that no acknowledgement exceeds `_committed` and no
target exceeds `_sequence`. With the five parts each critical section keeps
each part, and the map of `ImplementsQueue` turns every step into a step of
`DurableQueue` or a stutter. `NothingForgotten` follows from `Accounting` and `Storage`.
`NoLostWakeup` is inductive beside `TypeOK`; it uses that the earliest deadline is
at most every deadline (`EarliestDeadlineIsMin`).
`MemoryIsBounded` sums the sizes of a sequence. The folds of the library are recursive
functions, about which the provers know nothing but the defining equation, and the
induction theorems take an operator that they cannot instantiate. So the sum is tied to the
number of bytes, a byte being a pair of a record and a number up to its size, and the tie
is proved by a least counterexample: a set of indices for which it fails holds a smallest one
(`MinimalSubset`), and one step of the fold refutes it. Bytes are then added by
cardinality (`BytesSplit`), and `Memory` is inductive.

**Run lifecycle.** No property is inductive, for each speaks of an effect and
leaves out how the code got there. `Journal`: a failure of the log sets the tip
of the stop flags and ends the set-up, so that whoever is past a record has it on disk.
`Announced` and `Marked` say at each stage which intents are on disk and which
obligations are marked before the call that follows. `Late1` counts: a change
started after a signal is the last. `Recovered` says what the teardown has already
undone or reported at each of its stages, and `Honest` what `session_end` was
told. Most steps only record something, and are dealt with once (`Recorded`, `QuietStep`,
`EarlyStep`, `LateStep`). Finding 1 is where `Announced` needs its assumption:
with `BatteryLogFaults` the log may fail without stopping the set-up.

For the refinement the invariant lacks only that nothing was changed before its turn and that the recovery's
list holds only backlights that are owed (`Ordered`). Most steps are then `Untouched`: they
leave the host and the obligations alone and write at most one intent, so they announce a change, are
blamed, or do nothing (`UntouchedRefines`). Those that touch the host are taken one by one, and
each is one step of `HostObligations`; a request that failed is the change or none of it, blamed (`RequestRefines`), and
an attempt to undo that failed is a `Botch`. `End` needs `Recovered`. The theorem excludes the swallowed failure of
finding 1, with which a change is made that no record announces. `Honoured`, which is inductive over the abstract steps alone, then
holds of every run (`RunIsHonoured`).

**History readers.** Both readers take pages from sets put in order by `captured_at` and identity, and the
place of a row is the number of rows before it. The first part of the module says what that
yields for a finite set in which no two rows are alike (`Chain`): `Place` numbers it from 0 without gap, so
`FirstOf` is a beginning of it and `InOrder` lists it, increasing, each row once. An induction on sets is again a
least counterexample.
A report that has answered depends on four statements per source, among which the writers append. Nothing
that was asked is disturbed: rows are only added behind the ceiling (`LotStays`). `ReportInv` says what
each stage has: the keys walked past are the first of their lot, those picked are the ones
whose rank is wanted, and the ranks still wanted are those not passed (`Walking`); what was kept of a source is all its
representatives of the kinds finished with (`Keeping`); and a source is gathered whole or, failed,
not at all (`Settled`). `SpansInterval` needs that the ranks include the first and the last and
that the merge of several sources thins them by rank again (`Spread`).
`NothingHidden` asks of each missing row that was due why it is missing. What is chosen of both
sources holds a row for every identity that no cause excludes (`ChosenOnce`, `OthersStand`); if
that is more than the limit, the rows told are as many as the limit and include the first and the last of
them (`WhatIsTold`), so that a row thinned out by the merge lies between two that are shown (`NotChosen`).
`ViewerInv` is about what a table answers. `Answers` says of a list that it is the beginning, after a row or
from the start, of what the sources hold for a question, without gap, and the whole of it if there is no
more. A table that failed answers as one that says there is more: a page shown in part, or not at all,
leaves no gap before its end. The loaded rows answer the table's question, and the page of each read its own (`ContentsInv`); a read that carries
the table's generation has the table's question and begins behind its last row, and there is only one
(`TablesInv`). So a page that arrives late is either thrown away or continues the list. Opening, failures
and appends change what the sources hold only in ways that keep an answer an answer.

**Running log.** `LockHeld`: a process inside `open` or `append` holds the flock,
so there is one. `Tails`: what it has written of its record is the end of the
file. Hence the `rest` lands behind its own head (`RecordsStayWhole`) and `fsync`
covers the record that is acknowledged (`AcknowledgedSurvives`). Both hold
wherever writes tear. So does what `open` ensures of legibility, `LegibleAfterOpening`: a head that
follows a head stands behind the place at which its session opened the log (`Joined`). That needs
that the file did not end in a fragment there (`Grounded`), and that a session which is
only opening has written nothing (`Fresh`). A power loss only
shortens the file. That no record ever joins a fragment is false (finding 4).
For the numbers, `Sessions` keeps the sessions of live processes apart and
`Counted` ties `sequence` to the file: a session that has not failed has used
exactly the numbers 1 to `sequence`, and one that failed writes no more.

**Suspend monitor.** The offset of a reading is within its uncertainty of how
long the machine had slept at the instant the monotonic clock was read (`Low2`,
`High2`), and that time only grows. Readings are observed in the order they are
taken, because the main thread reads only while there is no worker or after it was
joined (`OneReader`). So a reading under way, at each of its steps, lies behind
neither the latest nor the accounted one (`Follows`), and no observed offset falls
below an earlier one by more than both uncertainties, which is when `observe`
reports a discontinuity. For `IntervalsApart`, `Reported` adds that each interval
begins at or after the reading that ended the last.

That the intervals are the sleeps there were needs more, and an assumption. `Timeline` puts the
clocks, the sleeps and the readings under way on one axis: the offset after n sleeps is their sum
(`Total`), and a bracket either counts n of them, those before its opening, the others
behind its close (`Counts`), or one of them fell into it. In that last case the bracket is as
wide as a sleep, and then nobody can tell on which side the sleep was. `Sharp` excludes it: any
sleep takes longer than the bracket of a reading that is kept, and than the brackets of the two
readings that `observe` compares, together. `read_suspend_clocks` brackets two calls of a clock, and
a sleep takes seconds, but the code ensures nothing, so the assumption is in the statement:
`Spec /\ []Sharp => []IntervalsMeasure`. It holds in every state of the run `records`. Without
it both properties fail: TLC finds a counterexample with one bracket per reading, a floor of one tick and a
sleep of two. Under it, `Books` is inductive: the baseline, the accounted reading and the latest count
n0 <= n1 <= n2 sleeps, every sleep from n0 + 1 to n1 is in an interval, the window that is open begins
between sleeps n1 and n1 + 1, and the change still in doubt is no more than the floor or the uncertainty
(`Accounts`); the intervals together are the change accounted for, up to what they admit
(`Summed`); and each holds a sleep and is around it (`Occupied`, `Placed`). A small change that is dropped
has missed no sleep (`BooksWait`); a confirmed one holds those from n1 + 1 to m
(`BooksConfirmed`). Sums over intervals and sleeps are counted in units as in the writer. For
`CoverageHonest`, `Ends` follows the main thread: the baseline closed before application entry
ended, and a final reading that succeeded opened after `finish`. So a sleep of the span is numbered n0 + 1
to n2, and one after n1 is too short for the property to be about it.

**Leases.** The counter of a collector is the cardinality of the set of its
threads between `leases += 1` and `leases -= 1` (`Tally`), the lemmas on finite
sets giving what one more or one less means. The policy is decided from the counter
in the critical section that changes it, hence follows it (`Policy`); a thread
that was granted prudence is counted.

**Delay locks.** `Waits`: a transition that must wait for the records that are
due is one of a collector that records and holds its lock, and the flush that
covers them has not returned. `Stages` names what the sampler and `close()` have
done at their intermediate steps. These two need nothing of the order of the
callbacks in the observer's queue; `Flags` separates the finite types from the
rest, because the provers treat sequences and Booleans best apart.
`LockComesBack` does need the order: `Returns` says that behind each announcement in the queue
comes the news of its end, unless logind is still in that transition, so a collector
that lacks its lock will be told to ask again, is at a step that asks, or has no observer any more.

**Handoff.** `Accounted` says of each recorded event that a writer has or had it,
that its run, not yet over, has it queued, or that the run has reported a failure.
It needs `Queues` (a queue holds events of its own run, each once, that no writer has
accepted), without which sending could double an event, and `Emptied` (`flush` reaches its
barrier and `close` its end with the queue drained or an error). `Locally`: before the first start of
the service nothing goes there, which is all that makes the promise of `flush`
good; after it finding 2 applies. Most steps neither record nor send, and are
dealt with once (`Keeps`, `DataKept`). `ReadingsAreYielded` needs that a probe of
a ready service is answered, since the second look at the lease is that probe; its
invariant `Captured` numbers the starts of the service, so that a reading from
before a start is not taken for one that this service covers.

**Ownership and names of sleeps.** `OwnedOnce` is about records and leaves out what is
still to become one. `Sound` says of each monitor that its readings are in order and its
intervals lie one after another up to the latest; `Books` that the records of a collector lie one
after another too and that its monitor is `Past` them; `Excluded` that the monitor of the other collector is
past every sleep that has an owner, except that the run's, while it delegates, may still find one, and
forgets it with the reset around the change of roles. Together they are `Shares`. For the names,
`Operations` gives every sleep the start record of its operation, and a good stop is the next
record of its process after such a start; the readings agree with the stamps of the records (`Agrees`).
`NamesFollow` then says, for any part of the journal a query may find: if every record that is missing is older
than the beginning of the interval, and none is missing or no operation is under way, a name other than
unknown is that of every sleep in the interval.
`NamesASleep` needs no such condition: the name is that of some sleep in it. Between the two
lies what a shortened journal can do: if a whole operation is gone while its interval still waits to be named, the other
sleep of that interval names both (the first of the other disagreements in section 3). `NamesEarned` is both together, for any number of lost records.

**Model-checked only.** Liveness under fairness, in every module, since the
prover has no `ENABLED`, among it `StopEnds`, `DelayIsBounded` and `TableSettles`; and `IntervalsMeasure` and
`CoverageHonest` where a reading is as wide as a sleep, where they can fail.

## 5. Not modelled

- *Charts, formatting, battery statistics, `PowerSampler`, battery monitoring*:
  parsing of `/sys` files, real arithmetic and layout; the one place where they
  touch control, a battery error during a run, is in `RunLifecycle`.
- *Duration parsing and the history command*: pure and sequential, with exhaustive
  tests of their own; the report the command prints is `HistoryReport`.
- *Service management and installation*: a sequential script over systemctl and
  the file system, whose state is not in any model; the last finding above is
  what reading it showed.
- *The viewer's drawing, field preferences, buckets of a series* (`SeriesBuilder`)
  *and automation socket*: GTK and arithmetic; automation calls the handlers that
  are modelled.
- *Property signals of the observer* (lid, charger, profile) become events that
  `Handoff` carries; *join time-outs, client slots, mirrored events* of the collectors.
- *Development tools*: not part of the running program.
- *The system beneath*: SQLite, flock, D-Bus, logind, GLib, systemd and the kernel's clocks are
  external; each is modelled by how the code uses it (an atomic commit that may
  fail, a lock dropped with its process, messages in order, a delay lock that
  logind respects until its patience ends, a loop that loses a quit sent before
  it runs, a clock that counts sleep and one that does not).

## 6. Plan

Done: the writer, the run with its obligations, the log, handoff, leases, delay
locks, the suspend monitor, ownership and naming of sleeps, and both readers of
the history, with the proofs above. What would come next: the property signals in
`DelayLocks`, the buckets of a graph series, and the installer as a machine that may
stop between any two steps.
