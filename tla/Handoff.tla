------------------------------- MODULE Handoff -------------------------------
(***************************************************************************)
(* Who records the power history of one user: the background service, or   *)
(* the collector that one of the user's foreground runs owns.  Each run    *)
(* has a ForegroundRecorder: a queue of events, a worker thread that       *)
(* follows the recording collector and sends it the events, and the main   *)
(* thread, which records events, asks for a flush, and closes.             *)
(*                                                                         *)
(* A collector is known by its socket: "svc" or "local".  Owning a socket  *)
(* is atomic (bind).  An event is one whose kind no collector observes by  *)
(* itself; those of MIRRORED_EVENTS are answered and dropped.              *)
(***************************************************************************)
EXTENDS Naturals, Sequences, FiniteSets, SequencesExt

CONSTANTS
    Runs,       \* foreground runs of one user
    Recorders,  \* those of them that record events and ask for flushes
    Nobody,     \* the owner of a free socket, the holder of a free lock
    Faults,     \* subset of {"answers", "disk", "kill"}: what may go wrong
    Sampling,   \* does the local collector take samples?
    MaxStarts,  \* bound of the model on starts of the service
    MaxEvents   \* bound of the model on events of a run

ASSUME HandoffAssumption ==
    /\ Nobody \notin Runs \cup {"worker", "main"}
    /\ Recorders \subseteq Runs
    /\ Faults \subseteq {"answers", "disk", "kill"}
    /\ Sampling \in BOOLEAN
    /\ MaxStarts \in Nat /\ MaxEvents \in Nat

VARIABLES
    svc,        \* the service: "down", "bound", "ready", "sick" or "closing"
    epoch,      \* how many times it started
    owner,      \* the run that owns the local collector
    local,      \* the local collector: "none", "ready", "sick" or "closing"
    delegated,  \* _Collector.delegated of the local collector
    sampler,    \* its sampling loop
    captured,   \* the epoch of the service its last reading was taken in
    doubled,    \* a reading was recorded that the service covers (history)
    held,       \* the events in the memory of each writer
    rows,       \* the events each writer has committed
    gone,       \* the events that died with a writer or its process
    accepted,   \* how often each event was accepted by a writer (history)
    life,       \* a run: "up", "closing" or "done"
    worker,     \* its ForegroundRecorder._run
    main,       \* its main thread in flush() and close()
    address,    \* ForegroundRecorder.address
    queue,      \* pending
    holder,     \* who holds drain_lock
    recorded,   \* how many events it recorded
    error,      \* the recorders that have reported a failure
    promised    \* the events recorded before a flush() that returned True

service == <<svc, epoch>>
lease == <<owner, local, delegated>>
samples == <<sampler, captured, doubled>>
storage == <<held, rows, gone, accepted>>
threads == <<life, worker, main>>
recorder == <<address, queue, holder, recorded, error, promised>>
vars == <<service, lease, samples, storage, threads, recorder>>

Events == Recorders \X (1 .. MaxEvents)

Sockets == {"svc", "local"}

Init ==
    /\ svc = "down" /\ epoch = 0
    /\ owner = Nobody /\ local = "none" /\ delegated = FALSE
    /\ sampler = "probe" /\ captured = 0 /\ doubled = FALSE
    /\ held = [s \in Sockets |-> {}] /\ rows = [s \in Sockets |-> {}]
    /\ gone = {} /\ accepted = [e \in Events |-> 0]
    /\ life = [r \in Runs |-> "up"]
    /\ worker = [r \in Runs |-> "probe"] /\ main = [r \in Runs |-> "idle"]
    /\ address = [r \in Runs |-> "svc"] /\ queue = [r \in Runs |-> <<>>]
    /\ holder = [r \in Runs |-> Nobody] /\ recorded = [r \in Runs |-> 0]
    /\ error = {} /\ promised = {}

(* probe_service() = "ready"; an answer that does not come in time counts  *)
(* as an unhealthy service.                                                *)
Probe(seen) == seen = (svc = "ready") \/ ("answers" \in Faults /\ ~seen)

Storing(s) == IF s = "svc" THEN svc = "ready" ELSE local = "ready"

(* The socket refuses a connection: nobody has bound it, or its owner shut *)
(* the listener down and keeps only the name.                              *)
Refused(s) ==
    IF s = "svc" THEN svc \in {"down", "closing"} ELSE local \in {"none", "closing"}

(* The writer behind a socket commits what it holds, or loses it.          *)
Commit(s) ==
    /\ rows' = [rows EXCEPT ![s] = @ \cup held[s]]
    /\ held' = [held EXCEPT ![s] = {}]
    /\ UNCHANGED <<gone, accepted>>

Lose(s) ==
    /\ gone' = gone \cup held[s]
    /\ held' = [held EXCEPT ![s] = {}]
    /\ UNCHANGED <<rows, accepted>>

Report(r) == error' = error \cup ({r} \cap Recorders)

-----------------------------------------------------------------------------
(* The background service: run_collector and _Collector.start and close.   *)

ServiceBinds ==
    /\ svc = "down" /\ epoch < MaxStarts
    /\ svc' = "bound" /\ epoch' = epoch + 1
    /\ UNCHANGED <<lease, samples, storage, threads, recorder>>

ServiceReady ==
    /\ svc = "bound"
    /\ svc' = "ready" \/ ("disk" \in Faults /\ svc' = "down")
    /\ UNCHANGED <<epoch, lease, samples, storage, threads, recorder>>

ServiceCloses ==
    /\ svc \in {"ready", "sick"}
    /\ svc' = "closing"
    /\ UNCHANGED <<epoch, lease, samples, storage, threads, recorder>>

(* The socket is released only after the writer has committed its queue.   *)
ServiceClosed ==
    /\ svc = "closing"
    /\ svc' = "down"
    /\ Commit("svc") \/ ("disk" \in Faults /\ Lose("svc"))
    /\ UNCHANGED <<epoch, lease, samples, threads, recorder>>

ServiceFails ==
    /\ "disk" \in Faults /\ svc = "ready"
    /\ svc' = "sick"
    /\ Lose("svc")
    /\ UNCHANGED <<epoch, lease, samples, threads, recorder>>

ServiceKilled ==
    /\ "kill" \in Faults /\ svc \notin {"down", "bound"}
    /\ svc' = "down"
    /\ Lose("svc")
    /\ UNCHANGED <<epoch, lease, samples, threads, recorder>>

(* A writer commits what it holds: deadlines, sizes, urgent records.       *)
WriterCommits(s) ==
    /\ Storing(s) /\ held[s] # {}
    /\ Commit(s)
    /\ UNCHANGED <<service, lease, samples, threads, recorder>>

Service ==
    \/ ServiceBinds \/ ServiceReady \/ ServiceCloses \/ ServiceClosed
    \/ ServiceFails \/ ServiceKilled

-----------------------------------------------------------------------------
(* The sampling loop of the local collector: _sample_loop_inner and        *)
(* _set_delegated.                                                         *)

LocalFails ==
    /\ "disk" \in Faults /\ local = "ready"
    /\ local' = "sick"
    /\ Lose("local")
    /\ UNCHANGED <<service, owner, delegated, samples, threads, recorder>>

Loop(from, to) ==
    /\ local = "ready" /\ sampler = from
    /\ sampler' = to
    /\ UNCHANGED <<service, threads, recorder>>

(* Defect: a delegated collector does not look for the service again.      *)
SamplerProbesOnce ==
    \E seen \in BOOLEAN :
        /\ Probe(seen)
        /\ Loop("probe", IF delegated THEN "probe" ELSE IF seen THEN "flush"
                         ELSE IF Sampling THEN "sample" ELSE "probe")
        /\ UNCHANGED <<lease, captured, doubled, storage>>

SamplerProbes ==
    \E seen \in BOOLEAN :
        /\ Probe(seen)
        /\ Loop("probe", IF seen # delegated THEN "flush"
                         ELSE IF delegated \/ ~Sampling THEN "probe" ELSE "sample")
        /\ UNCHANGED <<lease, captured, doubled, storage>>

(* Before the role changes, the writer is flushed.  At the top of the loop *)
(* a failed flush ends the loop, and with it the collector.                *)
SamplerFlushes ==
    /\ Loop("flush", "switch")
    /\ \/ Commit("local") /\ UNCHANGED lease
       \/ "disk" \in Faults /\ Lose("local") /\ local' = "sick"
          /\ UNCHANGED <<owner, delegated>>
    /\ UNCHANGED <<captured, doubled>>

SamplerSwitches ==
    /\ Loop("switch", IF delegated /\ Sampling THEN "sample" ELSE "probe")
    /\ delegated' = ~delegated
    /\ UNCHANGED <<owner, local, captured, doubled, storage>>

(* No sample is due.                                                       *)
SamplerRests ==
    /\ Loop("sample", "probe")
    /\ UNCHANGED <<lease, captured, doubled, storage>>

SamplerReads ==
    /\ Loop("sample", "read")
    /\ captured' = IF svc = "ready" THEN epoch ELSE 0
    /\ UNCHANGED <<lease, doubled, storage>>

(* Defect: the lease is not checked again after the hardware was read.     *)
SamplerReprobesNot ==
    /\ Loop("read", "submit")
    /\ UNCHANGED <<lease, captured, doubled, storage>>

SamplerReprobes ==
    \E seen \in BOOLEAN :
        /\ Probe(seen)
        /\ Loop("read", IF seen THEN "yield" ELSE "submit")
        /\ UNCHANGED <<lease, captured, doubled, storage>>

(* Here a failed flush is only a warning.                                  *)
SamplerYields ==
    \/ Loop("yield", "switch") /\ Commit("local")
       /\ UNCHANGED <<lease, captured, doubled>>
    \/ "disk" \in Faults /\ Loop("yield", "probe")
       /\ UNCHANGED <<lease, captured, doubled, storage>>

SamplerSubmits ==
    /\ Loop("submit", "probe")
    /\ doubled' = (doubled \/ (svc = "ready" /\ captured = epoch))
    /\ UNCHANGED <<lease, captured, storage>>

Sampler ==
    \/ SamplerProbes \/ SamplerFlushes \/ SamplerSwitches \/ SamplerRests
    \/ SamplerReads \/ SamplerReprobes \/ SamplerYields \/ SamplerSubmits

-----------------------------------------------------------------------------
(* Requests of a run: the "event" and "flush" commands of _client, and     *)
(* taking the socket of the local collector.                               *)

Accept(s, e) ==
    /\ held' = [held EXCEPT ![s] = @ \cup {e}]
    /\ accepted' = [accepted EXCEPT ![e] = @ + 1]
    /\ UNCHANGED <<rows, gone>>

(* The writer the event reaches: a delegated collector passes it on.       *)
Destination(s) == IF s = "local" /\ delegated THEN "svc" ELSE s

(* Defect: an event whose request failed is put back and sent again.       *)
SendAgain(r) ==
    LET to == Destination(address[r])
    IN \/ /\ Storing(address[r]) /\ Storing(to)
          /\ Accept(to, Head(queue[r]))
          /\ \/ queue' = [queue EXCEPT ![r] = Tail(@)] /\ UNCHANGED error
             \/ "answers" \in Faults /\ Report(r) /\ UNCHANGED queue
       \/ /\ ~Storing(address[r]) \/ ~Storing(to)
          /\ Report(r) /\ UNCHANGED <<queue, storage>>

(* One turn of _drain_events_locked.  A request that fails is reported and *)
(* not repeated: its event may have been accepted all the same.            *)
Send(r) ==
    LET to == Destination(address[r])
        reachable == Storing(address[r]) /\ Storing(to)
    IN /\ queue' = [queue EXCEPT ![r] = Tail(@)]
       /\ \/ reachable /\ Accept(to, Head(queue[r])) /\ UNCHANGED error
          \/ reachable /\ "answers" \in Faults /\ Accept(to, Head(queue[r])) /\ Report(r)
          \/ (~reachable \/ "answers" \in Faults) /\ Report(r) /\ UNCHANGED storage

(* candidate.start(): of two runs that find no collector one binds.        *)
Bind(r) ==
    IF owner = Nobody
      THEN /\ owner' = r /\ local' = "ready" /\ delegated' = FALSE
           /\ sampler' = "probe" /\ captured' = 0
      ELSE UNCHANGED <<lease, sampler, captured>>

(* The owner gives the socket back.                                        *)
Released ==
    owner' = Nobody /\ local' = "none" /\ delegated' = FALSE /\ sampler' = "probe" /\ captured' = 0

-----------------------------------------------------------------------------
(* The worker of a run: ForegroundRecorder._run.                           *)

Work(r, from, to) ==
    /\ life[r] # "done" /\ worker[r] = from
    /\ worker' = [worker EXCEPT ![r] = to]
    /\ UNCHANGED <<service, life, main, recorded, promised>>

WorkerProbes(r) ==
    \E seen \in BOOLEAN :
        /\ life[r] = "up" /\ Probe(seen)
        /\ address' = [address EXCEPT ![r] = IF seen THEN "svc" ELSE "local"]
        /\ Work(r, "probe", IF seen THEN "askSvc"
                            ELSE IF owner = r THEN "askLocal" ELSE "look")
        /\ UNCHANGED <<lease, samples, storage, queue, holder, error>>

(* Is there a collector of another run of this user?                       *)
WorkerLooks(r) ==
    /\ \/ Refused("local") /\ Work(r, "look", "bind") /\ UNCHANGED error
       \/ ~Refused("local") /\ Work(r, "look", "askLocal") /\ UNCHANGED error
       \/ (local = "sick" \/ "answers" \in Faults)
          /\ Work(r, "look", "probe") /\ Report(r)
    /\ UNCHANGED <<lease, samples, storage, address, queue, holder>>

WorkerBinds(r) ==
    \/ /\ Bind(r)
       /\ Work(r, "bind", IF owner = Nobody THEN "bound" ELSE "askLocal")
       /\ UNCHANGED <<doubled, storage, address, queue, holder, error>>
    \/ /\ "disk" \in Faults /\ Work(r, "bind", "probe") /\ Report(r)
       /\ UNCHANGED <<lease, samples, storage, address, queue, holder>>

WorkerKeeps(r) ==
    /\ life[r] = "up" /\ Work(r, "bound", "askLocal")
    /\ UNCHANGED <<lease, samples, storage, address, queue, holder, error>>

(* A collector that was started while its run began to close is closed     *)
(* again at once.                                                          *)
WorkerUnbinds(r) ==
    /\ life[r] = "closing"
    /\ \/ /\ local # "closing" /\ local' = "closing"
          /\ Work(r, "bound", "bound")
          /\ UNCHANGED <<owner, delegated, samples, storage, error>>
       \/ /\ local = "closing" /\ Released
          /\ Work(r, "bound", "ended")
          /\ \/ Commit("local") /\ UNCHANGED error
             \/ "disk" \in Faults /\ Lose("local") /\ Report(r)
          /\ UNCHANGED doubled
    /\ UNCHANGED <<address, queue, holder>>

(* The lease and the snapshot are requested before the events are sent.    *)
WorkerAsks(r) ==
    \E s \in Sockets :
        LET here == IF s = "svc" THEN "askSvc" ELSE "askLocal"
        IN /\ \/ Storing(s) /\ Work(r, here, "drain") /\ UNCHANGED error
              \/ (~Storing(s) \/ "answers" \in Faults)
                 /\ Work(r, here, "probe") /\ Report(r)
           /\ UNCHANGED <<lease, samples, storage, address, queue, holder>>

(* The lock is waited for, but not longer than three seconds.              *)
WorkerLocks(r) ==
    /\ \/ /\ holder[r] = Nobody
          /\ holder' = [holder EXCEPT ![r] = "worker"]
          /\ Work(r, "drain", "send")
       \/ /\ holder[r] # Nobody
          /\ Work(r, "drain", "probe") /\ UNCHANGED holder
    /\ UNCHANGED <<lease, samples, storage, address, queue, error>>

WorkerSends(r) ==
    /\ queue[r] # <<>>
    /\ Send(r)
    /\ Work(r, "send", "send")
    /\ UNCHANGED <<lease, samples, address, holder>>

(* The queue is empty, or three seconds have passed.                       *)
WorkerUnlocks(r) ==
    /\ holder' = [holder EXCEPT ![r] = Nobody]
    /\ Work(r, "send", "probe")
    /\ UNCHANGED <<lease, samples, storage, address, queue, error>>

WorkerEnds(r) ==
    /\ life[r] = "closing"
    /\ Work(r, "probe", "ended")
    /\ UNCHANGED <<lease, samples, storage, address, queue, holder, error>>

Worker(r) ==
    \/ WorkerProbes(r) \/ WorkerLooks(r) \/ WorkerAsks(r)
    \/ WorkerBinds(r) \/ WorkerKeeps(r) \/ WorkerUnbinds(r)
    \/ WorkerLocks(r) \/ WorkerSends(r) \/ WorkerUnlocks(r) \/ WorkerEnds(r)

-----------------------------------------------------------------------------
(* The main thread of a run: record_event, flush and close.                *)

Step(r, from, to) ==
    /\ main[r] = from
    /\ main' = [main EXCEPT ![r] = to]
    /\ UNCHANGED <<service, life, worker>>

(* A full queue, or data that JSON cannot hold, is refused and reported.   *)
RecordEvent(r) ==
    /\ r \in Recorders /\ life[r] = "up" /\ recorded[r] < MaxEvents
    /\ Step(r, "idle", "idle")
    /\ recorded' = [recorded EXCEPT ![r] = @ + 1]
    /\ \/ queue' = [queue EXCEPT ![r] = Append(@, <<r, recorded[r] + 1>>)]
          /\ UNCHANGED error
       \/ Report(r) /\ UNCHANGED queue
    /\ UNCHANGED <<lease, samples, storage, address, holder, promised>>

(* close() flushes when its worker has ended.                              *)
FlushBegins(r) ==
    /\ \/ r \in Recorders /\ life[r] = "up" /\ Step(r, "idle", "check")
       \/ life[r] = "closing" /\ worker[r] = "ended" /\ Step(r, "closing", "check")
    /\ UNCHANGED <<lease, samples, storage, recorder>>

FlushChecks(r) ==
    /\ Step(r, "check", IF Refused(address[r]) THEN "reprobe" ELSE "drain")
    /\ UNCHANGED <<lease, samples, storage, recorder>>

FlushReprobes(r) ==
    \E seen \in BOOLEAN :
        /\ Probe(seen)
        /\ address' = [address EXCEPT ![r] = IF seen THEN "svc" ELSE "local"]
        /\ Step(r, "reprobe", IF seen \/ owner = r THEN "drain" ELSE "bind")
        /\ UNCHANGED <<lease, samples, storage, queue, holder, recorded, error, promised>>

FlushBinds(r) ==
    /\ Bind(r)
    /\ Step(r, "bind", "drain")
    /\ UNCHANGED <<doubled, storage, recorder>>

FlushLocks(r) ==
    /\ holder[r] = Nobody
    /\ holder' = [holder EXCEPT ![r] = "main"]
    /\ Step(r, "drain", "send")
    /\ UNCHANGED <<lease, samples, storage, address, queue, recorded, error, promised>>

FlushSends(r) ==
    /\ queue[r] # <<>>
    /\ Send(r)
    /\ Step(r, "send", "send")
    /\ UNCHANGED <<lease, samples, address, holder, recorded, promised>>

FlushUnlocks(r) ==
    /\ queue[r] = <<>>
    /\ holder' = [holder EXCEPT ![r] = Nobody]
    /\ Step(r, "send", "barrier")
    /\ UNCHANGED <<lease, samples, storage, address, queue, recorded, error, promised>>

AfterFlush(r) == IF life[r] = "up" THEN "idle" ELSE "shut"

(* Defect: the collector answers before its writer has committed.          *)
FlushReturnsAtOnce(r) ==
    /\ Storing(address[r])
    /\ promised' = promised \cup ({r} \X (1 .. recorded[r]))
    /\ Step(r, "barrier", AfterFlush(r))
    /\ UNCHANGED <<lease, samples, storage, address, queue, holder, recorded, error>>

(* The flush request: the collector asked commits what it holds itself.    *)
FlushReturns(r) ==
    /\ Storing(address[r])
    /\ Commit(address[r])
    /\ promised' = promised \cup ({r} \X (1 .. recorded[r]))
    /\ Step(r, "barrier", AfterFlush(r))
    /\ UNCHANGED <<lease, samples, address, queue, holder, recorded, error>>

(* Any step may run into the deadline or an error: flush() returns False.  *)
FlushFails(r) ==
    /\ \E from \in {"check", "bind", "drain", "send", "barrier"} :
         Step(r, from, AfterFlush(r))
    /\ Report(r)
    /\ holder' = [holder EXCEPT ![r] = IF @ = "main" THEN Nobody ELSE @]
    /\ UNCHANGED <<lease, samples, storage, address, queue, recorded, promised>>

CloseBegins(r) ==
    /\ life[r] = "up" /\ main[r] = "idle"
    /\ life' = [life EXCEPT ![r] = "closing"]
    /\ main' = [main EXCEPT ![r] = "closing"]
    /\ UNCHANGED <<service, worker, lease, samples, storage, recorder>>

(* _Collector.close() refuses connections first, then commits, and gives   *)
(* the socket back last.                                                   *)
CloseCollector(r) ==
    /\ owner = r /\ local \in {"ready", "sick"}
    /\ local' = "closing"
    /\ Step(r, "shut", "shut")
    /\ UNCHANGED <<owner, delegated, samples, storage, recorder>>

Leave(r) ==
    /\ life' = [life EXCEPT ![r] = "done"]
    /\ worker' = [worker EXCEPT ![r] = "ended"]
    /\ main' = [main EXCEPT ![r] = "ended"]
    /\ address' = [address EXCEPT ![r] = "svc"]
    /\ holder' = [holder EXCEPT ![r] = Nobody]
    /\ IF owner = r
         THEN Released
         ELSE UNCHANGED <<lease, sampler, captured>>
    /\ UNCHANGED <<service, doubled>>

CloseReturns(r) ==
    /\ main[r] = "shut" /\ (owner = r => local = "closing")
    /\ Leave(r)
    /\ \/ (IF owner = r THEN Commit("local") ELSE UNCHANGED storage) /\ UNCHANGED error
       \/ "disk" \in Faults /\ owner = r /\ Lose("local") /\ Report(r)
    /\ UNCHANGED <<queue, recorded, promised>>

(* The process of the run is killed: its queue and its writer die with it. *)
Killed(r) ==
    /\ "kill" \in Faults /\ life[r] # "done"
    /\ Leave(r)
    /\ LET mine == ToSet(queue[r]) \cup (IF owner = r THEN held["local"] ELSE {})
       IN /\ gone' = gone \cup mine
          /\ held' = IF owner = r THEN [held EXCEPT !["local"] = {}] ELSE held
    /\ queue' = [queue EXCEPT ![r] = <<>>]
    /\ UNCHANGED <<rows, accepted, recorded, error, promised>>

Flush(r) ==
    \/ FlushBegins(r) \/ FlushChecks(r) \/ FlushReprobes(r) \/ FlushBinds(r)
    \/ FlushLocks(r) \/ FlushSends(r) \/ FlushUnlocks(r) \/ FlushReturns(r)
    \/ FlushFails(r)

Close(r) == CloseBegins(r) \/ CloseCollector(r) \/ CloseReturns(r)

Next ==
    \/ Service \/ LocalFails \/ Sampler
    \/ \E s \in Sockets : WriterCommits(s)
    \/ \E r \in Runs : Worker(r) \/ RecordEvent(r) \/ Flush(r) \/ Close(r) \/ Killed(r)

(* Threads run.  Nothing obliges a run or the service to start or close,   *)
(* only to finish what it began.                                           *)
Fairness ==
    /\ WF_vars(Sampler)
    /\ WF_vars(ServiceReady)
    /\ WF_vars(ServiceClosed)
    /\ \A r \in Runs : WF_vars(Worker(r)) /\ WF_vars(CloseCollector(r) \/ CloseReturns(r))

Spec == Init /\ [][Next]_vars /\ Fairness

-----------------------------------------------------------------------------
(* Every variable has a value of its kind.                                 *)
TypeOK ==
    /\ svc \in {"down", "bound", "ready", "sick", "closing"} /\ epoch \in 0 .. MaxStarts
    /\ owner \in Runs \cup {Nobody} /\ local \in {"none", "ready", "sick", "closing"}
    /\ delegated \in BOOLEAN /\ doubled \in BOOLEAN /\ captured \in 0 .. MaxStarts
    /\ sampler \in {"probe", "flush", "switch", "sample", "read", "yield", "submit"}
    /\ held \in [Sockets -> SUBSET Events] /\ rows \in [Sockets -> SUBSET Events]
    /\ gone \subseteq Events /\ promised \subseteq Events
    /\ accepted \in [Events -> Nat]
    /\ life \in [Runs -> {"up", "closing", "done"}]
    /\ worker \in [Runs -> {"probe", "look", "bind", "bound", "askSvc", "askLocal", "drain",
                            "send", "ended"}]
    /\ main \in [Runs -> {"idle", "check", "reprobe", "bind", "drain", "send",
                          "barrier", "closing", "shut", "ended"}]
    /\ address \in [Runs -> Sockets] /\ queue \in [Runs -> Seq(Events)]
    /\ holder \in [Runs -> {Nobody, "worker", "main"}]
    /\ recorded \in [Runs -> 0 .. MaxEvents] /\ error \subseteq Recorders

InMemory ==
    (UNION {held[s] : s \in Sockets})
        \cup (UNION {ToSet(queue[r]) : r \in {q \in Runs : life[q] # "done"}})

Durable == UNION {rows[s] : s \in Sockets}

(* Whatever handoffs, restarts and lost answers occur, an event that was   *)
(* recorded is queued in a run that is not over, in the memory of a live   *)
(* writer, committed, or died in a crash; otherwise the run that recorded  *)
(* it has said so.  And no event reaches two writers, or one twice.        *)
EveryEventOnce ==
    /\ \A r \in Recorders, n \in 1 .. MaxEvents : n <= recorded[r] =>
        \/ <<r, n>> \in InMemory \cup Durable \cup gone
        \/ r \in error
    /\ \A e \in Events : accepted[e] <= 1

(* A foreground reading taken while the service records is not recorded    *)
(* beside the service's own ("readers check the lease again after each     *)
(* hardware read and yield before submitting").                            *)
NoDoubleSampling == ~doubled

(* "Durability is acknowledged only after SQLite commits successfully": a  *)
(* flush() that returned True speaks for every event recorded before it,   *)
(* unless the run reported a failure.                                      *)
FlushIsDurable == \A e \in promised : e \in Durable \/ e[1] \in error

(* Where no service has ever started, that promise is kept: what is not    *)
(* durable died with the process of the run that shared its collector.     *)
FlushIsDurableLocally ==
    epoch = 0 => \A e \in promised : e \in Durable \cup gone \/ e[1] \in error

BindFails ==
    \E r \in Runs : life[r] = "up" /\ worker[r] = "bind" /\ worker'[r] = "probe"

(* While a run is up its history does not stay unrecorded: the service     *)
(* records, or a collector of the user does, or its storage has failed,    *)
(* unless no collector can be opened however often it is tried.            *)
RecordingResumes ==
    <>[][~BindFails]_vars =>
        \A r \in Runs :
            life[r] = "up" ~> \/ svc = "ready" \/ life[r] # "up"
                              \/ (local = "ready" /\ ~delegated) \/ local = "sick"
=============================================================================
