---------------------------- MODULE HandoffProofs ----------------------------
(***************************************************************************)
(* What holds of Handoff for any number of runs, events and starts of the  *)
(* service, and for every set of faults.                                   *)
(***************************************************************************)
EXTENDS Handoff, TLAPS

-----------------------------------------------------------------------------
(* The variables in groups, each with its types.                           *)

TService == svc \in {"down", "bound", "ready", "sick", "closing"} /\ epoch \in 0 .. MaxStarts
TLease ==
    /\ owner \in Runs \cup {Nobody} /\ local \in {"none", "ready", "sick", "closing"}
    /\ delegated \in BOOLEAN
TSamples ==
    /\ doubled \in BOOLEAN /\ captured \in 0 .. MaxStarts
    /\ sampler \in {"probe", "flush", "switch", "sample", "read", "yield", "submit"}
TStorage ==
    /\ held \in [Sockets -> SUBSET Events] /\ rows \in [Sockets -> SUBSET Events]
    /\ gone \subseteq Events /\ accepted \in [Events -> Nat]
TThreads ==
    /\ life \in [Runs -> {"up", "closing", "done"}]
    /\ worker \in [Runs -> {"probe", "look", "bind", "bound", "askSvc", "askLocal", "drain",
                            "send", "ended"}]
    /\ main \in [Runs -> {"idle", "check", "reprobe", "bind", "drain", "send",
                          "barrier", "closing", "shut", "ended"}]
TRecorder ==
    /\ address \in [Runs -> Sockets] /\ queue \in [Runs -> Seq(Events)]
    /\ holder \in [Runs -> {Nobody, "worker", "main"}]
    /\ recorded \in [Runs -> 0 .. MaxEvents] /\ error \subseteq Recorders
    /\ promised \subseteq Events

(* Only recorders record.                                                  *)
Mute == \A r \in Runs \ Recorders : recorded[r] = 0

LEMMA TypesInGroups ==
  TypeOK <=> TService /\ TLease /\ TSamples /\ TStorage /\ TThreads /\ TRecorder
BY DEF TypeOK, TService, TLease, TSamples, TStorage, TThreads, TRecorder

LEMMA TypesPrimed ==
  TypeOK' <=> TService' /\ TLease' /\ TSamples' /\ TStorage' /\ TThreads' /\ TRecorder'
BY DEF TypeOK, TService, TLease, TSamples, TStorage, TThreads, TRecorder

LEMMA Unchanged ==
  /\ UNCHANGED service /\ TService => TService'
  /\ UNCHANGED lease /\ TLease => TLease'
  /\ UNCHANGED samples /\ TSamples => TSamples'
  /\ UNCHANGED storage /\ TStorage => TStorage'
  /\ UNCHANGED threads /\ TThreads => TThreads'
  /\ UNCHANGED recorder /\ TRecorder => TRecorder'
BY DEF TService, TLease, TSamples, TStorage, TThreads, TRecorder,
       service, lease, samples, storage, threads, recorder

LEMMA InitTyped == Init => TypeOK
<1> SUFFICES ASSUME Init PROVE TypeOK
  OBVIOUS
<1> USE HandoffAssumption
<1>1. TService  BY DEF Init, TService
<1>2. TLease  BY DEF Init, TLease
<1>3. TSamples
  <2>1. captured \in 0 .. MaxStarts  BY DEF Init
  <2>2. QED  BY <2>1 DEF Init, TSamples
<1>4. TStorage  BY DEF Init, TStorage
<1>5. TThreads  BY DEF Init, TThreads
<1>6. TRecorder  BY DEF Init, TRecorder, Sockets
<1>7. QED  BY <1>1, <1>2, <1>3, <1>4, <1>5, <1>6, TypesInGroups

LEMMA StorageTyped ==
  ASSUME TStorage, NEW s \in Sockets, Commit(s) \/ Lose(s) \/ \E e \in Events : Accept(s, e)
  PROVE  TStorage'
BY DEF TStorage, Commit, Lose, Accept

(* A request takes an event from the queue and puts it anywhere.           *)
LEMMA SendTyped ==
  ASSUME TStorage, TRecorder, NEW r \in Runs, queue[r] # <<>>, Send(r),
         UNCHANGED <<address, holder, recorded, promised>>
  PROVE  TStorage' /\ TRecorder'
<1>1. Head(queue[r]) \in Events /\ Tail(queue[r]) \in Seq(Events)
  BY DEF TRecorder
<1>2. Destination(address[r]) \in Sockets
  BY DEF TRecorder, Destination, Sockets
<1>3. TStorage'
  <2>1. CASE Accept(Destination(address[r]), Head(queue[r]))
    BY <2>1, <1>1, <1>2, StorageTyped
  <2>2. CASE UNCHANGED storage
    BY <2>2, Unchanged
  <2>3. QED  BY <2>1, <2>2 DEF Send
<1>4. error' \subseteq Recorders
  BY DEF Send, Report, TRecorder
<1>5. queue' \in [Runs -> Seq(Events)]
  BY <1>1 DEF Send, TRecorder
<1>6. QED  BY <1>3, <1>4, <1>5 DEF TRecorder

LEMMA ServiceTyped ==
  ASSUME TypeOK, Service \/ \E s \in Sockets : WriterCommits(s)
  PROVE  TypeOK'
<1> USE HandoffAssumption
<1>1. TService /\ TLease /\ TSamples /\ TStorage /\ TThreads /\ TRecorder
  BY TypesInGroups
<1>2. UNCHANGED <<lease, samples, threads, recorder>>
  BY DEF Service, ServiceBinds, ServiceReady, ServiceCloses, ServiceClosed, ServiceFails,
         ServiceKilled, WriterCommits
<1>3. TService'
  BY <1>1 DEF Service, ServiceBinds, ServiceReady, ServiceCloses, ServiceClosed, ServiceFails,
              ServiceKilled, WriterCommits, TService, service
<1>4. UNCHANGED storage \/ \E s \in Sockets : Commit(s) \/ Lose(s)
  BY DEF Service, ServiceBinds, ServiceReady, ServiceCloses, ServiceClosed, ServiceFails,
         ServiceKilled, WriterCommits, Sockets
<1>5. TStorage'
  BY <1>1, <1>4, StorageTyped, Unchanged
<1>6. QED  BY <1>1, <1>2, <1>3, <1>5, Unchanged, TypesPrimed

LEMMA SamplerTyped ==
  ASSUME TypeOK, LocalFails \/ Sampler
  PROVE  TypeOK'
<1> USE HandoffAssumption
<1>1. TService /\ TLease /\ TSamples /\ TStorage /\ TThreads /\ TRecorder
  BY TypesInGroups
<1>2. UNCHANGED <<service, threads, recorder>>
  BY DEF LocalFails, Sampler, SamplerProbes, SamplerFlushes, SamplerSwitches, SamplerRests,
         SamplerReads, SamplerReprobes, SamplerYields, SamplerSubmits, Loop
<1>3. UNCHANGED storage \/ \E s \in Sockets : Commit(s) \/ Lose(s)
  BY DEF LocalFails, Sampler, SamplerProbes, SamplerFlushes, SamplerSwitches, SamplerRests,
         SamplerReads, SamplerReprobes, SamplerYields, SamplerSubmits, Sockets
<1>4. TStorage'
  BY <1>1, <1>3, StorageTyped, Unchanged
<1>5. TLease'
  BY <1>1 DEF LocalFails, Sampler, SamplerProbes, SamplerFlushes, SamplerSwitches,
         SamplerRests, SamplerReads, SamplerReprobes, SamplerYields, SamplerSubmits, TLease, lease
<1>6. TSamples'
  <2> USE <1>1 DEF TSamples, TService, samples, Loop
  <2>1. CASE LocalFails  BY <2>1 DEF LocalFails
  <2>2. CASE SamplerProbes  BY <2>2 DEF SamplerProbes
  <2>3. CASE SamplerFlushes  BY <2>3 DEF SamplerFlushes
  <2>4. CASE SamplerSwitches  BY <2>4 DEF SamplerSwitches
  <2>5. CASE SamplerRests  BY <2>5 DEF SamplerRests
  <2>6. CASE SamplerReads  BY <2>6 DEF SamplerReads
  <2>7. CASE SamplerReprobes  BY <2>7 DEF SamplerReprobes
  <2>8. CASE SamplerYields  BY <2>8 DEF SamplerYields
  <2>9. CASE SamplerSubmits  BY <2>9 DEF SamplerSubmits
  <2>10. QED  BY <2>1, <2>2, <2>3, <2>4, <2>5, <2>6, <2>7, <2>8, <2>9 DEF Sampler
<1>7. QED  BY <1>1, <1>2, <1>4, <1>5, <1>6, Unchanged, TypesPrimed

LEMMA BindTyped ==
  ASSUME TLease, TSamples, NEW r \in Runs, Bind(r), UNCHANGED doubled
  PROVE  TLease' /\ TSamples'
<1>1. TLease'
  BY DEF Bind, TLease, lease
<1>2. captured' \in 0 .. MaxStarts
  BY HandoffAssumption DEF Bind, TSamples
<1>3. QED  BY <1>1, <1>2 DEF Bind, TSamples

LEMMA ReleasedTyped ==
  ASSUME TLease, TSamples, Released, UNCHANGED doubled
  PROVE  TLease' /\ TSamples'
<1>1. captured' \in 0 .. MaxStarts
  BY HandoffAssumption DEF Released
<1>2. QED  BY <1>1 DEF Released, TLease, TSamples

LEMMA WorkerTyped ==
  ASSUME TypeOK, NEW r \in Runs, Worker(r)
  PROVE  TypeOK'
<1>1. TService /\ TLease /\ TSamples /\ TStorage /\ TThreads /\ TRecorder
  BY TypesInGroups
<1>2. UNCHANGED service
  BY DEF Worker, WorkerProbes, WorkerLooks, WorkerBinds, WorkerKeeps, WorkerUnbinds, WorkerAsks, WorkerLocks, WorkerSends,
         WorkerUnlocks, WorkerEnds, Work
<1>3. TThreads'
  BY <1>1 DEF Worker, WorkerProbes, WorkerLooks, WorkerBinds, WorkerKeeps, WorkerUnbinds, WorkerAsks, WorkerLocks,
              WorkerSends, WorkerUnlocks, WorkerEnds, Work, TThreads
<1>4. TLease' /\ TSamples'
  <2>1. CASE WorkerBinds(r) /\ Bind(r) /\ UNCHANGED doubled
    BY <2>1, <1>1, BindTyped
  <2>2. CASE UNCHANGED <<lease, samples>>
    BY <2>2, <1>1, Unchanged
  <2>3. CASE WorkerUnbinds(r)
    <3>1. CASE local' = "closing" /\ UNCHANGED <<owner, delegated, samples>>
      BY <1>1, <3>1, Unchanged DEF TLease
    <3>2. CASE Released /\ UNCHANGED doubled
      BY <1>1, <3>2, ReleasedTyped
    <3>3. QED  BY <2>3, <3>1, <3>2 DEF WorkerUnbinds
  <2>4. QED
    BY <2>1, <2>2, <2>3 DEF Worker, WorkerProbes, WorkerLooks, WorkerBinds, WorkerKeeps, WorkerUnbinds, WorkerAsks, WorkerLocks,
                      WorkerSends, WorkerUnlocks, WorkerEnds
<1>5. TStorage' /\ TRecorder'
  <2>1. CASE WorkerSends(r)
    BY <2>1, <1>1, SendTyped DEF WorkerSends, Work
  <2>2. CASE WorkerUnbinds(r)
    <3>1. UNCHANGED storage \/ Commit("local") \/ Lose("local")
      BY <2>2 DEF WorkerUnbinds
    <3>2. TStorage'
      BY <1>1, <3>1, StorageTyped, Unchanged DEF Sockets
    <3>3. UNCHANGED <<address, queue, holder, recorded, promised>> /\ error' \subseteq Recorders
      BY <1>1, <2>2 DEF WorkerUnbinds, Work, Report, TRecorder
    <3>4. QED  BY <1>1, <3>2, <3>3 DEF TRecorder
  <2>3. CASE ~WorkerSends(r) /\ ~WorkerUnbinds(r)
    <3>1. UNCHANGED <<storage, queue, recorded, promised>>
      BY <2>3 DEF Worker, WorkerProbes, WorkerLooks, WorkerBinds, WorkerKeeps, WorkerUnbinds, WorkerAsks, WorkerLocks,
                  WorkerUnlocks, WorkerEnds, Work
    <3>2. address' \in [Runs -> Sockets]
      BY <1>1, <2>3 DEF Worker, WorkerProbes, WorkerLooks, WorkerBinds, WorkerKeeps, WorkerUnbinds, WorkerAsks, WorkerLocks,
                        WorkerUnlocks, WorkerEnds, TRecorder, Sockets
    <3>3. holder' \in [Runs -> {Nobody, "worker", "main"}]
      BY <1>1, <2>3 DEF Worker, WorkerProbes, WorkerLooks, WorkerBinds, WorkerKeeps, WorkerUnbinds, WorkerAsks, WorkerLocks,
                        WorkerUnlocks, WorkerEnds, TRecorder
    <3>4. error' \subseteq Recorders
      BY <1>1, <2>3 DEF Worker, WorkerProbes, WorkerLooks, WorkerBinds, WorkerKeeps, WorkerUnbinds, WorkerAsks, WorkerLocks,
                        WorkerUnlocks, WorkerEnds, TRecorder, Report
    <3>5. QED  BY <1>1, <3>1, <3>2, <3>3, <3>4, Unchanged DEF TRecorder
  <2>4. QED  BY <2>1, <2>2, <2>3
<1>6. QED  BY <1>1, <1>2, <1>3, <1>4, <1>5, Unchanged, TypesPrimed

(* flush(), which nobody but the main thread runs.                         *)
LEMMA FlushTyped ==
  ASSUME TypeOK, Mute, NEW r \in Runs, Flush(r)
  PROVE  TypeOK'
<1>1. TService /\ TLease /\ TSamples /\ TStorage /\ TThreads /\ TRecorder
  BY TypesInGroups
<1>2. UNCHANGED service
  BY DEF Flush, FlushBegins, FlushChecks, FlushReprobes, FlushBinds, FlushLocks, FlushSends,
         FlushUnlocks, FlushReturns, FlushFails, Step
<1>3. TThreads'
  BY <1>1 DEF Flush, FlushBegins, FlushChecks, FlushReprobes, FlushBinds, FlushLocks, FlushSends,
              FlushUnlocks, FlushReturns, FlushFails, Step, AfterFlush, TThreads
<1>4. TLease' /\ TSamples'
  <2>1. CASE Bind(r) /\ UNCHANGED doubled
    BY <2>1, <1>1, BindTyped
  <2>2. CASE UNCHANGED <<lease, samples>>
    BY <2>2, <1>1, Unchanged
  <2>3. QED
    BY <2>1, <2>2 DEF Flush, FlushBegins, FlushChecks, FlushReprobes, FlushBinds, FlushLocks,
                      FlushSends, FlushUnlocks, FlushReturns, FlushFails
<1>5. TStorage' /\ TRecorder'
  <2>1. CASE FlushSends(r)
    BY <2>1, <1>1, SendTyped DEF FlushSends
  <2>2. CASE FlushReturns(r)
    <3>1. TStorage'
      BY <1>1, <2>2, StorageTyped DEF FlushReturns, TRecorder
    <3>2. promised' \subseteq Events
      <4>1. recorded[r] \in 0 .. MaxEvents
        BY <1>1 DEF TRecorder
      <4>2. r \in Recorders \/ 1 .. recorded[r] = {}
        BY <4>1 DEF Mute
      <4>3. 1 .. recorded[r] \subseteq 1 .. MaxEvents
        BY <4>1, HandoffAssumption
      <4>4. {r} \X (1 .. recorded[r]) \subseteq Events
        BY <4>2, <4>3 DEF Events
      <4>5. QED  BY <1>1, <2>2, <4>4 DEF FlushReturns, TRecorder
    <3>3. QED  BY <1>1, <2>2, <3>1, <3>2 DEF FlushReturns, TRecorder
  <2>3. CASE ~FlushSends(r) /\ ~FlushReturns(r)
    <3>1. UNCHANGED <<storage, queue, recorded, promised>>
      BY <2>3 DEF Flush, FlushBegins, FlushChecks, FlushReprobes, FlushBinds, FlushLocks,
                  FlushUnlocks, FlushFails, recorder
    <3>2. address' \in [Runs -> Sockets]
      BY <1>1, <2>3 DEF Flush, FlushBegins, FlushChecks, FlushReprobes, FlushBinds, FlushLocks,
                  FlushUnlocks, FlushFails, recorder, TRecorder, Sockets
    <3>3. holder' \in [Runs -> {Nobody, "worker", "main"}]
      BY <1>1, <2>3 DEF Flush, FlushBegins, FlushChecks, FlushReprobes, FlushBinds, FlushLocks,
                  FlushUnlocks, FlushFails, recorder, TRecorder
    <3>4. error' \subseteq Recorders
      BY <1>1, <2>3 DEF Flush, FlushBegins, FlushChecks, FlushReprobes, FlushBinds, FlushLocks,
                  FlushUnlocks, FlushFails, recorder, TRecorder, Report
    <3>5. QED  BY <1>1, <3>1, <3>2, <3>3, <3>4, Unchanged DEF TRecorder
  <2>4. QED  BY <2>1, <2>2, <2>3
<1>6. QED  BY <1>1, <1>2, <1>3, <1>4, <1>5, Unchanged, TypesPrimed

LEMMA LeaveTyped ==
  ASSUME TLease, TSamples, TThreads, NEW r \in Runs, Leave(r)
  PROVE  TLease' /\ TSamples' /\ TThreads'
<1>1. TLease'
  BY DEF Leave, Released, TLease, lease
<1>2. captured' \in 0 .. MaxStarts
  BY HandoffAssumption DEF Leave, Released, TSamples
<1>3. TSamples'
  BY <1>2 DEF Leave, Released, TSamples
<1>4. TThreads'
  BY DEF Leave, Released, TThreads
<1>5. QED  BY <1>1, <1>3, <1>4

(* What else the main thread does, and the end of the process.             *)
LEMMA MainTyped ==
  ASSUME TypeOK, NEW r \in Runs, RecordEvent(r) \/ Close(r) \/ Killed(r)
  PROVE  TypeOK'
<1>1. TService /\ TLease /\ TSamples /\ TStorage /\ TThreads /\ TRecorder
  BY TypesInGroups
<1>2. CASE RecordEvent(r)
  <2>1. UNCHANGED <<service, lease, samples, storage>>
    BY <1>2 DEF RecordEvent, Step
  <2>2. TThreads'
    BY <1>1, <1>2 DEF RecordEvent, Step, TThreads
  <2>3. recorded[r] + 1 \in 1 .. MaxEvents /\ r \in Recorders
    BY <1>1, <1>2, HandoffAssumption DEF RecordEvent, TRecorder
  <2>4. <<r, recorded[r] + 1>> \in Events
    BY <2>3 DEF Events
  <2>5. queue' \in [Runs -> Seq(Events)]
    <3>1. queue[r] \in Seq(Events)
      BY <1>1 DEF TRecorder
    <3>2. Append(queue[r], <<r, recorded[r] + 1>>) \in Seq(Events)
      BY <2>4, <3>1
    <3>3. QED  BY <1>1, <1>2, <3>2 DEF RecordEvent, TRecorder
  <2>6. recorded' \in [Runs -> 0 .. MaxEvents]
    BY <1>1, <1>2, <2>3 DEF RecordEvent, TRecorder
  <2>7. error' \subseteq Recorders
    BY <1>1, <1>2 DEF RecordEvent, TRecorder, Report
  <2>8. TRecorder'
    BY <1>1, <1>2, <2>5, <2>6, <2>7 DEF RecordEvent, TRecorder
  <2>9. QED  BY <1>1, <2>1, <2>2, <2>8, Unchanged, TypesPrimed
<1>3. CASE CloseBegins(r) \/ CloseCollector(r)
  <2>1. UNCHANGED <<service, samples, storage, recorder>>
    BY <1>3 DEF CloseBegins, CloseCollector, Step
  <2>2. TThreads'
    BY <1>1, <1>3 DEF CloseBegins, CloseCollector, Step, TThreads
  <2>3. TLease'
    BY <1>1, <1>3 DEF CloseBegins, CloseCollector, TLease, lease
  <2>4. QED  BY <1>1, <2>1, <2>2, <2>3, Unchanged, TypesPrimed
<1>4. CASE CloseReturns(r) \/ Killed(r)
  <2>1. UNCHANGED service /\ Leave(r)
    BY <1>4 DEF CloseReturns, Killed, Leave, Released
  <2>2. TLease' /\ TSamples' /\ TThreads'
    BY <1>1, <2>1, LeaveTyped
  <2>3. TStorage'
    <3>1. CASE CloseReturns(r)
      <4>1. UNCHANGED storage \/ Commit("local") \/ Lose("local")
        BY <3>1 DEF CloseReturns
      <4>2. QED  BY <1>1, <4>1, StorageTyped, Unchanged DEF Sockets
    <3>2. CASE Killed(r)
      <4>1. queue[r] \in Seq(Events)
        BY <1>1 DEF TRecorder
      <4>2. ToSet(queue[r]) \subseteq Events
        BY <4>1 DEF ToSet
      <4>3. gone' \subseteq Events
        BY <1>1, <3>2, <4>2 DEF Killed, TStorage, Sockets
      <4>4. QED  BY <1>1, <3>2, <4>3 DEF Killed, TStorage, Sockets
    <3>3. QED  BY <1>4, <3>1, <3>2
  <2>4. error' \subseteq Recorders
    BY <1>1, <1>4 DEF CloseReturns, Killed, TRecorder, Report
  <2>5. queue' \in [Runs -> Seq(Events)]
    <3>1. <<>> \in Seq(Events)
      OBVIOUS
    <3>2. QED  BY <1>1, <1>4, <3>1 DEF CloseReturns, Killed, TRecorder
  <2>6. TRecorder'
    BY <1>1, <1>4, <2>1, <2>4, <2>5 DEF CloseReturns, Killed, Leave, Released, TRecorder, Sockets
  <2>7. QED  BY <1>1, <2>1, <2>2, <2>3, <2>6, Unchanged, TypesPrimed
<1>5. QED  BY <1>2, <1>3, <1>4 DEF Close

-----------------------------------------------------------------------------
(* Where the events are.                                                   *)

(* Disk, and what nobody will find there any more.                         *)
Landed == rows["svc"] \cup rows["local"] \cup gone
Stored == held["svc"] \cup held["local"] \cup Landed

Queued(r) == {queue[r][i] : i \in 1 .. Len(queue[r])}

Accounted ==
    \A r \in Recorders, n \in 1 .. MaxEvents : n <= recorded[r] =>
        \/ <<r, n>> \in Stored \/ r \in error
        \/ life[r] # "done" /\ <<r, n>> \in Queued(r)

(* A queue holds events of its run, each once, that no writer has seen.    *)
Queues ==
    \A r \in Runs : \A i \in 1 .. Len(queue[r]) :
        /\ queue[r][i][1] = r /\ queue[r][i][2] <= recorded[r]
        /\ accepted[queue[r][i]] = 0
        /\ \A j \in 1 .. Len(queue[r]) : i # j => queue[r][i] # queue[r][j]

Fresh ==
    \A e \in Events : accepted[e] <= 1 /\ (recorded[e[1]] < e[2] => accepted[e] = 0)

(* flush() reaches its barrier with an empty queue, and close() its end    *)
(* with an empty queue or an error.                                        *)
Emptied ==
    \A r \in Runs :
        /\ main[r] = "barrier" => queue[r] = <<>>
        /\ main[r] = "shut" => queue[r] = <<>> \/ r \in error

(* Before the first start of the service nothing goes there.               *)
Locally ==
    epoch = 0 => /\ svc = "down" /\ held["svc"] = {}
                 /\ \A e \in promised : e \in Landed \/ e[1] \in error

Data == Mute /\ Accounted /\ Queues /\ Fresh /\ Emptied /\ Locally

IInv == TypeOK /\ Data

LEMMA DurableRows == Durable = rows["svc"] \cup rows["local"]
BY DEF Durable, Sockets

LEMMA InitData == Init => Data
<1> SUFFICES ASSUME Init PROVE Data
  OBVIOUS
<1> USE HandoffAssumption DEF Init
<1>1. Mute /\ Accounted /\ Emptied
  BY DEF Mute, Accounted, Emptied
<1>2. Queues
  BY DEF Queues
<1>3. Fresh /\ Locally
  BY DEF Fresh, Locally, Sockets
<1>4. QED  BY <1>1, <1>2, <1>3 DEF Data

(* A run that is no recorder has no events.                                *)
LEMMA NobodysQueue ==
  ASSUME TypeOK, Queues, NEW r \in Runs \ Recorders
  PROVE  queue[r] = <<>>
<1> SUFFICES ASSUME queue[r] # <<>> PROVE FALSE
  OBVIOUS
<1>1. queue[r] \in Seq(Events)
  BY DEF TypeOK
<1>2. 1 \in 1 .. Len(queue[r]) /\ queue[r][1] \in Events
  BY <1>1
<1>3. QED  BY <1>2 DEF Queues, Events

(* Committing and losing move events on.                                   *)
LEMMA StorageKeeps ==
  ASSUME TypeOK, NEW s \in Sockets, Commit(s) \/ Lose(s) \/ UNCHANGED storage
  PROVE  /\ Stored \subseteq Stored' /\ Landed \subseteq Landed'
         /\ held[s] \subseteq Landed' \/ UNCHANGED storage
         /\ held'["svc"] \subseteq held["svc"] /\ accepted' = accepted
BY DEF TypeOK, Commit, Lose, storage, Stored, Landed, Sockets

(* A step that neither records nor sends, and forgets nothing.             *)
Keeps ==
    /\ UNCHANGED <<queue, recorded, accepted, promised>>
    /\ Stored \subseteq Stored' /\ Landed \subseteq Landed' /\ error \subseteq error'
    /\ \A r \in Runs : main'[r] \in {"barrier", "shut"} =>
         main'[r] = main[r] \/ queue[r] = <<>> \/ (main'[r] = "shut" /\ r \in error')
    /\ \A r \in Runs : life'[r] = "done" => life[r] = "done" \/ queue[r] = <<>> \/ r \in error
    /\ epoch' = 0 => epoch = 0 /\ svc' = svc /\ held'["svc"] \subseteq held["svc"]

LEMMA DataKept == ASSUME TypeOK, Data, Keeps PROVE Data'
<1> USE DEF Data, Keeps
<1>1. Mute'
  BY DEF Mute
<1>2. Accounted'
  <2> SUFFICES ASSUME NEW r \in Recorders, NEW n \in 1 .. MaxEvents, n <= recorded[r],
                      <<r, n>> \notin Stored', r \notin error'
               PROVE  life'[r] # "done" /\ <<r, n>> \in Queued(r)'
    BY DEF Accounted
  <2>1. life[r] # "done" /\ <<r, n>> \in Queued(r)
    BY DEF Accounted
  <2>2. queue[r] # <<>>
    BY <2>1 DEF Queued
  <2>3. QED  BY <2>1, <2>2, HandoffAssumption DEF Queued
<1>3. Queues' /\ Fresh'
  BY DEF Queues, Fresh
<1>4. Emptied'
  BY DEF Emptied
<1>5. Locally'
  BY DEF Locally
<1>6. QED  BY <1>1, <1>2, <1>3, <1>4, <1>5

LEMMA ServiceData ==
  ASSUME IInv, Service \/ \E s \in Sockets : WriterCommits(s)
  PROVE  Data'
<1> USE DEF IInv
<1>1. UNCHANGED <<life, main, queue, recorded, promised, error>>
  BY DEF Service, ServiceBinds, ServiceReady, ServiceCloses, ServiceClosed, ServiceFails,
         ServiceKilled, WriterCommits, threads, recorder
<1>2. \E s \in Sockets : Commit(s) \/ Lose(s) \/ UNCHANGED storage
  BY DEF Service, ServiceBinds, ServiceReady, ServiceCloses, ServiceClosed, ServiceFails,
         ServiceKilled, WriterCommits, Sockets
<1>3. epoch' = 0 => epoch = 0 /\ svc' = svc
  BY DEF Data, Locally, TypeOK, Service, ServiceBinds, ServiceReady, ServiceCloses,
         ServiceClosed, ServiceFails, ServiceKilled, WriterCommits, service
<1>4. Keeps
  BY <1>1, <1>2, <1>3, StorageKeeps DEF Keeps
<1>5. QED  BY <1>4, DataKept

LEMMA SamplerData ==
  ASSUME IInv, LocalFails \/ Sampler
  PROVE  Data'
<1> USE DEF IInv
<1>1. UNCHANGED <<life, main, queue, recorded, promised, error, epoch, svc>>
  BY DEF LocalFails, Sampler, SamplerProbes, SamplerFlushes, SamplerSwitches, SamplerRests,
         SamplerReads, SamplerReprobes, SamplerYields, SamplerSubmits, Loop, threads, recorder,
         service
<1>2. \E s \in Sockets : Commit(s) \/ Lose(s) \/ UNCHANGED storage
  BY DEF LocalFails, Sampler, SamplerProbes, SamplerFlushes, SamplerSwitches, SamplerRests,
         SamplerReads, SamplerReprobes, SamplerYields, SamplerSubmits, Sockets
<1>3. Keeps
  BY <1>1, <1>2, StorageKeeps DEF Keeps
<1>4. QED  BY <1>3, DataKept

(* One event leaves its queue, for one writer or for the report of a       *)
(* failure.                                                                *)
LEMMA SendData ==
  ASSUME IInv, TypeOK', NEW r \in Runs, queue[r] # <<>>, Send(r),
         UNCHANGED <<service, recorded, promised, life>>,
         \A q \in Runs : main'[q] \in {"barrier", "shut"} => main'[q] = main[q]
  PROVE  Data'
<1> DEFINE e == Head(queue[r])
<1> USE DEF IInv, Data
<1>1. /\ queue[r] \in Seq(Events) /\ Len(queue[r]) \in Nat \ {0}
      /\ e = queue[r][1] /\ 1 \in 1 .. Len(queue[r]) /\ e \in Events
  BY DEF TypeOK
<1>2. /\ \A q \in Runs : q # r => queue'[q] = queue[q]
      /\ queue'[r] = Tail(queue[r])
  BY DEF Send, TypeOK
<1>3. /\ Len(queue'[r]) = Len(queue[r]) - 1
      /\ \A i \in 1 .. Len(queue'[r]) :
           i + 1 \in 1 .. Len(queue[r]) /\ queue'[r][i] = queue[r][i + 1]
  BY <1>1, <1>2
<1>4. \A i \in 1 .. Len(queue[r]) : queue[r][i] = e \/ queue[r][i] \in Queued(r)'
  <2> SUFFICES ASSUME NEW i \in 1 .. Len(queue[r]), i # 1 PROVE queue[r][i] \in Queued(r)'
    BY <1>1
  <2>1. i - 1 \in 1 .. Len(queue'[r]) /\ queue'[r][i - 1] = queue[r][i]
    BY <1>1, <1>2, <1>3
  <2>2. QED  BY <2>1 DEF Queued
<1>5. e[1] = r /\ e[2] <= recorded[r] /\ accepted[e] = 0 /\ r \in Recorders
  BY <1>1 DEF Queues, Events
<1>6. \A x \in Events : x # e => accepted'[x] = accepted[x]
  BY <1>1 DEF Send, Accept, TypeOK, storage
<1>7. accepted'[e] \in {0, 1}
  BY <1>1, <1>5 DEF Send, Accept, TypeOK, storage
<1>8. error \subseteq error' /\ Landed' = Landed
  BY DEF Send, Report, Accept, storage, Landed
<1>9. Stored \subseteq Stored' /\ (e \in Stored' \/ r \in error')
  <2>1. Destination(address[r]) \in Sockets
    BY DEF TypeOK, Destination, Sockets
  <2>2. CASE Accept(Destination(address[r]), e)
    BY <2>1, <2>2, <1>8 DEF Accept, Stored, TypeOK, Sockets
  <2>3. CASE UNCHANGED storage /\ Report(r)
    BY <2>3, <1>5, <1>8 DEF Report, Stored, storage
  <2>4. QED  BY <2>2, <2>3 DEF Send
<1>10. Accounted'
  <2> SUFFICES ASSUME NEW q \in Recorders, NEW n \in 1 .. MaxEvents, n <= recorded[q],
                      <<q, n>> \notin Stored', q \notin error'
               PROVE  life'[q] # "done" /\ <<q, n>> \in Queued(q)'
    BY DEF Accounted
  <2>1. life[q] # "done" /\ <<q, n>> \in Queued(q)
    BY <1>8, <1>9 DEF Accounted
  <2>2. CASE q = r
    <3>1. <<q, n>> # e
      BY <2>2, <1>9
    <3>2. PICK i \in 1 .. Len(queue[r]) : queue[r][i] = <<q, n>>
      BY <2>1, <2>2 DEF Queued
    <3>3. <<q, n>> \in Queued(r)'
      BY <3>1, <3>2, <1>4
    <3>4. QED  BY <2>1, <2>2, <3>3
  <2>3. CASE q # r
    BY <2>1, <2>3, <1>2, HandoffAssumption DEF Queued
  <2>4. QED  BY <2>2, <2>3
<1>11. Queues'
  <2> SUFFICES ASSUME NEW q \in Runs, NEW i \in 1 .. Len(queue'[q])
               PROVE  /\ queue'[q][i][1] = q /\ queue'[q][i][2] <= recorded[q]
                      /\ accepted'[queue'[q][i]] = 0
                      /\ \A j \in 1 .. Len(queue'[q]) : i # j => queue'[q][i] # queue'[q][j]
    BY DEF Queues
  <2>1. CASE q = r
    <3>1. i + 1 \in 1 .. Len(queue[r]) /\ queue'[q][i] = queue[r][i + 1]
      BY <2>1, <1>3
    <3>2. queue[r][i + 1] # e /\ queue[r][i + 1] \in Events
      BY <3>1, <1>1, <2>1 DEF Queues
    <3>3. accepted'[queue'[q][i]] = 0
      BY <3>1, <3>2, <1>6 DEF Queues
    <3>4. ASSUME NEW j \in 1 .. Len(queue'[q]), i # j PROVE queue'[q][i] # queue'[q][j]
      <4>1. j + 1 \in 1 .. Len(queue[r]) /\ queue'[q][j] = queue[r][j + 1] /\ i + 1 # j + 1
        BY <2>1, <1>3, <3>4
      <4>2. QED  BY <3>1, <4>1 DEF Queues
    <3>5. QED  BY <3>1, <3>3, <3>4, <2>1 DEF Queues
  <2>2. CASE q # r
    <3>1. queue'[q] = queue[q] /\ queue[q] \in Seq(Events)
      BY <2>2, <1>2 DEF TypeOK
    <3>2. queue[q][i] \in Events /\ queue[q][i] # e
      BY <3>1, <2>2, <1>5 DEF Queues
    <3>3. accepted'[queue[q][i]] = 0
      BY <3>1, <3>2, <1>6 DEF Queues
    <3>4. QED  BY <3>1, <3>3 DEF Queues
  <2>3. QED  BY <2>1, <2>2
<1>12. Fresh'
  <2> SUFFICES ASSUME NEW x \in Events
               PROVE  accepted'[x] <= 1 /\ (recorded[x[1]] < x[2] => accepted'[x] = 0)
    BY DEF Fresh
  <2>1. CASE x = e
    <3>1. e[2] \in 1 .. MaxEvents /\ recorded[e[1]] \in 0 .. MaxEvents
      BY <1>1, <1>5, HandoffAssumption DEF Events, TypeOK
    <3>2. ~(recorded[e[1]] < e[2])
      BY <3>1, <1>5, HandoffAssumption
    <3>3. QED  BY <2>1, <3>2, <1>7
  <2>2. CASE x # e
    BY <2>2, <1>6 DEF Fresh
  <2>3. QED  BY <2>1, <2>2
<1>13. Mute'
  BY DEF Mute
<1>14. Emptied'
  <2> SUFFICES ASSUME NEW q \in Runs
               PROVE  /\ main'[q] = "barrier" => queue'[q] = <<>>
                      /\ main'[q] = "shut" => queue'[q] = <<>> \/ q \in error'
    BY DEF Emptied
  <2>1. q # r => queue'[q] = queue[q]
    BY <1>2
  <2>2. QED  BY <2>1, <1>8 DEF Emptied
<1>15. Locally'
  <2> SUFFICES ASSUME epoch = 0 PROVE svc = "down" /\ held'["svc"] = {}
    BY <1>8 DEF Locally, service
  <2>1. svc = "down" /\ held["svc"] = {}
    BY DEF Locally
  <2>2. ~Storing("svc")
    BY <2>1 DEF Storing
  <2>3. Storing(Destination(address[r])) => Destination(address[r]) # "svc"
    BY <2>2
  <2>4. held'["svc"] = held["svc"]
    <3>1. CASE UNCHANGED storage
      BY <3>1 DEF storage
    <3>2. CASE Accept(Destination(address[r]), e) /\ Destination(address[r]) # "svc"
      BY <3>2 DEF Accept, TypeOK, Sockets
    <3>3. QED  BY <2>3, <3>1, <3>2 DEF Send
  <2>5. QED  BY <2>1, <2>4
<1>16. QED  BY <1>10, <1>11, <1>12, <1>13, <1>14, <1>15

LEMMA WorkerData ==
  ASSUME IInv, TypeOK', NEW r \in Runs, Worker(r)
  PROVE  Data'
<1> USE DEF IInv
<1>1. UNCHANGED <<service, life, main, recorded, promised>>
  BY DEF Worker, WorkerProbes, WorkerLooks, WorkerBinds, WorkerKeeps, WorkerUnbinds, WorkerAsks, WorkerLocks, WorkerSends,
         WorkerUnlocks, WorkerEnds, Work
<1>2. CASE WorkerSends(r)
  BY <1>1, <1>2, SendData DEF WorkerSends
<1>3. CASE WorkerUnbinds(r)
  <2>1. \E s \in Sockets : Commit(s) \/ Lose(s) \/ UNCHANGED storage
    BY <1>3 DEF WorkerUnbinds, Sockets
  <2>2. queue' = queue /\ error \subseteq error'
    BY <1>3 DEF WorkerUnbinds, Report
  <2>3. Keeps
    BY <1>1, <2>1, <2>2, StorageKeeps DEF Keeps, service
  <2>4. QED  BY <2>3, DataKept
<1>4. CASE ~WorkerSends(r) /\ ~WorkerUnbinds(r)
  <2>1. UNCHANGED <<storage, queue>> /\ error \subseteq error'
    BY <1>4 DEF Worker, WorkerProbes, WorkerLooks, WorkerBinds, WorkerKeeps, WorkerUnbinds, WorkerAsks, WorkerLocks,
                WorkerUnlocks, WorkerEnds, Report
  <2>2. Keeps
    BY <1>1, <2>1 DEF Keeps, Stored, Landed, storage, service
  <2>3. QED  BY <2>2, DataKept
<1>5. QED  BY <1>2, <1>3, <1>4

LEMMA FlushData ==
  ASSUME IInv, TypeOK', NEW r \in Runs, Flush(r)
  PROVE  Data'
<1> USE DEF IInv
<1>1. UNCHANGED <<service, life, recorded>> /\ (\A q \in Runs : q # r => main'[q] = main[q])
  BY DEF Flush, FlushBegins, FlushChecks, FlushReprobes, FlushBinds, FlushLocks, FlushSends,
         FlushUnlocks, FlushReturns, FlushFails, Step, recorder, TypeOK
<1>2. CASE FlushSends(r)
  <2>1. main'[r] = "send"
    BY <1>2 DEF FlushSends, Step, TypeOK
  <2>2. QED  BY <1>1, <1>2, <2>1, SendData DEF FlushSends
<1>3. CASE FlushFails(r)
  <2>1. /\ UNCHANGED <<storage, queue, promised>> /\ error \subseteq error'
        /\ main'[r] \in {"idle", "shut"}
    BY <1>3 DEF FlushFails, Report, Step, AfterFlush, TypeOK
  <2>2. r \in error' \/ queue[r] = <<>>
    <3>1. CASE r \in Recorders
      BY <1>3, <3>1 DEF FlushFails, Report
    <3>2. CASE r \notin Recorders
      BY <3>2, NobodysQueue DEF Data
    <3>3. QED  BY <3>1, <3>2
  <2>3. Keeps
    BY <1>1, <2>1, <2>2 DEF Keeps, Stored, Landed, storage, service
  <2>4. QED  BY <2>3, DataKept
<1>4. CASE FlushReturns(r)
  <2>1. PICK s \in Sockets : s = address[r] /\ Storing(s) /\ Commit(s)
    BY <1>4 DEF FlushReturns, TypeOK
  <2>2. /\ Stored \subseteq Stored' /\ Landed \subseteq Landed'
        /\ held[s] \subseteq Landed' /\ held'["svc"] \subseteq held["svc"] /\ accepted' = accepted
    BY <2>1 DEF TypeOK, Commit, Stored, Landed, Sockets
  <2>3. UNCHANGED <<queue, error>> /\ queue[r] = <<>>
    BY <1>4 DEF FlushReturns, Step, Data, Emptied
  <2>4. \A q \in Runs : main'[q] \in {"barrier", "shut"} =>
          queue[q] = <<>> \/ (main'[q] = "shut" /\ q \in error)
    BY <1>1, <2>3 DEF Data, Emptied, TypeOK
  <2>5. Mute' /\ Queues' /\ Fresh'
    BY <1>1, <2>2, <2>3 DEF Data, Mute, Queues, Fresh
  <2>6. Accounted'
    <3> SUFFICES ASSUME NEW q \in Recorders, NEW n \in 1 .. MaxEvents, n <= recorded[q],
                        <<q, n>> \notin Stored', q \notin error
                 PROVE  life[q] # "done" /\ <<q, n>> \in Queued(q)
      BY <1>1, <2>3 DEF Accounted, Queued
    <3>1. QED  BY <2>2 DEF Data, Accounted
  <2>7. Emptied'
    BY <2>3, <2>4 DEF Emptied
  <2>8. Locally'
    <3> SUFFICES ASSUME epoch = 0
                 PROVE  /\ svc = "down" /\ held'["svc"] = {}
                        /\ \A e \in promised' : e \in Landed' \/ e[1] \in error
      BY <1>1, <2>3 DEF Locally, service
    <3>1. svc = "down" /\ held["svc"] = {}
      BY DEF Data, Locally
    <3>2. s = "local"
      BY <2>1, <3>1 DEF Storing, Sockets
    <3>3. ASSUME NEW e \in promised', e \notin promised PROVE e \in Landed' \/ e[1] \in error
      <4>1. e[1] = r /\ e = <<r, e[2]>> /\ e[2] \in 1 .. recorded[r]
        BY <1>4, <3>3 DEF FlushReturns
      <4>2. recorded[r] \in 0 .. MaxEvents /\ (r \in Recorders \/ recorded[r] = 0)
        BY DEF TypeOK, Data, Mute
      <4>3. r \in Recorders /\ e[2] \in 1 .. MaxEvents /\ e[2] <= recorded[r]
        BY <4>1, <4>2, HandoffAssumption
      <4>4. e \notin Queued(r)
        BY <2>3 DEF Queued
      <4>5. e \in Stored \/ r \in error
        BY <4>1, <4>3, <4>4 DEF Data, Accounted
      <4>6. QED  BY <4>1, <4>5, <2>2, <3>1, <3>2 DEF Stored
    <3>4. \A e \in promised : e \in Landed' \/ e[1] \in error
      BY <2>2 DEF Data, Locally
    <3>5. QED  BY <3>1, <3>3, <3>4, <2>2
  <2>9. QED  BY <2>5, <2>6, <2>7, <2>8 DEF Data
<1>5. CASE ~FlushSends(r) /\ ~FlushFails(r) /\ ~FlushReturns(r)
  <2>1. UNCHANGED <<storage, queue, promised, error>>
    BY <1>5 DEF Flush, FlushBegins, FlushChecks, FlushReprobes, FlushBinds, FlushLocks,
                FlushUnlocks, recorder
  <2>2. main'[r] \in {"barrier", "shut"} => queue[r] = <<>>
    BY <1>5 DEF Flush, FlushBegins, FlushChecks, FlushReprobes, FlushBinds, FlushLocks,
                FlushUnlocks, Step, TypeOK
  <2>3. Keeps
    BY <1>1, <2>1, <2>2 DEF Keeps, Stored, Landed, storage, service
  <2>4. QED  BY <2>3, DataKept
<1>6. QED  BY <1>2, <1>3, <1>4, <1>5

LEMMA RecordData ==
  ASSUME IInv, TypeOK', NEW r \in Runs, RecordEvent(r)
  PROVE  Data'
<1> DEFINE e == <<r, recorded[r] + 1>>
<1> USE DEF IInv, Data
<1>1. /\ r \in Recorders /\ recorded[r] \in Nat /\ recorded[r] + 1 \in 1 .. MaxEvents /\ e \in Events
      /\ recorded' = [recorded EXCEPT ![r] = recorded[r] + 1] /\ life[r] = "up" /\ main[r] = "idle"
  BY HandoffAssumption DEF RecordEvent, TypeOK, Events, Step
<1>2. UNCHANGED <<service, storage, promised, life, main>> /\ error \subseteq error'
  BY DEF RecordEvent, Step, Report, TypeOK
<1>3. \A q \in Runs : recorded[q] \in Nat /\ recorded'[q] = IF q = r THEN recorded[r] + 1 ELSE recorded[q]
  BY <1>1, HandoffAssumption DEF TypeOK
<1>4. UNCHANGED <<accepted, held, rows, gone>> /\ Stored' = Stored /\ Landed' = Landed
  BY <1>2 DEF storage, Stored, Landed
<1>5. accepted[e] = 0
  BY <1>1, <1>3 DEF Fresh
<1>6. \/ queue' = queue /\ r \in error'
      \/ queue' = [queue EXCEPT ![r] = Append(queue[r], e)]
  BY <1>1 DEF RecordEvent, Report
<1>7. /\ queue[r] \in Seq(Events) /\ Len(queue[r]) \in Nat
      /\ Len(Append(queue[r], e)) = Len(queue[r]) + 1
      /\ \A i \in 1 .. Len(queue[r]) : Append(queue[r], e)[i] = queue[r][i]
      /\ Append(queue[r], e)[Len(queue[r]) + 1] = e
  <2>1. queue[r] \in Seq(Events) /\ e \in Events
    BY <1>1 DEF TypeOK
  <2>2. QED  BY <2>1
<1>8. \A q \in Runs : Queued(q) \subseteq Queued(q)' /\ (q = r => e \in Queued(q)' \/ r \in error')
  <2>1. CASE queue' = queue /\ r \in error'
    BY <2>1 DEF Queued
  <2>2. CASE queue' = [queue EXCEPT ![r] = Append(queue[r], e)]
    <3> SUFFICES ASSUME NEW q \in Runs
                 PROVE  Queued(q) \subseteq Queued(q)' /\ (q = r => e \in Queued(q)')
      OBVIOUS
    <3>1. CASE q = r
      <4>1. queue'[q] = Append(queue[r], e)
        BY <2>2, <3>1 DEF TypeOK
      <4>2. \A i \in 1 .. Len(queue[r]) : i \in 1 .. Len(queue'[q])
        BY <4>1, <1>7
      <4>3. Len(queue[r]) + 1 \in 1 .. Len(queue'[q])
        BY <4>1, <1>7
      <4>4. QED  BY <3>1, <4>1, <4>2, <4>3, <1>7 DEF Queued
    <3>2. CASE q # r
      BY <2>2, <3>2 DEF Queued, TypeOK
    <3>3. QED  BY <3>1, <3>2
  <2>3. QED  BY <1>6, <2>1, <2>2
<1>9. Accounted'
  <2> SUFFICES ASSUME NEW q \in Recorders, NEW n \in 1 .. MaxEvents, n <= recorded'[q],
                      <<q, n>> \notin Stored, q \notin error'
               PROVE  life[q] # "done" /\ <<q, n>> \in Queued(q)'
    BY <1>2, <1>4 DEF Accounted
  <2>0. q \in Runs /\ n \in Nat
    BY HandoffAssumption
  <2>1. CASE n <= recorded[q]
    BY <2>0, <2>1, <1>2, <1>8 DEF Accounted
  <2>2. CASE ~(n <= recorded[q])
    <3>1. q = r /\ n = recorded[r] + 1
      BY <2>0, <2>2, <1>3
    <3>2. QED  BY <3>1, <1>1, <1>8
  <2>3. QED  BY <2>1, <2>2
<1>10. Queues'
  <2>0. ASSUME NEW q \in Runs, NEW i \in 1 .. Len(queue[q]) PROVE queue[q][i][2] <= recorded'[q]
    <3>1. queue[q] \in Seq(Events)
      BY DEF TypeOK
    <3>2. queue[q][i] \in Events
      BY <3>1
    <3>3. queue[q][i][2] \in Nat
      BY <3>2, HandoffAssumption DEF Events
    <3>4. queue[q][i][2] <= recorded[q]
      BY DEF Queues
    <3>5. QED  BY <3>3, <3>4, <1>3
  <2>1. CASE queue' = queue
    <3> SUFFICES ASSUME NEW q \in Runs, NEW i \in 1 .. Len(queue[q])
                 PROVE  /\ queue[q][i][1] = q /\ queue[q][i][2] <= recorded'[q]
                        /\ accepted[queue[q][i]] = 0
                        /\ \A j \in 1 .. Len(queue[q]) : i # j => queue[q][i] # queue[q][j]
      BY <1>4, <2>1 DEF Queues
    <3>1. QED  BY <2>0 DEF Queues
  <2>2. CASE queue' = [queue EXCEPT ![r] = Append(queue[r], e)]
    <3> SUFFICES ASSUME NEW q \in Runs, NEW i \in 1 .. Len(queue'[q])
                 PROVE  /\ queue'[q][i][1] = q /\ queue'[q][i][2] <= recorded'[q]
                        /\ accepted[queue'[q][i]] = 0
                        /\ \A j \in 1 .. Len(queue'[q]) : i # j => queue'[q][i] # queue'[q][j]
      BY <1>4 DEF Queues
    <3>1. CASE q # r
      <4>1. queue'[q] = queue[q]
        BY <2>2, <3>1 DEF TypeOK
      <4>2. QED  BY <4>1, <2>0 DEF Queues
    <3>2. CASE q = r
      <4>1. queue'[q] = Append(queue[r], e)
        BY <2>2, <3>2 DEF TypeOK
      <4>2. \A k \in 1 .. Len(queue'[q]) :
              \/ k \in 1 .. Len(queue[r]) /\ queue'[q][k] = queue[r][k]
              \/ k = Len(queue[r]) + 1 /\ queue'[q][k] = e
        BY <4>1, <1>7
      <4>3. \A k \in 1 .. Len(queue[r]) :
              queue[r][k][1] = r /\ queue[r][k][2] \in Nat /\ queue[r][k][2] <= recorded[r]
              /\ accepted[queue[r][k]] = 0
        BY <1>7, HandoffAssumption DEF Queues, Events
      <4>4. \A k \in 1 .. Len(queue[r]) : queue[r][k] # e
        BY <4>3, <1>1
      <4>5. queue'[q][i][1] = q /\ queue'[q][i][2] <= recorded'[q] /\ accepted[queue'[q][i]] = 0
        <5>1. CASE i \in 1 .. Len(queue[r]) /\ queue'[q][i] = queue[r][i]
          BY <5>1, <4>3, <3>2, <2>0
        <5>2. CASE queue'[q][i] = e
          BY <5>2, <3>2, <1>1, <1>3, <1>5
        <5>3. QED  BY <4>2, <5>1, <5>2
      <4>6. ASSUME NEW j \in 1 .. Len(queue'[q]), i # j PROVE queue'[q][i] # queue'[q][j]
        BY <4>2, <4>4, <4>6 DEF Queues
      <4>7. QED  BY <4>5, <4>6
    <3>3. QED  BY <3>1, <3>2
  <2>3. QED  BY <1>6, <2>1, <2>2
<1>11. Fresh'
  <2> SUFFICES ASSUME NEW x \in Events
               PROVE  accepted[x] <= 1 /\ (recorded'[x[1]] < x[2] => accepted[x] = 0)
    BY <1>4 DEF Fresh
  <2>1. x[1] \in Runs /\ x[2] \in Nat
    BY HandoffAssumption DEF Events
  <2>2. recorded'[x[1]] < x[2] => recorded[x[1]] < x[2]
    BY <2>1, <1>3
  <2>3. QED  BY <2>2 DEF Fresh
<1>12. Mute'
  BY <1>1, <1>3 DEF Mute
<1>13. Emptied'
  BY <1>1, <1>2, <1>6 DEF Emptied, TypeOK
<1>14. Locally'
  BY <1>2, <1>4 DEF Locally, service
<1>15. QED  BY <1>9, <1>10, <1>11, <1>12, <1>13, <1>14

LEMMA CloseData ==
  ASSUME IInv, TypeOK', NEW r \in Runs, Close(r)
  PROVE  Data'
<1> USE DEF IInv
<1>1. UNCHANGED <<service, queue, recorded, promised>> /\ error \subseteq error'
  BY DEF Close, CloseBegins, CloseCollector, CloseReturns, Leave, Released, Step, Report, recorder
<1>2. \E s \in Sockets : Commit(s) \/ Lose(s) \/ UNCHANGED storage
  BY DEF Close, CloseBegins, CloseCollector, CloseReturns, Sockets
<1>3. \A q \in Runs : main'[q] \in {"barrier", "shut"} => main'[q] = main[q]
  BY DEF Close, CloseBegins, CloseCollector, CloseReturns, Leave, Released, Step, TypeOK
<1>4. \A q \in Runs : life'[q] = "done" => life[q] = "done" \/ queue[q] = <<>> \/ q \in error
  <2>1. CASE CloseBegins(r) \/ CloseCollector(r)
    BY <2>1 DEF CloseBegins, CloseCollector, Step, TypeOK
  <2>2. CASE CloseReturns(r)
    BY <2>2 DEF CloseReturns, Leave, Released, TypeOK, Data, Emptied
  <2>3. QED  BY <2>1, <2>2 DEF Close
<1>5. Keeps
  BY <1>1, <1>2, <1>3, <1>4, StorageKeeps DEF Keeps, service
<1>6. QED  BY <1>5, DataKept

(* What a killed process had in memory is gone.                            *)
LEMMA KilledData ==
  ASSUME IInv, TypeOK', NEW r \in Runs, Killed(r)
  PROVE  Data'
<1> USE DEF IInv, Data
<1>1. /\ UNCHANGED <<service, rows, accepted, recorded, error, promised>>
      /\ \A q \in Runs : q # r => queue'[q] = queue[q] /\ life'[q] = life[q] /\ main'[q] = main[q]
      /\ queue'[r] = <<>> /\ main'[r] = "ended"
  BY DEF Killed, Leave, Released, TypeOK
<1>2. Queued(r) \subseteq gone' /\ gone \subseteq gone'
  <2>1. queue[r] \in Seq(Events)
    BY DEF TypeOK
  <2>2. Queued(r) \subseteq ToSet(queue[r])
    BY <2>1 DEF Queued, ToSet
  <2>3. QED  BY <2>2 DEF Killed
<1>3. /\ Stored \subseteq Stored' /\ Landed \subseteq Landed'
      /\ held'["svc"] = held["svc"]
  BY <1>1, <1>2 DEF Killed, Stored, Landed, TypeOK, Sockets
<1>4. Accounted'
  <2> SUFFICES ASSUME NEW q \in Recorders, NEW n \in 1 .. MaxEvents, n <= recorded[q],
                      <<q, n>> \notin Stored', q \notin error
               PROVE  life'[q] # "done" /\ <<q, n>> \in Queued(q)'
    BY <1>1 DEF Accounted
  <2>1. q \in Runs /\ life[q] # "done" /\ <<q, n>> \in Queued(q)
    BY <1>3, HandoffAssumption DEF Accounted
  <2>2. q # r
    BY <2>1, <1>2 DEF Stored, Landed
  <2>3. QED  BY <2>1, <2>2, <1>1 DEF Queued
<1>5. Queues'
  <2> SUFFICES ASSUME NEW q \in Runs, NEW i \in 1 .. Len(queue'[q])
               PROVE  /\ queue'[q][i][1] = q /\ queue'[q][i][2] <= recorded[q]
                      /\ accepted[queue'[q][i]] = 0
                      /\ \A j \in 1 .. Len(queue'[q]) : i # j => queue'[q][i] # queue'[q][j]
    BY <1>1 DEF Queues
  <2>1. q # r
    BY <1>1
  <2>2. QED  BY <2>1, <1>1 DEF Queues
<1>6. Mute' /\ Fresh'
  BY <1>1 DEF Mute, Fresh
<1>7. Emptied'
  BY <1>1 DEF Emptied
<1>8. Locally'
  BY <1>1, <1>3 DEF Locally, service
<1>9. QED  BY <1>4, <1>5, <1>6, <1>7, <1>8

LEMMA StutterIInv == ASSUME IInv, UNCHANGED vars PROVE IInv'
<1>1. UNCHANGED <<service, lease, samples, storage, threads, recorder>>
  BY DEF vars
<1>2. TypeOK'
  BY <1>1, Unchanged, TypesInGroups, TypesPrimed DEF IInv
<1>3. Data'
  <2>1. Keeps
    BY <1>1 DEF Keeps, Stored, Landed, service, storage, threads, recorder
  <2>2. QED  BY <2>1, DataKept DEF IInv
<1>4. QED  BY <1>2, <1>3 DEF IInv

-----------------------------------------------------------------------------
(* The strengthening is an invariant of the specification.                 *)
THEOREM Invariance == Spec => []IInv
<1>1. Init => IInv
  BY InitTyped, InitData DEF IInv
<1>2. IInv /\ [Next]_vars => IInv'
  <2> SUFFICES ASSUME IInv, [Next]_vars PROVE IInv'
    OBVIOUS
  <2> USE DEF IInv
  <2>1. CASE Service \/ \E s \in Sockets : WriterCommits(s)
    BY <2>1, ServiceTyped, ServiceData
  <2>2. CASE LocalFails \/ Sampler
    BY <2>2, SamplerTyped, SamplerData
  <2>3. ASSUME NEW r \in Runs, Worker(r) PROVE IInv'
    BY <2>3, WorkerTyped, WorkerData
  <2>4. ASSUME NEW r \in Runs, Flush(r) PROVE IInv'
    <3>1. TypeOK'
      BY <2>4, FlushTyped DEF Data
    <3>2. QED  BY <2>4, <3>1, FlushData
  <2>5. ASSUME NEW r \in Runs, RecordEvent(r) PROVE IInv'
    BY <2>5, MainTyped, RecordData
  <2>6. ASSUME NEW r \in Runs, Close(r) PROVE IInv'
    BY <2>6, MainTyped, CloseData
  <2>7. ASSUME NEW r \in Runs, Killed(r) PROVE IInv'
    BY <2>7, MainTyped, KilledData
  <2>8. CASE UNCHANGED vars
    BY <2>8, StutterIInv
  <2>9. QED  BY <2>1, <2>2, <2>3, <2>4, <2>5, <2>6, <2>7, <2>8 DEF Next
<1>3. QED  BY <1>1, <1>2, PTL DEF Spec

(* Every variable has a value of its kind, through every handoff, kill and *)
(* restart (ForegroundRecorder, _Collector).                               *)
THEOREM TypeCorrect == Spec => []TypeOK
<1>1. IInv => TypeOK
  BY DEF IInv
<1>2. QED  BY <1>1, Invariance, PTL

(* An event that was recorded is in a queue, in a writer, on disk, died in *)
(* a crash, or its run has reported a failure; and no event is accepted by *)
(* a writer twice (record_event, _drain_events_locked, close).             *)
THEOREM EventsAreKeptOnce == Spec => []EveryEventOnce
<1>1. IInv => EveryEventOnce
  <2> SUFFICES ASSUME IInv PROVE EveryEventOnce
    OBVIOUS
  <2>1. ASSUME NEW r \in Recorders, NEW n \in 1 .. MaxEvents, n <= recorded[r], r \notin error
        PROVE  <<r, n>> \in InMemory \cup Durable \cup gone
    <3>1. <<r, n>> \in Stored \/ (life[r] # "done" /\ <<r, n>> \in Queued(r))
      BY <2>1 DEF IInv, Data, Accounted
    <3>2. CASE <<r, n>> \in Stored
      <4>1. held["svc"] \cup held["local"] \subseteq InMemory
        BY DEF InMemory, Sockets
      <4>2. QED  BY <3>2, <4>1, DurableRows DEF Stored, Landed
    <3>3. CASE life[r] # "done" /\ <<r, n>> \in Queued(r)
      <4>1. r \in Runs /\ queue[r] \in Seq(Events)
        BY HandoffAssumption DEF IInv, TypeOK
      <4>2. <<r, n>> \in ToSet(queue[r])
        BY <3>3, <4>1 DEF Queued, ToSet
      <4>3. ToSet(queue[r]) \subseteq InMemory
        BY <3>3, <4>1 DEF InMemory
      <4>4. QED  BY <4>2, <4>3
    <3>4. QED  BY <3>1, <3>2, <3>3
  <2>2. \A e \in Events : accepted[e] <= 1
    BY DEF IInv, Data, Fresh
  <2>3. QED  BY <2>1, <2>2 DEF EveryEventOnce
<1>2. QED  BY <1>1, Invariance, PTL

(* Until a service is started for the first time, a flush() that returned  *)
(* True speaks for events that are on disk or died with a process (flush). *)
THEOREM LocalFlushIsDurable == Spec => []FlushIsDurableLocally
<1>1. IInv => FlushIsDurableLocally
  BY DurableRows DEF IInv, Data, Locally, Landed, FlushIsDurableLocally
<1>2. QED  BY <1>1, Invariance, PTL

-----------------------------------------------------------------------------
(* Readings.                                                               *)

(* Every start has a number of its own, and a reading that was taken while *)
(* the service of this number recorded is submitted only if that service   *)
(* is gone.                                                                *)
Captured ==
    /\ svc # "down" => epoch > 0
    /\ sampler \in {"read", "submit"} /\ captured = epoch => svc # "bound"
    /\ sampler = "submit" /\ captured = epoch => svc # "ready"
    /\ captured <= epoch

(* A reading that the service covers is not recorded by the run as well,   *)
(* while every probe of a ready service is answered in time                *)
(* (_sample_loop_inner).                                                   *)
THEOREM ReadingsAreYielded ==
  ASSUME "answers" \notin Faults PROVE Spec => []NoDoubleSampling
<1>1. Init => Captured /\ NoDoubleSampling
  BY DEF Init, Captured, NoDoubleSampling
<1>2. IInv /\ Captured /\ NoDoubleSampling /\ [Next]_vars => Captured' /\ NoDoubleSampling'
  <2> SUFFICES ASSUME IInv, Captured, NoDoubleSampling, [Next]_vars
               PROVE  Captured' /\ NoDoubleSampling'
    OBVIOUS
  <2>0. epoch \in Nat /\ captured \in Nat /\ svc \in {"down", "bound", "ready", "sick", "closing"}
        /\ sampler \in {"probe", "flush", "switch", "sample", "read", "yield", "submit"}
    BY HandoffAssumption DEF IInv, TypeOK
  <2> USE <2>0 DEF Captured, NoDoubleSampling, service, samples
  <2>1. CASE Service
    <3>1. UNCHANGED samples
      BY <2>1 DEF Service, ServiceBinds, ServiceReady, ServiceCloses, ServiceClosed,
                  ServiceFails, ServiceKilled
    <3>2. CASE ServiceBinds
      BY <3>1, <3>2 DEF ServiceBinds
    <3>3. CASE ~ServiceBinds
      BY <2>1, <3>1, <3>3 DEF Service, ServiceReady, ServiceCloses, ServiceClosed,
                  ServiceFails, ServiceKilled
    <3>4. QED  BY <3>2, <3>3
  <2>2. CASE Sampler
    <3>1. UNCHANGED service
      BY <2>2 DEF Sampler, SamplerProbes, SamplerFlushes, SamplerSwitches, SamplerRests,
                  SamplerReads, SamplerReprobes, SamplerYields, SamplerSubmits, Loop
    <3>2. CASE SamplerReads
      BY <3>1, <3>2 DEF SamplerReads, Loop
    <3>3. CASE SamplerReprobes
      BY <3>1, <3>3 DEF SamplerReprobes, Loop, Probe
    <3>4. CASE SamplerSubmits
      BY <3>1, <3>4 DEF SamplerSubmits, Loop
    <3>5. CASE \/ SamplerProbes \/ SamplerFlushes \/ SamplerSwitches \/ SamplerRests
               \/ SamplerYields
      <4>1. sampler' \notin {"read", "submit"} /\ UNCHANGED <<captured, doubled>>
        BY <3>5 DEF SamplerProbes, SamplerFlushes, SamplerSwitches, SamplerRests,
                    SamplerYields, Loop
      <4>2. QED  BY <3>1, <4>1
    <3>6. QED  BY <2>2, <3>2, <3>3, <3>4, <3>5 DEF Sampler
  <2>3. CASE UNCHANGED <<service, samples>>
    BY <2>3
  <2>4. ASSUME NEW r \in Runs, Bind(r) \/ Leave(r) \/ Released, UNCHANGED <<service, doubled>>
        PROVE  Captured' /\ NoDoubleSampling'
    BY <2>4 DEF Bind, Leave, Released
  <2>5. ASSUME NEW r \in Runs, Worker(r) \/ Flush(r) \/ RecordEvent(r) \/ Close(r) \/ Killed(r)
        PROVE  Captured' /\ NoDoubleSampling'
    <3>1. \/ UNCHANGED <<service, samples>>
          \/ (Bind(r) \/ Leave(r) \/ Released) /\ UNCHANGED <<service, doubled>>
      <4>1. CASE Worker(r)
        BY <4>1 DEF Worker, WorkerProbes, WorkerLooks, WorkerBinds, WorkerKeeps, WorkerUnbinds, WorkerAsks, WorkerLocks,
                    WorkerSends, WorkerUnlocks, WorkerEnds, Work
      <4>2. CASE Flush(r)
        BY <4>2 DEF Flush, FlushBegins, FlushChecks, FlushReprobes, FlushBinds, FlushLocks,
                    FlushSends, FlushUnlocks, FlushReturns, FlushFails, Step
      <4>3. CASE RecordEvent(r) \/ CloseBegins(r) \/ CloseCollector(r)
        BY <4>3 DEF RecordEvent, CloseBegins, CloseCollector, Step
      <4>4. CASE CloseReturns(r) \/ Killed(r)
        BY <4>4 DEF CloseReturns, Killed, Leave, Released
      <4>5. QED  BY <2>5, <4>1, <4>2, <4>3, <4>4 DEF Close
    <3>2. QED  BY <3>1, <2>3, <2>4
  <2>6. CASE LocalFails \/ (\E s \in Sockets : WriterCommits(s)) \/ UNCHANGED vars
    BY <2>6, <2>3 DEF LocalFails, WriterCommits, vars
  <2>7. QED  BY <2>1, <2>2, <2>5, <2>6 DEF Next
<1>3. QED  BY <1>1, <1>2, Invariance, PTL DEF Spec
=============================================================================
