---------------------------- MODULE HistoryWriter ----------------------------
(***************************************************************************)
(* burnbag_history.TelemetryWriter: a bounded queue in memory, one thread  *)
(* that commits it to SQLite in batches, and callers that submit, wait for *)
(* durability (flush), change the commit policy, and close.                *)
(*                                                                         *)
(* One action is one critical section of the writer's condition variable,  *)
(* or one step taken outside it (connect, commit, thread exit).            *)
(* notify_all moves a waiting thread back to the top of its loop.          *)
(***************************************************************************)
EXTENDS Integers, Sequences, FiniteSets, FiniteSetsExt

CONSTANTS
    Callers,            \* threads that call flush() and close()
    Sizes,              \* encoded sizes a record may have
    MaxPendingRecords,  \* MAX_PENDING_RECORDS
    MaxPendingBytes,    \* MAX_PENDING_BYTES
    BatchBytes,         \* BATCH_BYTES
    BatchTicks,         \* BATCH_SECONDS, in ticks of the clock
    EventTicks,         \* EVENT_SECONDS, in ticks of the clock
    MaxRecords,         \* bound of the model on accepted records
    MaxTime             \* bound of the model on the clock

ASSUME HistoryWriterAssumption ==
    /\ Sizes \subseteq Nat
    /\ MaxPendingRecords \in Nat
    /\ MaxPendingBytes \in Nat
    /\ BatchBytes \in Nat
    /\ BatchTicks \in Nat
    /\ EventTicks \in Nat
    /\ EventTicks <= BatchTicks
    /\ MaxRecords \in Nat
    /\ MaxTime \in Nat

VARIABLES
    now,            \* time.monotonic()
    ctor,           \* __init__: "waiting", "timedout", "open" or "raised"
    ready,          \* _ready
    pending,        \* _pending
    pendingBytes,   \* _pending_bytes
    pendingRecords, \* _pending_records
    sequence,       \* _sequence
    committed,      \* _committed
    flushThrough,   \* _flush_through
    error,          \* _error is set
    prudent,        \* _prudent
    closing,        \* _closing
    closed,         \* _closed
    wpc,            \* where the writer thread is in _run
    wakeAt,         \* when the writer's timed wait expires
    batch,          \* the batch it took from the queue
    durable,        \* the numbers of the rows SQLite has committed
    pc,             \* what each caller is doing
    target,         \* the sequence a flushing caller waits for
    acked,          \* the highest target a flush() returned for (history)
    cleanClose      \* some close() has returned without an error (history)

startVars  == <<now, ctor, ready>>
queueVars  == <<pending, pendingBytes, pendingRecords, sequence>>
policyVars == <<flushThrough, prudent>>
stateVars  == <<error, closing, closed>>
diskVars   == <<committed, batch, durable, wakeAt>>
callerVars == <<target, acked, cleanClose>>
quietVars  == <<startVars, queueVars, policyVars, stateVars, diskVars>>
vars == <<quietVars, wpc, pc, callerVars>>

Items == [seq : Nat, size : Nat, deadline : Nat]

Numbers(items) == {items[i].seq : i \in DOMAIN items}

Bytes(items) == MapThenSumSet(LAMBDA i : items[i].size, DOMAIN items)

(* Defect: the deadline of the oldest record is taken for the earliest.    *)
OldestDeadline == pending[1].deadline

EarliestDeadline == Min({pending[i].deadline : i \in DOMAIN pending})

Init ==
    /\ now = 0
    /\ ctor = "waiting" /\ ready = FALSE
    /\ pending = <<>> /\ pendingBytes = 0 /\ pendingRecords = 0
    /\ sequence = 0 /\ committed = 0 /\ flushThrough = 0
    /\ error = FALSE /\ closing = FALSE /\ closed = FALSE
    /\ prudent \in BOOLEAN
    /\ wpc = "connect" /\ wakeAt = 0 /\ batch = <<>>
    /\ durable = {}
    /\ pc = [c \in Callers |-> "idle"]
    /\ target = [c \in Callers |-> 0]
    /\ acked = 0 /\ cleanClose = FALSE

WriterAwake == IF wpc \in {"wait", "timed"} THEN "check" ELSE wpc

CallersAwake == [c \in Callers |-> IF pc[c] = "flushing" THEN "woken" ELSE pc[c]]

(* Defect: the condition changes and nobody is notified.                   *)
NotifyNobody == UNCHANGED <<wpc, pc>>

(* _condition.notify_all().                                                *)
NotifyAll == wpc' = WriterAwake /\ pc' = CallersAwake

-----------------------------------------------------------------------------
(* The constructor: start the thread, wait for _ready, give up after 3 s.  *)

ConstructorReturns ==
    /\ ctor = "waiting" /\ ready
    /\ ctor' = IF error THEN "raised" ELSE "open"
    /\ UNCHANGED <<now, ready, queueVars, policyVars, stateVars, diskVars,
                   wpc, pc, callerVars>>

ConstructorTimesOut ==
    /\ ctor = "waiting" /\ ~ready
    /\ ctor' = "timedout"
    /\ UNCHANGED <<now, ready, queueVars, policyVars, stateVars, diskVars,
                   wpc, pc, callerVars>>

ConstructorAbandons ==
    /\ ctor = "timedout"
    /\ ctor' = "raised"
    /\ closing' = TRUE
    /\ NotifyAll
    /\ UNCHANGED <<now, ready, queueVars, policyVars, error, closed, diskVars,
                   callerVars>>

-----------------------------------------------------------------------------
(* submit, set_prudent, flush and close.  A call that raises before it     *)
(* changes anything (a failed, closed or full writer) is a stutter.        *)

(* Defect: a closing writer still accepts records.                         *)
CheckOpenIgnoringClosing == ctor = "open" /\ ~error /\ ~closed

CheckOpen == ctor = "open" /\ ~error /\ ~closing /\ ~closed

(* Defect: the limit counts the queue but not the batch being written.     *)
HasRoomQueueOnly(size) ==
    /\ Bytes(pending) + size <= MaxPendingBytes
    /\ Len(pending) < MaxPendingRecords

HasRoom(size) ==
    /\ pendingBytes + size <= MaxPendingBytes
    /\ pendingRecords < MaxPendingRecords

Submit(size, isEvent, urgent) ==
    /\ CheckOpen
    /\ HasRoom(size)
    /\ sequence < MaxRecords /\ now + BatchTicks <= MaxTime   \* bounds
    /\ sequence' = sequence + 1
    /\ pending' = Append(pending,
            [seq |-> sequence + 1, size |-> size,
             deadline |-> now + (IF isEvent THEN EventTicks ELSE BatchTicks)])
    /\ pendingBytes' = pendingBytes + size
    /\ pendingRecords' = pendingRecords + 1
    /\ flushThrough' = IF urgent THEN sequence + 1 ELSE flushThrough
    /\ NotifyAll
    /\ UNCHANGED <<startVars, prudent, stateVars, diskVars, callerVars>>

SetPrudent(value) ==
    /\ CheckOpen
    /\ prudent' = value
    /\ NotifyAll
    /\ UNCHANGED <<startVars, queueVars, flushThrough, stateVars, diskVars,
                   callerVars>>

CanCall(c) == ctor = "open" /\ pc[c] = "idle"

(* flush() when everything it asks for is durable already.                 *)
FlushReturnsAtOnce(c) ==
    /\ CanCall(c)
    /\ ~error
    /\ committed >= sequence
    /\ flushThrough' = Max({flushThrough, sequence})
    /\ NotifyAll
    /\ acked' = Max({acked, sequence})
    /\ UNCHANGED <<startVars, queueVars, prudent, stateVars, diskVars, target,
                   cleanClose>>

FlushBlocks(c) ==
    /\ CanCall(c)
    /\ ~error
    /\ committed < sequence
    /\ flushThrough' = Max({flushThrough, sequence})
    /\ wpc' = WriterAwake
    /\ pc' = [CallersAwake EXCEPT ![c] = "flushing"]
    /\ target' = [target EXCEPT ![c] = sequence]
    /\ UNCHANGED <<startVars, queueVars, prudent, stateVars, diskVars, acked,
                   cleanClose>>

(* The wait loop of flush(), after a notification or the caller's timeout. *)
FlushReturns(c) ==
    /\ pc[c] \in {"flushing", "woken"}
    /\ committed >= target[c]
    /\ pc' = [pc EXCEPT ![c] = "idle"]
    /\ acked' = Max({acked, target[c]})
    /\ UNCHANGED <<quietVars, wpc, target, cleanClose>>

FlushWaitsAgain(c) ==
    /\ pc[c] = "woken"
    /\ committed < target[c] /\ ~error
    /\ pc' = [pc EXCEPT ![c] = "flushing"]
    /\ UNCHANGED <<quietVars, wpc, callerVars>>

FlushRaises(c) ==
    /\ pc[c] = "woken"
    /\ committed < target[c] /\ error
    /\ pc' = [pc EXCEPT ![c] = "idle"]
    /\ UNCHANGED <<quietVars, wpc, callerVars>>

FlushTimesOut(c) ==
    /\ pc[c] \in {"flushing", "woken"}
    /\ committed < target[c]
    /\ pc' = [pc EXCEPT ![c] = "idle"]
    /\ UNCHANGED <<quietVars, wpc, callerVars>>

CloseReturnsAtOnce(c) ==
    /\ CanCall(c)
    /\ closed
    /\ cleanClose' = (cleanClose \/ ~error)
    /\ UNCHANGED <<quietVars, wpc, pc, target, acked>>

CloseJoins(c) ==
    /\ CanCall(c)
    /\ ~closed
    /\ closing' = TRUE
    /\ flushThrough' = sequence
    /\ wpc' = WriterAwake
    /\ pc' = [CallersAwake EXCEPT ![c] = "joining"]
    /\ UNCHANGED <<startVars, queueVars, prudent, error, closed, diskVars,
                   callerVars>>

(* _thread.join(3.0) returns because the thread ended ...                  *)
CloseReturns(c) ==
    /\ pc[c] = "joining" /\ wpc = "done"
    /\ pc' = [pc EXCEPT ![c] = "idle"]
    /\ cleanClose' = (cleanClose \/ ~error)
    /\ UNCHANGED <<quietVars, wpc, target, acked>>

(* ... or because three seconds passed; close() then raises.               *)
CloseTimesOut(c) ==
    /\ pc[c] = "joining" /\ wpc # "done"
    /\ pc' = [pc EXCEPT ![c] = "idle"]
    /\ UNCHANGED <<quietVars, wpc, callerVars>>

-----------------------------------------------------------------------------
(* The writer thread: _run, _connect, _commit, _fail.                      *)

WriterConnects ==
    /\ wpc = "connect" /\ wpc' = "check"
    /\ ready' = TRUE
    /\ UNCHANGED <<now, ctor, queueVars, policyVars, stateVars, diskVars, pc,
                   callerVars>>

WriterConnectFails ==
    /\ wpc = "connect" /\ wpc' = "failing"
    /\ UNCHANGED <<quietVars, pc, callerVars>>

(* Defect: a closing writer returns although records are queued.           *)
WriterStopsEarly ==
    /\ wpc = "check" /\ wpc' = "exit"
    /\ closing
    /\ UNCHANGED <<quietVars, pc, callerVars>>

(* An empty queue: return when closing, otherwise wait with no timeout.    *)
WriterStops ==
    /\ wpc = "check" /\ wpc' = "exit"
    /\ pending = <<>> /\ closing
    /\ UNCHANGED <<quietVars, pc, callerVars>>

WriterWaits ==
    /\ wpc = "check" /\ wpc' = "wait"
    /\ pending = <<>> /\ ~closing
    /\ UNCHANGED <<quietVars, pc, callerVars>>

Immediate ==
    \/ prudent
    \/ closing
    \/ flushThrough > committed
    \/ pendingBytes >= BatchBytes

(* Nothing is urgent and no deadline has passed: sleep until the earliest. *)
WriterDozes ==
    /\ wpc = "check" /\ wpc' = "timed"
    /\ pending # <<>>
    /\ ~Immediate /\ EarliestDeadline > now
    /\ wakeAt' = EarliestDeadline
    /\ UNCHANGED <<startVars, queueVars, policyVars, stateVars, committed, batch,
                   durable, pc, callerVars>>

WriterWakes ==
    /\ wpc = "timed" /\ wpc' = "check"
    /\ now >= wakeAt
    /\ UNCHANGED <<quietVars, pc, callerVars>>

(* Prudent mode takes one record, otherwise the whole queue is one batch.  *)
WriterTakes ==
    /\ wpc = "check" /\ wpc' = "committing"
    /\ pending # <<>>
    /\ Immediate \/ EarliestDeadline <= now
    /\ \/ prudent /\ batch' = <<Head(pending)>> /\ pending' = Tail(pending)
       \/ ~prudent /\ batch' = pending /\ pending' = <<>>
    /\ UNCHANGED <<startVars, pendingBytes, pendingRecords, sequence, policyVars,
                   stateVars, committed, durable, wakeAt, pc, callerVars>>

WriterCommits ==
    /\ wpc = "committing" /\ wpc' = "publish"
    /\ durable' = durable \cup Numbers(batch)
    /\ UNCHANGED <<startVars, queueVars, policyVars, stateVars, committed, batch,
                   wakeAt, pc, callerVars>>

(* Defect: a failed commit is swallowed and the writer goes on.            *)
WriterCommitFailsQuietly ==
    /\ wpc = "committing" /\ wpc' = "check"
    /\ batch' = <<>>
    /\ UNCHANGED <<startVars, queueVars, policyVars, stateVars, committed, durable,
                   wakeAt, pc, callerVars>>

(* An exception leaves the transaction rolled back, or committed if the    *)
(* error came after SQLite retired its journal.                            *)
WriterCommitFails ==
    /\ wpc = "committing" /\ wpc' = "failing"
    /\ durable' \in {durable, durable \cup Numbers(batch)}
    /\ UNCHANGED <<startVars, queueVars, policyVars, stateVars, committed, batch,
                   wakeAt, pc, callerVars>>

(* Defect: all that was accepted is published, not only what was written.  *)
EverythingAccepted == sequence

LastOfBatch == batch[Len(batch)].seq

WriterPublishes ==
    /\ wpc = "publish" /\ wpc' = "check"
    /\ committed' = LastOfBatch
    /\ pendingBytes' = pendingBytes - Bytes(batch)
    /\ pendingRecords' = pendingRecords - Len(batch)
    /\ batch' = <<>>
    /\ pc' = CallersAwake
    /\ UNCHANGED <<startVars, pending, sequence, policyVars, stateVars, durable,
                   wakeAt, callerVars>>

WriterFails ==
    /\ wpc = "failing" /\ wpc' = "exit"
    /\ error' = TRUE
    /\ pc' = CallersAwake
    /\ UNCHANGED <<startVars, queueVars, policyVars, closing, closed, diskVars,
                   callerVars>>

(* The finally block: the thread ends whatever happened.                   *)
WriterEnds ==
    /\ wpc = "exit" /\ wpc' = "done"
    /\ closed' = TRUE
    /\ ready' = TRUE
    /\ pc' = CallersAwake
    /\ UNCHANGED <<now, ctor, queueVars, policyVars, error, closing, diskVars,
                   callerVars>>

Tick ==
    /\ now < MaxTime
    /\ now' = now + 1
    /\ UNCHANGED <<ctor, ready, queueVars, policyVars, stateVars, diskVars, wpc, pc,
                   callerVars>>

-----------------------------------------------------------------------------
Writer ==
    \/ WriterConnects \/ WriterConnectFails
    \/ WriterStops \/ WriterWaits \/ WriterDozes \/ WriterWakes
    \/ WriterTakes \/ WriterCommits \/ WriterCommitFails \/ WriterPublishes
    \/ WriterFails \/ WriterEnds

Constructor == ConstructorReturns \/ ConstructorTimesOut \/ ConstructorAbandons

Flush(c) ==
    \/ FlushReturnsAtOnce(c) \/ FlushBlocks(c)
    \/ FlushReturns(c) \/ FlushWaitsAgain(c) \/ FlushRaises(c) \/ FlushTimesOut(c)

Close(c) ==
    \/ CloseReturnsAtOnce(c) \/ CloseJoins(c) \/ CloseReturns(c) \/ CloseTimesOut(c)

Next ==
    \/ Constructor
    \/ \E size \in Sizes, isEvent, urgent \in BOOLEAN : Submit(size, isEvent, urgent)
    \/ \E value \in BOOLEAN : SetPrudent(value)
    \/ \E c \in Callers : Flush(c) \/ Close(c)
    \/ Writer
    \/ Tick

FlushResumes(c) == pc[c] = "woken" /\ (FlushReturns(c) \/ FlushRaises(c))

(* The writer thread is scheduled and SQLite answers (its busy timeout is  *)
(* one second), time passes, and a notified caller runs again.  Nothing    *)
(* obliges a caller to submit, flush or close, nor a timeout to fire.      *)
Fairness ==
    /\ WF_vars(Writer)
    /\ WF_vars(Tick)
    /\ \A c \in Callers : WF_vars(FlushResumes(c))

Spec == Init /\ [][Next]_vars /\ Fairness

-----------------------------------------------------------------------------
InFlight == Numbers(batch) \cup Numbers(pending)

(* Every variable has its type.                                            *)
TypeOK ==
    /\ now \in Nat /\ wakeAt \in Nat
    /\ ctor \in {"waiting", "timedout", "open", "raised"}
    /\ wpc \in {"connect", "check", "wait", "timed", "committing", "publish",
               "failing", "exit", "done"}
    /\ ready \in BOOLEAN /\ prudent \in BOOLEAN /\ cleanClose \in BOOLEAN
    /\ error \in BOOLEAN /\ closing \in BOOLEAN /\ closed \in BOOLEAN
    /\ pending \in Seq(Items) /\ batch \in Seq(Items)
    /\ sequence \in Nat /\ committed \in Nat /\ flushThrough \in Nat
    /\ acked \in Nat /\ pendingRecords \in Nat
    /\ pc \in [Callers -> {"idle", "flushing", "woken", "joining"}]
    /\ target \in [Callers -> Nat]
    /\ durable \subseteq Nat

(* flush() returned for a target: every record accepted before that call   *)
(* is committed in SQLite, whatever the writer was doing meanwhile.        *)
FlushedIsDurable == 1..acked \subseteq durable

(* A close() that returned without raising left nothing in memory.         *)
CleanCloseIsComplete == cleanClose => durable = 1..sequence /\ pending = <<>>

(* Commits never leave a hole: a crash at any instant preserves a prefix   *)
(* of the accepted records, and every commit the callers know of is in it. *)
DurableIsPrefix == \E n \in committed..sequence : durable = 1..n

(* No accepted record leaves memory before SQLite has it, unless a failure *)
(* is visible or about to be.                                              *)
NothingForgotten == 1..sequence \subseteq durable \cup InFlight

(* The queue limits bound the batch being written as well as the queue.    *)
MemoryIsBounded ==
    /\ Len(pending) + Len(batch) <= MaxPendingRecords
    /\ Bytes(pending) + Bytes(batch) <= MaxPendingBytes
    /\ pendingBytes = Bytes(pending) + Bytes(batch)

(* A sleeping writer has no reason to be awake: nothing is queued or       *)
(* closing when it sleeps for good, and when it dozes no commit is wanted  *)
(* now and it will be up by the deadline of every record, the five-second  *)
(* events queued behind one-minute samples included.                       *)
NoLostWakeup ==
    /\ wpc = "wait" => pending = <<>> /\ ~closing
    /\ wpc = "timed" => /\ ~Immediate
                        /\ \A i \in DOMAIN pending : wakeAt <= pending[i].deadline
    /\ \A c \in Callers : pc[c] = "flushing" => committed < target[c] /\ ~error

(* An accepted record is committed in the end, or the writer has failed,   *)
(* and flush() returns without the help of its timeout.                    *)
WorkSettles ==
    /\ \A n \in 1..MaxRecords : sequence >= n ~> n \in durable \/ error
    /\ \A c \in Callers : pc[c] = "flushing" ~> pc[c] = "idle"

(* Once closing is set, by close() or by a constructor that gave up, the   *)
(* writer thread ends.                                                     *)
ClosingEnds == closing ~> closed

Queue == INSTANCE DurableQueue WITH
    accepted <- sequence, stored <- durable, sealed <- closing, failed <- error

(* The threads and batches implement the abstract queue: order, prefix     *)
(* durability, honest acknowledgements, no acceptance after close or       *)
(* failure, and no commit after a failure is visible.                      *)
ImplementsQueue == Queue!Spec
=============================================================================
