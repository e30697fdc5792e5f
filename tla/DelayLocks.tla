------------------------------ MODULE DelayLocks ------------------------------
(***************************************************************************)
(* How a collector gets its pending history to disk before the host sleeps *)
(* or shuts down: _BusObserver asks logind for a "delay" lock, logind      *)
(* announces the transition and waits for the locks, the observer commits  *)
(* and lets its lock go.  One kind of transition is modelled; the two are  *)
(* handled alike and share nothing.                                        *)
(*                                                                         *)
(* The observer's callbacks run on one thread.  Delegation (by the         *)
(* sampling loop) and close() act on its locks from other threads.         *)
(*                                                                         *)
(* Of the writer the model keeps which records it has not committed:       *)
(* those submitted before logind announced the transition ("due"), before  *)
(* the observer's flush began ("goal"), or at all ("any").                 *)
(***************************************************************************)
EXTENDS Naturals, Sequences, SequencesExt

CONSTANTS
    Foreground,  \* may the collector delegate to the service?
    Faults,      \* subset of {"storage", "refusal", "impatience"}
    MaxPeriods   \* bound of the model on transitions of the host

ASSUME DelayLocksAssumption ==
    /\ Foreground \in BOOLEAN
    /\ Faults \subseteq {"storage", "refusal", "impatience"}
    /\ MaxPeriods \in Nat

VARIABLES
    host,      \* logind: "awake", "preparing" or "asleep"
    periods,   \* transitions announced so far
    inbox,     \* what the observer's main context has yet to dispatch
    observer,  \* what its thread is doing
    held,      \* the lock in `inhibitors'
    flying,    \* a lock logind has granted and the observer has not stored
    refused,   \* the last request for a lock, or what precedes it, failed
    delegated, \* _Collector.delegated
    sampler,   \* its sampling loop: "free", "switch", "pause" or "resume"
    stop,      \* _Collector.stop is set
    closer,    \* close(): "no", "join", "write" or "done"
    unsaved,   \* which records the writer has not committed
    waived     \* the host need not wait for those that are due (history)

logind == <<host, periods>>
locks == <<held, flying, refused>>
collector == <<delegated, sampler, stop, closer>>
history == <<unsaved, waived>>
lockVars == <<logind, inbox, observer, locks, collector, history>>

LocksInit ==
    /\ host = "awake" /\ periods = 0 /\ inbox = <<>>
    /\ observer = "start"
    /\ held = FALSE /\ flying = FALSE /\ refused = FALSE
    /\ delegated = FALSE /\ sampler = "free"
    /\ stop = FALSE /\ closer = "no"
    /\ unsaved = {} /\ waived = FALSE

Recording == ~stop /\ ~delegated

-----------------------------------------------------------------------------
(* logind: announces a transition, waits for the locks, goes through with  *)
(* it, and tells when it is over.  A lock delays a transition when it is   *)
(* held as it is announced, and the flush of an earlier one is not under   *)
(* way.                                                                    *)

Tell(message) ==
    inbox' = IF observer \in {"start", "ended"} THEN inbox ELSE Append(inbox, message)

Announce ==
    /\ host = "awake" /\ periods < MaxPeriods
    /\ host' = "preparing" /\ periods' = periods + 1
    /\ Tell("down")
    /\ unsaved' = (unsaved \ {"due"}) \cup (IF unsaved = {} THEN {} ELSE {"due"})
    /\ waived' = ~(held /\ Recording /\ observer \notin {"flush", "release"})
    /\ UNCHANGED <<observer, locks, collector>>

Sleeps ==
    /\ host = "preparing" /\ ~held /\ ~flying
    /\ host' = "asleep"
    /\ UNCHANGED <<periods, inbox, observer, locks, collector, history>>

(* InhibitDelayMaxSec has passed.                                          *)
LosesPatience ==
    /\ "impatience" \in Faults /\ host = "preparing"
    /\ host' = "asleep" /\ waived' = TRUE
    /\ UNCHANGED <<periods, inbox, observer, locks, collector, unsaved>>

Wakes ==
    /\ host = "asleep"
    /\ host' = "awake"
    /\ Tell("up")
    /\ UNCHANGED <<periods, observer, locks, collector, history>>

-----------------------------------------------------------------------------
(* The writer, and the threads that submit records.  A commit of part of   *)
(* what is pending changes nothing that the flush or the host waits for.   *)

OthersSubmit ==
    /\ host # "asleep" /\ closer # "done"
    /\ unsaved' = unsaved \cup {"any"}
    /\ UNCHANGED <<logind, inbox, observer, locks, collector, waived>>

Commits ==
    /\ host # "asleep" /\ unsaved # {}
    /\ unsaved' = {}
    /\ UNCHANGED <<logind, inbox, observer, locks, collector, waived>>

-----------------------------------------------------------------------------
(* The observer's thread.  Nothing runs while the host sleeps.             *)

Observe(from, to) ==
    /\ host # "asleep" /\ observer = from /\ observer' = to
    /\ UNCHANGED <<logind, collector>>

Take(message) == inbox # <<>> /\ Head(inbox) = message /\ inbox' = Tail(inbox)

(* _run subscribes to the signals, or ends because there is no bus.        *)
Subscribes ==
    /\ Observe("start", "rearm")
    /\ UNCHANGED <<inbox, locks, history>>

NoBus ==
    /\ "refusal" \in Faults
    /\ Observe("start", "ended")
    /\ UNCHANGED <<inbox, locks, history>>

(* _rearm: the initial observations are submitted and the lock requested.  *)
Rearms ==
    /\ \/ /\ Recording /\ Observe("rearm", "inhibit")
          /\ unsaved' = unsaved \cup {"any"} /\ UNCHANGED refused
       \/ /\ Recording /\ "storage" \in Faults /\ Observe("rearm", "loop")
          /\ refused' = TRUE /\ UNCHANGED unsaved
       \/ /\ ~Recording /\ Observe("rearm", "loop")
          /\ UNCHANGED <<refused, unsaved>>
    /\ UNCHANGED <<inbox, held, flying, waived>>

DispatchesRearm ==
    /\ Take("rearm") /\ Observe("loop", "rearm")
    /\ UNCHANGED <<locks, history>>

(* _inhibit up to the answer of logind, which refuses a lock on a          *)
(* transition it has announced.                                            *)
Inhibits ==
    /\ \/ /\ Recording /\ host = "awake"
          /\ Observe("inhibit", "store")
          /\ flying' = TRUE /\ refused' = FALSE
       \/ /\ Recording /\ (host # "awake" \/ "refusal" \in Faults)
          /\ Observe("inhibit", "loop")
          /\ refused' = TRUE /\ UNCHANGED flying
       \/ /\ ~Recording
          /\ Observe("inhibit", "loop")
          /\ UNCHANGED <<flying, refused>>
    /\ UNCHANGED <<inbox, held, history>>

(* Defect: whether to keep the new lock was decided before the request.    *)
StoresBlindly ==
    /\ Observe("store", "loop")
    /\ held' = TRUE /\ flying' = FALSE
    /\ UNCHANGED <<inbox, refused, history>>

(* Under the lock: the one held before is replaced, or the new one closed. *)
Stores ==
    /\ Observe("store", "loop")
    /\ held' = Recording /\ flying' = FALSE
    /\ UNCHANGED <<inbox, refused, history>>

(* Either signal, for a collector that does not record.                    *)
Ignores ==
    /\ delegated /\ (Take("down") \/ Take("up")) /\ Observe("loop", "loop")
    /\ held' = FALSE
    /\ UNCHANGED <<flying, refused, history>>

(* PrepareForSleep(true): its record is submitted and a flush begins; the  *)
(* submission may raise.                                                   *)
Prepares ==
    /\ ~delegated /\ Take("down")
    /\ \/ /\ closer # "done" /\ Observe("loop", "flush")
          /\ unsaved' = unsaved \cup {"any", "goal"} /\ UNCHANGED waived
       \/ /\ (closer = "done" \/ "storage" \in Faults) /\ Observe("loop", "release")
          /\ waived' = TRUE /\ UNCHANGED unsaved
    /\ UNCHANGED locks

(* Defect: the lock goes as soon as the commit was asked for.              *)
FlushesLater ==
    /\ Observe("flush", "release")
    /\ UNCHANGED <<inbox, locks, history>>

Flushes ==
    /\ "goal" \notin unsaved
    /\ Observe("flush", "release")
    /\ UNCHANGED <<inbox, locks, history>>

(* The flush fails or runs into its deadline of two seconds.               *)
FlushFails ==
    /\ "storage" \in Faults
    /\ Observe("flush", "release")
    /\ waived' = TRUE
    /\ UNCHANGED <<inbox, locks, unsaved>>

(* Defect: the lock is kept when the history could not be committed.       *)
ReleasesOnSuccess ==
    /\ Observe("release", "loop")
    /\ held' = (held /\ "goal" \in unsaved)
    /\ UNCHANGED <<inbox, flying, refused, history>>

Releases ==
    /\ Observe("release", "loop")
    /\ held' = FALSE
    /\ UNCHANGED <<inbox, flying, refused, history>>

(* PrepareForSleep(false): its record, and a lock for the next time.       *)
Resumed ==
    /\ ~delegated /\ Take("up")
    /\ \/ /\ closer # "done" /\ Observe("loop", "inhibit")
          /\ unsaved' = unsaved \cup {"any"} /\ UNCHANGED refused
       \/ /\ (closer = "done" \/ "storage" \in Faults) /\ Observe("loop", "loop")
          /\ refused' = TRUE /\ UNCHANGED unsaved
    /\ UNCHANGED <<held, flying, waived>>

Observer ==
    \/ Subscribes \/ NoBus \/ Rearms \/ DispatchesRearm \/ Inhibits \/ Stores
    \/ Ignores \/ Prepares \/ Flushes \/ FlushFails \/ Releases \/ Resumed

(* loop.quit() reached a running loop, which it need not: the last act of  *)
(* the thread is a _release().                                             *)
ObserverEnds ==
    /\ stop /\ closer # "no" /\ Observe("loop", "ended")
    /\ held' = FALSE
    /\ UNCHANGED <<inbox, flying, refused, history>>

-----------------------------------------------------------------------------
(* The sampling loop of a foreground collector: _set_delegated, with       *)
(* pause() and resume().                                                   *)

Sample(from, to) ==
    /\ host # "asleep" /\ sampler = from /\ sampler' = to
    /\ UNCHANGED <<logind, observer, flying, refused, closer>>

(* Bound of the model: no two handoffs wait for the observer at a time.    *)
SwitchBegins ==
    /\ Foreground /\ ~stop /\ ~Contains(inbox, "rearm")
    /\ Sample("free", "switch")
    /\ unsaved' = {}
    /\ UNCHANGED <<inbox, held, delegated, stop, waived>>

(* The flush raises, and with it the loop and the collector stop.          *)
SwitchFails ==
    /\ Foreground /\ ~stop /\ "storage" \in Faults
    /\ Sample("free", "free")
    /\ stop' = TRUE /\ waived' = TRUE
    /\ UNCHANGED <<inbox, held, delegated, unsaved>>

Delegates ==
    /\ ~delegated /\ Sample("switch", "pause")
    /\ delegated' = TRUE /\ waived' = TRUE
    /\ UNCHANGED <<inbox, held, stop, unsaved>>

Pauses ==
    /\ Sample("pause", "free")
    /\ held' = FALSE
    /\ UNCHANGED <<inbox, delegated, stop, history>>

TakesOver ==
    /\ delegated /\ Sample("switch", "resume")
    /\ delegated' = FALSE
    /\ UNCHANGED <<inbox, held, stop, history>>

(* Defect: recording resumes without its observer.                         *)
ResumesNothing ==
    /\ Sample("resume", "free")
    /\ UNCHANGED <<inbox, held, delegated, stop, history>>

(* The observer has no context before it has subscribed.                   *)
Resumes ==
    /\ Sample("resume", "free")
    /\ inbox' = IF stop \/ observer \in {"start", "ended"} THEN inbox
                ELSE Append(inbox, "rearm")
    /\ UNCHANGED <<held, delegated, stop, history>>

Sampler ==
    SwitchBegins \/ SwitchFails \/ Delegates \/ Pauses \/ TakesOver \/ Resumes

-----------------------------------------------------------------------------
(* _Collector.close(): the observer is stopped and its locks released, and *)
(* then the writer is flushed and closed.                                  *)

Stops ==
    /\ host # "asleep" /\ ~stop
    /\ stop' = TRUE /\ waived' = TRUE
    /\ UNCHANGED <<logind, inbox, observer, locks, delegated, sampler, closer, unsaved>>

CloseStep(from, to) ==
    /\ host # "asleep" /\ stop /\ closer = from /\ closer' = to
    /\ UNCHANGED <<logind, inbox, observer, flying, refused, delegated, sampler, stop,
                   waived>>

CloseQuits ==
    /\ CloseStep("no", "join")
    /\ UNCHANGED <<held, unsaved>>

(* The join ends when the thread has, or after two and a half seconds.     *)
CloseReleases ==
    /\ CloseStep("join", "write")
    /\ held' = FALSE
    /\ UNCHANGED unsaved

CloseWrites ==
    /\ CloseStep("write", "done")
    /\ unsaved' = {}
    /\ UNCHANGED held

Closer == CloseQuits \/ CloseReleases \/ CloseWrites

LocksNext ==
    \/ Announce \/ Sleeps \/ LosesPatience \/ Wakes
    \/ OthersSubmit \/ Commits \/ Observer \/ ObserverEnds
    \/ Sampler \/ Stops \/ Closer

(* The threads run while the host is awake, and a transition goes through. *)
LocksFairness ==
    /\ WF_lockVars(Observer) /\ WF_lockVars(Commits)
    /\ WF_lockVars(Delegates \/ Pauses \/ TakesOver \/ Resumes)
    /\ WF_lockVars(Sleeps) /\ WF_lockVars(Wakes)

LocksSpec == LocksInit /\ [][LocksNext]_lockVars /\ LocksFairness

-----------------------------------------------------------------------------
Flags ==
    /\ host \in {"awake", "preparing", "asleep"}
    /\ observer \in {"start", "rearm", "inhibit", "store", "loop", "flush", "release",
                     "ended"}
    /\ held \in BOOLEAN /\ flying \in BOOLEAN /\ refused \in BOOLEAN
    /\ delegated \in BOOLEAN /\ stop \in BOOLEAN /\ waived \in BOOLEAN
    /\ sampler \in {"free", "switch", "pause", "resume"}
    /\ closer \in {"no", "join", "write", "done"}

(* Every variable has a value of its kind, and a lock that is not stored   *)
(* belongs to the request under way.                                       *)
TypeOK ==
    /\ Flags
    /\ periods \in 0 .. MaxPeriods
    /\ inbox \in Seq({"down", "up", "rearm"})
    /\ unsaved \subseteq {"any", "goal", "due"}
    /\ flying <=> observer = "store"

(* A host that sleeps has on disk what was pending when it announced the   *)
(* transition, unless the collector held no lock, could not commit, gave   *)
(* up recording meanwhile, or logind stopped waiting, for this transition  *)
(* or for the one before.                                                  *)
SleepAfterFlush == host = "asleep" => "due" \notin unsaved \/ waived

(* A collector that delegates, or has been closed, delays no transition,   *)
(* however late logind's answer to an earlier request arrives.             *)
NoStrayLock ==
    held => /\ ~delegated \/ sampler = "pause"
            /\ closer \notin {"write", "done"}

(* When nothing is left to dispatch, a collector that records holds its    *)
(* lock, unless the last attempt to get it failed.                         *)
LockWhenQuiet ==
    /\ Recording /\ host = "awake" /\ sampler = "free"
    /\ inbox = <<>> /\ observer = "loop"
    => held \/ refused

(* "may briefly delay an orderly transition only to complete pending       *)
(* writes, with a bounded deadline": a transition is never held up for     *)
(* good, even when the commit fails.                                       *)
DelayIsBounded == host = "preparing" ~> host # "preparing"
=============================================================================
