--------------------------- MODULE DelayLocksProofs ---------------------------
(***************************************************************************)
(* What holds of DelayLocks for every set of faults and any number of      *)
(* transitions.  Only the last theorem needs the order of the messages in  *)
(* the inbox.                                                              *)
(***************************************************************************)
EXTENDS DelayLocks, TLAPS

(* Handing over is a matter of a collector that delegates, and closing one *)
(* of a collector that was stopped.                                        *)
Stages ==
    /\ sampler = "pause" => delegated
    /\ closer # "no" => stop

(* A transition that must wait for the records due is that of a collector  *)
(* that records and holds its lock, and their flush is still to come.      *)
Waits ==
    host = "preparing" /\ ~waived =>
        /\ Recording
        /\ "due" \in unsaved => /\ held
                                /\ observer # "release"
                                /\ observer = "flush" => "goal" \in unsaved

(* What the properties rest on; the types are proved apart from it.        *)
Protocol == Stages /\ NoStrayLock /\ Waits /\ SleepAfterFlush

IInv == TypeOK /\ Protocol

-----------------------------------------------------------------------------
LEMMA InitIInv == LocksInit => IInv
<1> SUFFICES ASSUME LocksInit PROVE IInv
  OBVIOUS
<1>1. Flags
  BY DEF LocksInit, Flags
<1>2. periods \in 0 .. MaxPeriods
  BY DelayLocksAssumption DEF LocksInit
<1>3. flying <=> observer = "store"
  BY DEF LocksInit
<1>4. inbox \in Seq({"down", "up", "rearm"}) /\ unsaved \subseteq {"any", "goal", "due"}
  BY DEF LocksInit
<1>5. Protocol
  BY DEF LocksInit, Protocol, Stages, NoStrayLock, Waits, SleepAfterFlush
<1>6. QED  BY <1>1, <1>2, <1>3, <1>4, <1>5 DEF IInv, TypeOK

(* logind and the writer.                                                  *)
LEMMA HostStep ==
  ASSUME IInv,
         \/ Announce \/ Sleeps \/ LosesPatience \/ Wakes
         \/ OthersSubmit \/ Commits
  PROVE  IInv'
<1>1. Flags'
  <2> USE DEF IInv, TypeOK, Flags, Tell, locks, collector, history, logind
  <2>1. CASE Announce  BY <2>1 DEF Announce, Recording
  <2>2. CASE Sleeps  BY <2>2 DEF Sleeps
  <2>3. CASE LosesPatience  BY <2>3 DEF LosesPatience
  <2>4. CASE Wakes  BY <2>4 DEF Wakes
  <2>5. CASE OthersSubmit  BY <2>5 DEF OthersSubmit
  <2>6. CASE Commits  BY <2>6 DEF Commits
  <2>7. QED  BY <2>1, <2>2, <2>3, <2>4, <2>5, <2>6
<1>2. periods' \in 0 .. MaxPeriods
  BY DelayLocksAssumption
     DEF IInv, TypeOK, Announce, Sleeps, LosesPatience, Wakes, OthersSubmit, Commits, logind
<1>3. flying' <=> observer' = "store"
  BY DEF IInv, TypeOK, Announce, Sleeps, LosesPatience, Wakes, OthersSubmit, Commits, locks
<1>4. Protocol'
  <2> USE DEF IInv, TypeOK, Flags, Protocol, Stages, NoStrayLock, Waits, SleepAfterFlush,
              Recording, locks, collector, history, logind
  <2>1. CASE Announce  BY <2>1 DEF Announce
  <2>2. CASE Sleeps  BY <2>2 DEF Sleeps
  <2>3. CASE LosesPatience  BY <2>3 DEF LosesPatience
  <2>4. CASE Wakes  BY <2>4 DEF Wakes
  <2>5. CASE OthersSubmit  BY <2>5 DEF OthersSubmit
  <2>6. CASE Commits  BY <2>6 DEF Commits
  <2>7. QED  BY <2>1, <2>2, <2>3, <2>4, <2>5, <2>6
<1>5. inbox' \in Seq({"down", "up", "rearm"})
  BY DEF IInv, TypeOK, Tell, Announce, Sleeps, LosesPatience, Wakes, OthersSubmit, Commits
<1>6. unsaved' \subseteq {"any", "goal", "due"}
  BY DEF IInv, TypeOK, Announce, Sleeps, LosesPatience, Wakes, OthersSubmit, Commits, history
<1>7. QED  BY <1>1, <1>2, <1>3, <1>4, <1>5, <1>6 DEF IInv, TypeOK

(* The thread of the observer.                                             *)
LEMMA ObserverStep ==
  ASSUME IInv, Observer \/ ObserverEnds
  PROVE  IInv'
<1> USE DEF IInv, TypeOK, Observe
<1>1. UNCHANGED <<logind, collector>>
  BY DEF Observer, ObserverEnds, Subscribes, NoBus, Rearms, DispatchesRearm, Inhibits,
         Stores, Ignores, Prepares, Flushes, FlushFails, Releases, Resumed
<1>2. Flags'
  <2> USE <1>1 DEF Flags, Take, locks, collector, history, logind, Recording
  <2>1. CASE Subscribes  BY <2>1 DEF Subscribes
  <2>2. CASE NoBus  BY <2>2 DEF NoBus
  <2>3. CASE Rearms  BY <2>3 DEF Rearms
  <2>4. CASE DispatchesRearm  BY <2>4 DEF DispatchesRearm
  <2>5. CASE Inhibits  BY <2>5 DEF Inhibits
  <2>6. CASE Stores  BY <2>6 DEF Stores
  <2>7. CASE Ignores  BY <2>7 DEF Ignores
  <2>8. CASE Prepares  BY <2>8 DEF Prepares
  <2>9. CASE Flushes  BY <2>9 DEF Flushes
  <2>10. CASE FlushFails  BY <2>10 DEF FlushFails
  <2>11. CASE Releases  BY <2>11 DEF Releases
  <2>12. CASE Resumed  BY <2>12 DEF Resumed
  <2>13. CASE ObserverEnds  BY <2>13 DEF ObserverEnds
  <2>14. QED  BY <2>1, <2>2, <2>3, <2>4, <2>5, <2>6, <2>7, <2>8, <2>9, <2>10, <2>11,
                 <2>12, <2>13 DEF Observer
<1>3. periods' \in 0 .. MaxPeriods
  BY <1>1 DEF logind
<1>4. flying' <=> observer' = "store"
  BY DEF Observer, ObserverEnds, Subscribes, NoBus, Rearms, DispatchesRearm, Inhibits,
         Stores, Ignores, Prepares, Flushes, FlushFails, Releases, Resumed, locks
<1>5. Protocol'
  <2> USE <1>1 DEF Flags, Protocol, Stages, NoStrayLock, Waits, SleepAfterFlush, Recording,
              locks, collector, history, logind
  <2>1. CASE Subscribes  BY <2>1 DEF Subscribes
  <2>2. CASE NoBus  BY <2>2 DEF NoBus
  <2>3. CASE Rearms  BY <2>3 DEF Rearms
  <2>4. CASE DispatchesRearm  BY <2>4 DEF DispatchesRearm
  <2>5. CASE Inhibits  BY <2>5 DEF Inhibits
  <2>6. CASE Stores  BY <2>6 DEF Stores
  <2>7. CASE Ignores  BY <2>7 DEF Ignores
  <2>8. CASE Prepares  BY <2>8 DEF Prepares
  <2>9. CASE Flushes  BY <2>9 DEF Flushes
  <2>10. CASE FlushFails  BY <2>10 DEF FlushFails
  <2>11. CASE Releases  BY <2>11 DEF Releases
  <2>12. CASE Resumed  BY <2>12 DEF Resumed
  <2>13. CASE ObserverEnds  BY <2>13 DEF ObserverEnds
  <2>14. QED  BY <2>1, <2>2, <2>3, <2>4, <2>5, <2>6, <2>7, <2>8, <2>9, <2>10, <2>11,
                 <2>12, <2>13 DEF Observer
<1>6. inbox' \in Seq({"down", "up", "rearm"})
  BY DEF Observer, ObserverEnds, Subscribes, NoBus, Rearms, DispatchesRearm, Inhibits,
         Stores, Ignores, Prepares, Flushes, FlushFails, Releases, Resumed, Take
<1>7. unsaved' \subseteq {"any", "goal", "due"}
  BY DEF Observer, ObserverEnds, Subscribes, NoBus, Rearms, DispatchesRearm, Inhibits,
         Stores, Ignores, Prepares, Flushes, FlushFails, Releases, Resumed, history
<1>8. QED  BY <1>2, <1>3, <1>4, <1>5, <1>6, <1>7

(* The sampling loop and close().                                          *)
LEMMA OwnerStep ==
  ASSUME IInv, Sampler \/ Stops \/ Closer
  PROVE  IInv'
<1> USE DEF IInv, TypeOK, Sample, CloseStep
<1>1. UNCHANGED <<logind, observer, flying, refused>>
  BY DEF Sampler, SwitchBegins, SwitchFails, Delegates, Pauses, TakesOver, Resumes,
         Stops, Closer, CloseQuits, CloseReleases, CloseWrites, locks
<1>2. Flags'
  <2> USE <1>1 DEF Flags, locks, history, logind
  <2>1. CASE SwitchBegins  BY <2>1 DEF SwitchBegins
  <2>2. CASE SwitchFails  BY <2>2 DEF SwitchFails
  <2>3. CASE Delegates  BY <2>3 DEF Delegates
  <2>4. CASE Pauses  BY <2>4 DEF Pauses
  <2>5. CASE TakesOver  BY <2>5 DEF TakesOver
  <2>6. CASE Resumes  BY <2>6 DEF Resumes
  <2>7. CASE Stops  BY <2>7 DEF Stops
  <2>8. CASE CloseQuits  BY <2>8 DEF CloseQuits
  <2>9. CASE CloseReleases  BY <2>9 DEF CloseReleases
  <2>10. CASE CloseWrites  BY <2>10 DEF CloseWrites
  <2>11. QED  BY <2>1, <2>2, <2>3, <2>4, <2>5, <2>6, <2>7, <2>8, <2>9, <2>10
              DEF Sampler, Closer
<1>3. periods' \in 0 .. MaxPeriods
  BY <1>1 DEF logind
<1>4. flying' <=> observer' = "store"
  BY <1>1
<1>5. Protocol'
  <2> USE <1>1 DEF Flags, Protocol, Stages, NoStrayLock, Waits, SleepAfterFlush, Recording,
              locks, history, logind
  <2>1. CASE SwitchBegins  BY <2>1 DEF SwitchBegins
  <2>2. CASE SwitchFails  BY <2>2 DEF SwitchFails
  <2>3. CASE Delegates  BY <2>3 DEF Delegates
  <2>4. CASE Pauses  BY <2>4 DEF Pauses
  <2>5. CASE TakesOver  BY <2>5 DEF TakesOver
  <2>6. CASE Resumes  BY <2>6 DEF Resumes
  <2>7. CASE Stops  BY <2>7 DEF Stops
  <2>8. CASE CloseQuits  BY <2>8 DEF CloseQuits
  <2>9. CASE CloseReleases  BY <2>9 DEF CloseReleases
  <2>10. CASE CloseWrites  BY <2>10 DEF CloseWrites
  <2>11. QED  BY <2>1, <2>2, <2>3, <2>4, <2>5, <2>6, <2>7, <2>8, <2>9, <2>10
              DEF Sampler, Closer
<1>6. inbox' \in Seq({"down", "up", "rearm"})
  BY DEF Sampler, SwitchBegins, SwitchFails, Delegates, Pauses, TakesOver, Resumes,
         Stops, Closer, CloseQuits, CloseReleases, CloseWrites
<1>7. unsaved' \subseteq {"any", "goal", "due"}
  BY DEF Sampler, SwitchBegins, SwitchFails, Delegates, Pauses, TakesOver, Resumes,
         Stops, Closer, CloseQuits, CloseReleases, CloseWrites, history
<1>8. QED  BY <1>2, <1>3, <1>4, <1>5, <1>6, <1>7

LEMMA Stutter == ASSUME IInv, UNCHANGED lockVars PROVE IInv'
  BY DEF IInv, TypeOK, Flags, Protocol, Stages, NoStrayLock, Waits, SleepAfterFlush,
         Recording, lockVars, logind, locks, collector, history

(* The strengthening is an invariant of the specification.                 *)
THEOREM Invariance == LocksSpec => []IInv
<1>1. IInv /\ [LocksNext]_lockVars => IInv'
  <2> SUFFICES ASSUME IInv, [LocksNext]_lockVars PROVE IInv'
    OBVIOUS
  <2>1. CASE Announce \/ Sleeps \/ LosesPatience \/ Wakes \/ OthersSubmit \/ Commits
    BY <2>1, HostStep
  <2>2. CASE Observer \/ ObserverEnds
    BY <2>2, ObserverStep
  <2>3. CASE Sampler \/ Stops \/ Closer
    BY <2>3, OwnerStep
  <2>4. CASE UNCHANGED lockVars
    BY <2>4, Stutter
  <2>5. QED  BY <2>1, <2>2, <2>3, <2>4 DEF LocksNext
<1>2. QED  BY InitIInv, <1>1, PTL DEF LocksSpec

(* Every variable has a value of its kind, whatever fails (_BusObserver).  *)
THEOREM TypeCorrect == LocksSpec => []TypeOK
<1>1. IInv => TypeOK
  BY DEF IInv
<1>2. QED  BY <1>1, Invariance, PTL

(* A host does not sleep on records that were due, unless a condition      *)
(* under which the collector need not delay it occurred (_signal).         *)
THEOREM SleepWaits == LocksSpec => []SleepAfterFlush
<1>1. IInv => SleepAfterFlush
  BY DEF IInv, Protocol
<1>2. QED  BY <1>1, Invariance, PTL

(* No lock of a collector that delegates or has closed delays a            *)
(* transition (_inhibit, _release, pause, close).                          *)
THEOREM LocksGo == LocksSpec => []NoStrayLock
<1>1. IInv => NoStrayLock
  BY DEF IInv, Protocol
<1>2. QED  BY <1>1, Invariance, PTL

-----------------------------------------------------------------------------
(* The lock that returns.  Here the order of the inbox matters: behind     *)
(* every announcement of a transition is the news of its end.              *)

Queued(m) == \E i \in 1 .. Len(inbox) : inbox[i] = m

InTurn ==
    observer # "ended" /\ host = "awake" =>
        \A i \in 1 .. Len(inbox) : inbox[i] = "down" =>
            \E j \in 1 .. Len(inbox) : i < j /\ inbox[j] = "up"

Awaited == observer \in {"flush", "release"} => host # "awake" \/ Queued("up")

(* Someone will ask for the lock again, or nobody is there to ask.         *)
Coming ==
    \/ observer \in {"start", "rearm", "inhibit", "store", "ended"}
    \/ sampler = "resume" \/ Queued("rearm") \/ Queued("up") \/ host # "awake"

Returns ==
    /\ observer = "start" => inbox = <<>>
    /\ InTurn /\ Awaited
    /\ Recording /\ ~held /\ ~refused => Coming

LEMMA InboxGrows ==
  ASSUME inbox \in Seq({"down", "up", "rearm"}), NEW m \in {"down", "up", "rearm"},
         inbox' = Append(inbox, m)
  PROVE  /\ Queued(m)'
         /\ \A x \in {"down", "up", "rearm"} : Queued(x) => Queued(x)'
         /\ m = "up" => \A i \in 1 .. Len(inbox') : inbox'[i] = "down" =>
              \E j \in 1 .. Len(inbox') : i < j /\ inbox'[j] = "up"
         /\ m = "rearm" /\ InTurn /\ UNCHANGED <<observer, host>> => InTurn'
<1>1. Len(inbox) \in Nat /\ Len(inbox') = Len(inbox) + 1 /\ inbox'[Len(inbox) + 1] = m
  OBVIOUS
<1>2. \A i \in 1 .. Len(inbox) : inbox'[i] = inbox[i]
  OBVIOUS
<1>3. \A i \in 1 .. Len(inbox') : i \in 1 .. Len(inbox) \/ i = Len(inbox) + 1
  BY <1>1
<1>4. 1 .. Len(inbox) \subseteq 1 .. Len(inbox') /\ Len(inbox) + 1 \in 1 .. Len(inbox')
  BY <1>1
<1>5. Queued(m)'
  BY <1>1, <1>4 DEF Queued
<1>6. \A x \in {"down", "up", "rearm"} : Queued(x) => Queued(x)'
  BY <1>2, <1>4 DEF Queued
<1>7. ASSUME m = "up", NEW i \in 1 .. Len(inbox'), inbox'[i] = "down"
      PROVE  \E j \in 1 .. Len(inbox') : i < j /\ inbox'[j] = "up"
  <2>1. i # Len(inbox) + 1
    BY <1>1, <1>7
  <2>2. i < Len(inbox) + 1
    BY <2>1, <1>1, <1>3
  <2>3. QED  BY <2>2, <1>1, <1>4, <1>7
<1>8. ASSUME m = "rearm", InTurn, UNCHANGED <<observer, host>> PROVE InTurn'
  <2> SUFFICES ASSUME observer # "ended", host = "awake",
                      NEW i \in 1 .. Len(inbox'), inbox'[i] = "down"
               PROVE  \E j \in 1 .. Len(inbox') : i < j /\ inbox'[j] = "up"
    BY <1>8 DEF InTurn
  <2>1. i \in 1 .. Len(inbox) /\ inbox[i] = "down"
    BY <1>1, <1>2, <1>3, <1>8
  <2>2. PICK j \in 1 .. Len(inbox) : i < j /\ inbox[j] = "up"
    BY <2>1, <1>8 DEF InTurn
  <2>3. QED  BY <2>2, <1>2, <1>4
<1>9. QED  BY <1>5, <1>6, <1>7, <1>8

(* What is behind the message that is taken stays, in its order.           *)
LEMMA InboxShrinks ==
  ASSUME inbox \in Seq({"down", "up", "rearm"}), NEW m, Take(m),
         InTurn, observer # "ended", host' = host
  PROVE  /\ \A x : x # m /\ Queued(x) => Queued(x)'
         /\ m = "down" => host # "awake" \/ Queued("up")'
         /\ InTurn'
<1>1. Len(inbox) \in Nat \ {0} /\ inbox[1] = m
  BY DEF Take
<1>2. Len(inbox') = Len(inbox) - 1 /\ \A i \in 1 .. Len(inbox') : inbox'[i] = inbox[i + 1]
  BY DEF Take
<1>3. \A j \in 1 .. Len(inbox) : j > 1 => j - 1 \in 1 .. Len(inbox') /\ inbox'[j - 1] = inbox[j]
  BY <1>1, <1>2
<1>4. ASSUME NEW x, x # m, Queued(x) PROVE Queued(x)'
  <2>1. PICK j \in 1 .. Len(inbox) : inbox[j] = x
    BY <1>4 DEF Queued
  <2>2. j > 1
    BY <2>1, <1>1, <1>4
  <2>3. QED  BY <2>1, <2>2, <1>3 DEF Queued
<1>5. ASSUME m = "down", host = "awake" PROVE Queued("up")'
  <2>1. Queued("up")
    BY <1>1, <1>5 DEF InTurn, Queued
  <2>2. QED  BY <2>1, <1>4, <1>5
<1>6. InTurn'
  <2> SUFFICES ASSUME host = "awake", NEW i \in 1 .. Len(inbox'), inbox'[i] = "down"
               PROVE  \E j \in 1 .. Len(inbox') : i < j /\ inbox'[j] = "up"
    BY DEF InTurn
  <2>1. i + 1 \in 1 .. Len(inbox) /\ inbox[i + 1] = "down"
    BY <1>1, <1>2
  <2>2. PICK j \in 1 .. Len(inbox) : i + 1 < j /\ inbox[j] = "up"
    BY <2>1 DEF InTurn
  <2>3. QED  BY <2>2, <1>1, <1>3
<1>7. QED  BY <1>4, <1>5, <1>6

LEMMA ReturnsHost ==
  ASSUME IInv, Returns,
         \/ Announce \/ Sleeps \/ LosesPatience \/ Wakes
         \/ OthersSubmit \/ Commits
  PROVE  Returns'
<1> USE DEF IInv, TypeOK, Returns, Coming, Awaited, Recording, Tell, locks, collector, logind
<1>1. CASE Announce
  <2>1. host' # "awake" /\ UNCHANGED <<observer, held, refused, stop, delegated, sampler>>
    BY <1>1 DEF Announce
  <2>2. observer = "start" => inbox' = inbox
    BY <1>1 DEF Announce
  <2>3. QED  BY <2>1, <2>2 DEF InTurn
<1>2. CASE Sleeps \/ LosesPatience
  <2>1. host' # "awake" /\ UNCHANGED <<observer, inbox, held, refused, stop, delegated, sampler>>
    BY <1>2 DEF Sleeps, LosesPatience
  <2>2. QED  BY <2>1 DEF InTurn
<1>3. CASE Wakes
  <2>1. UNCHANGED <<observer, held, refused, stop, delegated, sampler>>
    BY <1>3 DEF Wakes
  <2>2. CASE observer \in {"start", "ended"}
    BY <1>3, <2>1, <2>2 DEF Wakes, InTurn
  <2>3. CASE observer \notin {"start", "ended"}
    <3>1. inbox' = Append(inbox, "up")
      BY <1>3, <2>3 DEF Wakes
    <3>2. Queued("up")' /\ InTurn'
      BY <3>1, InboxGrows DEF InTurn
    <3>3. QED  BY <3>2, <2>1, <2>3
  <2>4. QED  BY <2>2, <2>3
<1>4. CASE OthersSubmit \/ Commits
  <2>1. UNCHANGED <<host, observer, inbox, held, refused, stop, delegated, sampler>>
    BY <1>4 DEF OthersSubmit, Commits
  <2>2. QED  BY <2>1 DEF InTurn, Queued
<1>5. QED  BY <1>1, <1>2, <1>3, <1>4

LEMMA ReturnsObserver ==
  ASSUME IInv, Returns, Observer \/ ObserverEnds
  PROVE  Returns'
<1> USE DEF IInv, TypeOK, Returns, Coming, Awaited, Recording, Observe, locks, collector, logind
<1>1. UNCHANGED <<host, stop, delegated, sampler>> /\ observer' # "start"
  BY DEF Observer, ObserverEnds, Subscribes, NoBus, Rearms, DispatchesRearm, Inhibits,
         Stores, Ignores, Prepares, Flushes, FlushFails, Releases, Resumed
<1>2. CASE \/ Subscribes \/ NoBus \/ Rearms \/ Inhibits \/ Stores \/ Flushes \/ FlushFails
           \/ Releases \/ ObserverEnds
  <2>1. UNCHANGED inbox /\ observer # "ended"
    BY <1>2 DEF Subscribes, NoBus, Rearms, Inhibits, Stores, Flushes, FlushFails, Releases,
                ObserverEnds
  <2>2. InTurn' /\ (\A m : Queued(m)' = Queued(m))
    BY <1>1, <2>1 DEF InTurn, Queued
  <2>3. CASE Subscribes \/ NoBus  BY <1>1, <2>1, <2>2, <2>3 DEF Subscribes, NoBus
  <2>4. CASE Rearms  BY <1>1, <2>1, <2>2, <2>4 DEF Rearms
  <2>5. CASE Inhibits  BY <1>1, <2>1, <2>2, <2>5 DEF Inhibits
  <2>6. CASE Stores
    <3>1. observer' = "loop" /\ (Recording => held')
      BY <2>6, Zenon DEF Stores
    <3>2. QED  BY <1>1, <2>1, <2>2, <3>1
  <2>7. CASE Flushes \/ FlushFails  BY <1>1, <2>1, <2>2, <2>7 DEF Flushes, FlushFails
  <2>8. CASE Releases \/ ObserverEnds  BY <1>1, <2>1, <2>2, <2>8 DEF Releases, ObserverEnds
  <2>9. QED  BY <1>2, <2>3, <2>4, <2>5, <2>6, <2>7, <2>8
<1>3. CASE DispatchesRearm
  <2>1. InTurn'
    BY <1>1, <1>3, InboxShrinks DEF DispatchesRearm
  <2>2. QED  BY <1>1, <1>3, <2>1 DEF DispatchesRearm
<1>4. CASE Ignores
  <2>1. InTurn'
    BY <1>1, <1>4, InboxShrinks DEF Ignores
  <2>2. QED  BY <1>1, <1>4, <2>1 DEF Ignores
<1>5. CASE Prepares
  <2>1. InTurn' /\ (host # "awake" \/ Queued("up")')
    BY <1>1, <1>5, InboxShrinks DEF Prepares
  <2>2. QED  BY <1>1, <1>5, <2>1 DEF Prepares
<1>6. CASE Resumed
  <2>1. InTurn'
    BY <1>1, <1>6, InboxShrinks DEF Resumed
  <2>2. QED  BY <1>1, <1>6, <2>1 DEF Resumed
<1>7. QED
  BY <1>2, <1>3, <1>4, <1>5, <1>6 DEF Observer

LEMMA ReturnsOwner ==
  ASSUME IInv, Returns, Sampler \/ Stops \/ Closer
  PROVE  Returns'
<1> USE DEF IInv, TypeOK, Protocol, Stages, Returns, Coming, Awaited, Recording, Sample,
            CloseStep, locks, logind
<1>1. UNCHANGED <<host, observer, refused>>
  BY DEF Sampler, SwitchBegins, SwitchFails, Delegates, Pauses, TakesOver, Resumes,
         Stops, Closer, CloseQuits, CloseReleases, CloseWrites
<1>2. CASE UNCHANGED inbox
  <2>1. InTurn' /\ (\A m : Queued(m)' = Queued(m))
    BY <1>1, <1>2 DEF InTurn, Queued
  <2>2. QED
    BY <1>1, <1>2, <2>1
       DEF Flags, Sampler, SwitchBegins, SwitchFails, Delegates, Pauses, TakesOver, Resumes,
           Stops, Closer, CloseQuits, CloseReleases, CloseWrites
<1>3. CASE Resumes /\ inbox' = Append(inbox, "rearm")
  <2>1. InTurn' /\ Queued("rearm")' /\ (Queued("up") => Queued("up")')
    BY <1>1, <1>3, InboxGrows
  <2>2. observer # "start"
    BY <1>3 DEF Resumes
  <2>3. QED  BY <1>1, <1>3, <2>1, <2>2 DEF Resumes
<1>4. QED
  BY <1>2, <1>3
     DEF Sampler, SwitchBegins, SwitchFails, Delegates, Pauses, TakesOver, Resumes,
         Stops, Closer, CloseQuits, CloseReleases, CloseWrites

(* A collector that records and has nothing left to dispatch holds its     *)
(* lock, or could not get it: through every order of announcements,        *)
(* returns, handoffs and requests (_signal, _inhibit, resume).             *)
THEOREM LockComesBack == LocksSpec => []LockWhenQuiet
<1>1. LocksInit => Returns
  BY DEF LocksInit, Returns, InTurn, Awaited, Coming
<1>2. IInv /\ Returns /\ [LocksNext]_lockVars => Returns'
  <2> SUFFICES ASSUME IInv, Returns, [LocksNext]_lockVars PROVE Returns'
    OBVIOUS
  <2>1. CASE Announce \/ Sleeps \/ LosesPatience \/ Wakes \/ OthersSubmit \/ Commits
    BY <2>1, ReturnsHost
  <2>2. CASE Observer \/ ObserverEnds
    BY <2>2, ReturnsObserver
  <2>3. CASE Sampler \/ Stops \/ Closer
    BY <2>3, ReturnsOwner
  <2>4. CASE UNCHANGED lockVars
    BY <2>4 DEF Returns, InTurn, Awaited, Coming, Queued, Recording, lockVars, logind, locks,
                collector
  <2>5. QED  BY <2>1, <2>2, <2>3, <2>4 DEF LocksNext
<1>3. Returns => LockWhenQuiet
  BY DEF Returns, LockWhenQuiet, Coming, Queued
<1>4. QED  BY <1>1, <1>2, <1>3, Invariance, PTL DEF LocksSpec
=============================================================================
