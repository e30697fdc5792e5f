---------------------------- MODULE HistoryProofs ----------------------------
(***************************************************************************)
(* What is proved of the durable history, for every value of its           *)
(* constants: the safety of its writer (HistoryWriter), for any number of  *)
(* callers and any limits, and what its readers show (HistoryReaders), for *)
(* any databases, appended to at any time.                                 *)
(***************************************************************************)
EXTENDS HistoryWriter, HistoryReaders, FiniteSetTheorems, FunctionTheorems,
        SequenceTheorems, WellFoundedInduction, TLAPS

-----------------------------------------------------------------------------
(* The writer: its inductive invariant.                                    *)

Idle == {"connect", "check", "wait", "timed"}
Ended == {"exit", "done"}

(* The numbers given out are split, in order, between the committed ones,  *)
(* the batch being written and the queue.                                  *)
Accounting ==
    /\ sequence = committed + Len(batch) + Len(pending)
    /\ pendingRecords = Len(pending) + Len(batch)
    /\ pendingRecords <= MaxPendingRecords
    /\ \A i \in 1..Len(batch) : batch[i].seq = committed + i
    /\ \A i \in 1..Len(pending) : pending[i].seq = committed + Len(batch) + i

(* What SQLite holds is the committed prefix, and from the commit to its   *)
(* publication the batch as well.                                          *)
Storage ==
    /\ wpc \in Idle => batch = <<>> /\ durable = 1..committed
    /\ wpc = "committing" => batch # <<>> /\ durable = 1..committed
    /\ wpc = "publish" => batch # <<>> /\ durable = 1..(committed + Len(batch))
    /\ wpc \in Ended \cup {"failing"} =>
            durable \in {1..committed, 1..(committed + Len(batch))}

Ending ==
    /\ error => wpc \in Ended
    /\ wpc \in Ended /\ ~error => closing /\ pending = <<>> /\ batch = <<>>
    /\ closed => wpc = "done"

Promises ==
    /\ acked <= committed
    /\ \A c \in Callers : target[c] <= sequence
    /\ cleanClose => wpc = "done" /\ ~error

WriterInv == TypeOK /\ Accounting /\ Storage /\ Ending /\ Promises /\ NoLostWakeup

-----------------------------------------------------------------------------
LEMMA MaxOfTwo ==
    ASSUME NEW a \in Nat, NEW b \in Nat
    PROVE  Max({a, b}) = IF a < b THEN b ELSE a
<1>1. CASE a < b
    BY <1>1 DEF Max
<1>2. CASE ~(a < b)
    BY <1>2 DEF Max
<1>3. QED  BY <1>1, <1>2

LEMMA MinOfNaturals ==
    ASSUME NEW S, S \subseteq Nat, S # {}
    PROVE  Min(S) \in S /\ \A y \in S : Min(S) <= y
<1>1. PICK x \in S : \A y \in S : ~ (<<y, x>> \in OpToRel(<, Nat))
    BY NatLessThanWellFounded, WFMin
<1>2. \A y \in S : ~ (y < x)
    BY <1>1, Zenon DEF OpToRel
<1>3. \A y \in S : x <= y
    BY <1>2
<1>4. QED  BY <1>3 DEF Min

(* The deadline a dozing writer chooses is one of the queue's, and none is *)
(* earlier.                                                                *)
LEMMA EarliestDeadlineIsMin ==
    ASSUME pending \in Seq(Items), pending # <<>>
    PROVE  /\ EarliestDeadline \in Nat
           /\ \A i \in 1..Len(pending) : EarliestDeadline <= pending[i].deadline
<1> DEFINE D == {pending[i].deadline : i \in DOMAIN pending}
<1>1. DOMAIN pending = 1..Len(pending) /\ Len(pending) \in Nat /\ Len(pending) > 0
    BY EmptySeq, LenProperties
<1>2. \A i \in 1..Len(pending) : pending[i] \in Items
    BY ElementOfSeq
<1>3. D \subseteq Nat
    BY <1>1, <1>2 DEF Items
<1>4. D # {}
    <2>1. pending[1].deadline \in D
        BY <1>1
    <2> QED  BY <2>1
<1>5. Min(D) \in D /\ \A y \in D : Min(D) <= y
    <2> HIDE DEF D
    <2> QED  BY <1>3, <1>4, MinOfNaturals
<1>6. QED
    BY <1>1, <1>3, <1>5 DEF EarliestDeadline

LEMMA InitEstablishes == Init => WriterInv
<1> SUFFICES ASSUME Init PROVE WriterInv
    OBVIOUS
<1> USE HistoryWriterAssumption DEF Init
<1>0. pending = <<>> /\ batch = <<>> /\ Len(pending) = 0 /\ Len(batch) = 0
    BY EmptySeq
<1>1. TypeOK
    BY EmptySeq DEF TypeOK
<1>2. Accounting
    BY <1>0 DEF Accounting
<1>3. Storage
    BY <1>0 DEF Storage, Idle, Ended
<1>4. Ending /\ Promises /\ NoLostWakeup
    BY DEF Ending, Ended, Promises, NoLostWakeup
<1>5. QED  BY <1>1, <1>2, <1>3, <1>4 DEF WriterInv

-----------------------------------------------------------------------------
LEMMA AwakeTypes ==
    ASSUME TypeOK
    PROVE  /\ WriterAwake \in {"connect", "check", "committing", "publish",
                              "failing", "exit", "done"}
           /\ wpc \notin {"wait", "timed"} => WriterAwake = wpc
           /\ wpc \in {"wait", "timed"} => WriterAwake = "check"
           /\ CallersAwake \in [Callers -> {"idle", "woken", "joining"}]
BY DEF TypeOK, WriterAwake, CallersAwake

(* Only three actions touch the queue, the batch or the committed count.   *)
LEMMA QueueSteps ==
    ASSUME [Next]_vars
    PROVE  \/ \E size \in Sizes, isEvent, urgent \in BOOLEAN :
                    Submit(size, isEvent, urgent)
           \/ WriterTakes
           \/ WriterPublishes
           \/ UNCHANGED <<queueVars, committed, batch>>
<1> USE DEF quietVars, startVars, queueVars, policyVars, stateVars, diskVars
<1>1. CASE Constructor
    BY <1>1 DEF Constructor, ConstructorReturns, ConstructorTimesOut,
                ConstructorAbandons
<1>2. ASSUME NEW value \in BOOLEAN, SetPrudent(value)
      PROVE  UNCHANGED <<queueVars, committed, batch>>
    BY <1>2 DEF SetPrudent
<1>3. ASSUME NEW c \in Callers, Flush(c)
      PROVE  UNCHANGED <<queueVars, committed, batch>>
    BY <1>3 DEF Flush, FlushReturnsAtOnce, FlushBlocks, FlushReturns,
                FlushWaitsAgain, FlushRaises, FlushTimesOut
<1>4. ASSUME NEW c \in Callers, Close(c)
      PROVE  UNCHANGED <<queueVars, committed, batch>>
    BY <1>4 DEF Close, CloseReturnsAtOnce, CloseJoins, CloseReturns, CloseTimesOut
<1>5. ASSUME Writer, ~WriterTakes, ~WriterPublishes
      PROVE  UNCHANGED <<queueVars, committed, batch>>
    BY <1>5 DEF Writer, WriterConnects, WriterConnectFails, WriterStops, WriterWaits,
                WriterDozes, WriterWakes, WriterCommits, WriterCommitFails,
                WriterFails, WriterEnds
<1>6. CASE Tick
    BY <1>6 DEF Tick
<1>7. CASE UNCHANGED vars
    BY <1>7 DEF vars
<1>8. QED
    BY <1>1, <1>2, <1>3, <1>4, <1>5, <1>6, <1>7 DEF Next

(* What each of the three does to the two sequences.                       *)
LEMMA SubmitQueue ==
    ASSUME TypeOK, NEW size \in Sizes, NEW isEvent \in BOOLEAN,
           NEW urgent \in BOOLEAN, Submit(size, isEvent, urgent)
    PROVE  /\ pending' \in Seq(Items)
           /\ Len(pending') = Len(pending) + 1
           /\ \A i \in 1..Len(pending) : pending'[i] = pending[i]
           /\ pending'[Len(pending) + 1].seq = sequence + 1
<1> DEFINE item == [seq |-> sequence + 1, size |-> size,
             deadline |-> now + (IF isEvent THEN EventTicks ELSE BatchTicks)]
<1>1. item \in Items /\ item.seq = sequence + 1
    BY HistoryWriterAssumption DEF TypeOK, Items
<1>2. pending' = Append(pending, item) /\ pending \in Seq(Items)
    BY DEF Submit, TypeOK
<1> HIDE DEF item
<1>3. QED  BY <1>1, <1>2, AppendProperties

LEMMA TakeQueue ==
    ASSUME TypeOK, WriterTakes
    PROVE  /\ pending' \in Seq(Items) /\ batch' \in Seq(Items)
           /\ Len(batch') > 0
           /\ Len(batch') + Len(pending') = Len(pending)
           /\ \A i \in 1..Len(batch') : batch'[i] = pending[i]
           /\ \A i \in 1..Len(pending') : pending'[i] = pending[Len(batch') + i]
<1>1. pending \in Seq(Items) /\ pending # <<>>
    BY DEF TypeOK, WriterTakes
<1>2. Len(pending) \in Nat \ {0}
    BY <1>1, EmptySeq
<1>3. CASE batch' = <<Head(pending)>> /\ pending' = Tail(pending)
    <2>1. /\ Head(pending) \in Items
          /\ Tail(pending) \in Seq(Items)
          /\ Len(Tail(pending)) = Len(pending) - 1
          /\ \A i \in 1..Len(Tail(pending)) : Tail(pending)[i] = pending[i + 1]
        BY <1>1, HeadTailProperties
    <2>2. /\ <<Head(pending)>> \in Seq(Items) /\ Len(<<Head(pending)>>) = 1
          /\ <<Head(pending)>>[1] = pending[1]
        BY <1>1, <2>1
    <2>3. QED  BY <1>2, <1>3, <2>1, <2>2
<1>4. CASE batch' = pending /\ pending' = <<>>
    BY <1>1, <1>2, <1>4, EmptySeq
<1>5. QED
    BY <1>3, <1>4 DEF WriterTakes

LEMMA TypeStep == TypeOK /\ Accounting /\ Storage /\ [Next]_vars => TypeOK'
<1> SUFFICES ASSUME TypeOK, Accounting, Storage, [Next]_vars PROVE TypeOK'
    OBVIOUS
<1> USE HistoryWriterAssumption, AwakeTypes
    DEF quietVars, startVars, queueVars, policyVars, stateVars, diskVars, callerVars
<1>1. CASE Constructor
    BY <1>1 DEF TypeOK, Constructor, ConstructorReturns, ConstructorTimesOut,
                ConstructorAbandons, NotifyAll
<1>2. ASSUME NEW size \in Sizes, NEW isEvent \in BOOLEAN, NEW urgent \in BOOLEAN,
             Submit(size, isEvent, urgent)
      PROVE  TypeOK'
    <2>1. pending' \in Seq(Items)
        BY <1>2, SubmitQueue
    <2>2. flushThrough' \in Nat
        BY <1>2 DEF Submit, TypeOK
    <2>3. QED  BY <1>2, <2>1, <2>2 DEF TypeOK, Submit, NotifyAll
<1>3. ASSUME NEW value \in BOOLEAN, SetPrudent(value)
      PROVE  TypeOK'
    BY <1>3 DEF TypeOK, SetPrudent, NotifyAll
<1>4. ASSUME NEW c \in Callers, Flush(c)
      PROVE  TypeOK'
    <2>1. CASE FlushReturnsAtOnce(c)
        <3>1. flushThrough' \in Nat /\ acked' \in Nat
            BY <2>1, MaxOfTwo DEF FlushReturnsAtOnce, TypeOK
        <3>2. QED  BY <2>1, <3>1 DEF TypeOK, FlushReturnsAtOnce, NotifyAll
    <2>2. CASE FlushBlocks(c)
        <3>1. flushThrough' \in Nat
            BY <2>2, MaxOfTwo DEF FlushBlocks, TypeOK
        <3>2. QED  BY <2>2, <3>1 DEF TypeOK, FlushBlocks
    <2>3. CASE FlushReturns(c)
        <3>1. acked' \in Nat
            <4>1. target[c] \in Nat /\ acked \in Nat
                BY DEF TypeOK
            <4>2. QED  BY <2>3, <4>1, MaxOfTwo DEF FlushReturns
        <3>2. QED  BY <2>3, <3>1 DEF TypeOK, FlushReturns
    <2>4. CASE FlushWaitsAgain(c)
        BY <2>4 DEF TypeOK, FlushWaitsAgain
    <2>5. CASE FlushRaises(c)
        BY <2>5 DEF TypeOK, FlushRaises
    <2>6. CASE FlushTimesOut(c)
        BY <2>6 DEF TypeOK, FlushTimesOut
    <2>7. QED  BY <1>4, <2>1, <2>2, <2>3, <2>4, <2>5, <2>6 DEF Flush
<1>5. ASSUME NEW c \in Callers, Close(c)
      PROVE  TypeOK'
    <2>1. CASE CloseReturnsAtOnce(c)
        BY <2>1 DEF TypeOK, CloseReturnsAtOnce
    <2>2. CASE CloseJoins(c)
        BY <2>2 DEF TypeOK, CloseJoins
    <2>3. CASE CloseReturns(c)
        BY <2>3 DEF TypeOK, CloseReturns
    <2>4. CASE CloseTimesOut(c)
        BY <2>4 DEF TypeOK, CloseTimesOut
    <2>5. QED  BY <1>5, <2>1, <2>2, <2>3, <2>4 DEF Close
<1>6. CASE WriterDozes
    <2>1. wakeAt' \in Nat
        BY <1>6, EarliestDeadlineIsMin DEF WriterDozes, TypeOK
    <2>2. QED  BY <1>6, <2>1 DEF TypeOK, WriterDozes
<1>7. CASE WriterTakes
    <2>1. pending' \in Seq(Items) /\ batch' \in Seq(Items)
        BY <1>7, TakeQueue
    <2>2. QED  BY <1>7, <2>1 DEF TypeOK, WriterTakes
<1>8. CASE WriterCommits \/ WriterCommitFails
    <2>1. Numbers(batch) \subseteq Nat
        <3>1. \A i \in DOMAIN batch : batch[i] \in Items
            BY ElementOfSeq, LenProperties DEF TypeOK
        <3>2. QED  BY <3>1 DEF Numbers, Items
    <2>2. durable' \subseteq Nat
        BY <1>8, <2>1 DEF TypeOK, WriterCommits, WriterCommitFails
    <2>3. QED
        BY <1>8, <2>2 DEF TypeOK, WriterCommits, WriterCommitFails
<1>9. CASE WriterPublishes
    <2>1. Len(batch) \in Nat /\ Len(pending) \in Nat
        BY LenProperties DEF TypeOK
    <2>2. pendingRecords' \in Nat
        BY <1>9, <2>1 DEF WriterPublishes, Accounting, TypeOK
    <2>3. batch # <<>>
        BY <1>9 DEF WriterPublishes, Storage
    <2>4. batch[Len(batch)] \in Items
        BY <2>3, EmptySeq, ElementOfSeq DEF TypeOK
    <2>5. committed' \in Nat
        BY <1>9, <2>4 DEF WriterPublishes, LastOfBatch, Items
    <2>6. batch' \in Seq(Items)
        BY <1>9 DEF WriterPublishes
    <2>7. QED
        BY <1>9, <2>2, <2>5, <2>6 DEF TypeOK, WriterPublishes
<1>10. CASE WriterConnects \/ WriterConnectFails
    BY <1>10 DEF TypeOK, WriterConnects, WriterConnectFails
<1>11. CASE WriterStops \/ WriterWaits \/ WriterWakes
    BY <1>11 DEF TypeOK, WriterStops, WriterWaits, WriterWakes
<1>12. CASE WriterFails \/ WriterEnds
    BY <1>12 DEF TypeOK, WriterFails, WriterEnds
<1>13. CASE Tick
    BY <1>13 DEF TypeOK, Tick
<1>14. CASE UNCHANGED vars
    BY <1>14 DEF TypeOK, vars
<1>15. QED
    BY <1>1, <1>2, <1>3, <1>4, <1>5, <1>6, <1>7, <1>8, <1>9, <1>10, <1>11, <1>12,
       <1>13, <1>14 DEF Next, Writer

LEMMA AccountingStep == TypeOK /\ Accounting /\ Storage /\ [Next]_vars => Accounting'
<1> SUFFICES ASSUME TypeOK, Accounting, Storage, [Next]_vars PROVE Accounting'
    OBVIOUS
<1>0. /\ Len(pending) \in Nat /\ Len(batch) \in Nat
      /\ committed \in Nat /\ sequence \in Nat
    BY LenProperties DEF TypeOK
<1>1. ASSUME NEW size \in Sizes, NEW isEvent \in BOOLEAN, NEW urgent \in BOOLEAN,
             Submit(size, isEvent, urgent)
      PROVE  Accounting'
    <2>1. /\ sequence' = sequence + 1 /\ pendingRecords' = pendingRecords + 1
          /\ pendingRecords < MaxPendingRecords
          /\ committed' = committed /\ batch' = batch
        BY <1>1 DEF Submit, HasRoom, diskVars
    <2>2. /\ Len(pending') = Len(pending) + 1
          /\ \A i \in 1..Len(pending) : pending'[i] = pending[i]
          /\ pending'[Len(pending) + 1].seq = sequence + 1
        BY <1>1, SubmitQueue
    <2>3. ASSUME NEW i \in 1..Len(pending')
          PROVE  pending'[i].seq = committed + Len(batch) + i
        <3>1. CASE i \in 1..Len(pending)
            BY <2>2, <3>1 DEF Accounting
        <3>2. CASE i = Len(pending) + 1
            BY <1>0, <2>2, <3>2 DEF Accounting
        <3>3. QED  BY <1>0, <2>2, <3>1, <3>2
    <2>4. /\ sequence' = committed' + Len(batch') + Len(pending')
          /\ pendingRecords' = Len(pending') + Len(batch')
          /\ pendingRecords' <= MaxPendingRecords
        BY <1>0, <2>1, <2>2, HistoryWriterAssumption DEF Accounting
    <2>5. QED
        BY <2>1, <2>3, <2>4 DEF Accounting
<1>2. CASE WriterTakes
    <2>1. /\ sequence' = sequence /\ pendingRecords' = pendingRecords
          /\ committed' = committed /\ batch = <<>> /\ Len(batch) = 0
        BY <1>2, EmptySeq DEF WriterTakes, Storage, Idle
    <2>2. Len(pending') \in Nat /\ Len(batch') \in Nat
        BY <1>2, TakeQueue, LenProperties
    <2>3. /\ Len(batch') + Len(pending') = Len(pending)
          /\ \A i \in 1..Len(batch') : batch'[i] = pending[i]
          /\ \A i \in 1..Len(pending') : pending'[i] = pending[Len(batch') + i]
        BY <1>2, TakeQueue
    <2> DEFINE b == Len(batch)
    <2>4. b = 0 /\ \A i \in 1..Len(pending) : pending[i].seq = committed + b + i
        BY <2>1 DEF Accounting
    <2> HIDE DEF b
    <2>5. \A i \in 1..Len(pending) : pending[i].seq = committed + i
        BY <1>0, <2>4
    <2>6. ASSUME NEW i \in 1..Len(batch')
          PROVE  batch'[i].seq = committed + i
        <3>1. i \in 1..Len(pending)
            BY <1>0, <2>2, <2>3
        <3>2. QED  BY <2>3, <2>5, <3>1
    <2>7. ASSUME NEW i \in 1..Len(pending')
          PROVE  pending'[i].seq = committed + Len(batch') + i
        <3>1. Len(batch') + i \in 1..Len(pending)
            BY <1>0, <2>2, <2>3
        <3>2. QED  BY <1>0, <2>2, <2>3, <2>5, <3>1
    <2>8. /\ sequence' = committed' + Len(batch') + Len(pending')
          /\ pendingRecords' = Len(pending') + Len(batch')
          /\ pendingRecords' <= MaxPendingRecords
        <3>1. /\ sequence = committed + Len(pending)
              /\ pendingRecords = Len(pending)
              /\ pendingRecords <= MaxPendingRecords
            BY <1>0, <2>4 DEF Accounting, b
        <3>2. QED  BY <1>0, <2>1, <2>2, <2>3, <3>1
    <2>9. QED
        BY <2>1, <2>6, <2>7, <2>8 DEF Accounting
<1>3. CASE WriterPublishes
    <2>1. batch # <<>> /\ Len(batch) > 0
        BY <1>3, <1>0, EmptySeq DEF WriterPublishes, Storage, TypeOK
    <2>2. committed' = committed + Len(batch)
        BY <1>0, <1>3, <2>1 DEF WriterPublishes, LastOfBatch, Accounting
    <2>3. batch' = <<>> /\ Len(batch') = 0
        BY <1>3, EmptySeq DEF WriterPublishes
    <2>4. /\ pending' = pending /\ sequence' = sequence
          /\ pendingRecords' = pendingRecords - Len(batch)
        BY <1>3 DEF WriterPublishes
    <2>5. QED
        BY <1>0, <2>2, <2>3, <2>4, HistoryWriterAssumption DEF Accounting
<1>4. CASE UNCHANGED <<queueVars, committed, batch>>
    BY <1>4 DEF Accounting, queueVars
<1>5. QED
    BY <1>1, <1>2, <1>3, <1>4, QueueSteps

(* The rows of a batch carry the numbers that follow the committed ones.   *)
LEMMA BatchNumbers ==
    ASSUME TypeOK, Accounting
    PROVE  1..committed \cup Numbers(batch) = 1..(committed + Len(batch))
<1>1. Len(batch) \in Nat /\ committed \in Nat /\ DOMAIN batch = 1..Len(batch)
    BY LenProperties DEF TypeOK
<1>2. Numbers(batch) = {committed + i : i \in 1..Len(batch)}
    BY <1>1 DEF Numbers, Accounting
<1>3. \A n \in (committed + 1)..(committed + Len(batch)) :
            n - committed \in 1..Len(batch) /\ n = committed + (n - committed)
    BY <1>1
<1>4. ASSUME NEW n
      PROVE  n \in {committed + i : i \in 1..Len(batch)}
                <=> n \in (committed + 1)..(committed + Len(batch))
    <2>1. CASE n \in (committed + 1)..(committed + Len(batch))
        BY <1>3, <2>1
    <2>2. ASSUME NEW i \in 1..Len(batch), n = committed + i
          PROVE  n \in (committed + 1)..(committed + Len(batch))
        BY <1>1, <2>2
    <2>3. QED  BY <2>1, <2>2
<1>5. QED
    BY <1>1, <1>2, <1>4

LEMMA StorageStep == TypeOK /\ Accounting /\ Storage /\ [Next]_vars => Storage'
<1> SUFFICES ASSUME TypeOK, Accounting, Storage, [Next]_vars PROVE Storage'
    OBVIOUS
<1> USE DEF Idle, Ended
<1>0. Len(batch) \in Nat /\ committed \in Nat
    BY LenProperties DEF TypeOK
<1>1. ASSUME WriterAwake = wpc' \/ wpc' = wpc, UNCHANGED <<committed, batch, durable>>
      PROVE  Storage'
    BY <1>1 DEF Storage, WriterAwake
<1>2. CASE Constructor
    BY <1>1, <1>2 DEF Constructor, ConstructorReturns, ConstructorTimesOut,
                      ConstructorAbandons, NotifyAll, diskVars
<1>3. ASSUME NEW size \in Sizes, NEW isEvent \in BOOLEAN, NEW urgent \in BOOLEAN,
             Submit(size, isEvent, urgent)
      PROVE  Storage'
    BY <1>1, <1>3 DEF Submit, NotifyAll, diskVars
<1>4. ASSUME NEW value \in BOOLEAN, SetPrudent(value)
      PROVE  Storage'
    BY <1>1, <1>4 DEF SetPrudent, NotifyAll, diskVars
<1>5. ASSUME NEW c \in Callers, Flush(c)
      PROVE  Storage'
    BY <1>1, <1>5 DEF Flush, FlushReturnsAtOnce, FlushBlocks, FlushReturns,
                FlushWaitsAgain, FlushRaises, FlushTimesOut, NotifyAll, diskVars,
                quietVars
<1>6. ASSUME NEW c \in Callers, Close(c)
      PROVE  Storage'
    BY <1>1, <1>6 DEF Close, CloseReturnsAtOnce, CloseJoins, CloseReturns,
                CloseTimesOut, NotifyAll, diskVars, quietVars
<1>7. CASE WriterConnects \/ WriterConnectFails
    BY <1>7 DEF WriterConnects, WriterConnectFails, Storage, diskVars, quietVars
<1>8. CASE WriterStops \/ WriterWaits \/ WriterDozes \/ WriterWakes
    BY <1>8 DEF WriterStops, WriterWaits, WriterDozes, WriterWakes, Storage, diskVars,
                quietVars
<1>9. CASE WriterTakes
    <2>1. batch' # <<>>
        BY <1>9, TakeQueue, EmptySeq
    <2>2. QED  BY <1>9, <2>1 DEF WriterTakes, Storage
<1>10. CASE WriterCommits
    BY <1>10, BatchNumbers DEF WriterCommits, Storage
<1>11. CASE WriterCommitFails
    BY <1>11, BatchNumbers DEF WriterCommitFails, Storage
<1>12. CASE WriterPublishes
    <2>1. batch # <<>> /\ Len(batch) > 0 /\ durable = 1..(committed + Len(batch))
        BY <1>12, <1>0, EmptySeq DEF WriterPublishes, Storage, TypeOK
    <2>2. committed' = committed + Len(batch)
        BY <1>0, <1>12, <2>1 DEF WriterPublishes, LastOfBatch, Accounting
    <2>3. QED  BY <1>12, <2>1, <2>2 DEF WriterPublishes, Storage
<1>13. CASE WriterFails \/ WriterEnds
    BY <1>13 DEF WriterFails, WriterEnds, Storage, diskVars
<1>14. CASE Tick \/ UNCHANGED vars
    BY <1>1, <1>14 DEF Tick, vars, quietVars, diskVars
<1>15. QED
    BY <1>2, <1>3, <1>4, <1>5, <1>6, <1>7, <1>8, <1>9, <1>10, <1>11, <1>12, <1>13,
       <1>14 DEF Next, Writer

LEMMA EndingStep == TypeOK /\ Storage /\ Ending /\ [Next]_vars => Ending'
<1> SUFFICES ASSUME TypeOK, Storage, Ending, [Next]_vars PROVE Ending'
    OBVIOUS
<1> USE DEF Ended, Idle, quietVars, startVars, queueVars, policyVars, stateVars, diskVars
<1>1. ASSUME wpc' = wpc \/ wpc' = WriterAwake, UNCHANGED <<error, closed, queueVars, batch>>,
             closing => closing'
      PROVE  Ending'
    BY <1>1 DEF Ending, WriterAwake
<1>2. CASE Constructor
    BY <1>1, <1>2 DEF Constructor, ConstructorReturns, ConstructorTimesOut,
                      ConstructorAbandons, NotifyAll
<1>3. ASSUME NEW size \in Sizes, NEW isEvent \in BOOLEAN, NEW urgent \in BOOLEAN,
             Submit(size, isEvent, urgent)
      PROVE  Ending'
    BY <1>3 DEF Submit, NotifyAll, CheckOpen, WriterAwake, Ending
<1>4. ASSUME NEW value \in BOOLEAN, SetPrudent(value)
      PROVE  Ending'
    BY <1>1, <1>4 DEF SetPrudent, NotifyAll
<1>5. ASSUME NEW c \in Callers, Flush(c)
      PROVE  Ending'
    BY <1>1, <1>5 DEF Flush, FlushReturnsAtOnce, FlushBlocks, FlushReturns,
                FlushWaitsAgain, FlushRaises, FlushTimesOut, NotifyAll
<1>6. ASSUME NEW c \in Callers, Close(c)
      PROVE  Ending'
    BY <1>1, <1>6 DEF Close, CloseReturnsAtOnce, CloseJoins, CloseReturns,
                CloseTimesOut
<1>7. CASE WriterConnects \/ WriterConnectFails \/ WriterWaits \/ WriterDozes
                \/ WriterWakes
    BY <1>7 DEF WriterConnects, WriterConnectFails, WriterWaits, WriterDozes,
                WriterWakes, Ending
<1>8. CASE WriterStops
    BY <1>8 DEF WriterStops, Ending, Storage
<1>9. CASE WriterTakes
    BY <1>9 DEF WriterTakes, Ending
<1>10. CASE WriterCommits \/ WriterCommitFails \/ WriterPublishes
    BY <1>10 DEF WriterCommits, WriterCommitFails, WriterPublishes, Ending
<1>11. CASE WriterFails \/ WriterEnds
    BY <1>11 DEF WriterFails, WriterEnds, Ending
<1>12. CASE Tick \/ UNCHANGED vars
    BY <1>1, <1>12 DEF Tick, vars
<1>13. QED
    BY <1>2, <1>3, <1>4, <1>5, <1>6, <1>7, <1>8, <1>9, <1>10, <1>11, <1>12
       DEF Next, Writer

LEMMA PromisesStep ==
    TypeOK /\ Accounting /\ Storage /\ Ending /\ Promises /\ [Next]_vars => Promises'
<1> SUFFICES ASSUME TypeOK, Accounting, Storage, Ending, Promises, [Next]_vars
             PROVE  Promises'
    OBVIOUS
<1> USE DEF Ended, quietVars, startVars, queueVars, policyVars, stateVars, diskVars,
            callerVars
<1>0. /\ Len(pending) \in Nat /\ Len(batch) \in Nat
      /\ committed \in Nat /\ sequence \in Nat /\ acked \in Nat
      /\ \A c \in Callers : target[c] \in Nat
    BY LenProperties DEF TypeOK
<1>1. ASSUME wpc' = wpc \/ wpc' = WriterAwake, sequence' >= sequence,
             sequence' \in Nat, UNCHANGED <<committed, callerVars, error>>
      PROVE  Promises'
    BY <1>0, <1>1 DEF Promises, WriterAwake
<1>2. CASE Constructor
    BY <1>0, <1>1, <1>2 DEF Constructor, ConstructorReturns, ConstructorTimesOut,
                      ConstructorAbandons, NotifyAll
<1>3. ASSUME NEW size \in Sizes, NEW isEvent \in BOOLEAN, NEW urgent \in BOOLEAN,
             Submit(size, isEvent, urgent)
      PROVE  Promises'
    BY <1>0, <1>1, <1>3 DEF Submit, NotifyAll
<1>4. ASSUME NEW value \in BOOLEAN, SetPrudent(value)
      PROVE  Promises'
    BY <1>0, <1>1, <1>4 DEF SetPrudent, NotifyAll
<1>5. ASSUME NEW c \in Callers, Flush(c)
      PROVE  Promises'
    <2>1. CASE FlushReturnsAtOnce(c)
        <3>1. acked' <= committed
            BY <1>0, <2>1, MaxOfTwo DEF FlushReturnsAtOnce, Promises
        <3>2. QED
            BY <2>1, <3>1 DEF FlushReturnsAtOnce, Promises, NotifyAll, WriterAwake
    <2>2. CASE FlushBlocks(c)
        <3>1. \A d \in Callers : target'[d] <= sequence
            BY <1>0, <2>2 DEF FlushBlocks, Promises, TypeOK
        <3>2. QED
            BY <2>2, <3>1 DEF FlushBlocks, Promises, WriterAwake
    <2>3. CASE FlushReturns(c)
        <3>1. acked' <= committed
            <4>1. target[c] \in Nat
                BY <1>0
            <4>2. QED  BY <1>0, <2>3, <4>1, MaxOfTwo DEF FlushReturns, Promises
        <3>2. QED
            BY <2>3, <3>1 DEF FlushReturns, Promises
    <2>4. CASE FlushWaitsAgain(c) \/ FlushRaises(c) \/ FlushTimesOut(c)
        BY <1>0, <1>1, <2>4 DEF FlushWaitsAgain, FlushRaises, FlushTimesOut
    <2>5. QED  BY <1>5, <2>1, <2>2, <2>3, <2>4 DEF Flush
<1>6. ASSUME NEW c \in Callers, Close(c)
      PROVE  Promises'
    <2>1. CASE CloseReturnsAtOnce(c)
        BY <2>1 DEF CloseReturnsAtOnce, Promises, Ending
    <2>2. CASE CloseJoins(c)
        BY <1>0, <1>1, <2>2 DEF CloseJoins
    <2>3. CASE CloseReturns(c)
        BY <2>3 DEF CloseReturns, Promises
    <2>4. CASE CloseTimesOut(c)
        BY <1>0, <1>1, <2>4 DEF CloseTimesOut
    <2>5. QED  BY <1>6, <2>1, <2>2, <2>3, <2>4 DEF Close
<1>7. CASE WriterConnects \/ WriterConnectFails \/ WriterStops \/ WriterWaits
                \/ WriterDozes \/ WriterWakes \/ WriterTakes \/ WriterCommits
                \/ WriterCommitFails
    BY <1>7 DEF WriterConnects, WriterConnectFails, WriterStops, WriterWaits,
                WriterDozes, WriterWakes, WriterTakes, WriterCommits,
                WriterCommitFails, Promises
<1>8. CASE WriterPublishes
    <2>1. batch # <<>>
        BY <1>8 DEF WriterPublishes, Storage
    <2>2. Len(batch) > 0
        BY <1>0, <2>1, EmptySeq DEF TypeOK
    <2>3. committed' = committed + Len(batch)
        BY <1>0, <1>8, <2>2 DEF WriterPublishes, LastOfBatch, Accounting
    <2>4. QED
        BY <1>0, <1>8, <2>2, <2>3 DEF WriterPublishes, Promises
<1>9. CASE WriterFails \/ WriterEnds
    BY <1>9 DEF WriterFails, WriterEnds, Promises
<1>10. CASE Tick \/ UNCHANGED vars
    BY <1>0, <1>1, <1>10 DEF Tick, vars
<1>11. QED
    BY <1>2, <1>3, <1>4, <1>5, <1>6, <1>7, <1>8, <1>9, <1>10 DEF Next, Writer

(* No step leaves a thread asleep that has work to do.                     *)
LEMMA WakeupStep == TypeOK /\ NoLostWakeup /\ [Next]_vars => NoLostWakeup'
<1> SUFFICES ASSUME TypeOK, NoLostWakeup, [Next]_vars PROVE NoLostWakeup'
    OBVIOUS
<1> USE DEF quietVars, startVars, queueVars, policyVars, stateVars, diskVars,
            callerVars
<1> DEFINE Asleep(c) == pc[c] = "flushing" => committed < target[c] /\ ~error
<1>1. ASSUME wpc' \notin {"wait", "timed"}, \A c \in Callers : Asleep(c)'
      PROVE  NoLostWakeup'
    BY <1>1 DEF NoLostWakeup
<1>2. ASSUME NotifyAll
      PROVE  NoLostWakeup'
    BY <1>1, <1>2 DEF NotifyAll, WriterAwake, CallersAwake
<1>3. ASSUME UNCHANGED <<wpc, wakeAt, pending, pendingBytes, prudent, closing,
                         flushThrough, committed, target, error>>,
             \A c \in Callers : pc'[c] = pc[c] \/ Asleep(c)'
      PROVE  NoLostWakeup'
    BY <1>3 DEF NoLostWakeup, Immediate
<1>4. CASE Constructor
    BY <1>2, <1>3, <1>4 DEF Constructor, ConstructorReturns, ConstructorTimesOut,
                            ConstructorAbandons
<1>5. ASSUME NEW size \in Sizes, NEW isEvent \in BOOLEAN, NEW urgent \in BOOLEAN,
             Submit(size, isEvent, urgent)
      PROVE  NoLostWakeup'
    BY <1>2, <1>5 DEF Submit
<1>6. ASSUME NEW value \in BOOLEAN, SetPrudent(value)
      PROVE  NoLostWakeup'
    BY <1>2, <1>6 DEF SetPrudent
<1>7. ASSUME NEW c \in Callers, Flush(c)
      PROVE  NoLostWakeup'
    <2>1. CASE FlushReturnsAtOnce(c)
        BY <1>2, <2>1 DEF FlushReturnsAtOnce
    <2>2. CASE FlushBlocks(c)
        <3>1. wpc' \notin {"wait", "timed"}
            BY <2>2 DEF FlushBlocks, WriterAwake
        <3>2. \A d \in Callers : Asleep(d)'
            BY <2>2, AwakeTypes DEF FlushBlocks, CallersAwake, TypeOK
        <3>3. QED  BY <1>1, <3>1, <3>2
    <2>3. CASE FlushReturns(c)
        BY <1>3, <2>3 DEF FlushReturns, TypeOK
    <2>4. CASE FlushWaitsAgain(c)
        BY <1>3, <2>4 DEF FlushWaitsAgain, TypeOK
    <2>5. CASE FlushRaises(c) \/ FlushTimesOut(c)
        BY <1>3, <2>5 DEF FlushRaises, FlushTimesOut, TypeOK
    <2>6. QED  BY <1>7, <2>1, <2>2, <2>3, <2>4, <2>5 DEF Flush
<1>8. ASSUME NEW c \in Callers, Close(c)
      PROVE  NoLostWakeup'
    <2>1. CASE CloseReturnsAtOnce(c)
        BY <1>3, <2>1 DEF CloseReturnsAtOnce
    <2>2. CASE CloseJoins(c)
        <3>1. wpc' \notin {"wait", "timed"}
            BY <2>2 DEF CloseJoins, WriterAwake
        <3>2. \A d \in Callers : Asleep(d)'
            BY <2>2, AwakeTypes DEF CloseJoins, CallersAwake, TypeOK
        <3>3. QED  BY <1>1, <3>1, <3>2
    <2>3. CASE CloseReturns(c) \/ CloseTimesOut(c)
        BY <1>3, <2>3 DEF CloseReturns, CloseTimesOut, TypeOK
    <2>4. QED  BY <1>8, <2>1, <2>2, <2>3 DEF Close
<1>9. CASE WriterConnects \/ WriterConnectFails \/ WriterStops \/ WriterWakes
            \/ WriterTakes \/ WriterCommits \/ WriterCommitFails
    BY <1>1, <1>9 DEF WriterConnects, WriterConnectFails, WriterStops, WriterWakes,
                WriterTakes, WriterCommits, WriterCommitFails, NoLostWakeup
<1>10. CASE WriterWaits
    BY <1>10 DEF WriterWaits, NoLostWakeup
<1>11. CASE WriterDozes
    <2>1. pending \in Seq(Items) /\ pending # <<>>
        BY <1>11 DEF WriterDozes, TypeOK
    <2>2. \A i \in DOMAIN pending : wakeAt' <= pending[i].deadline
        BY <1>11, <2>1, EarliestDeadlineIsMin, LenProperties DEF WriterDozes
    <2>3. QED
        BY <1>11, <2>2 DEF WriterDozes, NoLostWakeup, Immediate
<1>12. CASE WriterPublishes \/ WriterFails \/ WriterEnds
    BY <1>1, <1>12 DEF WriterPublishes, WriterFails, WriterEnds, CallersAwake
<1>13. CASE Tick \/ UNCHANGED vars
    BY <1>3, <1>13 DEF Tick, vars
<1>14. QED
    BY <1>4, <1>5, <1>6, <1>7, <1>8, <1>9, <1>10, <1>11, <1>12, <1>13
       DEF Next, Writer

LEMMA InductiveStep == WriterInv /\ [Next]_vars => WriterInv'
BY TypeStep, AccountingStep, StorageStep, EndingStep, PromisesStep, WakeupStep DEF WriterInv

(* The invariant the other theorems follow from.                           *)
THEOREM Invariance == Spec => []WriterInv
BY InitEstablishes, InductiveStep, PTL DEF Spec

-----------------------------------------------------------------------------
(* Every variable of the writer keeps its type.                            *)
THEOREM TypeCorrect == Spec => []TypeOK
<1>1. WriterInv => TypeOK
    BY DEF WriterInv
<1>2. QED  BY <1>1, Invariance, PTL

LEMMA DurableBounds ==
    ASSUME WriterInv
    PROVE  /\ committed \in Nat /\ Len(batch) \in Nat /\ Len(pending) \in Nat
           /\ durable = 1..committed \/ durable = 1..(committed + Len(batch))
<1>1. committed \in Nat /\ Len(batch) \in Nat /\ Len(pending) \in Nat
    BY LenProperties DEF WriterInv, TypeOK
<1>2. QED
    BY <1>1 DEF WriterInv, TypeOK, Storage, Idle, Ended

(* A flush that returned speaks of records SQLite has: what flush() may    *)
(* report, in every interleaving of callers, writer and failures.          *)
THEOREM FlushIsHonest == Spec => []FlushedIsDurable
<1>1. WriterInv => FlushedIsDurable
    <2> SUFFICES ASSUME WriterInv PROVE FlushedIsDurable
        OBVIOUS
    <2>1. acked \in Nat /\ acked <= committed
        BY DEF WriterInv, TypeOK, Promises
    <2>2. QED  BY <2>1, DurableBounds DEF FlushedIsDurable
<1>2. QED  BY <1>1, Invariance, PTL

(* A clean close() left nothing behind.                                    *)
THEOREM CloseIsComplete == Spec => []CleanCloseIsComplete
<1>1. WriterInv => CleanCloseIsComplete
    <2> SUFFICES ASSUME WriterInv, cleanClose
                 PROVE  durable = 1..sequence /\ pending = <<>>
        BY DEF CleanCloseIsComplete
    <2>1. pending = <<>> /\ batch = <<>>
        BY DEF WriterInv, Promises, Ending, Ended
    <2>2. Len(pending) = 0 /\ Len(batch) = 0
        BY <2>1, EmptySeq
    <2>3. sequence = committed
        BY <2>2, DurableBounds DEF WriterInv, Accounting
    <2>4. QED  BY <2>1, <2>2, <2>3, DurableBounds
<1>2. QED  BY <1>1, Invariance, PTL

(* At every instant a crash would preserve a prefix of what was accepted,  *)
(* the acknowledged records included.                                      *)
THEOREM CrashKeepsPrefix == Spec => []DurableIsPrefix
<1>1. WriterInv => DurableIsPrefix
    <2> SUFFICES ASSUME WriterInv PROVE DurableIsPrefix
        OBVIOUS
    <2>1. sequence = committed + Len(batch) + Len(pending)
        BY DEF WriterInv, Accounting
    <2>2. committed \in committed..sequence
          /\ committed + Len(batch) \in committed..sequence
        BY <2>1, DurableBounds
    <2>3. QED  BY <2>2, DurableBounds DEF DurableIsPrefix
<1>2. QED  BY <1>1, Invariance, PTL

(* No accepted record leaves memory before SQLite has it, whatever fails   *)
(* (TelemetryWriter._run).                                                 *)
THEOREM NothingIsForgotten == Spec => []NothingForgotten
<1>1. WriterInv => NothingForgotten
    <2> SUFFICES ASSUME WriterInv, NEW n \in 1..sequence PROVE n \in durable \cup InFlight
        BY DEF NothingForgotten
    <2>1. /\ committed \in Nat /\ sequence \in Nat /\ Len(batch) \in Nat /\ Len(pending) \in Nat
          /\ sequence = committed + Len(batch) + Len(pending)
          /\ DOMAIN batch = 1..Len(batch) /\ DOMAIN pending = 1..Len(pending)
        BY LenProperties DEF WriterInv, TypeOK, Accounting
    <2>2. CASE n <= committed
        BY <2>1, <2>2, DurableBounds
    <2>3. CASE committed < n /\ n <= committed + Len(batch)
        <3>1. n - committed \in DOMAIN batch /\ batch[n - committed].seq = n
            BY <2>1, <2>3 DEF WriterInv, Accounting
        <3>2. QED  BY <3>1 DEF InFlight, Numbers
    <2>4. CASE committed + Len(batch) < n
        <3> DEFINE i == n - committed - Len(batch)
        <3>1. i \in DOMAIN pending /\ committed + Len(batch) + i = n
            BY <2>1, <2>4
        <3>2. pending[i].seq = n
            BY <2>1, <3>1 DEF WriterInv, Accounting
        <3> HIDE DEF i
        <3>3. QED  BY <3>1, <3>2 DEF InFlight, Numbers
    <2>5. QED  BY <2>1, <2>2, <2>3, <2>4
<1>2. QED  BY <1>1, Invariance, PTL

(* The writer never sleeps past a deadline, and nobody sleeps on a change  *)
(* it should have been told of.                                            *)
THEOREM NobodyOversleeps == Spec => []NoLostWakeup
<1>1. WriterInv => NoLostWakeup
    BY DEF WriterInv
<1>2. QED  BY <1>1, Invariance, PTL

-----------------------------------------------------------------------------
(***************************************************************************)
(* What a queue weighs.  Bytes is a recursive sum (MapThenSumSet), and it   *)
(* is related here to a count: the sum of f over s is the number of its    *)
(* units, the pairs <<x, k>> with x in s and k in 1..f[x].  The inductions *)
(* over s are by a smallest counterexample.                                *)
(***************************************************************************)
Units(f, s) == {u \in s \X Nat : 1 <= u[2] /\ u[2] <= f[u[1]]}

(* Among subsets of a finite set one contains no other.                    *)
LEMMA MinimalSubset ==
    ASSUME NEW S, IsFiniteSet(S), NEW F, F \subseteq SUBSET S, F # {}
    PROVE  \E X \in F : \A Y \in F : Y \subseteq X => Y = X
<1>1. F \subseteq FiniteSubsetsOf(S)
    BY FS_FiniteSubsetsOfFinite
<1>2. IsWellFoundedOn(StrictSubsetOrdering(S), FiniteSubsetsOf(S))
    BY FS_StrictSubsetOrderingWellFounded
<1>3. PICK X \in F : \A Y \in F : ~ (<<Y, X>> \in StrictSubsetOrdering(S))
    BY <1>1, <1>2, WFMin
<1>4. \A Y \in F : Y \subseteq X => Y = X
    BY <1>3 DEF StrictSubsetOrdering
<1>5. QED  BY <1>4

(* A single x has f[x] units, ...                                          *)
LEMMA UnitsOfOne ==
    ASSUME NEW x, NEW n \in Nat
    PROVE  /\ IsFiniteSet({u \in {x} \X Nat : 1 <= u[2] /\ u[2] <= n})
           /\ Cardinality({u \in {x} \X Nat : 1 <= u[2] /\ u[2] <= n}) = n
<1> DEFINE U == {u \in {x} \X Nat : 1 <= u[2] /\ u[2] <= n}
<1>1. IsFiniteSet(1 .. n) /\ Cardinality(1 .. n) = n
    BY FS_Interval
<1>2. IsFiniteSet({x}) /\ Cardinality({x}) = 1
    BY FS_Singleton
<1>3. IsFiniteSet({x} \X (1 .. n)) /\ Cardinality({x} \X (1 .. n)) = 1 * n
    BY <1>1, <1>2, FS_Product
<1>4. U = {x} \X (1 .. n)
    OBVIOUS
<1>5. IsFiniteSet(U) /\ Cardinality(U) = n
    <2> HIDE DEF U
    <2>1. QED  BY <1>3, <1>4
<1>6. QED  BY <1>5

(* ... taking an element away takes its units away, ...                    *)
LEMMA UnitsWithout ==
    ASSUME NEW s, NEW x \in s, NEW f, f[x] \in Nat,
           IsFiniteSet(Units(f, s \ {x}))
    PROVE  /\ IsFiniteSet(Units(f, s))
           /\ Cardinality(Units(f, s)) = f[x] + Cardinality(Units(f, s \ {x}))
<1> DEFINE U == {u \in {x} \X Nat : 1 <= u[2] /\ u[2] <= f[x]}
           R == Units(f, s \ {x})
<1>1. IsFiniteSet(U) /\ Cardinality(U) = f[x]
    BY UnitsOfOne
<1>2. Units(f, s) = U \cup R /\ U \cap R = {}
    BY DEF Units
<1>3. IsFiniteSet(R)
    OBVIOUS
<1> HIDE DEF U, R
<1>4. Cardinality(R) \in Nat
    BY <1>3, FS_CardinalityType
<1>5. /\ IsFiniteSet(U \cup R)
      /\ Cardinality(U \cup R) = Cardinality(U) + Cardinality(R) - Cardinality(U \cap R)
    BY <1>1, <1>3, FS_Union
<1>6. IsFiniteSet(U \cup R) /\ Cardinality(U \cup R) = f[x] + Cardinality(R)
    <2>1. Cardinality(U \cap R) = 0
        BY <1>2, FS_EmptySet
    <2>2. QED  BY <1>1, <1>4, <1>5, <2>1
<1>7. QED  BY <1>2, <1>6 DEF R

(* ... and the units of a finite set are finitely many.                    *)
LEMMA UnitsCount ==
    ASSUME NEW D, IsFiniteSet(D), NEW f, \A x \in D : f[x] \in Nat, NEW s \in SUBSET D
    PROVE  IsFiniteSet(Units(f, s)) /\ Cardinality(Units(f, s)) \in Nat
<1> DEFINE Bad == {t \in SUBSET D : ~ IsFiniteSet(Units(f, t))}
<1>1. CASE Bad # {}
    <2>1. PICK t \in Bad : \A u \in Bad : u \subseteq t => u = t
        <3>1. Bad \subseteq SUBSET D
            OBVIOUS
        <3> HIDE DEF Bad
        <3>2. QED  BY <1>1, <3>1, MinimalSubset
    <2>2. CASE t = {}
        <3>1. Units(f, t) = {}
            BY <2>2 DEF Units
        <3>2. QED  BY <3>1, FS_EmptySet
    <2>3. CASE t # {}
        <3>1. PICK x \in t : TRUE
            BY <2>3
        <3>2. t \ {x} \notin Bad /\ t \ {x} \in SUBSET D
            BY <2>1, <3>1
        <3>3. IsFiniteSet(Units(f, t \ {x})) /\ f[x] \in Nat
            BY <3>2
        <3>4. IsFiniteSet(Units(f, t))
            BY <3>3, UnitsWithout
        <3>5. QED  BY <3>4
    <2>4. QED  BY <2>2, <2>3
<1>2. CASE Bad = {}
    BY <1>2, FS_CardinalityType
<1>3. QED  BY <1>1, <1>2

(* The recursion of MapThenSumSet.                                         *)
IsFold(f, D, iter) ==
  iter = [s \in SUBSET D |-> IF s = {} THEN 0
                             ELSE f[CHOOSE x \in s : TRUE] + iter[s \ {CHOOSE x \in s : TRUE}]]

(* The recursive sum counts the units, ...                                 *)
LEMMA FoldCounts ==
    ASSUME NEW D, IsFiniteSet(D), NEW f, \A x \in D : f[x] \in Nat,
           NEW iter, IsFold(f, D, iter), NEW s \in SUBSET D
    PROVE  iter[s] = Cardinality(Units(f, s))
<1> DEFINE Bad == {t \in SUBSET D : iter[t] # Cardinality(Units(f, t))}
<1>1. CASE Bad # {}
    <2>1. PICK t \in Bad : \A u \in Bad : u \subseteq t => u = t
        <3>1. Bad \subseteq SUBSET D
            OBVIOUS
        <3> HIDE DEF Bad
        <3>2. QED  BY <1>1, <3>1, MinimalSubset
    <2>2. CASE t = {}
        <3>1. Units(f, t) = {} /\ iter[t] = 0
            BY <2>2 DEF Units, IsFold
        <3>2. QED  BY <3>1, FS_EmptySet
    <2>3. CASE t # {}
        <3> DEFINE x == CHOOSE y \in t : TRUE
        <3>1. x \in t /\ iter[t] = f[x] + iter[t \ {x}]
            BY <2>3 DEF IsFold
        <3> HIDE DEF x
        <3>2. t \ {x} \notin Bad /\ t \ {x} \in SUBSET D
            BY <2>1, <3>1
        <3>3. IsFiniteSet(Units(f, t \ {x})) /\ f[x] \in Nat
            BY <3>1, <3>2, UnitsCount
        <3>4. Cardinality(Units(f, t)) = f[x] + Cardinality(Units(f, t \ {x}))
            BY <3>1, <3>3, UnitsWithout
        <3>5. QED  BY <3>1, <3>2, <3>4
    <2>4. QED  BY <2>2, <2>3
<1>2. CASE Bad = {}
    BY <1>2
<1>3. QED  BY <1>1, <1>2

(* ... and a function with that recursion exists.                          *)
LEMMA FoldExists ==
    ASSUME NEW D, IsFiniteSet(D), NEW f, \A x \in D : f[x] \in Nat
    PROVE  \E iter : IsFold(f, D, iter)
<1> DEFINE g == [s \in SUBSET D |-> Cardinality(Units(f, s))]
<1>1. ASSUME NEW s \in SUBSET D
      PROVE  g[s] = IF s = {} THEN 0
                    ELSE f[CHOOSE x \in s : TRUE] + g[s \ {CHOOSE x \in s : TRUE}]
    <2>1. CASE s = {}
        <3>1. Units(f, s) = {}
            BY <2>1 DEF Units
        <3>2. QED  BY <3>1, <2>1, FS_EmptySet
    <2>2. CASE s # {}
        <3> DEFINE x == CHOOSE y \in s : TRUE
        <3>1. x \in s
            BY <2>2
        <3> HIDE DEF x
        <3>2. IsFiniteSet(Units(f, s \ {x})) /\ f[x] \in Nat
            BY <3>1, UnitsCount
        <3>3. Cardinality(Units(f, s)) = f[x] + Cardinality(Units(f, s \ {x}))
            BY <3>1, <3>2, UnitsWithout
        <3>4. g[s] = f[x] + g[s \ {x}]
            BY <3>3
        <3>5. QED  BY <3>4, <2>2 DEF x
    <2>3. QED  BY <2>1, <2>2
<1>2. IsFold(f, D, g)
    BY <1>1 DEF IsFold
<1>3. QED  BY <1>2

(* Hence the bytes of a queue are the units of its sizes, a number; an     *)
(* empty queue has none, one record its size, and a queue cut in two has   *)
(* those of both parts.                                                    *)
LEMMA BytesCount ==
    ASSUME NEW items \in Seq(Items)
    PROVE  Bytes(items) = Cardinality(Units([i \in DOMAIN items |-> items[i].size], DOMAIN items))
<1> DEFINE D == DOMAIN items
           f == [i \in D |-> items[i].size]
           P(iter) == iter = [s \in SUBSET D |-> IF s = {} THEN 0
                 ELSE items[CHOOSE x \in s : TRUE].size + iter[s \ {CHOOSE x \in s : TRUE}]]
<1>1. D = 1 .. Len(items) /\ Len(items) \in Nat
    BY LenProperties
<1>2. IsFiniteSet(D)
    BY <1>1, FS_Interval
<1>3. \A x \in D : f[x] \in Nat
    <2>1. \A x \in D : items[x] \in Items
        BY <1>1, ElementOfSeq
    <2>2. QED  BY <2>1 DEF Items
<1>4. ASSUME NEW iter PROVE P(iter) <=> IsFold(f, D, iter)
    <2>1. \A s \in SUBSET D : s # {} => f[CHOOSE x \in s : TRUE] = items[CHOOSE x \in s : TRUE].size
        OBVIOUS
    <2>2. QED  BY <2>1 DEF IsFold
<1>5. P(CHOOSE iter : P(iter))
    <2>1. \E iter : P(iter)
        <3> HIDE DEF P, f, D
        <3>1. QED  BY <1>2, <1>3, <1>4, FoldExists
    <2> HIDE DEF P
    <2>2. QED  BY <2>1
<1>6. Bytes(items) = (CHOOSE iter : P(iter))[D]
    BY DEF Bytes, MapThenSumSet, MapThenFoldSet
<1> DEFINE c == CHOOSE iter : P(iter)
<1>7. QED
    <2>1. P(c)
        BY <1>5
    <2> HIDE DEF P, f, D, c
    <2>2. c[D] = Cardinality(Units(f, D))
        BY <2>1, <1>2, <1>3, <1>4, FoldCounts
    <2>3. QED  BY <2>2, <1>6 DEF c, f, D

LEMMA BytesType == ASSUME NEW items \in Seq(Items) PROVE Bytes(items) \in Nat
<1> DEFINE D == DOMAIN items
           f == [i \in D |-> items[i].size]
<1>1. D = 1 .. Len(items) /\ Len(items) \in Nat
    BY LenProperties
<1>2. IsFiniteSet(D)
    BY <1>1, FS_Interval
<1>3. \A x \in D : f[x] \in Nat
    <2>1. \A x \in D : items[x] \in Items
        BY <1>1, ElementOfSeq
    <2>2. QED  BY <2>1 DEF Items
<1>4. Bytes(items) = Cardinality(Units(f, D))
    BY BytesCount
<1> HIDE DEF f, D
<1>5. QED  BY <1>2, <1>3, <1>4, UnitsCount

LEMMA BytesOfNone == Bytes(<<>>) = 0
<1>1. <<>> \in Seq(Items) /\ DOMAIN <<>> = {}
    BY EmptySeq
<1>2. Units([i \in DOMAIN <<>> |-> <<>>[i].size], DOMAIN <<>>) = {}
    BY <1>1 DEF Units
<1>3. QED  BY <1>1, <1>2, BytesCount, FS_EmptySet

LEMMA BytesOfOne == ASSUME NEW item \in Items PROVE Bytes(<<item>>) = item.size
<1>1. <<item>> \in Seq(Items) /\ DOMAIN <<item>> = {1} /\ <<item>>[1] = item /\ item.size \in Nat
    BY DEF Items
<1> DEFINE U == {u \in {1} \X Nat : 1 <= u[2] /\ u[2] <= item.size}
           V == Units([i \in {1} |-> <<item>>[i].size], {1})
<1>2. V = U
    BY <1>1 DEF Units
<1>3. Cardinality(U) = item.size
    BY <1>1, UnitsOfOne
<1>4. Bytes(<<item>>) = Cardinality(V)
    BY <1>1, BytesCount
<1> HIDE DEF U, V
<1>5. QED  BY <1>2, <1>3, <1>4

LEMMA BytesSplit ==
    ASSUME NEW all \in Seq(Items), NEW first \in Seq(Items), NEW rest \in Seq(Items),
           Len(all) = Len(first) + Len(rest),
           \A i \in 1 .. Len(first) : all[i] = first[i],
           \A i \in 1 .. Len(rest) : all[Len(first) + i] = rest[i]
    PROVE  Bytes(all) = Bytes(first) + Bytes(rest)
<1> DEFINE n == Len(first)
           Size(items) == [i \in DOMAIN items |-> items[i].size]
           U(items) == Units(Size(items), DOMAIN items)
           R == {u \in U(all) : u[1] > n}
           shift == [u \in U(rest) |-> <<u[1] + n, u[2]>>]
<1>1. /\ DOMAIN all = 1 .. Len(all) /\ DOMAIN first = 1 .. n /\ DOMAIN rest = 1 .. Len(rest)
      /\ n \in Nat /\ Len(rest) \in Nat /\ Len(all) = n + Len(rest)
    BY LenProperties
<1>2. /\ Bytes(all) = Cardinality(U(all)) /\ Bytes(first) = Cardinality(U(first))
      /\ Bytes(rest) = Cardinality(U(rest))
    BY BytesCount
<1>3. ASSUME NEW items \in Seq(Items) PROVE IsFiniteSet(U(items))
    <2> DEFINE D == DOMAIN items
               f == Size(items)
    <2>1. D = 1 .. Len(items) /\ Len(items) \in Nat
        BY LenProperties
    <2>2. IsFiniteSet(D)
        BY <2>1, FS_Interval
    <2>3. \A x \in D : items[x] \in Items
        BY <2>1, ElementOfSeq
    <2>4. \A x \in D : f[x] \in Nat
        BY <2>3 DEF Items
    <2>5. IsFiniteSet(Units(f, D))
        <3> HIDE DEF f, D
        <3>1. QED  BY <2>2, <2>4, UnitsCount
    <2>6. QED  BY <2>5
<1>4. U(all) = U(first) \cup R /\ U(first) \cap R = {}
    BY <1>1 DEF Units
<1>5. shift \in Bijection(U(rest), R)
    <2>1. ASSUME NEW u \in U(rest) PROVE shift[u] \in R
        BY <1>1 DEF Units
    <2>2. ASSUME NEW u \in U(rest), NEW v \in U(rest), shift[u] = shift[v] PROVE u = v
        BY <1>1, <2>2 DEF Units
    <2>3. ASSUME NEW w \in R PROVE \E u \in U(rest) : shift[u] = w
        <3>1. <<w[1] - n, w[2]>> \in U(rest)
            BY <1>1 DEF Units
        <3>2. w = <<(w[1] - n) + n, w[2]>>
            BY <1>1 DEF Units
        <3>3. QED  BY <3>1, <3>2
    <2>4. shift \in [U(rest) -> R]
        BY <2>1
    <2> HIDE DEF shift, U, R
    <2>5. shift \in Injection(U(rest), R)
        BY <2>2, <2>4, Zenon DEF Injection, IsInjective
    <2>6. shift \in Surjection(U(rest), R)
        BY <2>3, <2>4 DEF Surjection
    <2>7. QED  BY <2>5, <2>6 DEF Bijection
<1>6. IsFiniteSet(U(all)) /\ IsFiniteSet(U(first)) /\ IsFiniteSet(U(rest))
    BY <1>3
<1> HIDE DEF U, R, shift
<1>7. IsFiniteSet(R) /\ Cardinality(R) = Cardinality(U(rest))
    BY <1>5, <1>6, FS_Bijection DEF ExistsBijection
<1>8. Cardinality(U(first) \cup R)
        = Cardinality(U(first)) + Cardinality(R) - Cardinality(U(first) \cap R)
    BY <1>6, <1>7, FS_Union
<1>9. Cardinality(U(first) \cap R) = 0
    BY <1>4, FS_EmptySet
<1>10. QED
    <2>1. Cardinality(U(first)) \in Nat /\ Cardinality(R) \in Nat
        BY <1>6, <1>7, FS_CardinalityType
    <2>2. QED  BY <1>2, <1>4, <1>7, <1>8, <1>9, <2>1

-----------------------------------------------------------------------------
(* The counters that submit() checks its limits with speak of the queue    *)
(* and of the batch being written.                                         *)
Memory ==
    /\ pendingBytes = Bytes(pending) + Bytes(batch)
    /\ pendingBytes <= MaxPendingBytes

LEMMA SubmitBytes ==
    ASSUME TypeOK, NEW size \in Sizes, NEW isEvent \in BOOLEAN,
           NEW urgent \in BOOLEAN, Submit(size, isEvent, urgent)
    PROVE  Bytes(pending') = Bytes(pending) + size
<1> DEFINE item == [seq |-> sequence + 1, size |-> size,
             deadline |-> now + (IF isEvent THEN EventTicks ELSE BatchTicks)]
<1>1. item \in Items /\ item.size = size
    BY HistoryWriterAssumption DEF TypeOK, Items
<1>2. pending' = Append(pending, item) /\ pending \in Seq(Items)
    BY DEF Submit, TypeOK
<1> HIDE DEF item
<1>3. /\ pending' \in Seq(Items) /\ Len(pending') = Len(pending) + 1
      /\ \A i \in 1..Len(pending) : pending'[i] = pending[i]
      /\ pending'[Len(pending) + 1] = item
    BY <1>1, <1>2, AppendProperties
<1>4. <<item>> \in Seq(Items) /\ Len(<<item>>) = 1 /\ <<item>>[1] = item
    BY <1>1
<1>5. Bytes(pending') = Bytes(pending) + Bytes(<<item>>)
    <2>1. \A i \in 1..Len(<<item>>) : pending'[Len(pending) + i] = <<item>>[i]
        BY <1>3, <1>4
    <2>2. QED  BY <1>2, <1>3, <1>4, <2>1, BytesSplit
<1>6. QED  BY <1>1, <1>5, BytesOfOne

LEMMA MemoryStep == TypeOK /\ Storage /\ Memory /\ [Next]_vars => Memory'
<1> SUFFICES ASSUME TypeOK, Storage, Memory, [Next]_vars PROVE Memory'
    OBVIOUS
<1>0. Bytes(pending) \in Nat /\ Bytes(batch) \in Nat /\ MaxPendingBytes \in Nat
    BY BytesType, HistoryWriterAssumption DEF TypeOK
<1>1. ASSUME NEW size \in Sizes, NEW isEvent \in BOOLEAN, NEW urgent \in BOOLEAN,
             Submit(size, isEvent, urgent)
      PROVE  Memory'
    <2>1. Bytes(pending') = Bytes(pending) + size
        BY <1>1, SubmitBytes
    <2>2. /\ pendingBytes' = pendingBytes + size /\ batch' = batch
          /\ pendingBytes + size <= MaxPendingBytes /\ size \in Nat
        BY <1>1, HistoryWriterAssumption DEF Submit, HasRoom, diskVars
    <2>3. QED  BY <1>0, <2>1, <2>2 DEF Memory
<1>2. CASE WriterTakes
    <2>1. pendingBytes' = pendingBytes /\ batch = <<>>
        BY <1>2 DEF WriterTakes, Storage, Idle
    <2>2. Bytes(pending) = Bytes(batch') + Bytes(pending')
        <3>1. pending \in Seq(Items)
            BY DEF TypeOK
        <3>2. QED  BY <1>2, <3>1, TakeQueue, BytesSplit
    <2>3. Bytes(pending') \in Nat /\ Bytes(batch') \in Nat
        BY <1>2, TakeQueue, BytesType
    <2>4. QED  BY <1>0, <2>1, <2>2, <2>3, BytesOfNone DEF Memory
<1>3. CASE WriterPublishes
    <2>1. /\ pendingBytes' = pendingBytes - Bytes(batch)
          /\ pending' = pending /\ batch' = <<>>
        BY <1>3 DEF WriterPublishes
    <2>2. QED  BY <1>0, <2>1, BytesOfNone DEF Memory
<1>4. CASE UNCHANGED <<queueVars, committed, batch>>
    BY <1>4 DEF Memory, queueVars
<1>5. QED  BY <1>1, <1>2, <1>3, <1>4, QueueSteps

(* MAX_PENDING_RECORDS and MAX_PENDING_BYTES bound what is queued and what *)
(* is being written together, and the byte counter never drifts from the   *)
(* records it stands for, whatever is submitted, taken or published.       *)
THEOREM MemoryStaysBounded == Spec => []MemoryIsBounded
<1>1. Init => Memory
    BY BytesOfNone, HistoryWriterAssumption DEF Init, Memory
<1>2. WriterInv /\ Memory /\ [Next]_vars => Memory'
    BY MemoryStep DEF WriterInv
<1>3. WriterInv /\ Memory => MemoryIsBounded
    BY DEF WriterInv, Accounting, Memory, MemoryIsBounded
<1>4. QED  BY <1>1, <1>2, <1>3, Invariance, PTL DEF Spec

-----------------------------------------------------------------------------
(* The writer implements DurableQueue.                                     *)
LEMMA InitRefines == Init => Queue!Init
BY DEF Init, Queue!Init

LEMMA StepRefines == WriterInv /\ [Next]_vars => [Queue!Next]_Queue!abstractVars
<1> SUFFICES ASSUME WriterInv, [Next]_vars PROVE [Queue!Next]_Queue!abstractVars
    OBVIOUS
<1> USE DEF quietVars, startVars, queueVars, policyVars, stateVars, diskVars,
            callerVars, Queue!abstractVars, Queue!Next
<1>0. /\ TypeOK /\ Accounting /\ Storage /\ Promises /\ Ending
      /\ committed \in Nat /\ sequence \in Nat /\ acked \in Nat
      /\ Len(pending) \in Nat /\ Len(batch) \in Nat
    BY DurableBounds DEF WriterInv, TypeOK
<1>1. CASE Constructor
    BY <1>1 DEF Constructor, ConstructorReturns, ConstructorTimesOut,
                ConstructorAbandons, Queue!Seal
<1>2. ASSUME NEW size \in Sizes, NEW isEvent \in BOOLEAN, NEW urgent \in BOOLEAN,
             Submit(size, isEvent, urgent)
      PROVE  Queue!Accept
    BY <1>2 DEF Submit, CheckOpen, Queue!Accept
<1>3. ASSUME NEW value \in BOOLEAN, SetPrudent(value)
      PROVE  UNCHANGED Queue!abstractVars
    BY <1>3 DEF SetPrudent
<1>4. ASSUME acked' \in acked..committed,
             UNCHANGED <<sequence, durable, closing, error>>
      PROVE  Queue!Acknowledge
    <2>1. acked' \in 0..sequence /\ acked <= acked' /\ 1..acked' \subseteq durable
        BY <1>0, <1>4, DurableBounds DEF Accounting
    <2>2. QED  BY <1>4, <2>1 DEF Queue!Acknowledge
<1>5. ASSUME NEW c \in Callers, Flush(c)
      PROVE  Queue!Acknowledge \/ UNCHANGED Queue!abstractVars
    <2>1. CASE FlushReturnsAtOnce(c)
        <3>1. acked' \in acked..committed
            BY <1>0, <2>1, MaxOfTwo DEF FlushReturnsAtOnce, Promises
        <3>2. QED  BY <1>4, <2>1, <3>1 DEF FlushReturnsAtOnce
    <2>2. CASE FlushReturns(c)
        <3>1. target[c] \in Nat
            BY <1>0 DEF TypeOK
        <3>2. acked' \in acked..committed
            BY <1>0, <2>2, <3>1, MaxOfTwo DEF FlushReturns, Promises
        <3>3. QED  BY <1>4, <2>2, <3>2 DEF FlushReturns
    <2>3. CASE FlushBlocks(c) \/ FlushWaitsAgain(c) \/ FlushRaises(c) \/ FlushTimesOut(c)
        BY <2>3 DEF FlushBlocks, FlushWaitsAgain, FlushRaises, FlushTimesOut
    <2>4. QED  BY <1>5, <2>1, <2>2, <2>3 DEF Flush
<1>6. ASSUME NEW c \in Callers, Close(c)
      PROVE  Queue!Seal \/ UNCHANGED Queue!abstractVars
    BY <1>6 DEF Close, CloseReturnsAtOnce, CloseJoins, CloseReturns, CloseTimesOut,
                Queue!Seal
<1>7. ASSUME wpc = "committing", UNCHANGED <<sequence, acked, closing, error>>,
             durable' = durable \cup Numbers(batch)
      PROVE  Queue!Persist
    <2> DEFINE n == committed + Len(batch)
    <2>1. batch # <<>> /\ durable = 1..committed /\ ~error
        BY <1>0, <1>7 DEF Storage, Ending, Ended
    <2>2. Len(batch) > 0
        BY <1>0, <2>1, EmptySeq DEF TypeOK
    <2>3. durable' = 1..n
        BY <1>0, <1>7, <2>1, BatchNumbers
    <2>4. n \in 1..sequence /\ durable \subseteq 1..n
        BY <1>0, <2>1, <2>2 DEF Accounting
    <2>5. QED  BY <1>7, <2>1, <2>3, <2>4 DEF Queue!Persist
<1>8. CASE WriterCommits \/ WriterCommitFails
    BY <1>7, <1>8 DEF WriterCommits, WriterCommitFails
<1>9. CASE WriterFails
    BY <1>9 DEF WriterFails, Queue!Fail
<1>10. CASE WriterConnects \/ WriterConnectFails \/ WriterStops \/ WriterWaits
                \/ WriterDozes \/ WriterWakes \/ WriterTakes \/ WriterPublishes
                \/ WriterEnds \/ Tick \/ UNCHANGED vars
    BY <1>10 DEF WriterConnects, WriterConnectFails, WriterStops, WriterWaits,
                 WriterDozes, WriterWakes, WriterTakes, WriterPublishes, WriterEnds,
                 Tick, vars
<1>11. QED
    BY <1>1, <1>2, <1>3, <1>5, <1>6, <1>8, <1>9, <1>10 DEF Next, Writer

(* The threaded writer is a correct implementation of the abstract queue.  *)
THEOREM WriterImplementsQueue == Spec => ImplementsQueue
BY InitRefines, StepRefines, Invariance, PTL DEF Spec, ImplementsQueue, Queue!Spec

-----------------------------------------------------------------------------
(* The readers: rows in order. *)

(* Rows in a strict total order, and how many of a set come before one.    *)
Chain(S) ==
    /\ IsFiniteSet(S)
    /\ \A a \in S : a.at \in Int /\ a.id \in Int
    /\ \A a, b \in S : a.at = b.at /\ a.id = b.id => a = b

(* Where a row stands among others, counted from zero.                     *)
Place(S, r) == Cardinality({q \in S : Before(q, r)})

(* Rows come before one another in a strict total order.                   *)
LEMMA BeforeIsStrict ==
    ASSUME NEW a, a.at \in Int, a.id \in Int, NEW b, b.at \in Int, b.id \in Int,
           NEW c, c.at \in Int, c.id \in Int
    PROVE  /\ ~Before(a, a)
           /\ Before(a, b) => ~Before(b, a)
           /\ Before(a, b) /\ Before(b, c) => Before(a, c)
           /\ Before(a, b) \/ Before(b, a) \/ (a.at = b.at /\ a.id = b.id)
BY DEF Before

(* The same, within a chain.                                               *)
LEMMA ChainIsOrdered ==
    ASSUME NEW S, Chain(S)
    PROVE  /\ \A a \in S : ~Before(a, a)
           /\ \A a, b \in S : Before(a, b) => ~Before(b, a)
           /\ \A a, b, c \in S : Before(a, b) /\ Before(b, c) => Before(a, c)
           /\ \A a, b \in S : Before(a, b) \/ Before(b, a) \/ a = b
BY BeforeIsStrict, Zenon DEF Chain

(* A part of a chain is one, and no larger.                                *)
LEMMA PartsOfChain ==
    ASSUME NEW S, Chain(S), NEW T, T \subseteq S
    PROVE  Chain(T) /\ Cardinality(T) \in Nat /\ Cardinality(T) <= Cardinality(S)
           /\ (Cardinality(S) = Cardinality(T) => S = T)
BY FS_Subset, FS_CardinalityType, Zenon DEF Chain

(* A row has fewer rows before it than every later one.                    *)
LEMMA PlaceGrows ==
    ASSUME NEW S, Chain(S), NEW a \in S, NEW b \in S, Before(a, b)
    PROVE  Place(S, a) \in Nat /\ Place(S, b) \in Nat /\ Place(S, a) < Place(S, b)
<1> DEFINE A == {q \in S : Before(q, a)}
           B == {q \in S : Before(q, b)}
<1>1. IsFiniteSet(A) /\ IsFiniteSet(B) /\ Cardinality(A) \in Nat /\ Cardinality(B) \in Nat
    BY FS_Subset, FS_CardinalityType DEF Chain
<1>2. a \in B /\ a \notin A /\ A \subseteq B
    BY ChainIsOrdered
<1>3. A \subseteq B \ {a} /\ IsFiniteSet(B \ {a}) /\ Cardinality(B \ {a}) = Cardinality(B) - 1
    BY <1>1, <1>2, FS_RemoveElement
<1>4. Cardinality(A) <= Cardinality(B \ {a})
    BY <1>3, FS_Subset
<1>5. QED  BY <1>1, <1>3, <1>4 DEF Place

(* Places run from 0 to the size less one.                                 *)
LEMMA PlaceIsBounded ==
    ASSUME NEW S, Chain(S), NEW a \in S
    PROVE  Place(S, a) \in Nat /\ Place(S, a) < Cardinality(S)
<1> DEFINE A == {q \in S : Before(q, a)}
<1>1. IsFiniteSet(A) /\ IsFiniteSet(S) /\ Cardinality(A) \in Nat /\ Cardinality(S) \in Nat
    BY FS_Subset, FS_CardinalityType DEF Chain
<1>2. A \subseteq S \ {a}
    BY ChainIsOrdered
<1>3. IsFiniteSet(S \ {a}) /\ Cardinality(S \ {a}) = Cardinality(S) - 1
    BY <1>1, FS_RemoveElement
<1>4. Cardinality(A) <= Cardinality(S \ {a})
    BY <1>2, <1>3, FS_Subset
<1>5. QED  BY <1>1, <1>3, <1>4 DEF Place

(* No two rows of a chain share a place,                                   *)
LEMMA PlaceIsUnique ==
    ASSUME NEW S, Chain(S), NEW a \in S, NEW b \in S, Place(S, a) = Place(S, b)
    PROVE  a = b
<1>1. SUFFICES ASSUME a # b PROVE FALSE
    OBVIOUS
<1>2. CASE Before(a, b)
    BY <1>2, PlaceGrows
<1>3. CASE Before(b, a)
    BY <1>3, PlaceGrows
<1>4. QED  BY <1>1, <1>2, <1>3, ChainIsOrdered

(* and the smaller place is the earlier row's.                             *)
LEMMA PlaceTellsOrder ==
    ASSUME NEW S, Chain(S), NEW a \in S, NEW b \in S, Place(S, a) < Place(S, b)
    PROVE  Before(a, b)
<1>1. CASE Before(b, a)
    BY <1>1, PlaceGrows
<1>2. CASE a = b
    BY <1>2, PlaceIsBounded
<1>3. QED  BY <1>1, <1>2, ChainIsOrdered

(* The integers from 1 to n are n.                                         *)
LEMMA IntervalSize ==
    ASSUME NEW n \in Nat
    PROVE  IsFiniteSet(1..n) /\ Cardinality(1..n) = n
BY FS_Interval

(* Every place is taken: there are as many places as rows.                 *)
LEMMA PlaceIsTaken ==
    ASSUME NEW S, Chain(S), NEW k \in Nat, k < Cardinality(S)
    PROVE  \E r \in S : Place(S, r) = k
<1> DEFINE n == Cardinality(S)
           f == [r \in S |-> Place(S, r) + 1]
<1>1. IsFiniteSet(S) /\ n \in Nat
    BY FS_CardinalityType DEF Chain
<1>2. f \in [S -> 1..n]
    BY <1>1, PlaceIsBounded
<1>3. ASSUME NEW a \in S, NEW b \in S, f[a] = f[b]
      PROVE  a = b
    BY <1>3, PlaceIsUnique, PlaceIsBounded
<1>4. f \in Injection(S, 1..n)
    BY <1>2, <1>3, Fun_IsInj, Zenon
<1>5. IsFiniteSet(1..n) /\ Cardinality(1..n) = n
    BY <1>1, IntervalSize
<1>6. f \in Surjection(S, 1..n)
    BY <1>4, <1>5, FS_Injection, Zenon
<1>7. k + 1 \in 1..n
    BY <1>1
<1>8. PICK r \in S : f[r] = k + 1
    BY <1>6, <1>7, Zenon DEF Surjection
<1>9. QED  BY <1>8, PlaceIsBounded

(* A chain that is not empty has a first row.                              *)
LEMMA FirstExists ==
    ASSUME NEW S, Chain(S), S # {}
    PROVE  \E r \in S : \A q \in S : ~Before(q, r)
<1>1. IsFiniteSet(S) /\ Cardinality(S) \in Nat /\ Cardinality(S) # 0
    BY FS_CardinalityType, FS_EmptySet DEF Chain
<1>2. PICK r \in S : Place(S, r) = 0
    BY <1>1, PlaceIsTaken
<1>3. \A q \in S : ~Before(q, r)
    BY <1>2, PlaceGrows
<1>4. QED  BY <1>3

(* As many rows have a place in a set of places as there are places in it. *)
(* As many rows have one of a set of ranks as there are ranks in it.       *)
LEMMA AsManyAsPlaces ==
    ASSUME NEW S, Chain(S), NEW K, K \subseteq 1..Cardinality(S)
    PROVE  LET T == {r \in S : Place(S, r) + 1 \in K}
           IN  IsFiniteSet(T) /\ IsFiniteSet(K) /\ Cardinality(T) = Cardinality(K)
<1> DEFINE T == {r \in S : Place(S, r) + 1 \in K}
           f == [r \in T |-> Place(S, r) + 1]
<1>1. IsFiniteSet(S) /\ Cardinality(S) \in Nat /\ IsFiniteSet(T)
    BY FS_CardinalityType, FS_Subset DEF Chain
<1>2. f \in [T -> K]
    OBVIOUS
<1>3. ASSUME NEW a \in T, NEW b \in T, f[a] = f[b]
      PROVE  a = b
    BY <1>3, PlaceIsUnique, PlaceIsBounded
<1>4. ASSUME NEW k \in K
      PROVE  \E r \in T : f[r] = k
  <2>1. k - 1 \in Nat /\ k - 1 < Cardinality(S)
    BY <1>1
  <2>2. PICK r \in S : Place(S, r) = k - 1
    BY <2>1, PlaceIsTaken
  <2>3. r \in T /\ f[r] = k
    BY <2>1, <2>2
  <2>4. QED  BY <2>3
<1>5. f \in Bijection(T, K)
    BY <1>2, <1>3, <1>4, Fun_IsBij, Zenon
<1>6. ExistsBijection(T, K)
    BY <1>5, Zenon DEF ExistsBijection
<1>7. QED  BY <1>1, <1>6, FS_Bijection, Zenon

(* The first few: all of them, or as many as asked for and then each comes *)
(* before every other row.                                                 *)
LEMMA TheFirstFew ==
    ASSUME NEW S, Chain(S), NEW k \in Nat
    PROVE  /\ FirstOf(S, k) \subseteq S
           /\ \A r \in S, q \in FirstOf(S, k) : Before(r, q) => r \in FirstOf(S, k)
           /\ \A r \in S \ FirstOf(S, k) :
                /\ Cardinality(FirstOf(S, k)) = k
                /\ \A q \in FirstOf(S, k) : Before(q, r)
           /\ Cardinality(FirstOf(S, k)) \in Nat /\ Cardinality(FirstOf(S, k)) <= k
<1> DEFINE F == FirstOf(S, k)
           n == Cardinality(S)
<1>1. F = {r \in S : Place(S, r) < k}
    BY DEF FirstOf, Place
<1>2. n \in Nat
    BY FS_CardinalityType DEF Chain
<1>3. \A r \in S, q \in F : Before(r, q) => r \in F
    BY <1>1, PlaceGrows
<1>4. ASSUME NEW r \in S, r \notin F, NEW q \in F
      PROVE  Before(q, r)
    BY <1>4, <1>1, PlaceTellsOrder, PlaceIsBounded
<1>5. CASE n <= k
  <2>1. F = S
    BY <1>1, <1>5, <1>2, PlaceIsBounded
  <2>2. QED  BY <2>1, <1>5, <1>2, <1>3
<1>6. CASE n > k
  <2> DEFINE K == 1..k
             T == {r \in S : Place(S, r) + 1 \in K}
  <2>1. K \subseteq 1..Cardinality(S)
    BY <1>6, <1>2
  <2>2. F = T
    BY <1>1, PlaceIsBounded
  <2>3. Cardinality(T) = Cardinality(K)
    BY <2>1, AsManyAsPlaces, Zenon
  <2>4. Cardinality(K) = k
    BY IntervalSize
  <2>5. Cardinality(F) = k
    BY <2>2, <2>3, <2>4
  <2>6. Cardinality(F) \in Nat /\ Cardinality(F) <= k
    BY <2>5
  <2>7. F \subseteq S
    BY <1>1
  <2>8. QED  BY <2>5, <2>6, <2>7, <1>3, <1>4, Zenon
<1>7. QED  BY <1>2, <1>5, <1>6

(* A set in order lists each of its rows once, the earlier ones first.     *)
LEMMA InOrderLists ==
    ASSUME NEW S, Chain(S)
    PROVE  LET s == InOrder(S)
           IN  /\ s \in Seq(S) /\ Len(s) = Cardinality(S) /\ Cardinality(S) \in Nat
               /\ \A i, j \in 1..Len(s) : i < j => Before(s[i], s[j])
               /\ \A r \in S : \E i \in 1..Len(s) : s[i] = r
<1> DEFINE s == InOrder(S)
           n == Cardinality(S)
<1>1. n \in Nat
    BY FS_CardinalityType DEF Chain
<1>2. s = [i \in 1..n |-> CHOOSE r \in S : Place(S, r) = i - 1]
    BY DEF InOrder, Place
<1>3. ASSUME NEW i \in 1..n
      PROVE  s[i] \in S /\ Place(S, s[i]) = i - 1
  <2>1. i - 1 \in Nat /\ i - 1 < n
    BY <1>1
  <2>2. \E r \in S : Place(S, r) = i - 1
    BY <2>1, PlaceIsTaken
  <2>3. s[i] = CHOOSE r \in S : Place(S, r) = i - 1
    BY <1>2
  <2>4. QED  BY <2>2, <2>3, Zenon
<1>4. s \in [1..n -> S]
    BY <1>2, <1>3
<1>5. s \in Seq(S) /\ Len(s) = n
    BY <1>1, <1>4
<1>6. ASSUME NEW i \in 1..n, NEW j \in 1..n, i < j
      PROVE  Before(s[i], s[j])
    BY <1>3, <1>6, PlaceTellsOrder
<1>7. ASSUME NEW r \in S
      PROVE  \E i \in 1..n : s[i] = r
  <2>1. Place(S, r) + 1 \in 1..n
    BY <1>1, PlaceIsBounded
  <2>2. s[Place(S, r) + 1] \in S /\ Place(S, s[Place(S, r) + 1]) = Place(S, r)
    BY <2>1, <1>3, PlaceIsBounded
  <2>3. QED  BY <2>1, <2>2, PlaceIsUnique
<1>8. QED  BY <1>1, <1>5, <1>6, <1>7

-----------------------------------------------------------------------------
(* Ranks in equal steps. *)

(* Division rounds down.                                                   *)
LEMMA Quotient ==
    ASSUME NEW x \in Nat, NEW m \in Nat, m > 0
    PROVE  x \div m \in Nat /\ m * (x \div m) <= x /\ x < m * (x \div m) + m
OBVIOUS

(* A positive factor can be dropped.                                       *)
LEMMA SmallerFactor ==
    ASSUME NEW a \in Int, NEW b \in Int, NEW m \in Nat, m > 0, m * a < m * b
    PROVE  a < b
<1>1. SUFFICES ASSUME b <= a PROVE FALSE
    OBVIOUS
<1>2. m * b <= m * a
  <2>1. PICK d \in Nat : a = b + d
    BY <1>1
  <2>2. m * a = m * b + m * d /\ m * d \in Nat
    BY <2>1
  <2>3. m * b \in Int
    OBVIOUS
  <2>4. QED  BY <2>2, <2>3
<1>3. QED  BY <1>2

(* A step of the ranks: equal to the quotient or one more.                 *)
(* Adding c moves the quotient by that of c, or by one more.               *)
LEMMA QuotientSteps ==
    ASSUME NEW x \in Nat, NEW c \in Nat, NEW m \in Nat, m > 0
    PROVE  /\ x \div m + c \div m <= (x + c) \div m
           /\ (x + c) \div m <= x \div m + c \div m + 1
<1> DEFINE a == x \div m
           d == c \div m
           b == (x + c) \div m
<1>1. a \in Nat /\ m * a <= x /\ x < m * a + m
    BY Quotient
<1>2. d \in Nat /\ m * d <= c /\ c < m * d + m
    BY Quotient
<1>3. x + c \in Nat
    OBVIOUS
<1>4. b \in Nat /\ m * b <= x + c /\ x + c < m * b + m
    BY <1>3, Quotient
<1> HIDE DEF a, b, d
<1>5. m * (a + d) = m * a + m * d /\ m * (b + 1) = m * b + m
      /\ m * (a + d + 2) = m * a + m * d + m + m
    BY <1>1, <1>2, <1>4
<1>6. m * a \in Int /\ m * b \in Int /\ m * d \in Int
    BY <1>1, <1>2, <1>4
<1>7. m * (a + d) < m * (b + 1)
    BY <1>1, <1>2, <1>4, <1>5, <1>6
<1>8. m * b < m * (a + d + 2)
    BY <1>1, <1>2, <1>4, <1>5, <1>6
<1>9. a + d < b + 1
    BY <1>7, <1>1, <1>2, <1>4, SmallerFactor
<1>10. b < a + d + 2
    BY <1>8, <1>1, <1>2, <1>4, SmallerFactor
<1>11. a + d <= b /\ b <= a + d + 1
    BY <1>9, <1>10, <1>1, <1>2, <1>4
<1>12. QED  BY <1>11 DEF a, b, d

(* A larger number has no smaller quotient.                                *)
LEMMA QuotientGrows ==
    ASSUME NEW x \in Nat, NEW y \in Nat, x <= y, NEW m \in Nat, m > 0
    PROVE  x \div m <= y \div m
<1>1. PICK d \in Nat : y = x + d
    <2>1. y - x \in Nat /\ y = x + (y - x)
      OBVIOUS
    <2>2. QED  BY <2>1
<1>2. x \div m + d \div m <= (x + d) \div m
    BY QuotientSteps
<1>3. x \div m \in Nat /\ d \div m \in Nat /\ y \div m \in Nat
    BY Quotient
<1>4. QED  BY <1>1, <1>2, <1>3

-----------------------------------------------------------------------------
(* The ranks of more rows than the limit: rank i + 1 of them.              *)
Rung(i, count, limit) == (i * (count - 1)) \div (limit - 1) + 1

(* Each rung is one step above the one below, or one more, and never past  *)
(* the last.                                                               *)
LEMMA RungsRise ==
    ASSUME NEW count \in Nat, NEW limit \in Nat, limit > 1, count > limit,
           NEW i \in 0..limit - 1
    PROVE  LET step == (count - 1) \div (limit - 1)
           IN  /\ Rung(i, count, limit) \in 1..count
               /\ step \in Nat /\ step >= 1
               /\ Rung(i, count, limit) + step <= Rung(i + 1, count, limit)
               /\ Rung(i + 1, count, limit) <= Rung(i, count, limit) + step + 1
               /\ \A j \in Nat : i < j => Rung(i + 1, count, limit) <= Rung(j, count, limit)
<1> DEFINE c == count - 1
           m == limit - 1
           x == i * c
           step == c \div m
<1>1. c \in Nat /\ m \in Nat /\ m > 0 /\ c > m /\ i \in Nat /\ i <= m
    OBVIOUS
<1>2. x \in Nat
    BY <1>1
<1>3. step \in Nat /\ m * step <= c /\ c < m * step + m
    BY <1>1, Quotient
<1>4. step >= 1
    BY <1>1, <1>3
<1>5. (i + 1) * c = x + c
    BY <1>1
<1>6. x \div m + step <= (x + c) \div m /\ (x + c) \div m <= x \div m + step + 1
    BY <1>1, <1>2, QuotientSteps
<1>7. x \div m \in Nat /\ (x + c) \div m \in Nat /\ m * (x \div m) <= x
  <2>1. x + c \in Nat
    BY <1>1, <1>2
  <2>2. QED  BY <2>1, <1>1, <1>2, Quotient
<1>8. x \div m <= c
  <2>1. x <= m * c
    <3>1. PICK e \in Nat : m = i + e
      <4>1. m - i \in Nat /\ m = i + (m - i)
        BY <1>1
      <4>2. QED  BY <4>1
    <3>2. m * c = x + e * c /\ e * c \in Nat
      BY <1>1, <3>1
    <3>3. QED  BY <3>2, <1>2
  <2>2. m * c \in Nat /\ (m * c) \div m = c
    <3>1. m * c \in Nat
      BY <1>1
    <3>2. (m * c) \div m \in Nat /\ m * ((m * c) \div m) <= m * c
          /\ m * c < m * ((m * c) \div m) + m
      BY <1>1, <3>1, Quotient
    <3> DEFINE q == (m * c) \div m
    <3>3. q \in Nat /\ m * q <= m * c /\ m * c < m * q + m
      BY <3>2
    <3> HIDE DEF q, m, c
    <3>4. m * (q + 1) = m * q + m /\ m * (c + 1) = m * c + m /\ m * q \in Nat
      BY <3>3, <1>1
    <3>5. m * c < m * (q + 1) /\ m * q < m * (c + 1)
      BY <3>1, <3>3, <3>4, <1>1
    <3>6. c < q + 1 /\ q < c + 1
      BY <3>5, <3>3, <1>1, SmallerFactor
    <3>7. q = c
      BY <3>6, <3>3, <1>1
    <3>8. QED  BY <3>7, <3>1 DEF q
  <2>3. QED  BY <2>1, <2>2, <1>1, <1>2, QuotientGrows
<1>9. ASSUME NEW j \in Nat, i < j
      PROVE  ((i + 1) * c) \div m <= (j * c) \div m
  <2>1. PICK e \in Nat : j = i + 1 + e
    <3>1. j - (i + 1) \in Nat /\ j = i + 1 + (j - (i + 1))
      BY <1>9, <1>1
    <3>2. QED  BY <3>1
  <2>2. j * c = (i + 1) * c + e * c /\ e * c \in Nat /\ (i + 1) * c \in Nat /\ j * c \in Nat
    BY <1>1, <2>1
  <2>3. QED  BY <2>2, <1>1, QuotientGrows
<1>10. \A j \in Nat : (j * c) \div m \in Nat
  <2>1. \A j \in Nat : j * c \in Nat
    BY <1>1
  <2>2. QED  BY <2>1, <1>1, Quotient
<1> HIDE DEF step
<1>11. Rung(i, count, limit) = x \div m + 1 /\ Rung(i + 1, count, limit) = (x + c) \div m + 1
       /\ \A j \in Nat : Rung(j, count, limit) = (j * c) \div m + 1
    BY <1>5 DEF Rung
<1>12. Rung(i, count, limit) \in 1..count
    BY <1>11, <1>7, <1>8, <1>1
<1>13. \A j \in Nat : i < j => Rung(i + 1, count, limit) <= Rung(j, count, limit)
    BY <1>11, <1>9, <1>10, <1>5, <1>7
<1>14. Rung(i, count, limit) + step <= Rung(i + 1, count, limit)
       /\ Rung(i + 1, count, limit) <= Rung(i, count, limit) + step + 1
    BY <1>11, <1>6, <1>7, <1>3
<1>15. QED  BY <1>3, <1>4, <1>12, <1>13, <1>14 DEF step

(* What stands for `count' rows: as many ranks as the limit allows, the    *)
(* first and the last among them, in equal steps.                          *)
LEMMA RanksSpan ==
    ASSUME NEW count \in Nat, NEW limit \in Nat, limit > 1
    PROVE  LET R == Report!Ranks(count, limit)
               Adjacent(a, b) == a < b /\ ~\E c \in R : a < c /\ c < b
           IN  /\ R \subseteq 1..count
               /\ count <= limit => R = 1..count
               /\ IsFiniteSet(R)
               /\ Cardinality(R) = IF count <= limit THEN count ELSE limit
               /\ count # 0 => {1, count} \subseteq R
               /\ \A a, b, c, d \in R :
                    Adjacent(a, b) /\ Adjacent(c, d) => (b - a) - (d - c) <= 1
<1> DEFINE R == Report!Ranks(count, limit)
           Adjacent(a, b) == a < b /\ ~\E c \in R : a < c /\ c < b
<1>1. CASE count <= limit
  <2>1. R = 1..count
    BY <1>1 DEF Report!Ranks
  <2>2. IsFiniteSet(R) /\ Cardinality(R) = count
    BY <2>1, IntervalSize
  <2>3. ASSUME NEW a \in R, NEW b \in R, Adjacent(a, b)
        PROVE  b - a = 1
    <3>1. CASE b > a + 1
      <4>1. a + 1 \in R /\ a < a + 1 /\ a + 1 < b
        BY <2>1, <3>1
      <4>2. QED  BY <4>1, <2>3
    <3>2. QED  BY <3>1, <2>1, <2>3
  <2>4. ASSUME NEW a \in R, NEW b \in R, NEW c \in R, NEW d \in R, Adjacent(a, b), Adjacent(c, d)
        PROVE  (b - a) - (d - c) <= 1
    <3>1. b - a = 1 /\ d - c = 1
      BY <2>3, <2>4
    <3>2. QED  BY <3>1
  <2>5. QED  BY <2>1, <2>2, <2>4, <1>1
<1>2. CASE count > limit
  <2> DEFINE step == (count - 1) \div (limit - 1)
             r(i) == Rung(i, count, limit)
             f == [i \in 1..limit |-> r(i - 1)]
  <2>1. R = {r(i) : i \in 0..limit - 1}
    BY <1>2 DEF Report!Ranks, Rung
  <2>2. /\ step \in Nat /\ step >= 1
        /\ \A i \in 0..limit - 1 :
             /\ r(i) \in 1..count /\ r(i + 1) \in Int
             /\ r(i) + step <= r(i + 1) /\ r(i + 1) <= r(i) + step + 1
             /\ \A j \in Nat : i < j => r(i + 1) <= r(j)
    <3>1. \A i \in 0..limit - 1 : r(i + 1) \in Int
      <4> SUFFICES ASSUME NEW i \in 0..limit - 1 PROVE r(i + 1) \in Int
        OBVIOUS
      <4>1. (i + 1) * (count - 1) \in Nat /\ limit - 1 \in Nat /\ limit - 1 > 0
        <5>1. i + 1 \in Nat /\ count - 1 \in Nat
          BY <1>2
        <5>2. QED  BY <5>1
      <4>2. ((i + 1) * (count - 1)) \div (limit - 1) \in Nat
        BY <4>1, Quotient
      <4>3. QED  BY <4>2 DEF Rung
    <3>2. 0 \in 0..limit - 1
      OBVIOUS
    <3>3. QED  BY <3>1, <3>2, <1>2, RungsRise
  <2> HIDE DEF r, step, R
  <2>3. ASSUME NEW i \in 0..limit - 1, NEW j \in 0..limit - 1, i < j
        PROVE  r(i) < r(j)
    BY <2>2, <2>3
  <2>4. f \in [1..limit -> R]
    <3>1. \A i \in 1..limit : i - 1 \in 0..limit - 1
      OBVIOUS
    <3>2. QED  BY <3>1, <2>1
  <2>5. ASSUME NEW a \in 1..limit, NEW b \in 1..limit, f[a] = f[b]
        PROVE  a = b
    <3>1. a - 1 \in 0..limit - 1 /\ b - 1 \in 0..limit - 1 /\ r(a - 1) = r(b - 1)
      BY <2>5
    <3>2. r(a - 1) \in Int /\ ~(a - 1 < b - 1) /\ ~(b - 1 < a - 1)
      BY <3>1, <2>2, <2>3
    <3>3. QED  BY <3>2
  <2>6. ASSUME NEW t \in R
        PROVE  \E a \in 1..limit : f[a] = t
    <3>1. PICK i \in 0..limit - 1 : t = r(i)
      BY <2>1
    <3>2. i + 1 \in 1..limit /\ f[i + 1] = t
      BY <3>1
    <3>3. QED  BY <3>2
  <2>7. f \in Bijection(1..limit, R)
    BY <2>4, <2>5, <2>6, Fun_IsBij, Zenon
  <2>8. IsFiniteSet(R) /\ Cardinality(R) = limit
    BY <2>7, IntervalSize, FS_Bijection, Zenon DEF ExistsBijection
  <2>9. 1 \in R /\ count \in R
    <3>1. r(0) = 1
      <4>1. 0 * (count - 1) = 0 /\ limit - 1 \in Nat /\ limit - 1 > 0
        OBVIOUS
      <4>2. 0 \div (limit - 1) = 0
        <5>1. 0 \div (limit - 1) \in Nat /\ (limit - 1) * (0 \div (limit - 1)) <= 0
          BY <4>1, Quotient
        <5> DEFINE z == 0 \div (limit - 1)
        <5>2. CASE z >= 1
          <6>1. (limit - 1) * z > 0
            BY <5>1, <5>2, <4>1
          <6>2. QED  BY <6>1, <5>1
        <5>3. QED  BY <5>1, <5>2
      <4>3. QED  BY <4>1, <4>2 DEF r, Rung
    <3>2. r(limit - 1) = count
      <4> DEFINE m == limit - 1
                 c == count - 1
                 q == (m * c) \div m
      <4>1. m \in Nat /\ m > 0 /\ c \in Nat /\ m * c \in Nat
        BY <1>2
      <4>2. q \in Nat /\ m * q <= m * c /\ m * c < m * q + m
        BY <4>1, Quotient
      <4> HIDE DEF q, m, c
      <4>3. m * (q + 1) = m * q + m /\ m * (c + 1) = m * c + m /\ m * q \in Nat
        BY <4>1, <4>2
      <4>4. m * c < m * (q + 1) /\ m * q < m * (c + 1)
        BY <4>1, <4>2, <4>3
      <4>5. c < q + 1 /\ q < c + 1
        BY <4>4, <4>2, <4>1, SmallerFactor
      <4>6. q = c
        BY <4>5, <4>2, <4>1
      <4>7. r(limit - 1) = q + 1
        BY DEF r, Rung, q, m, c
      <4>8. QED  BY <4>6, <4>7 DEF c
    <3>3. 0 \in 0..limit - 1 /\ limit - 1 \in 0..limit - 1
      OBVIOUS
    <3>4. QED  BY <3>1, <3>2, <3>3, <2>1
  <2>10. ASSUME NEW a \in R, NEW b \in R, Adjacent(a, b)
         PROVE  a \in Int /\ b \in Int /\ step <= b - a /\ b - a <= step + 1
    <3>1. PICK i \in 0..limit - 1 : a = r(i)
      BY <2>1
    <3>2. PICK j \in 0..limit - 1 : b = r(j)
      BY <2>1
    <3>3. a \in Int /\ b \in Int
      BY <3>1, <3>2, <2>2
    <3>4. i < j
      BY <3>1, <3>2, <3>3, <2>3, <2>10
    <3>5. CASE i + 1 < j
      <4>1. i + 1 \in 0..limit - 1
        BY <3>5
      <4>2. r(i) < r(i + 1) /\ r(i + 1) < r(j) /\ r(i + 1) \in R
        BY <4>1, <3>5, <2>3, <2>1
      <4>3. QED  BY <4>2, <3>1, <3>2, <2>10
    <3>6. CASE j = i + 1
      BY <3>1, <3>2, <3>3, <3>6, <2>2
    <3>7. QED  BY <3>4, <3>5, <3>6
  <2>11. ASSUME NEW a \in R, NEW b \in R, NEW c \in R, NEW d \in R, Adjacent(a, b), Adjacent(c, d)
         PROVE  (b - a) - (d - c) <= 1
    <3>1. a \in Int /\ b \in Int /\ step <= b - a /\ b - a <= step + 1
      BY <2>10, <2>11
    <3>2. c \in Int /\ d \in Int /\ step <= d - c /\ d - c <= step + 1
      BY <2>10, <2>11
    <3>3. QED  BY <3>1, <3>2, <2>2
  <2>12. R \subseteq 1..count
    BY <2>1, <2>2
  <2>13. QED  BY <2>8, <2>9, <2>11, <2>12, <1>2 DEF R
<1>3. count <= limit \/ count > limit
  OBVIOUS
<1>4. QED  BY <1>1, <1>2, <1>3, Zenon

-----------------------------------------------------------------------------
(* The databases. *)

StoreOK ==
    /\ db \in [Sources -> Seq(Stored)] /\ appends \in Nat
    /\ \A s \in Sources : \A i, j \in 1..Len(db[s]) :
         /\ db[s][i].id < 100 + appends
         /\ db[s][i].id = db[s][j].id => i = j
    /\ \A i \in 1..Len(db["system"]), j \in 1..Len(db["user"]) :
         db["system"][i].id = db["user"][j].id => db["system"][i].at <= db["user"][j].at

(* What a reader finds is well formed.                                     *)
LEMMA StoreBegins == StoreInit => StoreOK
<1> SUFFICES ASSUME NEW h \in Histories, db = h.db, appends = 0 PROVE StoreOK
  BY DEF StoreInit
<1>1. WellFormed(h)
  BY StoreAssumption
<1>2. \A s \in Sources : DOMAIN h.db[s] = 1..Len(h.db[s]) /\ h.db[s] \in Seq(Stored)
  BY <1>1 DEF WellFormed
<1>3. "system" \in Sources /\ "user" \in Sources
  BY DEF Sources
<1>4. h.db \in [Sources -> Seq(Stored)]
  BY <1>1 DEF WellFormed
<1>5. ASSUME NEW s \in Sources, NEW i \in 1..Len(h.db[s]), NEW j \in 1..Len(h.db[s])
      PROVE  /\ h.db[s][i].id < 100 + 0
             /\ h.db[s][i].id = h.db[s][j].id => i = j
  BY <1>1, <1>2 DEF WellFormed
<1>6. \A i \in 1..Len(h.db["system"]), j \in 1..Len(h.db["user"]) :
         h.db["system"][i].id = h.db["user"][j].id => h.db["system"][i].at <= h.db["user"][j].at
  BY <1>1, <1>2, <1>3, Zenon DEF WellFormed
<1>7. QED  BY <1>4, <1>5, <1>6 DEF StoreOK

(* Tables only grow: every row keeps its rowid.                            *)
Grows ==
    \A s \in Sources :
        /\ Len(db[s]) <= Len(db'[s])
        /\ \A i \in 1..Len(db[s]) : db'[s][i] = db[s][i]

(* A commit adds one row, younger than all, to one table.                  *)
LEMMA StoreSteps ==
    ASSUME StoreOK, Appends \/ UNCHANGED store
    PROVE  StoreOK' /\ Grows /\ covered \subseteq covered'
<1>1. CASE UNCHANGED store
  BY <1>1 DEF StoreOK, Grows, store
<1>2. CASE Appends
  <2>1. PICK s \in Sources, at \in Times, sample \in BOOLEAN, continuous \in BOOLEAN :
            Commit(s, at, sample, continuous)
    BY <1>2 DEF Appends
  <2> DEFINE r == [id |-> NewBoot, at |-> at, boot |-> NewBoot, sample |-> sample,
                   good |-> TRUE, terms |-> {}]
  <2>2. appends \in Nat /\ appends' = appends + 1 /\ NewBoot = 100 + appends /\ at \in Int
    BY <2>1, StoreAssumption DEF Commit, NewBoot, StoreOK
  <2>3. r \in Stored /\ r.id = 100 + appends
    BY <2>2 DEF Stored
  <2>4. db' = [db EXCEPT ![s] = Append(db[s], r)]
    BY <2>1 DEF Commit
  <2> HIDE DEF r
  <2>5. db \in [Sources -> Seq(Stored)]
    BY DEF StoreOK
  <2>6. /\ Append(db[s], r) \in Seq(Stored)
        /\ Len(Append(db[s], r)) = Len(db[s]) + 1 /\ Len(db[s]) \in Nat
        /\ \A i \in 1..Len(db[s]) : Append(db[s], r)[i] = db[s][i]
        /\ Append(db[s], r)[Len(db[s]) + 1] = r
    BY <2>3, <2>5
  <2>7. \A t \in Sources : db'[t] = IF t = s THEN Append(db[s], r) ELSE db[t]
    BY <2>4, <2>5
  <2>8. db' \in [Sources -> Seq(Stored)]
    BY <2>4, <2>5, <2>6
  <2>9. \A t \in Sources : Len(db[t]) \in Nat /\ Len(db'[t]) \in Nat
    BY <2>5, <2>8
  <2>10. ASSUME NEW t \in Sources
         PROVE  /\ Len(db[t]) <= Len(db'[t])
                /\ \A i \in 1..Len(db[t]) : db'[t][i] = db[t][i]
    <3>1. CASE t = s
      <4>1. db'[t] = Append(db[t], r)
        BY <2>7, <3>1
      <4>2. Len(db[t]) <= Len(db[t]) + 1
        BY <2>9
      <4>3. QED  BY <4>1, <4>2, <3>1, <2>6
    <3>2. CASE t # s
      <4>1. db'[t] = db[t]
        BY <2>7, <3>2
      <4>2. QED  BY <4>1, <2>9
    <3>3. QED  BY <3>1, <3>2
  <2>11. ASSUME NEW t \in Sources, NEW i \in 1..Len(db[t])
         PROVE  db[t][i].id < 100 + appends /\ db[t][i] \in Stored /\ db[t][i].id \in Int
    <3>1. db[t] \in Seq(Stored)
      BY <2>5
    <3>2. db[t][i] \in Stored
      BY <3>1, ElementOfSeq
    <3>3. QED  BY <3>2 DEF StoreOK, Stored
  <2>12. ASSUME NEW t \in Sources, NEW i \in 1..Len(db'[t])
         PROVE  \/ i \in 1..Len(db[t]) /\ db'[t][i] = db[t][i]
                \/ t = s /\ i = Len(db[t]) + 1 /\ db'[t][i] = r
    <3>1. CASE t # s
      BY <3>1, <2>7
    <3>2. CASE t = s
      <4>1. db'[t] = Append(db[t], r) /\ Len(db'[t]) = Len(db[t]) + 1
        BY <2>6, <2>7, <3>2
      <4>2. i \in 1..Len(db[t]) \/ i = Len(db[t]) + 1
        BY <4>1, <2>9
      <4>3. QED  BY <4>1, <4>2, <2>6, <3>2
    <3>3. QED  BY <3>1, <3>2
  <2>13. ASSUME NEW t \in Sources, NEW i \in 1..Len(db'[t]), NEW j \in 1..Len(db'[t])
         PROVE  /\ db'[t][i].id < 100 + appends'
                /\ db'[t][i].id = db'[t][j].id => i = j
    <3>1. db'[t][i].id < 100 + appends'
      BY <2>12, <2>11, <2>2, <2>3
    <3>2. ASSUME db'[t][i].id = db'[t][j].id PROVE i = j
      <4>1. CASE db'[t][i] = r /\ i = Len(db[t]) + 1
        BY <4>1, <3>2, <2>12, <2>11, <2>2, <2>3
      <4>2. CASE i \in 1..Len(db[t]) /\ db'[t][i] = db[t][i]
        <5>1. CASE j \in 1..Len(db[t]) /\ db'[t][j] = db[t][j]
          BY <4>2, <5>1, <3>2 DEF StoreOK
        <5>2. CASE db'[t][j] = r
          BY <4>2, <5>2, <3>2, <2>11, <2>2, <2>3
        <5>3. QED  BY <5>1, <5>2, <2>12
      <4>3. QED  BY <4>1, <4>2, <2>12
    <3>3. QED  BY <3>1, <3>2
  <2>14. ASSUME NEW i \in 1..Len(db'["system"]), NEW j \in 1..Len(db'["user"]),
                db'["system"][i].id = db'["user"][j].id
         PROVE  db'["system"][i].at <= db'["user"][j].at
    <3>1. "system" \in Sources /\ "user" \in Sources /\ "system" # "user"
      BY DEF Sources
    <3>2. CASE i \in 1..Len(db["system"]) /\ db'["system"][i] = db["system"][i]
      <4>1. CASE j \in 1..Len(db["user"]) /\ db'["user"][j] = db["user"][j]
        BY <3>2, <4>1, <2>14 DEF StoreOK
      <4>2. CASE db'["user"][j] = r
        BY <3>1, <3>2, <4>2, <2>14, <2>11, <2>2, <2>3
      <4>3. QED  BY <4>1, <4>2, <3>1, <2>12
    <3>3. CASE s = "system" /\ db'["system"][i] = r
      <4>1. j \in 1..Len(db["user"]) /\ db'["user"][j] = db["user"][j]
        BY <3>1, <3>3, <2>12
      <4>2. QED  BY <3>1, <3>3, <4>1, <2>14, <2>11, <2>2, <2>3
    <3>4. QED  BY <3>1, <3>2, <3>3, <2>12
  <2>15. covered \subseteq covered'
    BY <2>1 DEF Commit
  <2>16. StoreOK'
    BY <2>2, <2>8, <2>13, <2>14 DEF StoreOK
  <2>17. Grows
    BY <2>10 DEF Grows
  <2>18. QED  BY <2>15, <2>16, <2>17
<1>3. QED  BY <1>1, <1>2

(* What a snapshot selects stays what it is, and can be put in order.      *)
LEMMA SnapshotStays ==
    ASSUME StoreOK, StoreOK', Grows, NEW s \in Sources, NEW c \in Nat, c <= Len(db[s])
    PROVE  Snapshot(s, c)' = Snapshot(s, c)
<1>1. Len(db[s]) \in Nat
  BY DEF StoreOK
<1>2. \A i \in 1..c : db'[s][i] = db[s][i]
  BY <1>1 DEF Grows
<1>3. QED  BY <1>2 DEF Snapshot

(* A snapshot can be put in order, and no identity occurs twice in it.     *)
LEMMA SnapshotChains ==
    ASSUME StoreOK, NEW s \in Sources, NEW c \in Nat, c <= Len(db[s])
    PROVE  /\ Snapshot(s, c) \subseteq Stored /\ Chain(Snapshot(s, c))
           /\ \A a, b \in Snapshot(s, c) : a.id = b.id => a = b
<1> DEFINE f == [i \in 1..c |-> db[s][i]]
           D == Snapshot(s, c)
<1>1. Len(db[s]) \in Nat /\ \A i \in 1..c : i \in 1..Len(db[s]) /\ db[s][i] \in Stored
  BY ElementOfSeq DEF StoreOK
<1>2. D \subseteq Stored
  BY <1>1 DEF Snapshot
<1>3. f \in [1..c -> D] /\ \A r \in D : \E i \in 1..c : f[i] = r
  BY DEF Snapshot
<1>4. f \in Surjection(1..c, D)
  BY <1>3, Fun_IsSurj, Zenon
<1>5. IsFiniteSet(1..c)
  BY IntervalSize
<1>6. IsFiniteSet(D)
  BY <1>4, <1>5, FS_Surjection, Zenon
<1>7. ASSUME NEW a \in D, NEW b \in D, a.id = b.id
      PROVE  a = b
  <2>1. PICK i \in 1..c : a = db[s][i]
    BY DEF Snapshot
  <2>2. PICK j \in 1..c : b = db[s][j]
    BY DEF Snapshot
  <2>3. QED  BY <1>1, <1>7, <2>1, <2>2 DEF StoreOK
<1>8. Chain(D)
  BY <1>2, <1>6, <1>7 DEF Chain, Stored
<1>9. QED  BY <1>2, <1>7, <1>8

(* Two snapshots share a record only where the system has it no later.     *)
LEMMA CopiesComeNoLater ==
    ASSUME StoreOK, NEW c \in Nat, c <= Len(db["system"]), NEW d \in Nat, d <= Len(db["user"]),
           NEW a \in Snapshot("system", c), NEW b \in Snapshot("user", d), a.id = b.id
    PROVE  a.at <= b.at
<1>1. Len(db["system"]) \in Nat /\ Len(db["user"]) \in Nat
  BY DEF StoreOK, Sources
<1>2. PICK i \in 1..c : a = db["system"][i]
  BY DEF Snapshot
<1>3. PICK j \in 1..d : b = db["user"][j]
  BY DEF Snapshot
<1>4. i \in 1..Len(db["system"]) /\ j \in 1..Len(db["user"])
  BY <1>1
<1>5. QED  BY <1>2, <1>3, <1>4 DEF StoreOK

-----------------------------------------------------------------------------
(* The report. *)

(* The report's own operators over rows are those of the databases.        *)
LEMMA ReportRows ==
    /\ \A S : Report!Cardinality(S) = Cardinality(S)
    /\ \A a, b : Report!Before(a, b) <=> Before(a, b)
    /\ \A S, k : Report!FirstOf(S, k) = FirstOf(S, k)
    /\ \A s, c : Report!Snapshot(s, c) = Snapshot(s, c)
    /\ \A S : Report!Ids(S) = Ids(S)
<1>1. \A S : Report!Cardinality(S) = Cardinality(S)
  BY Zenon DEF Report!Cardinality, Cardinality
<1>2. \A a, b : Report!Before(a, b) <=> Before(a, b)
  BY DEF Report!Before, Before
<1>3. ASSUME NEW S, NEW k PROVE Report!FirstOf(S, k) = FirstOf(S, k)
  <2> DEFINE A(r) == Report!Cardinality({q \in S : Report!Before(q, r)})
             B(r) == Cardinality({q \in S : Before(q, r)})
  <2>1. \A r : {q \in S : Report!Before(q, r)} = {q \in S : Before(q, r)}
    BY <1>2
  <2>2. \A r : A(r) = B(r)
    BY <1>1, <2>1
  <2>3. Report!FirstOf(S, k) = {r \in S : A(r) < k} /\ FirstOf(S, k) = {r \in S : B(r) < k}
    BY DEF Report!FirstOf, FirstOf
  <2> HIDE DEF A, B
  <2>4. {r \in S : A(r) < k} = {r \in S : B(r) < k}
    BY <2>2
  <2>5. QED  BY <2>3, <2>4
<1>4. \A s, c : Report!Snapshot(s, c) = Snapshot(s, c)
  BY Zenon DEF Report!Snapshot, Snapshot
<1>5. \A S : Report!Ids(S) = Ids(S)
  BY Zenon DEF Report!Ids, Ids
<1>6. QED  BY <1>1, <1>2, <1>3, <1>4, <1>5

(* The two questions of a report.                                          *)
Subsets == {"samples", "events"}

(* The rows of a source that the report asks for, and those of them that   *)
(* stand for the others.                                                   *)
Lot(s, w) == Report!Asked(Snapshot(s, limits[s]), w)

(* The rows at the ranks a report picks.                                   *)
Standing(D) == {r \in D : Place(D, r) + 1 \in Report!Ranks(Cardinality(D), Limit)}

(* The rows that stand for a source.                                       *)
Stand(s, w) == Standing(Lot(s, w))

(* The sources the report has finished with.                               *)
Handled ==
    IF stage \in {"merge", "done"} THEN Sources
    ELSE IF source = "user" THEN {"system"} ELSE {}

(* What the variables of the report range over.                            *)
ReportTypes ==
    /\ stage \in {"ceiling", "count", "keys", "rows", "coverage", "merge", "done"}
    /\ source \in Sources /\ subset \in Subsets
    /\ limits \in [Sources -> Nat] /\ \A s \in Sources : limits[s] <= Len(db[s])
    /\ gathered \in [Sources -> SUBSET Stored]
    /\ failed \subseteq Handled /\ precedence \subseteq covered

(* A source that is finished with has all its representatives, or none.    *)
Settled ==
    /\ \A s \in Sources :
         gathered[s] = IF s \in Handled \ failed THEN Stand(s, "samples") \cup Stand(s, "events")
                                                 ELSE {}
    /\ "system" \notin Handled \ failed => precedence = {}

(* What was kept of the source being read.                                 *)
Keeping ==
    \A s \in Sources : s = source =>
        /\ stage \in {"count", "keys", "rows"} =>
             kept = IF subset = "samples" THEN {} ELSE Stand(s, "samples")
        /\ stage = "coverage" => kept = Stand(s, "samples") \cup Stand(s, "events")

(* The keys walked past are the first ones of the lot.                     *)
Walking ==
    \A s \in Sources, w \in Subsets : s = source /\ w = subset =>
        /\ stage = "keys" =>
             /\ passed \subseteq Lot(s, w)
             /\ \A r \in Lot(s, w), q \in passed : Before(r, q) => r \in passed
             /\ picked = {r \in passed : r \in Stand(s, w)}
             /\ wanted = Report!Ranks(Cardinality(Lot(s, w)), Limit)
                             \ {Place(Lot(s, w), r) + 1 : r \in passed}
        /\ stage = "rows" => picked = Stand(s, w)

(* The answer is the merge, with no more rows than the limit of each kind. *)
Answered ==
    stage = "done" =>
        answer = Report!Spread({e \in Report!Chosen : e.row.sample})
                     \cup Report!Spread({e \in Report!Chosen : ~e.row.sample})

(* The inductive invariant of the report.                                  *)
ReportInv == StoreOK /\ ReportTypes /\ Settled /\ Keeping /\ Walking /\ Answered

-----------------------------------------------------------------------------
(* Only reading a new ceiling changes what is asked of a source.           *)
LEMMA LotStays ==
    ASSUME StoreOK, StoreOK', Grows, NEW s \in Sources,
           limits[s] \in Nat, limits[s] <= Len(db[s]), limits'[s] = limits[s]
    PROVE  \A w : Lot(s, w)' = Lot(s, w) /\ Stand(s, w)' = Stand(s, w)
<1>1. Snapshot(s, limits[s])' = Snapshot(s, limits[s])
  <2>1. \A c \in Nat : c <= Len(db[s]) => Snapshot(s, c)' = Snapshot(s, c)
    BY SnapshotStays
  <2>2. {db'[s][i] : i \in 1..limits[s]} = {db[s][i] : i \in 1..limits[s]}
    BY <2>1 DEF Snapshot
  <2>3. QED  BY <2>2 DEF Snapshot
<1>2. \A w : Lot(s, w)' = Lot(s, w)
  BY <1>1 DEF Lot, Report!Asked
<1>3. \A w : Stand(s, w)' = Stand(s, w)
  BY <1>2 DEF Stand, Standing, Place, Before, Report!Ranks
<1>4. QED  BY <1>2, <1>3

(* The rows a report asks for can be put in order.                         *)
LEMMA LotChains ==
    ASSUME StoreOK, ReportTypes, NEW s \in Sources, NEW w
    PROVE  /\ Lot(s, w) \subseteq Snapshot(s, limits[s]) /\ Lot(s, w) \subseteq Stored
           /\ Chain(Lot(s, w)) /\ Cardinality(Lot(s, w)) \in Nat
           /\ \A a, b \in Lot(s, w) : a.id = b.id => a = b
<1>1. limits[s] \in Nat /\ limits[s] <= Len(db[s])
  BY DEF ReportTypes
<1>2. Lot(s, w) \subseteq Snapshot(s, limits[s])
  BY DEF Lot, Report!Asked
<1>3. /\ Snapshot(s, limits[s]) \subseteq Stored /\ Chain(Snapshot(s, limits[s]))
      /\ \A a, b \in Snapshot(s, limits[s]) : a.id = b.id => a = b
  BY <1>1, SnapshotChains
<1>4. Chain(Lot(s, w)) /\ Cardinality(Lot(s, w)) \in Nat
  BY <1>2, <1>3, PartsOfChain
<1>5. QED  BY <1>2, <1>3, <1>4

(* No source is finished with at the beginning.                            *)
LEMMA ReportBegins == ReadersInit => ReportInv
<1> SUFFICES ASSUME ReadersInit PROVE ReportInv
  OBVIOUS
<1>1. StoreOK
  BY StoreBegins DEF ReadersInit
<1>2. /\ stage = "ceiling" /\ source = "system" /\ subset = "samples"
      /\ limits = [s \in Sources |-> 0] /\ gathered = [s \in Sources |-> {}]
      /\ precedence = {} /\ failed = {}
  BY DEF ReadersInit, Report!ReportInit, Report!Sources, Sources
<1>3. Handled = {}
  BY <1>2 DEF Handled
<1>4. ReportTypes
  <2>1. \A s \in Sources : limits[s] <= Len(db[s])
    <3>1. \A s \in Sources : Len(db[s]) \in Nat
      BY <1>1 DEF StoreOK
    <3>2. QED  BY <1>2, <3>1
  <2>2. source \in Sources /\ subset \in Subsets
    BY <1>2 DEF Sources, Subsets
  <2>3. gathered \in [Sources -> SUBSET Stored] /\ limits \in [Sources -> Nat]
    BY <1>2
  <2>4. QED  BY <1>2, <1>3, <2>1, <2>2, <2>3 DEF ReportTypes
<1>5. Settled
  <2>1. ASSUME NEW s \in Sources PROVE gathered[s] = {} /\ s \notin Handled \ failed
    BY <1>2, <1>3
  <2>2. QED  BY <1>2, <2>1 DEF Settled
<1>6. Keeping /\ Walking /\ Answered
  BY <1>2 DEF Keeping, Walking, Answered
<1>7. QED  BY <1>1, <1>4, <1>5, <1>6 DEF ReportInv

(* The writers' commits, and the viewer's steps.                           *)
LEMMA ReportAside ==
    ASSUME ReportInv, StoreOK', Grows, covered \subseteq covered', UNCHANGED reporting
    PROVE  ReportInv'
<1> USE DEF reporting
<1>1. \A s \in Sources : \A w : Lot(s, w)' = Lot(s, w) /\ Stand(s, w)' = Stand(s, w)
  BY LotStays DEF ReportInv, ReportTypes
<1>2. ReportTypes'
  <2>1. ASSUME NEW s \in Sources PROVE limits[s] <= Len(db'[s])
    <3>1. limits[s] \in Nat /\ limits[s] <= Len(db[s]) /\ Len(db[s]) <= Len(db'[s])
      BY DEF ReportInv, ReportTypes, Grows
    <3>2. Len(db[s]) \in Nat /\ Len(db'[s]) \in Nat
      BY DEF ReportInv, StoreOK
    <3>3. QED  BY <3>1, <3>2
  <2>2. QED  BY <2>1 DEF ReportInv, ReportTypes, Handled
<1>3. Settled'
  <2>1. Handled' = Handled
    BY DEF Handled
  <2>2. QED  BY <1>1, <2>1 DEF ReportInv, Settled
<1>4. Keeping'
  BY <1>1 DEF ReportInv, Keeping
<1>5. Walking'
  <2>1. ASSUME NEW s \in Sources, NEW w \in Subsets, NEW r
        PROVE  Place(Lot(s, w), r)' = Place(Lot(s, w), r)
    BY <1>1 DEF Place, Before
  <2>2. QED  BY <1>1, <2>1 DEF ReportInv, Walking, Report!Ranks, Before
<1>6. Answered'
  <2>1. Report!Chosen' = Report!Chosen
    BY DEF Report!Chosen, Report!Suppressed, Report!Ids
  <2>2. QED  BY <2>1, Zenon DEF ReportInv, Answered, Report!Spread, Report!Ranks, Report!Before
<1>7. QED  BY <1>2, <1>3, <1>4, <1>5, <1>6 DEF ReportInv

(* A step of the report itself: the databases stand still.                 *)
LEMMA StandsStill ==
    ASSUME NEW s \in Sources, UNCHANGED store, limits'[s] = limits[s]
    PROVE  \A w : Lot(s, w)' = Lot(s, w) /\ Stand(s, w)' = Stand(s, w)
<1>1. Snapshot(s, limits[s])' = Snapshot(s, limits[s])
  BY DEF Snapshot, store
<1>2. \A w : Lot(s, w)' = Lot(s, w)
  BY <1>1 DEF Lot, Report!Asked
<1>3. \A w : Stand(s, w)' = Stand(s, w)
  BY <1>2 DEF Stand, Standing, Place, Before, Report!Ranks
<1>4. QED  BY <1>2, <1>3

(* What the WHERE clause selects is the lot being read.                    *)
LEMMA SelectedIsLot ==
    \A s \in Sources, w \in Subsets : s = source /\ w = subset => Report!Selected = Lot(s, w)
BY ReportRows DEF Report!Selected, Lot

(* Opening a source fixes its lots; those of a source that is finished     *)
(* with stand.                                                             *)
LEMMA CeilingRead ==
    ASSUME ReportInv, UNCHANGED store, Report!ReadCeiling
    PROVE  ReportInv'
<1> USE DEF Report!ReadCeiling, Report!results
<1>1. StoreOK'
  BY DEF ReportInv, StoreOK, store
<1>2. source \notin Handled /\ Handled' = Handled
  BY DEF ReportInv, ReportTypes, Handled, Sources
<1>3. \A s \in Sources : Len(db[s]) \in Nat
  BY DEF ReportInv, StoreOK
<1>4. ReportTypes'
  <2>1. limits' \in [Sources -> Nat] /\ \A s \in Sources : limits'[s] <= Len(db[s])
    BY <1>3 DEF ReportInv, ReportTypes
  <2>2. QED  BY <1>2, <2>1 DEF ReportInv, ReportTypes, Subsets, store
<1>5. Settled'
  <2>1. ASSUME NEW s \in Sources, s \in Handled \ failed
        PROVE  \A w : Stand(s, w)' = Stand(s, w)
    <3>1. limits'[s] = limits[s]
      BY <1>2, <2>1 DEF ReportInv, ReportTypes
    <3>2. QED  BY <3>1, StandsStill
  <2>2. QED  BY <1>2, <2>1 DEF ReportInv, Settled
<1>6. Keeping' /\ Walking' /\ Answered'
  BY DEF Keeping, Walking, Answered
<1>7. QED  BY <1>1, <1>4, <1>5, <1>6 DEF ReportInv

(* The other statements of a source leave its snapshot, and what is known  *)
(* of the sources before it.                                               *)
Statement ==
    /\ UNCHANGED <<store, source, limits, gathered, precedence, failed>>
    /\ stage \in {"count", "keys", "rows"} /\ stage' \in {"count", "keys", "rows", "coverage"}
    /\ subset' \in Subsets

(* Such a statement keeps all but what it reads.                           *)
LEMMA StatementKeeps ==
    ASSUME ReportInv, Statement
    PROVE  /\ StoreOK' /\ ReportTypes' /\ Settled' /\ Answered'
           /\ \A s \in Sources : \A w : Lot(s, w)' = Lot(s, w) /\ Stand(s, w)' = Stand(s, w)
<1> USE DEF Statement
<1>1. StoreOK'
  BY DEF ReportInv, StoreOK, store
<1>2. Handled' = Handled
  BY DEF Handled
<1>3. ReportTypes'
  BY <1>2 DEF ReportInv, ReportTypes, store
<1>4. \A s \in Sources : \A w : Lot(s, w)' = Lot(s, w) /\ Stand(s, w)' = Stand(s, w)
  BY StandsStill
<1>5. Settled'
  BY <1>2, <1>4 DEF ReportInv, Settled
<1>6. Answered'
  BY DEF Answered
<1>7. QED  BY <1>1, <1>3, <1>4, <1>5, <1>6

(* Nobody asked for stands for nobody.                                     *)
LEMMA StandsFor ==
    ASSUME ReportInv, NEW s \in Sources, NEW w
    PROVE  Stand(s, w) = {r \in Lot(s, w) :
                Place(Lot(s, w), r) + 1 \in Report!Ranks(Cardinality(Lot(s, w)), Limit)}
BY DEF Stand, Standing

(* After the count nothing was walked past, and every rank is wanted.      *)
LEMMA RowsCounted ==
    ASSUME ReportInv, UNCHANGED store, Report!CountRows
    PROVE  ReportInv'
<1> USE DEF Report!CountRows, Report!results
<1>1. Statement
  BY DEF Statement, ReportInv, ReportTypes
<1>2. Keeping'
  BY <1>1, StatementKeeps DEF ReportInv, Keeping
<1>3. ASSUME NEW s \in Sources, NEW w \in Subsets, s = source, w = subset
      PROVE  /\ stage' = "keys" =>
                  /\ passed' = {} /\ picked' = {}
                  /\ wanted' = Report!Ranks(Cardinality(Lot(s, w)), Limit)
             /\ stage' = "rows" => picked' = Stand(s, w)
  <2>1. Report!Selected = Lot(s, w)
    BY <1>3, SelectedIsLot
  <2>2. Lot(s, w) = {} => Stand(s, w) = {}
    BY DEF Stand, Standing
  <2>3. wanted' = Report!Ranks(Cardinality(Lot(s, w)), Limit) /\ passed' = {} /\ picked' = {}
    BY <2>1, ReportRows
  <2>4. stage' = "rows" => Lot(s, w) = {}
    BY <2>1
  <2>5. QED  BY <2>2, <2>3, <2>4
<1>4. Walking'
  <2>1. ASSUME NEW s \in Sources, NEW w \in Subsets
        PROVE  Lot(s, w)' = Lot(s, w) /\ Stand(s, w)' = Stand(s, w)
    BY <1>1, StatementKeeps
  <2>2. ASSUME NEW s \in Sources, NEW w \in Subsets, s = source', w = subset'
        PROVE  /\ stage' = "keys" =>
                    /\ passed' = {} /\ picked' = {}
                    /\ wanted' = Report!Ranks(Cardinality(Lot(s, w)'), Limit)
               /\ stage' = "rows" => picked' = Stand(s, w)'
    BY <1>3, <2>1, <2>2
  <2>3. ASSUME NEW s \in Sources, NEW w \in Subsets, passed' = {}
        PROVE  /\ {Place(Lot(s, w), r) + 1 : r \in passed}' = {}
               /\ {r \in passed : r \in Stand(s, w)}' = {}
               /\ (passed \subseteq Lot(s, w))'
               /\ (\A r \in Lot(s, w), q \in passed : Before(r, q) => r \in passed)'
    BY <2>3
  <2>4. QED  BY ONLY <2>2, <2>3 DEF Walking, Report!Ranks
<1>5. QED  BY <1>1, <1>2, <1>4, StatementKeeps DEF ReportInv

(* A page of keys goes on where the keys walked past end: the rank that is *)
(* counted along the way is the place in the whole lot.                    *)
LEMMA KeysContinue ==
    ASSUME NEW D, Chain(D), NEW P, P \subseteq D,
           \A r \in D, q \in P : Before(r, q) => r \in P
    PROVE  LET ahead == {r \in D : \A q \in P : Before(q, r)}
               page == FirstOf(ahead, KeyPage)
               Rank(r) == Cardinality(P) + Cardinality({q \in page : Before(q, r)}) + 1
           IN  /\ page \subseteq D \ P
               /\ \A r \in page : Rank(r) = Place(D, r) + 1
               /\ \A r \in D, q \in P \cup page : Before(r, q) => r \in P \cup page
               /\ page = {} => P = D
<1> DEFINE ahead == {r \in D : \A q \in P : Before(q, r)}
           page == FirstOf(ahead, KeyPage)
           Rank(r) == Cardinality(P) + Cardinality({q \in page : Before(q, r)}) + 1
<1>1. ahead = D \ P
  <2>1. ASSUME NEW r \in ahead PROVE r \in D \ P
    BY ChainIsOrdered
  <2>2. ASSUME NEW r \in D \ P, NEW q \in P PROVE Before(q, r)
    BY <2>2, ChainIsOrdered
  <2>3. QED  BY <2>1, <2>2
<1>2. KeyPage \in Nat /\ KeyPage > 0
  BY ReportLimits DEF Report!ReportAssumption
<1>3. Chain(ahead) /\ Chain(P)
  BY <1>1, PartsOfChain
<1>4. /\ page \subseteq ahead
      /\ \A r \in ahead, q \in page : Before(r, q) => r \in page
      /\ \A r \in ahead \ page : Cardinality(page) = KeyPage
  BY <1>2, <1>3, TheFirstFew
<1>5. page \subseteq D \ P
  BY <1>1, <1>4
<1>6. ASSUME NEW r \in page PROVE Rank(r) = Place(D, r) + 1
  <2> DEFINE Q == {q \in page : Before(q, r)}
  <2>1. {q \in D : Before(q, r)} = P \cup Q
    <3>1. ASSUME NEW q \in D, Before(q, r), q \notin P PROVE q \in Q
      BY <1>1, <1>4, <3>1
    <3>2. ASSUME NEW q \in P PROVE Before(q, r)
      BY <1>4
    <3>3. QED  BY <1>5, <3>1, <3>2
  <2>2. IsFiniteSet(P) /\ IsFiniteSet(Q) /\ P \cap Q = {}
    <3>1. Q \subseteq ahead
      BY <1>4
    <3>2. IsFiniteSet(P) /\ IsFiniteSet(Q)
      BY <3>1, <1>3, FS_Subset DEF Chain
    <3>3. QED  BY <3>2, <1>5
  <2>3. /\ Cardinality(P \cup Q) = Cardinality(P) + Cardinality(Q)
        /\ Cardinality(P) \in Nat /\ Cardinality(Q) \in Nat
    <3>1. Cardinality(P \cap Q) = 0
      BY <2>2, FS_EmptySet
    <3>2. Cardinality(P \cup Q) = Cardinality(P) + Cardinality(Q) - Cardinality(P \cap Q)
      BY <2>2, FS_Union
    <3>3. Cardinality(P) \in Nat /\ Cardinality(Q) \in Nat
      BY <2>2, FS_CardinalityType
    <3>4. QED  BY <3>1, <3>2, <3>3
  <2>4. QED  BY <2>1, <2>3 DEF Place
<1>7. ASSUME NEW r \in D, NEW q \in P \cup page, Before(r, q) PROVE r \in P \cup page
  <2>1. CASE q \in P
    BY <1>7, <2>1
  <2>2. CASE q \in page
    BY <1>1, <1>4, <1>7, <2>2
  <2>3. QED  BY <2>1, <2>2
<1>8. ASSUME page = {} PROVE P = D
  <2>1. SUFFICES ASSUME ahead # {} PROVE FALSE
    BY <1>1
  <2>2. PICK r \in ahead : \A q \in ahead : ~Before(q, r)
    BY <1>3, <2>1, FirstExists
  <2>3. {q \in ahead : Before(q, r)} = {}
    BY <2>2
  <2>4. Cardinality({q \in ahead : Before(q, r)}) < KeyPage
    BY <2>3, <1>2, FS_EmptySet
  <2>5. QED  BY <1>8, <2>4 DEF FirstOf
<1>9. QED  BY <1>5, <1>6, <1>7, <1>8

(* A page of keys: whether a row is picked is settled when its key is      *)
(* walked past, and the walk ends when no rank is wanted or no key is      *)
(* left.                                                                   *)
LEMMA KeysRead ==
    ASSUME ReportInv, UNCHANGED store, Report!ReadKeys
    PROVE  ReportInv'
<1>1. Statement
  BY DEF Statement, ReportInv, ReportTypes, Report!ReadKeys, Report!results
<1>2. Keeping'
  BY <1>1, StatementKeeps DEF ReportInv, Keeping, Report!ReadKeys
<1>3. ASSUME NEW s \in Sources, NEW w \in Subsets, s = source, w = subset
      PROVE  /\ stage' = "keys" =>
                  /\ passed' \subseteq Lot(s, w)
                  /\ \A r \in Lot(s, w), q \in passed' : Before(r, q) => r \in passed'
                  /\ picked' = {r \in passed' : r \in Stand(s, w)}
                  /\ wanted' = Report!Ranks(Cardinality(Lot(s, w)), Limit)
                                   \ {Place(Lot(s, w), r) + 1 : r \in passed'}
             /\ stage' = "rows" => picked' = Stand(s, w)
  <2> DEFINE D == Lot(s, w)
             R == Report!Ranks(Cardinality(D), Limit)
             ahead == {r \in D : \A q \in passed : Before(q, r)}
             page == FirstOf(ahead, KeyPage)
             Rank(r) == Cardinality(passed) + Cardinality({q \in page : Before(q, r)}) + 1
             hits == {r \in page : Rank(r) \in wanted}
  <2>1. /\ passed \subseteq D /\ \A r \in D, q \in passed : Before(r, q) => r \in passed
        /\ picked = {r \in passed : r \in Stand(s, w)}
        /\ wanted = R \ {Place(D, r) + 1 : r \in passed}
    BY <1>3 DEF ReportInv, Walking, Report!ReadKeys
  <2>2. Chain(D)
    BY LotChains DEF ReportInv
  <2>3. /\ page \subseteq D \ passed /\ \A r \in page : Rank(r) = Place(D, r) + 1
        /\ \A r \in D, q \in passed \cup page : Before(r, q) => r \in passed \cup page
        /\ page = {} => passed = D
    BY <2>1, <2>2, KeysContinue
  <2>4. /\ picked' = picked \cup hits
        /\ wanted' = wanted \ {Rank(r) : r \in hits}
        /\ passed' = passed \cup page
        /\ stage' = IF wanted' = {} \/ page = {} THEN "rows" ELSE "keys"
    <3>1. Report!Selected = D
      BY <1>3, SelectedIsLot
    <3>2. {r \in Report!Selected : \A q \in passed : Report!Before(q, r)} = ahead
      BY <3>1, ReportRows
    <3>3. \A S, r : {q \in S : Report!Before(q, r)} = {q \in S : Before(q, r)}
      BY ReportRows
    <3>4. Report!FirstOf(ahead, KeyPage) = page
      BY ReportRows
    <3> DEFINE Counted(r) == Report!Cardinality(passed)
                                 + Report!Cardinality({q \in page : Report!Before(q, r)}) + 1
    <3>5. \A r : Counted(r) = Rank(r)
      BY <3>3, ReportRows
    <3>6. /\ picked' = picked \cup {r \in page : Counted(r) \in wanted}
          /\ wanted' = wanted \ {Counted(r) : r \in {r \in page : Counted(r) \in wanted}}
          /\ passed' = passed \cup page
          /\ stage' = IF wanted' = {} \/ page = {} THEN "rows" ELSE "keys"
      BY <3>2, <3>4 DEF Report!ReadKeys
    <3> HIDE DEF Counted, Rank, page
    <3>7. {r \in page : Counted(r) \in wanted} = hits
      BY <3>5
    <3>8. {Counted(r) : r \in hits} = {Rank(r) : r \in hits}
      BY <3>5
    <3>9. QED  BY <3>6, <3>7, <3>8
  <2> HIDE DEF D, R, ahead, page, Rank
  <2>5. \A r \in D : r \in Stand(s, w) <=> Place(D, r) + 1 \in R
    BY StandsFor DEF D, R
  <2>6. ASSUME NEW r \in D, NEW q \in D, Place(D, r) + 1 = Place(D, q) + 1
        PROVE  r = q
    BY <2>2, <2>6, PlaceIsBounded, PlaceIsUnique
  <2>7. \A r \in page : r \in hits <=> r \in Stand(s, w)
    BY <2>1, <2>3, <2>5, <2>6
  <2>8. picked' = {r \in passed' : r \in Stand(s, w)}
    BY <2>1, <2>4, <2>7
  <2>9. wanted' = R \ {Place(D, r) + 1 : r \in passed'}
    <3>1. ASSUME NEW k \in R, NEW r \in passed', k = Place(D, r) + 1 PROVE k \notin wanted'
      <4>1. CASE r \in passed
        BY <2>1, <2>4, <3>1, <4>1
      <4>2. CASE r \in page
        BY <2>1, <2>3, <2>4, <3>1, <4>2
      <4>3. QED  BY <2>4, <4>1, <4>2
    <3>2. ASSUME NEW k \in R, k \notin {Place(D, r) + 1 : r \in passed'} PROVE k \in wanted'
      BY <2>1, <2>3, <2>4, <3>2
    <3>3. wanted' \subseteq R
      BY <2>1, <2>4
    <3>4. QED  BY <3>1, <3>2, <3>3
  <2>10. ASSUME stage' = "rows" PROVE picked' = Stand(s, w)
    <3>1. Stand(s, w) \subseteq D
      BY DEF Stand, Standing, D
    <3>2. ASSUME NEW r \in Stand(s, w) PROVE r \in passed'
      <4>1. CASE page = {}
        BY <2>3, <2>4, <3>1, <4>1
      <4>2. CASE wanted' = {}
        <5>1. PICK q \in passed' : Place(D, r) + 1 = Place(D, q) + 1
          BY <2>5, <2>9, <3>1, <4>2
        <5>2. q \in D /\ r \in D
          BY <2>1, <2>3, <2>4, <3>1
        <5>3. QED  BY <2>6, <5>1, <5>2
      <4>3. QED  BY <2>4, <2>10, <4>1, <4>2
    <3>3. QED  BY <2>8, <3>2
  <2>11. passed' \subseteq D /\ \A r \in D, q \in passed' : Before(r, q) => r \in passed'
    BY <2>1, <2>3, <2>4
  <2>12. QED  BY <2>8, <2>9, <2>10, <2>11 DEF D, R
<1>4. Walking'
  <2>1. ASSUME NEW s \in Sources, NEW w \in Subsets
        PROVE  Lot(s, w)' = Lot(s, w) /\ Stand(s, w)' = Stand(s, w)
    BY <1>1, StatementKeeps
  <2>2. source' = source /\ subset' = subset
    BY DEF Report!ReadKeys
  <2>3. ASSUME NEW s \in Sources, NEW w \in Subsets, NEW r
        PROVE  Place(Lot(s, w), r)' = Place(Lot(s, w), r)
    BY <2>1 DEF Place, Before
  <2>4. ASSUME NEW s \in Sources, NEW w \in Subsets, s = source', w = subset'
        PROVE  /\ stage' = "keys" =>
                    /\ passed' \subseteq Lot(s, w)
                    /\ \A r \in Lot(s, w), q \in passed' : Before(r, q) => r \in passed'
                    /\ picked' = {r \in passed' : r \in Stand(s, w)}
                    /\ wanted' = Report!Ranks(Cardinality(Lot(s, w)), Limit)
                                     \ {Place(Lot(s, w), r) + 1 : r \in passed'}
               /\ stage' = "rows" => picked' = Stand(s, w)
    BY <1>3, <2>2, <2>4
  <2>5. QED  BY <2>1, <2>3, <2>4 DEF Walking, Before, Report!Ranks
<1>5. QED  BY <1>1, <1>2, <1>4, StatementKeeps DEF ReportInv

(* The end of a source, read or failed: the next one, or the merge.        *)
LEMMA SourceEnds ==
    ASSUME ReportInv, UNCHANGED <<store, limits>>, Report!NextSource,
           stage \in {"ceiling", "count", "keys", "rows", "coverage"}
    PROVE  /\ StoreOK' /\ Handled' = Handled \cup {source} /\ source \notin Handled
           /\ stage' \in {"ceiling", "merge"} /\ source' \in Sources
           /\ \A s \in Sources : \A w : Stand(s, w)' = Stand(s, w)
           /\ Keeping' /\ Walking' /\ Answered'
<1>1. StoreOK'
  BY DEF ReportInv, StoreOK, store
<1>2. CASE source = "system"
  <2>1. stage' = "ceiling" /\ source' = "user"
    BY <1>2 DEF Report!NextSource
  <2>2. Handled = {} /\ Handled' = {"system"}
    BY <1>2, <2>1 DEF Handled
  <2>3. QED  BY <1>1, <1>2, <2>1, <2>2, StandsStill DEF Keeping, Walking, Answered, Sources
<1>3. CASE source = "user"
  <2>1. stage' = "merge" /\ source' = "user"
    BY <1>3 DEF Report!NextSource
  <2>2. Handled = {"system"} /\ Handled' = Sources
    BY <1>3, <2>1 DEF Handled
  <2>3. QED  BY <1>1, <1>3, <2>1, <2>2, StandsStill DEF Keeping, Walking, Answered, Sources
<1>4. QED  BY <1>2, <1>3 DEF ReportInv, ReportTypes, Sources

(* A source that fails leaves nothing, and gives the system's coverage no  *)
(* precedence.                                                             *)
LEMMA SourceFailed ==
    ASSUME ReportInv, UNCHANGED store, Report!Fails,
           stage \in {"ceiling", "count", "keys", "rows", "coverage"}
    PROVE  ReportInv'
<1> USE DEF Report!Fails
<1>1. /\ StoreOK' /\ Handled' = Handled \cup {source} /\ source \notin Handled
      /\ stage' \in {"ceiling", "merge"} /\ source' \in Sources
      /\ \A s \in Sources : \A w : Stand(s, w)' = Stand(s, w)
      /\ Keeping' /\ Walking' /\ Answered'
  BY SourceEnds
<1>2. ReportTypes'
  BY <1>1 DEF ReportInv, ReportTypes, store
<1>3. Handled' \ failed' = Handled \ failed
  BY <1>1
<1>4. Settled'
  BY <1>1, <1>3 DEF ReportInv, Settled
<1>5. QED  BY <1>1, <1>2, <1>4 DEF ReportInv

(* The last statement of a source hands over what was kept of it.          *)
LEMMA CoverageRead ==
    ASSUME ReportInv, UNCHANGED store, Report!ReadCoverage
    PROVE  ReportInv'
<1> USE DEF Report!ReadCoverage
<1>1. /\ StoreOK' /\ Handled' = Handled \cup {source} /\ source \notin Handled
      /\ stage' \in {"ceiling", "merge"} /\ source' \in Sources
      /\ \A s \in Sources : \A w : Stand(s, w)' = Stand(s, w)
      /\ Keeping' /\ Walking' /\ Answered'
  BY SourceEnds
<1>2. kept = Stand(source, "samples") \cup Stand(source, "events") /\ kept \subseteq Stored
  <2>1. \A s \in Sources : \A w : Stand(s, w) \subseteq Stored
    BY LotChains DEF ReportInv, Stand, Standing
  <2>2. QED  BY <2>1 DEF ReportInv, ReportTypes, Keeping
<1>3. ReportTypes'
  <2>1. gathered' \in [Sources -> SUBSET Stored]
    BY <1>2 DEF ReportInv, ReportTypes
  <2>2. precedence' \subseteq covered'
    BY DEF ReportInv, ReportTypes, store
  <2>3. QED  BY <1>1, <2>1, <2>2 DEF ReportInv, ReportTypes, store
<1>4. Settled'
  <2>1. source \notin failed /\ failed' = failed /\ source \in Sources
    BY <1>1 DEF ReportInv, ReportTypes
  <2>2. ASSUME NEW s \in Sources
        PROVE  gathered'[s] = IF s \in Handled' \ failed'
                              THEN Stand(s, "samples") \cup Stand(s, "events") ELSE {}
    <3>1. CASE s = source
      BY <1>1, <1>2, <2>1, <3>1 DEF ReportInv, ReportTypes
    <3>2. CASE s # source
      BY <1>1, <2>1, <3>2 DEF ReportInv, ReportTypes, Settled
    <3>3. QED  BY <3>1, <3>2
  <2>3. "system" \notin Handled' \ failed' => precedence' = {}
    BY <1>1, <2>1 DEF ReportInv, Settled
  <2>4. QED  BY <1>1, <2>2, <2>3 DEF Settled
<1>5. QED  BY <1>1, <1>3, <1>4 DEF ReportInv

(* The rows picked are read: one that cannot be decoded fails the source.  *)
LEMMA RowsRead ==
    ASSUME ReportInv, UNCHANGED store, Report!ReadRows
    PROVE  ReportInv'
<1>1. CASE Report!Fails
  BY <1>1, SourceFailed DEF Report!ReadRows
<1>2. CASE /\ kept' = kept \cup picked
           /\ IF subset = "samples" THEN stage' = "count" /\ subset' = "events"
                                    ELSE stage' = "coverage" /\ UNCHANGED subset
           /\ UNCHANGED <<source, limits, wanted, passed, picked, Report!results>>
  <2>1. Statement
    BY <1>2 DEF Statement, ReportInv, ReportTypes, Report!ReadRows, Report!results, Subsets
  <2>2. picked = Stand(source, subset)
        /\ kept = IF subset = "samples" THEN {} ELSE Stand(source, "samples")
    BY DEF ReportInv, ReportTypes, Walking, Keeping, Report!ReadRows
  <2>3. Keeping'
    <3>1. \A s \in Sources : s = source' =>
              /\ stage' \in {"count", "keys", "rows"} =>
                   kept' = IF subset' = "samples" THEN {} ELSE Stand(s, "samples")
              /\ stage' = "coverage" => kept' = Stand(s, "samples") \cup Stand(s, "events")
      BY <1>2, <2>2 DEF ReportInv, ReportTypes, Subsets
    <3>2. QED  BY <2>1, <3>1, StatementKeeps DEF Keeping
  <2>4. Walking'
    BY <1>2 DEF Walking
  <2>5. QED  BY <2>1, <2>3, <2>4, StatementKeeps DEF ReportInv
<1>3. QED  BY <1>1, <1>2 DEF Report!ReadRows

(* Merging changes nothing of what was gathered.                           *)
LEMMA SourcesMerged ==
    ASSUME ReportInv, UNCHANGED store, Report!MergeSources
    PROVE  ReportInv'
<1> USE DEF Report!MergeSources
<1>1. StoreOK' /\ Handled' = Handled
  BY DEF ReportInv, StoreOK, store, Handled
<1>2. \A s \in Sources : \A w : Stand(s, w)' = Stand(s, w)
  BY StandsStill
<1>3. ReportTypes' /\ Settled'
  BY <1>1, <1>2 DEF ReportInv, ReportTypes, Settled, store
<1>4. Keeping' /\ Walking'
  BY DEF Keeping, Walking
<1>5. Answered'
  <2>1. Report!Chosen' = Report!Chosen
    BY DEF Report!Chosen, Report!Suppressed, Report!Ids
  <2>2. QED  BY <2>1, Zenon DEF Answered, Report!Spread, Report!Ranks, Report!Before
<1>6. QED  BY <1>1, <1>3, <1>4, <1>5 DEF ReportInv

(* Every step keeps the report's invariant, its own or another process's.  *)
LEMMA ReportSteps == ReportInv /\ [ReadersNext]_readers => ReportInv'
<1> SUFFICES ASSUME ReportInv, [ReadersNext]_readers PROVE ReportInv'
  OBVIOUS
<1>1. CASE Report!ReportNext /\ UNCHANGED <<store, viewer>>
  BY <1>1, CeilingRead, RowsCounted, KeysRead, RowsRead, CoverageRead, SourceFailed, SourcesMerged
     DEF Report!ReportNext, Report!SourceFails
<1>2. CASE UNCHANGED reporting /\ (Appends \/ UNCHANGED store)
  BY <1>2, StoreSteps, ReportAside DEF ReportInv
<1>3. QED  BY <1>1, <1>2 DEF ReadersNext, readers

(* The report's invariant holds throughout.                                *)
LEMMA ReportInvariant == ReadersSpec => []ReportInv
BY ReportBegins, ReportSteps, PTL DEF ReadersSpec

(* At the end every source that did not fail has all its representatives.  *)
LEMMA EndOfReport ==
    ASSUME ReportInv, stage = "done", NEW s \in Sources
    PROVE  gathered[s] = IF s \in failed THEN {} ELSE Stand(s, "samples") \cup Stand(s, "events")
BY DEF ReportInv, Settled, Handled

(* What was due of a source, and its two lots.                             *)
LEMMA DueInLots ==
    ASSUME NEW s \in Sources
    PROVE  /\ \A w : Report!Asked(Report!Due(s), w) = Lot(s, w)
           /\ \A w : Lot(s, w) \subseteq Report!Due(s)
           /\ \A r \in Report!Due(s) : r \in Lot(s, IF r.sample THEN "samples" ELSE "events")
           /\ Report!Due(s) \subseteq Snapshot(s, limits[s])
<1>1. Report!Due(s) = {r \in Snapshot(s, limits[s]) : r.at \in Interval}
  BY ReportRows DEF Report!Due
<1>2. QED  BY <1>1 DEF Report!Asked, Lot

(* Of a source's snapshot no identity occurs twice.                        *)
LEMMA StoredOnce ==
    ASSUME ReportInv, NEW s \in Sources
    PROVE  /\ Snapshot(s, limits[s]) \subseteq Stored
           /\ \A a, b \in Snapshot(s, limits[s]) : a.id = b.id => a = b
BY SnapshotChains DEF ReportInv, ReportTypes

(* The report's entries come from rows gathered, each identity once.       *)
LEMMA ChosenOnce ==
    ASSUME ReportInv, stage = "done"
    PROVE  /\ \A e \in Report!Chosen :
                /\ e.source \in Sources /\ e.row \in gathered[e.source]
                /\ e.source \notin failed /\ e.row \in Report!Due(e.source)
                /\ e = [source |-> e.source, row |-> e.row]
           /\ \A e, f \in Report!Chosen : e.row.id = f.row.id => e = f
<1>1. \A s \in Sources : \A r \in gathered[s] : s \notin failed /\ r \in Report!Due(s)
  BY EndOfReport, DueInLots DEF Stand, Standing
<1>2. ASSUME NEW e \in Report!Chosen
      PROVE  /\ e.source \in Sources /\ e.row \in gathered[e.source]
             /\ e = [source |-> e.source, row |-> e.row]
             /\ e.source = "user" => e.row.id \notin Ids(gathered["system"])
  BY ReportRows DEF Report!Chosen, Sources
<1>3. ASSUME NEW e \in Report!Chosen, NEW f \in Report!Chosen, e.row.id = f.row.id
      PROVE  e = f
  <2>1. ASSUME NEW a \in Report!Chosen, NEW b \in Report!Chosen, a.row.id = b.row.id,
               a.source = "system", b.source = "user"
        PROVE  FALSE
    BY <1>2, <2>1 DEF Ids
  <2>2. e.source = f.source
    BY <1>2, <1>3, <2>1 DEF Sources
  <2>3. e.row = f.row
    BY <1>1, <1>2, <1>3, <2>2, DueInLots, StoredOnce
  <2>4. QED  BY <1>2, <2>2, <2>3
<1>4. QED  BY <1>1, <1>2, <1>3

(* Of a lot that fits, every row stands for itself.                        *)
LEMMA LotsThatFit ==
    ASSUME ReportInv, NEW s \in Sources, NEW w \in Subsets, Cardinality(Lot(s, w)) <= Limit
    PROVE  Stand(s, w) = Lot(s, w)
<1>1. Chain(Lot(s, w)) /\ Cardinality(Lot(s, w)) \in Nat
  BY LotChains DEF ReportInv
<1>2. Report!Ranks(Cardinality(Lot(s, w)), Limit) = 1..Cardinality(Lot(s, w))
  BY DEF Report!Ranks
<1>3. \A r \in Lot(s, w) : Place(Lot(s, w), r) + 1 \in 1..Cardinality(Lot(s, w))
  BY <1>1, PlaceIsBounded
<1>4. QED  BY <1>2, <1>3 DEF Stand, Standing

(* A row that others stand for has such rows on both sides, and they are   *)
(* as many as may be.                                                      *)
LEMMA OthersStand ==
    ASSUME NEW Q, Chain(Q), NEW r \in Q, r \notin Standing(Q)
    PROVE  /\ Cardinality(Standing(Q)) = Limit
           /\ \E a, b \in Standing(Q) : Before(a, r) /\ Before(r, b)
<1> DEFINE n == Cardinality(Q)
           R == Report!Ranks(n, Limit)
<1>1. n \in Nat /\ Limit \in Nat /\ Limit > 1
  BY FS_CardinalityType, ReportLimits DEF Chain, Report!ReportAssumption
<1>2. Place(Q, r) \in Nat /\ Place(Q, r) < n
  BY PlaceIsBounded
<1> HIDE DEF n
<1>3. /\ R \subseteq 1..n /\ (n <= Limit => R = 1..n)
      /\ Cardinality(R) = (IF n <= Limit THEN n ELSE Limit)
      /\ n # 0 => {1, n} \subseteq R
  BY <1>1, RanksSpan
<1>4. Place(Q, r) + 1 \notin R
  BY DEF Standing, n
<1> HIDE DEF R
<1>5. n > Limit /\ Cardinality(R) = Limit /\ 1 \in R /\ n \in R
  BY <1>1, <1>2, <1>3, <1>4
<1>6. Standing(Q) = {q \in Q : Place(Q, q) + 1 \in R}
  BY DEF Standing, n, R
<1>7. Cardinality(Standing(Q)) = Limit
  BY <1>3, <1>5, <1>6, AsManyAsPlaces DEF n
<1>8. PICK a \in Q : Place(Q, a) = 0
  BY <1>1, <1>5, PlaceIsTaken DEF n
<1>9. PICK b \in Q : Place(Q, b) = n - 1
  BY <1>1, <1>5, PlaceIsTaken DEF n
<1>10. a \in Standing(Q) /\ b \in Standing(Q)
  BY <1>1, <1>5, <1>6, <1>8, <1>9
<1>11. 0 < Place(Q, r) /\ Place(Q, r) < n - 1
  BY <1>1, <1>2, <1>4, <1>5
<1>12. Before(a, r) /\ Before(r, b)
  BY <1>8, <1>9, <1>11, PlaceTellsOrder
<1>13. QED  BY <1>7, <1>10, <1>12

(* The rows chosen of one kind, and those the merge shows of them.         *)
Entries(flag) == {e \in Report!Chosen : e.row.sample = flag}
ChosenRows(flag) == {e.row : e \in Entries(flag)}

(* The rows chosen can be put in order.                                    *)
LEMMA ChosenChains ==
    ASSUME ReportInv, stage = "done", NEW flag \in BOOLEAN
    PROVE  ChosenRows(flag) \subseteq Stored /\ Chain(ChosenRows(flag))
<1> DEFINE Q == ChosenRows(flag)
           S == Snapshot("system", limits["system"])
           U == Snapshot("user", limits["user"])
<1>1. "system" \in Sources /\ "user" \in Sources
  BY DEF Sources
<1>2. /\ S \subseteq Stored /\ IsFiniteSet(S) /\ U \subseteq Stored /\ IsFiniteSet(U)
  BY <1>1, SnapshotChains DEF ReportInv, ReportTypes, Chain
<1>3. ASSUME NEW e \in Report!Chosen PROVE e.row \in S \cup U
  <2>1. e.source \in Sources /\ e.row \in Report!Due(e.source)
    BY <1>3, ChosenOnce
  <2>2. e.row \in Snapshot(e.source, limits[e.source])
    BY <2>1, DueInLots
  <2>3. QED  BY <2>1, <2>2 DEF Sources
<1>4. Q \subseteq S \cup U
  BY <1>3 DEF ChosenRows, Entries
<1>5. IsFiniteSet(Q)
  BY <1>2, <1>4, FS_Union, FS_Subset
<1>6. ASSUME NEW a \in Q, NEW b \in Q, a.id = b.id PROVE a = b
  BY <1>6, ChosenOnce DEF ChosenRows, Entries
<1> HIDE DEF S, U
<1>7. QED  BY <1>2, <1>4, <1>5, <1>6 DEF Chain, Stored

(* The merge keeps the entries whose rows stand for the rows chosen.       *)
LEMMA SpreadStands ==
    ASSUME NEW flag
    PROVE  Report!Spread(Entries(flag)) = {e \in Entries(flag) : e.row \in Standing(ChosenRows(flag))}
<1> DEFINE P == Entries(flag)
           Q == ChosenRows(flag)
           A(r) == Report!Cardinality({q \in Q : Report!Before(q, r)}) + 1
<1>1. ASSUME NEW r PROVE A(r) = Place(Q, r) + 1
  <2>1. {q \in Q : Report!Before(q, r)} = {q \in Q : Before(q, r)}
    BY ReportRows
  <2>2. QED  BY <2>1, ReportRows DEF Place
<1>2. Report!Cardinality(Q) = Cardinality(Q)
  BY ReportRows
<1>3. Report!Spread(P) = {e \in P : A(e.row) \in Report!Ranks(Report!Cardinality(Q), Limit)}
  BY DEF Report!Spread, ChosenRows
<1>4. \A e \in P : e.row \in Q
  BY DEF ChosenRows
<1> HIDE DEF P, Q, A
<1>5. QED  BY <1>1, <1>2, <1>3, <1>4 DEF Standing, P, Q

(* What is told of one kind is what stands for the rows chosen.            *)
LEMMA WhatIsTold ==
    ASSUME ReportInv, stage = "done"
    PROVE  /\ answer \subseteq Report!Chosen
           /\ \A e \in Report!Chosen : e \in answer <=> e.row \in Standing(ChosenRows(e.row.sample))
           /\ \A r : r.sample \in BOOLEAN =>
                Report!Told(Report!Kind(r)) = Standing(ChosenRows(r.sample))
<1>1. \A e \in Report!Chosen : e.row \in Stored /\ e.row.sample \in BOOLEAN
  BY ChosenOnce, DueInLots, StoredOnce DEF Stored
<1>2. answer = Report!Spread(Entries(TRUE)) \cup Report!Spread(Entries(FALSE))
  <2>1. /\ {e \in Report!Chosen : e.row.sample} = Entries(TRUE)
        /\ {e \in Report!Chosen : ~e.row.sample} = Entries(FALSE)
    BY <1>1 DEF Entries
  <2>2. QED  BY <2>1 DEF ReportInv, Answered
<1>3. \A flag \in BOOLEAN : Report!Spread(Entries(flag)) =
          {e \in Entries(flag) : e.row \in Standing(ChosenRows(flag))}
  BY SpreadStands
<1>4. answer \subseteq Report!Chosen
  BY <1>2, <1>3 DEF Entries
<1>5. ASSUME NEW e \in Report!Chosen
      PROVE  e \in answer <=> e.row \in Standing(ChosenRows(e.row.sample))
  <2>1. CASE e.row.sample = TRUE
    <3>1. e \in Entries(TRUE) /\ e \notin Entries(FALSE)
      BY <2>1 DEF Entries
    <3>2. QED  BY <1>2, <1>3, <2>1, <3>1
  <2>2. CASE e.row.sample = FALSE
    <3>1. e \in Entries(FALSE) /\ e \notin Entries(TRUE)
      BY <2>2 DEF Entries
    <3>2. QED  BY <1>2, <1>3, <2>2, <3>1
  <2>3. QED  BY <1>1, <2>1, <2>2
<1>6. ASSUME NEW r, r.sample \in BOOLEAN
      PROVE  Report!Told(Report!Kind(r)) = Standing(ChosenRows(r.sample))
  <2>1. \A e \in Report!Chosen : Report!Kind(e.row) = Report!Kind(r) <=> e.row.sample = r.sample
    BY <1>1, <1>6 DEF Report!Kind
  <2>2. ASSUME NEW x \in Report!Told(Report!Kind(r)) PROVE x \in Standing(ChosenRows(r.sample))
    <3>1. PICK e \in answer : x = e.row /\ Report!Kind(r) = Report!Kind(x)
      BY <2>2 DEF Report!Told
    <3>2. e \in Report!Chosen /\ e.row.sample = r.sample
      BY <1>4, <2>1, <3>1
    <3>3. QED  BY <1>5, <3>1, <3>2
  <2>3. ASSUME NEW x \in Standing(ChosenRows(r.sample)) PROVE x \in Report!Told(Report!Kind(r))
    <3>1. PICK e \in Report!Chosen : x = e.row /\ e.row.sample = r.sample
      BY <2>3 DEF Standing, ChosenRows, Entries
    <3>2. e \in answer
      BY <1>5, <2>3, <3>1
    <3>3. Report!Kind(r) = Report!Kind(x)
      BY <2>1, <3>1
    <3>4. QED  BY <3>1, <3>2, <3>3 DEF Report!Told
  <2>4. QED  BY <2>2, <2>3
<1>7. QED  BY <1>4, <1>5, <1>6

(* A row gathered that was not chosen was replaced, or is covered.         *)
LEMMA NotChosen ==
    ASSUME ReportInv, stage = "done", NEW s \in Sources, NEW r \in gathered[s],
           [source |-> s, row |-> r] \notin Report!Chosen
    PROVE  Report!Replaced(s, r)
<1>1. s = "user" /\ (r.id \in Ids(gathered["system"]) \/ (r.sample /\ r.boot \in precedence))
  BY ReportRows DEF Report!Chosen, Report!Suppressed, Sources
<1>2. "system" \in Sources
  BY DEF Sources
<1>3. CASE r.id \in Ids(gathered["system"])
  <2>1. "system" \notin failed
    BY <1>2, <1>3, EndOfReport DEF Ids
  <2>2. gathered["system"] \subseteq Report!Due("system")
    BY <1>2, EndOfReport, DueInLots DEF Stand, Standing
  <2>3. r.id \in Ids(Report!Due("system"))
    BY <1>3, <2>2 DEF Ids
  <2>4. QED  BY <1>1, <2>1, <2>3, ReportRows DEF Report!Replaced
<1>4. CASE r.sample /\ r.boot \in precedence
  <2>1. "system" \notin failed /\ precedence \subseteq covered
    BY <1>4 DEF ReportInv, ReportTypes, Settled
  <2>2. QED  BY <1>1, <1>4, <2>1 DEF Report!Replaced
<1>5. QED  BY <1>1, <1>3, <1>4

(* At the end the invariant says that nothing is hidden,                   *)
LEMMA NothingIsHidden == ReportInv => NothingHidden
<1> SUFFICES ASSUME ReportInv, stage = "done" PROVE Report!NothingHidden
  BY DEF NothingHidden, Report!NothingHidden, Report!Done
<1>1. answer \subseteq Report!Chosen
  BY WhatIsTold
<1>2. /\ \A e \in answer : e.source \notin failed /\ e.row \in Report!Due(e.source)
      /\ \A e, f \in answer : e.row.id = f.row.id => e = f
  BY <1>1, ChosenOnce
<1>3. ASSUME NEW s \in Sources \ failed, NEW r \in Report!Due(s)
      PROVE  \/ [source |-> s, row |-> r] \in answer
             \/ Report!Replaced(s, r) \/ Report!Represented(s, r) \/ Report!Bracketed(r)
  <2> DEFINE e == [source |-> s, row |-> r]
             w == Report!Kind(r)
  <2>1. r.sample \in BOOLEAN /\ w \in Subsets
    BY <1>3, DueInLots, StoredOnce DEF Stored, Report!Kind, Subsets
  <2>2. CASE r \notin gathered[s]
    <3>1. r \in Lot(s, w) /\ Report!Asked(Report!Due(s), w) = Lot(s, w)
      BY <1>3, DueInLots DEF Report!Kind
    <3>2. r \notin Stand(s, w)
      BY <1>3, <2>1, <2>2, EndOfReport DEF Subsets
    <3>3. ~(Cardinality(Lot(s, w)) <= Limit)
      BY <1>3, <2>1, <3>1, <3>2, LotsThatFit
    <3>4. Cardinality(Lot(s, w)) \in Nat /\ Limit \in Nat
      BY <1>3, LotChains, ReportLimits DEF ReportInv, Report!ReportAssumption
    <3>5. Report!Cardinality(Report!Asked(Report!Due(s), w)) > Limit
      BY <3>1, <3>3, <3>4, ReportRows
    <3>6. QED  BY <2>2, <3>5 DEF Report!Represented
  <2>3. CASE r \in gathered[s] /\ e \notin Report!Chosen
    BY <1>3, <2>3, NotChosen
  <2>4. CASE e \in Report!Chosen /\ e \notin answer
    <3> DEFINE Q == ChosenRows(r.sample)
    <3>1. e.row = r /\ r \notin Standing(Q)
      BY <2>4, WhatIsTold
    <3>2. r \in Q
      BY <2>4, <3>1 DEF ChosenRows, Entries
    <3>3. Chain(Q)
      BY <2>1, ChosenChains
    <3> HIDE DEF Q
    <3>4. /\ Cardinality(Standing(Q)) = Limit
          /\ \E a, b \in Standing(Q) : Before(a, r) /\ Before(r, b)
      BY <3>1, <3>2, <3>3, OthersStand
    <3>5. Report!Told(w) = Standing(Q)
      BY <2>1, WhatIsTold DEF Q
    <3>6. QED  BY <3>4, <3>5, ReportRows DEF Report!Bracketed
  <2>5. QED  BY <2>2, <2>3, <2>4
<1>4. QED  BY <1>2, <1>3, ReportRows DEF Report!NothingHidden, Report!Sources, Sources

(* and that the representatives span the interval.                         *)
LEMMA IntervalIsSpanned == ReportInv => SpansInterval
<1> SUFFICES ASSUME ReportInv, stage = "done",
                    NEW s \in Sources \ failed, NEW w \in Subsets
             PROVE  LET due == Report!Asked(Report!Due(s), w)
                        shown == Report!Asked(gathered[s], w)
                        Rank(r) == Report!Cardinality({q \in due : Report!Before(q, r)}) + 1
                        ranks == {Rank(r) : r \in shown}
                        Neighbours(a, b) == a < b /\ ~\E c \in ranks : a < c /\ c < b
                    IN  /\ shown \subseteq due
                        /\ Report!Cardinality(shown) =
                               IF Report!Cardinality(due) <= Limit THEN Report!Cardinality(due)
                               ELSE Limit
                        /\ due # {} => {1, Report!Cardinality(due)} \subseteq ranks
                        /\ \A a, b, c, d \in ranks :
                             Neighbours(a, b) /\ Neighbours(c, d) => (b - a) - (d - c) <= 1
  BY Zenon DEF SpansInterval, Report!SpansInterval, Report!Done, Report!Sources, Sources, Subsets
<1> DEFINE due == Report!Asked(Report!Due(s), w)
           shown == Report!Asked(gathered[s], w)
           Rank(r) == Report!Cardinality({q \in due : Report!Before(q, r)}) + 1
           ranks == {Rank(r) : r \in shown}
           D == Lot(s, w)
           n == Cardinality(D)
           R == Report!Ranks(n, Limit)
<1>1. due = D
  BY DueInLots
<1>2. Chain(D) /\ n \in Nat
  BY LotChains DEF ReportInv
<1>3. Limit \in Nat /\ Limit > 1
  BY ReportLimits DEF Report!ReportAssumption
<1>4. shown = {r \in D : Place(D, r) + 1 \in R}
  <2>1. gathered[s] = Stand(s, "samples") \cup Stand(s, "events")
    BY EndOfReport
  <2>2. ASSUME NEW v \in Subsets, NEW r \in Lot(s, v)
        PROVE  r.at \in Interval /\ (v = "samples" <=> r.sample)
    BY <2>2 DEF Lot, Report!Asked
  <2>3. shown = Stand(s, w)
    BY <2>1, <2>2 DEF Stand, Standing, Report!Asked, Subsets
  <2>4. QED  BY <2>3 DEF Stand, Standing
<1>5. \A r : Rank(r) = Place(D, r) + 1
  BY <1>1, ReportRows DEF Place
<1> HIDE DEF due, shown, Rank, D, n, R
<1>6. /\ R \subseteq 1..n /\ Cardinality(R) = IF n <= Limit THEN n ELSE Limit
      /\ n # 0 => {1, n} \subseteq R
      /\ \A a, b, c, d \in R :
           /\ a < b /\ ~\E x \in R : a < x /\ x < b
           /\ c < d /\ ~\E x \in R : c < x /\ x < d
           => (b - a) - (d - c) <= 1
  BY <1>2, <1>3, RanksSpan DEF R
<1>7. ranks = R
  <2>1. ASSUME NEW k \in R PROVE k \in ranks
    <3>1. k \in 1..n
      BY <1>6
    <3>2. PICK r \in D : Place(D, r) = k - 1
      BY <1>2, <3>1, PlaceIsTaken DEF n
    <3>3. Place(D, r) + 1 = k
      BY <3>1, <3>2, <1>2
    <3>4. QED  BY <1>4, <1>5, <3>3
  <2>2. QED  BY <1>4, <1>5, <2>1
<1>8. Cardinality(shown) = Cardinality(R)
  BY <1>2, <1>4, <1>6, AsManyAsPlaces DEF n
<1>9. due # {} => n # 0
  BY <1>1, <1>2, FS_EmptySet DEF n, Chain
<1>10. Report!Cardinality(due) = n /\ Report!Cardinality(shown) = Cardinality(R)
  BY <1>1, <1>8, ReportRows DEF n
<1>11. shown \subseteq due
  BY <1>1, <1>4
<1>12. \A a, b, c, d \in ranks :
           /\ a < b /\ ~\E x \in ranks : a < x /\ x < b
           /\ c < d /\ ~\E x \in ranks : c < x /\ x < d
           => (b - a) - (d - c) <= 1
  BY <1>6, <1>7
<1>13. due # {} => {1, n} \subseteq ranks
  BY <1>6, <1>7, <1>9
<1>14. Cardinality(R) = IF n <= Limit THEN n ELSE Limit
  BY <1>6
<1> HIDE DEF ranks
<1>15. QED  BY <1>10, <1>11, <1>12, <1>13, <1>14 DEF ranks, Rank, due, shown

(* Whatever a source does and wherever it fails, a report hides nothing.   *)
THEOREM ReportHidesNothing == ReadersSpec => []NothingHidden
BY ReportInvariant, NothingIsHidden, PTL

(* What stands for a source's rows spans the interval in equal steps.      *)
THEOREM ReportSpansInterval == ReadersSpec => []SpansInterval
BY ReportInvariant, IntervalIsSpanned, PTL

-----------------------------------------------------------------------------
(* The viewer. *)

(* The rows a source owes to a question.                                   *)
OwedTo(s, query) ==
    {r \in Rows(s) :
        /\ r.good /\ Matches(r, query)
        /\ s = "user" /\ "system" \in connected =>
               ~Suppressed(r, covered) /\ r.id \notin Ids(Rows("system"))}

(* A list of entries answers a question from `after' on: it is in order,   *)
(* its entries are matching rows, nothing a healthy source owes is missing *)
(* but past its end and only if there is more, and no entry of the user is *)
(* a copy of a valid row of a healthy system.                              *)
Answers(list, query, after, more) ==
    /\ \A i, j \in 1..Len(list) : i < j => Before(list[i], list[j])
    /\ \A i \in 1..Len(list) : \E r \in Rows(list[i].source) :
         r.id = list[i].id /\ r.at = list[i].at /\ r.good /\ Matches(r, query) /\ Past(r, after)
    /\ \A s \in Healthy : \A r \in OwedTo(s, query) : Past(r, after) =>
         \/ \E i \in 1..Len(list) : list[i].source = s /\ list[i].id = r.id
         \/ more /\ (list # <<>> => Before(list[Len(list)], r))
    /\ "system" \in Healthy =>
         \A i \in 1..Len(list) :
             list[i].source = "user" => list[i].id \notin Ids({r \in Rows("system") : r.good})

(* What is known of the sources while they are opened, read and closed.    *)
SourcesInv ==
    /\ opening \in {"system", "coverage", "user", "open", "done"}
    /\ state \in [Sources -> {"unavailable", "ready", "error"}]
    /\ connected \subseteq Sources
    /\ ceiling \in [Sources -> Nat] /\ \A s \in Sources : ceiling[s] <= Len(db[s])
    /\ known \subseteq covered
    /\ "system" \notin connected /\ ~shut => known = {}
    /\ opening = "coverage" => "system" \in connected
    /\ shut \in BOOLEAN /\ (shut => opening = "done" /\ connected = {})

(* What the table, its reads and the cursor range over.                    *)
Intervals == Spans \cup {Nothing}
Tables ==
    [gen : Nat, term : Terms, bounds : Intervals, after : Entry \cup {Nothing},
     hasMore : BOOLEAN, loading : BOOLEAN, loaded : Seq(Entry), pending : Int \cup {Nothing},
     failed : BOOLEAN]
Readings ==
    [gen : Nat, after : Entry \cup {Nothing}, term : Terms, bounds : Intervals,
     page : Seq(Entry) \cup {Nothing}, error : BOOLEAN]
Cursors == [id : Int, at : Int] \cup {Nothing}

(* Nothing is loaded before the sources are open, a table that failed      *)
(* loads nothing, and at most one read is for what the table asks now.     *)
TablesInv ==
    /\ table \in Tables /\ reads \subseteq Readings
    /\ span \in Intervals /\ cursor \in Cursors
    /\ opening # "done" =>
         reads = {} /\ table.loaded = <<>> /\ table.after = Nothing
             /\ table.hasMore /\ ~table.loading
    /\ table.failed => ~table.hasMore /\ ~table.loading
    /\ \A q \in reads :
         /\ q.gen <= table.gen
         /\ q.gen = table.gen =>
              /\ table.loading /\ q.term = table.term /\ q.bounds = table.bounds
              /\ q.after = table.after
    /\ \A p, q \in reads : p.gen = table.gen /\ q.gen = table.gen => p = q

(* Where a table continues.                                                *)
End(t) == IF t.loaded = <<>> THEN Nothing ELSE t.loaded[Len(t.loaded)]

(* The table answers its question from the start, and every page that was  *)
(* read its own.  A table that failed may lack what comes after its end.   *)
ContentsInv ==
    /\ \A t : t = table =>
         /\ ~t.failed => t.after = End(t)
         /\ Answers(t.loaded, t, Nothing, t.hasMore \/ t.failed)
    /\ \A q \in reads : q.page # Nothing /\ ~q.error =>
         Len(q.page) <= PageSize /\ Answers(q.page, q, q.after, Len(q.page) = PageSize)

(* What the graph ranges over.                                             *)
Shown == Views \cup {Nothing}
Graphs ==
    [gen : Nat, timer : BOOLEAN, loading : BOOLEAN, view : Shown, data : Shown]

(* A graph read that still counts is for what was asked for last.          *)
GraphInv ==
    /\ graph \in Graphs /\ graphReads \subseteq [gen : Nat, view : Shown]
    /\ \A g \in graphReads :
         g.gen <= graph.gen /\ (g.gen = graph.gen => g.view = graph.view)
    /\ GraphCurrent

(* The inductive invariant of the viewer.                                  *)
ViewerInv == StoreOK /\ SourcesInv /\ TablesInv /\ ContentsInv /\ GraphInv

-----------------------------------------------------------------------------
(* A source's snapshot can be put in order, each identity once.            *)
LEMMA RowsChain ==
    ASSUME StoreOK, SourcesInv, NEW s \in Sources
    PROVE  /\ Rows(s) \subseteq Stored /\ Chain(Rows(s))
           /\ \A a, b \in Rows(s) : a.id = b.id => a = b
<1>1. ceiling[s] \in Nat /\ ceiling[s] <= Len(db[s])
  BY DEF SourcesInv
<1>2. QED  BY <1>1, SnapshotChains DEF Rows

(* An empty table answers its question.                                    *)
LEMMA ViewerBegins == ReadersInit => ViewerInv
<1> SUFFICES ASSUME ReadersInit PROVE ViewerInv
  OBVIOUS
<1>1. StoreOK
  BY StoreBegins DEF ReadersInit
<1>2. SourcesInv
  <2>1. \A s \in Sources : Len(db[s]) \in Nat
    BY <1>1 DEF StoreOK
  <2>2. state \in [Sources -> {"unavailable", "ready", "error"}] /\ connected = {} /\ known = {}
    BY DEF ReadersInit, ViewerInit
  <2>3. ceiling \in [Sources -> Nat] /\ \A s \in Sources : ceiling[s] <= Len(db[s])
    BY <2>1 DEF ReadersInit, ViewerInit
  <2>4. opening = "system" /\ shut = FALSE
    BY DEF ReadersInit, ViewerInit
  <2>5. QED  BY <2>2, <2>3, <2>4 DEF SourcesInv
<1>3. TablesInv
  <2>1. NoTerm \in Terms /\ <<>> \in Seq(Entry)
    BY ViewerAssumption
  <2>2. QED  BY <2>1 DEF TablesInv, ReadersInit, ViewerInit, Tables, Intervals, Cursors
<1>4. ContentsInv
  BY DEF ContentsInv, End, Answers, ReadersInit, ViewerInit
<1>5. GraphInv
  BY DEF GraphInv, GraphCurrent, ReadersInit, ViewerInit, Graphs, Shown
<1>6. QED  BY <1>1, <1>2, <1>3, <1>4, <1>5 DEF ViewerInv

(* What was answered stays so while the snapshot stays, coverage grows and *)
(* sources do not come back to health.                                     *)
LEMMA AnswersStay ==
    ASSUME \A s \in Sources : Rows(s)' = Rows(s),
           Healthy' \subseteq Healthy, Healthy \subseteq Sources, covered \subseteq covered',
           connected' = connected \/ Healthy' = {},
           NEW list \in Seq(Entry), NEW query, NEW after, NEW more,
           Answers(list, query, after, more)
    PROVE  Answers(list, query, after, more)'
<1>1. "system" \in Sources /\ \A i \in 1..Len(list) : list[i].source \in Sources
  <2>1. \A i \in 1..Len(list) : list[i] \in Entry
    BY ElementOfSeq
  <2>2. QED  BY <2>1 DEF Entry, Sources
<1>2. \A i, j \in 1..Len(list) : i < j => Before(list[i], list[j])
  BY DEF Answers
<1>3. \A i \in 1..Len(list) : \E r \in Rows(list[i].source)' :
         r.id = list[i].id /\ r.at = list[i].at /\ r.good /\ Matches(r, query) /\ Past(r, after)
  BY <1>1 DEF Answers
<1>4. ASSUME NEW s \in Healthy', NEW r \in OwedTo(s, query)', Past(r, after)
      PROVE  \/ \E i \in 1..Len(list) : list[i].source = s /\ list[i].id = r.id
             \/ more /\ (list # <<>> => Before(list[Len(list)], r))
  <2>1. r \in OwedTo(s, query) /\ s \in Healthy
    BY <1>1, <1>4 DEF OwedTo, Suppressed, Ids, Matches
  <2>2. QED  BY <1>4, <2>1 DEF Answers
<1>5. "system" \in Healthy' =>
         \A i \in 1..Len(list) :
             list[i].source = "user" => list[i].id \notin Ids({r \in Rows("system")' : r.good})
  BY <1>1 DEF Answers
<1>6. QED  BY <1>2, <1>3, <1>4, <1>5 DEF Answers, Before, Matches, Past, Ids

(* A table that was emptied asks from the start.                           *)
LEMMA EmptyAnswers == \A query : Answers(<<>>, query, Nothing, TRUE)
BY DEF Answers

(* Less is promised of a list that may go on.                              *)
LEMMA AnswersWeaken ==
    ASSUME NEW list, NEW query, NEW after, NEW more, NEW further, more => further,
           Answers(list, query, after, more)
    PROVE  Answers(list, query, after, further)
BY DEF Answers

(* The first entries of an answer, when more may come.                     *)
LEMMA AnswersPrefix ==
    ASSUME StoreOK, SourcesInv, NEW whole \in Seq(Entry), NEW n \in 0..Len(whole),
           NEW query, NEW after, NEW more, Answers(whole, query, after, more)
    PROVE  SubSeq(whole, 1, n) \in Seq(Entry) /\ Answers(SubSeq(whole, 1, n), query, after, TRUE)
<1> DEFINE list == SubSeq(whole, 1, n)
<1>1. /\ list \in Seq(Entry) /\ Len(list) = n /\ Len(whole) \in Nat /\ n \in Nat /\ n <= Len(whole)
      /\ \A i \in 1..n : list[i] = whole[i] /\ i \in 1..Len(whole)
      /\ \A i \in 1..Len(whole) : whole[i] \in Entry
  BY ElementOfSeq
<1> HIDE DEF list
<1>2. \A i, j \in 1..n : i < j => Before(list[i], list[j])
  BY <1>1 DEF Answers
<1>3. \A i \in 1..n : \E r \in Rows(list[i].source) :
         r.id = list[i].id /\ r.at = list[i].at /\ r.good /\ Matches(r, query) /\ Past(r, after)
  BY <1>1 DEF Answers
<1>4. ASSUME NEW s \in Healthy, NEW r \in OwedTo(s, query), Past(r, after)
      PROVE  \/ \E i \in 1..n : list[i].source = s /\ list[i].id = r.id
             \/ list # <<>> => Before(list[n], r)
  <2>1. list # <<>> => n \in 1..n
    BY <1>1, EmptySeq
  <2>2. ASSUME NEW i \in 1..Len(whole), whole[i].source = s, whole[i].id = r.id, i \notin 1..n,
               list # <<>>
        PROVE  Before(list[n], r)
    <3>1. n < i /\ list[n] = whole[n] /\ n \in 1..Len(whole)
      BY <1>1, <2>1, <2>2
    <3>2. Before(list[n], whole[i])
      BY <3>1 DEF Answers
    <3>3. PICK q \in Rows(s) : q.id = whole[i].id /\ q.at = whole[i].at
      BY <2>2 DEF Answers
    <3>4. s \in Sources /\ r \in Rows(s)
      BY DEF Healthy, SourcesInv, OwedTo
    <3>5. q = r
      BY <2>2, <3>3, <3>4, RowsChain
    <3>6. QED  BY <3>2, <3>3, <3>5 DEF Before
  <2>3. ASSUME Before(whole[Len(whole)], r), list # <<>> PROVE Before(list[n], r)
    <3>1. n \in 1..Len(whole) /\ Len(whole) \in 1..Len(whole) /\ list[n] = whole[n]
      BY <1>1, <2>1, <2>3
    <3>2. n = Len(whole) \/ Before(whole[n], whole[Len(whole)])
      BY <1>1, <3>1 DEF Answers
    <3>3. whole[n] \in Entry /\ whole[Len(whole)] \in Entry
      BY <1>1, <3>1
    <3>4. r.at \in Int /\ r.id \in Int
      <4>1. s \in Sources /\ r \in Rows(s)
        BY DEF Healthy, SourcesInv, OwedTo
      <4>2. r \in Stored
        BY <4>1, RowsChain
      <4>3. QED  BY <4>2 DEF Stored
    <3>5. QED  BY <2>3, <3>1, <3>2, <3>3, <3>4, BeforeIsStrict DEF Entry
  <2>4. whole = <<>> => list = <<>>
    BY <1>1, EmptySeq
  <2>5. CASE \E i \in 1..Len(whole) : whole[i].source = s /\ whole[i].id = r.id
    BY <1>1, <2>2, <2>5
  <2>6. CASE whole # <<>> => Before(whole[Len(whole)], r)
    BY <2>3, <2>4, <2>6
  <2>7. QED  BY <1>4, <2>5, <2>6 DEF Answers
<1>5. "system" \in Healthy =>
         \A i \in 1..n : list[i].source = "user" => list[i].id \notin Ids({r \in Rows("system") : r.good})
  BY <1>1 DEF Answers
<1>6. Answers(list, query, after, TRUE)
  BY <1>1, <1>2, <1>3, <1>4, <1>5 DEF Answers
<1>7. QED  BY <1>1, <1>6 DEF list

(* A page appended to what it follows.                                     *)
LEMMA AnswersAppend ==
    ASSUME StoreOK, SourcesInv,
           NEW list \in Seq(Entry), NEW page \in Seq(Entry), NEW query, NEW after,
           NEW more, NEW further \in BOOLEAN, Answers(list, query, Nothing, more),
           after = (IF list = <<>> THEN Nothing ELSE list[Len(list)]),
           Answers(page, query, after, further), further => page # <<>>
    PROVE  Answers(list \o page, query, Nothing, further)
<1> DEFINE whole == list \o page
<1>1. /\ whole \in Seq(Entry) /\ Len(whole) = Len(list) + Len(page)
      /\ Len(list) \in Nat /\ Len(page) \in Nat
      /\ \A i \in 1..Len(list) : whole[i] = list[i] /\ list[i] \in Entry
      /\ \A i \in 1..Len(page) : whole[Len(list) + i] = page[i] /\ page[i] \in Entry
  BY ConcatProperties, ElementOfSeq
<1>2. \A i \in 1..Len(whole) : i \in 1..Len(list) \/ \E j \in 1..Len(page) : i = Len(list) + j
  <2>1. ASSUME NEW i \in 1..Len(whole), i \notin 1..Len(list)
        PROVE  i - Len(list) \in 1..Len(page) /\ i = Len(list) + (i - Len(list))
    BY <1>1, <2>1
  <2>2. QED  BY <2>1
<1>3. list # <<>> => after = list[Len(list)] /\ Len(list) \in 1..Len(list) /\ after # Nothing
  <2>1. list # <<>> => Len(list) \in 1..Len(list)
    BY <1>1, EmptySeq
  <2>2. QED  BY <1>1, <2>1, ViewerAssumption
<1>4. \A i \in 1..Len(page) : list # <<>> => Before(list[Len(list)], page[i])
  <2>1. ASSUME NEW i \in 1..Len(page), list # <<>> PROVE Before(list[Len(list)], page[i])
    <3>1. PICK r \in Rows(page[i].source) : r.id = page[i].id /\ r.at = page[i].at /\ Past(r, after)
      BY DEF Answers
    <3>2. Before(after, r)
      BY <1>3, <2>1, <3>1 DEF Past
    <3>3. QED  BY <1>3, <2>1, <3>1, <3>2 DEF Before
  <2>2. QED  BY <2>1
<1>5. ASSUME NEW i \in 1..Len(whole), NEW j \in 1..Len(whole), i < j
      PROVE  Before(whole[i], whole[j])
  <2>1. CASE i \in 1..Len(list) /\ j \in 1..Len(list)
    BY <1>1, <1>5, <2>1 DEF Answers
  <2>2. CASE i \in 1..Len(list) /\ \E k \in 1..Len(page) : j = Len(list) + k
    <3>1. PICK k \in 1..Len(page) : j = Len(list) + k
      BY <2>2
    <3>2. list # <<>>
      BY <1>1, <2>2
    <3>3. Before(list[Len(list)], page[k])
      BY <1>4, <3>2
    <3>4. i = Len(list) \/ Before(list[i], list[Len(list)])
      BY <1>1, <1>3, <2>2, <3>2 DEF Answers
    <3>5. list[i] \in Entry /\ list[Len(list)] \in Entry /\ page[k] \in Entry
      BY <1>1, <1>3, <2>2, <3>2
    <3>6. Before(list[i], page[k])
      BY <3>3, <3>4, <3>5, BeforeIsStrict DEF Entry
    <3>7. QED  BY <1>1, <2>2, <3>1, <3>6
  <2>3. CASE \E k \in 1..Len(page) : i = Len(list) + k
    <3>1. PICK k \in 1..Len(page) : i = Len(list) + k
      BY <2>3
    <3>2. PICK m \in 1..Len(page) : j = Len(list) + m
      <4>1. j \notin 1..Len(list)
        BY <1>1, <1>5, <3>1
      <4>2. QED  BY <1>2, <4>1
    <3>3. k < m
      BY <1>1, <1>5, <3>1, <3>2
    <3>4. QED  BY <1>1, <3>1, <3>2, <3>3 DEF Answers
  <2>4. QED  BY <1>2, <2>1, <2>2, <2>3
<1>6. ASSUME NEW i \in 1..Len(whole)
      PROVE  \E r \in Rows(whole[i].source) :
                 r.id = whole[i].id /\ r.at = whole[i].at /\ r.good /\ Matches(r, query)
                     /\ Past(r, Nothing)
  <2>1. CASE i \in 1..Len(list)
    BY <1>1, <2>1 DEF Answers
  <2>2. ASSUME NEW j \in 1..Len(page), i = Len(list) + j
        PROVE  \E r \in Rows(whole[i].source) :
                 r.id = whole[i].id /\ r.at = whole[i].at /\ r.good /\ Matches(r, query)
                     /\ Past(r, Nothing)
    BY <1>1, <2>2 DEF Answers, Past
  <2>3. QED  BY <1>2, <2>1, <2>2
<1>7. ASSUME NEW s \in Healthy, NEW r \in OwedTo(s, query)
      PROVE  \/ \E i \in 1..Len(whole) : whole[i].source = s /\ whole[i].id = r.id
             \/ further /\ (whole # <<>> => Before(whole[Len(whole)], r))
  <2>1. CASE \E i \in 1..Len(list) : list[i].source = s /\ list[i].id = r.id
    <3>1. \A i \in 1..Len(list) : i \in 1..Len(whole) /\ whole[i] = list[i]
      BY <1>1
    <3>2. QED  BY <2>1, <3>1
  <2>2. CASE Past(r, after)
    <3>1. CASE \E i \in 1..Len(page) : page[i].source = s /\ page[i].id = r.id
      <4>1. \A i \in 1..Len(page) : Len(list) + i \in 1..Len(whole) /\ whole[Len(list) + i] = page[i]
        BY <1>1
      <4>2. QED  BY <3>1, <4>1
    <3>2. CASE further /\ (page # <<>> => Before(page[Len(page)], r))
      <4>1. Len(page) \in 1..Len(page)
        BY <1>1, <3>2, EmptySeq
      <4>2. whole[Len(whole)] = page[Len(page)]
        BY <1>1, <4>1
      <4>3. QED  BY <3>2, <4>2
    <3>3. QED  BY <1>7, <2>2, <3>1, <3>2 DEF Answers
  <2>3. CASE list # <<>> /\ Before(list[Len(list)], r)
    BY <1>3, <2>2, <2>3 DEF Past
  <2>4. CASE list = <<>>
    BY <2>2, <2>4 DEF Past
  <2>5. Past(r, Nothing)
    BY DEF Past
  <2>6. QED  BY <1>7, <2>1, <2>3, <2>4, <2>5 DEF Answers
<1>8. ASSUME "system" \in Healthy, NEW i \in 1..Len(whole), whole[i].source = "user"
      PROVE  whole[i].id \notin Ids({r \in Rows("system") : r.good})
  <2>1. CASE i \in 1..Len(list)
    BY <1>1, <1>8, <2>1 DEF Answers
  <2>2. ASSUME NEW j \in 1..Len(page), i = Len(list) + j
        PROVE  whole[i].id \notin Ids({r \in Rows("system") : r.good})
    BY <1>1, <1>8, <2>2 DEF Answers
  <2>3. QED  BY <1>2, <2>1, <2>2
<1> HIDE DEF whole
<1>9. Answers(whole, query, Nothing, further)
  BY <1>5, <1>6, <1>7, <1>8 DEF Answers
<1>10. QED  BY <1>9 DEF whole

(* A record of a source as a page shows it, and what a page is taken from. *)
EntryOf(s, r) == [id |-> r.id, at |-> r.at, boot |-> r.boot, source |-> s]

(* The entries of both sources, as the page merges them.                   *)
Mixed(S, U) ==
    {EntryOf("system", r) : r \in S} \cup
    {EntryOf("user", r) : r \in {r \in U : r.id \notin Ids(S)}}

(* The merged page is the first few of both sources' entries.              *)
LEMMA MergedIsMixed == \A S, U : Merged(S, U) = FirstOf(Mixed(S, U), PageSize)
BY Zenon DEF Merged, Mixed, EntryOf

(* Mapping a finite set one to one leaves its size.                        *)
LEMMA SameSize ==
    ASSUME NEW S, IsFiniteSet(S), NEW f, f = [x \in S |-> f[x]],
           \A a, b \in S : f[a] = f[b] => a = b
    PROVE  LET T == {f[x] : x \in S}
           IN  IsFiniteSet(T) /\ Cardinality(T) = Cardinality(S)
<1> DEFINE T == {f[x] : x \in S}
<1>1. f \in [S -> T]
  <2>1. \A x \in S : f[x] \in T
    OBVIOUS
  <2> HIDE DEF T
  <2>2. QED  BY <2>1
<1>2. \A t \in T : \E x \in S : f[x] = t
  OBVIOUS
<1>3. f \in Bijection(S, T)
  BY <1>1, <1>2, Fun_IsBij, Zenon
<1>4. f \in Surjection(S, T)
  BY <1>1, <1>2, Fun_IsSurj, Zenon
<1>5. IsFiniteSet(T)
  BY <1>4, FS_Surjection, Zenon
<1>6. Cardinality(S) = Cardinality(T)
  BY <1>3, FS_Bijection, Zenon DEF ExistsBijection
<1>7. QED  BY <1>5, <1>6

(* A source's entries are as many as its rows.                             *)
LEMMA EntriesOf ==
    ASSUME StoreOK, SourcesInv, NEW s \in Sources, NEW R, R \subseteq Rows(s)
    PROVE  LET T == {EntryOf(s, r) : r \in R}
           IN  /\ T \subseteq Entry /\ IsFiniteSet(T) /\ IsFiniteSet(R)
               /\ Cardinality(T) = Cardinality(R) /\ Cardinality(R) \in Nat
<1> DEFINE f == [r \in R |-> EntryOf(s, r)]
           T == {EntryOf(s, r) : r \in R}
<1>1. R \subseteq Stored /\ IsFiniteSet(R) /\ \A a, b \in R : a.id = b.id => a = b
  BY RowsChain, FS_Subset, Zenon DEF Chain
<1>2. \A a, b \in R : f[a] = f[b] => a = b
  BY <1>1 DEF EntryOf
<1>3. T = {f[r] : r \in R}
  OBVIOUS
<1>4. f = [r \in R |-> f[r]]
  OBVIOUS
<1>5. T \subseteq Entry
  BY <1>1 DEF EntryOf, Entry, Stored
<1> HIDE DEF f, T
<1>6. IsFiniteSet(T) /\ Cardinality(T) = Cardinality(R)
  BY <1>1, <1>2, <1>3, <1>4, SameSize
<1>7. QED  BY <1>1, <1>5, <1>6, FS_CardinalityType DEF T

(* The entries of both sources can be put in order: no identity is in      *)
(* both.                                                                   *)
LEMMA MixedChains ==
    ASSUME StoreOK, SourcesInv, NEW S, S \subseteq Rows("system"), NEW U, U \subseteq Rows("user")
    PROVE  Chain(Mixed(S, U)) /\ Mixed(S, U) \subseteq Entry
<1> DEFINE V == {r \in U : r.id \notin Ids(S)}
           A == {EntryOf("system", r) : r \in S}
           B == {EntryOf("user", r) : r \in V}
<1>1. A \subseteq Entry /\ IsFiniteSet(A)
  BY EntriesOf DEF Sources
<1>2. B \subseteq Entry /\ IsFiniteSet(B)
  <2>1. V \subseteq Rows("user")
    OBVIOUS
  <2> HIDE DEF V
  <2>2. QED  BY <2>1, EntriesOf DEF Sources
<1>3. Mixed(S, U) = A \cup B
  BY DEF Mixed
<1>4. IsFiniteSet(Mixed(S, U)) /\ Mixed(S, U) \subseteq Entry
  BY <1>1, <1>2, <1>3, FS_Union
<1>5. ASSUME NEW a \in A \cup B, NEW b \in A \cup B, a.id = b.id
      PROVE  a = b
  <2>1. ASSUME NEW c \in A, NEW d \in B PROVE c.id # d.id
    BY DEF EntryOf, Ids
  <2>2. CASE a \in A /\ b \in A
    BY <1>5, <2>2, RowsChain DEF EntryOf, Sources
  <2>3. CASE a \in B /\ b \in B
    BY <1>5, <2>3, RowsChain DEF EntryOf, Sources
  <2>4. QED  BY <1>5, <2>1, <2>2, <2>3
<1>6. QED  BY <1>3, <1>4, <1>5 DEF Chain, Entry

(* A page that could be filled with what comes before a row is full and    *)
(* comes before it.                                                        *)
LEMMA PageIsFull ==
    ASSUME NEW M, Chain(M), M \subseteq Entry, NEW E, E \subseteq M, Cardinality(E) = PageSize,
           NEW r \in Stored, \A e \in E : Before(e, r)
    PROVE  /\ Cardinality(FirstOf(M, PageSize)) = PageSize
           /\ \A e \in FirstOf(M, PageSize) : Before(e, r)
<1> DEFINE F == FirstOf(M, PageSize)
<1>1. PageSize \in Nat
  BY ViewerAssumption
<1>2. /\ F \subseteq M
      /\ \A x \in M \ F : Cardinality(F) = PageSize /\ \A q \in F : Before(q, x)
      /\ Cardinality(F) \in Nat /\ Cardinality(F) <= PageSize
  BY <1>1, TheFirstFew
<1>3. CASE E \subseteq F
  <2>1. IsFiniteSet(F)
    BY <1>2, FS_Subset DEF Chain
  <2>2. Cardinality(E) <= Cardinality(F) /\ (Cardinality(F) = Cardinality(E) => F = E)
    BY <1>3, <2>1, FS_Subset
  <2>3. Cardinality(F) = PageSize
    BY <1>1, <1>2, <2>2
  <2>4. QED  BY <2>2, <2>3
<1>4. CASE ~(E \subseteq F)
  <2>1. PICK e \in E : e \notin F
    BY <1>4
  <2>2. Cardinality(F) = PageSize /\ \A q \in F : Before(q, e)
    BY <1>2, <2>1
  <2>3. ASSUME NEW q \in F PROVE Before(q, r)
    <3>1. Before(q, e) /\ Before(e, r) /\ q \in Entry /\ e \in Entry
      BY <1>2, <2>1, <2>2
    <3>2. QED  BY <3>1, BeforeIsStrict DEF Entry, Stored
  <2>4. QED  BY <2>2, <2>3
<1>5. QED  BY <1>3, <1>4

(* The user's rows that are dropped for the system's leave room only for   *)
(* entries that come no later.                                             *)
LEMMA CopiesFill ==
    ASSUME StoreOK, SourcesInv, NEW S, S \subseteq Rows("system"), NEW U, U \subseteq Rows("user")
    PROVE  \E E \in SUBSET Mixed(S, U) :
               /\ Cardinality(E) = Cardinality(U)
               /\ \A e \in E : \E u \in U : e.id = u.id /\ e.at <= u.at
<1> DEFINE g == [u \in U |-> IF u.id \in Ids(S)
                             THEN EntryOf("system", CHOOSE v \in S : v.id = u.id)
                             ELSE EntryOf("user", u)]
           E == {g[u] : u \in U}
<1>1. U \subseteq Stored /\ IsFiniteSet(U) /\ \A a, b \in U : a.id = b.id => a = b
  BY RowsChain, FS_Subset, Zenon DEF Chain, Sources
<1>2. ASSUME NEW u \in U
      PROVE  g[u] \in Mixed(S, U) /\ g[u].id = u.id /\ g[u].at <= u.at
  <2>1. CASE u.id \in Ids(S)
    <3> DEFINE v == CHOOSE v \in S : v.id = u.id
    <3>1. v \in S /\ v.id = u.id
      BY <2>1 DEF Ids
    <3>2. v.at <= u.at
      <4>1. ceiling["system"] \in Nat /\ ceiling["system"] <= Len(db["system"])
            /\ ceiling["user"] \in Nat /\ ceiling["user"] <= Len(db["user"])
        BY DEF SourcesInv, Sources
      <4>2. v \in Snapshot("system", ceiling["system"]) /\ u \in Snapshot("user", ceiling["user"])
        BY <3>1 DEF Rows
      <4> HIDE DEF v
      <4>3. QED  BY <3>1, <4>1, <4>2, CopiesComeNoLater
    <3>3. g[u] = EntryOf("system", v)
      BY <2>1
    <3> HIDE DEF v, g
    <3>4. QED  BY <3>1, <3>2, <3>3 DEF Mixed, EntryOf
  <2>2. CASE u.id \notin Ids(S)
    <3>1. u.at \in Int
      BY <1>1 DEF Stored
    <3>2. QED  BY <2>2, <3>1 DEF Mixed, EntryOf
  <2>3. QED  BY <2>1, <2>2
<1>3. g = [u \in U |-> g[u]]
  OBVIOUS
<1> HIDE DEF g
<1>4. \A a, b \in U : g[a] = g[b] => a = b
  BY <1>1, <1>2
<1>5. Cardinality(E) = Cardinality(U)
  BY <1>1, <1>3, <1>4, SameSize
<1>6. E \subseteq Mixed(S, U) /\ \A e \in E : \E u \in U : e.id = u.id /\ e.at <= u.at
  BY <1>2
<1>7. QED  BY <1>5, <1>6

(* What the page leaves of the sources: those that failed are not healthy  *)
(* any more.                                                               *)
LEMMA PageOutcome ==
    ASSUME SourcesInv, NEW query, NEW failing \in SUBSET connected, Page(query, failing)
    PROVE  /\ state' \in [Sources -> {"unavailable", "ready", "error"}]
           /\ known' \subseteq known
           /\ {s \in connected : state'[s] = "ready"} =
                  {s \in connected : state[s] = "ready"} \ failing
<1>1. state' = [s \in Sources |-> IF s \in failing THEN "error" ELSE state[s]]
  BY DEF Page
<1>2. known' \subseteq known
  BY DEF Page
<1>3. state' \in [Sources -> {"unavailable", "ready", "error"}]
  BY <1>1 DEF SourcesInv
<1>4. {s \in connected : state'[s] = "ready"} = {s \in connected : state[s] = "ready"} \ failing
  BY <1>1 DEF SourcesInv
<1>5. QED  BY <1>2, <1>3, <1>4

(* The page that a read returns answers its question from `after' on,      *)
(* whichever source fails under it.                                        *)
LEMMA PageAnswers ==
    ASSUME StoreOK, SourcesInv, NEW query \in Readings,
           NEW failing \in SUBSET connected, Page(query, failing)
    PROVE  \E page \in Seq(Entry) :
             /\ reads' = (reads \ {query}) \cup {[query EXCEPT !.page = page]}
             /\ Len(page) <= PageSize
             /\ \A i, j \in 1..Len(page) : i < j => Before(page[i], page[j])
             /\ \A i \in 1..Len(page) : \E r \in Rows(page[i].source) :
                  /\ r.id = page[i].id /\ r.at = page[i].at /\ r.good
                  /\ Matches(r, query) /\ Past(r, query.after)
             /\ \A s \in Healthy \ failing : \A r \in OwedTo(s, query) : Past(r, query.after) =>
                  \/ \E i \in 1..Len(page) : page[i].source = s /\ page[i].id = r.id
                  \/ Len(page) = PageSize /\ (page # <<>> => Before(page[Len(page)], r))
             /\ "system" \in Healthy \ failing =>
                  \A i \in 1..Len(page) :
                      page[i].source = "user" => page[i].id \notin Ids({r \in Rows("system") : r.good})
<1> DEFINE alive == connected \ failing
           ok == {s \in connected : state[s] = "ready"} \ failing
           GoodSystem == {r \in Asked("system", query) : r.good}
           S == IF "system" \in alive THEN SystemPage(query) ELSE {}
<1>1. PICK cover :
        /\ cover \subseteq known
        /\ reads' = (reads \ {query}) \cup
               {[query EXCEPT !.page =
                    InOrder(Merged(S, IF "user" \in alive THEN UserPage(query, ok, cover) ELSE {}))]}
  BY DEF Page
<1> DEFINE GoodUser == {r \in Asked("user", query) :
                            r.good /\ r.id \notin Collisions(ok) /\ ~Suppressed(r, cover)}
           U == IF "user" \in alive THEN UserPage(query, ok, cover) ELSE {}
           M == Mixed(S, U)
           F == FirstOf(M, PageSize)
           page == InOrder(F)
<1>2. PageSize \in Nat /\ PageSize > 0
  BY ViewerAssumption
<1>3. GoodSystem \subseteq Rows("system") /\ GoodUser \subseteq Rows("user")
  BY DEF Asked
<1>4. /\ "system" \in alive => S = FirstOf(GoodSystem, PageSize)
      /\ "system" \notin alive => S = {}
      /\ "user" \in alive => U = FirstOf(GoodUser, PageSize)
      /\ "user" \notin alive => U = {}
  BY DEF SystemPage, UserPage
<1> HIDE DEF GoodSystem, GoodUser, S, U
<1>5. Chain(GoodSystem) /\ Chain(GoodUser)
  BY <1>3, RowsChain, PartsOfChain DEF Sources
<1>6. S \subseteq GoodSystem /\ U \subseteq GoodUser
  BY <1>2, <1>4, <1>5, TheFirstFew
<1>7. S \subseteq Rows("system") /\ U \subseteq Rows("user")
  BY <1>3, <1>6
<1>8. Chain(M) /\ M \subseteq Entry
  BY <1>7, MixedChains
<1>9. /\ F \subseteq M
      /\ \A x \in M \ F : Cardinality(F) = PageSize /\ \A q \in F : Before(q, x)
      /\ Cardinality(F) \in Nat /\ Cardinality(F) <= PageSize
  BY <1>2, <1>8, TheFirstFew
<1>10. Chain(F) /\ F \subseteq Entry
  BY <1>8, <1>9, PartsOfChain
<1>11. /\ page \in Seq(F) /\ Len(page) = Cardinality(F)
       /\ \A i, j \in 1..Len(page) : i < j => Before(page[i], page[j])
       /\ \A e \in F : \E i \in 1..Len(page) : page[i] = e
  BY <1>10, InOrderLists
<1>12. \A i \in 1..Len(page) : page[i] \in F
  BY <1>11, ElementOfSeq
<1> HIDE DEF M, F, page
<1>13. reads' = (reads \ {query}) \cup {[query EXCEPT !.page = page]}
  BY <1>1, MergedIsMixed DEF page, F, M, U
<1>14. page \in Seq(Entry)
  BY <1>10, <1>11
<1>15. ASSUME NEW e \in M
       PROVE  \/ \E r \in S : e = EntryOf("system", r)
              \/ \E r \in U : e = EntryOf("user", r)
  BY DEF M, Mixed
<1>16. ASSUME NEW e \in M
       PROVE  \E r \in Rows(e.source) :
                  /\ r.id = e.id /\ r.at = e.at /\ r.good
                  /\ Matches(r, query) /\ Past(r, query.after)
  <2>1. CASE \E r \in S : e = EntryOf("system", r)
    BY <1>6, <1>7, <2>1 DEF GoodSystem, Asked, EntryOf
  <2>2. CASE \E r \in U : e = EntryOf("user", r)
    <3>1. PICK r \in U : e = EntryOf("user", r)
      BY <2>2
    <3>2. r \in Rows("user") /\ r.good /\ Matches(r, query) /\ Past(r, query.after)
      BY <1>6 DEF GoodUser, Asked
    <3>3. e.id = r.id /\ e.at = r.at /\ e.source = "user"
      BY <3>1 DEF EntryOf
    <3>4. QED  BY <3>2, <3>3
  <2>3. QED  BY <1>15, <2>1, <2>2
(* A row is in the page, or enough that come before it fill the page.      *)
<1>17. ASSUME NEW s \in Sources, NEW r \in Stored,
              \/ EntryOf(s, r) \in M
              \/ \E E \in SUBSET M : Cardinality(E) = PageSize /\ \A e \in E : Before(e, r)
       PROVE  \/ \E i \in 1..Len(page) : page[i].source = s /\ page[i].id = r.id
              \/ Len(page) = PageSize /\ (page # <<>> => Before(page[Len(page)], r))
  <2>1. CASE EntryOf(s, r) \in F
    <3>1. PICK i \in 1..Len(page) : page[i] = EntryOf(s, r)
      BY <1>11, <2>1
    <3>2. QED  BY <3>1 DEF EntryOf
  <2>2. CASE Cardinality(F) = PageSize /\ \A e \in F : Before(e, r)
    <3>1. Len(page) \in 1..Len(page)
      BY <1>2, <1>11, <2>2
    <3>2. page[Len(page)] \in F
      BY <3>1, <1>12
    <3>3. QED  BY <1>11, <2>2, <3>2
  <2>3. CASE EntryOf(s, r) \in M \ F
    <3>1. \A e : Before(e, EntryOf(s, r)) <=> Before(e, r)
      BY DEF Before, EntryOf
    <3>2. QED  BY <1>9, <2>2, <2>3, <3>1
  <2>4. CASE \E E \in SUBSET M : Cardinality(E) = PageSize /\ \A e \in E : Before(e, r)
    BY <1>8, <2>2, <2>4, PageIsFull DEF F
  <2>5. QED  BY <1>17, <2>1, <2>3, <2>4
<1>18. ASSUME NEW r \in GoodSystem, "system" \in alive
       PROVE  \/ EntryOf("system", r) \in M
              \/ \E E \in SUBSET M : Cardinality(E) = PageSize /\ \A e \in E : Before(e, r)
  <2>1. CASE r \in S
    BY <2>1 DEF M, Mixed
  <2>2. CASE r \notin S
    <3> DEFINE E == {EntryOf("system", q) : q \in S}
    <3>1. Cardinality(S) = PageSize /\ \A q \in S : Before(q, r)
      BY <1>2, <1>4, <1>5, <1>18, <2>2, TheFirstFew
    <3>2. Cardinality(E) = PageSize
      BY <1>7, <3>1, EntriesOf DEF Sources
    <3>3. E \subseteq M
      BY DEF M, Mixed
    <3>4. \A e \in E : Before(e, r)
      BY <3>1 DEF EntryOf, Before
    <3>5. QED  BY <3>2, <3>3, <3>4
  <2>3. QED  BY <2>1, <2>2
<1>19. ASSUME NEW r \in GoodUser, "user" \in alive, r.id \notin Ids(S)
       PROVE  \/ EntryOf("user", r) \in M
              \/ \E E \in SUBSET M : Cardinality(E) = PageSize /\ \A e \in E : Before(e, r)
  <2>1. CASE r \in U
    BY <1>19, <2>1 DEF M, Mixed
  <2>2. CASE r \notin U
    <3>1. Cardinality(U) = PageSize /\ \A q \in U : Before(q, r)
      BY <1>2, <1>4, <1>5, <1>19, <2>2, TheFirstFew
    <3>2. PICK E \in SUBSET M :
            /\ Cardinality(E) = Cardinality(U)
            /\ \A e \in E : \E u \in U : e.id = u.id /\ e.at <= u.at
      BY <1>7, CopiesFill DEF M
    <3>3. ASSUME NEW e \in E PROVE Before(e, r)
      <4>1. PICK u \in U : e.id = u.id /\ e.at <= u.at
        BY <3>2
      <4>2. Before(u, r)
        BY <3>1
      <4>3. e \in Entry /\ u \in Stored /\ r \in Stored
        BY <1>3, <1>7, <1>8, RowsChain DEF Sources
      <4>4. QED  BY <4>1, <4>2, <4>3 DEF Before, Entry, Stored
    <3>4. QED  BY <3>1, <3>2, <3>3
  <2>3. QED  BY <2>1, <2>2
<1>20. ASSUME NEW s \in Healthy \ failing, NEW r \in OwedTo(s, query), Past(r, query.after)
       PROVE  \/ \E i \in 1..Len(page) : page[i].source = s /\ page[i].id = r.id
              \/ Len(page) = PageSize /\ (page # <<>> => Before(page[Len(page)], r))
  <2>1. s \in Sources /\ s \in alive /\ s \in ok /\ r \in Rows(s) /\ r \in Stored /\ r.good
        /\ Matches(r, query) /\ r \in Asked(s, query)
    BY <1>20, RowsChain DEF Healthy, OwedTo, SourcesInv, Asked
  <2>2. CASE s = "system"
    <3>1. r \in GoodSystem
      BY <2>1, <2>2 DEF GoodSystem
    <3>2. QED  BY <1>17, <1>18, <2>1, <2>2, <3>1
  <2>3. CASE s = "user"
    <3>1. CASE "system" \in connected
      <4>1. ~Suppressed(r, covered) /\ r.id \notin Ids(Rows("system"))
        BY <2>3, <3>1 DEF OwedTo
      <4>2. r.id \notin Ids(S) /\ r.id \notin Collisions(ok)
        BY <1>7, <4>1 DEF Ids, Collisions
      <4>3. ~Suppressed(r, cover)
        BY <1>1, <4>1 DEF Suppressed, SourcesInv
      <4>4. r \in GoodUser
        BY <2>1, <2>3, <4>2, <4>3 DEF GoodUser
      <4>5. QED  BY <1>17, <1>19, <2>1, <2>3, <4>2, <4>4
    <3>2. CASE "system" \notin connected
      <4>1. ~shut
        BY <2>1 DEF SourcesInv
      <4>2. cover = {}
        BY <1>1, <3>2, <4>1 DEF SourcesInv
      <4>3. S = {}
        BY <1>4, <3>2
      <4>4. r.id \notin Ids(S) /\ r.id \notin Collisions(ok) /\ ~Suppressed(r, cover)
        BY <3>2, <4>2, <4>3 DEF Ids, Collisions, Suppressed
      <4>5. r \in GoodUser
        BY <2>1, <2>3, <4>4 DEF GoodUser
      <4>6. QED  BY <1>17, <1>19, <2>1, <2>3, <4>4, <4>5
    <3>3. QED  BY <3>1, <3>2
  <2>4. QED  BY <2>1, <2>2, <2>3 DEF Sources
<1>21. ASSUME "system" \in Healthy \ failing, NEW i \in 1..Len(page), page[i].source = "user"
       PROVE  page[i].id \notin Ids({r \in Rows("system") : r.good})
  <2>1. "system" \in ok
    BY <1>21 DEF Healthy
  <2>2. PICK u \in U : page[i] = EntryOf("user", u)
    BY <1>9, <1>12, <1>15, <1>21 DEF EntryOf
  <2>3. u.id \notin Collisions(ok)
    BY <1>6, <2>2 DEF GoodUser
  <2>4. QED  BY <2>1, <2>2, <2>3 DEF Collisions, EntryOf
<1>22. \A i \in 1..Len(page) : \E r \in Rows(page[i].source) :
                  /\ r.id = page[i].id /\ r.at = page[i].at /\ r.good
                  /\ Matches(r, query) /\ Past(r, query.after)
  BY <1>9, <1>12, <1>16
<1>23. Len(page) <= PageSize
  BY <1>9, <1>11
<1>24. QED  BY <1>11, <1>13, <1>14, <1>20, <1>21, <1>22, <1>23

(* Only the search and the interval of a question count.                   *)
LEMMA SameQuestion ==
    ASSUME NEW list, NEW p, NEW q, p.term = q.term, p.bounds = q.bounds, NEW after, NEW more,
           Answers(list, p, after, more)
    PROVE  Answers(list, q, after, more)
<1>1. \A r : Matches(r, p) <=> Matches(r, q)
  BY DEF Matches
<1>2. \A s : OwedTo(s, p) = OwedTo(s, q)
  BY <1>1 DEF OwedTo
<1>3. QED  BY <1>1, <1>2, Zenon DEF Answers

(* A table with the same rows, and one that was emptied.                   *)
SameRows(t, u) ==
    /\ u.gen = t.gen /\ u.term = t.term /\ u.bounds = t.bounds /\ u.after = t.after
    /\ u.hasMore = t.hasMore /\ u.loading = t.loading /\ u.loaded = t.loaded
    /\ u.failed = t.failed

(* A table whose question changed: its rows and its reads do not count.    *)
Emptied(t, u) ==
    /\ u.gen = t.gen + 1 /\ ~u.loading /\ u.hasMore /\ ~u.failed
    /\ u.after = Nothing /\ u.loaded = <<>>

(* What the user can make of a table without reading anything.             *)
Turned(t, u) == u \in Tables /\ (SameRows(t, u) \/ Emptied(t, u))

(* Loading a page of a table: at most one read is for what it asks.        *)
LEMMA ShowsKeeps ==
    ASSUME NEW u \in Tables, NEW others \in SUBSET Readings, NEW wants, Shows(u, others, wants),
           \A q \in others :
             /\ q.gen <= u.gen
             /\ q.gen = u.gen =>
                  u.loading /\ q.term = u.term /\ q.bounds = u.bounds /\ q.after = u.after,
           \A p, q \in others : p.gen = u.gen /\ q.gen = u.gen => p = q,
           u.failed => ~u.hasMore /\ ~u.loading,
           span' \in Intervals, cursor' \in Cursors, opening' = "done"
    PROVE  /\ TablesInv'
           /\ table'.term = u.term /\ table'.bounds = u.bounds /\ table'.after = u.after
           /\ table'.hasMore = u.hasMore /\ table'.loaded = u.loaded /\ table'.failed = u.failed
           /\ \A q \in reads' : q \in others \/ q.page = Nothing
<1> DEFINE new == [gen |-> u.gen, after |-> u.after, term |-> u.term, bounds |-> u.bounds,
                   page |-> Nothing, error |-> FALSE]
<1>1. CASE wants /\ ~u.loading /\ u.hasMore
  <2>1. table' = [u EXCEPT !.loading = TRUE] /\ reads' = others \cup {new}
    BY <1>1 DEF Shows
  <2>2. /\ table' \in Tables /\ table'.loading /\ table'.gen = u.gen
        /\ table'.term = u.term /\ table'.bounds = u.bounds /\ table'.after = u.after
        /\ table'.hasMore = u.hasMore /\ table'.loaded = u.loaded /\ table'.failed = u.failed
    BY <2>1 DEF Tables
  <2>3. new \in Readings
    BY DEF Tables, Readings
  <2>4. \A q \in others : q.gen <= u.gen /\ q.gen # u.gen
    BY <1>1
  <2>5. ~u.failed /\ ~table'.failed
    BY <1>1, <2>2
  <2>6. reads' \subseteq Readings /\ \A q \in reads' : q \in others \/ q = new
    BY <2>1, <2>3
  <2>7. /\ new.gen = u.gen /\ new.term = u.term /\ new.bounds = u.bounds
        /\ new.after = u.after /\ new.page = Nothing
    OBVIOUS
  <2> HIDE DEF new
  <2>8. \A p, q \in reads' : p.gen = table'.gen /\ q.gen = table'.gen => p = q
    BY <2>2, <2>4, <2>6
  <2>9. \A q \in reads' :
          /\ q.gen <= table'.gen
          /\ q.gen = table'.gen =>
               /\ table'.loading /\ q.term = table'.term /\ q.bounds = table'.bounds
               /\ q.after = table'.after
    <3>1. u.gen \in Nat
      BY DEF Tables
    <3>2. QED  BY <2>2, <2>4, <2>6, <2>7, <3>1
  <2>10. TablesInv'
    BY <2>2, <2>5, <2>6, <2>8, <2>9 DEF TablesInv
  <2>11. \A q \in reads' : q \in others \/ q.page = Nothing
    BY <2>6, <2>7
  <2>12. QED  BY <2>2, <2>10, <2>11
<1>2. CASE ~(wants /\ ~u.loading /\ u.hasMore)
  <2>1. table' = u /\ reads' = others
    BY <1>2 DEF Shows
  <2>2. QED  BY <2>1 DEF TablesInv
<1>3. QED  BY <1>1, <1>2

(* The same of the next state's sources.                                   *)
LEMMA SameAnswers ==
    ASSUME NEW t, NEW u, t.term = u.term, t.bounds = u.bounds, t.hasMore = u.hasMore,
           t.loaded = u.loaded, t.failed = u.failed,
           Answers(u.loaded, u, Nothing, u.hasMore \/ u.failed)'
    PROVE  Answers(t.loaded, t, Nothing, t.hasMore \/ t.failed)'
<1>1. \A r : Matches(r, u) <=> Matches(r, t)
  BY DEF Matches
<1>2. \A s : OwedTo(s, u)' = OwedTo(s, t)'
  BY <1>1 DEF OwedTo, Matches
<1>3. QED  BY <1>1, <1>2 DEF Answers, Matches

(* What a step leaves of the sources.                                      *)
SourcesStay == UNCHANGED <<store, state, connected, ceiling, known, shut>>

(* The sources stay as they are in such a step.                            *)
LEMMA StayingSources ==
    ASSUME ViewerInv, SourcesStay
    PROVE  /\ StoreOK' /\ (opening' = opening \/ opening' = "done" => SourcesInv')
           /\ \A list \in Seq(Entry) : \A query, after, more :
                Answers(list, query, after, more) => Answers(list, query, after, more)'
<1>1. StoreOK'
  BY DEF ViewerInv, StoreOK, SourcesStay, store
<1>2. ASSUME opening' = opening \/ opening' = "done" PROVE SourcesInv'
  BY <1>2 DEF ViewerInv, SourcesInv, SourcesStay, store
<1>3. \A s \in Sources : Rows(s)' = Rows(s)
  BY DEF Rows, Snapshot, SourcesStay, store
<1>4. Healthy' \subseteq Healthy /\ Healthy \subseteq Sources
  BY DEF Healthy, ViewerInv, SourcesInv, SourcesStay
<1>5. covered \subseteq covered' /\ connected' = connected
  BY DEF SourcesStay, store
<1>6. QED  BY <1>1, <1>2, <1>3, <1>4, <1>5, AnswersStay

(* What the user does turns the table, and may load a page.                *)
TableStep ==
    /\ SourcesStay /\ opening' = "done" /\ span' \in Intervals /\ cursor' \in Cursors
    /\ \E u \in Tables, wants \in BOOLEAN : Turned(table, u) /\ Shows(u, reads, wants)

(* A table that is turned, and loads a page or not, keeps the invariant.   *)
LEMMA TableTurns ==
    ASSUME ViewerInv, TableStep
    PROVE  StoreOK' /\ SourcesInv' /\ TablesInv' /\ ContentsInv'
<1>1. PICK u \in Tables, wants \in BOOLEAN : Turned(table, u) /\ Shows(u, reads, wants)
  BY DEF TableStep
<1>2. StoreOK' /\ SourcesInv'
      /\ \A list \in Seq(Entry) : \A query, after, more :
           Answers(list, query, after, more) => Answers(list, query, after, more)'
  BY StayingSources DEF TableStep
<1>3. \A q \in reads :
         /\ q.gen <= u.gen
         /\ q.gen = u.gen =>
              u.loading /\ q.term = u.term /\ q.bounds = u.bounds /\ q.after = u.after
  <2>1. \A q \in reads : q.gen \in Nat /\ q.gen <= table.gen
    BY DEF ViewerInv, TablesInv, Readings
  <2>2. CASE SameRows(table, u)
    BY <2>2 DEF SameRows, ViewerInv, TablesInv
  <2>3. CASE Emptied(table, u)
    BY <2>1, <2>3 DEF Emptied, ViewerInv, TablesInv, Tables
  <2>4. QED  BY <1>1, <2>2, <2>3 DEF Turned
<1>4. \A p, q \in reads : p.gen = u.gen /\ q.gen = u.gen => p = q
  <2>1. \A q \in reads : q.gen \in Nat /\ q.gen <= table.gen
    BY DEF ViewerInv, TablesInv, Readings
  <2>2. CASE SameRows(table, u)
    BY <2>2 DEF SameRows, ViewerInv, TablesInv
  <2>3. CASE Emptied(table, u)
    BY <2>1, <2>3 DEF Emptied, ViewerInv, TablesInv, Tables
  <2>4. QED  BY <1>1, <2>2, <2>3 DEF Turned
<1>5. /\ TablesInv'
      /\ table'.term = u.term /\ table'.bounds = u.bounds /\ table'.after = u.after
      /\ table'.hasMore = u.hasMore /\ table'.loaded = u.loaded /\ table'.failed = u.failed
      /\ \A q \in reads' : q \in reads \/ q.page = Nothing
  <2>1. reads \in SUBSET Readings
    BY DEF ViewerInv, TablesInv
  <2>2. u.failed => ~u.hasMore /\ ~u.loading
    BY <1>1 DEF Turned, SameRows, Emptied, ViewerInv, TablesInv
  <2>3. QED  BY <1>1, <1>3, <1>4, <2>1, <2>2, ShowsKeeps DEF TableStep
<1>6. /\ ~u.failed => u.after = End(u)
      /\ Answers(u.loaded, u, Nothing, u.hasMore \/ u.failed)'
  <2>1. u.loaded \in Seq(Entry)
    BY DEF Tables
  <2>2. CASE SameRows(table, u)
    <3>1. /\ ~table.failed => table.after = End(table)
          /\ Answers(table.loaded, table, Nothing, table.hasMore \/ table.failed)
      BY DEF ViewerInv, ContentsInv
    <3>2. Answers(u.loaded, table, Nothing, u.hasMore \/ u.failed)
      BY <2>2, <3>1 DEF SameRows
    <3>3. Answers(u.loaded, u, Nothing, u.hasMore \/ u.failed)
      BY <2>2, <3>2, SameQuestion DEF SameRows
    <3>4. Answers(u.loaded, u, Nothing, u.hasMore \/ u.failed)'
      BY <1>2, <2>1, <3>3
    <3>5. ~u.failed => u.after = End(u)
      BY <2>2, <3>1 DEF SameRows, End
    <3>6. QED  BY <3>4, <3>5
  <2>3. CASE Emptied(table, u)
    <3>1. Answers(u.loaded, u, Nothing, TRUE)
      BY <2>3, EmptyAnswers DEF Emptied
    <3>2. Answers(u.loaded, u, Nothing, u.hasMore \/ u.failed)
      BY <2>3, <3>1, AnswersWeaken DEF Emptied
    <3>3. Answers(u.loaded, u, Nothing, u.hasMore \/ u.failed)'
      BY <1>2, <2>1, <3>2
    <3>4. u.after = End(u)
      BY <2>3 DEF Emptied, End
    <3>5. QED  BY <3>3, <3>4
  <2>4. QED  BY <1>1, <2>2, <2>3 DEF Turned
<1>7. ASSUME NEW t, t = table'
      PROVE  /\ ~t.failed => t.after = End(t)
             /\ Answers(t.loaded, t, Nothing, t.hasMore \/ t.failed)'
  <2>1. /\ t.term = u.term /\ t.bounds = u.bounds /\ t.after = u.after
        /\ t.hasMore = u.hasMore /\ t.loaded = u.loaded /\ t.failed = u.failed
    BY <1>5, <1>7
  <2>2. QED  BY <1>6, <2>1, SameAnswers DEF End
<1>8. ASSUME NEW q \in reads', q.page # Nothing, ~q.error
      PROVE  Len(q.page) <= PageSize /\ Answers(q.page, q, q.after, Len(q.page) = PageSize)'
  <2>1. q \in reads /\ q.page \in Seq(Entry)
    BY <1>5, <1>8 DEF ViewerInv, TablesInv, Readings
  <2>2. Len(q.page) <= PageSize /\ Answers(q.page, q, q.after, Len(q.page) = PageSize)
    BY <1>8, <2>1 DEF ViewerInv, ContentsInv
  <2>3. QED  BY <1>2, <2>1, <2>2
<1>9. ContentsInv'
  BY <1>7, <1>8 DEF ContentsInv
<1>10. QED  BY <1>2, <1>5, <1>9

(* The operations on a table: what they empty, and what they leave.        *)
(* Looking for the cursor changes no row.                                  *)
LEMMA SyncedTurns ==
    ASSUME NEW t \in Tables, NEW record \in Cursors
    PROVE  Synced(t, record) \in Tables /\ SameRows(t, Synced(t, record))
<1> DEFINE P == IF /\ record # Nothing
                   /\ t.bounds = Nothing \/ record.at \in t.bounds
                   /\ record.id \notin Ids(ToSet(t.loaded))
                   /\ t.hasMore /\ (t.after = Nothing \/ t.after.at <= record.at)
                THEN record.id ELSE Nothing
<1>1. P \in Int \cup {Nothing}
  BY DEF Cursors
<1>2. Synced(t, record) = [t EXCEPT !.pending = P]
  BY DEF Synced
<1> HIDE DEF P
<1>3. QED  BY <1>1, <1>2 DEF Tables, SameRows

(* A reset empties the table.                                              *)
LEMMA ResetTurns ==
    ASSUME NEW t \in Tables
    PROVE  Reset(t) \in Tables /\ Emptied(t, Reset(t))
<1>1. <<>> \in Seq(Entry)
  OBVIOUS
<1> DEFINE a == [t EXCEPT !.gen = t.gen + 1]
           b == [a EXCEPT !.loading = FALSE]
           c == [b EXCEPT !.hasMore = TRUE]
           d == [c EXCEPT !.after = Nothing]
           e == [d EXCEPT !.loaded = <<>>]
           f == [e EXCEPT !.failed = FALSE]
<1>2. Reset(t) = f
  BY DEF Tables, Reset
<1>3. a \in Tables /\ a.gen = t.gen + 1
  BY DEF Tables
<1> HIDE DEF a
<1>4. b \in Tables /\ b.gen = a.gen /\ ~b.loading
  BY <1>3 DEF Tables
<1> HIDE DEF b
<1>5. c \in Tables /\ c.gen = b.gen /\ ~c.loading /\ c.hasMore
  BY <1>4 DEF Tables
<1> HIDE DEF c
<1>6. d \in Tables /\ d.gen = c.gen /\ ~d.loading /\ d.hasMore /\ d.after = Nothing
  BY <1>5 DEF Tables
<1> HIDE DEF d
<1>7. e \in Tables /\ e.gen = d.gen /\ ~e.loading /\ e.hasMore /\ e.after = Nothing /\ e.loaded = <<>>
  BY <1>1, <1>6 DEF Tables
<1> HIDE DEF e
<1>8. /\ f \in Tables /\ f.gen = e.gen /\ ~f.loading /\ f.hasMore /\ f.after = Nothing
      /\ f.loaded = <<>> /\ ~f.failed
  BY <1>7 DEF Tables
<1> HIDE DEF f
<1>9. QED  BY <1>2, <1>3, <1>4, <1>5, <1>6, <1>7, <1>8 DEF Emptied

(* Another interval empties the table, the same one does not.              *)
LEMMA RangedTurns ==
    ASSUME NEW t \in Tables, NEW bounds \in Intervals, NEW record \in Cursors
    PROVE  Turned(t, Ranged(t, bounds, record))
<1>1. CASE bounds = t.bounds
  BY <1>1 DEF Ranged, Turned, SameRows
<1>2. CASE bounds # t.bounds
  <2> DEFINE u == [t EXCEPT !.bounds = bounds]
  <2>1. u \in Tables /\ u.gen = t.gen
    BY DEF Tables
  <2>2. Ranged(t, bounds, record) = Synced(Reset(u), record)
    BY <1>2 DEF Ranged
  <2> HIDE DEF u
  <2>3. Reset(u) \in Tables /\ Emptied(u, Reset(u))
    BY <2>1, ResetTurns
  <2>4. Synced(Reset(u), record) \in Tables /\ SameRows(Reset(u), Synced(Reset(u), record))
    BY <2>3, SyncedTurns
  <2>5. QED  BY <2>1, <2>2, <2>3, <2>4 DEF Turned, Emptied, SameRows
<1>3. QED  BY <1>1, <1>2

(* Whatever was turned may look for the cursor after it.                   *)
LEMMA TurnedSynced ==
    ASSUME NEW t, NEW u, Turned(t, u), NEW record \in Cursors
    PROVE  Turned(t, Synced(u, record))
<1>1. u \in Tables /\ Synced(u, record) \in Tables /\ SameRows(u, Synced(u, record))
  BY SyncedTurns DEF Turned
<1>2. QED  BY <1>1 DEF Turned, SameRows, Emptied

(* What happens to the graph.                                              *)
GraphStep ==
    \/ UNCHANGED <<graph, graphReads>>
    \/ UNCHANGED graphReads /\ \E view \in Views : graph' = Queued(view)
    \/ /\ graph' = [graph EXCEPT !.timer = FALSE]
       /\ graphReads' = graphReads \cup {[gen |-> graph.gen, view |-> graph.view]}
    \/ \E read \in graphReads, data \in Shown :
         /\ data \in {read.view, Nothing}
         /\ graphReads' = graphReads \ {read}
         /\ graph' = IF shut \/ read.gen # graph.gen THEN graph
                     ELSE [graph EXCEPT !.loading = FALSE, !.data = data]

(* Whatever happens to the graph, it shows its view or nothing when it     *)
(* rests.                                                                  *)
LEMMA GraphSteps == GraphInv /\ GraphStep => GraphInv'
<1> SUFFICES ASSUME GraphInv, GraphStep PROVE GraphInv'
  OBVIOUS
<1>1. CASE UNCHANGED <<graph, graphReads>>
  BY <1>1 DEF GraphInv, GraphCurrent
<1>2. ASSUME UNCHANGED graphReads, NEW view \in Views, graph' = Queued(view)
      PROVE  GraphInv'
  <2>1. graph' \in Graphs /\ graph'.gen = graph.gen + 1
    <3>1. graph \in Graphs
      BY DEF GraphInv
    <3> DEFINE a == [graph EXCEPT !.gen = graph.gen + 1]
               b(flag) == [a EXCEPT !.timer = flag]
               c(flag) == [b(flag) EXCEPT !.loading = flag]
               d(flag) == [c(flag) EXCEPT !.view = view]
               e(flag) == [d(flag) EXCEPT !.data = view]
    <3>2. graph' = IF view = Empty THEN e(FALSE) ELSE d(TRUE)
      BY <1>2, <3>1 DEF Queued, Graphs
    <3>3. a \in Graphs /\ a.gen = graph.gen + 1
      BY <3>1 DEF Graphs
    <3> HIDE DEF a
    <3>4. \A flag \in BOOLEAN : b(flag) \in Graphs /\ b(flag).gen = a.gen
      BY <3>3 DEF Graphs
    <3> HIDE DEF b
    <3>5. \A flag \in BOOLEAN : c(flag) \in Graphs /\ c(flag).gen = a.gen
      BY <3>4 DEF Graphs
    <3> HIDE DEF c
    <3>6. \A flag \in BOOLEAN : d(flag) \in Graphs /\ d(flag).gen = a.gen
      BY <3>5 DEF Graphs, Shown
    <3> HIDE DEF d
    <3>7. \A flag \in BOOLEAN : e(flag) \in Graphs /\ e(flag).gen = a.gen
      BY <3>6 DEF Graphs, Shown
    <3> HIDE DEF e
    <3>8. QED  BY <3>2, <3>3, <3>6, <3>7
  <2>2. ~graph'.loading => graph'.data \in {graph'.view, Nothing}
    BY <1>2 DEF Queued, GraphInv, Graphs
  <2>3. \A g \in graphReads : g.gen \in Nat /\ g.gen <= graph.gen /\ graph.gen \in Nat
    BY DEF GraphInv, Graphs
  <2>4. QED  BY <1>2, <2>1, <2>2, <2>3 DEF GraphInv, GraphCurrent
<1>3. CASE /\ graph' = [graph EXCEPT !.timer = FALSE]
           /\ graphReads' = graphReads \cup {[gen |-> graph.gen, view |-> graph.view]}
  <2>1. /\ graph' \in Graphs /\ graph'.gen = graph.gen /\ graph'.view = graph.view
        /\ graph'.loading = graph.loading /\ graph'.data = graph.data
    BY <1>3 DEF GraphInv, Graphs
  <2>2. [gen |-> graph.gen, view |-> graph.view] \in [gen : Nat, view : Shown]
    BY DEF GraphInv, Graphs
  <2>3. graph.gen \in Nat
    BY DEF GraphInv, Graphs
  <2>4. QED  BY <1>3, <2>1, <2>2, <2>3 DEF GraphInv, GraphCurrent
<1>4. ASSUME NEW read \in graphReads, NEW data \in Shown, data \in {read.view, Nothing},
             graphReads' = graphReads \ {read},
             graph' = IF shut \/ read.gen # graph.gen THEN graph
                      ELSE [graph EXCEPT !.loading = FALSE, !.data = data]
      PROVE  GraphInv'
  BY <1>4 DEF GraphInv, GraphCurrent, Graphs
<1>5. QED  BY <1>1, <1>2, <1>3, <1>4 DEF GraphStep

-----------------------------------------------------------------------------
(* What the user and the timers do.                                        *)

(* A click sets the cursor on a row that is there.                         *)
LEMMA CursorOfRow ==
    ASSUME StoreOK, SourcesInv, NEW record \in Records
    PROVE  record \in Cursors
<1>1. Rows("system") \subseteq Stored /\ Rows("user") \subseteq Stored
  BY RowsChain DEF Sources
<1>2. QED  BY <1>1 DEF Records, Cursors, Stored

(* A step that leaves the table alone is a turn that changes nothing.      *)
LEMMA Untouched ==
    ASSUME ViewerInv, SourcesStay, opening' = "done", UNCHANGED tables
    PROVE  TableStep
<1>1. Turned(table, table) /\ table \in Tables
  BY DEF Turned, SameRows, ViewerInv, TablesInv
<1>2. Shows(table, reads, FALSE)
  BY DEF Shows, tables
<1>3. span' \in Intervals /\ cursor' \in Cursors
  BY DEF tables, ViewerInv, TablesInv
<1>4. QED  BY <1>1, <1>2, <1>3 DEF TableStep

(* What the lemmas about the handlers need to know of the types.           *)
Typed == /\ table \in Tables /\ span \in Intervals /\ cursor \in Cursors

(* A search and its timer turn the table.                                  *)
LEMMA UserSearches ==
    ASSUME ViewerInv, UNCHANGED store,
           (\E term \in Terms : Search(term)) \/ StartSearch
    PROVE  TableStep /\ GraphStep
<1>1. Typed
  BY DEF ViewerInv, TablesInv, Typed
<1>2. ASSUME NEW term \in Terms, Search(term) PROVE TableStep /\ GraphStep
  <2> DEFINE t == [table EXCEPT !.term = term]
             u == Synced(Reset(t), cursor)
  <2>1. t \in Tables /\ t.gen = table.gen
    BY <1>1 DEF Typed, Tables
  <2> HIDE DEF t
  <2>2. Turned(t, Reset(t)) /\ Emptied(t, Reset(t))
    BY <2>1, ResetTurns DEF Turned
  <2>3. Turned(t, u) /\ Emptied(t, u)
    <3>1. Reset(t) \in Tables /\ u \in Tables /\ SameRows(Reset(t), u)
      BY <1>1, <2>1, ResetTurns, SyncedTurns DEF Typed
    <3>2. QED  BY <2>2, <3>1 DEF Turned, Emptied, SameRows
  <2>4. Turned(table, u)
    BY <2>1, <2>3 DEF Turned, Emptied
  <2>5. Shows(u, reads, FALSE)
    BY <1>2 DEF Search, t
  <2>6. QED  BY <1>1, <1>2, <2>4, <2>5
             DEF Search, Running, TableStep, GraphStep, SourcesStay, Typed, Turned, sources, graphs
<1>3. CASE StartSearch
  <2>1. Turned(table, table)
    BY <1>1 DEF Turned, SameRows, Typed
  <2>2. QED  BY <1>1, <1>3, <2>1
             DEF StartSearch, Running, TableStep, GraphStep, SourcesStay, Typed, sources, graphs
<1>4. QED  BY <1>2, <1>3

(* So does selecting, dragging, scrolling and changing tabs,               *)
LEMMA UserSelects ==
    ASSUME ViewerInv, UNCHANGED store,
           \/ \E bounds \in Spans \cup {Nothing} : SelectRange(bounds)
           \/ \E bounds \in Spans : DragRange(bounds)
           \/ EndDrag \/ Scroll \/ OpenTable \/ OpenGraph
    PROVE  TableStep /\ GraphStep
<1> USE DEF Running, TableStep, GraphStep, SourcesStay, sources, graphs
<1>1. Typed
  BY DEF ViewerInv, TablesInv, Typed
<1>2. Turned(table, table)
  BY <1>1 DEF Turned, SameRows, Typed
<1>3. ASSUME NEW bounds \in Intervals, SelectRange(bounds) PROVE TableStep /\ GraphStep
  <2>1. Turned(table, Ranged(table, bounds, cursor))
    BY <1>1, RangedTurns DEF Typed
  <2>2. QED  BY <1>1, <1>3, <2>1 DEF SelectRange, Typed, Turned
<1>4. ASSUME NEW bounds \in Spans, DragRange(bounds) PROVE TableStep /\ GraphStep
  <2>1. Shows(table, reads, FALSE)
    BY <1>4 DEF DragRange, Shows
  <2>2. QED  BY <1>1, <1>2, <1>4, <2>1 DEF DragRange, Typed, Intervals
<1>5. CASE EndDrag
  <2>1. Turned(table, Ranged(table, span, cursor))
    BY <1>1, RangedTurns DEF Typed
  <2>2. QED  BY <1>1, <1>5, <2>1 DEF EndDrag, Typed, Turned
<1>6. CASE Scroll
  BY <1>1, <1>2, <1>6 DEF Scroll, Typed
<1>7. CASE OpenTable
  <2>1. Turned(table, Ranged(table, span, cursor))
    BY <1>1, RangedTurns DEF Typed
  <2>2. Turned(table, Synced(Ranged(table, span, cursor), cursor))
    BY <1>1, <2>1, TurnedSynced DEF Typed
  <2>3. QED  BY <1>1, <1>7, <2>2 DEF OpenTable, Typed, Turned
<1>8. CASE OpenGraph
  <2>1. Shows(table, reads, FALSE)
    BY <1>8 DEF OpenGraph, Shows
  <2>2. QED  BY <1>1, <1>2, <1>8, <2>1 DEF OpenGraph, Typed
<1>9. QED  BY <1>3, <1>4, <1>5, <1>6, <1>7, <1>8 DEF Intervals

(* setting the cursor,                                                     *)
LEMMA UserPoints ==
    ASSUME ViewerInv, UNCHANGED store,
           \E record \in Records : SetCursor(record) \/ ClickTwice(record)
    PROVE  TableStep /\ GraphStep
<1> USE DEF Running, TableStep, GraphStep, SourcesStay, sources, graphs
<1>1. Typed
  BY DEF ViewerInv, TablesInv, Typed
<1>2. PICK record \in Records : SetCursor(record) \/ ClickTwice(record)
  OBVIOUS
<1>3. record \in Cursors
  BY CursorOfRow DEF ViewerInv
<1>4. CASE SetCursor(record)
  <2>1. Turned(table, Synced(table, record))
    BY <1>1, <1>3, SyncedTurns DEF Turned, Typed
  <2>2. QED  BY <1>1, <1>3, <1>4, <2>1 DEF SetCursor, Typed, Turned
<1>5. CASE ClickTwice(record)
  <2>1. Turned(table, Ranged(table, Nothing, cursor))
    BY <1>1, RangedTurns DEF Typed, Intervals
  <2>2. Turned(table, Synced(Ranged(table, Nothing, cursor), record))
    BY <1>3, <2>1, TurnedSynced
  <2>3. QED  BY <1>1, <1>3, <1>5, <2>2 DEF ClickTwice, Typed, Turned, Intervals
<1>6. QED  BY <1>2, <1>4, <1>5

(* and every button that moves the graph.                                  *)
LEMMA UserViews ==
    ASSUME ViewerInv, UNCHANGED store, NEW view \in Views,
           \/ AskGraph(view) \/ AllHistory(view) \/ Fit(view) \/ ResetView(view)
           \/ \E bounds \in Spans : Zoom(view, bounds) \/ ViewSelection(view, bounds)
           \/ \E i \in DOMAIN table.loaded : FocusRecord(i, view)
    PROVE  TableStep /\ GraphStep
<1> USE DEF Running, SourcesStay, sources
<1>1. Typed
  BY DEF ViewerInv, TablesInv, Typed
<1>2. \A bounds \in Intervals, record \in Cursors : Turned(table, Ranged(table, bounds, record))
  BY <1>1, RangedTurns DEF Typed
<1>3. Nothing \in Intervals /\ Nothing \in Cursors /\ Spans \subseteq Intervals
  BY DEF Intervals, Cursors
<1>4. CASE AskGraph(view)
  <2>1. TableStep
    BY <1>4, Untouched DEF AskGraph
  <2>2. QED  BY <1>4, <2>1 DEF AskGraph, GraphStep
<1>5. CASE AllHistory(view)
  <2> DEFINE t == [table EXCEPT !.term = NoTerm, !.bounds = Nothing, !.pending = Nothing]
  <2>1. t \in Tables /\ t.gen = table.gen
    BY <1>1, <1>3, ViewerAssumption DEF Typed, Tables
  <2>2. Shows(Reset(t), reads, TRUE)
    BY <1>5 DEF AllHistory
  <2> HIDE DEF t
  <2>3. Reset(t) \in Tables /\ Turned(table, Reset(t))
    BY <2>1, ResetTurns DEF Turned, Emptied
  <2>4. TableStep
    BY <1>3, <1>5, <2>2, <2>3 DEF AllHistory, TableStep
  <2>5. QED  BY <1>5, <2>4 DEF AllHistory, GraphStep
<1>6. CASE Fit(view)
  <2>1. TableStep
    BY <1>1, <1>2, <1>6 DEF Fit, CanReset, Resets, TableStep, Typed, Turned
  <2>2. QED  BY <1>6, <2>1 DEF Fit, GraphStep
<1>7. CASE ResetView(view)
  <2>1. Turned(table, Synced(Ranged(table, Nothing, Nothing), Nothing))
    BY <1>2, <1>3, TurnedSynced
  <2>2. TableStep
    BY <1>3, <1>7, <2>1 DEF ResetView, CanReset, Resets, TableStep, Turned
  <2>3. QED  BY <1>7, <2>2 DEF ResetView, GraphStep
<1>8. ASSUME NEW bounds \in Spans, Zoom(view, bounds) PROVE TableStep /\ GraphStep
  <2>1. TableStep
    BY <1>1, <1>2, <1>3, <1>8 DEF Zoom, CanReset, Resets, TableStep, Typed, Turned
  <2>2. QED  BY <1>8, <2>1 DEF Zoom, GraphStep
<1>9. ASSUME NEW bounds \in Spans, ViewSelection(view, bounds) PROVE TableStep /\ GraphStep
  <2>1. TableStep
    BY <1>1, <1>2, <1>3, <1>9 DEF ViewSelection, CanReset, Resets, TableStep, Typed, Turned
  <2>2. QED  BY <1>9, <2>1 DEF ViewSelection, GraphStep
<1>10. ASSUME NEW i \in DOMAIN table.loaded, FocusRecord(i, view) PROVE TableStep /\ GraphStep
  <2>1. cursor' \in Cursors
    <3>1. table.loaded \in Seq(Entry)
      BY <1>1 DEF Typed, Tables
    <3>2. table.loaded[i] \in Entry
      BY <3>1, ElementOfSeq
    <3>3. QED  BY <1>10, <3>2 DEF FocusRecord, Entry, Cursors
  <2>2. Turned(table, table') /\ Shows(table', reads, FALSE)
    <3>1. table' = Synced(table, cursor')
      BY <1>10 DEF FocusRecord
    <3>2. table' \in Tables /\ SameRows(table, table')
      BY <1>1, <2>1, <3>1, SyncedTurns DEF Typed
    <3>3. QED  BY <1>10, <3>2 DEF FocusRecord, Turned, Shows
  <2>3. TableStep
    BY <1>1, <1>10, <2>1, <2>2 DEF FocusRecord, TableStep, Typed, Turned
  <2>4. QED  BY <1>10, <2>3 DEF FocusRecord, GraphStep
<1>11. QED  BY <1>4, <1>5, <1>6, <1>7, <1>8, <1>9, <1>10

-----------------------------------------------------------------------------
(* The other steps. *)

(* The answers stay while the tables do.                                   *)
LEMMA ContentsStay ==
    ASSUME ViewerInv, UNCHANGED tables, \A s \in Sources : Rows(s)' = Rows(s),
           Healthy' \subseteq Healthy, covered \subseteq covered',
           connected' = connected \/ Healthy' = {}
    PROVE  ContentsInv'
<1>1. \A list \in Seq(Entry) : \A query, after, more :
         Answers(list, query, after, more) => Answers(list, query, after, more)'
  <2>1. Healthy \subseteq Sources
    BY DEF Healthy, ViewerInv, SourcesInv
  <2>2. QED  BY <2>1, AnswersStay
<1>2. table.loaded \in Seq(Entry) /\ \A q \in reads : q.page # Nothing => q.page \in Seq(Entry)
  BY DEF ViewerInv, TablesInv, Tables, Readings
<1>3. table' = table /\ reads' = reads
  BY DEF tables
<1>4. ASSUME NEW t, t = table'
      PROVE  /\ ~t.failed => t.after = End(t)
             /\ Answers(t.loaded, t, Nothing, t.hasMore \/ t.failed)'
  BY <1>1, <1>2, <1>3, <1>4 DEF ViewerInv, ContentsInv
<1>5. ASSUME NEW q \in reads', q.page # Nothing, ~q.error
      PROVE  Len(q.page) <= PageSize /\ Answers(q.page, q, q.after, Len(q.page) = PageSize)'
  BY <1>1, <1>2, <1>3, <1>5 DEF ViewerInv, ContentsInv
<1>6. QED  BY <1>4, <1>5 DEF ContentsInv

(* A commit of the writers.                                                *)
LEMMA ViewerAside ==
    ASSUME ViewerInv, StoreOK', Grows, covered \subseteq covered', UNCHANGED viewer
    PROVE  ViewerInv'
<1> USE DEF viewer
<1>1. \A s \in Sources : ceiling[s] \in Nat /\ ceiling[s] <= Len(db[s]) /\ ceiling[s] <= Len(db'[s])
  <2>1. ASSUME NEW s \in Sources
        PROVE  ceiling[s] \in Nat /\ ceiling[s] <= Len(db[s]) /\ ceiling[s] <= Len(db'[s])
    <3>1. ceiling[s] \in Nat /\ ceiling[s] <= Len(db[s]) /\ Len(db[s]) <= Len(db'[s])
      BY DEF ViewerInv, SourcesInv, Grows
    <3>2. Len(db[s]) \in Nat /\ Len(db'[s]) \in Nat
      BY DEF ViewerInv, StoreOK
    <3>3. QED  BY <3>1, <3>2
  <2>2. QED  BY <2>1
<1>2. SourcesInv'
  BY <1>1 DEF ViewerInv, SourcesInv, sources
<1>3. ASSUME NEW s \in Sources PROVE Rows(s)' = Rows(s)
  <2>1. \A c \in Nat : c <= Len(db[s]) => Snapshot(s, c)' = Snapshot(s, c)
    BY SnapshotStays DEF ViewerInv
  <2>2. {db'[s][i] : i \in 1..ceiling[s]} = {db[s][i] : i \in 1..ceiling[s]}
    BY <1>1, <2>1 DEF Snapshot
  <2>3. QED  BY <2>2 DEF Rows, Snapshot, sources
<1>4. Healthy' = Healthy /\ connected' = connected
  BY DEF Healthy, sources
<1>5. ContentsInv'
  BY <1>3, <1>4, ContentsStay
<1>6. TablesInv' /\ GraphInv'
  BY DEF ViewerInv, TablesInv, GraphInv, GraphCurrent, sources, tables, graphs
<1>7. QED  BY <1>2, <1>5, <1>6 DEF ViewerInv

(* Nothing is loaded while the sources are opened.                         *)
LEMMA SourcesOpen ==
    ASSUME ViewerInv, UNCHANGED store, Opens
    PROVE  ViewerInv'
<1>1. StoreOK' /\ \A s \in Sources : Len(db[s]) \in Nat
  BY DEF ViewerInv, StoreOK, store
<1>2. opening # "done" /\ opening' # "done" /\ UNCHANGED <<tables, graphs, shut>>
  BY DEF Opens, OpenCoverage, OpenSource, OpenFails, Sources
<1>3. SourcesInv'
  <2>1. CASE OpenCoverage
    BY <1>2, <2>1 DEF OpenCoverage, ViewerInv, SourcesInv, store
  <2>2. ASSUME NEW s \in Sources, OpenSource(s) PROVE SourcesInv'
    <3>1. ceiling' \in [Sources -> Nat] /\ \A x \in Sources : ceiling'[x] <= Len(db[x])
      BY <1>1, <2>2 DEF OpenSource, ViewerInv, SourcesInv
    <3>2. state' \in [Sources -> {"unavailable", "ready", "error"}]
      BY <2>2 DEF OpenSource, ViewerInv, SourcesInv
    <3>3. opening' = IF s = "system" THEN "coverage" ELSE "open"
      BY <2>2 DEF OpenSource
    <3>4. connected' = connected \cup {s} /\ known' = known
      BY <2>2 DEF OpenSource
    <3>5. QED  BY <1>2, <3>1, <3>2, <3>3, <3>4 DEF ViewerInv, SourcesInv, Sources, store
  <2>3. ASSUME NEW s \in Sources, OpenFails(s) PROVE SourcesInv'
    <3>1. state' \in [Sources -> {"unavailable", "ready", "error"}]
      BY <2>3 DEF OpenFails, ViewerInv, SourcesInv
    <3>2. /\ opening' = IF s = "system" THEN "user" ELSE "open"
          /\ connected' = connected \ {s} /\ known' = IF s = "system" THEN {} ELSE known
          /\ ceiling' = ceiling
      BY <2>3 DEF OpenFails
    <3>3. QED  BY <1>2, <3>1, <3>2 DEF ViewerInv, SourcesInv, Sources, store
  <2>4. QED  BY <2>1, <2>2, <2>3 DEF Opens
<1>4. TablesInv'
  BY <1>2 DEF ViewerInv, TablesInv, tables
<1>5. ContentsInv'
  <2>1. /\ reads' = {} /\ table'.loaded = <<>> /\ table'.after = Nothing /\ table'.hasMore
    BY <1>2, <1>4 DEF TablesInv
  <2>2. ASSUME NEW t, t = table' PROVE Answers(t.loaded, t, Nothing, t.hasMore \/ t.failed)'
    BY <2>1, <2>2 DEF Answers
  <2>3. QED  BY <2>1, <2>2 DEF ContentsInv, End
<1>6. GraphInv'
  BY <1>2 DEF ViewerInv, GraphInv, GraphCurrent, graphs
<1>7. QED  BY <1>1, <1>3, <1>4, <1>5, <1>6 DEF ViewerInv

(* The first page is asked for.                                            *)
LEMMA FirstLoad ==
    ASSUME ViewerInv, UNCHANGED store, LoadFirst
    PROVE  ViewerInv'
<1>1. Turned(table, table) /\ table \in Tables
  BY DEF Turned, SameRows, ViewerInv, TablesInv
<1>2. TableStep
  BY <1>1 DEF LoadFirst, TableStep, SourcesStay, ViewerInv, TablesInv
<1>3. GraphInv'
  BY GraphSteps DEF LoadFirst, GraphStep, ViewerInv
<1>4. QED  BY <1>2, <1>3, TableTurns DEF ViewerInv

(* A read that returns still is for what it asked.                         *)
LEMMA ReadReturns ==
    ASSUME ViewerInv, opening' = opening, table' = table, span' = span, cursor' = cursor,
           NEW query \in reads, NEW done \in Readings, done.gen = query.gen,
           done.term = query.term, done.bounds = query.bounds, done.after = query.after,
           reads' = (reads \ {query}) \cup {done}
    PROVE  TablesInv'
<1>1. ASSUME NEW q \in reads'
      PROVE  \E p \in reads :
               /\ p.gen = q.gen /\ p.term = q.term /\ p.bounds = q.bounds /\ p.after = q.after
               /\ q = IF p = query THEN done ELSE p
  OBVIOUS
<1>2. \A p, q \in reads' : p.gen = table.gen /\ q.gen = table.gen => p = q
  BY <1>1 DEF ViewerInv, TablesInv
<1>3. \A q \in reads' :
         /\ q.gen <= table.gen
         /\ q.gen = table.gen =>
              /\ table.loading /\ q.term = table.term /\ q.bounds = table.bounds
              /\ q.after = table.after
  BY <1>1 DEF ViewerInv, TablesInv
<1>4. reads' \subseteq Readings /\ opening = "done"
  BY DEF ViewerInv, TablesInv
<1>5. QED  BY <1>2, <1>3, <1>4 DEF ViewerInv, TablesInv

(* A thread reads its page,                                                *)
LEMMA PageRead ==
    ASSUME ViewerInv, UNCHANGED store, NEW query \in reads, ReadPage(query),
           NEW failing \in SUBSET connected, Page(query, failing)
    PROVE  ViewerInv'
<1>1. query \in Readings /\ opening = "done"
  BY DEF ViewerInv, TablesInv
<1>2. StoreOK' /\ covered' = covered /\ connected' = connected /\ ceiling' = ceiling
      /\ shut' = shut /\ opening' = opening /\ table' = table
  BY DEF ReadPage, ViewerInv, StoreOK, store
<1>3. /\ state' \in [Sources -> {"unavailable", "ready", "error"}] /\ known' \subseteq known
      /\ {s \in connected : state'[s] = "ready"} = {s \in connected : state[s] = "ready"} \ failing
  BY PageOutcome DEF ViewerInv
<1>4. Healthy' = Healthy \ failing
  BY <1>2, <1>3 DEF Healthy
<1>5. SourcesInv'
  BY <1>2, <1>3 DEF ViewerInv, SourcesInv, store
<1>6. PICK page \in Seq(Entry) :
             /\ reads' = (reads \ {query}) \cup {[query EXCEPT !.page = page]}
             /\ Len(page) <= PageSize
             /\ \A i, j \in 1..Len(page) : i < j => Before(page[i], page[j])
             /\ \A i \in 1..Len(page) : \E r \in Rows(page[i].source) :
                  /\ r.id = page[i].id /\ r.at = page[i].at /\ r.good
                  /\ Matches(r, query) /\ Past(r, query.after)
             /\ \A s \in Healthy \ failing : \A r \in OwedTo(s, query) : Past(r, query.after) =>
                  \/ \E i \in 1..Len(page) : page[i].source = s /\ page[i].id = r.id
                  \/ Len(page) = PageSize /\ (page # <<>> => Before(page[Len(page)], r))
             /\ "system" \in Healthy \ failing =>
                  \A i \in 1..Len(page) :
                      page[i].source = "user" => page[i].id \notin Ids({r \in Rows("system") : r.good})
  BY <1>1, PageAnswers DEF ViewerInv
<1> DEFINE done == [query EXCEPT !.page = page]
<1>7. /\ done \in Readings /\ done.page = page /\ done.gen = query.gen
      /\ done.term = query.term /\ done.bounds = query.bounds /\ done.after = query.after
  BY <1>1 DEF Readings
<1> HIDE DEF done
<1>8. reads' = (reads \ {query}) \cup {done}
  BY <1>6 DEF done
<1>9. TablesInv'
  <2>1. span' = span /\ cursor' = cursor
    BY DEF ReadPage
  <2>2. QED  BY <1>2, <1>7, <1>8, <2>1, ReadReturns
<1>10. \A s \in Sources : Rows(s)' = Rows(s)
  BY <1>2 DEF Rows, Snapshot, store
<1>11. Answers(page, done, done.after, Len(page) = PageSize)'
  <2>1. \A r : Matches(r, done) <=> Matches(r, query)
    BY <1>7 DEF Matches
  <2>2. ASSUME NEW s \in Healthy \ failing
        PROVE  OwedTo(s, done)' = OwedTo(s, query)
    <3>1. s \in Sources /\ "system" \in Sources
      BY <2>2 DEF Healthy, ViewerInv, SourcesInv, Sources
    <3>2. QED  BY <1>2, <1>10, <2>1, <3>1 DEF OwedTo, Matches, Suppressed, Ids
  <2>3. \A i \in 1..Len(page) : page[i].source \in Sources
    <3>1. \A i \in 1..Len(page) : page[i] \in Entry
      BY ElementOfSeq
    <3>2. QED  BY <3>1 DEF Entry
  <2>4. \A i \in 1..Len(page) : \E r \in Rows(page[i].source)' :
                  /\ r.id = page[i].id /\ r.at = page[i].at /\ r.good
                  /\ Matches(r, done) /\ Past(r, done.after)
    BY <1>6, <1>7, <1>10, <2>1, <2>3
  <2>5. \A s \in Healthy' : \A r \in OwedTo(s, done)' : Past(r, done.after) =>
                  \/ \E i \in 1..Len(page) : page[i].source = s /\ page[i].id = r.id
                  \/ Len(page) = PageSize /\ (page # <<>> => Before(page[Len(page)], r))
    BY <1>4, <1>6, <1>7, <2>2
  <2>6. "system" \in Healthy' =>
          \A i \in 1..Len(page) :
              page[i].source = "user" => page[i].id \notin Ids({r \in Rows("system")' : r.good})
    BY <1>4, <1>6, <1>10 DEF Sources
  <2>7. \A i, j \in 1..Len(page) : i < j => Before(page[i], page[j])
    BY <1>6
  <2>8. QED  BY <2>4, <2>5, <2>6, <2>7 DEF Answers, Before, Past, Matches, Ids
<1>12. ContentsInv'
  <2>1. \A list \in Seq(Entry) : \A q, after, more :
           Answers(list, q, after, more) => Answers(list, q, after, more)'
    <3>1. Healthy' \subseteq Healthy /\ Healthy \subseteq Sources
      BY <1>4 DEF Healthy, ViewerInv, SourcesInv
    <3>2. QED  BY <1>2, <1>10, <3>1, AnswersStay
  <2>2. table.loaded \in Seq(Entry) /\ \A q \in reads : q.page # Nothing => q.page \in Seq(Entry)
    BY DEF ViewerInv, TablesInv, Tables, Readings
  <2>3. ASSUME NEW t, t = table'
        PROVE  /\ ~t.failed => t.after = End(t)
               /\ Answers(t.loaded, t, Nothing, t.hasMore \/ t.failed)'
    BY <1>2, <2>1, <2>2, <2>3 DEF ViewerInv, ContentsInv
  <2>4. ASSUME NEW q \in reads', q.page # Nothing, ~q.error
        PROVE  Len(q.page) <= PageSize /\ Answers(q.page, q, q.after, Len(q.page) = PageSize)'
    <3>1. CASE q \in reads
      BY <2>1, <2>2, <2>4, <3>1 DEF ViewerInv, ContentsInv
    <3>2. CASE q = done
      BY <1>6, <1>7, <1>11, <3>2
    <3>3. QED  BY <1>8, <3>1, <3>2
  <2>5. QED  BY <2>3, <2>4 DEF ContentsInv
<1>13. GraphInv'
  BY DEF ReadPage, ViewerInv, GraphInv, GraphCurrent, graphs
<1>14. QED  BY <1>2, <1>5, <1>9, <1>12, <1>13 DEF ViewerInv

(* or its read fails.                                                      *)
LEMMA ReadFails ==
    ASSUME ViewerInv, UNCHANGED store, NEW query \in reads, ReadPage(query), Raises(query)
    PROVE  ViewerInv'
<1> DEFINE part == [query EXCEPT !.page = <<>>]
           done == [part EXCEPT !.error = TRUE]
<1>1. reads' = (reads \ {query}) \cup {done}
  BY DEF Raises
<1>2. query \in Readings /\ <<>> \in Seq(Entry)
  BY DEF ViewerInv, TablesInv
<1>3. /\ part \in Readings /\ part.gen = query.gen
      /\ part.term = query.term /\ part.bounds = query.bounds /\ part.after = query.after
  BY <1>2 DEF Readings
<1> HIDE DEF part
<1>4. /\ done \in Readings /\ done.gen = query.gen /\ done.error
      /\ done.term = query.term /\ done.bounds = query.bounds /\ done.after = query.after
  BY <1>3 DEF Readings
<1> HIDE DEF done
<1>5. /\ opening' = opening /\ table' = table /\ span' = span /\ cursor' = cursor
      /\ UNCHANGED graphs /\ SourcesStay
  BY DEF ReadPage, Raises, SourcesStay
<1>6. TablesInv'
  BY <1>1, <1>4, <1>5, ReadReturns
<1>7. StoreOK' /\ SourcesInv'
      /\ \A list \in Seq(Entry) : \A q, after, more :
           Answers(list, q, after, more) => Answers(list, q, after, more)'
  BY <1>5, StayingSources
<1>8. table.loaded \in Seq(Entry) /\ \A q \in reads : q.page # Nothing => q.page \in Seq(Entry)
  BY DEF ViewerInv, TablesInv, Tables, Readings
<1>9. ContentsInv'
  <2>1. ASSUME NEW t, t = table'
        PROVE  /\ ~t.failed => t.after = End(t)
               /\ Answers(t.loaded, t, Nothing, t.hasMore \/ t.failed)'
    BY <1>5, <1>7, <1>8, <2>1 DEF ViewerInv, ContentsInv
  <2>2. ASSUME NEW q \in reads', q.page # Nothing, ~q.error
        PROVE  Len(q.page) <= PageSize /\ Answers(q.page, q, q.after, Len(q.page) = PageSize)'
    <3>1. q \in reads
      BY <1>1, <1>4, <2>2
    <3>2. QED  BY <1>7, <1>8, <2>2, <3>1 DEF ViewerInv, ContentsInv
  <2>3. QED  BY <2>1, <2>2 DEF ContentsInv
<1>10. GraphInv'
  BY <1>5 DEF ViewerInv, GraphInv, GraphCurrent, graphs
<1>11. QED  BY <1>6, <1>7, <1>9, <1>10 DEF ViewerInv

(* All of a sequence.                                                      *)
LEMMA WholeIsPrefix ==
    ASSUME NEW page \in Seq(Entry)
    PROVE  SubSeq(page, 1, Len(page)) = page
OBVIOUS

(* A page appended to the table,                                           *)
LEMMA AppendedRows ==
    ASSUME NEW t \in Tables, NEW page \in Seq(Entry)
    PROVE  LET u == Appended(t, page)
           IN  /\ u \in Tables /\ u.gen = t.gen /\ u.term = t.term /\ u.bounds = t.bounds
               /\ ~u.loading /\ u.loaded = t.loaded \o page
               /\ u.after = IF page = <<>> THEN t.after ELSE page[Len(page)]
               /\ u.hasMore = (Len(page) = PageSize) /\ u.failed = t.failed
<1> DEFINE after == IF page = <<>> THEN t.after ELSE page[Len(page)]
           full == (Len(page) = PageSize)
           whole == t.loaded \o page
           a == [t EXCEPT !.loading = FALSE]
           b == [a EXCEPT !.loaded = whole]
           c == [b EXCEPT !.after = after]
           d == [c EXCEPT !.hasMore = full]
<1>1. whole \in Seq(Entry)
  BY ConcatProperties DEF Tables
<1>2. after \in Entry \cup {Nothing}
  <2>1. CASE page = <<>>
    BY <2>1 DEF Tables
  <2>2. CASE page # <<>>
    <3>1. Len(page) \in 1..Len(page)
      BY <2>2, EmptySeq
    <3>2. page[Len(page)] \in Entry
      BY <3>1, ElementOfSeq
    <3>3. QED  BY <2>2, <3>2
  <2>3. QED  BY <2>1, <2>2
<1>3. full \in BOOLEAN
  OBVIOUS
<1>4. Appended(t, page) = d
  BY DEF Appended, Tables
<1> HIDE DEF after, full, whole
<1>5. a \in Tables /\ a.gen = t.gen /\ a.term = t.term /\ a.bounds = t.bounds /\ ~a.loading
      /\ a.failed = t.failed
  BY DEF Tables
<1> HIDE DEF a
<1>6. /\ b \in Tables /\ b.gen = t.gen /\ b.term = t.term /\ b.bounds = t.bounds /\ ~b.loading
      /\ b.loaded = whole /\ b.failed = t.failed
  BY <1>1, <1>5 DEF Tables
<1> HIDE DEF b
<1>7. /\ c \in Tables /\ c.gen = t.gen /\ c.term = t.term /\ c.bounds = t.bounds /\ ~c.loading
      /\ c.loaded = whole /\ c.after = after /\ c.failed = t.failed
  BY <1>2, <1>6 DEF Tables
<1> HIDE DEF c
<1>8. /\ d \in Tables /\ d.gen = t.gen /\ d.term = t.term /\ d.bounds = t.bounds /\ ~d.loading
      /\ d.loaded = whole /\ d.after = after /\ d.hasMore = full
      /\ d.failed = t.failed
  BY <1>3, <1>7 DEF Tables
<1> HIDE DEF d
<1>9. QED  BY <1>4, <1>8 DEF after, full, whole

(* and what is looked for then.                                            *)
LEMMA AppendedTable ==
    ASSUME NEW t \in Tables, NEW page \in Seq(Entry)
    PROVE  LET u == Sought(Appended(t, page))
           IN  /\ u \in Tables /\ u.gen = t.gen /\ u.term = t.term /\ u.bounds = t.bounds
               /\ ~u.loading /\ u.loaded = t.loaded \o page
               /\ u.after = IF page = <<>> THEN t.after ELSE page[Len(page)]
               /\ u.hasMore = (Len(page) = PageSize) /\ u.failed = t.failed
<1> DEFINE d == Appended(t, page)
           u == Sought(d)
<1>1. /\ d \in Tables /\ d.gen = t.gen /\ d.term = t.term /\ d.bounds = t.bounds
      /\ ~d.loading /\ d.loaded = t.loaded \o page
      /\ d.after = IF page = <<>> THEN t.after ELSE page[Len(page)]
      /\ d.hasMore = (Len(page) = PageSize) /\ d.failed = t.failed
  BY AppendedRows
<1> HIDE DEF d
<1>2. u = d \/ u = [d EXCEPT !.pending = Nothing]
  BY DEF Sought
<1> HIDE DEF u
<1>3. CASE u = d
  BY <1>1, <1>3 DEF d, u
<1>4. CASE u = [d EXCEPT !.pending = Nothing]
  <2>1. /\ u \in Tables /\ u.gen = d.gen /\ u.term = d.term /\ u.bounds = d.bounds
        /\ u.loading = d.loading /\ u.loaded = d.loaded /\ u.after = d.after
        /\ u.hasMore = d.hasMore /\ u.failed = d.failed
    BY <1>1, <1>4 DEF Tables
  <2>2. QED  BY <1>1, <2>1 DEF d, u
<1>5. QED  BY <1>2, <1>3, <1>4

(* The last of an appended page is the last of all.                        *)
LEMMA LastOfAppended ==
    ASSUME NEW list \in Seq(Entry), NEW page \in Seq(Entry), page # <<>>
    PROVE  list \o page # <<>> /\ (list \o page)[Len(list \o page)] = page[Len(page)]
<1>1. Len(page) \in Nat /\ Len(page) > 0 /\ Len(list) \in Nat
  BY EmptySeq
<1>2. /\ Len(list \o page) = Len(list) + Len(page)
      /\ \A i \in 1 .. Len(list) + Len(page) :
           (list \o page)[i] = IF i <= Len(list) THEN list[i] ELSE page[i - Len(list)]
  BY ConcatProperties
<1>3. Len(list) + Len(page) \in 1 .. Len(list) + Len(page)
  BY <1>1
<1>4. ~(Len(list) + Len(page) <= Len(list)) /\ Len(list) + Len(page) - Len(list) = Len(page)
  BY <1>1
<1>5. (list \o page)[Len(list) + Len(page)] = page[Len(page)]
  <2> DEFINE k == Len(list) + Len(page)
  <2>1. (list \o page)[k] = IF k <= Len(list) THEN list[k] ELSE page[k - Len(list)]
    BY <1>2, <1>3
  <2>2. ~(k <= Len(list)) /\ k - Len(list) = Len(page)
    BY <1>4
  <2> HIDE DEF k
  <2>3. (list \o page)[k] = page[Len(page)]
    BY <2>1, <2>2
  <2>4. QED  BY <2>3 DEF k
<1>6. list \o page # <<>>
  BY <1>1, <1>2
<1>7. QED  BY <1>2, <1>5, <1>6

(* A table that ends with a failed read.                                   *)
LEMMA BrokenTable ==
    ASSUME NEW t \in Tables
    PROVE  LET u == Broken(t)
           IN  /\ u \in Tables /\ u.gen = t.gen /\ u.term = t.term /\ u.bounds = t.bounds
               /\ ~u.loading /\ ~u.hasMore /\ u.failed /\ u.loaded = t.loaded
<1> DEFINE a == [t EXCEPT !.loading = FALSE]
           b == [a EXCEPT !.hasMore = FALSE]
           c == [b EXCEPT !.failed = TRUE]
<1>1. Broken(t) = c
  BY DEF Broken, Tables
<1>2. /\ a \in Tables /\ a.gen = t.gen /\ a.term = t.term /\ a.bounds = t.bounds
      /\ ~a.loading /\ a.loaded = t.loaded
  BY DEF Tables
<1> HIDE DEF a
<1>3. /\ b \in Tables /\ b.gen = t.gen /\ b.term = t.term /\ b.bounds = t.bounds
      /\ ~b.loading /\ ~b.hasMore /\ b.loaded = t.loaded
  BY <1>2 DEF Tables
<1> HIDE DEF b
<1>4. /\ c \in Tables /\ c.gen = t.gen /\ c.term = t.term /\ c.bounds = t.bounds
      /\ ~c.loading /\ ~c.hasMore /\ c.failed /\ c.loaded = t.loaded
  BY <1>3 DEF Tables
<1> HIDE DEF c
<1>5. QED  BY <1>1, <1>4

(* A read that ends its table: what is shown may end early, but lacks      *)
(* nothing before.                                                         *)
LEMMA TableBreaks ==
    ASSUME ViewerInv, SourcesStay, UNCHANGED <<opening, span, cursor>>, NEW query \in reads,
           query.gen = table.gen, reads' = reads \ {query}, NEW u \in Tables,
           u.gen = table.gen, u.term = table.term, u.bounds = table.bounds,
           Answers(u.loaded, table, Nothing, TRUE), table' = Broken(u)
    PROVE  StoreOK' /\ SourcesInv' /\ TablesInv' /\ ContentsInv'
<1>1. StoreOK' /\ SourcesInv'
      /\ \A list \in Seq(Entry) : \A q, after, more :
           Answers(list, q, after, more) => Answers(list, q, after, more)'
  BY StayingSources
<1>2. /\ table' \in Tables /\ table'.gen = u.gen /\ table'.term = u.term
      /\ table'.bounds = u.bounds
      /\ ~table'.loading /\ ~table'.hasMore /\ table'.failed /\ table'.loaded = u.loaded
  BY BrokenTable
<1>3. \A q \in reads' : q.gen <= table.gen /\ q.gen # table.gen
  BY DEF ViewerInv, TablesInv
<1>4. opening = "done"
  BY DEF ViewerInv, TablesInv
<1>5. TablesInv'
  BY <1>2, <1>3, <1>4 DEF ViewerInv, TablesInv
<1>6. u.loaded \in Seq(Entry) /\ \A q \in reads : q.page # Nothing => q.page \in Seq(Entry)
  BY DEF ViewerInv, TablesInv, Tables, Readings
<1>7. ASSUME NEW t, t = table' PROVE Answers(t.loaded, t, Nothing, t.hasMore \/ t.failed)'
  <2>1. t.term = table.term /\ t.bounds = table.bounds /\ t.loaded = u.loaded /\ t.failed
    BY <1>2, <1>7
  <2>2. Answers(t.loaded, table, Nothing, TRUE)
    BY <2>1
  <2>3. Answers(t.loaded, t, Nothing, TRUE)
    BY <2>1, <2>2, SameQuestion
  <2>4. Answers(t.loaded, t, Nothing, t.hasMore \/ t.failed)
    BY <2>1, <2>3, AnswersWeaken
  <2>5. QED  BY <1>1, <1>6, <2>1, <2>4
<1>8. ASSUME NEW q \in reads', q.page # Nothing, ~q.error
      PROVE  Len(q.page) <= PageSize /\ Answers(q.page, q, q.after, Len(q.page) = PageSize)'
  BY <1>1, <1>6, <1>8 DEF ViewerInv, ContentsInv
<1>9. ContentsInv'
  <2>1. table'.failed
    BY <1>2
  <2>2. QED  BY <1>7, <1>8, <2>1 DEF ContentsInv
<1>10. QED  BY <1>1, <1>5, <1>9

(* A page that still counts is appended or ends the table, any other is    *)
(* dropped.                                                                *)
LEMMA PageFinished ==
    ASSUME ViewerInv, UNCHANGED store, NEW query \in reads, FinishPage(query)
    PROVE  ViewerInv'
<1>1. opening = "done" /\ opening' = opening /\ SourcesStay
  BY DEF ViewerInv, TablesInv, FinishPage, SourcesStay, sources
<1>2. StoreOK' /\ SourcesInv'
      /\ \A list \in Seq(Entry) : \A q, after, more :
           Answers(list, q, after, more) => Answers(list, q, after, more)'
  BY <1>1, StayingSources
<1>3. GraphInv'
  BY DEF FinishPage, ViewerInv, GraphInv, GraphCurrent, graphs
<1>4. table \in Tables /\ table.loaded \in Seq(Entry)
      /\ \A q \in reads : q.page # Nothing => q.page \in Seq(Entry)
  BY DEF ViewerInv, TablesInv, Tables, Readings
<1>5. ASSUME NEW q \in reads, q.page # Nothing, ~q.error
      PROVE  Len(q.page) <= PageSize /\ Answers(q.page, q, q.after, Len(q.page) = PageSize)'
  BY <1>2, <1>4, <1>5 DEF ViewerInv, ContentsInv
<1>6. CASE DropPage(query)
  <2>1. reads' = reads \ {query} /\ table' = table /\ span' = span /\ cursor' = cursor
    BY <1>6 DEF FinishPage, DropPage
  <2>2. TablesInv'
    BY <1>1, <2>1 DEF ViewerInv, TablesInv
  <2>3. ASSUME NEW t, t = table'
        PROVE  /\ ~t.failed => t.after = End(t)
               /\ Answers(t.loaded, t, Nothing, t.hasMore \/ t.failed)'
    BY <1>2, <1>4, <2>1, <2>3 DEF ViewerInv, ContentsInv
  <2>4. ContentsInv'
    BY <1>5, <2>1, <2>3 DEF ContentsInv
  <2>5. QED  BY <1>2, <1>3, <2>2, <2>4 DEF ViewerInv
<1> DEFINE page == query.page
<1>7. ASSUME ~Stale(query), ~query.error
      PROVE  /\ query.gen = table.gen /\ page \in Seq(Entry) /\ page # Nothing
             /\ ~table.failed /\ table.after = End(table)
             /\ Answers(table.loaded, table, Nothing, table.hasMore)
             /\ Len(page) <= PageSize
             /\ Answers(page, table, table.after, Len(page) = PageSize)
  <2>1. query.gen = table.gen /\ page \in Seq(Entry) /\ page # Nothing
    BY <1>4, <1>7 DEF Stale, FinishPage
  <2>2. ~table.failed /\ query.term = table.term /\ query.bounds = table.bounds
        /\ query.after = table.after
    BY <2>1 DEF ViewerInv, TablesInv
  <2>3. table.after = End(table) /\ Answers(table.loaded, table, Nothing, table.hasMore \/ table.failed)
    BY <2>2 DEF ViewerInv, ContentsInv
  <2>4. Answers(table.loaded, table, Nothing, table.hasMore)
    BY <2>2, <2>3, AnswersWeaken
  <2>5. Len(page) <= PageSize /\ Answers(page, query, query.after, Len(page) = PageSize)
    BY <1>7, <2>1 DEF ViewerInv, ContentsInv
  <2>6. Answers(page, table, table.after, Len(page) = PageSize)
    BY <2>2, <2>5, SameQuestion
  <2>7. QED  BY <2>1, <2>2, <2>3, <2>4, <2>5, <2>6
<1>8. CASE ShowPage(query)
  <2>0. PICK u : u = Sought(Appended(table, query.page))
    OBVIOUS
  <2> DEFINE others == reads \ {query}
  <2>1. /\ query.gen = table.gen /\ page \in Seq(Entry) /\ page # Nothing
        /\ ~table.failed /\ table.after = End(table)
        /\ Answers(table.loaded, table, Nothing, table.hasMore)
        /\ Answers(page, table, table.after, Len(page) = PageSize)
    BY <1>7, <1>8 DEF ShowPage
  <2>2. /\ u \in Tables /\ u.gen = table.gen /\ u.term = table.term /\ u.bounds = table.bounds
        /\ ~u.loading /\ u.loaded = table.loaded \o page /\ u.failed = table.failed
        /\ u.after = IF page = <<>> THEN table.after ELSE page[Len(page)]
        /\ u.hasMore = (Len(page) = PageSize)
    BY <1>4, <2>0, <2>1, AppendedTable
  <2>3. PICK wants : Shows(u, others, wants)
    BY <1>8, <2>0 DEF ShowPage
  <2>4. \A q \in others : q.gen <= u.gen /\ q.gen # u.gen
    BY <2>1, <2>2 DEF ViewerInv, TablesInv
  <2>5. /\ TablesInv'
        /\ table'.term = u.term /\ table'.bounds = u.bounds /\ table'.after = u.after
        /\ table'.hasMore = u.hasMore /\ table'.loaded = u.loaded /\ table'.failed = u.failed
        /\ \A q \in reads' : q \in others \/ q.page = Nothing
    <3>1. others \in SUBSET Readings
      BY DEF ViewerInv, TablesInv
    <3>2. span' \in Intervals /\ cursor' \in Cursors
      BY DEF FinishPage, ViewerInv, TablesInv
    <3>3. ~u.failed
      BY <2>1, <2>2
    <3> HIDE DEF others
    <3>4. QED  BY <1>1, <2>2, <2>3, <2>4, <3>1, <3>2, <3>3, ShowsKeeps
  <2>6. Len(page) = PageSize => page # <<>>
    BY ViewerAssumption
  <2>7. (Len(page) = PageSize) \in BOOLEAN
    OBVIOUS
  <2>8. Answers(table.loaded \o page, table, Nothing, Len(page) = PageSize)
    BY <1>4, <2>1, <2>6, <2>7, AnswersAppend DEF ViewerInv, End
  <2>9. /\ Answers(u.loaded, u, Nothing, u.hasMore \/ u.failed)'
        /\ u.after = End(u)
    <3>1. Answers(u.loaded, table, Nothing, u.hasMore)
      BY <2>2, <2>8
    <3>2. Answers(u.loaded, u, Nothing, u.hasMore)
      BY <2>2, <3>1, SameQuestion
    <3>3. u.loaded \in Seq(Entry)
      BY <2>2 DEF Tables
    <3>4. Answers(u.loaded, u, Nothing, u.hasMore \/ u.failed)
      BY <3>2 DEF Answers
    <3>5. Answers(u.loaded, u, Nothing, u.hasMore \/ u.failed)'
      BY <1>2, <3>3, <3>4
    <3>6. CASE page = <<>>
      <4>1. u.loaded = table.loaded /\ u.after = table.after
        BY <1>4, <2>2, <3>6
      <4>2. QED  BY <2>1, <3>5, <4>1 DEF End
    <3>7. CASE page # <<>>
      <4>1. u.loaded # <<>> /\ u.loaded[Len(u.loaded)] = page[Len(page)]
        BY <1>4, <2>1, <2>2, <3>7, LastOfAppended
      <4>2. QED  BY <2>2, <3>5, <3>7, <4>1 DEF End
    <3>8. QED  BY <3>6, <3>7
  <2>10. ASSUME NEW t, t = table'
         PROVE  /\ ~t.failed => t.after = End(t)
                /\ Answers(t.loaded, t, Nothing, t.hasMore \/ t.failed)'
    <3>1. /\ t.term = u.term /\ t.bounds = u.bounds /\ t.after = u.after
          /\ t.hasMore = u.hasMore /\ t.loaded = u.loaded /\ t.failed = u.failed
      BY <2>5, <2>10
    <3>2. QED  BY <2>9, <3>1, SameAnswers DEF End
  <2>11. ContentsInv'
    BY <1>5, <2>5, <2>10 DEF ContentsInv
  <2>12. QED  BY <1>2, <1>3, <2>5, <2>11 DEF ViewerInv
<1>9. UNCHANGED <<span, cursor>>
  BY DEF FinishPage
<1>10. CASE ShowError(query)
  <2>1. query.gen = table.gen /\ reads' = reads \ {query} /\ table' = Broken(table)
    BY <1>10 DEF ShowError, Stale
  <2>2. Answers(table.loaded, table, Nothing, table.hasMore \/ table.failed)
    BY DEF ViewerInv, ContentsInv
  <2>3. Answers(table.loaded, table, Nothing, TRUE)
    BY <2>2, AnswersWeaken
  <2>4. StoreOK' /\ SourcesInv' /\ TablesInv' /\ ContentsInv'
    BY <1>1, <1>4, <1>9, <2>1, <2>3, TableBreaks
  <2>5. QED  BY <1>3, <2>4 DEF ViewerInv
<1>11. CASE ShowFails(query)
  <2>1. /\ query.gen = table.gen /\ page \in Seq(Entry) /\ page # Nothing
        /\ ~table.failed /\ table.after = End(table)
        /\ Answers(table.loaded, table, Nothing, table.hasMore)
        /\ Answers(page, table, table.after, Len(page) = PageSize)
    BY <1>7, <1>11 DEF ShowFails
  <2>2. PICK shown \in 0..Len(page) : table' = Interrupted(table, page, shown)
    BY <1>11 DEF ShowFails
  <2> DEFINE part == SubSeq(page, 1, shown)
  <2>3. part \in Seq(Entry) /\ Answers(part, table, table.after, TRUE)
    BY <2>1, AnswersPrefix DEF ViewerInv
  <2> HIDE DEF part
  <2>4. Answers(table.loaded \o part, table, Nothing, TRUE)
    <3>1. CASE part = <<>>
      <4>1. table.loaded \o part = table.loaded
        BY <1>4, <3>1
      <4>2. QED  BY <2>1, <4>1, AnswersWeaken
    <3>2. CASE part # <<>>
      BY <1>4, <2>1, <2>3, <3>2, AnswersAppend DEF ViewerInv, End
    <3>3. QED  BY <3>1, <3>2
  <2>5. PICK u \in Tables :
          /\ table' = Broken(u) /\ u.loaded = table.loaded \o part
          /\ u.gen = table.gen /\ u.term = table.term /\ u.bounds = table.bounds
    <3>1. CASE shown = Len(page)
      <4>1. part = page
        BY <2>1, <3>1, WholeIsPrefix DEF part
      <4>2. PICK v : v = Appended(table, page)
        OBVIOUS
      <4>3. v \in Tables /\ v.loaded = table.loaded \o page
            /\ v.gen = table.gen /\ v.term = table.term /\ v.bounds = table.bounds
        BY <1>4, <2>1, <4>2, AppendedRows
      <4>4. table' = Broken(v)
        BY <2>2, <3>1, <4>2 DEF Interrupted
      <4>5. QED  BY <4>1, <4>3, <4>4
    <3>2. CASE shown # Len(page)
      <4> DEFINE v == [table EXCEPT !.loaded = table.loaded \o part]
      <4>1. table' = Broken(v)
        BY <2>2, <3>2 DEF Interrupted, part
      <4>2. table.loaded \o part \in Seq(Entry)
        BY <1>4, <2>3, ConcatProperties
      <4>3. v \in Tables /\ v.loaded = table.loaded \o part
            /\ v.gen = table.gen /\ v.term = table.term /\ v.bounds = table.bounds
        BY <1>4, <4>2 DEF Tables
      <4> HIDE DEF v
      <4>4. QED  BY <4>1, <4>3
    <3>3. QED  BY <3>1, <3>2
  <2>6. reads' = reads \ {query} /\ Answers(u.loaded, table, Nothing, TRUE)
    BY <1>11, <2>4, <2>5 DEF ShowFails
  <2>7. StoreOK' /\ SourcesInv' /\ TablesInv' /\ ContentsInv'
    BY <1>1, <1>9, <2>1, <2>5, <2>6, TableBreaks
  <2>8. QED  BY <1>3, <2>7 DEF ViewerInv
<1>12. QED  BY <1>6, <1>8, <1>10, <1>11 DEF FinishPage

(* What changes only the graph, or a source's health.                      *)
(* A graph read begins or ends, or the overview does.                      *)
LEMMA GraphReads ==
    ASSUME ViewerInv, UNCHANGED store,
           \/ StartGraphRead
           \/ \E view \in Views : FinishOverview(view)
           \/ \E read \in graphReads, data \in Views \cup {Nothing} :
                  data \in {read.view, Nothing} /\ FinishGraphRead(read, data)
    PROVE  ViewerInv'
<1>1. UNCHANGED <<sources, tables, shut>> /\ GraphStep
  BY DEF StartGraphRead, FinishOverview, FinishGraphRead, GraphStep, Shown
<1>3. GraphInv'
  BY <1>1, GraphSteps DEF ViewerInv
<1>4. StoreOK' /\ SourcesInv'
  BY <1>1, StayingSources DEF SourcesStay, sources
<1>5. TablesInv'
  BY <1>1 DEF ViewerInv, TablesInv, tables, sources
<1>6. ContentsInv'
  <2>1. \A s \in Sources : Rows(s)' = Rows(s)
    BY <1>1 DEF Rows, Snapshot, sources, store
  <2>2. Healthy' = Healthy /\ connected' = connected /\ covered' = covered
    BY <1>1 DEF Healthy, sources, store
  <2>3. QED  BY <1>1, <2>1, <2>2, ContentsStay
<1>7. QED  BY <1>3, <1>4, <1>5, <1>6 DEF ViewerInv

(* The window is closed, or a graph read meets a failing source or an      *)
(* invalid row.                                                            *)
LEMMA HealthChanges ==
    ASSUME ViewerInv, UNCHANGED store,
           Shutdown \/ GraphReadMeetsInvalid \/ \E s \in Sources : GraphReadMeetsFault(s)
    PROVE  ViewerInv'
<1>1. /\ UNCHANGED <<opening, ceiling, tables, graphs>> /\ StoreOK'
  BY DEF Shutdown, GraphReadMeetsFault, GraphReadMeetsInvalid, ViewerInv, StoreOK, store
<1>2. SourcesInv' /\ Healthy' \subseteq Healthy /\ (connected' = connected \/ Healthy' = {})
  <2>1. CASE Shutdown
    BY <2>1 DEF Shutdown, Running, ViewerInv, SourcesInv, Healthy, store
  <2>2. ASSUME NEW s \in Sources, GraphReadMeetsFault(s)
        PROVE  SourcesInv' /\ Healthy' \subseteq Healthy /\ connected' = connected
    <3>1. state' = [state EXCEPT ![s] = "error"] /\ connected' = connected /\ shut' = shut
          /\ known' \subseteq known /\ opening' = opening /\ ceiling' = ceiling
      BY <2>2 DEF GraphReadMeetsFault, graphs
    <3>2. state' \in [Sources -> {"unavailable", "ready", "error"}]
      BY <3>1 DEF ViewerInv, SourcesInv
    <3>3. Healthy' \subseteq Healthy
      BY <3>1 DEF Healthy, ViewerInv, SourcesInv
    <3>4. QED  BY <3>1, <3>2, <3>3 DEF ViewerInv, SourcesInv, store
  <2>3. CASE GraphReadMeetsInvalid
    BY <1>1, <2>3 DEF GraphReadMeetsInvalid, ViewerInv, SourcesInv, Healthy, store
  <2>4. QED  BY <2>1, <2>2, <2>3
<1>3. TablesInv' /\ GraphInv'
  BY <1>1 DEF ViewerInv, TablesInv, GraphInv, GraphCurrent, tables, graphs
<1>4. ContentsInv'
  <2>1. \A s \in Sources : Rows(s)' = Rows(s)
    BY <1>1 DEF Rows, Snapshot, store
  <2>2. covered' = covered
    BY DEF store
  <2>3. QED  BY <1>1, <1>2, <2>1, <2>2, ContentsStay
<1>5. QED  BY <1>1, <1>2, <1>3, <1>4 DEF ViewerInv

(* Every step keeps the viewer's invariant, its own or another process's.  *)
LEMMA ViewerSteps == ViewerInv /\ [ReadersNext]_readers => ViewerInv'
<1> SUFFICES ASSUME ViewerInv, [ReadersNext]_readers PROVE ViewerInv'
  OBVIOUS
<1>1. CASE UNCHANGED viewer /\ (Appends \/ UNCHANGED store)
  BY <1>1, StoreSteps, ViewerAside DEF ViewerInv
<1>2. CASE ViewerNext /\ UNCHANGED store
  <2>1. CASE TableStep /\ GraphStep
    BY <2>1, TableTurns, GraphSteps DEF ViewerInv
  <2>2. CASE Opens \/ LoadFirst
    BY <1>2, <2>2, SourcesOpen, FirstLoad
  <2>3. CASE \E query \in reads : ReadPage(query) \/ FinishPage(query)
    BY <1>2, <2>3, PageRead, ReadFails, PageFinished DEF ReadPage
  <2>4. CASE (\E term \in Terms : Search(term)) \/ StartSearch
    BY <1>2, <2>1, <2>4, UserSearches
  <2>5. CASE \/ \E bounds \in Spans \cup {Nothing} : SelectRange(bounds)
             \/ \E bounds \in Spans : DragRange(bounds)
             \/ EndDrag \/ Scroll \/ OpenTable \/ OpenGraph
    BY <1>2, <2>1, <2>5, UserSelects
  <2>6. CASE \E record \in Records : SetCursor(record) \/ ClickTwice(record)
    BY <1>2, <2>1, <2>6, UserPoints
  <2>7. ASSUME NEW view \in Views,
               \/ AskGraph(view) \/ AllHistory(view) \/ Fit(view) \/ ResetView(view)
               \/ \E bounds \in Spans : Zoom(view, bounds) \/ ViewSelection(view, bounds)
               \/ \E i \in DOMAIN table.loaded : FocusRecord(i, view)
        PROVE  ViewerInv'
    BY <1>2, <2>1, <2>7, UserViews
  <2>8. CASE \/ StartGraphRead
             \/ \E view \in Views : FinishOverview(view)
             \/ \E read \in graphReads, data \in Views \cup {Nothing} :
                    data \in {read.view, Nothing} /\ FinishGraphRead(read, data)
    BY <1>2, <2>8, GraphReads
  <2>9. CASE Shutdown \/ GraphReadMeetsInvalid \/ \E s \in Sources : GraphReadMeetsFault(s)
    BY <1>2, <2>9, HealthChanges
  <2>10. QED  BY <1>2, <2>2, <2>3, <2>4, <2>5, <2>6, <2>7, <2>8, <2>9, Zenon DEF ViewerNext
<1>3. QED  BY <1>1, <1>2 DEF ReadersNext, readers

(* The viewer's invariant holds throughout.                                *)
LEMMA ViewerInvariant == ReadersSpec => []ViewerInv
BY ViewerBegins, ViewerSteps, PTL DEF ReadersSpec

(* A table that answers its question shows what it should.                 *)
LEMMA WindowIsFaithful == ViewerInv => WindowFaithful
<1> SUFFICES ASSUME ViewerInv PROVE WindowFaithful
  OBVIOUS
<1> DEFINE list == table.loaded
<1>1. list \in Seq(Entry) /\ DOMAIN list = 1..Len(list) /\ Len(list) \in Nat
  BY DEF ViewerInv, TablesInv, Tables
<1>2. \A i \in 1..Len(list) : list[i] \in Entry
  BY <1>1, ElementOfSeq
<1>3. Answers(list, table, Nothing, table.hasMore \/ table.failed)
  BY DEF ViewerInv, ContentsInv
<1>4. Answers(list, Query, Nothing, table.hasMore \/ table.failed)
  BY <1>3, SameQuestion DEF Query
<1>5. TableCurrent
  <2>1. ASSUME NEW i \in DOMAIN list
        PROVE  /\ i > 1 => Before(list[i - 1], list[i])
               /\ \E r \in Rows(list[i].source) :
                    r.id = list[i].id /\ r.at = list[i].at /\ r.good /\ Matches(r, Query)
    <3>1. i > 1 => i - 1 \in 1..Len(list) /\ i - 1 < i
      BY <1>1
    <3>2. QED  BY <1>1, <1>4, <3>1 DEF Answers
  <2>2. ASSUME NEW s \in Healthy, NEW r \in Owed(s)
        PROVE  \/ InTable(s, r)
               \/ /\ table.hasMore \/ table.failed
                  /\ list # <<>> => Before(list[Len(list)], r)
    <3>1. r \in OwedTo(s, Query) /\ Past(r, Nothing)
      BY DEF Owed, OwedTo, Past
    <3>2. QED  BY <1>1, <1>4, <3>1 DEF Answers, InTable
  <2>3. QED  BY <2>1, <2>2 DEF TableCurrent
<1>6. SystemPreferred
  <2>1. SUFFICES ASSUME Healthy = Sources, \A r \in Rows("system") : r.good,
                        NEW i \in 1..Len(list), NEW j \in 1..Len(list), list[i].id = list[j].id
                 PROVE  i = j
    BY <1>1 DEF SystemPreferred
  <2>2. ASSUME NEW a \in 1..Len(list), NEW b \in 1..Len(list), list[a].id = list[b].id,
               list[a].source = "system", list[b].source = "user"
        PROVE  FALSE
    <3>1. list[a].id \in Ids({r \in Rows("system") : r.good})
      BY <1>4, <2>2 DEF Answers, Ids
    <3>2. list[b].id \notin Ids({r \in Rows("system") : r.good})
      BY <1>4, <2>1, <2>2 DEF Answers, Sources
    <3>3. QED  BY <2>2, <3>1, <3>2
  <2>3. list[i].source = list[j].source /\ list[i].source \in Sources
    BY <1>2, <2>1, <2>2 DEF Entry, Sources
  <2>4. list[i].at = list[j].at
    <3>1. PICK p \in Rows(list[i].source) : p.id = list[i].id /\ p.at = list[i].at
      BY <1>4 DEF Answers
    <3>2. PICK q \in Rows(list[j].source) : q.id = list[j].id /\ q.at = list[j].at
      BY <1>4 DEF Answers
    <3>3. p = q
      BY <2>1, <2>3, <3>1, <3>2, RowsChain DEF ViewerInv
    <3>4. QED  BY <3>1, <3>2, <3>3
  <2>5. ~Before(list[i], list[j]) /\ ~Before(list[j], list[i])
    BY <1>2, <2>1, <2>4 DEF Before, Entry
  <2>6. QED  BY <1>4, <2>5 DEF Answers
<1>7. GraphCurrent
  BY DEF ViewerInv, GraphInv
<1>8. QED  BY <1>5, <1>6, <1>7 DEF WindowFaithful

(* The window shows what is asked now, whatever was asked before.          *)
THEOREM ViewerFaithful == ReadersSpec => []WindowFaithful
BY ViewerInvariant, WindowIsFaithful, PTL
=============================================================================
