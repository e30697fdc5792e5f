------------------------- MODULE SuspendMonitorProofs -------------------------
(***************************************************************************)
(* What holds of SuspendMonitor for any number of brackets, sleeps and     *)
(* failing readings, and whatever the floor is: the monitor never doubts   *)
(* the clocks without cause, the sleeps it reports do not overlap, and as  *)
(* long as a sleep takes longer than a reading, they are the sleeps there  *)
(* were and none between entry and finish is missing.                      *)
(***************************************************************************)
EXTENDS SuspendMonitor, FiniteSetTheorems, SequenceTheorems, WellFoundedInduction, TLAPS

(* The bounds a reading gives for the offset of the clocks, in half ticks. *)
Low2(r) == Offset2(r) - r.unc2
High2(r) == Offset2(r) + r.unc2

(* One thread reads at a time: the main thread before the worker starts,   *)
(* and again when it is gone.  Nothing is kept before application entry.   *)
OneReader ==
    /\ reading["worker"].at # "idle" => worker = "alive"
    /\ reading["main"].at # "idle" => worker # "alive" /\ main \in {"entry", "first", "final", "last"}
    /\ main \in {"entry", "setup", "first", "thread"} => worker = "none"
    /\ main = "entry" => latest = Nothing

(* A reading lies behind the clocks, and so does the offset it bounds.     *)
Behind(r) ==
    r # Nothing => /\ r.boot2 <= 2 * boot /\ r.mono <= mono
                   /\ Low2(r) <= 2 * (boot - mono)

(* The boottime read at the opening of a bracket.                          *)
BeforeFollows(p) ==
    reading[p].at \in {"monotonic", "after"} =>
        /\ reading[p].before <= boot
        /\ latest # Nothing => latest.boot2 <= 2 * reading[p].before

(* The monotonic clock, read at an offset no smaller than the one that is  *)
(* accounted for.                                                          *)
MonotonicFollows(p) ==
    reading[p].at = "after" =>
        /\ reading[p].mono <= mono
        /\ reading[p].before - reading[p].mono <= boot - mono
        /\ latest # Nothing => /\ latest.mono <= reading[p].mono
                               /\ Low2(accounted) <= 2 * (boot - reading[p].mono)

(* The tightest bracket so far.                                            *)
BestFollows(p) ==
    /\ reading[p].at = "taken" => reading[p].best # Nothing
    /\ reading[p].at # "idle" /\ reading[p].best # Nothing =>
        /\ Behind(reading[p].best)
        /\ latest # Nothing => /\ latest.boot2 <= reading[p].best.boot2
                               /\ latest.mono <= reading[p].best.mono
                               /\ Low2(accounted) <= High2(reading[p].best)

Follows(p) == BeforeFollows(p) /\ MonotonicFollows(p) /\ BestFollows(p)

Kept == Behind(latest) /\ Behind(accounted)

(* The last interval ends before the reading the next one may start at.    *)
LastEnds(r) == intervals # <<>> /\ r # Nothing => intervals[Len(intervals)].to4 <= 2 * r.boot2

Reported ==
    /\ Ordered /\ LastEnds(latest) /\ LastEnds(pendingStart)
    /\ latest = Nothing => intervals = <<>> /\ pendingStart = Nothing
    /\ pendingStart # Nothing => pendingStart.boot2 <= latest.boot2

Chronology == OneReader /\ (\A p \in Readers : Follows(p)) /\ Kept

IInv == TypeOK /\ Chronology /\ NoFalseDiscontinuity /\ Reported

-----------------------------------------------------------------------------
LEMMA ReadingFields ==
  ASSUME NEW r \in Reading
  PROVE  /\ r.boot2 \in Nat /\ r.mono \in Nat /\ r.unc2 \in Nat
         /\ Low2(r) = r.boot2 - 2 * r.mono - r.unc2
         /\ High2(r) = r.boot2 - 2 * r.mono + r.unc2
         /\ Low2(r) \in Int /\ High2(r) \in Int /\ r # Nothing
  BY ClockAssumption DEF Reading, Low2, High2, Offset2

LEMMA ProgressFields ==
  ASSUME NEW f \in InProgress
  PROVE  /\ f.at \in {"idle", "before", "monotonic", "after", "taken"}
         /\ f.before \in Nat /\ f.mono \in Nat /\ f.left \in Nat
         /\ f.best \in Reading \cup {Nothing}
  BY DEF InProgress

LEMMA IdleIsProgress ==
  NotReading \in InProgress /\ Starting \in InProgress /\ Starting.best = Nothing
  /\ Starting.at = "before" /\ NotReading.at = "idle"
  BY ClockAssumption DEF InProgress, NotReading, Starting

LEMMA InitIInv == Init => IInv
<1> SUFFICES ASSUME Init PROVE IInv
  OBVIOUS
<1> USE DEF Init, Readers
<1>1. TypeOK
  <2>1. reading \in [Readers -> InProgress]
    BY IdleIsProgress
  <2>2. intervals \in Seq([from4 : Nat, to4 : Nat, unc4 : Nat, lower : Nat, upper : Nat])
    OBVIOUS
  <2>3. mono \in Nat /\ boot \in Nat /\ main \in Stages /\ worker \in {"none", "alive", "gone"}
    BY DEF Stages
  <2>4. /\ stop \in BOOLEAN
        /\ initial = Nothing /\ latest = Nothing /\ accounted = Nothing /\ pendingStart = Nothing
    OBVIOUS
  <2>5. QED  BY <2>1, <2>2, <2>3, <2>4 DEF TypeOK
<1>2. Chronology
  BY IdleIsProgress DEF Chronology, OneReader, Follows, BeforeFollows, MonotonicFollows, BestFollows, Kept, Behind
<1>3. Reported
  BY DEF Reported, Ordered, LastEnds
<1>4. QED  BY <1>1, <1>2, <1>3 DEF IInv, NoFalseDiscontinuity

(* Reading the clocks.                                                     *)
LEMMA OpenStep == ASSUME IInv, NEW p \in Readers, ReadBefore(p) PROVE IInv'
<1> USE DEF IInv, ReadBefore, clocks, threads, observed
<1> DEFINE f == [reading[p] EXCEPT !.at = "monotonic", !.before = boot]
<1>1. /\ reading' = [reading EXCEPT ![p] = f] /\ reading[p].at = "before"
      /\ reading[p] \in InProgress
      /\ UNCHANGED <<clocks, threads, observed>>
  BY DEF TypeOK
<1>2. /\ f \in InProgress /\ f.at = "monotonic" /\ f.before = boot /\ f.best = reading[p].best
  BY <1>1 DEF InProgress, TypeOK
<1> HIDE DEF f
<1>3. reading'[p] = f /\ \A q \in Readers : q # p => reading'[q] = reading[q]
  BY <1>1 DEF TypeOK
<1>4. TypeOK'
  BY <1>1, <1>2 DEF TypeOK
<1>5. OneReader'
  BY <1>1, <1>2, <1>3 DEF Chronology, OneReader, Readers
<1>6. Follows(p)'
  <2>1. latest # Nothing => latest.boot2 <= 2 * boot
    BY DEF Chronology, Kept, Behind
  <2>2. BeforeFollows(p)' /\ MonotonicFollows(p)'
    BY <1>1, <1>2, <1>3, <2>1 DEF BeforeFollows, MonotonicFollows, TypeOK
  <2>3. BestFollows(p)'
    BY <1>1, <1>2, <1>3 DEF Chronology, Follows, BestFollows, Behind, Low2, High2, Offset2
  <2>4. QED  BY <2>2, <2>3 DEF Follows
<1>7. ASSUME NEW q \in Readers, q # p PROVE Follows(q)'
  BY <1>1, <1>3, <1>7 DEF Chronology, Follows, BeforeFollows, MonotonicFollows, BestFollows,
              Behind, Low2, High2, Offset2
<1>8. Kept' /\ Reported' /\ NoFalseDiscontinuity'
  BY <1>1 DEF Chronology, Kept, Behind, Low2, Offset2, Reported, Ordered, LastEnds, NoFalseDiscontinuity
<1>9. QED  BY <1>4, <1>5, <1>6, <1>7, <1>8 DEF Chronology

LEMMA MonotonicStep == ASSUME IInv, NEW p \in Readers, ReadMonotonic(p) PROVE IInv'
<1> USE DEF IInv, ReadMonotonic, clocks, threads, observed
<1> DEFINE f == [reading[p] EXCEPT !.at = "after", !.mono = mono]
<1>1. /\ reading' = [reading EXCEPT ![p] = f] /\ reading[p].at = "monotonic"
      /\ reading[p] \in InProgress
      /\ UNCHANGED <<clocks, threads, observed>>
  BY DEF TypeOK
<1>2. /\ f \in InProgress /\ f.at = "after" /\ f.before = reading[p].before
      /\ f.mono = mono /\ f.best = reading[p].best
  BY <1>1 DEF InProgress, TypeOK
<1> HIDE DEF f
<1>3. reading'[p] = f /\ \A q \in Readers : q # p => reading'[q] = reading[q]
  BY <1>1 DEF TypeOK
<1>4. TypeOK'
  BY <1>1, <1>2 DEF TypeOK
<1>5. OneReader'
  BY <1>1, <1>2, <1>3 DEF Chronology, OneReader, Readers
<1>6. Follows(p)'
  <2>1. BeforeFollows(p)'
    BY <1>1, <1>2, <1>3 DEF Chronology, Follows, BeforeFollows, TypeOK
  <2>2. reading[p].before \in Nat /\ reading[p].before <= boot
    BY <1>1, ProgressFields DEF Chronology, Follows, BeforeFollows
  <2>3. latest # Nothing => latest.mono <= mono /\ Low2(accounted) <= 2 * (boot - mono)
    BY DEF Chronology, Kept, Behind, TypeOK
  <2>4. MonotonicFollows(p)'
    BY <1>1, <1>2, <1>3, <2>2, <2>3 DEF MonotonicFollows, TypeOK, Low2, Offset2
  <2>5. BestFollows(p)'
    BY <1>1, <1>2, <1>3 DEF Chronology, Follows, BestFollows, Behind, Low2, High2, Offset2
  <2>6. QED  BY <2>1, <2>4, <2>5 DEF Follows
<1>7. ASSUME NEW q \in Readers, q # p PROVE Follows(q)'
  BY <1>1, <1>3, <1>7 DEF Chronology, Follows, BeforeFollows, MonotonicFollows, BestFollows,
              Behind, Low2, High2, Offset2
<1>8. Kept' /\ Reported' /\ NoFalseDiscontinuity'
  BY <1>1 DEF Chronology, Kept, Behind, Low2, Offset2, Reported, Ordered, LastEnds, NoFalseDiscontinuity
<1>9. QED  BY <1>4, <1>5, <1>6, <1>7, <1>8 DEF Chronology

(* A bracket contains the offset at the instant of its monotonic read,     *)
(* which is no smaller than the one accounted for.                         *)
LEMMA CloseStep == ASSUME IInv, NEW p \in Readers, ReadAfter(p) PROVE IInv'
<1> USE DEF IInv, ReadAfter, clocks, threads, observed
<1> DEFINE found == Candidate(p)
           best == Tightest(reading[p].best, found)
<1>1. /\ reading[p] \in InProgress /\ reading[p].at = "after"
      /\ reading[p].before \in Nat /\ reading[p].mono \in Nat
      /\ UNCHANGED <<clocks, threads, observed>>
  BY ProgressFields DEF TypeOK
<1>2. /\ reading[p].before <= boot /\ reading[p].mono <= mono
      /\ reading[p].before - reading[p].mono <= boot - mono
      /\ latest # Nothing => /\ latest.boot2 <= 2 * reading[p].before
                             /\ latest.mono <= reading[p].mono
                             /\ Low2(accounted) <= 2 * (boot - reading[p].mono)
  BY <1>1 DEF Chronology, Follows, BeforeFollows, MonotonicFollows
<1>3. /\ found \in Reading /\ found.boot2 = reading[p].before + boot
      /\ found.mono = reading[p].mono /\ found.unc2 = boot - reading[p].before
  BY <1>1, <1>2 DEF TypeOK, Candidate, Reading
<1>4. /\ found # Nothing
      /\ Low2(found) = 2 * (reading[p].before - reading[p].mono)
      /\ High2(found) = 2 * (boot - reading[p].mono)
  <2> HIDE DEF found
  <2>1. /\ found # Nothing
        /\ Low2(found) = found.boot2 - 2 * found.mono - found.unc2
        /\ High2(found) = found.boot2 - 2 * found.mono + found.unc2
    BY <1>3, ReadingFields
  <2>2. boot \in Int /\ reading[p].before \in Int /\ reading[p].mono \in Int
    BY <1>1 DEF TypeOK
  <2> HIDE DEF IInv, ReadAfter
  <2>3. \A b, x, m \in Int : /\ x + b - 2 * m - (b - x) = 2 * (x - m)
                             /\ x + b - 2 * m + (b - x) = 2 * (b - m)
    OBVIOUS
  <2>4. QED  BY <1>3, <2>1, <2>2, <2>3
<1> HIDE DEF found
<1>5. /\ Behind(found)
      /\ latest # Nothing => /\ latest.boot2 <= found.boot2 /\ latest.mono <= found.mono
                             /\ Low2(accounted) <= High2(found)
  <2>1. Behind(found)
    BY <1>1, <1>2, <1>3, <1>4 DEF Behind, TypeOK
  <2>2. latest # Nothing => latest \in Reading /\ latest.boot2 \in Nat
    BY ReadingFields DEF TypeOK
  <2>3. QED  BY <1>1, <1>2, <1>3, <1>4, <2>1, <2>2 DEF TypeOK
<1>6. /\ best \in Reading /\ best # Nothing /\ Behind(best)
      /\ latest # Nothing => /\ latest.boot2 <= best.boot2 /\ latest.mono <= best.mono
                             /\ Low2(accounted) <= High2(best)
  <2>1. best = found \/ (best = reading[p].best /\ reading[p].best # Nothing)
    BY DEF Tightest
  <2>2. CASE best = found
    BY <2>2, <1>3, <1>4, <1>5
  <2>3. CASE best = reading[p].best /\ reading[p].best # Nothing
    BY <2>3, <1>1, ProgressFields DEF Chronology, Follows, BestFollows
  <2>4. QED  BY <2>1, <2>2, <2>3
<1> DEFINE f == IF reading[p].left > 1
                THEN [Starting EXCEPT !.best = best, !.left = reading[p].left - 1]
                ELSE [NotReading EXCEPT !.at = "taken", !.best = best]
<1>7. reading' = [reading EXCEPT ![p] = f]
  BY DEF found
<1> HIDE DEF best
<1>8. f \in InProgress /\ f.at \in {"before", "taken"} /\ f.best = best
  <2>1. reading[p].left \in Nat
    BY <1>1, ProgressFields
  <2>2. CASE reading[p].left > 1
    <3>1. reading[p].left - 1 \in Nat
      BY <2>1, <2>2
    <3> DEFINE n == reading[p].left - 1
    <3>2. f = [Starting EXCEPT !.best = best, !.left = n]
      BY <2>2
    <3> HIDE DEF f, n
    <3>3. f = [at |-> "before", before |-> 0, mono |-> 0, best |-> best, left |-> n]
      BY <3>2 DEF Starting, NotReading
    <3>4. QED  BY <1>6, <3>1, <3>3 DEF InProgress, n
  <2>3. CASE ~(reading[p].left > 1)
    <3>1. f = [NotReading EXCEPT !.at = "taken", !.best = best]
      BY <2>3
    <3> HIDE DEF f
    <3>2. f = [at |-> "taken", before |-> 0, mono |-> 0, best |-> best, left |-> 0]
      BY <3>1 DEF NotReading
    <3>3. QED  BY <1>6, <3>2 DEF InProgress
  <2>4. QED  BY <2>2, <2>3
<1> HIDE DEF f
<1>9. reading'[p] = f /\ \A q \in Readers : q # p => reading'[q] = reading[q]
  BY <1>7 DEF TypeOK
<1>10. TypeOK'
  BY <1>1, <1>7, <1>8 DEF TypeOK
<1>11. OneReader'
  BY <1>1, <1>8, <1>9 DEF Chronology, OneReader, Readers
<1>12. Follows(p)'
  BY <1>1, <1>6, <1>8, <1>9
     DEF Follows, BeforeFollows, MonotonicFollows, BestFollows, Behind, Low2, High2, Offset2
<1>13. ASSUME NEW q \in Readers, q # p PROVE Follows(q)'
  BY <1>1, <1>9, <1>13 DEF Chronology, Follows, BeforeFollows, MonotonicFollows, BestFollows,
              Behind, Low2, High2, Offset2
<1>14. Kept' /\ Reported' /\ NoFalseDiscontinuity'
  BY <1>1 DEF Chronology, Kept, Behind, Low2, Offset2, Reported, Ordered, LastEnds, NoFalseDiscontinuity
<1>15. QED  BY <1>10, <1>11, <1>12, <1>13, <1>14 DEF Chronology

(* The machine.                                                            *)
LEMMA MachineStep ==
  ASSUME IInv, Tick \/ \E length \in Lengths : Sleep(length)
  PROVE  IInv'
<1> USE DEF IInv, threads, observed
<1>1. /\ mono' \in Nat /\ boot' \in Nat /\ mono <= mono' /\ boot <= boot'
      /\ boot - mono <= boot' - mono'
  <2> HIDE DEF IInv
  <2>1. mono \in Nat /\ boot \in Nat
    BY DEF TypeOK, IInv
  <2>2. CASE Tick
    BY <2>1, <2>2 DEF Tick
  <2>3. ASSUME NEW length \in Lengths, Sleep(length)
        PROVE  mono' = mono /\ length \in Nat /\ boot' = boot + length
    BY <2>3, ClockAssumption DEF Sleep
  <2>4. QED  BY <2>1, <2>2, <2>3
<1>2. UNCHANGED <<reading, threads, observed>>
  BY DEF Tick, Sleep
<1>3. TypeOK'
  BY <1>1, <1>2 DEF TypeOK
<1>4. OneReader'
  BY <1>2 DEF Chronology, OneReader
<1>5. ASSUME NEW r \in Reading \cup {Nothing}, Behind(r)
      PROVE  r # Nothing => /\ r.boot2 <= 2 * boot' /\ r.mono <= mono'
                            /\ Low2(r) <= 2 * (boot' - mono')
  <2> SUFFICES ASSUME r # Nothing
               PROVE  /\ r.boot2 <= 2 * boot' /\ r.mono <= mono'
                      /\ Low2(r) <= 2 * (boot' - mono')
    OBVIOUS
  <2>1. r.boot2 \in Nat /\ r.mono \in Nat /\ Low2(r) \in Int
    BY ReadingFields
  <2>2. r.boot2 <= 2 * boot /\ r.mono <= mono /\ Low2(r) <= 2 * (boot - mono)
    BY <1>5 DEF Behind
  <2>3. mono \in Nat /\ boot \in Nat
    BY DEF TypeOK
  <2> HIDE DEF IInv
  <2>4. \A x, y \in Int : x <= y => 2 * x <= 2 * y
    OBVIOUS
  <2>5. r.boot2 <= 2 * boot' /\ r.mono <= mono'
    BY <1>1, <2>1, <2>2, <2>3, <2>4
  <2> DEFINE before == boot - mono
             after == boot' - mono'
  <2>6. before \in Int /\ after \in Int /\ before <= after /\ Low2(r) <= 2 * before
    <3>1. before \in Int /\ after \in Int
      BY <1>1, <2>3
    <3>2. before <= after
      BY <1>1
    <3>3. Low2(r) <= 2 * before
      BY <2>2
    <3>4. QED  BY <3>1, <3>2, <3>3
  <2> HIDE DEF before, after
  <2>7. Low2(r) <= 2 * after
    BY <2>1, <2>4, <2>6
  <2>8. QED  BY <2>5, <2>7 DEF after
<1>6. Kept'
  BY <1>2, <1>5 DEF Chronology, Kept, Behind, TypeOK, Low2, Offset2
<1>7. ASSUME NEW q \in Readers PROVE Follows(q)'
  <2> DEFINE f == reading[q]
  <2>1. /\ f \in InProgress /\ f.before \in Nat /\ f.mono \in Nat
        /\ f.best \in Reading \cup {Nothing}
    BY ProgressFields DEF TypeOK
  <2>2. latest # Nothing => Low2(accounted) \in Int /\ latest.mono \in Nat
    BY ReadingFields DEF TypeOK
  <2>3. BeforeFollows(q)'
    BY <1>1, <1>2, <2>1 DEF TypeOK, Chronology, Follows, BeforeFollows
  <2>4. MonotonicFollows(q)'
    <3>1. /\ mono \in Nat /\ boot \in Nat
          /\ f.at = "after" =>
                /\ f.mono <= mono /\ f.before - f.mono <= boot - mono
                /\ latest # Nothing => /\ latest.mono <= f.mono
                                       /\ Low2(accounted) <= 2 * (boot - f.mono)
      BY DEF TypeOK, Chronology, Follows, MonotonicFollows
    <3>2. f.at = "after" =>
                /\ f.mono <= mono' /\ f.before - f.mono <= boot' - mono'
                /\ latest # Nothing => /\ latest.mono <= f.mono
                                       /\ Low2(accounted) <= 2 * (boot' - f.mono)
      <4> HIDE DEF IInv, f
      <4> QED  BY <1>1, <2>1, <2>2, <3>1
    <3>3. QED  BY <1>2, <3>2 DEF MonotonicFollows, Low2, Offset2
  <2>5. BestFollows(q)'
    BY <1>2, <1>5, <2>1 DEF Chronology, Follows, BestFollows, Behind, Low2, High2, Offset2
  <2>6. QED  BY <2>3, <2>4, <2>5 DEF Follows
<1>8. Reported' /\ NoFalseDiscontinuity'
  BY <1>2 DEF Reported, Ordered, LastEnds, NoFalseDiscontinuity
<1>9. QED  BY <1>3, <1>4, <1>6, <1>7, <1>8 DEF Chronology
(* What a new reading does to what the monitor knows.                      *)
LEMMA WindowBounds ==
  ASSUME NEW start \in Reading, NEW current \in Reading, NEW change \in Int,
         NEW unc \in Nat, start.boot2 <= current.boot2,
         NEW found,
         LET window2 == current.boot2 - start.boot2
             suspended2 == Smaller(change, window2)
             awake2 == Larger(0, window2 - suspended2)
         IN  found = [from4 |-> 2 * start.boot2 + awake2,
                      to4 |-> Larger(2 * start.boot2 + awake2, 2 * current.boot2 - awake2),
                      unc4 |-> awake2 + 2 * unc,
                      lower |-> start.mono, upper |-> current.mono]
  PROVE  /\ found \in [from4 : Nat, to4 : Nat, unc4 : Nat, lower : Nat, upper : Nat]
         /\ 2 * start.boot2 <= found.from4
         /\ found.to4 > found.from4 => found.to4 <= 2 * current.boot2
<1> DEFINE window2 == current.boot2 - start.boot2
           awake2 == Larger(0, window2 - Smaller(change, window2))
<1>1. /\ start.boot2 \in Nat /\ start.mono \in Nat
      /\ current.boot2 \in Nat /\ current.mono \in Nat
  BY ReadingFields
<1>2. awake2 \in Nat
  BY <1>1 DEF Larger, Smaller
<1> HIDE DEF awake2
<1>3. found = [from4 |-> 2 * start.boot2 + awake2,
               to4 |-> Larger(2 * start.boot2 + awake2, 2 * current.boot2 - awake2),
               unc4 |-> awake2 + 2 * unc,
               lower |-> start.mono, upper |-> current.mono]
  BY DEF awake2
<1> DEFINE from == 2 * start.boot2 + awake2
           to == Larger(from, 2 * current.boot2 - awake2)
<1>4. from \in Nat /\ to \in Nat /\ awake2 + 2 * unc \in Nat
  BY <1>1, <1>2 DEF Larger
<1>5. 2 * start.boot2 <= from /\ (to > from => to <= 2 * current.boot2)
  BY <1>1, <1>2 DEF Larger
<1>6. found.from4 = from /\ found.to4 = to
  BY <1>3
<1> HIDE DEF from, to
<1>7. found = [from4 |-> from, to4 |-> to, unc4 |-> awake2 + 2 * unc,
               lower |-> start.mono, upper |-> current.mono]
  BY <1>3 DEF from, to
<1>8. QED  BY <1>1, <1>4, <1>5, <1>6, <1>7

LEMMA ObserveStep ==
  ASSUME IInv, NEW p \in Readers, reading[p].at = "taken", Observe(reading[p].best),
         UNCHANGED clocks
  PROVE  /\ initial' \in Reading \cup {Nothing} /\ latest' \in Reading \cup {Nothing}
         /\ accounted' \in Reading \cup {Nothing} /\ pendingStart' \in Reading \cup {Nothing}
         /\ (latest' = Nothing) <=> (accounted' = Nothing)
         /\ intervals' \in Seq([from4 : Nat, to4 : Nat, unc4 : Nat, lower : Nat, upper : Nat])
         /\ Kept' /\ Reported' /\ NoFalseDiscontinuity' /\ UNCHANGED discontinuity
<1> DEFINE current == reading[p].best
<1> DEFINE Records == [from4 : Nat, to4 : Nat, unc4 : Nat, lower : Nat, upper : Nat]
<1>1. /\ current \in Reading /\ current # Nothing /\ Behind(current)
      /\ latest # Nothing => /\ latest.boot2 <= current.boot2 /\ latest.mono <= current.mono
                             /\ Low2(accounted) <= High2(current)
  BY ProgressFields DEF IInv, TypeOK, Chronology, Follows, BestFollows
<1>2. /\ latest \in Reading \cup {Nothing} /\ accounted \in Reading \cup {Nothing}
      /\ initial \in Reading \cup {Nothing} /\ pendingStart \in Reading \cup {Nothing}
      /\ (latest = Nothing) <=> (accounted = Nothing)
      /\ intervals \in Seq(Records)
  BY DEF IInv, TypeOK
<1>3. Reported /\ Kept /\ ~discontinuity
  BY DEF IInv, Chronology, NoFalseDiscontinuity
<1>4. Observe(current) /\ UNCHANGED <<mono, boot>>
  BY DEF clocks
<1> HIDE DEF current, Records
<1>5. CASE latest = Nothing
  <2>1. /\ initial' = current /\ latest' = current /\ accounted' = current
        /\ UNCHANGED <<pendingStart, intervals, discontinuity>>
    BY <1>4, <1>5 DEF Observe
  <2>2. intervals = <<>> /\ pendingStart = Nothing
    BY <1>3, <1>5 DEF Reported
  <2>3. Kept'
    BY <1>1, <1>4, <2>1 DEF Kept, Behind, Low2, Offset2
  <2>4. Reported'
    BY <1>1, <2>1, <2>2 DEF Reported, Ordered, LastEnds
  <2>5. QED  BY <1>1, <1>2, <1>3, <2>1, <2>3, <2>4 DEF NoFalseDiscontinuity, Records
<1>6. CASE latest # Nothing
  <2>1. latest \in Reading /\ accounted \in Reading
    BY <1>2, <1>6
  <2>2. /\ Change2(current) \in Int /\ Uncertainty2(current) \in Nat
        /\ -Uncertainty2(current) <= Change2(current)
    <3>1. /\ accounted.boot2 \in Nat /\ accounted.mono \in Nat /\ accounted.unc2 \in Nat
          /\ Low2(accounted) = accounted.boot2 - 2 * accounted.mono - accounted.unc2
      BY <2>1, ReadingFields
    <3>2. /\ current.boot2 \in Nat /\ current.mono \in Nat /\ current.unc2 \in Nat
          /\ High2(current) = current.boot2 - 2 * current.mono + current.unc2
      BY <1>1, ReadingFields
    <3>3. Low2(accounted) <= High2(current)
      BY <1>1, <1>6
    <3>4. QED  BY <3>1, <3>2, <3>3 DEF Change2, Uncertainty2, Offset2
  <2>3. ~(Change2(current) < -Larger(Floor2, Uncertainty2(current)))
    BY <2>2, ClockAssumption DEF Larger
  <2>4. ~Discontinuous(current)
    <3>1. latest.boot2 \in Nat /\ latest.mono \in Nat /\ current.boot2 \in Nat /\ current.mono \in Nat
      BY <1>1, <2>1, ReadingFields
    <3>2. QED  BY <1>1, <1>6, <2>3, <3>1 DEF Discontinuous
  <2> DEFINE start == WindowStart(current)
             found == Interval(start, current)
  <2>5. start \in Reading /\ start.boot2 <= latest.boot2 /\ start.boot2 <= current.boot2
    <3>1. start \in Reading /\ start.boot2 <= latest.boot2
      <4>1. CASE pendingStart = Nothing
        BY <2>1, <4>1, ReadingFields DEF WindowStart
      <4>2. CASE pendingStart # Nothing
        BY <1>2, <1>3, <4>2 DEF WindowStart, Reported
      <4>3. QED  BY <4>1, <4>2
    <3>2. start.boot2 \in Nat /\ latest.boot2 \in Nat /\ current.boot2 \in Nat
      BY <3>1, <2>1, <1>1, ReadingFields
    <3>3. QED  BY <3>1, <3>2, <1>1, <1>6
  <2>6. /\ found \in Records /\ 2 * start.boot2 <= found.from4
        /\ found.to4 > found.from4 => found.to4 <= 2 * current.boot2
    <3> HIDE DEF start
    <3>1. found = LET window2 == current.boot2 - start.boot2
                      suspended2 == Smaller(Change2(current), window2)
                      awake2 == Larger(0, window2 - suspended2)
                  IN  [from4 |-> 2 * start.boot2 + awake2,
                       to4 |-> Larger(2 * start.boot2 + awake2, 2 * current.boot2 - awake2),
                       unc4 |-> awake2 + 2 * Uncertainty2(current),
                       lower |-> start.mono, upper |-> current.mono]
      BY DEF Interval
    <3>2. QED  BY <1>1, <2>2, <2>5, <3>1, WindowBounds DEF Records
  <2>7. /\ intervals' = IF Confirmed(current) /\ found.to4 > found.from4
                        THEN Append(intervals, found) ELSE intervals
        /\ accounted' = IF Confirmed(current) THEN current ELSE accounted
        /\ pendingStart' = IF Confirmed(current) \/ Change2(current) <= Uncertainty2(current)
                           THEN Nothing ELSE start
        /\ latest' = current
        /\ UNCHANGED <<initial, discontinuity>>
    BY <1>4, <1>6, <2>4 DEF Observe
  <2>8. intervals # <<>> => intervals[Len(intervals)].to4 <= 2 * start.boot2
    BY <1>3, <1>6 DEF WindowStart, Reported, LastEnds
  <2> HIDE DEF start, found
  <2>9. /\ accounted' \in Reading /\ latest' = current
        /\ pendingStart' \in {Nothing, start}
        /\ intervals' = intervals \/ (intervals' = Append(intervals, found)
                                       /\ found.to4 > found.from4 /\ pendingStart' = Nothing)
    BY <1>1, <2>1, <2>7
  <2>10. Kept'
    BY <1>1, <1>3, <1>4, <2>7 DEF Kept, Behind, Low2, Offset2
  <2>11. /\ start.boot2 \in Nat /\ current.boot2 \in Nat
         /\ found.from4 \in Nat /\ found.to4 \in Nat
    BY <2>5, <1>1, <2>6, ReadingFields DEF Records
  <2>12. pendingStart' # Nothing => pendingStart'.boot2 <= latest'.boot2
    BY <2>5, <2>9
  <2>13. CASE intervals' = intervals
    <3>1. Ordered'
      BY <1>3, <2>13 DEF Reported, Ordered
    <3>2. intervals # <<>> => intervals[Len(intervals)].to4 \in Nat
      <4> SUFFICES ASSUME intervals # <<>> PROVE intervals[Len(intervals)].to4 \in Nat
        OBVIOUS
      <4>1. intervals[Len(intervals)] \in Records
        BY <1>2
      <4>2. QED  BY <4>1 DEF Records
    <3>3. LastEnds(latest)'
      BY <2>5, <2>8, <2>9, <2>11, <2>13, <3>2 DEF LastEnds
    <3>4. LastEnds(pendingStart)'
      BY <2>8, <2>9, <2>13 DEF LastEnds
    <3>5. Reported'
      BY <1>1, <2>9, <2>12, <3>1, <3>3, <3>4 DEF Reported
    <3>6. /\ accounted' # Nothing /\ latest' # Nothing /\ initial' = initial
          /\ latest' \in Reading /\ pendingStart' \in Reading \cup {Nothing}
          /\ discontinuity' = discontinuity /\ intervals' \in Seq(Records)
      BY <1>1, <1>2, <2>5, <2>7, <2>9, <2>13, ClockAssumption
    <3>7. QED
      BY <1>2, <1>3, <2>9, <2>10, <3>5, <3>6 DEF NoFalseDiscontinuity, Records
  <2>14. CASE /\ intervals' = Append(intervals, found)
              /\ found.to4 > found.from4 /\ pendingStart' = Nothing
    <3>1. /\ intervals' \in Seq(Records) /\ intervals' # <<>>
          /\ Len(intervals') = Len(intervals) + 1 /\ Len(intervals) \in Nat
          /\ intervals'[Len(intervals) + 1] = found
          /\ \A k \in 1 .. Len(intervals) : intervals'[k] = intervals[k] /\ intervals[k] \in Records
          /\ DOMAIN intervals = 1 .. Len(intervals) /\ DOMAIN intervals' = 1 .. Len(intervals')
      BY <1>2, <2>6, <2>14
    <3>6. \A k \in 1 .. Len(intervals) : intervals[k].to4 \in Nat
      BY <3>1 DEF Records
    <3>2. Ordered'
      <4> SUFFICES ASSUME NEW k \in DOMAIN intervals'
                   PROVE  /\ intervals'[k].from4 < intervals'[k].to4
                          /\ k + 1 \in DOMAIN intervals' =>
                                intervals'[k].to4 <= intervals'[k + 1].from4
        BY DEF Ordered
      <4>1. CASE k = Len(intervals) + 1
        BY <4>1, <2>11, <2>14, <3>1
      <4>2. CASE k = Len(intervals)
        <5>1. intervals # <<>> /\ k \in 1 .. Len(intervals) /\ k \in DOMAIN intervals
          BY <4>2, <3>1
        <5>2. intervals[k].to4 <= 2 * start.boot2
          BY <2>8, <4>2, <5>1
        <5>3. intervals[k].to4 <= found.from4
          BY <2>6, <2>11, <3>6, <5>1, <5>2
        <5>4. intervals[k].from4 < intervals[k].to4
          BY <1>3, <5>1 DEF Reported, Ordered
        <5>5. QED  BY <3>1, <4>2, <5>1, <5>3, <5>4
      <4>3. CASE k < Len(intervals)
        <5>1. k \in 1 .. Len(intervals) /\ k + 1 \in 1 .. Len(intervals)
          BY <4>3, <3>1
        <5>2. QED  BY <1>3, <3>1, <5>1 DEF Reported, Ordered
      <4>4. QED  BY <3>1, <4>1, <4>2, <4>3
    <3>3. LastEnds(latest)' /\ LastEnds(pendingStart)'
      BY <2>6, <2>9, <2>14, <3>1 DEF LastEnds
    <3>4. Reported'
      BY <1>1, <2>9, <2>14, <3>2, <3>3 DEF Reported
    <3>5. /\ accounted' # Nothing /\ latest' # Nothing /\ initial' = initial
          /\ latest' \in Reading /\ discontinuity' = discontinuity
      BY <1>1, <2>7, <2>9, ClockAssumption
    <3>7. QED
      BY <1>2, <1>3, <2>9, <2>10, <2>14, <3>1, <3>4, <3>5 DEF NoFalseDiscontinuity, Records
  <2>15. QED  BY <2>9, <2>13, <2>14
<1>7. QED  BY <1>5, <1>6
(* Where no reading is kept, what the monitor knows stands.                *)
LEMMA MonitorStands ==
  ASSUME IInv, UNCHANGED <<mono, boot, latest, accounted, pendingStart, intervals, discontinuity>>
  PROVE  Kept' /\ Reported' /\ NoFalseDiscontinuity'
  BY DEF IInv, Chronology, Kept, Behind, Low2, Offset2, Reported, Ordered, LastEnds, NoFalseDiscontinuity

LEMMA ReadingStands ==
  ASSUME IInv, NEW p \in Readers, UNCHANGED <<mono, boot, latest, accounted>>,
         reading'[p] = reading[p]
  PROVE  Follows(p)'
  BY DEF IInv, Chronology, Follows, BeforeFollows, MonotonicFollows, BestFollows, Behind,
         Low2, High2, Offset2

(* A reading that is over or has not begun promises nothing.               *)
LEMMA NothingRead ==
  ASSUME NEW p \in Readers, reading'[p] \in {Starting, NotReading}
  PROVE  Follows(p)'
  BY IdleIsProgress, NotReading.best = Nothing
     DEF Follows, BeforeFollows, MonotonicFollows, BestFollows, NotReading
(* The worker thread.                                                      *)
LEMMA WorkerStep ==
  ASSUME IInv, WorkerSamples \/ WorkerEnds \/ WorkerReadFails
  PROVE  IInv'
<1> USE DEF clocks, threads, observed
<1>1. UNCHANGED <<mono, boot, main, stop, initial, latest, accounted, pendingStart, intervals,
                  discontinuity>>
  BY DEF WorkerSamples, WorkerEnds, WorkerReadFails
<1>2. /\ reading \in [Readers -> InProgress] /\ "worker" \in Readers /\ "main" \in Readers
      /\ "worker" # "main"
  BY DEF IInv, TypeOK, Readers
<1>3. /\ reading' \in [Readers -> InProgress]
      /\ reading'["main"] = reading["main"]
      /\ reading'["worker"] = reading["worker"] \/ reading'["worker"] \in {Starting, NotReading}
  BY <1>2, IdleIsProgress DEF WorkerSamples, WorkerEnds, WorkerReadFails
<1>4. /\ worker' \in {"none", "alive", "gone"} /\ (worker' = "none" <=> worker = "none")
      /\ worker' = "alive" => worker = "alive"
      /\ reading'["worker"].at # "idle" => worker' = "alive"
  BY <1>2, IdleIsProgress
     DEF IInv, TypeOK, Chronology, OneReader, WorkerSamples, WorkerEnds, WorkerReadFails
<1>5. TypeOK'
  BY <1>1, <1>3, <1>4 DEF IInv, TypeOK
<1>6. OneReader'
  BY <1>1, <1>3, <1>4 DEF IInv, Chronology, OneReader
<1>7. Follows("main")'
  BY <1>1, <1>2, <1>3, ReadingStands
<1>8. Follows("worker")'
  <2>1. CASE reading'["worker"] = reading["worker"]
    BY <1>1, <1>2, <2>1, ReadingStands
  <2>2. CASE reading'["worker"] \in {Starting, NotReading}
    BY <1>2, <2>2, NothingRead
  <2>3. QED  BY <1>3, <2>1, <2>2
<1>9. QED  BY <1>1, <1>5, <1>6, <1>7, <1>8, MonitorStands DEF IInv, Chronology, Readers

LEMMA WorkerObservesStep == ASSUME IInv, WorkerObserves PROVE IInv'
<1> USE DEF clocks, threads, observed
<1>1. /\ UNCHANGED <<mono, boot, main, worker, stop>> /\ UNCHANGED clocks
      /\ reading' = [reading EXCEPT !["worker"] = NotReading] /\ reading["worker"].at = "taken"
  BY DEF WorkerObserves
<1>2. /\ reading \in [Readers -> InProgress] /\ "worker" \in Readers /\ "main" \in Readers
      /\ "worker" # "main"
  BY DEF IInv, TypeOK, Readers
<1>3. /\ reading' \in [Readers -> InProgress]
      /\ reading'["worker"] = NotReading /\ reading'["main"] = reading["main"]
  BY <1>1, <1>2, IdleIsProgress
<1>4. reading["main"].at = "idle"
  BY <1>1 DEF IInv, Chronology, OneReader
<1>5. Follows("worker")'
  BY <1>2, <1>3, NothingRead
<1>6. Follows("main")'
  BY <1>3, <1>4 DEF Follows, BeforeFollows, MonotonicFollows, BestFollows
<1>7. OneReader'
  BY <1>1, <1>3, IdleIsProgress DEF IInv, Chronology, OneReader
<1>8. CASE stop
  <2>1. UNCHANGED <<mono, boot, initial, latest, accounted, pendingStart, intervals, discontinuity>>
    BY <1>1, <1>8 DEF WorkerObserves
  <2>2. TypeOK'
    BY <1>1, <1>3, <2>1 DEF IInv, TypeOK
  <2>3. QED  BY <1>5, <1>6, <1>7, <2>1, <2>2, MonitorStands DEF IInv, Chronology, Readers
<1>9. CASE ~stop
  <2>1. Observe(reading["worker"].best)
    BY <1>9 DEF WorkerObserves
  <2>2. TypeOK'
    BY <1>1, <1>2, <1>3, <2>1, ObserveStep DEF IInv, TypeOK
  <2>3. Kept' /\ Reported' /\ NoFalseDiscontinuity'
    BY <1>1, <1>2, <2>1, ObserveStep
  <2>4. QED  BY <1>5, <1>6, <1>7, <2>2, <2>3 DEF IInv, Chronology, Readers
<1>10. QED  BY <1>8, <1>9

(* The main thread begins a reading only when the worker is not alive.     *)
LEMMA MainStep ==
  ASSUME IInv,
         Start \/ StartThread \/ Finish \/ Joined \/ JoinTimesOut \/ MainReadFails \/ Queried
  PROVE  IInv'
<1> USE DEF clocks, threads, observed
<1>1. UNCHANGED <<mono, boot, initial, latest, accounted, pendingStart, intervals, discontinuity>>
  BY DEF Start, StartThread, Finish, Joined, JoinTimesOut, MainReadFails, Queried, MainReads
<1>2. /\ reading \in [Readers -> InProgress] /\ "worker" \in Readers /\ "main" \in Readers
      /\ "worker" # "main" /\ main \in Stages
  BY DEF IInv, TypeOK, Readers
<1>3. /\ reading["worker"].at # "idle" => worker = "alive"
      /\ reading["main"].at # "idle" => worker # "alive" /\ main \in {"entry", "first", "final", "last"}
      /\ main \in {"entry", "setup", "first", "thread"} => worker = "none"
      /\ main = "entry" => latest = Nothing
  BY DEF IInv, Chronology, OneReader
<1> HIDE DEF IInv
<1>4. /\ main' \in Stages /\ stop' \in BOOLEAN /\ worker' \in {"none", "alive", "gone"}
      /\ reading' \in [Readers -> InProgress] /\ reading'["worker"] = reading["worker"]
      /\ reading'["main"] = reading["main"] \/ reading'["main"] \in {Starting, NotReading}
      /\ OneReader'
  <2>1. stop \in BOOLEAN /\ worker \in {"none", "alive", "gone"}
    BY DEF IInv, TypeOK
  <2>2. CASE Start \/ Joined \/ (Queried /\ worker # "alive")
    <3>1. /\ main' \in {"first", "final", "last"}
          /\ main' = "first" => main = "setup"
          /\ reading' = [reading EXCEPT !["main"] = Starting]
          /\ UNCHANGED <<worker, stop>>
          /\ worker # "alive"
      <4>1. CASE Start
        BY <1>3, <4>1 DEF Start, MainReads
      <4>2. CASE Joined
        BY <4>2 DEF Joined, MainReads
      <4>3. CASE Queried /\ worker # "alive"
        BY <4>3 DEF Queried, MainReads
      <4>4. QED  BY <2>2, <4>1, <4>2, <4>3
    <3>2. QED  BY <1>2, <1>3, <2>1, <3>1, IdleIsProgress DEF OneReader, Stages
  <2>3. CASE StartThread
    BY <1>2, <1>3, <2>1, <2>3 DEF StartThread, OneReader, Stages
  <2>4. CASE Finish \/ JoinTimesOut \/ (Queried /\ worker = "alive")
    BY <1>2, <1>3, <2>1, <2>4 DEF Finish, JoinTimesOut, Queried, OneReader, Stages
  <2>5. CASE MainReadFails
    <3>1. /\ main \in {"entry", "first", "final", "last"}
          /\ reading' = [reading EXCEPT !["main"] = NotReading]
          /\ UNCHANGED <<worker, stop>> /\ worker # "alive"
          /\ main' = IF main = "entry" THEN "setup" ELSE AfterSample[main]
      BY <1>3, <2>5 DEF MainReadFails
    <3>2. main' \in {"setup", "thread", "query", "done"} /\ (main' = "setup" \/ main' = "thread" => worker = "none")
      BY <1>3, <3>1 DEF AfterSample
    <3>3. QED  BY <1>2, <1>3, <2>1, <3>1, <3>2, IdleIsProgress DEF OneReader, Stages
  <2>6. QED  BY <2>2, <2>3, <2>4, <2>5
<1>5. TypeOK'
  BY <1>1, <1>4 DEF IInv, TypeOK
<1>6. Follows("worker")'
  BY <1>1, <1>2, <1>4, ReadingStands
<1>7. Follows("main")'
  <2>1. CASE reading'["main"] = reading["main"]
    BY <1>1, <1>2, <2>1, ReadingStands
  <2>2. CASE reading'["main"] \in {Starting, NotReading}
    BY <1>2, <2>2, NothingRead
  <2>3. QED  BY <1>4, <2>1, <2>2
<1>8. QED  BY <1>1, <1>4, <1>5, <1>6, <1>7, MonitorStands DEF IInv, Chronology, Readers

LEMMA MainObservesStep == ASSUME IInv, MainObserves \/ TakeBaseline PROVE IInv'
<1> USE DEF clocks, threads, observed
<1>1. /\ UNCHANGED <<mono, boot, worker, stop>> /\ UNCHANGED clocks
      /\ reading' = [reading EXCEPT !["main"] = NotReading] /\ reading["main"].at = "taken"
  BY DEF MainObserves, TakeBaseline
<1>2. /\ reading \in [Readers -> InProgress] /\ "worker" \in Readers /\ "main" \in Readers
      /\ "worker" # "main"
  BY DEF IInv, TypeOK, Readers
<1>3. /\ reading' \in [Readers -> InProgress]
      /\ reading'["main"] = NotReading /\ reading'["worker"] = reading["worker"]
  BY <1>1, <1>2, IdleIsProgress
<1>4. worker # "alive" /\ reading["worker"].at = "idle"
  BY <1>1 DEF IInv, Chronology, OneReader
<1>5. Follows("main")'
  BY <1>2, <1>3, NothingRead
<1>6. Follows("worker")'
  BY <1>3, <1>4 DEF Follows, BeforeFollows, MonotonicFollows, BestFollows
<1>7. main' \in {"setup", "thread", "query", "done"} /\ (main' \in {"setup", "thread"} => worker = "none")
  BY <1>1 DEF IInv, Chronology, OneReader, MainObserves, TakeBaseline, AfterSample
<1>8. OneReader'
  BY <1>1, <1>3, <1>4, <1>7, IdleIsProgress DEF OneReader
<1>9. CASE MainObserves
  <2>1. Observe(reading["main"].best)
    BY <1>9 DEF MainObserves
  <2>2. TypeOK'
    BY <1>1, <1>2, <1>3, <1>7, <2>1, ObserveStep DEF IInv, TypeOK, Stages
  <2>3. Kept' /\ Reported' /\ NoFalseDiscontinuity'
    BY <1>1, <1>2, <2>1, ObserveStep
  <2>4. QED  BY <1>5, <1>6, <1>8, <2>2, <2>3 DEF IInv, Chronology, Readers
<1>10. CASE TakeBaseline
  <2> DEFINE first == reading["main"].best
  <2>1. /\ first \in Reading /\ first # Nothing /\ Behind(first)
    BY <1>1, <1>2, ProgressFields DEF IInv, Chronology, Follows, BestFollows
  <2>2. /\ initial' = first /\ latest' = first /\ accounted' = first
        /\ UNCHANGED <<pendingStart, intervals, discontinuity>>
    BY <1>10 DEF TakeBaseline
  <2>3. intervals = <<>> /\ pendingStart = Nothing
    BY <1>10 DEF IInv, Chronology, OneReader, Reported, TakeBaseline
  <2> HIDE DEF first
  <2>4. Kept'
    BY <1>1, <2>1, <2>2 DEF Kept, Behind, Low2, Offset2
  <2>5. Reported' /\ NoFalseDiscontinuity'
    BY <2>1, <2>2, <2>3 DEF IInv, Reported, Ordered, LastEnds, NoFalseDiscontinuity
  <2>6. TypeOK'
    BY <1>1, <1>3, <1>7, <2>1, <2>2 DEF IInv, TypeOK, Stages
  <2>7. QED  BY <1>5, <1>6, <1>8, <2>4, <2>5, <2>6 DEF IInv, Chronology, Readers
<1>11. QED  BY <1>9, <1>10

LEMMA NextKeepsIInv == IInv /\ [Next]_vars => IInv'
<1> SUFFICES ASSUME IInv, [Next]_vars PROVE IInv'
  OBVIOUS
<1>1. CASE \E p \in Readers : ReadBefore(p) \/ ReadMonotonic(p) \/ ReadAfter(p)
  BY <1>1, OpenStep, MonotonicStep, CloseStep
<1>2. CASE WorkerSamples \/ WorkerObserves \/ WorkerReadFails \/ WorkerEnds
  BY <1>2, WorkerStep, WorkerObservesStep
<1>3. CASE TakeBaseline \/ Start \/ StartThread \/ Finish \/ Joined \/ JoinTimesOut
           \/ MainObserves \/ MainReadFails \/ Queried
  BY <1>3, MainStep, MainObservesStep
<1>4. CASE Tick \/ \E length \in Lengths : Sleep(length)
  BY <1>4, MachineStep
<1>5. CASE UNCHANGED vars
  BY <1>5 DEF vars, clocks, threads, observed, IInv, TypeOK, Chronology, OneReader, Follows,
              BeforeFollows, MonotonicFollows, BestFollows, Kept, Behind, Low2, High2, Offset2,
              Reported, Ordered, LastEnds, NoFalseDiscontinuity
<1>6. QED  BY <1>1, <1>2, <1>3, <1>4, <1>5 DEF Next

THEOREM Invariance == Spec => []IInv
<1>1. Init => IInv
  BY InitIInv
<1>2. IInv /\ [Next]_vars => IInv'
  BY NextKeepsIInv
<1>3. QED  BY <1>1, <1>2, PTL DEF Spec

-----------------------------------------------------------------------------
(* Every variable has a value of its kind: the middle of a bracket, its    *)
(* width and the edges of an interval are never negative, and the monitor  *)
(* never holds one of its two readings alone.                              *)
THEOREM TypeCorrect == Spec => []TypeOK
<1>1. IInv => TypeOK
  BY DEF IInv
<1>2. QED  BY <1>1, Invariance, PTL

(* observe never takes jitter, a sleep inside a bracket, or the change of  *)
(* the thread that reads, for clocks that lost their continuity, however   *)
(* many brackets a reading has and however low the floor is.               *)
THEOREM NeverDoubtsTheClocks == Spec => []NoFalseDiscontinuity
<1>1. IInv => NoFalseDiscontinuity
  BY DEF IInv
<1>2. QED  BY <1>1, Invariance, PTL

(* The intervals a run reports are not empty, in order, and do not overlap.*)
THEOREM IntervalsApart == Spec => []Ordered
<1>1. IInv => Ordered
  BY DEF IInv, Reported
<1>2. QED  BY <1>1, Invariance, PTL

-----------------------------------------------------------------------------
(* How long the machine has slept, and what a reading knows of it          *)

Opens2(r) == r.boot2 - r.unc2
Closes2(r) == r.boot2 + r.unc2

(* The time the first n sleeps took: the offset of the clocks after them.  *)
Total(n) == IF n = 0 THEN 0 ELSE slept[n].to - slept[n].at

(* The sleeps lie one after the other, and the offset grows by each.       *)
Chronicle ==
    /\ slept \in Seq([from : Nat, to : Nat, at : Nat])
    /\ boot = mono + Total(Len(slept))
    /\ \A i \in 1..Len(slept) :
           /\ Length(i) \in Lengths
           /\ slept[i].from = slept[i].at + Total(i - 1)
           /\ slept[i].to <= boot /\ slept[i].at <= mono
           /\ \A j \in 1..i - 1 : /\ slept[j].to <= slept[i].from /\ slept[j].at <= slept[i].at
                                  /\ Total(j) <= Total(i - 1)

(* A reading counts n sleeps: those lie before its bracket, the others     *)
(* behind it, and it bounds the offset between them.                       *)
Counts(n, r) ==
    /\ Low2(r) <= 2 * Total(n) /\ 2 * Total(n) <= High2(r)
    /\ \A i \in 1..n : slept[i].at <= r.mono /\ 2 * slept[i].to <= Opens2(r)
    /\ \A i \in n + 1..Len(slept) : r.mono <= slept[i].at /\ Closes2(r) <= 2 * slept[i].from

(* Unless its bracket is as wide as a sleep.                               *)
Bracketed(r) ==
    \/ \E n \in 0..Len(slept) : Counts(n, r)
    \/ \E i \in 1..Len(slept) : Length(i) <= r.unc2

Closed(r) == r # Nothing => Closes2(r) <= 2 * boot /\ r.mono <= mono

(* No sleep has begun since the bracket was opened, or one has.            *)
Quiet(p) == \A i \in 1..Len(slept) :
                /\ slept[i].to <= reading[p].before
                /\ reading[p].at = "after" => slept[i].at <= reading[p].mono
Disturbed(p) == \E i \in 1..Len(slept) : reading[p].before <= slept[i].from

Brackets(p) ==
    /\ reading[p].at \in {"monotonic", "after"} =>
           /\ Quiet(p) \/ Disturbed(p)
           /\ latest # Nothing => Closes2(latest) <= 2 * reading[p].before
    /\ reading[p].at # "idle" /\ reading[p].best # Nothing =>
           /\ Bracketed(reading[p].best) /\ Closed(reading[p].best)
           /\ latest # Nothing => Closes2(latest) <= Opens2(reading[p].best)

Timeline ==
    /\ Chronicle
    /\ \A p \in Readers : Brackets(p)
    /\ Closed(latest)

-----------------------------------------------------------------------------
(* The books of the monitor, as long as its readings are sharp: a sleep    *)
(* takes longer than the bracket of a reading it keeps, and than the       *)
(* brackets of the two readings it compares, together.                     *)

SharpReading(r) == r # Nothing => \A length \in Lengths : r.unc2 < length
SharpChange(c) == c # accounted => \A length \in Lengths : Uncertainty2(c) < length
Sharp == SharpReading(latest) /\ (latest # Nothing => SharpChange(latest))

Floor(r) == Larger(Floor2, Uncertainty2(r))

(* The baseline counts n0 sleeps, the accounted reading and the start of   *)
(* the window n1, the latest n2; each sleep between the first two is in an *)
(* interval, and the change since is still in doubt.                       *)
Tally(n0, n1, n2) ==
    /\ n0 <= n1 /\ n1 <= n2
    /\ Counts(n0, initial) /\ Counts(n1, accounted) /\ Counts(n2, latest)
    /\ Counts(n1, WindowStart(latest))
    /\ \A i \in n0 + 1..n1 : \E k \in DOMAIN intervals : Inside(i, k)

Accounts ==
    latest # Nothing =>
        /\ initial # Nothing
        /\ Closed(initial) /\ Closed(accounted) /\ Closed(WindowStart(latest))
        /\ Change2(latest) <= Floor(latest)
        /\ \E n0, n1, n2 \in 0..Len(slept) : Tally(n0, n1, n2)

(* An interval holds a sleep, and is about where it was when it holds no   *)
(* other.                                                                  *)
Occupied == \A k \in DOMAIN intervals : \E i \in DOMAIN slept : Inside(i, k)

(* The intervals together are the change accounted for, up to what each    *)
(* admits.                                                                 *)
Found4(s) == MapThenSumSet(LAMBDA k : s[k].to4 - s[k].from4, DOMAIN s)
Admitted4(s) == MapThenSumSet(LAMBDA k : s[k].unc4, DOMAIN s)
Summed ==
    latest # Nothing =>
        /\ Found4(intervals) <= 2 * (Offset2(accounted) - Offset2(initial))
        /\ 2 * (Offset2(accounted) - Offset2(initial)) <= Found4(intervals) + Admitted4(intervals)

Books == Accounts /\ Occupied /\ Placed /\ Summed

-----------------------------------------------------------------------------
(* Between application entry and finish *)

(* The run has finished: the worker may no longer observe, and no final    *)
(* reading has succeeded before there was one.                             *)
SpanCloses ==
    /\ span \in [from : Nat, to : Nat]
    /\ main \in {"join", "final", "query", "last", "done"} => stop /\ span.to <= boot
    /\ main \in {"entry", "setup", "first", "thread", "run", "join", "final"} => ~finalRead

(* The baseline was read before application entry ended.                   *)
SpanOpens ==
    ~errors /\ main # "entry" =>
        latest # Nothing /\ initial # Nothing /\ Closes2(initial) <= 2 * span.from

(* The readings of a finished run open after its end.                      *)
LateReading ==
    main \in {"final", "last"} =>
        /\ reading["main"].at \in {"monotonic", "after"} => span.to <= reading["main"].before
        /\ reading["main"].at # "idle" /\ reading["main"].best # Nothing =>
               2 * span.to <= Opens2(reading["main"].best)

(* The final reading that succeeded was kept, or a later one was.          *)
ReadToTheEnd ==
    main \in {"query", "last", "done"} /\ finalRead /\ ~errors => 2 * span.to <= Opens2(latest)

Ends == SpanCloses /\ SpanOpens /\ LateReading /\ ReadToTheEnd

-----------------------------------------------------------------------------
(* The sleeps in their order *)

LEMMA SleepFacts ==
  ASSUME Chronicle, NEW i \in 1..Len(slept)
  PROVE  /\ slept[i].from \in Nat /\ slept[i].to \in Nat /\ slept[i].at \in Nat
         /\ Length(i) \in Lengths /\ Length(i) \in Nat /\ 1 <= Length(i)
         /\ slept[i].to = slept[i].from + Length(i)
         /\ Total(i - 1) \in Int /\ Total(i) = Total(i - 1) + Length(i)
         /\ Len(slept) \in Nat
<1>1. slept[i] \in [from : Nat, to : Nat, at : Nat] /\ Len(slept) \in Nat
  BY ElementOfSeq, LenProperties DEF Chronicle
<1>2. Length(i) \in Lengths /\ Length(i) \in Nat \ {0}
  BY ClockAssumption DEF Chronicle
<1>3. slept[i].from \in Nat /\ slept[i].to \in Nat /\ slept[i].at \in Nat
  BY <1>1
<1>4. slept[i].to = slept[i].from + Length(i)
  BY <1>3 DEF Length
<1>5. slept[i].from = slept[i].at + Total(i - 1)
  BY DEF Chronicle
<1>6. Total(i - 1) \in Int
  <2>1. CASE i = 1
    BY <2>1 DEF Total
  <2>2. CASE i # 1
    <3>1. i - 1 \in 1..Len(slept) /\ i - 1 # 0
      BY <1>1, <2>2
    <3>2. slept[i - 1] \in [from : Nat, to : Nat, at : Nat]
      BY <3>1, ElementOfSeq DEF Chronicle
    <3>3. slept[i - 1].to \in Int /\ slept[i - 1].at \in Int
      BY <3>2
    <3>4. QED  BY <3>1, <3>3 DEF Total
  <2>3. QED  BY <2>1, <2>2
<1>7. Total(i) = slept[i].to - slept[i].at
  BY <1>1 DEF Total
<1>8. Total(i) = Total(i - 1) + Length(i)
  <2> DEFINE t == Total(i - 1)
             u == Total(i)
  <2> HIDE DEF t, u
  <2>1. t \in Int /\ slept[i].from = slept[i].at + t /\ u = slept[i].to - slept[i].at
    BY <1>5, <1>6, <1>7 DEF t, u
  <2>2. u = t + Length(i)
    BY <1>2, <1>3, <1>4, <2>1
  <2>3. QED  BY <2>2 DEF t, u
<1>9. QED  BY <1>1, <1>2, <1>3, <1>4, <1>6, <1>8

(* How much longer the machine had slept after more sleeps.                *)
LEMMA TotalGrows ==
  ASSUME Chronicle, NEW m \in 0..Len(slept), NEW n \in 0..Len(slept), m <= n
  PROVE  /\ Total(m) \in Nat /\ Total(n) \in Nat /\ Total(m) <= Total(n)
         /\ \A i \in m + 1..n : Total(m) + Length(i) <= Total(n)
<1>0. Len(slept) \in Nat
  BY LenProperties DEF Chronicle
<1>1. ASSUME NEW i \in 1..Len(slept), NEW j \in 0..i - 1
      PROVE  Total(j) \in Nat /\ Total(j) <= Total(i - 1) /\ Total(i - 1) \in Nat
  <2>1. Total(0) = 0
    BY DEF Total
  <2>2. ASSUME NEW k \in 1..Len(slept) PROVE Total(k) \in Nat
    <3>0. 1 \in 1..Len(slept) /\ 1 - 1 = 0
      BY <1>0
    <3>1. Total(1) = 0 + Length(1) /\ Length(1) \in Nat
      BY <2>1, <3>0, SleepFacts
    <3>2. k - 1 # 0 => 1 \in 1..k - 1 /\ 1 <= k - 1
      BY <1>0
    <3>3. k - 1 # 0 => Total(1) <= Total(k - 1)
      BY <3>2 DEF Chronicle
    <3>4. Total(k - 1) \in Int /\ Total(k) = Total(k - 1) + Length(k) /\ Length(k) \in Nat
      BY SleepFacts
    <3>5. 0 <= Total(k - 1)
      BY <2>1, <3>1, <3>3, <3>4
    <3>6. QED  BY <3>4, <3>5
  <2>3. \A k \in 0..Len(slept) : Total(k) \in Nat
    BY <2>1, <2>2
  <2>4. Total(j) <= Total(i - 1)
    <3>1. CASE j = 0
      <4>1. i - 1 \in 0..Len(slept)
        BY <1>0
      <4>2. QED  BY <2>1, <2>3, <3>1, <4>1
    <3>2. CASE j # 0
      <4>1. j \in 1..i - 1
        BY <3>2
      <4>2. QED  BY <4>1 DEF Chronicle
    <3>3. QED  BY <3>1, <3>2
  <2>5. i - 1 \in 0..Len(slept) /\ j \in 0..Len(slept)
    BY <1>0
  <2>6. QED  BY <2>3, <2>4, <2>5
<1>2. ASSUME NEW k \in 0..Len(slept) PROVE Total(k) \in Nat
  <2>1. CASE k = 0
    BY <2>1 DEF Total
  <2>2. CASE k # 0
    <3>1. k \in 1..Len(slept) /\ 0 \in 0..k - 1
      BY <1>0, <2>2
    <3>2. Total(k - 1) \in Nat
      BY <1>1, <3>1
    <3>3. Total(k) = Total(k - 1) + Length(k) /\ Length(k) \in Nat
      BY <3>1, SleepFacts
    <3>4. QED  BY <3>2, <3>3
  <2>3. QED  BY <2>1, <2>2
<1>3. ASSUME NEW i \in m + 1..n PROVE Total(m) + Length(i) <= Total(n) /\ Total(m) <= Total(n)
  <2>1. i \in 1..Len(slept) /\ m \in 0..i - 1
    BY <1>0
  <2>2. Total(m) <= Total(i - 1) /\ Total(i - 1) \in Nat
    BY <1>1, <2>1
  <2>3. Total(i) = Total(i - 1) + Length(i) /\ Length(i) \in Nat
    BY <2>1, SleepFacts
  <2>4. Total(i) <= Total(n)
    <3>1. CASE i = n
      BY <1>2, <2>1, <3>1
    <3>2. CASE i # n
      <4>1. n \in 1..Len(slept) /\ i \in 0..n - 1
        BY <1>0, <2>1, <3>2
      <4>2. Total(i) <= Total(n - 1) /\ Total(n - 1) \in Nat
        BY <1>1, <4>1
      <4>3. Total(n) = Total(n - 1) + Length(n) /\ Length(n) \in Nat
        BY <4>1, SleepFacts
      <4>4. i \in 0..Len(slept)
        BY <2>1, <1>0
      <4>5. QED  BY <1>2, <4>2, <4>3, <4>4
    <3>3. QED  BY <3>1, <3>2
  <2>5. i \in 0..Len(slept)
    BY <2>1, <1>0
  <2>6. Total(m) \in Nat /\ Total(n) \in Nat /\ Total(i) \in Nat
    BY <1>2, <2>5
  <2>7. QED  BY <2>2, <2>3, <2>4, <2>6
<1>4. Total(m) <= Total(n)
  <2>1. CASE m = n
    BY <1>2, <2>1
  <2>2. CASE m # n
    <3>1. n \in m + 1..n
      BY <1>0, <2>2
    <3>2. QED  BY <1>3, <3>1
  <2>3. QED  BY <2>1, <2>2
<1>5. QED  BY <1>2, <1>3, <1>4

-----------------------------------------------------------------------------
(* The timeline through the steps *)

LEMMA InitTimeline == Init => Timeline
<1> SUFFICES ASSUME Init PROVE Timeline
  OBVIOUS
<1>1. Chronicle
  <2>1. Len(slept) = 0 /\ slept \in Seq([from : Nat, to : Nat, at : Nat])
    BY EmptySeq DEF Init
  <2>2. QED  BY <2>1 DEF Init, Chronicle, Total
<1>2. \A p \in Readers : Brackets(p)
  BY IdleIsProgress DEF Init, Brackets
<1>3. Closed(latest)
  BY DEF Init, Closed
<1>4. QED  BY <1>1, <1>2, <1>3 DEF Timeline

(* No clock moves, no reading is observed, and none goes on.               *)
LEMMA TimelineStands ==
  ASSUME Timeline, UNCHANGED <<mono, boot, slept, latest>>,
         \A p \in Readers : reading'[p] = reading[p] \/ reading'[p] \in {Starting, NotReading}
  PROVE  Timeline'
<1>1. Chronicle'
  BY DEF Timeline, Chronicle, Total, Length
<1>2. Closed(latest)'
  BY DEF Timeline, Closed, Closes2
<1>3. ASSUME NEW p \in Readers PROVE Brackets(p)'
  <2>1. CASE reading'[p] = reading[p]
    BY <2>1 DEF Timeline, Brackets, Quiet, Disturbed, Bracketed, Closed, Counts, Length, Total,
                Opens2, Closes2, Low2, High2, Offset2
  <2>2. CASE reading'[p] \in {Starting, NotReading}
    BY <2>2, IdleIsProgress DEF Brackets
  <2>3. QED  BY <1>3, <2>1, <2>2
<1>4. QED  BY <1>1, <1>2, <1>3 DEF Timeline

(* A reading is observed, and then nobody reads.                           *)
LEMMA TimelineObserves ==
  ASSUME Timeline, UNCHANGED <<mono, boot, slept>>, NEW p \in Readers,
         reading[p].at = "taken", reading[p].best # Nothing,
         latest' \in {latest, reading[p].best},
         \A q \in Readers : reading'[q].at = "idle"
  PROVE  Timeline'
<1>1. Chronicle'
  BY DEF Timeline, Chronicle, Total, Length
<1>2. Closed(latest)'
  <2>1. Closed(latest) /\ Closed(reading[p].best)
    BY DEF Timeline, Brackets
  <2>2. QED  BY <2>1 DEF Closed, Closes2
<1>3. ASSUME NEW q \in Readers PROVE Brackets(q)'
  BY <1>3 DEF Brackets
<1>4. QED  BY <1>1, <1>2, <1>3 DEF Timeline

(* A reading goes on.                                                      *)
LEMMA TimelineReads ==
  ASSUME Timeline, UNCHANGED <<mono, boot, slept, latest>>, NEW p \in Readers,
         \A q \in Readers : q # p => reading'[q] = reading[q],
         Brackets(p)'
  PROVE  Timeline'
<1>1. Chronicle'
  BY DEF Timeline, Chronicle, Total, Length
<1>2. Closed(latest)'
  BY DEF Timeline, Closed, Closes2
<1>3. ASSUME NEW q \in Readers, q # p PROVE Brackets(q)'
  BY <1>3 DEF Timeline, Brackets, Quiet, Disturbed, Bracketed, Closed, Counts, Length, Total,
              Opens2, Closes2, Low2, High2, Offset2
<1>4. QED  BY <1>1, <1>2, <1>3 DEF Timeline

LEMMA TimelineOpens == ASSUME IInv, Timeline, NEW p \in Readers, ReadBefore(p) PROVE Timeline'
<1> USE DEF clocks, threads, observed
<1>1. /\ reading[p].at = "before" /\ UNCHANGED <<mono, boot, slept, latest>>
      /\ reading' = [reading EXCEPT ![p] = [reading[p] EXCEPT !.at = "monotonic", !.before = boot]]
      /\ reading \in [Readers -> InProgress] /\ reading[p] \in InProgress
  BY DEF ReadBefore, IInv, TypeOK
<1>2. /\ reading'[p].at = "monotonic" /\ reading'[p].before = boot
      /\ reading'[p].best = reading[p].best
      /\ \A q \in Readers : q # p => reading'[q] = reading[q]
  BY <1>1 DEF InProgress
<1>3. \A i \in 1..Len(slept) : slept[i].to <= boot
  BY DEF Timeline, Chronicle
<1>4. latest # Nothing => Closes2(latest) <= 2 * boot
  BY DEF Timeline, Closed
<1>5. Brackets(p)'
  BY <1>1, <1>2, <1>3, <1>4
     DEF Timeline, Brackets, Quiet, Bracketed, Closed, Counts, Length, Total,
         Opens2, Closes2, Low2, High2, Offset2
<1>6. QED  BY <1>1, <1>2, <1>5, TimelineReads

LEMMA TimelineMonotonic ==
  ASSUME IInv, Timeline, NEW p \in Readers, ReadMonotonic(p) PROVE Timeline'
<1> USE DEF clocks, threads, observed
<1>1. /\ reading[p].at = "monotonic" /\ UNCHANGED <<mono, boot, slept, latest>>
      /\ reading' = [reading EXCEPT ![p] = [reading[p] EXCEPT !.at = "after", !.mono = mono]]
      /\ reading \in [Readers -> InProgress] /\ reading[p] \in InProgress
  BY DEF ReadMonotonic, IInv, TypeOK
<1>2. /\ reading'[p].at = "after" /\ reading'[p].before = reading[p].before
      /\ reading'[p].mono = mono /\ reading'[p].best = reading[p].best
      /\ \A q \in Readers : q # p => reading'[q] = reading[q]
  BY <1>1 DEF InProgress
<1>3. \A i \in 1..Len(slept) : slept[i].at <= mono
  BY DEF Timeline, Chronicle
<1>4. Quiet(p) \/ Disturbed(p)
  BY <1>1 DEF Timeline, Brackets
<1>5. (Quiet(p) \/ Disturbed(p))'
  <2>1. CASE Quiet(p)
    BY <1>1, <1>2, <1>3, <2>1 DEF Quiet
  <2>2. CASE Disturbed(p)
    BY <1>1, <1>2, <2>2 DEF Disturbed
  <2>3. QED  BY <1>4, <2>1, <2>2
<1>6. Brackets(p)'
  BY <1>1, <1>2, <1>5
     DEF Timeline, Brackets, Bracketed, Closed, Counts, Length, Total,
         Opens2, Closes2, Low2, High2, Offset2
<1>7. QED  BY <1>1, <1>2, <1>6, TimelineReads

(* The bracket that closes counts every sleep there was, unless the        *)
(* machine slept since it was opened: then it is as wide as that sleep.    *)
LEMMA ClosedBracket ==
  ASSUME Chronicle, mono \in Nat, boot \in Nat, NEW r \in Reading,
         NEW before \in Nat, NEW m \in Nat,
         before <= boot, m <= mono, before - m <= boot - mono,
         r.boot2 = before + boot, r.mono = m, r.unc2 = boot - before,
         \/ \A i \in 1..Len(slept) : slept[i].to <= before /\ slept[i].at <= m
         \/ \E i \in 1..Len(slept) : before <= slept[i].from
  PROVE  /\ Bracketed(r) /\ Closed(r)
         /\ Opens2(r) = 2 * before /\ Closes2(r) = 2 * boot
<1>1. /\ Opens2(r) = 2 * before /\ Closes2(r) = 2 * boot
      /\ Low2(r) = 2 * (before - m) /\ High2(r) = 2 * (boot - m)
  <2>1. \A b, x, y \in Int : /\ x + b - (b - x) = 2 * x /\ x + b + (b - x) = 2 * b
                             /\ x + b - 2 * y - (b - x) = 2 * (x - y)
                             /\ x + b - 2 * y + (b - x) = 2 * (b - y)
    OBVIOUS
  <2>2. boot \in Int /\ before \in Int /\ m \in Int
    OBVIOUS
  <2>3. QED  BY <2>1, <2>2 DEF Opens2, Closes2, Low2, High2, Offset2
<1>2. Closed(r)
  BY <1>1 DEF Closed
<1>3. Len(slept) \in Nat
  BY LenProperties DEF Chronicle
<1>4. CASE \A i \in 1..Len(slept) : slept[i].to <= before /\ slept[i].at <= m
  <2> DEFINE n == Len(slept)
             t == Total(n)
  <2>1. n \in 0..Len(slept)
    BY <1>3
  <2>2. t \in Nat /\ boot = mono + t
    <3>1. t \in Nat
      BY <2>1, TotalGrows
    <3>2. QED  BY <3>1 DEF Chronicle
  <2> HIDE DEF t
  <2>3. 2 * (before - m) <= 2 * t /\ 2 * t <= 2 * (boot - m)
    BY <2>2
  <2>4. \A i \in 1..n : slept[i].at <= r.mono /\ 2 * slept[i].to <= Opens2(r)
    <3>1. \A i \in 1..n : slept[i].to \in Nat
      BY SleepFacts
    <3>2. QED  BY <1>1, <1>4, <3>1
  <2>5. Counts(n, r)
    BY <1>1, <1>3, <2>3, <2>4 DEF Counts, t
  <2>6. QED  BY <1>1, <1>2, <2>1, <2>5 DEF Bracketed
<1>5. CASE \E i \in 1..Len(slept) : before <= slept[i].from
  <2>1. PICK i \in 1..Len(slept) : before <= slept[i].from
    BY <1>5
  <2>2. /\ slept[i].to = slept[i].from + Length(i) /\ slept[i].from \in Nat /\ Length(i) \in Nat
        /\ slept[i].to <= boot
    BY SleepFacts DEF Chronicle
  <2>3. Length(i) <= r.unc2
    BY <2>1, <2>2
  <2>4. QED  BY <1>1, <1>2, <2>3 DEF Bracketed
<1>6. QED  BY <1>4, <1>5

LEMMA TimelineCloses == ASSUME IInv, Timeline, NEW p \in Readers, ReadAfter(p) PROVE Timeline'
<1> USE DEF clocks, threads, observed
<1>1. /\ reading[p].at = "after" /\ UNCHANGED <<mono, boot, slept, latest>>
      /\ reading \in [Readers -> InProgress] /\ reading[p] \in InProgress
      /\ mono \in Nat /\ boot \in Nat
  BY DEF ReadAfter, IInv, TypeOK
<1>2. PICK c : c = Candidate(p)
  OBVIOUS
<1>3. /\ reading[p].before \in Nat /\ reading[p].mono \in Nat
      /\ reading[p].before <= boot /\ reading[p].mono <= mono
      /\ reading[p].before - reading[p].mono <= boot - mono
  BY <1>1, ProgressFields DEF IInv, Chronology, Follows, BeforeFollows, MonotonicFollows
<1>4. /\ c \in Reading /\ c # Nothing /\ c.boot2 = reading[p].before + boot
      /\ c.mono = reading[p].mono /\ c.unc2 = boot - reading[p].before
  BY <1>1, <1>2, <1>3, ClockAssumption DEF Candidate, Reading
<1>5. /\ Bracketed(c) /\ Closed(c) /\ Opens2(c) = 2 * reading[p].before
  <2>1. \/ \A i \in 1..Len(slept) : slept[i].to <= reading[p].before /\ slept[i].at <= reading[p].mono
        \/ \E i \in 1..Len(slept) : reading[p].before <= slept[i].from
    BY <1>1 DEF Timeline, Brackets, Quiet, Disturbed
  <2>2. Chronicle
    BY DEF Timeline
  <2>3. QED  BY <1>1, <1>3, <1>4, <2>1, <2>2, ClosedBracket
<1>6. latest # Nothing => Closes2(latest) <= Opens2(c)
  BY <1>1, <1>5 DEF Timeline, Brackets
<1>7. PICK best : best = Tightest(reading[p].best, c)
  OBVIOUS
<1>8. /\ best # Nothing /\ Bracketed(best) /\ Closed(best)
      /\ latest # Nothing => Closes2(latest) <= Opens2(best)
  <2>1. best = c \/ (best = reading[p].best /\ reading[p].best # Nothing)
    BY <1>7 DEF Tightest
  <2>2. CASE best = c
    BY <1>4, <1>5, <1>6, <2>2
  <2>3. CASE best = reading[p].best /\ reading[p].best # Nothing
    BY <1>1, <2>3 DEF Timeline, Brackets
  <2>4. QED  BY <2>1, <2>2, <2>3
<1>9. /\ reading'[p].at \in {"before", "taken"} /\ reading'[p].best = best
      /\ \A q \in Readers : q # p => reading'[q] = reading[q]
  BY <1>1, <1>2, <1>7 DEF ReadAfter, Starting, NotReading
<1>10. Brackets(p)'
  BY <1>1, <1>8, <1>9
     DEF Brackets, Bracketed, Closed, Counts, Length, Total, Opens2, Closes2, Low2, High2, Offset2
<1>11. QED  BY <1>1, <1>9, <1>10, TimelineReads


(* The machine falls asleep: the sleeps there were stand as they are.      *)
LEMMA SleepAdds ==
  ASSUME Chronicle, mono \in Nat, boot \in Nat, NEW length \in Lengths, Sleep(length)
  PROVE  /\ slept' \in Seq([from : Nat, to : Nat, at : Nat])
         /\ Len(slept') = Len(slept) + 1 /\ Len(slept) \in Nat
         /\ \A i \in 1..Len(slept) : slept'[i] = slept[i]
         /\ slept'[Len(slept) + 1] = [from |-> boot, to |-> boot + length, at |-> mono]
         /\ \A n \in 0..Len(slept) : Total(n)' = Total(n)
         /\ \A i \in 1..Len(slept) : Length(i)' = Length(i)
         /\ length \in Nat /\ 1 <= length
<1> DEFINE new == [from |-> boot, to |-> boot + length, at |-> mono]
<1>1. length \in Nat /\ 1 <= length
  BY ClockAssumption
<1>2. new \in [from : Nat, to : Nat, at : Nat]
  BY <1>1
<1>3. slept' = Append(slept, new) /\ slept \in Seq([from : Nat, to : Nat, at : Nat])
  BY DEF Sleep, Chronicle
<1> HIDE DEF new
<1>4. /\ slept' \in Seq([from : Nat, to : Nat, at : Nat])
      /\ Len(slept') = Len(slept) + 1 /\ Len(slept) \in Nat
      /\ \A i \in 1..Len(slept) : slept'[i] = slept[i]
      /\ slept'[Len(slept) + 1] = new
  BY <1>2, <1>3, AppendProperties, LenProperties
<1>5. ASSUME NEW n \in 0..Len(slept) PROVE Total(n)' = Total(n)
  <2>1. n # 0 => slept'[n] = slept[n]
    BY <1>4
  <2>2. QED  BY <2>1 DEF Total
<1>6. ASSUME NEW i \in 1..Len(slept) PROVE Length(i)' = Length(i)
  BY <1>4 DEF Length
<1>7. QED  BY <1>1, <1>4, <1>5, <1>6 DEF new

LEMMA ChronicleSleeps ==
  ASSUME Chronicle, mono \in Nat, boot \in Nat, NEW length \in Lengths, Sleep(length)
  PROVE  Chronicle'
<1>0. PICK N \in Nat : N = Len(slept)
  BY LenProperties DEF Chronicle
<1>1. /\ slept' \in Seq([from : Nat, to : Nat, at : Nat])
      /\ Len(slept') = N + 1 /\ N \in Nat
      /\ \A i \in 1..N : slept'[i] = slept[i]
      /\ slept'[N + 1] = [from |-> boot, to |-> boot + length, at |-> mono]
      /\ \A n \in 0..N : Total(n)' = Total(n)
      /\ \A i \in 1..N : Length(i)' = Length(i)
      /\ length \in Nat /\ 1 <= length
  BY <1>0, SleepAdds
<1>2. boot' = boot + length /\ mono' = mono
  BY DEF Sleep
<1>3. boot = mono + Total(N) /\ Total(N) \in Nat
  <2>1. N \in 0..Len(slept)
    BY <1>0
  <2>2. Total(N) \in Nat
    BY <2>1, TotalGrows
  <2>3. QED  BY <1>0, <2>2 DEF Chronicle
<1>4. Total(N + 1)' = boot + length - mono
  <2>1. N + 1 # 0
    BY <1>1
  <2>2. Total(N + 1)' = slept'[N + 1].to - slept'[N + 1].at
    BY <2>1 DEF Total
  <2>3. QED  BY <1>1, <2>2
<1>5. boot' = mono' + Total(N + 1)'
  BY <1>1, <1>2, <1>3, <1>4
<1>6. ASSUME NEW i \in 1..Len(slept')
      PROVE  /\ Length(i)' \in Lengths
             /\ slept'[i].from = slept'[i].at + Total(i - 1)'
             /\ slept'[i].to <= boot' /\ slept'[i].at <= mono'
             /\ \A j \in 1..i - 1 :
                    /\ slept'[j].to <= slept'[i].from /\ slept'[j].at <= slept'[i].at
                    /\ Total(j)' <= Total(i - 1)'
  <2>1. CASE i = N + 1
    <3>1. Length(i)' = boot + length - boot
      BY <1>1, <2>1 DEF Length
    <3>2. Length(i)' = length
      BY <1>1, <3>1
    <3>3. i - 1 = N /\ Total(i - 1)' = Total(N)
      BY <1>1, <2>1
    <3>4. slept'[i].from = slept'[i].at + Total(i - 1)'
      BY <1>1, <1>3, <2>1, <3>3
    <3>5. slept'[i].to <= boot' /\ slept'[i].at <= mono'
      BY <1>1, <1>2, <2>1
    <3>6. ASSUME NEW j \in 1..i - 1
          PROVE  /\ slept'[j].to <= slept'[i].from /\ slept'[j].at <= slept'[i].at
                 /\ Total(j)' <= Total(i - 1)'
      <4>1. j \in 1..N /\ j \in 0..N /\ N \in 0..N /\ j <= N
        BY <1>1, <3>3
      <4>2. slept[j].to <= boot /\ slept[j].at <= mono
        BY <1>0, <4>1 DEF Chronicle
      <4>3. Total(j) <= Total(N)
        BY <1>0, <4>1, TotalGrows
      <4>4. QED  BY <1>1, <2>1, <3>3, <4>1, <4>2, <4>3
    <3>7. QED  BY <3>2, <3>4, <3>5, <3>6
  <2>2. CASE i # N + 1
    <3>1. i \in 1..N /\ i - 1 \in 0..N
      BY <1>1, <2>2
    <3>2. /\ Length(i) \in Lengths
          /\ slept[i].from = slept[i].at + Total(i - 1)
          /\ slept[i].to <= boot /\ slept[i].at <= mono
          /\ \A j \in 1..i - 1 :
                 /\ slept[j].to <= slept[i].from /\ slept[j].at <= slept[i].at
                 /\ Total(j) <= Total(i - 1)
      BY <1>0, <3>1 DEF Chronicle
    <3>3. slept[i].to \in Nat
      BY <1>0, <3>1, SleepFacts
    <3>4. \A j \in 1..i - 1 : j \in 1..N /\ j \in 0..N
      BY <1>1, <3>1
    <3>5. slept'[i] = slept[i] /\ Length(i)' = Length(i) /\ Total(i - 1)' = Total(i - 1)
      BY <1>1, <3>1
    <3>6. \A j \in 1..i - 1 : slept'[j] = slept[j] /\ Total(j)' = Total(j)
      BY <1>1, <3>4
    <3>7. slept'[i].to <= boot'
      BY <1>1, <1>2, <3>2, <3>3, <3>5
    <3>8. QED  BY <1>2, <3>2, <3>5, <3>6, <3>7
  <2>3. QED  BY <2>1, <2>2
<1>7. boot' = mono' + Total(Len(slept))'
  <2>1. Len(slept') = N + 1
    BY <1>1
  <2>2. QED  BY <1>5, <2>1 DEF Total
<1>8. QED  BY <1>1, <1>6, <1>7 DEF Chronicle

(* A reading that has been taken counts the same sleeps ever after.        *)
LEMMA CountStands ==
  ASSUME Chronicle, mono \in Nat, boot \in Nat, NEW length \in Lengths, Sleep(length),
         NEW r \in Reading, Closed(r)
  PROVE  /\ Closed(r)'
         /\ \A n \in 0..Len(slept) : Counts(n, r) => Counts(n, r)'
         /\ Bracketed(r) => Bracketed(r)'
<1> DEFINE N == Len(slept)
<1>1. /\ Len(slept') = N + 1 /\ N \in Nat
      /\ \A i \in 1..N : slept'[i] = slept[i]
      /\ slept'[N + 1] = [from |-> boot, to |-> boot + length, at |-> mono]
      /\ \A n \in 0..N : Total(n)' = Total(n)
      /\ \A i \in 1..N : Length(i)' = Length(i)
      /\ length \in Nat /\ boot' = boot + length /\ mono' = mono
  BY SleepAdds DEF Sleep
<1>2. Closes2(r) <= 2 * boot /\ r.mono <= mono /\ Closes2(r) \in Int /\ r # Nothing
  BY ReadingFields DEF Closed, Closes2
<1>3. Closed(r)'
  BY <1>1, <1>2 DEF Closed, Closes2
<1>4. ASSUME NEW n \in 0..N, Counts(n, r) PROVE Counts(n, r)'
  <2>1. Total(n)' = Total(n)
    BY <1>1
  <2>2. \A i \in 1..n : slept'[i].at <= r.mono /\ 2 * slept'[i].to <= Opens2(r)
    <3>1. \A i \in 1..n : i \in 1..N
      BY <1>1
    <3>2. QED  BY <1>1, <1>4, <3>1 DEF Counts
  <2>3. ASSUME NEW i \in n + 1..N + 1 PROVE r.mono <= slept'[i].at /\ Closes2(r) <= 2 * slept'[i].from
    <3>1. CASE i = N + 1
      BY <1>1, <1>2, <3>1
    <3>2. CASE i # N + 1
      <4>1. i \in n + 1..N /\ i \in 1..N
        BY <1>1, <3>2
      <4>2. QED  BY <1>1, <1>4, <4>1 DEF Counts
    <3>3. QED  BY <3>1, <3>2
  <2>4. Low2(r) <= 2 * Total(n) /\ 2 * Total(n) <= High2(r)
    BY <1>4 DEF Counts
  <2>5. QED  BY <1>1, <2>1, <2>2, <2>3, <2>4 DEF Counts, Low2, High2, Offset2, Opens2, Closes2
<1>5. ASSUME Bracketed(r) PROVE Bracketed(r)'
  <2>1. CASE \E n \in 0..N : Counts(n, r)
    <3>1. PICK n \in 0..N : Counts(n, r)
      BY <2>1
    <3>2. Counts(n, r)' /\ n \in 0..Len(slept')
      BY <1>1, <1>4, <3>1
    <3>3. QED  BY <3>2 DEF Bracketed
  <2>2. CASE \E i \in 1..N : Length(i) <= r.unc2
    <3>1. PICK i \in 1..N : Length(i) <= r.unc2
      BY <2>2
    <3>2. i \in 1..Len(slept') /\ Length(i)' <= r.unc2
      BY <1>1, <3>1
    <3>3. QED  BY <3>2 DEF Bracketed
  <2>3. QED  BY <1>5, <2>1, <2>2 DEF Bracketed
<1>6. QED  BY <1>3, <1>4, <1>5

LEMMA TimelineSleeps ==
  ASSUME IInv, Timeline, NEW length \in Lengths, Sleep(length) PROVE Timeline'
<1> USE DEF threads, observed
<1>1. /\ mono \in Nat /\ boot \in Nat /\ Chronicle
      /\ reading \in [Readers -> InProgress] /\ latest \in Reading \cup {Nothing}
      /\ UNCHANGED <<reading, latest>>
  BY DEF Sleep, IInv, TypeOK, Timeline
<1>2. Chronicle'
  BY <1>1, ChronicleSleeps
<1>3. Closed(latest)'
  <2>1. CASE latest = Nothing
    BY <1>1, <2>1 DEF Closed
  <2>2. CASE latest # Nothing
    <3>1. PICK r \in Reading : r = latest
      BY <1>1, <2>2
    <3>2. Closed(r)
      BY <3>1 DEF Timeline
    <3>3. Closed(r)'
      BY <1>1, <3>2, CountStands
    <3>4. QED  BY <1>1, <3>1, <3>3 DEF Closed, Closes2
  <2>3. QED  BY <2>1, <2>2
<1>4. ASSUME NEW p \in Readers PROVE Brackets(p)'
  <2>0. reading[p] \in InProgress /\ reading'[p] = reading[p]
    BY <1>1
  <2>1. PICK f \in InProgress : f = reading[p]
    BY <2>0
  <2>2. Brackets(p)
    BY DEF Timeline
  <2>3. /\ f.before \in Nat /\ f.mono \in Nat /\ f.best \in Reading \cup {Nothing}
    BY ProgressFields
  <2>4. ASSUME f.at \in {"monotonic", "after"}
        PROVE  /\ (Quiet(p) \/ Disturbed(p))'
               /\ latest' # Nothing => Closes2(latest)' <= 2 * f.before
    <3>1. /\ Len(slept') = Len(slept) + 1 /\ Len(slept) \in Nat
          /\ \A i \in 1..Len(slept) : slept'[i] = slept[i]
          /\ slept'[Len(slept) + 1] = [from |-> boot, to |-> boot + length, at |-> mono]
      BY <1>1, SleepAdds
    <3>2. f.before <= boot
      BY <2>1, <2>4 DEF IInv, Chronology, Follows, BeforeFollows
    <3>3. Len(slept) + 1 \in 1..Len(slept') /\ f.before <= slept'[Len(slept) + 1].from
      BY <3>1, <3>2
    <3>4. Disturbed(p)'
      BY <2>0, <2>1, <3>3 DEF Disturbed
    <3>5. latest # Nothing => Closes2(latest) <= 2 * f.before
      BY <2>1, <2>2, <2>4 DEF Brackets
    <3>6. QED  BY <1>1, <3>4, <3>5 DEF Closes2
  <2>5. ASSUME f.at # "idle", f.best # Nothing
        PROVE  /\ Bracketed(f.best)' /\ Closed(f.best)'
               /\ latest' # Nothing => Closes2(latest)' <= Opens2(f.best)
    <3>1. PICK r \in Reading : r = f.best
      BY <2>3, <2>5
    <3>2. /\ Bracketed(r) /\ Closed(r)
          /\ latest # Nothing => Closes2(latest) <= Opens2(r)
      BY <2>1, <2>2, <2>5, <3>1 DEF Brackets
    <3>3. Bracketed(r)' /\ Closed(r)'
      BY <1>1, <3>2, CountStands
    <3>4. latest' # Nothing => Closes2(latest)' <= Opens2(r)
      BY <1>1, <3>2 DEF Closes2
    <3>5. QED  BY <3>1, <3>3, <3>4
  <2>6. QED
    BY <2>0, <2>1, <2>4, <2>5
       DEF Brackets, Bracketed, Closed, Counts, Length, Total, Opens2, Closes2, Low2, High2, Offset2
<1>5. QED  BY <1>2, <1>3, <1>4 DEF Timeline

LEMMA TimelineTicks == ASSUME IInv, Timeline, Tick PROVE Timeline'
<1> USE DEF threads, observed
<1>1. /\ mono \in Nat /\ boot \in Nat /\ mono' = mono + 1 /\ boot' = boot + 1
      /\ reading \in [Readers -> InProgress] /\ latest \in Reading \cup {Nothing}
      /\ UNCHANGED <<slept, reading, latest>>
  BY DEF Tick, IInv, TypeOK
<1>2. Chronicle'
  <2>0. PICK N \in Nat : N = Len(slept)
    BY LenProperties DEF Timeline, Chronicle
  <2>1. boot = mono + Total(N) /\ Total(N) \in Nat
    <3>1. N \in 0..Len(slept) /\ Chronicle
      BY <2>0 DEF Timeline
    <3>2. Total(N) \in Nat
      BY <3>1, TotalGrows
    <3>3. QED  BY <2>0, <3>1, <3>2 DEF Chronicle
  <2>2. boot' = mono' + Total(N)
    BY <1>1, <2>1
  <2>3. boot' = mono' + Total(Len(slept))'
    BY <1>1, <2>0, <2>2 DEF Total
  <2>4. ASSUME NEW i \in 1..Len(slept)
        PROVE  slept[i].to <= boot' /\ slept[i].at <= mono'
    <3>1. slept[i].to <= boot /\ slept[i].at <= mono
      BY DEF Timeline, Chronicle
    <3>2. slept[i].to \in Nat /\ slept[i].at \in Nat
      BY SleepFacts DEF Timeline
    <3>3. QED  BY <1>1, <3>1, <3>2
  <2>5. ASSUME NEW i \in 1..Len(slept)
        PROVE  /\ Length(i) \in Lengths
               /\ slept[i].from = slept[i].at + Total(i - 1)
               /\ \A j \in 1..i - 1 : /\ slept[j].to <= slept[i].from /\ slept[j].at <= slept[i].at
                                      /\ Total(j) <= Total(i - 1)
    BY DEF Timeline, Chronicle
  <2>6. slept' \in Seq([from : Nat, to : Nat, at : Nat])
    BY <1>1 DEF Timeline, Chronicle
  <2>7. QED  BY <1>1, <2>3, <2>4, <2>5, <2>6 DEF Chronicle, Total, Length
<1>3. ASSUME NEW r \in Reading, Closed(r) PROVE Closed(r)'
  <2>1. Closes2(r) \in Int /\ r.mono \in Nat /\ r # Nothing
    BY ReadingFields DEF Closes2
  <2>2. Closes2(r) <= 2 * boot /\ r.mono <= mono
    BY <1>3, <2>1 DEF Closed
  <2>3. Closes2(r) <= 2 * boot' /\ r.mono <= mono'
    BY <1>1, <2>1, <2>2
  <2>4. QED  BY <2>3 DEF Closed, Closes2
<1>4. Closed(latest)'
  <2>1. CASE latest = Nothing
    BY <1>1, <2>1 DEF Closed
  <2>2. CASE latest # Nothing
    <3>1. PICK r \in Reading : r = latest
      BY <1>1, <2>2
    <3>2. Closed(r)'
      BY <1>3, <3>1 DEF Timeline
    <3>3. QED  BY <1>1, <3>1, <3>2 DEF Closed, Closes2
  <2>3. QED  BY <2>1, <2>2
<1>5. ASSUME NEW p \in Readers PROVE Brackets(p)'
  <2>1. PICK f \in InProgress : f = reading[p] /\ f = reading'[p]
    BY <1>1
  <2>2. Brackets(p) /\ f.best \in Reading \cup {Nothing}
    BY ProgressFields DEF Timeline
  <2>3. f.at # "idle" /\ f.best # Nothing => Closed(f.best)'
    <3> SUFFICES ASSUME f.at # "idle", f.best # Nothing PROVE Closed(f.best)'
      OBVIOUS
    <3>1. PICK r \in Reading : r = f.best
      BY <2>2
    <3>2. Closed(r)
      BY <2>1, <2>2, <3>1 DEF Brackets
    <3>3. Closed(r)'
      BY <1>3, <3>2
    <3>4. QED  BY <3>1, <3>3
  <2>4. QED
    BY <1>1, <2>1, <2>2, <2>3
       DEF Brackets, Quiet, Disturbed, Bracketed, Closed, Counts, Length, Total,
           Opens2, Closes2, Low2, High2, Offset2
<1>6. QED  BY <1>2, <1>4, <1>5 DEF Timeline

(* The steps that observe a reading: p ends its own, and nobody reads.     *)
LEMMA ObservingSteps ==
  ASSUME IInv, (WorkerObserves /\ ~stop) \/ MainObserves \/ TakeBaseline
  PROVE  /\ UNCHANGED <<mono, boot, slept>>
         /\ \A q \in Readers : reading'[q].at = "idle"
         /\ \E p \in Readers :
                /\ reading[p].at = "taken" /\ reading[p].best \in Reading
                /\ \/ Observe(reading[p].best)
                   \/ /\ latest = Nothing /\ latest' = reading[p].best
                      /\ initial' = reading[p].best /\ accounted' = reading[p].best
                      /\ UNCHANGED <<pendingStart, intervals, errors>>
<1> USE DEF clocks, threads, observed
<1>1. /\ reading \in [Readers -> InProgress] /\ "worker" \in Readers /\ "main" \in Readers
      /\ \A q \in Readers : q = "worker" \/ q = "main"
  BY DEF IInv, TypeOK, Readers
<1>2. ASSUME NEW p \in Readers, reading[p].at = "taken" PROVE reading[p].best \in Reading
  BY <1>1, <1>2, ProgressFields DEF IInv, Chronology, Follows, BestFollows
<1>3. CASE WorkerObserves /\ ~stop
  <2>1. /\ reading["worker"].at = "taken" /\ Observe(reading["worker"].best)
        /\ reading' = [reading EXCEPT !["worker"] = NotReading]
        /\ UNCHANGED <<mono, boot, slept>>
    BY <1>3 DEF WorkerObserves
  <2>2. reading["main"].at = "idle"
    BY <2>1 DEF IInv, Chronology, OneReader
  <2>3. \A q \in Readers : reading'[q].at = "idle"
    BY <1>1, <2>1, <2>2, IdleIsProgress
  <2>4. QED  BY <1>1, <1>2, <2>1, <2>3
<1>4. CASE MainObserves \/ TakeBaseline
  <2>1. /\ reading["main"].at = "taken"
        /\ reading' = [reading EXCEPT !["main"] = NotReading]
        /\ UNCHANGED <<mono, boot, slept>>
    BY <1>4 DEF MainObserves, TakeBaseline
  <2>2. reading["worker"].at = "idle"
    BY <2>1 DEF IInv, Chronology, OneReader
  <2>3. \A q \in Readers : reading'[q].at = "idle"
    BY <1>1, <2>1, <2>2, IdleIsProgress
  <2>4. \/ Observe(reading["main"].best)
        \/ /\ latest = Nothing /\ latest' = reading["main"].best
           /\ initial' = reading["main"].best /\ accounted' = reading["main"].best
           /\ UNCHANGED <<pendingStart, intervals, errors>>
    <3>1. CASE MainObserves
      BY <3>1 DEF MainObserves
    <3>2. CASE TakeBaseline
      BY <3>2 DEF TakeBaseline, IInv, Chronology, OneReader
    <3>3. QED  BY <1>4, <3>1, <3>2
  <2>5. QED  BY <1>1, <1>2, <2>1, <2>3, <2>4
<1>5. QED  BY <1>3, <1>4

(* The steps that neither move a clock nor observe.                        *)
QuietSteps ==
    \/ WorkerSamples \/ (WorkerObserves /\ stop) \/ WorkerReadFails \/ WorkerEnds
    \/ Start \/ StartThread \/ Finish \/ Joined \/ JoinTimesOut \/ MainReadFails \/ Queried
    \/ UNCHANGED vars

LEMMA QuietFacts ==
  ASSUME IInv, QuietSteps
  PROVE  /\ UNCHANGED <<mono, boot, slept>> /\ UNCHANGED observed
         /\ \A p \in Readers : reading'[p] = reading[p] \/ reading'[p] \in {Starting, NotReading}
<1> USE DEF clocks, threads, observed
<1>1. reading \in [Readers -> InProgress]
  BY DEF IInv, TypeOK
<1>2. UNCHANGED <<mono, boot, slept>> /\ UNCHANGED observed
  BY DEF QuietSteps, WorkerSamples, WorkerObserves, WorkerReadFails, WorkerEnds, Start, StartThread,
         Finish, Joined, JoinTimesOut, MainReadFails, Queried, MainReads, vars
<1>3. \/ UNCHANGED reading
      \/ \E p \in Readers, f \in {Starting, NotReading} : reading' = [reading EXCEPT ![p] = f]
  <2>1. "worker" \in Readers /\ "main" \in Readers
    BY DEF Readers
  <2>2. QED
    BY <2>1 DEF QuietSteps, WorkerSamples, WorkerObserves, WorkerReadFails, WorkerEnds, Start,
         StartThread, Finish, Joined, JoinTimesOut, MainReadFails, Queried, MainReads, vars
<1>4. QED  BY <1>1, <1>2, <1>3

LEMMA StepCases ==
  ASSUME [Next]_vars
  PROVE  \/ QuietSteps
         \/ (WorkerObserves /\ ~stop) \/ MainObserves \/ TakeBaseline
         \/ \E p \in Readers : ReadBefore(p) \/ ReadMonotonic(p) \/ ReadAfter(p)
         \/ Tick
         \/ \E length \in Lengths : Sleep(length)
  BY DEF Next, QuietSteps

LEMMA TimelineStep == IInv /\ Timeline /\ [Next]_vars => Timeline'
<1> SUFFICES ASSUME IInv, Timeline, [Next]_vars PROVE Timeline'
  OBVIOUS
<1>1. CASE QuietSteps
  BY <1>1, QuietFacts, TimelineStands DEF observed
<1>2. CASE (WorkerObserves /\ ~stop) \/ MainObserves \/ TakeBaseline
  <2>1. PICK p \in Readers :
                /\ reading[p].at = "taken" /\ reading[p].best \in Reading
                /\ \/ Observe(reading[p].best)
                   \/ latest = Nothing /\ latest' = reading[p].best
    BY <1>2, ObservingSteps
  <2>2. latest' \in {latest, reading[p].best} /\ reading[p].best # Nothing
    BY <2>1, ReadingFields DEF Observe
  <2>3. UNCHANGED <<mono, boot, slept>> /\ \A q \in Readers : reading'[q].at = "idle"
    BY <1>2, ObservingSteps
  <2>4. QED  BY <2>1, <2>2, <2>3, TimelineObserves
<1>3. CASE \E p \in Readers : ReadBefore(p) \/ ReadMonotonic(p) \/ ReadAfter(p)
  BY <1>3, TimelineOpens, TimelineMonotonic, TimelineCloses
<1>4. CASE Tick
  BY <1>4, TimelineTicks
<1>5. CASE \E length \in Lengths : Sleep(length)
  BY <1>5, TimelineSleeps
<1>6. QED  BY <1>1, <1>2, <1>3, <1>4, <1>5, StepCases

-----------------------------------------------------------------------------
(* What sharp readings count *)

LEMMA SharpCounts ==
  ASSUME Chronicle, NEW r \in Reading, Bracketed(r), SharpReading(r)
  PROVE  \E n \in 0..Len(slept) : Counts(n, r)
<1>1. ASSUME NEW i \in 1..Len(slept), Length(i) <= r.unc2 PROVE FALSE
  <2>1. Length(i) \in Lengths /\ Length(i) \in Nat
    BY SleepFacts
  <2>2. r # Nothing /\ r.unc2 \in Nat
    BY ReadingFields
  <2>3. r.unc2 < Length(i)
    BY <2>1, <2>2 DEF SharpReading
  <2>4. QED  BY <1>1, <2>1, <2>2, <2>3
<1>2. QED  BY <1>1 DEF Bracketed

LEMMA CountsOrdered ==
  ASSUME Chronicle, NEW a \in Reading, NEW b \in Reading, Closes2(a) <= Opens2(b),
         NEW n \in 0..Len(slept), NEW m \in 0..Len(slept), Counts(n, a), Counts(m, b)
  PROVE  n <= m
<1> SUFFICES ASSUME m < n PROVE FALSE
  BY LenProperties DEF Chronicle
<1>1. n \in 1..Len(slept) /\ n \in 1..n /\ n \in m + 1..Len(slept)
  BY LenProperties DEF Chronicle
<1>2. 2 * slept[n].to <= Opens2(a) /\ Closes2(b) <= 2 * slept[n].from
  BY <1>1 DEF Counts
<1>3. /\ slept[n].to = slept[n].from + Length(n) /\ slept[n].from \in Nat
      /\ Length(n) \in Nat /\ 1 <= Length(n)
  BY <1>1, SleepFacts
<1>4. /\ a.boot2 \in Nat /\ a.unc2 \in Nat /\ b.boot2 \in Nat /\ b.unc2 \in Nat
  BY ReadingFields
<1>5. QED  BY <1>2, <1>3, <1>4 DEF Opens2, Closes2

(* A sleep between two counts lies between the brackets.                   *)
LEMMA CountsUnique ==
  ASSUME Chronicle, NEW r \in Reading,
         NEW n \in 0..Len(slept), NEW m \in 0..Len(slept), Counts(n, r), Counts(m, r), n <= m
  PROVE  n = m
<1> SUFFICES ASSUME n < m PROVE FALSE
  BY LenProperties DEF Chronicle
<1>1. m \in 1..Len(slept) /\ m \in 1..m /\ m \in n + 1..Len(slept)
  BY LenProperties DEF Chronicle
<1>2. 2 * slept[m].to <= Opens2(r) /\ Closes2(r) <= 2 * slept[m].from
  BY <1>1 DEF Counts
<1>3. /\ slept[m].to = slept[m].from + Length(m) /\ slept[m].from \in Nat
      /\ Length(m) \in Nat /\ 1 <= Length(m)
  BY <1>1, SleepFacts
<1>4. PICK bm \in Nat, u \in Nat : bm = r.boot2 /\ u = r.unc2
  BY ReadingFields
<1>5. PICK f \in Nat, l \in Nat : f = slept[m].from /\ l = Length(m)
  BY <1>3
<1>6. 2 * (f + l) <= bm - u /\ bm + u <= 2 * f /\ 1 <= l
  BY <1>2, <1>3, <1>4, <1>5 DEF Opens2, Closes2
<1>7. QED  BY ONLY <1>6

LEMMA CountedBetween ==
  ASSUME Chronicle, NEW a \in Reading, NEW b \in Reading,
         NEW n \in 0..Len(slept), NEW m \in 0..Len(slept), Counts(n, a), Counts(m, b),
         NEW i \in n + 1..m
  PROVE  /\ i \in 1..Len(slept)
         /\ a.mono <= slept[i].at /\ slept[i].at <= b.mono
         /\ Closes2(a) <= 2 * slept[i].from /\ 2 * slept[i].to <= Opens2(b)
<1>0. Len(slept) \in Nat
  BY LenProperties DEF Chronicle
<1>1. i \in 1..Len(slept) /\ i \in n + 1..Len(slept) /\ i \in 1..m
  BY <1>0
<1>2. QED  BY <1>1 DEF Counts

-----------------------------------------------------------------------------
(* What observe does to the books *)

(* The reading is never discontinuous, and what it closes is a window.     *)
LEMMA ObserveCases ==
  ASSUME IInv, NEW p \in Readers, reading[p].at = "taken", latest # Nothing,
         NEW c, c = reading[p].best, Observe(c),
         NEW start, start = WindowStart(c), NEW found, found = Interval(start, c)
  PROVE  /\ c \in Reading /\ start \in Reading /\ latest \in Reading /\ accounted \in Reading
         /\ start.boot2 <= c.boot2 /\ start = WindowStart(latest)
         /\ intervals \in Seq([from4 : Nat, to4 : Nat, unc4 : Nat, lower : Nat, upper : Nat])
         /\ found \in [from4 : Nat, to4 : Nat, unc4 : Nat, lower : Nat, upper : Nat]
         /\ intervals' = IF Confirmed(c) /\ found.to4 > found.from4
                         THEN Append(intervals, found) ELSE intervals
         /\ accounted' = IF Confirmed(c) THEN c ELSE accounted
         /\ pendingStart' = IF Confirmed(c) \/ Change2(c) <= Uncertainty2(c)
                            THEN Nothing ELSE start
         /\ latest' = c /\ UNCHANGED <<initial, errors>>
<1> DEFINE Records == [from4 : Nat, to4 : Nat, unc4 : Nat, lower : Nat, upper : Nat]
<1>1. /\ c \in Reading /\ c # Nothing
      /\ latest.boot2 <= c.boot2 /\ latest.mono <= c.mono
      /\ Low2(accounted) <= High2(c)
  BY ProgressFields DEF IInv, TypeOK, Chronology, Follows, BestFollows
<1>2. /\ latest \in Reading /\ accounted \in Reading
      /\ pendingStart \in Reading \cup {Nothing} /\ intervals \in Seq(Records)
  BY DEF IInv, TypeOK
<1> HIDE DEF Records
<1>3. /\ Change2(c) \in Int /\ Uncertainty2(c) \in Nat
      /\ ~(Change2(c) < -Larger(Floor2, Uncertainty2(c)))
  <2>1. /\ accounted.boot2 \in Nat /\ accounted.mono \in Nat /\ accounted.unc2 \in Nat
        /\ Low2(accounted) = accounted.boot2 - 2 * accounted.mono - accounted.unc2
    BY <1>2, ReadingFields
  <2>2. /\ c.boot2 \in Nat /\ c.mono \in Nat /\ c.unc2 \in Nat
        /\ High2(c) = c.boot2 - 2 * c.mono + c.unc2
    BY <1>1, ReadingFields
  <2>3. /\ Change2(c) \in Int /\ Uncertainty2(c) \in Nat
        /\ -Uncertainty2(c) <= Change2(c)
    BY <1>1, <2>1, <2>2 DEF Change2, Uncertainty2, Offset2
  <2>4. QED  BY <2>3, ClockAssumption DEF Larger
<1>4. ~Discontinuous(c)
  <2>1. latest.boot2 \in Nat /\ latest.mono \in Nat /\ c.boot2 \in Nat /\ c.mono \in Nat
    BY <1>1, <1>2, ReadingFields
  <2>2. QED  BY <1>1, <1>3, <2>1 DEF Discontinuous
<1>5. start \in Reading /\ start.boot2 <= latest.boot2 /\ start = WindowStart(latest)
  <2>1. CASE pendingStart = Nothing
    BY <1>2, <2>1, ReadingFields DEF WindowStart
  <2>2. CASE pendingStart # Nothing
    BY <1>2, <2>2 DEF WindowStart, IInv, Reported
  <2>3. QED  BY <2>1, <2>2
<1>6. start.boot2 <= c.boot2
  <2>1. start.boot2 \in Nat /\ latest.boot2 \in Nat /\ c.boot2 \in Nat
    BY <1>1, <1>2, <1>5, ReadingFields
  <2>2. QED  BY <1>1, <1>5, <2>1
<1>7. found \in Records
  <2>1. found = LET window2 == c.boot2 - start.boot2
                    suspended2 == Smaller(Change2(c), window2)
                    awake2 == Larger(0, window2 - suspended2)
                IN  [from4 |-> 2 * start.boot2 + awake2,
                     to4 |-> Larger(2 * start.boot2 + awake2, 2 * c.boot2 - awake2),
                     unc4 |-> awake2 + 2 * Uncertainty2(c),
                     lower |-> start.mono, upper |-> c.mono]
    BY DEF Interval
  <2>2. QED  BY <1>1, <1>3, <1>5, <1>6, <2>1, WindowBounds DEF Records
<1>8. QED  BY <1>1, <1>2, <1>4, <1>5, <1>6, <1>7 DEF Observe, Records

(* The parts of a window: its width, and how the interval found in it lies *)
(* there.                                                                  *)
LEMMA WindowParts ==
  ASSUME NEW start \in Reading, NEW c \in Reading, accounted \in Reading,
         start.boot2 <= c.boot2, Confirmed(c), start.boot2 < c.boot2,
         NEW found, found = Interval(start, c)
  PROVE  LET window2 == c.boot2 - start.boot2
             change2 == Change2(c)
         IN  /\ found.lower = start.mono /\ found.upper = c.mono
             /\ change2 <= window2 =>
                    /\ found.from4 = 2 * start.boot2 + (window2 - change2)
                    /\ found.to4 = 2 * c.boot2 - (window2 - change2)
                    /\ found.unc4 = (window2 - change2) + 2 * Uncertainty2(c)
             /\ window2 < change2 =>
                    /\ found.from4 = 2 * start.boot2 /\ found.to4 = 2 * c.boot2
                    /\ found.unc4 = 2 * Uncertainty2(c)
             /\ found.from4 < found.to4
             /\ change2 \in Nat /\ Uncertainty2(c) \in Nat /\ Uncertainty2(c) < change2
<1> DEFINE window2 == c.boot2 - start.boot2
           change2 == Change2(c)
           awake2 == Larger(0, window2 - Smaller(change2, window2))
           from == 2 * start.boot2 + awake2
           to == Larger(from, 2 * c.boot2 - awake2)
<1>1. /\ start.boot2 \in Nat /\ c.boot2 \in Nat
  BY ReadingFields
<1>2. /\ change2 \in Nat /\ Uncertainty2(c) \in Nat /\ Uncertainty2(c) < change2 /\ 0 < change2
  <2>1. /\ accounted.boot2 \in Nat /\ accounted.mono \in Nat /\ accounted.unc2 \in Nat
        /\ c.boot2 \in Nat /\ c.mono \in Nat /\ c.unc2 \in Nat
    BY ReadingFields
  <2>2. change2 \in Int /\ Uncertainty2(c) \in Nat
    BY <2>1 DEF Change2, Uncertainty2, Offset2
  <2>3. change2 > Larger(Floor2, Uncertainty2(c))
    BY DEF Confirmed
  <2> HIDE DEF change2
  <2>4. QED  BY <2>2, <2>3, ClockAssumption DEF Larger
<1>3. /\ found.from4 = from /\ found.to4 = to /\ found.unc4 = awake2 + 2 * Uncertainty2(c)
      /\ found.lower = start.mono /\ found.upper = c.mono
  BY DEF Interval
<1>4. window2 \in Nat /\ 0 < window2
  BY <1>1
<1> HIDE DEF change2
<1>5. CASE change2 <= window2
  <2>1. awake2 = window2 - change2
    BY <1>2, <1>4, <1>5 DEF Larger, Smaller
  <2>2. 2 * c.boot2 - (window2 - change2) > 2 * start.boot2 + (window2 - change2)
    BY <1>1, <1>2
  <2>3. to = 2 * c.boot2 - (window2 - change2)
    BY <1>1, <1>2, <2>1, <2>2 DEF Larger
  <2>4. QED  BY <1>2, <1>3, <1>4, <1>5, <2>1, <2>2, <2>3 DEF change2
<1>6. CASE window2 < change2
  <2>1. awake2 = 0
    BY <1>2, <1>4, <1>6 DEF Larger, Smaller
  <2>2. to = 2 * c.boot2
    BY <1>1, <2>1 DEF Larger
  <2>3. QED  BY <1>1, <1>2, <1>3, <1>4, <1>6, <2>1, <2>2 DEF change2
<1>7. QED  BY <1>2, <1>4, <1>5, <1>6


LEMMA OffsetArithmetic ==
  ASSUME NEW x \in Int, NEW y \in Int, NEW t \in Int, NEW u \in Int, NEW p \in Int, NEW q \in Int,
         x - p <= 2 * t, 2 * t <= x + p, y - q <= 2 * u, 2 * u <= y + q
  PROVE  2 * (u - t) - (q + p) <= y - x /\ y - x <= 2 * (u - t) + (q + p)
  OBVIOUS

(* The change a reading shows, against the sleeps between the accounted    *)
(* reading and it.                                                         *)
LEMMA ChangeCounts ==
  ASSUME Chronicle, NEW a \in Reading, a = accounted, NEW c \in Reading,
         NEW n \in 0..Len(slept), NEW m \in 0..Len(slept), Counts(n, a), Counts(m, c)
  PROVE  /\ Change2(c) \in Int /\ Uncertainty2(c) = c.unc2 + a.unc2
         /\ Change2(c) = Offset2(c) - Offset2(a)
         /\ Offset2(c) \in Int /\ Offset2(a) \in Int
         /\ Offset2(a) - a.unc2 <= 2 * Total(n) /\ 2 * Total(n) <= Offset2(a) + a.unc2
         /\ 2 * (Total(m) - Total(n)) - Uncertainty2(c) <= Change2(c)
         /\ Change2(c) <= 2 * (Total(m) - Total(n)) + Uncertainty2(c)
<1>1. Total(m) \in Nat /\ Total(n) \in Nat
  BY TotalGrows
<1>2. /\ Offset2(a) \in Int /\ a.unc2 \in Nat /\ Offset2(c) \in Int /\ c.unc2 \in Nat
  <2>1. /\ a.boot2 \in Nat /\ a.mono \in Nat /\ a.unc2 \in Nat
        /\ c.boot2 \in Nat /\ c.mono \in Nat /\ c.unc2 \in Nat
    BY ReadingFields
  <2>2. QED  BY <2>1 DEF Offset2
<1>3. /\ Offset2(a) - a.unc2 <= 2 * Total(n) /\ 2 * Total(n) <= Offset2(a) + a.unc2
      /\ Offset2(c) - c.unc2 <= 2 * Total(m) /\ 2 * Total(m) <= Offset2(c) + c.unc2
  BY DEF Counts, Low2, High2
<1>4. Change2(c) = Offset2(c) - Offset2(a) /\ Uncertainty2(c) = c.unc2 + a.unc2
  BY DEF Change2, Uncertainty2
<1>5. /\ 2 * (Total(m) - Total(n)) - (c.unc2 + a.unc2) <= Offset2(c) - Offset2(a)
      /\ Offset2(c) - Offset2(a) <= 2 * (Total(m) - Total(n)) + (c.unc2 + a.unc2)
  <2>1. Total(m) \in Int /\ Total(n) \in Int /\ a.unc2 \in Int /\ c.unc2 \in Int
    BY <1>1, <1>2
  <2>2. QED  BY <1>2, <1>3, <2>1, OffsetArithmetic
<1>6. QED  BY <1>2, <1>3, <1>4, <1>5

(* A window that holds a single sleep tells where it was.                  *)
LEMMA FoundIsPlaced ==
  ASSUME Chronicle, NEW a \in Reading, a = accounted, NEW start \in Reading, NEW c \in Reading,
         start.boot2 < c.boot2, Confirmed(c),
         NEW n \in 0..Len(slept), NEW m \in 0..Len(slept),
         Counts(n, a), Counts(n, start), Counts(m, c), m = n + 1,
         NEW found, found = Interval(start, c)
  PROVE  /\ -found.unc4 <= 4 * slept[m].from - found.from4
         /\ 4 * slept[m].from - found.from4 <= found.unc4
         /\ -found.unc4 <= 4 * slept[m].to - found.to4
         /\ 4 * slept[m].to - found.to4 <= found.unc4
<1>1. m \in n + 1..m
  BY LenProperties DEF Chronicle
<1>2. /\ m \in 1..Len(slept) /\ Closes2(start) <= 2 * slept[m].from
      /\ 2 * slept[m].to <= Opens2(c)
  BY <1>1, CountedBetween
<1>3. /\ slept[m].to = slept[m].from + Length(m) /\ slept[m].from \in Nat
      /\ slept[m].to \in Nat /\ Length(m) \in Nat
      /\ Total(m) = Total(n) + Length(m) /\ Total(n) \in Int
  <2>1. m - 1 = n
    OBVIOUS
  <2>2. QED  BY <1>2, <2>1, SleepFacts
<1>4. /\ Change2(c) \in Int /\ Uncertainty2(c) = c.unc2 + a.unc2
      /\ 2 * Length(m) - Uncertainty2(c) <= Change2(c)
      /\ Change2(c) <= 2 * Length(m) + Uncertainty2(c)
  <2>1. Total(m) - Total(n) = Length(m)
    BY <1>3
  <2>2. QED  BY <2>1, ChangeCounts
<1>5. /\ start.boot2 \in Nat /\ start.unc2 \in Nat /\ c.boot2 \in Nat /\ c.unc2 \in Nat
      /\ a.unc2 \in Nat
  BY ReadingFields
<1> DEFINE window2 == c.boot2 - start.boot2
           change2 == Change2(c)
           U == Uncertainty2(c)
<1>6. /\ change2 <= window2 =>
             /\ found.from4 = 2 * start.boot2 + (window2 - change2)
             /\ found.to4 = 2 * c.boot2 - (window2 - change2)
             /\ found.unc4 = (window2 - change2) + 2 * U
      /\ window2 < change2 =>
             /\ found.from4 = 2 * start.boot2 /\ found.to4 = 2 * c.boot2
             /\ found.unc4 = 2 * U
  BY <1>5, WindowParts
<1>7. start.boot2 + start.unc2 <= 2 * slept[m].from /\ 2 * slept[m].to <= c.boot2 - c.unc2
  BY <1>2 DEF Opens2, Closes2
<1>8. change2 \in Int /\ U \in Int /\ window2 \in Int
  BY <1>4, <1>5
<1>9. /\ change2 <= window2 =>
             /\ -((window2 - change2) + 2 * U) <= 4 * slept[m].from - (2 * start.boot2 + (window2 - change2))
             /\ 4 * slept[m].from - (2 * start.boot2 + (window2 - change2)) <= (window2 - change2) + 2 * U
             /\ -((window2 - change2) + 2 * U) <= 4 * slept[m].to - (2 * c.boot2 - (window2 - change2))
             /\ 4 * slept[m].to - (2 * c.boot2 - (window2 - change2)) <= (window2 - change2) + 2 * U
      /\ window2 < change2 =>
             /\ -(2 * U) <= 4 * slept[m].from - 2 * start.boot2
             /\ 4 * slept[m].from - 2 * start.boot2 <= 2 * U
             /\ -(2 * U) <= 4 * slept[m].to - 2 * c.boot2
             /\ 4 * slept[m].to - 2 * c.boot2 <= 2 * U
  <2>1. PICK from \in Int, to \in Int, L \in Int :
             from = slept[m].from /\ to = slept[m].to /\ L = Length(m)
    BY <1>3
  <2>2. PICK S \in Int, C \in Int : S = start.boot2 /\ C = c.boot2
    BY <1>5
  <2>3. PICK su \in Nat, cu \in Nat, au \in Nat : su = start.unc2 /\ cu = c.unc2 /\ au = a.unc2
    BY <1>5
  <2>4. PICK w \in Int, ch \in Int, V \in Int : w = window2 /\ ch = change2 /\ V = U
    BY <1>8
  <2>5. /\ w = C - S /\ V = cu + au /\ to = from + L /\ S + su <= 2 * from /\ 2 * to <= C - cu
        /\ 2 * L - V <= ch /\ ch <= 2 * L + V
    BY <1>3, <1>4, <1>7, <2>1, <2>2, <2>3, <2>4
  <2>6. /\ ch <= w => /\ -((w - ch) + 2 * V) <= 4 * from - (2 * S + (w - ch))
                      /\ 4 * from - (2 * S + (w - ch)) <= (w - ch) + 2 * V
                      /\ -((w - ch) + 2 * V) <= 4 * to - (2 * C - (w - ch))
                      /\ 4 * to - (2 * C - (w - ch)) <= (w - ch) + 2 * V
        /\ w < ch => /\ -(2 * V) <= 4 * from - 2 * S /\ 4 * from - 2 * S <= 2 * V
                     /\ -(2 * V) <= 4 * to - 2 * C /\ 4 * to - 2 * C <= 2 * V
    BY ONLY <2>5
  <2>7. QED  BY <2>1, <2>2, <2>4, <2>6
<1> HIDE DEF window2, change2, U
<1>10. change2 <= window2 \/ window2 < change2
  BY <1>8
<1>11. QED  BY <1>6, <1>9, <1>10

(* What an interval adds up to is the change, less what it admits.         *)
LEMMA FoundIsChange ==
  ASSUME Chronicle, NEW a \in Reading, a = accounted, NEW start \in Reading, NEW c \in Reading,
         start.boot2 < c.boot2, Confirmed(c),
         NEW n \in 0..Len(slept), NEW m \in 0..Len(slept),
         Counts(n, a), Counts(n, start), Counts(m, c), n < m,
         NEW found, found = Interval(start, c)
  PROVE  /\ found.to4 - found.from4 <= 2 * Change2(c)
         /\ 2 * Change2(c) <= (found.to4 - found.from4) + found.unc4
<1>0. Len(slept) \in Nat
  BY LenProperties DEF Chronicle
<1> DEFINE i == n + 1
<1>1. i \in n + 1..m /\ i \in 1..Len(slept) /\ i - 1 = n
  BY <1>0
<1>2. slept[i].at <= c.mono /\ Closes2(start) <= 2 * slept[i].from
  BY <1>1, CountedBetween
<1>3. /\ slept[i].at \in Nat /\ slept[i].from \in Nat
      /\ slept[i].from = slept[i].at + Total(n) /\ Total(n) \in Int
  <2>1. slept[i].from = slept[i].at + Total(i - 1)
    BY <1>1 DEF Chronicle
  <2>2. QED  BY <1>1, <2>1, SleepFacts
<1>4. /\ Change2(c) = Offset2(c) - Offset2(a) /\ Uncertainty2(c) = c.unc2 + a.unc2
      /\ Offset2(a) - a.unc2 <= 2 * Total(n) /\ 2 * Total(n) <= Offset2(a) + a.unc2
  BY ChangeCounts
<1>5. /\ start.boot2 \in Nat /\ start.unc2 \in Nat /\ c.boot2 \in Nat /\ c.unc2 \in Nat
      /\ a.unc2 \in Nat /\ c.mono \in Nat /\ Offset2(a) \in Int
  BY ReadingFields, ChangeCounts
<1> DEFINE window2 == c.boot2 - start.boot2
           change2 == Change2(c)
           x == Offset2(a)
           t == Total(n)
<1>6. start.boot2 + start.unc2 <= 2 * slept[i].from
  BY <1>2 DEF Closes2
<1>7. change2 = c.boot2 - 2 * c.mono - x /\ window2 \in Int
  BY <1>4, <1>5 DEF Offset2
<1> HIDE DEF i
<1>8. /\ change2 <= window2 =>
             /\ found.from4 = 2 * start.boot2 + (window2 - change2)
             /\ found.to4 = 2 * c.boot2 - (window2 - change2)
             /\ found.unc4 = (window2 - change2) + 2 * Uncertainty2(c)
      /\ window2 < change2 =>
             /\ found.from4 = 2 * start.boot2 /\ found.to4 = 2 * c.boot2
             /\ found.unc4 = 2 * Uncertainty2(c)
      /\ change2 \in Nat /\ Uncertainty2(c) \in Nat
  <2>1. start.boot2 <= c.boot2
    BY <1>5
  <2>2. QED  BY <2>1, WindowParts
<1>9. /\ change2 <= window2 =>
             (2 * c.boot2 - (window2 - change2)) - (2 * start.boot2 + (window2 - change2)) = 2 * change2
      /\ window2 < change2 =>
             /\ 2 * c.boot2 - 2 * start.boot2 <= 2 * change2
             /\ 2 * change2 <= (2 * c.boot2 - 2 * start.boot2) + 2 * (c.unc2 + a.unc2)
  <2>1. PICK from \in Int, at \in Int : from = slept[i].from /\ at = slept[i].at
    BY <1>3
  <2>2. PICK S \in Int, C \in Int, cm \in Int : S = start.boot2 /\ C = c.boot2 /\ cm = c.mono
    BY <1>5
  <2>3. PICK su \in Nat, cu \in Nat, au \in Nat : su = start.unc2 /\ cu = c.unc2 /\ au = a.unc2
    BY <1>5
  <2>4. PICK w \in Int, ch \in Int : w = window2 /\ ch = change2
    BY <1>7, <1>8
  <2>5. PICK y \in Int, u \in Int : y = x /\ u = t
    BY <1>3, <1>5
  <2>6. /\ ch = C - 2 * cm - y /\ w = C - S /\ S + su <= 2 * from /\ at <= cm /\ from = at + u
        /\ 2 * u <= y + au
    <3> HIDE DEF change2
    <3>1. ch = C - 2 * cm - y
      BY <1>7, <2>2, <2>4, <2>5
    <3>2. w = C - S /\ S + su <= 2 * from /\ at <= cm
      BY <1>2, <1>6, <2>1, <2>2, <2>3, <2>4
    <3>3. from = at + u /\ 2 * u <= y + au
      BY <1>3, <1>4, <2>1, <2>3, <2>5
    <3>4. QED  BY <3>1, <3>2, <3>3
  <2>7. /\ ch <= w => (2 * C - (w - ch)) - (2 * S + (w - ch)) = 2 * ch
        /\ w < ch => /\ 2 * C - 2 * S <= 2 * ch
                     /\ 2 * ch <= (2 * C - 2 * S) + 2 * (cu + au)
    BY ONLY <2>6
  <2>8. QED  BY <2>2, <2>3, <2>4, <2>7
<1> HIDE DEF change2, window2
<1>10. window2 \in Int /\ change2 \in Int
  BY <1>7, <1>8
<1>11. CASE change2 <= window2
  <2>1. found.to4 - found.from4 = 2 * change2 /\ found.unc4 = (window2 - change2) + 2 * Uncertainty2(c)
    BY <1>8, <1>9, <1>11
  <2>2. 0 <= found.unc4 /\ found.unc4 \in Int
    BY <1>8, <1>10, <1>11, <2>1
  <2>3. QED  BY <1>10, <2>1, <2>2 DEF change2
<1>12. CASE window2 < change2
  <2>1. /\ found.to4 - found.from4 = 2 * c.boot2 - 2 * start.boot2
        /\ found.unc4 = 2 * (c.unc2 + a.unc2)
    BY <1>4, <1>8, <1>12
  <2>2. QED  BY <1>9, <1>12, <2>1 DEF change2
<1>13. QED  BY <1>10, <1>11, <1>12

-----------------------------------------------------------------------------
(* What intervals add up to.  MapThenSumSet is a recursive function; a sum *)
(* over s is the number of its units, the pairs <<x, k>> with x in s and k *)
(* in 1..f[x].  The inductions over s are by a smallest counterexample.    *)
Units(f, s) == {u \in s \X Nat : 1 <= u[2] /\ u[2] <= f[u[1]]}

(* Among subsets of a finite set one contains no other.                    *)
LEMMA MinimalSubset ==
    ASSUME NEW S, IsFiniteSet(S), NEW F, F \subseteq SUBSET S, F # {}
    PROVE  \E X \in F : \A Y \in F : Y \subseteq X => Y = X
<1>1. F \subseteq FiniteSubsetsOf(S)
    BY FS_FiniteSubsetsOfFinite
<1>2. IsWellFoundedOn(StrictSubsetOrdering(S), FiniteSubsetsOf(S))
    BY FS_StrictSubsetOrderingWellFounded
<1>3. PICK X \in F : \A Y \in F : ~ (<<Y, X>> \in StrictSubsetOrdering(S))
    BY <1>1, <1>2, WFMin
<1>4. \A Y \in F : Y \subseteq X => Y = X
    BY <1>3 DEF StrictSubsetOrdering
<1>5. QED  BY <1>4

(* A single x has f[x] units, ...                                          *)
LEMMA UnitsOfOne ==
    ASSUME NEW x, NEW n \in Nat
    PROVE  /\ IsFiniteSet({u \in {x} \X Nat : 1 <= u[2] /\ u[2] <= n})
           /\ Cardinality({u \in {x} \X Nat : 1 <= u[2] /\ u[2] <= n}) = n
<1> DEFINE U == {u \in {x} \X Nat : 1 <= u[2] /\ u[2] <= n}
<1>1. IsFiniteSet(1 .. n) /\ Cardinality(1 .. n) = n
    BY FS_Interval
<1>2. IsFiniteSet({x}) /\ Cardinality({x}) = 1
    BY FS_Singleton
<1>3. IsFiniteSet({x} \X (1 .. n)) /\ Cardinality({x} \X (1 .. n)) = 1 * n
    BY <1>1, <1>2, FS_Product
<1>4. U = {x} \X (1 .. n)
    OBVIOUS
<1>5. IsFiniteSet(U) /\ Cardinality(U) = n
    <2> HIDE DEF U
    <2>1. QED  BY <1>3, <1>4
<1>6. QED  BY <1>5

(* ... taking an element away takes its units away, ...                    *)
LEMMA UnitsWithout ==
    ASSUME NEW s, NEW x \in s, NEW f, f[x] \in Nat,
           IsFiniteSet(Units(f, s \ {x}))
    PROVE  /\ IsFiniteSet(Units(f, s))
           /\ Cardinality(Units(f, s)) = f[x] + Cardinality(Units(f, s \ {x}))
<1> DEFINE U == {u \in {x} \X Nat : 1 <= u[2] /\ u[2] <= f[x]}
           R == Units(f, s \ {x})
<1>1. IsFiniteSet(U) /\ Cardinality(U) = f[x]
    BY UnitsOfOne
<1>2. Units(f, s) = U \cup R /\ U \cap R = {}
    BY DEF Units
<1>3. IsFiniteSet(R)
    OBVIOUS
<1> HIDE DEF U, R
<1>4. Cardinality(R) \in Nat
    BY <1>3, FS_CardinalityType
<1>5. /\ IsFiniteSet(U \cup R)
      /\ Cardinality(U \cup R) = Cardinality(U) + Cardinality(R) - Cardinality(U \cap R)
    BY <1>1, <1>3, FS_Union
<1>6. IsFiniteSet(U \cup R) /\ Cardinality(U \cup R) = f[x] + Cardinality(R)
    <2>1. Cardinality(U \cap R) = 0
        BY <1>2, FS_EmptySet
    <2>2. QED  BY <1>1, <1>4, <1>5, <2>1
<1>7. QED  BY <1>2, <1>6 DEF R

(* ... and the units of a finite set are finitely many.                    *)
LEMMA UnitsCount ==
    ASSUME NEW D, IsFiniteSet(D), NEW f, \A x \in D : f[x] \in Nat, NEW s \in SUBSET D
    PROVE  IsFiniteSet(Units(f, s)) /\ Cardinality(Units(f, s)) \in Nat
<1> DEFINE Bad == {t \in SUBSET D : ~ IsFiniteSet(Units(f, t))}
<1>1. CASE Bad # {}
    <2>1. PICK t \in Bad : \A u \in Bad : u \subseteq t => u = t
        <3>1. Bad \subseteq SUBSET D
            OBVIOUS
        <3> HIDE DEF Bad
        <3>2. QED  BY <1>1, <3>1, MinimalSubset
    <2>2. CASE t = {}
        <3>1. Units(f, t) = {}
            BY <2>2 DEF Units
        <3>2. QED  BY <3>1, FS_EmptySet
    <2>3. CASE t # {}
        <3>1. PICK x \in t : TRUE
            BY <2>3
        <3>2. t \ {x} \notin Bad /\ t \ {x} \in SUBSET D
            BY <2>1, <3>1
        <3>3. IsFiniteSet(Units(f, t \ {x})) /\ f[x] \in Nat
            BY <3>2
        <3>4. IsFiniteSet(Units(f, t))
            BY <3>3, UnitsWithout
        <3>5. QED  BY <3>4
    <2>4. QED  BY <2>2, <2>3
<1>2. CASE Bad = {}
    BY <1>2, FS_CardinalityType
<1>3. QED  BY <1>1, <1>2

(* The recursion of MapThenSumSet.                                         *)
IsFold(f, D, iter) ==
  iter = [s \in SUBSET D |-> IF s = {} THEN 0
                             ELSE f[CHOOSE x \in s : TRUE] + iter[s \ {CHOOSE x \in s : TRUE}]]

(* The recursive sum counts the units, ...                                 *)
LEMMA FoldCounts ==
    ASSUME NEW D, IsFiniteSet(D), NEW f, \A x \in D : f[x] \in Nat,
           NEW iter, IsFold(f, D, iter), NEW s \in SUBSET D
    PROVE  iter[s] = Cardinality(Units(f, s))
<1> DEFINE Bad == {t \in SUBSET D : iter[t] # Cardinality(Units(f, t))}
<1>1. CASE Bad # {}
    <2>1. PICK t \in Bad : \A u \in Bad : u \subseteq t => u = t
        <3>1. Bad \subseteq SUBSET D
            OBVIOUS
        <3> HIDE DEF Bad
        <3>2. QED  BY <1>1, <3>1, MinimalSubset
    <2>2. CASE t = {}
        <3>1. Units(f, t) = {} /\ iter[t] = 0
            BY <2>2 DEF Units, IsFold
        <3>2. QED  BY <3>1, FS_EmptySet
    <2>3. CASE t # {}
        <3> DEFINE x == CHOOSE y \in t : TRUE
        <3>1. x \in t /\ iter[t] = f[x] + iter[t \ {x}]
            BY <2>3 DEF IsFold
        <3> HIDE DEF x
        <3>2. t \ {x} \notin Bad /\ t \ {x} \in SUBSET D
            BY <2>1, <3>1
        <3>3. IsFiniteSet(Units(f, t \ {x})) /\ f[x] \in Nat
            BY <3>1, <3>2, UnitsCount
        <3>4. Cardinality(Units(f, t)) = f[x] + Cardinality(Units(f, t \ {x}))
            BY <3>1, <3>3, UnitsWithout
        <3>5. QED  BY <3>1, <3>2, <3>4
    <2>4. QED  BY <2>2, <2>3
<1>2. CASE Bad = {}
    BY <1>2
<1>3. QED  BY <1>1, <1>2

(* ... and a function with that recursion exists.                          *)
LEMMA FoldExists ==
    ASSUME NEW D, IsFiniteSet(D), NEW f, \A x \in D : f[x] \in Nat
    PROVE  \E iter : IsFold(f, D, iter)
<1> DEFINE g == [s \in SUBSET D |-> Cardinality(Units(f, s))]
<1>1. ASSUME NEW s \in SUBSET D
      PROVE  g[s] = IF s = {} THEN 0
                    ELSE f[CHOOSE x \in s : TRUE] + g[s \ {CHOOSE x \in s : TRUE}]
    <2>1. CASE s = {}
        <3>1. Units(f, s) = {}
            BY <2>1 DEF Units
        <3>2. QED  BY <3>1, <2>1, FS_EmptySet
    <2>2. CASE s # {}
        <3> DEFINE x == CHOOSE y \in s : TRUE
        <3>1. x \in s
            BY <2>2
        <3> HIDE DEF x
        <3>2. IsFiniteSet(Units(f, s \ {x})) /\ f[x] \in Nat
            BY <3>1, UnitsCount
        <3>3. Cardinality(Units(f, s)) = f[x] + Cardinality(Units(f, s \ {x}))
            BY <3>1, <3>2, UnitsWithout
        <3>4. g[s] = f[x] + g[s \ {x}]
            BY <3>3
        <3>5. QED  BY <3>4, <2>2 DEF x
    <2>3. QED  BY <2>1, <2>2
<1>2. IsFold(f, D, g)
    BY <1>1 DEF IsFold
<1>3. QED  BY <1>2

(* A sum over one number more.                                             *)
LEMMA UnitsOfNext ==
  ASSUME NEW n \in Nat, NEW f, NEW g, \A k \in 1..n + 1 : g[k] \in Nat,
         \A k \in 1..n : f[k] = g[k]
  PROVE  /\ Cardinality(Units(f, 1..n)) \in Nat
         /\ Cardinality(Units(g, 1..n + 1)) = g[n + 1] + Cardinality(Units(f, 1..n))
<1>1. n + 1 \in 1..n + 1 /\ (1..n + 1) \ {n + 1} = 1..n /\ 1..n \subseteq 1..n + 1
  OBVIOUS
<1>2. IsFiniteSet(1..n) /\ \A k \in 1..n : g[k] \in Nat
  BY <1>1, FS_Interval
<1>3. IsFiniteSet(Units(g, 1..n)) /\ Cardinality(Units(g, 1..n)) \in Nat
  BY <1>2, UnitsCount
<1>4. Units(f, 1..n) = Units(g, 1..n)
  BY DEF Units
<1>5. Cardinality(Units(g, 1..n + 1)) = g[n + 1] + Cardinality(Units(g, 1..n))
  <2>1. PICK D : D = 1..n + 1
    OBVIOUS
  <2>2. n + 1 \in D /\ D \ {n + 1} = 1..n /\ g[n + 1] \in Nat
    BY <1>1, <2>1
  <2>3. Cardinality(Units(g, D)) = g[n + 1] + Cardinality(Units(g, D \ {n + 1}))
    BY <1>3, <2>2, UnitsWithout
  <2>4. QED  BY <2>1, <2>2, <2>3
<1>6. QED  BY <1>3, <1>4, <1>5

IntervalRecords == [from4 : Nat, to4 : Nat, unc4 : Nat, lower : Nat, upper : Nat]
Long4(s) == [k \in DOMAIN s |-> s[k].to4 - s[k].from4]
Unsure4(s) == [k \in DOMAIN s |-> s[k].unc4]

LEMMA FoundCount ==
  ASSUME NEW s \in Seq(IntervalRecords), \A k \in DOMAIN s : s[k].from4 <= s[k].to4
  PROVE  Found4(s) = Cardinality(Units(Long4(s), DOMAIN s))
<1> DEFINE D == DOMAIN s
           f == Long4(s)
           P(iter) == iter = [t \in SUBSET D |-> IF t = {} THEN 0
                 ELSE (s[CHOOSE x \in t : TRUE].to4 - s[CHOOSE x \in t : TRUE].from4)
                      + iter[t \ {CHOOSE x \in t : TRUE}]]
<1>1. D = 1..Len(s) /\ Len(s) \in Nat
  BY LenProperties
<1>2. IsFiniteSet(D)
  BY <1>1, FS_Interval
<1>3. \A x \in D : f[x] \in Nat
  <2>1. ASSUME NEW x \in D PROVE s[x].to4 \in Nat /\ s[x].from4 \in Nat
    <3>1. s[x] \in IntervalRecords
      BY <1>1, ElementOfSeq
    <3>2. QED  BY <3>1 DEF IntervalRecords
  <2>2. QED  BY <2>1 DEF Long4
<1>4. ASSUME NEW iter PROVE P(iter) <=> IsFold(f, D, iter)
  <2>1. \A t \in SUBSET D : t # {} =>
            f[CHOOSE x \in t : TRUE] = s[CHOOSE x \in t : TRUE].to4 - s[CHOOSE x \in t : TRUE].from4
    BY DEF Long4
  <2>2. QED  BY <2>1 DEF IsFold
<1>5. P(CHOOSE iter : P(iter))
  <2>1. \E iter : P(iter)
    <3> HIDE DEF P, f, D
    <3>1. QED  BY <1>2, <1>3, <1>4, FoldExists
  <2> HIDE DEF P
  <2>2. QED  BY <2>1
<1>6. Found4(s) = (CHOOSE iter : P(iter))[D]
  BY DEF Found4, MapThenSumSet, MapThenFoldSet
<1> DEFINE c == CHOOSE iter : P(iter)
<1>7. QED
  <2>1. P(c)
    BY <1>5
  <2> HIDE DEF P, f, D, c
  <2>2. c[D] = Cardinality(Units(f, D))
    BY <2>1, <1>2, <1>3, <1>4, FoldCounts
  <2>3. QED  BY <2>2, <1>6 DEF c, f, D

LEMMA AdmittedCount ==
  ASSUME NEW s \in Seq(IntervalRecords)
  PROVE  Admitted4(s) = Cardinality(Units(Unsure4(s), DOMAIN s))
<1> DEFINE D == DOMAIN s
           f == Unsure4(s)
           P(iter) == iter = [t \in SUBSET D |-> IF t = {} THEN 0
                 ELSE s[CHOOSE x \in t : TRUE].unc4 + iter[t \ {CHOOSE x \in t : TRUE}]]
<1>1. D = 1..Len(s) /\ Len(s) \in Nat
  BY LenProperties
<1>2. IsFiniteSet(D)
  BY <1>1, FS_Interval
<1>3. \A x \in D : f[x] \in Nat
  <2>1. ASSUME NEW x \in D PROVE s[x].unc4 \in Nat
    <3>1. s[x] \in IntervalRecords
      BY <1>1, ElementOfSeq
    <3>2. QED  BY <3>1 DEF IntervalRecords
  <2>2. QED  BY <2>1 DEF Unsure4
<1>4. ASSUME NEW iter PROVE P(iter) <=> IsFold(f, D, iter)
  <2>1. \A t \in SUBSET D : t # {} => f[CHOOSE x \in t : TRUE] = s[CHOOSE x \in t : TRUE].unc4
    BY DEF Unsure4
  <2>2. QED  BY <2>1 DEF IsFold
<1>5. P(CHOOSE iter : P(iter))
  <2>1. \E iter : P(iter)
    <3> HIDE DEF P, f, D
    <3>1. QED  BY <1>2, <1>3, <1>4, FoldExists
  <2> HIDE DEF P
  <2>2. QED  BY <2>1
<1>6. Admitted4(s) = (CHOOSE iter : P(iter))[D]
  BY DEF Admitted4, MapThenSumSet, MapThenFoldSet
<1> DEFINE c == CHOOSE iter : P(iter)
<1>7. QED
  <2>1. P(c)
    BY <1>5
  <2> HIDE DEF P, f, D, c
  <2>2. c[D] = Cardinality(Units(f, D))
    BY <2>1, <1>2, <1>3, <1>4, FoldCounts
  <2>3. QED  BY <2>2, <1>6 DEF c, f, D

(* An interval more.                                                       *)
LEMMA SumsOfNone == Found4(<<>>) = 0 /\ Admitted4(<<>>) = 0
<1>1. <<>> \in Seq(IntervalRecords) /\ DOMAIN <<>> = {}
  BY EmptySeq
<1>2. Units(Long4(<<>>), DOMAIN <<>>) = {} /\ Units(Unsure4(<<>>), DOMAIN <<>>) = {}
  BY <1>1 DEF Units
<1>3. Found4(<<>>) = Cardinality(Units(Long4(<<>>), DOMAIN <<>>))
  BY <1>1, FoundCount
<1>4. Admitted4(<<>>) = Cardinality(Units(Unsure4(<<>>), DOMAIN <<>>))
  BY <1>1, AdmittedCount
<1>5. QED  BY <1>2, <1>3, <1>4, FS_EmptySet

LEMMA SumsOfNext ==
  ASSUME NEW s \in Seq(IntervalRecords), \A k \in DOMAIN s : s[k].from4 <= s[k].to4,
         NEW found \in IntervalRecords, found.from4 <= found.to4
  PROVE  /\ Found4(s) \in Nat /\ Admitted4(s) \in Nat
         /\ Found4(Append(s, found)) = (found.to4 - found.from4) + Found4(s)
         /\ Admitted4(Append(s, found)) = found.unc4 + Admitted4(s)
<1>1. PICK u, n : u = Append(s, found) /\ n = Len(s)
  OBVIOUS
<1>2. /\ u \in Seq(IntervalRecords) /\ n \in Nat /\ Len(u) = n + 1
      /\ \A k \in 1..n : u[k] = s[k]
      /\ u[n + 1] = found /\ DOMAIN s = 1..n /\ DOMAIN u = 1..n + 1
  BY <1>1, AppendProperties, LenProperties
<1>3. \A k \in DOMAIN u : /\ u[k] \in IntervalRecords /\ u[k].from4 <= u[k].to4
                          /\ u[k].from4 \in Nat /\ u[k].to4 \in Nat /\ u[k].unc4 \in Nat
  <2>1. \A k \in DOMAIN u : u[k] \in IntervalRecords
    BY <1>2, ElementOfSeq
  <2>2. \A k \in DOMAIN u : u[k].from4 <= u[k].to4
    <3>1. \A k \in 1..n + 1 : k \in 1..n \/ k = n + 1
      BY <1>2
    <3>2. QED  BY <1>2, <3>1
  <2>3. QED  BY <2>1, <2>2 DEF IntervalRecords
<1>4. /\ Found4(s) = Cardinality(Units(Long4(s), 1..n))
      /\ Found4(u) = Cardinality(Units(Long4(u), 1..n + 1))
  BY <1>2, <1>3, FoundCount
<1>5. /\ Admitted4(s) = Cardinality(Units(Unsure4(s), 1..n))
      /\ Admitted4(u) = Cardinality(Units(Unsure4(u), 1..n + 1))
  BY <1>2, AdmittedCount
<1>6. /\ \A k \in 1..n + 1 : Long4(u)[k] \in Nat /\ Unsure4(u)[k] \in Nat
      /\ \A k \in 1..n : Long4(s)[k] = Long4(u)[k] /\ Unsure4(s)[k] = Unsure4(u)[k]
      /\ Long4(u)[n + 1] = found.to4 - found.from4 /\ Unsure4(u)[n + 1] = found.unc4
  BY <1>2, <1>3 DEF Long4, Unsure4
<1>7. /\ Found4(s) \in Nat /\ Found4(u) = (found.to4 - found.from4) + Found4(s)
  <2>1. PICK f, g : f = Long4(s) /\ g = Long4(u)
    OBVIOUS
  <2>2. (\A k \in 1..n + 1 : g[k] \in Nat) /\ (\A k \in 1..n : f[k] = g[k])
    BY <1>6, <2>1
  <2>3. /\ Cardinality(Units(f, 1..n)) \in Nat
        /\ Cardinality(Units(g, 1..n + 1)) = g[n + 1] + Cardinality(Units(f, 1..n))
    BY <1>2, <2>2, UnitsOfNext
  <2>4. QED  BY <1>4, <1>6, <2>1, <2>3
<1>8. /\ Admitted4(s) \in Nat /\ Admitted4(u) = found.unc4 + Admitted4(s)
  <2>1. PICK f, g : f = Unsure4(s) /\ g = Unsure4(u)
    OBVIOUS
  <2>2. (\A k \in 1..n + 1 : g[k] \in Nat) /\ (\A k \in 1..n : f[k] = g[k])
    BY <1>6, <2>1
  <2>3. /\ Cardinality(Units(f, 1..n)) \in Nat
        /\ Cardinality(Units(g, 1..n + 1)) = g[n + 1] + Cardinality(Units(f, 1..n))
    BY <1>2, <2>2, UnitsOfNext
  <2>4. QED  BY <1>5, <1>6, <2>1, <2>3
<1>9. QED  BY <1>1, <1>7, <1>8

-----------------------------------------------------------------------------
(* The books through the steps *)

LEMMA BooksTypes ==
  ASSUME IInv, latest # Nothing, Accounts
  PROVE  /\ initial \in Reading /\ latest \in Reading /\ accounted \in Reading
         /\ WindowStart(latest) \in Reading
         /\ intervals \in Seq(IntervalRecords)
         /\ \A k \in DOMAIN intervals : intervals[k].from4 <= intervals[k].to4
<1>1. /\ initial \in Reading /\ latest \in Reading /\ accounted \in Reading
      /\ WindowStart(latest) \in Reading /\ intervals \in Seq(IntervalRecords)
  BY DEF IInv, TypeOK, Accounts, WindowStart, IntervalRecords
<1>2. ASSUME NEW k \in DOMAIN intervals PROVE intervals[k].from4 <= intervals[k].to4
  <2>1. intervals[k] \in IntervalRecords
    BY <1>1, ElementOfSeq, LenProperties
  <2>2. intervals[k].from4 \in Nat /\ intervals[k].to4 \in Nat
    BY <2>1 DEF IntervalRecords
  <2>3. intervals[k].from4 < intervals[k].to4
    BY DEF IInv, Reported, Ordered
  <2>4. QED  BY <2>2, <2>3
<1>3. QED  BY <1>1, <1>2

LEMMA StillClosed ==
  ASSUME mono \in Nat, boot \in Nat, mono' \in Nat, boot' \in Nat, mono <= mono', boot <= boot',
         NEW r \in Reading, Closed(r)
  PROVE  Closes2(r) <= 2 * boot' /\ r.mono <= mono'
<1>1. Closes2(r) \in Int /\ r.mono \in Nat /\ r # Nothing
  BY ReadingFields DEF Closes2
<1>2. Closes2(r) <= 2 * boot /\ r.mono <= mono
  BY <1>1 DEF Closed
<1>3. QED  BY <1>1, <1>2

(* No sleep begins and no reading is observed.                             *)
LEMMA BooksStand ==
  ASSUME IInv, Books, mono' \in Nat, boot' \in Nat, mono <= mono', boot <= boot',
         UNCHANGED <<slept, initial, latest, accounted, pendingStart, intervals>>
  PROVE  Books'
<1>1. Occupied' /\ Placed'
  BY DEF Books, Occupied, Placed, Inside
<1>2. Summed'
  BY DEF Books, Summed, Offset2
<1>3. Accounts'
  <2> SUFFICES ASSUME latest # Nothing PROVE Accounts'
    BY DEF Accounts
  <2>1. /\ initial \in Reading /\ latest \in Reading /\ accounted \in Reading
        /\ WindowStart(latest) \in Reading /\ mono \in Nat /\ boot \in Nat
    BY BooksTypes DEF Books, IInv, TypeOK
  <2>2. PICK i \in Reading, a \in Reading, s \in Reading :
            i = initial /\ a = accounted /\ s = WindowStart(latest)
    BY <2>1
  <2>3. Closed(i) /\ Closed(a) /\ Closed(s)
    BY <2>2 DEF Books, Accounts
  <2>4. /\ Closes2(i) <= 2 * boot' /\ i.mono <= mono'
        /\ Closes2(a) <= 2 * boot' /\ a.mono <= mono'
        /\ Closes2(s) <= 2 * boot' /\ s.mono <= mono'
    BY <2>1, <2>3, StillClosed
  <2>5. Closed(initial)' /\ Closed(accounted)' /\ Closed(WindowStart(latest))'
    BY <2>2, <2>4 DEF Closed, Closes2, WindowStart
  <2>6. PICK n0, n1, n2 \in 0..Len(slept) : Tally(n0, n1, n2)
    BY DEF Books, Accounts
  <2>7. Tally(n0, n1, n2)'
    BY <2>6 DEF Tally, Counts, Inside, WindowStart, Low2, High2, Offset2, Opens2, Closes2, Total
  <2>8. initial' # Nothing /\ (Change2(latest) <= Floor(latest))'
    BY DEF Books, Accounts, Change2, Floor, Uncertainty2, Offset2
  <2>9. QED  BY <2>5, <2>6, <2>7, <2>8 DEF Accounts
<1>4. QED  BY <1>1, <1>2, <1>3 DEF Books

(* A new sleep is behind every reading and in no interval that holds none. *)
LEMMA BooksSleep ==
  ASSUME IInv, Timeline, Books, NEW length \in Lengths, Sleep(length)
  PROVE  Books'
<1> USE DEF threads, observed
<1>1. /\ mono \in Nat /\ boot \in Nat /\ Chronicle
      /\ UNCHANGED <<initial, latest, accounted, pendingStart, intervals>>
  BY DEF Sleep, IInv, TypeOK, Timeline
<1>2. PICK N \in Nat : N = Len(slept)
  BY <1>1, LenProperties DEF Chronicle
<1>3. /\ Len(slept') = N + 1 /\ DOMAIN slept = 1..N /\ DOMAIN slept' = 1..N + 1
      /\ \A i \in 1..N : slept'[i] = slept[i]
      /\ 1..N \subseteq 1..N + 1
  <2>1. /\ slept' \in Seq([from : Nat, to : Nat, at : Nat]) /\ Len(slept') = N + 1
        /\ \A i \in 1..N : slept'[i] = slept[i]
    BY <1>1, <1>2, SleepAdds
  <2>2. slept \in Seq([from : Nat, to : Nat, at : Nat])
    BY <1>1 DEF Chronicle
  <2>3. DOMAIN slept = 1..N /\ DOMAIN slept' = 1..N + 1
    BY <1>2, <2>1, <2>2, LenProperties
  <2>4. QED  BY <2>1, <2>3
<1>4. Occupied'
  BY <1>1, <1>3 DEF Books, Occupied, Inside
<1>5. Placed'
  <2> SUFFICES ASSUME NEW k \in DOMAIN intervals, NEW i \in 1..N + 1,
                      {j \in 1..N + 1 : Inside(j, k)'} = {i}
               PROVE  /\ 4 * slept'[i].from - intervals[k].from4
                            \in -intervals[k].unc4..intervals[k].unc4
                      /\ 4 * slept'[i].to - intervals[k].to4
                            \in -intervals[k].unc4..intervals[k].unc4
    BY <1>1, <1>3 DEF Placed, Inside
  <2>1. \A j \in 1..N : Inside(j, k)' <=> Inside(j, k)
    BY <1>1, <1>3 DEF Inside
  <2>2. PICK j \in 1..N : Inside(j, k)
    BY <1>3 DEF Books, Occupied
  <2>3. i = j
    BY <1>3, <2>1, <2>2
  <2>4. {l \in DOMAIN slept : Inside(l, k)} = {i}
    BY <1>3, <2>1, <2>2, <2>3
  <2>5. /\ 4 * slept[i].from - intervals[k].from4 \in -intervals[k].unc4..intervals[k].unc4
        /\ 4 * slept[i].to - intervals[k].to4 \in -intervals[k].unc4..intervals[k].unc4
    BY <1>3, <2>2, <2>3, <2>4 DEF Books, Placed
  <2>6. slept'[i] = slept[i]
    BY <1>3, <2>2, <2>3
  <2>7. QED  BY <2>5, <2>6
<1>6. Summed'
  BY <1>1 DEF Books, Summed, Offset2
<1>7. Accounts'
  <2> SUFFICES ASSUME latest # Nothing PROVE Accounts'
    BY <1>1 DEF Accounts
  <2>1. /\ initial \in Reading /\ latest \in Reading /\ accounted \in Reading
        /\ WindowStart(latest) \in Reading
    BY BooksTypes DEF Books
  <2>2. PICK i \in Reading, a \in Reading, s \in Reading, l \in Reading :
            i = initial /\ a = accounted /\ s = WindowStart(latest) /\ l = latest
    BY <2>1
  <2>3. Closed(i) /\ Closed(a) /\ Closed(s) /\ Closed(l)
    BY <2>2 DEF Books, Accounts, Timeline
  <2>4. PICK n0, n1, n2 \in 0..N : Tally(n0, n1, n2)
    BY <1>2 DEF Books, Accounts
  <2>5. /\ Closed(i)' /\ Closed(a)' /\ Closed(s)'
        /\ Counts(n0, i)' /\ Counts(n1, a)' /\ Counts(n2, l)' /\ Counts(n1, s)'
    BY <1>1, <1>2, <2>2, <2>3, <2>4, CountStands DEF Tally
  <2>6. Closed(initial)' /\ Closed(accounted)' /\ Closed(WindowStart(latest))'
    BY <1>1, <2>2, <2>5 DEF Closed, Closes2, WindowStart
  <2>7. /\ Counts(n0, initial)' /\ Counts(n1, accounted)' /\ Counts(n2, latest)'
        /\ Counts(n1, WindowStart(latest))'
    BY <1>1, <2>2, <2>5
       DEF Counts, WindowStart, Low2, High2, Offset2, Opens2, Closes2, Total
  <2>8. ASSUME NEW x \in n0 + 1..n1 PROVE \E k \in DOMAIN intervals : Inside(x, k)'
    <3>1. x \in 1..N
      BY <1>2
    <3>2. PICK k \in DOMAIN intervals : Inside(x, k)
      BY <2>4 DEF Tally
    <3>3. QED  BY <1>1, <1>3, <3>1, <3>2 DEF Inside
  <2>9. Tally(n0, n1, n2)'
    BY <1>1, <2>4, <2>7, <2>8 DEF Tally, Inside
  <2>10. initial' # Nothing /\ (Change2(latest) <= Floor(latest))'
    BY <1>1 DEF Books, Accounts, Change2, Floor, Uncertainty2, Offset2
  <2>11. n0 \in 0..Len(slept') /\ n1 \in 0..Len(slept') /\ n2 \in 0..Len(slept')
    BY <1>3
  <2>12. QED  BY <2>6, <2>9, <2>10, <2>11 DEF Accounts
<1>8. QED  BY <1>4, <1>5, <1>6, <1>7 DEF Books


(* The first reading.                                                      *)
LEMMA BooksOpen ==
  ASSUME IInv, Timeline, NEW c \in Reading, Bracketed(c), Closed(c), SharpReading(c),
         UNCHANGED <<mono, boot, slept>>, latest = Nothing,
         initial' = c, latest' = c, accounted' = c, UNCHANGED <<pendingStart, intervals>>
  PROVE  Books'
<1>1. intervals' = <<>> /\ pendingStart' = Nothing /\ c # Nothing
  BY ReadingFields DEF IInv, Reported
<1>2. DOMAIN intervals' = {}
  BY <1>1
<1>3. Occupied' /\ Placed'
  BY <1>2 DEF Occupied, Placed
<1>4. /\ c.unc2 \in Nat /\ Offset2(c) \in Int
  <2>1. c.boot2 \in Nat /\ c.mono \in Nat /\ c.unc2 \in Nat
    BY ReadingFields
  <2>2. QED  BY <2>1 DEF Offset2
<1>5. Summed'
  <2>1. Found4(intervals') = 0 /\ Admitted4(intervals') = 0
    BY <1>1, SumsOfNone
  <2>2. Offset2(c) - Offset2(c) = 0
    BY <1>4
  <2>3. QED  BY <2>1, <2>2 DEF Summed, Offset2
<1>6. Accounts'
  <2>1. PICK n \in 0..Len(slept) : Counts(n, c)
    BY SharpCounts DEF Timeline
  <2>2. WindowStart(latest)' = c
    BY <1>1 DEF WindowStart
  <2>3. Tally(n, n, n)'
    <3>1. n <= n /\ n + 1..n = {}
      BY <2>1
    <3>2. Counts(n, c)'
      BY <2>1 DEF Counts, Low2, High2, Offset2, Opens2, Closes2, Total
    <3>3. /\ Counts(n, initial)' /\ Counts(n, accounted)' /\ Counts(n, latest)'
          /\ Counts(n, WindowStart(latest))'
      BY <2>2, <3>2 DEF Counts, Low2, High2, Offset2, Opens2, Closes2, Total
    <3>4. QED  BY <3>1, <3>3 DEF Tally
  <2>4. (Change2(latest) <= Floor(latest))'
    <3>1. Change2(latest)' = 0
      BY <1>4 DEF Change2, Offset2
    <3>2. 0 <= Floor(latest)'
      BY <1>4, ClockAssumption DEF Floor, Larger, Uncertainty2
    <3>3. QED  BY <3>1, <3>2
  <2>5. Closed(initial)' /\ Closed(accounted)' /\ Closed(WindowStart(latest))'
    BY <2>2 DEF Closed, Closes2
  <2>6. QED  BY <1>1, <2>1, <2>3, <2>4, <2>5 DEF Accounts
<1>7. QED  BY <1>3, <1>5, <1>6 DEF Books

(* A change that may be jitter, or has to wait.                            *)
LEMMA BooksWait ==
  ASSUME Chronicle, Books, latest # Nothing,
         NEW c \in Reading, NEW a \in Reading, NEW s \in Reading, NEW i \in Reading,
         a = accounted, s = WindowStart(latest), i = initial,
         NEW n0 \in 0..Len(slept), NEW n1 \in 0..Len(slept), NEW n2 \in 0..Len(slept),
         NEW m \in 0..Len(slept),
         Tally(n0, n1, n2), Counts(m, c), n1 <= m, SharpChange(c), Closed(c),
         UNCHANGED <<mono, boot, slept, initial, accounted, intervals>>, latest' = c,
         ~Confirmed(c),
         pendingStart' = IF Change2(c) <= Uncertainty2(c) THEN Nothing ELSE s
  PROVE  Books'
<1>1. Occupied' /\ Placed'
  BY DEF Books, Occupied, Placed, Inside
<1>2. Summed'
  BY DEF Books, Summed, Offset2
<1>3. Counts(n0, i) /\ Counts(n1, a) /\ Counts(n1, s) /\ Closed(i) /\ Closed(a) /\ Closed(s)
  BY DEF Tally, Books, Accounts
<1>4. c # Nothing /\ s # Nothing
  BY ReadingFields
<1>5. ASSUME Change2(c) <= Uncertainty2(c) PROVE n1 = m
  <2> SUFFICES ASSUME n1 # m PROVE FALSE
    OBVIOUS
  <2>1. m \in 1..Len(slept) /\ m \in n1 + 1..m
    OBVIOUS
  <2>2. Length(m) \in Lengths /\ Length(m) \in Nat
    BY <2>1, SleepFacts
  <2>3. Total(n1) + Length(m) <= Total(m) /\ Total(n1) \in Nat /\ Total(m) \in Nat
    BY <2>1, TotalGrows
  <2>4. c # a
    BY <1>3, CountsUnique
  <2>5. c.unc2 \in Nat /\ a.unc2 \in Nat
    BY ReadingFields
  <2>6. /\ Uncertainty2(c) = c.unc2 + a.unc2 /\ Change2(c) \in Int
        /\ 2 * (Total(m) - Total(n1)) - Uncertainty2(c) <= Change2(c)
    BY <1>3, ChangeCounts
  <2>7. Uncertainty2(c) < Length(m)
    BY <2>2, <2>4 DEF SharpChange
  <2>8. 2 * (Total(m) - Total(n1)) <= 2 * (c.unc2 + a.unc2)
    BY ONLY <1>5, <2>3, <2>5, <2>6
  <2>9. QED  BY ONLY <2>2, <2>3, <2>5, <2>6, <2>7, <2>8
<1>6. PICK w \in Reading : w = WindowStart(latest)' /\ w \in {c, s} /\ Counts(n1, w)
  <2>1. CASE Change2(c) <= Uncertainty2(c)
    BY <1>5, <2>1 DEF WindowStart
  <2>2. CASE ~(Change2(c) <= Uncertainty2(c))
    BY <1>3, <1>4, <2>2 DEF WindowStart
  <2>3. QED  BY <2>1, <2>2
<1>7. Tally(n0, n1, m)'
  <2>1. /\ Counts(n0, i)' /\ Counts(n1, a)' /\ Counts(m, c)' /\ Counts(n1, w)'
    BY <1>3, <1>6 DEF Counts, Low2, High2, Offset2, Opens2, Closes2, Total
  <2>2. /\ Counts(n0, initial)' /\ Counts(n1, accounted)' /\ Counts(m, latest)'
        /\ Counts(n1, WindowStart(latest))'
    BY <1>6, <2>1 DEF Counts, Low2, High2, Offset2, Opens2, Closes2, Total
  <2>3. n0 <= n1 /\ \A x \in n0 + 1..n1 : \E k \in DOMAIN intervals : Inside(x, k)
    BY DEF Tally
  <2>4. QED  BY <2>2, <2>3 DEF Tally, Inside
<1>8. Closed(initial)' /\ Closed(accounted)' /\ Closed(WindowStart(latest))'
  BY <1>3, <1>6 DEF Closed, Closes2
<1>9. (Change2(latest) <= Floor(latest))'
  <2>1. Change2(c) \in Int /\ Uncertainty2(c) = c.unc2 + a.unc2
    BY <1>3, ChangeCounts
  <2>2. c.unc2 \in Nat /\ a.unc2 \in Nat
    BY ReadingFields
  <2>3. Change2(c) <= Floor(c)
    BY <2>1, <2>2, ClockAssumption DEF Confirmed, Floor, Larger
  <2>4. Change2(latest)' = Change2(c) /\ Floor(latest)' = Floor(c)
    BY DEF Change2, Floor, Uncertainty2, Offset2
  <2>5. QED  BY <2>3, <2>4
<1>10. Accounts'
  <2>1. initial' # Nothing
    BY DEF Books, Accounts
  <2>2. m \in 0..Len(slept') /\ n0 \in 0..Len(slept') /\ n1 \in 0..Len(slept')
    OBVIOUS
  <2>3. QED  BY <1>7, <1>8, <1>9, <2>1, <2>2 DEF Accounts
<1>11. QED  BY <1>1, <1>2, <1>10 DEF Books


(* A confirmed change becomes an interval, around the sleeps it counts.    *)
LEMMA BooksConfirmed ==
  ASSUME IInv, Chronicle, Books, latest # Nothing,
         NEW c \in Reading, NEW a \in Reading, NEW s \in Reading, NEW i \in Reading,
         a = accounted, s = WindowStart(latest), i = initial,
         NEW n0 \in 0..Len(slept), NEW n1 \in 0..Len(slept), NEW n2 \in 0..Len(slept),
         NEW m \in 0..Len(slept),
         Tally(n0, n1, n2), Counts(m, c), n1 <= m, Closed(c),
         UNCHANGED <<mono, boot, slept, initial>>, latest' = c, accounted' = c,
         pendingStart' = Nothing, Confirmed(c),
         NEW found \in IntervalRecords, found = Interval(s, c),
         intervals' = IF found.to4 > found.from4 THEN Append(intervals, found) ELSE intervals
  PROVE  Books'
<1>1. Counts(n0, i) /\ Counts(n1, a) /\ Counts(n1, s) /\ Closed(i)
  BY DEF Tally, Books, Accounts
<1>2. c # Nothing /\ Len(slept) \in Nat /\ DOMAIN slept = 1..Len(slept)
  BY ReadingFields, LenProperties DEF Chronicle
<1>3. /\ c.boot2 \in Nat /\ s.boot2 \in Nat /\ c.unc2 \in Nat /\ s.unc2 \in Nat /\ a.unc2 \in Nat
  BY ReadingFields
<1>4. n1 < m
  <2>1. /\ Uncertainty2(c) = c.unc2 + a.unc2 /\ Change2(c) \in Int
        /\ Change2(c) <= 2 * (Total(m) - Total(n1)) + Uncertainty2(c)
    BY <1>1, ChangeCounts
  <2>2. Uncertainty2(c) < Change2(c)
    BY <1>3, <2>1, ClockAssumption DEF Confirmed, Larger
  <2>3. Total(m) # Total(n1)
    <3>1. Total(n1) \in Nat /\ Total(m) \in Nat
      BY TotalGrows
    <3>2. QED  BY ONLY <1>3, <2>1, <2>2, <3>1
  <2>4. QED  BY <2>3
<1>5. ASSUME NEW x \in n1 + 1..m
      PROVE  /\ x \in 1..Len(slept) /\ s.mono <= slept[x].at /\ slept[x].at <= c.mono
             /\ Closes2(s) <= 2 * slept[x].from /\ 2 * slept[x].to <= Opens2(c)
  BY <1>1, CountedBetween
<1>6. s.boot2 < c.boot2
  <2>1. m \in n1 + 1..m
    BY <1>4
  <2>2. /\ m \in 1..Len(slept) /\ Closes2(s) <= 2 * slept[m].from /\ 2 * slept[m].to <= Opens2(c)
    BY <1>5, <2>1
  <2>3. /\ slept[m].to = slept[m].from + Length(m) /\ slept[m].from \in Nat
        /\ Length(m) \in Nat /\ 1 <= Length(m)
    BY <2>2, SleepFacts
  <2>4. s.boot2 + s.unc2 <= 2 * slept[m].from /\ 2 * slept[m].to <= c.boot2 - c.unc2
    BY <2>2 DEF Opens2, Closes2
  <2>5. PICK sb \in Nat, su \in Nat, cb \in Nat, cu \in Nat :
             sb = s.boot2 /\ su = s.unc2 /\ cb = c.boot2 /\ cu = c.unc2
    BY <1>3
  <2>6. PICK f \in Nat, l \in Nat, t \in Nat :
             f = slept[m].from /\ l = Length(m) /\ t = slept[m].to
    BY <2>2, SleepFacts
  <2>7. t = f + l /\ 1 <= l /\ sb + su <= 2 * f /\ 2 * t <= cb - cu
    BY <2>3, <2>4, <2>5, <2>6
  <2>8. sb < cb
    BY ONLY <2>7
  <2>9. QED  BY <2>5, <2>8
<1>7. /\ found.lower = s.mono /\ found.upper = c.mono /\ found.from4 < found.to4
      /\ found.from4 \in Nat /\ found.to4 \in Nat /\ found.unc4 \in Nat
  <2>1. s.boot2 <= c.boot2
    BY <1>3, <1>6
  <2>2. QED  BY <1>6, <2>1, WindowParts DEF IntervalRecords
<1>8. intervals' = Append(intervals, found)
  BY <1>7
<1>9. /\ intervals \in Seq(IntervalRecords)
      /\ \A k \in DOMAIN intervals : intervals[k].from4 <= intervals[k].to4
  BY BooksTypes DEF Books
<1>10. PICK K \in Nat : K = Len(intervals)
  BY <1>9, LenProperties
<1>11. /\ DOMAIN intervals = 1..K /\ DOMAIN intervals' = 1..K + 1
       /\ intervals'[K + 1] = found /\ \A k \in 1..K : intervals'[k] = intervals[k]
  <2>1. /\ intervals' \in Seq(IntervalRecords) /\ Len(intervals') = K + 1
        /\ intervals'[K + 1] = found /\ \A k \in 1..K : intervals'[k] = intervals[k]
    BY <1>8, <1>9, <1>10, AppendProperties
  <2>2. QED  BY <1>9, <1>10, <2>1, LenProperties
<1>12. /\ \A k \in 1..K : \A x \in 1..Len(slept) : Inside(x, k)' <=> Inside(x, k)
       /\ \A x \in n1 + 1..m : Inside(x, K + 1)'
  <2>1. \A k \in 1..K : \A x \in 1..Len(slept) : Inside(x, k)' <=> Inside(x, k)
    BY <1>11 DEF Inside
  <2>2. \A x \in n1 + 1..m : Inside(x, K + 1)'
    BY <1>5, <1>7, <1>11 DEF Inside
  <2>3. QED  BY <2>1, <2>2
<1>13. m \in n1 + 1..m /\ n1 + 1 \in n1 + 1..m
  BY <1>4
<1>14. Occupied'
  <2>1. ASSUME NEW k \in 1..K + 1 PROVE \E x \in DOMAIN slept : Inside(x, k)'
    <3>1. CASE k = K + 1
      BY <1>2, <1>5, <1>12, <1>13, <3>1
    <3>2. CASE k # K + 1
      <4>1. k \in 1..K
        BY <3>2
      <4>2. PICK x \in DOMAIN slept : Inside(x, k)
        BY <1>11, <4>1 DEF Books, Occupied
      <4>3. QED  BY <1>2, <1>12, <4>1, <4>2
    <3>3. QED  BY <3>1, <3>2
  <2>2. QED  BY <1>11, <2>1 DEF Occupied, Inside
<1>15. Placed'
  <2>1. ASSUME NEW k \in 1..K + 1, NEW x \in 1..Len(slept),
               {j \in 1..Len(slept) : Inside(j, k)'} = {x}
        PROVE  /\ 4 * slept[x].from - intervals'[k].from4
                      \in -intervals'[k].unc4..intervals'[k].unc4
               /\ 4 * slept[x].to - intervals'[k].to4
                      \in -intervals'[k].unc4..intervals'[k].unc4
    <3>1. CASE k = K + 1
      <4>1. n1 + 1 = x /\ m = x
        BY <1>5, <1>12, <1>13, <2>1, <3>1
      <4>2. m = n1 + 1
        BY <4>1
      <4>3. /\ -found.unc4 <= 4 * slept[m].from - found.from4
            /\ 4 * slept[m].from - found.from4 <= found.unc4
            /\ -found.unc4 <= 4 * slept[m].to - found.to4
            /\ 4 * slept[m].to - found.to4 <= found.unc4
        BY <1>1, <1>6, <4>2, FoundIsPlaced
      <4>4. slept[m].from \in Nat /\ slept[m].to \in Nat
        BY <1>5, <1>13, SleepFacts
      <4>5. /\ 4 * slept[m].from - found.from4 \in -found.unc4..found.unc4
            /\ 4 * slept[m].to - found.to4 \in -found.unc4..found.unc4
        <5>1. PICK u \in Nat, f \in Nat, g \in Nat :
                   u = found.unc4 /\ f = found.from4 /\ g = found.to4
          BY <1>7
        <5>2. PICK a0 \in Nat, b0 \in Nat : a0 = slept[m].from /\ b0 = slept[m].to
          BY <4>4
        <5>3. -u <= 4 * a0 - f /\ 4 * a0 - f <= u /\ -u <= 4 * b0 - g /\ 4 * b0 - g <= u
          BY <4>3, <5>1, <5>2
        <5>4. 4 * a0 - f \in -u..u /\ 4 * b0 - g \in -u..u
          BY ONLY <5>3
        <5>5. QED  BY <5>1, <5>2, <5>4
      <4>6. QED  BY <1>11, <3>1, <4>1, <4>5
    <3>2. CASE k # K + 1
      <4>1. k \in 1..K
        BY <3>2
      <4>2. {j \in DOMAIN slept : Inside(j, k)} = {x}
        BY <1>2, <1>12, <2>1, <4>1
      <4>3. /\ 4 * slept[x].from - intervals[k].from4 \in -intervals[k].unc4..intervals[k].unc4
            /\ 4 * slept[x].to - intervals[k].to4 \in -intervals[k].unc4..intervals[k].unc4
        BY <1>2, <1>11, <4>1, <4>2 DEF Books, Placed
      <4>4. QED  BY <1>11, <4>1, <4>3
    <3>3. QED  BY <3>1, <3>2
  <2>2. ASSUME NEW k \in DOMAIN intervals', NEW x \in DOMAIN slept',
               {j \in DOMAIN slept' : Inside(j, k)'} = {x}
        PROVE  /\ 4 * slept'[x].from - intervals'[k].from4
                      \in -intervals'[k].unc4..intervals'[k].unc4
               /\ 4 * slept'[x].to - intervals'[k].to4
                      \in -intervals'[k].unc4..intervals'[k].unc4
    <3>1. k \in 1..K + 1 /\ x \in 1..Len(slept) /\ DOMAIN slept' = 1..Len(slept)
      BY <1>2, <1>11, <2>2
    <3>2. {j \in 1..Len(slept) : Inside(j, k)'} = {x}
      BY <2>2, <3>1
    <3>3. QED  BY <2>1, <3>1, <3>2
  <2>3. QED  BY <2>2 DEF Placed, Inside
<1>16. Summed'
  <2>1. /\ Found4(intervals) \in Nat /\ Admitted4(intervals) \in Nat
        /\ Found4(intervals') = (found.to4 - found.from4) + Found4(intervals)
        /\ Admitted4(intervals') = found.unc4 + Admitted4(intervals)
    <3>1. PICK seq : seq = intervals
      OBVIOUS
    <3>2. found.from4 <= found.to4
      BY <1>7
    <3>3. /\ Found4(seq) \in Nat /\ Admitted4(seq) \in Nat
          /\ Found4(Append(seq, found)) = (found.to4 - found.from4) + Found4(seq)
          /\ Admitted4(Append(seq, found)) = found.unc4 + Admitted4(seq)
      BY <1>9, <3>1, <3>2, SumsOfNext
    <3>4. QED  BY <1>8, <3>1, <3>3
  <2>2. /\ found.to4 - found.from4 <= 2 * Change2(c)
        /\ 2 * Change2(c) <= (found.to4 - found.from4) + found.unc4
    BY <1>1, <1>4, <1>6, FoundIsChange
  <2>3. /\ Change2(c) = Offset2(c) - Offset2(a) /\ Offset2(c) \in Int /\ Offset2(a) \in Int
    BY <1>1, ChangeCounts
  <2>4. /\ Found4(intervals) <= 2 * (Offset2(a) - Offset2(i))
        /\ 2 * (Offset2(a) - Offset2(i)) <= Found4(intervals) + Admitted4(intervals)
    BY DEF Books, Summed
  <2>5. Offset2(i) \in Int
    <3>1. i.boot2 \in Nat /\ i.mono \in Nat
      BY ReadingFields
    <3>2. QED  BY <3>1 DEF Offset2
  <2>6. PICK x \in Int, y \in Int, z \in Int : x = Offset2(i) /\ y = Offset2(a) /\ z = Offset2(c)
    BY <2>3, <2>5
  <2>7. PICK f \in Int, u \in Int, g \in Int, v \in Int :
             /\ f = Found4(intervals) /\ u = Admitted4(intervals)
             /\ g = found.to4 - found.from4 /\ v = found.unc4
    BY <1>7, <2>1
  <2>8. /\ g <= 2 * (z - y) /\ 2 * (z - y) <= g + v
        /\ f <= 2 * (y - x) /\ 2 * (y - x) <= f + u
    BY <2>2, <2>3, <2>4, <2>6, <2>7
  <2>9. /\ g + f <= 2 * (z - x) /\ 2 * (z - x) <= (g + f) + (v + u)
    BY ONLY <2>8
  <2>10. /\ Found4(intervals') <= 2 * (Offset2(c) - Offset2(i))
         /\ 2 * (Offset2(c) - Offset2(i)) <= Found4(intervals') + Admitted4(intervals')
    BY <2>1, <2>6, <2>7, <2>9
  <2>11. QED  BY <2>10 DEF Summed, Offset2
<1>17. Accounts'
  <2>1. WindowStart(latest)' = c
    BY DEF WindowStart
  <2>2. Counts(n0, i)' /\ Counts(m, c)'
    BY <1>1 DEF Counts, Low2, High2, Offset2, Opens2, Closes2, Total
  <2>3. /\ Counts(n0, initial)' /\ Counts(m, accounted)' /\ Counts(m, latest)'
        /\ Counts(m, WindowStart(latest))'
    BY <2>1, <2>2 DEF Counts, Low2, High2, Offset2, Opens2, Closes2, Total
  <2>4. ASSUME NEW x \in n0 + 1..m PROVE \E k \in 1..K + 1 : Inside(x, k)'
    <3>1. CASE x \in n0 + 1..n1
      <4>1. PICK k \in 1..K : Inside(x, k)
        BY <1>11, <3>1 DEF Tally
      <4>2. x \in 1..Len(slept) /\ k \in 1..K + 1
        BY <1>2
      <4>3. QED  BY <1>12, <4>1, <4>2
    <3>2. CASE x \in n1 + 1..m
      <4>1. K + 1 \in 1..K + 1
        OBVIOUS
      <4>2. QED  BY <1>12, <3>2, <4>1
    <3>3. QED
      <4>1. x \in n0 + 1..n1 \/ x \in n1 + 1..m
        OBVIOUS
      <4>2. QED  BY <3>1, <3>2, <4>1
  <2>5. Tally(n0, m, m)'
    <3>1. n0 <= m /\ m <= m
      BY <1>4 DEF Tally
    <3>2. QED  BY <1>11, <2>3, <2>4, <3>1 DEF Tally, Inside
  <2>6. Closed(initial)' /\ Closed(accounted)' /\ Closed(WindowStart(latest))'
    BY <1>1, <2>1 DEF Closed, Closes2
  <2>7. (Change2(latest) <= Floor(latest))'
    <3>1. Offset2(c) - Offset2(c) = 0
      <4>1. c.boot2 \in Nat /\ c.mono \in Nat
        BY ReadingFields
      <4>2. QED  BY <4>1 DEF Offset2
    <3>2. Change2(latest)' = 0
      BY <3>1 DEF Change2, Offset2
    <3>3. 0 <= Floor(latest)'
      BY <1>3, ClockAssumption DEF Floor, Larger, Uncertainty2
    <3>4. QED  BY <3>2, <3>3
  <2>8. initial' # Nothing
    BY DEF Books, Accounts
  <2>9. m \in 0..Len(slept') /\ n0 \in 0..Len(slept')
    OBVIOUS
  <2>10. QED  BY <2>5, <2>6, <2>7, <2>8, <2>9 DEF Accounts
<1>18. QED  BY <1>14, <1>15, <1>16, <1>17 DEF Books

LEMMA BooksStep == IInv /\ Timeline /\ Books /\ Sharp' /\ [Next]_vars => Books'
<1> SUFFICES ASSUME IInv, Timeline, Books, Sharp', [Next]_vars PROVE Books'
  OBVIOUS
<1>1. mono \in Nat /\ boot \in Nat
  BY DEF IInv, TypeOK
<1>2. CASE QuietSteps
  BY <1>1, <1>2, QuietFacts, BooksStand DEF observed
<1>3. CASE \E p \in Readers : ReadBefore(p) \/ ReadMonotonic(p) \/ ReadAfter(p)
  <2>1. UNCHANGED <<mono, boot, slept, initial, latest, accounted, pendingStart, intervals>>
    BY <1>3 DEF ReadBefore, ReadMonotonic, ReadAfter, clocks, observed
  <2>2. QED  BY <1>1, <2>1, BooksStand
<1>4. CASE Tick
  <2>1. /\ mono' = mono + 1 /\ boot' = boot + 1
        /\ UNCHANGED <<slept, initial, latest, accounted, pendingStart, intervals>>
    BY <1>4 DEF Tick, observed
  <2>2. mono' \in Nat /\ boot' \in Nat /\ mono <= mono' /\ boot <= boot'
    BY <1>1, <2>1
  <2>3. QED  BY <2>1, <2>2, BooksStand
<1>5. CASE \E length \in Lengths : Sleep(length)
  BY <1>5, BooksSleep
<1>6. CASE (WorkerObserves /\ ~stop) \/ MainObserves \/ TakeBaseline
  <2>1. PICK p \in Readers, c \in Reading :
             /\ c = reading[p].best /\ reading[p].at = "taken"
             /\ \/ Observe(c)
                \/ /\ latest = Nothing /\ latest' = c /\ initial' = c /\ accounted' = c
                   /\ UNCHANGED <<pendingStart, intervals, errors>>
    BY <1>6, ObservingSteps
  <2>2. UNCHANGED <<mono, boot, slept>>
    BY <1>6, ObservingSteps
  <2>3. c # Nothing
    BY ReadingFields
  <2>4. /\ Bracketed(c) /\ Closed(c)
        /\ latest # Nothing => Closes2(latest) <= Opens2(c)
    BY <2>1, <2>3 DEF Timeline, Brackets
  <2>5. latest' = c
    <3>1. CASE latest = Nothing
      BY <2>1, <3>1 DEF Observe
    <3>2. CASE latest # Nothing
      BY <2>1, <3>2, ObserveCases
    <3>3. QED  BY <3>1, <3>2
  <2>6. SharpReading(c)
    BY <2>5 DEF Sharp, SharpReading
  <2>7. CASE latest = Nothing
    <3>1. /\ initial' = c /\ latest' = c /\ accounted' = c /\ UNCHANGED <<pendingStart, intervals>>
      BY <2>1, <2>7 DEF Observe
    <3>2. QED  BY <2>2, <2>4, <2>6, <2>7, <3>1, BooksOpen
  <2>8. CASE latest # Nothing
    <3>1. Observe(c)
      BY <2>1, <2>8
    <3>2. PICK s, found : s = WindowStart(c) /\ found = Interval(s, c)
      OBVIOUS
    <3>3. /\ s \in Reading /\ latest \in Reading /\ accounted \in Reading
          /\ s = WindowStart(latest) /\ found \in IntervalRecords
          /\ intervals' = IF Confirmed(c) /\ found.to4 > found.from4
                          THEN Append(intervals, found) ELSE intervals
          /\ accounted' = IF Confirmed(c) THEN c ELSE accounted
          /\ pendingStart' = IF Confirmed(c) \/ Change2(c) <= Uncertainty2(c)
                             THEN Nothing ELSE s
          /\ latest' = c /\ UNCHANGED initial
      BY <2>1, <2>8, <3>1, <3>2, ObserveCases DEF IntervalRecords
    <3>4. initial \in Reading
      BY <2>8, BooksTypes DEF Books
    <3>5. PICK a \in Reading, i \in Reading, l \in Reading :
               a = accounted /\ i = initial /\ l = latest
      BY <3>3, <3>4
    <3>6. PICK n0, n1, n2 \in 0..Len(slept) : Tally(n0, n1, n2)
      BY <2>8 DEF Books, Accounts
    <3>7. Chronicle
      BY DEF Timeline
    <3>8. PICK m \in 0..Len(slept) : Counts(m, c)
      BY <2>4, <2>6, <3>7, SharpCounts
    <3>9. n1 <= m
      <4>1. Counts(n2, l) /\ n1 <= n2
        BY <3>5, <3>6 DEF Tally
      <4>2. Closes2(l) <= Opens2(c)
        BY <2>4, <2>8, <3>5
      <4>3. n2 <= m
        BY <3>7, <3>8, <4>1, <4>2, CountsOrdered
      <4>4. QED  BY <4>1, <4>3
    <3>10. CASE Confirmed(c)
      BY <2>2, <2>4, <2>8, <3>2, <3>3, <3>5, <3>6, <3>7, <3>8, <3>9, <3>10, BooksConfirmed
    <3>11. CASE ~Confirmed(c)
      <4>1. SharpChange(c)
        BY <2>3, <2>5, <3>3, <3>11 DEF Sharp, SharpChange, Uncertainty2
      <4>2. QED
        BY <2>2, <2>4, <2>8, <3>3, <3>5, <3>6, <3>7, <3>8, <3>9, <3>11, <4>1, BooksWait
    <3>12. QED  BY <3>10, <3>11
  <2>9. QED  BY <2>7, <2>8
<1>7. QED  BY <1>2, <1>3, <1>4, <1>5, <1>6, StepCases


LEMMA InitBooks == Init => Books
<1> SUFFICES ASSUME Init PROVE Books
  OBVIOUS
<1>1. latest = Nothing /\ intervals = <<>> /\ DOMAIN intervals = {}
  BY DEF Init
<1>2. QED  BY <1>1 DEF Books, Accounts, Occupied, Placed, Summed

LEMMA BooksKept == Spec /\ []Sharp => []Books
<1>1. Init => Books
  BY InitBooks
<1>2. IInv /\ Timeline /\ Books /\ Sharp' /\ [Next]_vars => Books'
  BY BooksStep
<1>3. Spec => []IInv
  BY Invariance
<1>4. Init => Timeline
  BY InitTimeline
<1>5. IInv /\ Timeline /\ [Next]_vars => Timeline'
  BY TimelineStep
<1>6. QED  BY <1>1, <1>2, <1>3, <1>4, <1>5, PTL DEF Spec

LEMMA TimelineKept == Spec => []Timeline
<1>1. Spec => []IInv
  BY Invariance
<1>2. Init => Timeline
  BY InitTimeline
<1>3. IInv /\ Timeline /\ [Next]_vars => Timeline'
  BY TimelineStep
<1>4. QED  BY <1>1, <1>2, <1>3, PTL DEF Spec

-----------------------------------------------------------------------------
(* The sleeps between two readings took what the totals differ by.         *)

Durations == [i \in 1..Len(slept) |-> Length(i)]

LEMMA DurationsCount ==
  ASSUME Chronicle, NEW D \in SUBSET (1..Len(slept))
  PROVE  MapThenSumSet(Length, D) = Cardinality(Units(Durations, D))
<1> DEFINE f == Durations
           P(iter) == iter = [t \in SUBSET D |-> IF t = {} THEN 0
                 ELSE Length(CHOOSE x \in t : TRUE) + iter[t \ {CHOOSE x \in t : TRUE}]]
<1>1. Len(slept) \in Nat
  BY LenProperties DEF Chronicle
<1>2. IsFiniteSet(D)
  <2>1. IsFiniteSet(1..Len(slept))
    BY <1>1, FS_Interval
  <2>2. QED  BY <2>1, FS_Subset
<1>3. \A x \in D : f[x] \in Nat
  BY SleepFacts DEF Durations
<1>4. ASSUME NEW iter PROVE P(iter) <=> IsFold(f, D, iter)
  <2>1. \A t \in SUBSET D : t # {} => f[CHOOSE x \in t : TRUE] = Length(CHOOSE x \in t : TRUE)
    BY DEF Durations
  <2>2. QED  BY <2>1 DEF IsFold
<1>5. P(CHOOSE iter : P(iter))
  <2>1. \E iter : P(iter)
    <3> HIDE DEF P, f
    <3>1. QED  BY <1>2, <1>3, <1>4, FoldExists
  <2> HIDE DEF P
  <2>2. QED  BY <2>1
<1>6. MapThenSumSet(Length, D) = (CHOOSE iter : P(iter))[D]
  BY DEF MapThenSumSet, MapThenFoldSet
<1> DEFINE c == CHOOSE iter : P(iter)
<1>7. QED
  <2>1. P(c)
    BY <1>5
  <2> HIDE DEF P, f, c
  <2>2. c[D] = Cardinality(Units(f, D))
    BY <2>1, <1>2, <1>3, <1>4, FoldCounts
  <2>3. QED  BY <2>2, <1>6 DEF c, f

LEMMA SleptIsTotal ==
  ASSUME Chronicle, NEW m \in 0..Len(slept), NEW n \in 0..Len(slept), m <= n
  PROVE  MapThenSumSet(Length, m + 1..n) = Total(n) - Total(m)
<1> DEFINE D == m + 1..n
           Sum(X) == Cardinality(Units(Durations, X))
           Bad == {X \in SUBSET D : \E k \in m..n : X = m + 1..k /\ Sum(X) # Total(k) - Total(m)}
<1>1. Len(slept) \in Nat /\ D \in SUBSET (1..Len(slept))
  <2>1. Len(slept) \in Nat
    <3> HIDE DEF D, Bad, Sum
    <3>1. QED  BY LenProperties DEF Chronicle
  <2>2. QED  BY <2>1
<1>2. IsFiniteSet(D)
  BY <1>1, FS_Interval
<1>3. \A x \in D : Durations[x] = Length(x) /\ Length(x) \in Nat
  BY <1>1, SleepFacts DEF Durations
<1>4. CASE Bad # {}
  <2>1. PICK X \in Bad : \A Y \in Bad : Y \subseteq X => Y = X
    <3>1. Bad \subseteq SUBSET D
      OBVIOUS
    <3> HIDE DEF D, Sum, Bad
    <3>2. QED  BY <1>2, <1>4, <3>1, MinimalSubset
  <2>2. PICK k \in m..n : X = m + 1..k /\ Sum(X) # Total(k) - Total(m)
    BY <2>1
  <2>3. CASE k = m
    <3>1. X = {}
      BY <2>2, <2>3
    <3>2. Units(Durations, X) = {}
      BY <3>1 DEF Units
    <3>3. Sum(X) = 0
      BY <3>2, FS_EmptySet
    <3>4. Total(m) \in Nat
      BY TotalGrows
    <3>5. QED  BY <2>2, <2>3, <3>3, <3>4
  <2>4. CASE k # m
    <3>1. /\ k \in X /\ X \ {k} = m + 1..(k - 1) /\ k - 1 \in m..n /\ X \ {k} \in SUBSET D
          /\ X \ {k} # X /\ k \in 1..Len(slept)
      BY <1>1, <2>1, <2>2, <2>4
    <3>2. X \ {k} \notin Bad
      BY <2>1, <3>1
    <3>3. Sum(X \ {k}) = Total(k - 1) - Total(m)
      BY <3>1, <3>2
    <3>4. IsFiniteSet(Units(Durations, X \ {k}))
      BY <1>2, <1>3, <3>1, UnitsCount
    <3>5. Durations[k] = Length(k) /\ Length(k) \in Nat
      BY <3>1, SleepFacts DEF Durations
    <3>6. Sum(X) = Length(k) + Sum(X \ {k})
      BY <3>1, <3>4, <3>5, UnitsWithout
    <3>7. Total(k) = Total(k - 1) + Length(k) /\ Total(k - 1) \in Int
      BY <3>1, SleepFacts
    <3>8. PICK a \in Int, b \in Int, l \in Int :
               a = Total(k - 1) /\ b = Total(m) /\ l = Length(k)
      <4>1. Total(m) \in Nat
        BY TotalGrows
      <4>2. QED  BY <3>5, <3>7, <4>1
    <3>9. Sum(X) = l + (a - b) /\ Total(k) = a + l
      BY <3>3, <3>6, <3>7, <3>8
    <3>10. l + (a - b) = (a + l) - b
      BY ONLY TRUE
    <3>11. QED  BY <2>2, <3>8, <3>9, <3>10
  <2>5. QED  BY <2>3, <2>4
<1>5. CASE Bad = {}
  <2>1. n \in m..n /\ D \in SUBSET D
    BY <1>1
  <2>2. Sum(D) = Total(n) - Total(m)
    BY <1>5, <2>1
  <2>3. QED  BY <1>1, <2>2, DurationsCount
<1>6. QED  BY <1>4, <1>5


(* Rounding a bracket to whole ticks does not move it across a sleep.      *)
LEMMA Halves ==
  ASSUME NEW x \in Int, NEW y \in Int
  PROVE  /\ x \div 2 \in Int
         /\ x <= 2 * y => x \div 2 <= y
         /\ 2 * y <= x => y <= x \div 2
OBVIOUS

LEMMA SleepsCounted ==
  ASSUME Chronicle, NEW a \in Reading, NEW b \in Reading,
         NEW n \in 0..Len(slept), NEW m \in 0..Len(slept), Counts(n, a), Counts(m, b)
  PROVE  /\ SleepsBetween(Opens(a), Closes(b)) = n + 1..m
         /\ SleepsBetween(Closes(a), Opens(b)) = n + 1..m
<1>1. Len(slept) \in Nat /\ DOMAIN slept = 1..Len(slept)
  BY LenProperties DEF Chronicle
<1>2. /\ Opens2(a) \in Int /\ Closes2(a) \in Int /\ Opens2(a) <= Closes2(a)
      /\ Opens2(b) \in Int /\ Closes2(b) \in Int /\ Opens2(b) <= Closes2(b)
  <2>1. a.boot2 \in Nat /\ a.unc2 \in Nat /\ b.boot2 \in Nat /\ b.unc2 \in Nat
    BY ReadingFields
  <2>2. QED  BY <2>1 DEF Opens2, Closes2
<1>3. PICK ao \in Int, ac \in Int, bo \in Int, bc \in Int :
           ao = Opens2(a) /\ ac = Closes2(a) /\ bo = Opens2(b) /\ bc = Closes2(b)
  BY <1>2
<1>4. /\ Opens(a) = ao \div 2 /\ Closes(a) = ac \div 2
      /\ Opens(b) = bo \div 2 /\ Closes(b) = bc \div 2
  BY <1>3 DEF Opens, Closes, Opens2, Closes2
<1>5. ASSUME NEW i \in 1..Len(slept)
      PROVE  /\ Opens(a) <= slept[i].from /\ slept[i].to <= Closes(b) <=> i \in n + 1..m
             /\ Closes(a) <= slept[i].from /\ slept[i].to <= Opens(b) <=> i \in n + 1..m
  <2>1. PICK f \in Nat, t \in Nat : f = slept[i].from /\ t = slept[i].to /\ f < t
    <3>1. /\ slept[i].from \in Nat /\ slept[i].to \in Nat /\ Length(i) \in Nat
          /\ slept[i].to = slept[i].from + Length(i) /\ 1 <= Length(i)
      BY SleepFacts
    <3>2. slept[i].from < slept[i].to
      BY <3>1
    <3>3. QED  BY <3>1, <3>2
  <2>2. /\ i <= n => 2 * t <= ao
        /\ n < i => ac <= 2 * f
        /\ i <= m => 2 * t <= bo
        /\ m < i => bc <= 2 * f
    <3>1. /\ i <= n => i \in 1..n
          /\ n < i => i \in n + 1..Len(slept)
          /\ i <= m => i \in 1..m
          /\ m < i => i \in m + 1..Len(slept)
      BY <1>1
    <3>2. QED  BY <1>3, <2>1, <3>1 DEF Counts
  <2>3. /\ i <= n => t <= ao \div 2 /\ t <= ac \div 2
        /\ n < i => ao \div 2 <= f /\ ac \div 2 <= f
        /\ i <= m => t <= bo \div 2 /\ t <= bc \div 2
        /\ m < i => bo \div 2 <= f /\ bc \div 2 <= f
    <3>1. ao <= ac /\ bo <= bc
      BY <1>2, <1>3
    <3>2. QED  BY <2>2, <3>1
  <2>4. i \in n + 1..m <=> n < i /\ i <= m
    OBVIOUS
  <2>5. /\ ao \div 2 \in Int /\ ac \div 2 \in Int /\ bo \div 2 \in Int /\ bc \div 2 \in Int
    BY Halves
  <2>6. /\ ao \div 2 <= f /\ t <= bc \div 2 <=> n < i /\ i <= m
        /\ ac \div 2 <= f /\ t <= bo \div 2 <=> n < i /\ i <= m
    BY <2>1, <2>3, <2>5
  <2>7. QED  BY <1>4, <2>1, <2>4, <2>6
<1>6. n + 1..m \subseteq 1..Len(slept)
  BY <1>1
<1>7. QED  BY <1>1, <1>5, <1>6 DEF SleepsBetween

-----------------------------------------------------------------------------
LEMMA BooksMeasure == IInv /\ Timeline /\ Books => Measured
<1> SUFFICES ASSUME IInv, Timeline, Books, latest # Nothing
             PROVE  /\ Found4(intervals) <= 4 * SleptBetween(Opens(initial), Closes(accounted))
                          + (Admitted4(intervals) + 2 * (initial.unc2 + accounted.unc2))
                    /\ Found4(intervals) >= 4 * SleptBetween(Closes(initial), Opens(accounted))
                          - (Admitted4(intervals) + 2 * (initial.unc2 + accounted.unc2))
  BY DEF Measured, Found4, Admitted4
<1>1. Chronicle
  BY DEF Timeline
<1>2. PICK i \in Reading, a \in Reading : i = initial /\ a = accounted
  BY BooksTypes DEF Books
<1>3. PICK n \in 0..Len(slept), m \in 0..Len(slept) :
           n <= m /\ Counts(n, i) /\ Counts(m, a)
  BY <1>2 DEF Books, Accounts, Tally
<1>4. /\ SleptBetween(Opens(i), Closes(a)) = Total(m) - Total(n)
      /\ SleptBetween(Closes(i), Opens(a)) = Total(m) - Total(n)
  <2>1. MapThenSumSet(Length, n + 1..m) = Total(m) - Total(n)
    BY <1>1, <1>3, SleptIsTotal
  <2>2. QED  BY <1>1, <1>3, <2>1, SleepsCounted DEF SleptBetween
<1>5. PICK f \in Nat, u \in Nat : f = Found4(intervals) /\ u = Admitted4(intervals)
  <2>1. PICK seq : seq = intervals
    OBVIOUS
  <2>2. /\ seq \in Seq(IntervalRecords) /\ \A k \in DOMAIN seq : seq[k].from4 <= seq[k].to4
    BY <2>1, BooksTypes DEF Books
  <2>3. Found4(seq) = Cardinality(Units(Long4(seq), DOMAIN seq))
    BY <2>2, FoundCount
  <2>4. Admitted4(seq) = Cardinality(Units(Unsure4(seq), DOMAIN seq))
    BY <2>2, AdmittedCount
  <2>5. /\ Cardinality(Units(Long4(seq), DOMAIN seq)) \in Nat
        /\ Cardinality(Units(Unsure4(seq), DOMAIN seq)) \in Nat
    <3>1. IsFiniteSet(DOMAIN seq)
      <4>1. DOMAIN seq = 1..Len(seq) /\ Len(seq) \in Nat
        BY <2>2, LenProperties
      <4>2. QED  BY <4>1, FS_Interval
    <3>2. ASSUME NEW k \in DOMAIN seq PROVE Long4(seq)[k] \in Nat /\ Unsure4(seq)[k] \in Nat
      <4>1. seq[k] \in IntervalRecords
        BY <2>2, ElementOfSeq, LenProperties
      <4>2. seq[k].from4 \in Nat /\ seq[k].to4 \in Nat /\ seq[k].unc4 \in Nat
        BY <4>1 DEF IntervalRecords
      <4>3. QED  BY <2>2, <4>2 DEF Long4, Unsure4
    <3>3. QED  BY <3>1, <3>2, UnitsCount
  <2>6. QED  BY <2>1, <2>3, <2>4, <2>5
<1>6. PICK x \in Nat, y \in Nat : x = Total(n) /\ y = Total(m)
  BY <1>1, <1>3, TotalGrows
<1>7. PICK iu \in Nat, au \in Nat, io \in Int, co \in Int :
           iu = i.unc2 /\ au = a.unc2 /\ io = Offset2(i) /\ co = Offset2(a)
  <2>1. /\ i.boot2 \in Nat /\ i.mono \in Nat /\ i.unc2 \in Nat
        /\ a.boot2 \in Nat /\ a.mono \in Nat /\ a.unc2 \in Nat
    BY ReadingFields
  <2>2. Offset2(i) \in Int /\ Offset2(a) \in Int
    BY <2>1 DEF Offset2
  <2>3. QED  BY <2>1, <2>2
<1>8. /\ io - iu <= 2 * x /\ 2 * x <= io + iu /\ co - au <= 2 * y /\ 2 * y <= co + au
  BY <1>3, <1>6, <1>7 DEF Counts, Low2, High2
<1>9. f <= 2 * (co - io) /\ 2 * (co - io) <= f + u
  BY <1>2, <1>5, <1>7 DEF Books, Summed
<1>10. /\ f <= 4 * (y - x) + (u + 2 * (iu + au))
       /\ f >= 4 * (y - x) - (u + 2 * (iu + au))
  BY ONLY <1>8, <1>9
<1>11. QED  BY <1>2, <1>4, <1>5, <1>6, <1>7, <1>10

(* The sleeps a run reports are the sleeps there were, from any number of  *)
(* readings and of any lengths (SuspendMonitor.observe), as long as a      *)
(* sleep takes longer than the brackets of two readings.                   *)
THEOREM SleepsAreMeasured == Spec /\ []Sharp => []IntervalsMeasure
<1>1. Spec /\ []Sharp => []Books
  BY BooksKept
<1>2. Spec => []Timeline
  BY TimelineKept
<1>3. Spec => []IInv
  BY Invariance
<1>4. Spec => []Ordered
  BY IntervalsApart
<1>5. IInv /\ Timeline /\ Books /\ Ordered => IntervalsMeasure
  BY BooksMeasure DEF IntervalsMeasure, Books
<1>6. QED  BY <1>1, <1>2, <1>3, <1>4, <1>5, PTL


-----------------------------------------------------------------------------
(* Every sleep between application entry and finish                        *)

LEMMA InitEnds == Init => Ends
<1> SUFFICES ASSUME Init PROVE Ends
  OBVIOUS
<1>1. main = "entry" /\ finalRead = FALSE /\ span = [from |-> 0, to |-> 0]
  BY DEF Init
<1>2. QED  BY <1>1 DEF Ends, SpanCloses, SpanOpens, LateReading, ReadToTheEnd

(* Steps after which the main thread is where it was.                      *)
LEMMA EndsStand ==
  ASSUME IInv, Ends, UNCHANGED <<main, stop, span, finalRead, initial, latest>>, errors => errors',
         boot' \in Nat, boot <= boot', UNCHANGED reading["main"]
  PROVE  Ends'
<1>1. boot \in Nat
  BY DEF IInv, TypeOK
<1>2. SpanCloses'
  <2>1. SpanCloses
    BY DEF Ends
  <2>2. span.to \in Nat
    BY <2>1 DEF SpanCloses
  <2>3. span.to <= boot => span.to <= boot'
    BY <1>1, <2>2
  <2>4. QED  BY <2>1, <2>3 DEF SpanCloses
<1>3. SpanOpens'
  BY DEF Ends, SpanOpens, Closes2
<1>4. LateReading'
  BY DEF Ends, LateReading, Opens2
<1>5. ReadToTheEnd'
  BY DEF Ends, ReadToTheEnd, Opens2
<1>6. QED  BY <1>2, <1>3, <1>4, <1>5 DEF Ends

LEMMA EndsReads ==
  ASSUME IInv, Ends, NEW p \in Readers, ReadBefore(p) \/ ReadMonotonic(p) \/ ReadAfter(p)
  PROVE  Ends'
<1> USE DEF clocks, threads, observed
<1>1. /\ UNCHANGED <<boot, main, stop, span, finalRead, initial, latest, errors>>
  BY DEF ReadBefore, ReadMonotonic, ReadAfter
<1>2. /\ reading \in [Readers -> InProgress] /\ boot \in Nat /\ "main" \in Readers
  BY DEF IInv, TypeOK, Readers
<1>3. CASE p # "main"
  <2>1. UNCHANGED reading["main"]
    BY <1>2, <1>3 DEF ReadBefore, ReadMonotonic, ReadAfter
  <2>2. QED  BY <1>1, <1>2, <2>1, EndsStand
<1>4. CASE p = "main"
  <2>1. SpanCloses' /\ SpanOpens' /\ ReadToTheEnd'
    BY <1>1 DEF Ends, SpanCloses, SpanOpens, ReadToTheEnd, Opens2, Closes2
  <2>2. ASSUME main \in {"final", "last"}
        PROVE  /\ reading'["main"].at \in {"monotonic", "after"} => span.to <= reading'["main"].before
               /\ reading'["main"].at # "idle" /\ reading'["main"].best # Nothing =>
                      2 * span.to <= Opens2(reading'["main"].best)
    <3> DEFINE r == reading["main"]
    <3>1. /\ r \in InProgress /\ span.to \in Nat /\ span.to <= boot
          /\ r.at \in {"monotonic", "after"} => span.to <= r.before
          /\ r.at # "idle" /\ r.best # Nothing => 2 * span.to <= Opens2(r.best)
      BY <1>2, <2>2 DEF Ends, SpanCloses, LateReading
    <3>2. r.before \in Nat
      BY <3>1 DEF InProgress
    <3>3. CASE ReadBefore(p)
      <4>1. /\ reading'["main"].before = boot /\ reading'["main"].best = r.best /\ r.at = "before"
        BY <1>2, <1>4, <3>3 DEF ReadBefore, InProgress
      <4>2. QED  BY <3>1, <4>1
    <3>4. CASE ReadMonotonic(p)
      <4>1. /\ reading'["main"].before = r.before /\ reading'["main"].best = r.best
            /\ r.at = "monotonic"
        BY <1>2, <1>4, <3>4 DEF ReadMonotonic, InProgress
      <4>2. QED  BY <3>1, <4>1
    <3>5. CASE ReadAfter(p)
      <4>1. r.at = "after" /\ span.to <= r.before
        BY <1>4, <3>1, <3>5 DEF ReadAfter
      <4>2. PICK best : best = Tightest(r.best, Candidate("main"))
        OBVIOUS
      <4>3. 2 * span.to <= Opens2(best)
        <5>1. best = Candidate("main") \/ (best = r.best /\ r.best # Nothing)
          BY <4>2 DEF Tightest
        <5>2. Opens2(Candidate("main")) = 2 * r.before
          <6>1. Opens2(Candidate("main")) = (r.before + boot) - (boot - r.before)
            BY DEF Opens2, Candidate
          <6>2. QED  BY <1>2, <3>2, <6>1
        <5>3. 2 * span.to <= 2 * r.before
          BY <3>1, <3>2, <4>1
        <5>4. QED  BY <3>1, <4>1, <5>1, <5>2, <5>3
      <4>4. /\ reading'["main"].at \in {"before", "taken"} /\ reading'["main"].best = best
        BY <1>2, <1>4, <3>5, <4>2 DEF ReadAfter, Starting, NotReading
      <4>5. QED  BY <4>3, <4>4
    <3>6. QED  BY <3>3, <3>4, <3>5
  <2>3. LateReading'
    BY <1>1, <2>2 DEF LateReading, Opens2
  <2>4. QED  BY <2>1, <2>3 DEF Ends
<1>5. QED  BY <1>3, <1>4

LEMMA EndsMain ==
  ASSUME IInv, Ends,
         Start \/ StartThread \/ Finish \/ Joined \/ JoinTimesOut \/ MainReadFails \/ Queried
  PROVE  Ends'
<1> USE DEF clocks, threads, observed
<1>1. UNCHANGED <<boot, initial, latest>>
  BY DEF Start, StartThread, Finish, Joined, JoinTimesOut, MainReadFails, Queried, MainReads
<1>2. /\ reading \in [Readers -> InProgress] /\ boot \in Nat /\ "main" \in Readers /\ main \in Stages
      /\ span \in [from : Nat, to : Nat]
  BY DEF IInv, TypeOK, Readers, Ends, SpanCloses
<1>3. /\ reading["main"].at # "idle" => main \in {"entry", "first", "final", "last"}
  BY DEF IInv, Chronology, OneReader
<1>4. CASE Start \/ Joined \/ (Queried /\ worker # "alive")
  <2>1. /\ reading' = [reading EXCEPT !["main"] = Starting]
        /\ \/ main = "setup" /\ main' = "first"
           \/ main = "join" /\ main' = "final"
           \/ main = "query" /\ main' = "last"
        /\ UNCHANGED <<stop, span, finalRead, errors>>
    BY <1>4 DEF Start, Joined, Queried, MainReads
  <2>2. reading'["main"].at = "before" /\ reading'["main"].best = Nothing
    BY <1>2, <2>1 DEF Starting, NotReading
  <2>3. LateReading'
    BY <2>2 DEF LateReading
  <2>4. SpanCloses' /\ SpanOpens' /\ ReadToTheEnd'
    BY <1>1, <1>2, <2>1 DEF Ends, SpanCloses, SpanOpens, ReadToTheEnd, Opens2, Closes2
  <2>5. QED  BY <2>3, <2>4 DEF Ends
<1>5. CASE StartThread \/ JoinTimesOut \/ (Queried /\ worker = "alive")
  <2>1. /\ \/ main = "thread" /\ main' = "run"
           \/ main = "join" /\ main' = "query"
           \/ main = "query" /\ main' = "done"
        /\ errors => errors'
        /\ UNCHANGED <<stop, span, finalRead>>
    BY <1>5 DEF StartThread, JoinTimesOut, Queried
  <2>2. SpanCloses' /\ SpanOpens' /\ LateReading' /\ ReadToTheEnd'
    BY <1>1, <1>2, <2>1 DEF Ends, SpanCloses, SpanOpens, LateReading, ReadToTheEnd, Opens2, Closes2
  <2>3. QED  BY <2>2 DEF Ends
<1>6. CASE Finish
  <2>1. /\ main = "run" /\ main' = "join" /\ stop' /\ span' = [span EXCEPT !.to = boot]
        /\ UNCHANGED <<finalRead, errors>>
    BY <1>6 DEF Finish
  <2>2. span' \in [from : Nat, to : Nat] /\ span'.to = boot /\ span'.from = span.from
    BY <1>2, <2>1
  <2>3. span'.to <= boot'
    BY <1>1, <1>2, <2>2
  <2>4. SpanCloses' /\ SpanOpens' /\ LateReading' /\ ReadToTheEnd'
    BY <1>1, <1>2, <2>1, <2>2, <2>3
       DEF Ends, SpanCloses, SpanOpens, LateReading, ReadToTheEnd, Opens2, Closes2
  <2>5. QED  BY <2>4 DEF Ends
<1>7. CASE MainReadFails
  <2>1. /\ reading["main"].at # "idle" /\ errors' = TRUE
        /\ finalRead' = (finalRead /\ main # "last")
        /\ main' = IF main = "entry" THEN "setup" ELSE AfterSample[main]
        /\ span' = IF main = "entry" THEN [span EXCEPT !.from = boot] ELSE span
        /\ UNCHANGED stop
    BY <1>7 DEF MainReadFails
  <2>2. \/ main = "entry" /\ main' = "setup"
        \/ main = "first" /\ main' = "thread"
        \/ main = "final" /\ main' = "query"
        \/ main = "last" /\ main' = "done"
    BY <1>3, <2>1 DEF AfterSample
  <2>3. span' \in [from : Nat, to : Nat] /\ span'.to = span.to
    BY <1>2, <2>1
  <2>4. SpanCloses'
    BY <1>1, <2>1, <2>2, <2>3 DEF Ends, SpanCloses
  <2>5. SpanOpens' /\ LateReading' /\ ReadToTheEnd'
    BY <2>1, <2>2 DEF SpanOpens, LateReading, ReadToTheEnd
  <2>6. QED  BY <2>4, <2>5 DEF Ends
<1>8. QED  BY <1>4, <1>5, <1>6, <1>7

LEMMA EndsObserves ==
  ASSUME IInv, Timeline, Ends, (WorkerObserves /\ ~stop) \/ MainObserves \/ TakeBaseline
  PROVE  Ends'
<1> USE DEF clocks, threads, observed
<1>1. /\ reading \in [Readers -> InProgress] /\ boot \in Nat /\ "main" \in Readers /\ main \in Stages
      /\ "worker" \in Readers /\ span \in [from : Nat, to : Nat]
  BY DEF IInv, TypeOK, Readers, Ends, SpanCloses
<1>2. ASSUME NEW p \in Readers, reading[p].at = "taken", Observe(reading[p].best),
             main # "entry"
      PROVE  /\ reading[p].best # Nothing
             /\ errors => errors'
             /\ ~errors' => ~errors /\ latest' = reading[p].best /\ UNCHANGED initial
  <2>1. reading[p].best # Nothing
    BY <1>1, <1>2 DEF IInv, Chronology, Follows, BestFollows
  <2>2. ~errors => latest # Nothing
    BY <1>2 DEF Ends, SpanOpens
  <2>3. QED  BY <1>2, <2>1, <2>2 DEF Observe
<1>3. CASE WorkerObserves /\ ~stop
  <2>1. /\ reading["worker"].at = "taken" /\ Observe(reading["worker"].best)
        /\ reading' = [reading EXCEPT !["worker"] = NotReading]
        /\ UNCHANGED <<boot, main, stop, span, finalRead>>
    BY <1>3 DEF WorkerObserves
  <2>2. main \notin {"entry", "join", "final", "query", "last", "done"}
    BY <1>3, <2>1 DEF Ends, SpanCloses, IInv, Chronology, OneReader
  <2>3. /\ errors => errors'
        /\ ~errors' => ~errors /\ latest' # Nothing /\ UNCHANGED initial
    BY <1>1, <1>2, <2>1, <2>2
  <2>4. SpanCloses' /\ LateReading' /\ ReadToTheEnd'
    BY <2>1, <2>2 DEF Ends, SpanCloses, LateReading, ReadToTheEnd
  <2>5. SpanOpens'
    BY <2>1, <2>2, <2>3 DEF Ends, SpanOpens, Closes2
  <2>6. QED  BY <2>4, <2>5 DEF Ends
<1>4. CASE MainObserves
  <2> DEFINE c == reading["main"].best
  <2>1. /\ main \in {"first", "final", "last"} /\ main' = AfterSample[main]
        /\ reading["main"].at = "taken" /\ Observe(c)
        /\ finalRead' = IF main = "first" THEN finalRead ELSE discontinuity' = discontinuity
        /\ UNCHANGED <<boot, stop, span>>
    BY <1>4 DEF MainObserves, AfterSample
  <2>2. /\ main = "first" => main' = "thread"
        /\ main = "final" => main' = "query"
        /\ main = "last" => main' = "done"
    BY <2>1 DEF AfterSample
  <2>3. /\ c # Nothing
        /\ errors => errors'
        /\ ~errors' => ~errors /\ latest' = c /\ UNCHANGED initial
    BY <1>1, <1>2, <2>1
  <2>4. main \in {"final", "last"} => 2 * span.to <= Opens2(c)
    BY <2>1, <2>3 DEF Ends, LateReading
  <2> HIDE DEF c
  <2>5. SpanCloses' /\ LateReading'
    BY <2>1, <2>2 DEF Ends, SpanCloses, LateReading
  <2>6. SpanOpens' /\ ReadToTheEnd'
    BY <2>1, <2>2, <2>3, <2>4 DEF Ends, SpanOpens, ReadToTheEnd, Opens2, Closes2
  <2>7. QED  BY <2>5, <2>6 DEF Ends
<1>5. CASE TakeBaseline
  <2> DEFINE c == reading["main"].best
  <2>1. /\ main = "entry" /\ main' = "setup" /\ reading["main"].at = "taken"
        /\ initial' = c /\ latest' = c /\ span' = [span EXCEPT !.from = boot]
        /\ UNCHANGED <<boot, stop, finalRead, errors>>
    BY <1>5 DEF TakeBaseline
  <2>2. c # Nothing
    BY <1>1, <2>1 DEF IInv, Chronology, Follows, BestFollows
  <2>3. Closes2(c) <= 2 * boot
    BY <1>1, <2>1, <2>2 DEF Timeline, Brackets, Closed
  <2>4. span' \in [from : Nat, to : Nat] /\ span'.from = boot
    BY <1>1, <2>1
  <2> HIDE DEF c
  <2>5. SpanCloses' /\ LateReading' /\ ReadToTheEnd'
    BY <2>1, <2>4 DEF Ends, SpanCloses, LateReading, ReadToTheEnd
  <2>6. SpanOpens'
    BY <2>1, <2>2, <2>3, <2>4 DEF SpanOpens, Closes2
  <2>7. QED  BY <2>5, <2>6 DEF Ends
<1>6. QED  BY <1>3, <1>4, <1>5

LEMMA EndsStep == IInv /\ Timeline /\ Ends /\ [Next]_vars => Ends'
<1> SUFFICES ASSUME IInv, Timeline, Ends, [Next]_vars PROVE Ends'
  OBVIOUS
<1>1. boot \in Nat /\ "main" \in Readers /\ reading \in [Readers -> InProgress]
  BY DEF IInv, TypeOK, Readers
<1>2. CASE WorkerSamples \/ (WorkerObserves /\ stop) \/ WorkerReadFails \/ WorkerEnds \/ UNCHANGED vars
  <2>1. /\ UNCHANGED <<boot, main, stop, span, finalRead, initial, latest>>
        /\ errors => errors'
        /\ UNCHANGED reading \/ \E r \in {Starting, NotReading} :
                                   reading' = [reading EXCEPT !["worker"] = r]
    <3> USE DEF clocks, threads, observed
    <3>1. CASE WorkerSamples
      BY <3>1 DEF WorkerSamples
    <3>2. CASE WorkerObserves /\ stop
      BY <3>2 DEF WorkerObserves
    <3>3. CASE WorkerReadFails
      BY <3>3 DEF WorkerReadFails
    <3>4. CASE WorkerEnds \/ UNCHANGED vars
      BY <3>4 DEF WorkerEnds, vars
    <3>5. QED  BY <1>2, <3>1, <3>2, <3>3, <3>4
  <2>2. UNCHANGED reading["main"]
    BY <1>1, <2>1
  <2>3. QED  BY <1>1, <2>1, <2>2, EndsStand
<1>3. CASE Start \/ StartThread \/ Finish \/ Joined \/ JoinTimesOut \/ MainReadFails \/ Queried
  BY <1>3, EndsMain
<1>4. CASE (WorkerObserves /\ ~stop) \/ MainObserves \/ TakeBaseline
  BY <1>4, EndsObserves
<1>5. CASE \E p \in Readers : ReadBefore(p) \/ ReadMonotonic(p) \/ ReadAfter(p)
  BY <1>5, EndsReads
<1>6. CASE Tick \/ \E length \in Lengths : Sleep(length)
  <2>1. /\ UNCHANGED <<main, stop, span, finalRead, initial, latest, errors, reading>>
        /\ \E length \in Lengths \cup {1} : boot' = boot + length
    BY <1>6 DEF Tick, Sleep, threads, observed
  <2>2. boot' \in Nat /\ boot <= boot'
    BY <1>1, <2>1, ClockAssumption
  <2>3. QED  BY <2>1, <2>2, EndsStand
<1>7. QED  BY <1>2, <1>3, <1>4, <1>5, <1>6, StepCases DEF QuietSteps

LEMMA EndsKept == Spec => []Ends
<1>1. Init => Ends
  BY InitEnds
<1>2. IInv /\ Timeline /\ Ends /\ [Next]_vars => Ends'
  BY EndsStep
<1>3. Spec => []IInv
  BY Invariance
<1>4. Spec => []Timeline
  BY TimelineKept
<1>5. QED  BY <1>1, <1>2, <1>3, <1>4, PTL DEF Spec

LEMMA BooksCover == IInv /\ Timeline /\ Books /\ Ends => CoverageHonest
<1> SUFFICES ASSUME IInv, Timeline, Books, Ends, main = "done", finalRead, ~errors,
                    NEW i \in SleepsBetween(span.from, span.to),
                    2 * Length(i) > Larger(Floor2, accounted.unc2 + latest.unc2)
                                    + (accounted.unc2 + latest.unc2)
             PROVE  \E k \in DOMAIN intervals : Inside(i, k)
  BY DEF CoverageHonest, CoverageComplete
<1>1. /\ latest # Nothing /\ initial # Nothing /\ Closes2(initial) <= 2 * span.from
      /\ 2 * span.to <= Opens2(latest) /\ span.from \in Nat /\ span.to \in Nat
  BY DEF Ends, SpanCloses, SpanOpens, ReadToTheEnd
<1>2. PICK b \in Reading, a \in Reading, l \in Reading :
           b = initial /\ a = accounted /\ l = latest
  BY <1>1, BooksTypes DEF Books
<1>3. PICK n0 \in 0..Len(slept), n1 \in 0..Len(slept), n2 \in 0..Len(slept) : Tally(n0, n1, n2)
  BY <1>1 DEF Books, Accounts
<1>4. /\ n0 <= n1 /\ n1 <= n2 /\ Counts(n0, b) /\ Counts(n1, a) /\ Counts(n2, l)
      /\ \A x \in n0 + 1..n1 : \E k \in DOMAIN intervals : Inside(x, k)
  BY <1>2, <1>3 DEF Tally
<1>5. Chronicle /\ Len(slept) \in Nat /\ DOMAIN slept = 1..Len(slept)
  BY LenProperties DEF Timeline, Chronicle
<1>6. i \in 1..Len(slept) /\ span.from <= slept[i].from /\ slept[i].to <= span.to
  BY <1>5 DEF SleepsBetween
<1>7. PICK f \in Nat, t \in Nat, len \in Nat :
           f = slept[i].from /\ t = slept[i].to /\ len = Length(i) /\ f < t
  <2>1. /\ slept[i].from \in Nat /\ slept[i].to \in Nat /\ Length(i) \in Nat
        /\ slept[i].to = slept[i].from + Length(i) /\ 1 <= Length(i)
    BY <1>5, <1>6, SleepFacts
  <2>2. slept[i].from < slept[i].to
    BY <2>1
  <2>3. QED  BY <2>1, <2>2
<1>8. PICK from \in Nat, to \in Nat : from = span.from /\ to = span.to
  BY <1>1
<1>9. PICK bo \in Int, bc \in Int, lo \in Int, lc \in Int :
           /\ bo = Opens2(b) /\ bc = Closes2(b) /\ lo = Opens2(l) /\ lc = Closes2(l)
           /\ bo <= bc /\ lo <= lc
  <2>1. b.boot2 \in Nat /\ b.unc2 \in Nat /\ l.boot2 \in Nat /\ l.unc2 \in Nat
    BY ReadingFields
  <2>2. /\ Opens2(b) \in Int /\ Closes2(b) \in Int /\ Opens2(l) \in Int /\ Closes2(l) \in Int
        /\ Opens2(b) <= Closes2(b) /\ Opens2(l) <= Closes2(l)
    BY <2>1 DEF Opens2, Closes2
  <2>3. QED  BY <2>2
<1>10. bc <= 2 * from /\ 2 * to <= lo /\ from <= f /\ t <= to
  BY <1>1, <1>2, <1>6, <1>7, <1>8, <1>9
<1>11. n0 < i
  <2>1. i <= n0 => i \in 1..n0
    BY <1>6
  <2>2. i <= n0 => 2 * t <= bo
    BY <1>4, <1>7, <1>9, <2>1 DEF Counts
  <2>3. f < t /\ bo <= bc /\ bc <= 2 * from /\ from <= f
    BY <1>7, <1>9, <1>10
  <2>4. ~(2 * t <= bo)
    BY ONLY <2>3
  <2>5. QED  BY <1>6, <2>2, <2>4
<1>12. i <= n2
  <2>1. n2 < i => i \in n2 + 1..Len(slept)
    BY <1>5, <1>6
  <2>2. n2 < i => lc <= 2 * f
    BY <1>4, <1>7, <1>9, <2>1 DEF Counts
  <2>3. f < t /\ lo <= lc /\ 2 * to <= lo /\ t <= to
    BY <1>7, <1>9, <1>10
  <2>4. ~(lc <= 2 * f)
    BY ONLY <2>3
  <2>5. QED  BY <1>6, <2>2, <2>4
<1>13. i <= n1
  <2> SUFFICES ASSUME n1 < i PROVE FALSE
    BY <1>6
  <2>1. i \in n1 + 1..n2
    BY <1>6, <1>12
  <2>2. /\ Total(n1) \in Nat /\ Total(n2) \in Nat /\ Total(n1) + Length(i) <= Total(n2)
    BY <1>4, <1>5, <2>1, TotalGrows
  <2>3. /\ Change2(l) \in Int /\ Uncertainty2(l) = l.unc2 + a.unc2
        /\ 2 * (Total(n2) - Total(n1)) - Uncertainty2(l) <= Change2(l)
    BY <1>2, <1>4, <1>5, ChangeCounts
  <2>4. Change2(l) <= Larger(Floor2, Uncertainty2(l))
    BY <1>1, <1>2 DEF Books, Accounts, Floor
  <2>5. PICK x \in Nat, y \in Nat, c \in Int, u \in Nat, v \in Nat :
             /\ x = Total(n1) /\ y = Total(n2) /\ c = Change2(l) /\ u = l.unc2 + a.unc2
             /\ v = Larger(Floor2, u)
    <3>1. l.unc2 \in Nat /\ a.unc2 \in Nat
      BY ReadingFields
    <3>2. l.unc2 + a.unc2 \in Nat /\ Larger(Floor2, l.unc2 + a.unc2) \in Nat
      BY <3>1, ClockAssumption DEF Larger
    <3>3. QED  BY <2>2, <2>3, <3>2
  <2>6. a.unc2 + l.unc2 = u
    <3>1. l.unc2 \in Nat /\ a.unc2 \in Nat
      BY ReadingFields
    <3>2. QED  BY <2>5, <3>1
  <2>7. 2 * len > v + u
    BY <1>2, <1>7, <2>5, <2>6
  <2>8. x + len <= y /\ 2 * (y - x) - u <= c /\ c <= v
    BY <1>7, <2>2, <2>3, <2>4, <2>5
  <2>9. QED  BY ONLY <2>7, <2>8
<1>14. i \in n0 + 1..n1
  BY <1>6, <1>11, <1>13
<1>15. QED  BY <1>4, <1>14

(* A run that reports its coverage complete (finish_suspend_monitoring)    *)
(* missed no sleep that is longer than the readings jitter, whatever the   *)
(* worker did, as long as a sleep takes longer than the brackets of two    *)
(* readings.                                                               *)
THEOREM CompleteMeansComplete == Spec /\ []Sharp => []CoverageHonest
<1>1. Spec /\ []Sharp => []Books
  BY BooksKept
<1>2. Spec => []Timeline
  BY TimelineKept
<1>3. Spec => []IInv
  BY Invariance
<1>4. Spec => []Ends
  BY EndsKept
<1>5. IInv /\ Timeline /\ Books /\ Ends => CoverageHonest
  BY BooksCover
<1>6. QED  BY <1>1, <1>2, <1>3, <1>4, <1>5, PTL
=============================================================================
