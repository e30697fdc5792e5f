------------------------ MODULE SleepOwnershipProofs ------------------------
(***************************************************************************)
(* Who records a sleep, and under which name: the safety of SleepOwnership *)
(* for any number of processes, operations, sleeps and restarts of the     *)
(* service.                                                                *)
(***************************************************************************)
EXTENDS SleepOwnership, FiniteSetTheorems, SequenceTheorems, WellFoundedInduction, TLAPS

-----------------------------------------------------------------------------
(* Types *)

Readings == [slept : Nat, mono : Nat]
Intervals == [first : Nat, last : Nat, lower : Nat, upper : Nat]
Monitors == [latest : Readings \cup {Nothing}, taken : Readings \cup {Nothing},
             intervals : Seq(Intervals)]
JournalRecords == [what : {"start", "stop"}, process : Processes, stamp : Nat,
                   kind : Kinds \cup {"none"}, good : BOOLEAN]
Records == [by : Collectors, first : Nat, last : Nat, kind : Kinds \cup {Unknown}]
Sleeps == [kind : Kinds \cup {"none"}, owner : Collectors \cup {Nothing}, excused : BOOLEAN]

TMachine ==
    /\ mono \in Nat /\ operations \in Nat
    /\ running \in [Processes -> [kind : Kinds \cup {"none"}, slept : BOOLEAN]]
    /\ journal \in Seq(JournalRecords)
TSleeps == sleeps \in Seq(Sleeps)
TMonitor == monitor \in [Collectors -> Monitors]
TRecords == records \in Seq(Records)
TControl ==
    /\ state \in [Collectors -> {"off", "ready", "up", "closing", "read"}]
    /\ starts \in Nat /\ localDelegated \in BOOLEAN
    /\ switching \in {"no", "leaving", "reset", "returning"}

Types == TMachine /\ TSleeps /\ TMonitor /\ TRecords /\ TControl

-----------------------------------------------------------------------------
(* What a monitor holds, told of its value m: s sleeps have been and the   *)
(* monotonic clock shows t.                                                *)

(* Its readings are of the past and in order, its intervals lie one after  *)
(* the other, and nothing it holds is later than its last observation or   *)
(* than the reading on its way.                                            *)
Sound(m, s, t) ==
    /\ m.latest # Nothing => m.latest.slept <= s /\ m.latest.mono <= t
    /\ m.taken # Nothing => m.taken.slept <= s /\ m.taken.mono <= t
    /\ m.latest # Nothing /\ m.taken # Nothing => m.latest.slept <= m.taken.slept
    /\ m.latest = Nothing => m.intervals = <<>>
    /\ \A n \in 1..Len(m.intervals) :
           /\ 1 <= m.intervals[n].first /\ m.intervals[n].first <= m.intervals[n].last
           /\ m.intervals[n].lower <= t /\ m.intervals[n].upper <= t
           /\ m.latest # Nothing => m.intervals[n].last <= m.latest.slept
           /\ \A k \in 1..n - 1 : m.intervals[k].last < m.intervals[n].first

(* Its reading on the way, or all it holds, is past the sleep number h: it *)
(* cannot find that sleep any more.                                        *)
TakenPast(h, m) == m.taken # Nothing => h <= m.taken.slept
Past(h, m) ==
    /\ TakenPast(h, m)
    /\ m.latest # Nothing => h <= m.latest.slept
    /\ \A n \in 1..Len(m.intervals) : h < m.intervals[n].first

(* What a step may do to a monitor when the clocks read r.                 *)
Moves(m, r) ==
    {m, [m EXCEPT !.taken = r], [m EXCEPT !.taken = Nothing], [m EXCEPT !.intervals = <<>>],
     [m EXCEPT !.latest = Nothing, !.intervals = <<>>], NoMonitor, Observed(m, r)}
    \cup (IF m.taken = Nothing THEN {} ELSE {Observed(m, m.taken)})

-----------------------------------------------------------------------------
(* The invariant behind OwnedOnce *)

MonitorsSound == \A c \in Collectors : Sound(monitor[c], Len(sleeps), mono)

OffIsEmpty == state["service"] = "off" => monitor["service"] = NoMonitor

(* The records of a collector lie one after the other, and its monitor is  *)
(* past them.                                                              *)
Books ==
    \A k \in 1..Len(records) :
        /\ 1 <= records[k].first /\ records[k].first <= records[k].last
        /\ records[k].last <= Len(sleeps)
        /\ Past(records[k].last, monitor[records[k].by])
        /\ \A l \in 1..k - 1 : records[l].by = records[k].by => records[l].last < records[k].first

Covers(k, i) == records[k].first <= i /\ i <= records[k].last

(* The monitor of the other collector is past a sleep that has an owner;   *)
(* while the run delegates, its monitor may yet find it, and forget it.    *)
Excluded ==
    \A i \in 1..Len(sleeps) :
        /\ sleeps[i].owner = "local" => Past(i, monitor["service"])
        /\ sleeps[i].owner = "service" =>
               /\ TakenPast(i, monitor["local"])
               /\ ~localDelegated => Past(i, monitor["local"])
        /\ \A k \in 1..Len(records) :
               Covers(k, i) => sleeps[i].owner \in {records[k].by, Nothing}

Shares == MonitorsSound /\ OffIsEmpty /\ Books /\ Excluded

-----------------------------------------------------------------------------
(* The invariant behind NamesAreEarned *)

SameProcess(j, a, b) == j[a].process = j[b].process
LastOfProcess(j, a) == \A b \in 1..Len(j) : b > a => ~SameProcess(j, a, b)
NextOfProcess(j, a, b) ==
    /\ b \in 1..Len(j) /\ a < b /\ SameProcess(j, a, b)
    /\ \A d \in 1..Len(j) : a < d /\ d < b => ~SameProcess(j, a, d)

(* A reading, of `slept' sleeps at time t, agrees with record a of journal *)
(* j being the start of the operation of sleep i: it follows the start if  *)
(* it counts the sleep, and precedes the stop if it does not.              *)
Agrees(i, j, a, slept, t) ==
    /\ i <= slept => j[a].stamp < t
    /\ slept < i => \A b \in 1..Len(j) : b > a /\ SameProcess(j, a, b) => t < j[b].stamp

AllAgree(i, j, a, m) ==
    /\ m.latest # Nothing => Agrees(i, j, a, m.latest.slept, m.latest.mono)
    /\ m.taken # Nothing => Agrees(i, j, a, m.taken.slept, m.taken.mono)
    /\ \A n \in 1..Len(m.intervals) :
           /\ Agrees(i, j, a, m.intervals[n].first - 1, m.intervals[n].lower)
           /\ Agrees(i, j, a, m.intervals[n].last, m.intervals[n].upper)

(* The machine slept for the operation that record a starts.               *)
Operation(i, a) ==
    /\ a \in 1..Len(journal) /\ journal[a].what = "start"
    /\ journal[a].kind = sleeps[i].kind
    /\ \/ LastOfProcess(journal, a) /\ running[journal[a].process] # Idle
       \/ \E b \in 1..Len(journal) : NextOfProcess(journal, a, b) /\ journal[b].what = "stop"
    /\ \A c \in Collectors : AllAgree(i, journal, a, monitor[c])

(* Every sleep belongs to an operation, every operation under way has its  *)
(* start in the journal, and every operation that slept has its sleep.     *)
Operations ==
    /\ \A a \in 1..Len(journal) : journal[a].stamp < mono
    /\ \A i \in 1..Len(sleeps) : \E a \in 1..Len(journal) : Operation(i, a)
    /\ \A p \in Processes : running[p] # Idle =>
           \E a \in 1..Len(journal) :
               /\ journal[a].what = "start" /\ journal[a].process = p
               /\ journal[a].kind = running[p].kind
               /\ LastOfProcess(journal, a)
               /\ running[p].slept => \E i \in 1..Len(sleeps) : Operation(i, a)
    /\ \A b \in 1..Len(journal) : journal[b].what = "stop" /\ journal[b].good =>
           \E a \in 1..Len(journal) :
               /\ NextOfProcess(journal, a, b)
               /\ \E i \in 1..Len(sleeps) : Operation(i, a)

-----------------------------------------------------------------------------
(* What the steps of a monitor preserve *)

LEMMA MonitorFields ==
  ASSUME NEW m \in Monitors
  PROVE  /\ m.latest # Nothing => m.latest \in Readings
         /\ m.taken # Nothing => m.taken \in Readings
         /\ m.intervals \in Seq(Intervals) /\ Len(m.intervals) \in Nat
         /\ DOMAIN m.intervals = 1..Len(m.intervals)
         /\ \A n \in 1..Len(m.intervals) :
                /\ m.intervals[n] \in Intervals
                /\ m.intervals[n].first \in Nat /\ m.intervals[n].last \in Nat
                /\ m.intervals[n].lower \in Nat /\ m.intervals[n].upper \in Nat
<1>1. m.intervals \in Seq(Intervals)
  BY DEF Monitors
<1>2. \A n \in 1..Len(m.intervals) : m.intervals[n] \in Intervals
  BY <1>1, ElementOfSeq
<1>3. QED  BY <1>1, <1>2, LenProperties DEF Monitors, Intervals

(* An observation: the intervals are those held, and perhaps a new one.    *)
LEMMA Observation ==
  ASSUME NEW m \in Monitors, NEW r \in Readings, NEW s, NEW t, Sound(m, s, t)
  PROVE  LET o == Observed(m, r) IN
         /\ o \in Monitors /\ o.latest = r /\ o.taken = Nothing
         /\ \/ o.intervals = m.intervals
            \/ /\ m.latest # Nothing /\ m.latest.slept < r.slept
               /\ Len(o.intervals) = Len(m.intervals) + 1
               /\ \A n \in 1..Len(m.intervals) : o.intervals[n] = m.intervals[n]
               /\ o.intervals[Len(m.intervals) + 1] =
                      [first |-> m.latest.slept + 1, last |-> r.slept,
                       lower |-> m.latest.mono, upper |-> r.mono]
<1> DEFINE new == [first |-> m.latest.slept + 1, last |-> r.slept,
                   lower |-> m.latest.mono, upper |-> r.mono]
<1>1. r.slept \in Nat /\ r.mono \in Nat
  BY DEF Readings
<1>2. CASE m.latest # Nothing /\ r.slept > m.latest.slept
  <2>1. m.latest.slept \in Nat /\ m.latest.mono \in Nat
    BY <1>2, MonitorFields DEF Readings
  <2>2. new \in Intervals
    BY <1>1, <2>1 DEF Intervals
  <2>3. Observed(m, r) = [latest |-> r, taken |-> Nothing, intervals |-> Append(m.intervals, new)]
    BY <1>2 DEF Observed
  <2>4. m.intervals \in Seq(Intervals)
    BY MonitorFields
  <2> HIDE DEF new
  <2>5. /\ Append(m.intervals, new) \in Seq(Intervals)
        /\ Len(Append(m.intervals, new)) = Len(m.intervals) + 1
        /\ \A n \in 1..Len(m.intervals) : Append(m.intervals, new)[n] = m.intervals[n]
        /\ Append(m.intervals, new)[Len(m.intervals) + 1] = new
    BY <2>2, <2>4, AppendProperties
  <2>6. Observed(m, r) \in Monitors
    BY <2>3, <2>5 DEF Monitors
  <2>7. m.latest.slept < r.slept
    BY <1>1, <1>2, <2>1
  <2>8. QED  BY <1>2, <2>3, <2>5, <2>6, <2>7 DEF new
<1>3. CASE ~ (m.latest # Nothing /\ r.slept > m.latest.slept)
  BY <1>3, MonitorFields DEF Observed, Monitors
<1>4. QED  BY <1>2, <1>3

(* ... which leaves the monitor sound when the reading is no older than    *)
(* what the monitor has seen, ...                                          *)
LEMMA ObservationSound ==
  ASSUME NEW m \in Monitors, NEW r \in Readings, NEW s \in Nat, NEW t \in Nat, Sound(m, s, t),
         r.slept <= s, r.mono <= t, m.latest # Nothing => m.latest.slept <= r.slept
  PROVE  Sound(Observed(m, r), s, t)
<1> DEFINE o == Observed(m, r)
           L == Len(m.intervals)
<1>1. r.slept \in Nat /\ r.mono \in Nat
  BY DEF Readings
<1>2. CASE o.intervals = m.intervals
  <2>1. \A n \in 1..Len(m.intervals) : m.intervals[n].last <= r.slept
    <3>1. CASE m.latest # Nothing
      BY <1>1, <3>1, MonitorFields DEF Sound, Readings
    <3>2. CASE m.latest = Nothing
      BY <3>2, EmptySeq DEF Sound
    <3>3. QED  BY <3>1, <3>2
  <2>2. o.latest = r /\ o.taken = Nothing
    BY Observation
  <2> HIDE DEF o
  <2>3. ASSUME NEW n \in 1..Len(o.intervals)
        PROVE  /\ 1 <= o.intervals[n].first /\ o.intervals[n].first <= o.intervals[n].last
               /\ o.intervals[n].lower <= t /\ o.intervals[n].upper <= t
               /\ o.intervals[n].last <= r.slept
               /\ \A k \in 1..n - 1 : o.intervals[k].last < o.intervals[n].first
    BY <1>2, <2>1 DEF Sound
  <2>4. QED  BY <2>2, <2>3, SleepOwnershipAssumption DEF Sound, Readings, o
<1>3. CASE o.intervals # m.intervals
  <2>1. /\ m.latest # Nothing /\ m.latest.slept < r.slept
        /\ Len(o.intervals) = L + 1
        /\ \A n \in 1..L : o.intervals[n] = m.intervals[n]
        /\ o.intervals[L + 1] = [first |-> m.latest.slept + 1, last |-> r.slept,
                                lower |-> m.latest.mono, upper |-> r.mono]
        /\ o.latest = r /\ o.taken = Nothing
    BY <1>3, Observation
  <2>2. /\ m.latest.slept \in Nat /\ m.latest.mono \in Nat /\ L \in Nat
        /\ m.latest.mono <= t
        /\ \A n \in 1..L : /\ m.intervals[n].first \in Nat /\ m.intervals[n].last \in Nat
                           /\ m.intervals[n].last <= m.latest.slept
    BY <2>1, MonitorFields DEF Readings, Sound
  <2> HIDE DEF o, L
  <2>3. ASSUME NEW n \in 1..Len(o.intervals)
        PROVE  /\ 1 <= o.intervals[n].first /\ o.intervals[n].first <= o.intervals[n].last
               /\ o.intervals[n].lower <= t /\ o.intervals[n].upper <= t
               /\ o.intervals[n].last <= r.slept
               /\ \A k \in 1..n - 1 : o.intervals[k].last < o.intervals[n].first
    <3>1. CASE n \in 1..L
      <4>1. o.intervals[n] = m.intervals[n] /\ \A k \in 1..n - 1 : o.intervals[k] = m.intervals[k]
        BY <2>1, <2>2, <3>1
      <4>2. m.intervals[n].last <= r.slept
        BY <1>1, <2>1, <2>2, <3>1
      <4>3. QED  BY <3>1, <4>1, <4>2 DEF Sound, L
    <3>2. CASE n = L + 1
      <4>1. ASSUME NEW k \in 1..n - 1
            PROVE  o.intervals[k].last < o.intervals[n].first
        <5>1. k \in 1..L
          BY <2>2, <3>2
        <5>2. o.intervals[k].last <= m.latest.slept /\ o.intervals[k].last \in Nat
          BY <2>1, <2>2, <5>1
        <5>3. o.intervals[n].first = m.latest.slept + 1
          BY <2>1, <3>2
        <5>4. QED  BY <2>2, <5>2, <5>3
      <4>2. /\ o.intervals[n].first = m.latest.slept + 1 /\ o.intervals[n].last = r.slept
            /\ o.intervals[n].lower = m.latest.mono /\ o.intervals[n].upper = r.mono
        BY <2>1, <3>2
      <4>3. QED  BY <1>1, <2>1, <2>2, <4>1, <4>2
    <3>3. QED  BY <2>1, <2>2, <3>1, <3>2
  <2>4. QED  BY <1>1, <2>1, <2>3, SleepOwnershipAssumption DEF Sound, Readings, o
<1>4. QED  BY <1>2, <1>3

(* ... and as far past every sleep as it was, ...                          *)
LEMMA ObservationPast ==
  ASSUME NEW m \in Monitors, NEW r \in Readings, NEW s, NEW t, Sound(m, s, t),
         NEW h \in Nat, h <= r.slept, Past(h, m)
  PROVE  Past(h, Observed(m, r))
<1> DEFINE o == Observed(m, r)
           L == Len(m.intervals)
<1>1. o.latest = r /\ o.taken = Nothing
  BY Observation
<1>2. ASSUME NEW n \in 1..Len(o.intervals) PROVE h < o.intervals[n].first
  <2>1. CASE o.intervals = m.intervals
    BY <2>1 DEF Past
  <2>2. CASE o.intervals # m.intervals
    <3>0. /\ m.latest # Nothing
          /\ Len(o.intervals) = L + 1
          /\ \A k \in 1..L : o.intervals[k] = m.intervals[k]
          /\ o.intervals[L + 1] = [first |-> m.latest.slept + 1, last |-> r.slept,
                                  lower |-> m.latest.mono, upper |-> r.mono]
      BY <2>2, Observation
    <3>1. /\ m.latest # Nothing
          /\ Len(o.intervals) = L + 1
          /\ \A k \in 1..L : o.intervals[k] = m.intervals[k]
          /\ o.intervals[L + 1].first = m.latest.slept + 1
      BY <3>0
    <3>2. L \in Nat /\ m.latest.slept \in Nat /\ h <= m.latest.slept
      BY <3>1, MonitorFields DEF Past, Readings
    <3> HIDE DEF o
    <3>3. CASE n \in 1..L
      BY <3>1, <3>3 DEF Past
    <3>4. CASE n = L + 1
      BY <3>1, <3>2, <3>4
    <3>5. QED  BY <3>1, <3>2, <3>3, <3>4
  <2>3. QED  BY <2>1, <2>2
<1> HIDE DEF o
<1>3. QED  BY <1>1, <1>2 DEF Past, TakenPast, o

(* ... and in agreement with an operation if the reading is.               *)
LEMMA ObservationAgrees ==
  ASSUME NEW m \in Monitors, NEW r \in Readings, NEW s, NEW t, Sound(m, s, t),
         NEW i, NEW j, NEW a, AllAgree(i, j, a, m), Agrees(i, j, a, r.slept, r.mono)
  PROVE  AllAgree(i, j, a, Observed(m, r))
<1> DEFINE o == Observed(m, r)
           L == Len(m.intervals)
<1>1. o.latest = r /\ o.taken = Nothing
  BY Observation
<1>2. ASSUME NEW n \in 1..Len(o.intervals)
      PROVE  /\ Agrees(i, j, a, o.intervals[n].first - 1, o.intervals[n].lower)
             /\ Agrees(i, j, a, o.intervals[n].last, o.intervals[n].upper)
  <2>1. CASE o.intervals = m.intervals
    BY <2>1 DEF AllAgree
  <2>2. CASE o.intervals # m.intervals
    <3>0. /\ m.latest # Nothing
          /\ Len(o.intervals) = L + 1
          /\ \A k \in 1..L : o.intervals[k] = m.intervals[k]
          /\ o.intervals[L + 1] = [first |-> m.latest.slept + 1, last |-> r.slept,
                                  lower |-> m.latest.mono, upper |-> r.mono]
      BY <2>2, Observation
    <3>1. /\ m.latest # Nothing
          /\ Len(o.intervals) = L + 1
          /\ \A k \in 1..L : o.intervals[k] = m.intervals[k]
          /\ o.intervals[L + 1].first = m.latest.slept + 1
          /\ o.intervals[L + 1].lower = m.latest.mono
          /\ o.intervals[L + 1].last = r.slept /\ o.intervals[L + 1].upper = r.mono
      BY <3>0
    <3>2. L \in Nat /\ m.latest.slept \in Nat
      BY <3>1, MonitorFields DEF Readings
    <3> HIDE DEF o
    <3>3. CASE n \in 1..L
      BY <3>1, <3>3 DEF AllAgree
    <3>4. CASE n = L + 1
      <4>1. o.intervals[n].first - 1 = m.latest.slept
        BY <3>1, <3>2, <3>4
      <4>2. Agrees(i, j, a, m.latest.slept, m.latest.mono)
        BY <3>1 DEF AllAgree
      <4>3. QED  BY <3>1, <3>4, <4>1, <4>2
    <3>5. QED  BY <3>1, <3>2, <3>3, <3>4
  <2>3. QED  BY <2>1, <2>2
<1> HIDE DEF o
<1>3. QED  BY <1>1, <1>2 DEF AllAgree, o

(* The same of every step of a monitor at the present reading.             *)
LEMMA MoveCases ==
  ASSUME NEW m \in Monitors, NEW r, NEW x \in Moves(m, r)
  PROVE  \/ x = m
         \/ x = [latest |-> m.latest, taken |-> r, intervals |-> m.intervals]
         \/ x = [latest |-> m.latest, taken |-> Nothing, intervals |-> m.intervals]
         \/ x = [latest |-> m.latest, taken |-> m.taken, intervals |-> <<>>]
         \/ x = [latest |-> Nothing, taken |-> m.taken, intervals |-> <<>>]
         \/ x = [latest |-> Nothing, taken |-> Nothing, intervals |-> <<>>]
         \/ x = Observed(m, r)
         \/ m.taken # Nothing /\ x = Observed(m, m.taken)
BY DEF Moves, Monitors, NoMonitor

LEMMA MovesSound ==
  ASSUME NEW m \in Monitors, NEW r \in Readings, Sound(m, r.slept, r.mono),
         NEW x \in Moves(m, r)
  PROVE  x \in Monitors /\ Sound(x, r.slept, r.mono)
<1>1. r.slept \in Nat /\ r.mono \in Nat /\ m.intervals \in Seq(Intervals)
  BY MonitorFields DEF Readings
<1>2. CASE x = Observed(m, r)
  <2>1. r.slept <= r.slept /\ r.mono <= r.mono
        /\ m.latest # Nothing => m.latest.slept <= r.slept
    BY <1>1 DEF Sound
  <2>2. x \in Monitors
    BY <1>2, Observation
  <2>3. Sound(x, r.slept, r.mono)
    BY <1>1, <1>2, <2>1, ObservationSound
  <2>4. QED  BY <2>2, <2>3
<1>3. CASE m.taken # Nothing /\ x = Observed(m, m.taken)
  <2>1. /\ m.taken \in Readings /\ m.taken.slept <= r.slept /\ m.taken.mono <= r.mono
        /\ m.latest # Nothing => m.latest.slept <= m.taken.slept
    BY <1>3, MonitorFields DEF Sound
  <2>2. QED  BY <1>1, <1>3, <2>1, Observation, ObservationSound
<1>4. CASE \/ x = m
           \/ x = [latest |-> m.latest, taken |-> Nothing, intervals |-> m.intervals]
           \/ x = [latest |-> m.latest, taken |-> m.taken, intervals |-> <<>>]
           \/ x = [latest |-> Nothing, taken |-> m.taken, intervals |-> <<>>]
           \/ x = [latest |-> Nothing, taken |-> Nothing, intervals |-> <<>>]
  <2>1. x \in Monitors
    <3>1. <<>> \in Seq(Intervals)
      OBVIOUS
    <3>2. /\ m.latest \in Readings \cup {Nothing} /\ m.taken \in Readings \cup {Nothing}
          /\ Nothing \in Readings \cup {Nothing}
      BY DEF Monitors
    <3>3. \A l, k \in Readings \cup {Nothing}, q \in Seq(Intervals) :
              [latest |-> l, taken |-> k, intervals |-> q] \in Monitors
      BY DEF Monitors
    <3>4. QED  BY <1>1, <1>4, <3>1, <3>2, <3>3
  <2>2. Len(<<>>) = 0
    BY EmptySeq
  <2>3. QED  BY <1>4, <2>1, <2>2 DEF Sound
<1>5. CASE x = [latest |-> m.latest, taken |-> r, intervals |-> m.intervals]
  <2>1. x \in Monitors
    BY <1>5 DEF Monitors
  <2>2. QED  BY <1>1, <1>5, <2>1 DEF Sound
<1>6. QED  BY <1>2, <1>3, <1>4, <1>5, MoveCases

LEMMA MovesPast ==
  ASSUME NEW m \in Monitors, NEW r \in Readings, Sound(m, r.slept, r.mono),
         NEW x \in Moves(m, r), NEW h \in Nat, h <= r.slept
  PROVE  /\ TakenPast(h, m) => TakenPast(h, x)
         /\ Past(h, m) => Past(h, x)
<1>1. Len(<<>>) = 0
  BY EmptySeq
<1>2. CASE x = Observed(m, r)
  BY <1>2, Observation, ObservationPast DEF TakenPast
<1>3. CASE m.taken # Nothing /\ x = Observed(m, m.taken)
  <2>1. m.taken \in Readings
    BY <1>3, MonitorFields
  <2>2. Past(h, m) => h <= m.taken.slept
    BY <1>3 DEF Past, TakenPast
  <2>3. Observed(m, m.taken).taken = Nothing
    BY <2>1, Observation
  <2>4. QED  BY <1>3, <2>1, <2>2, <2>3, ObservationPast DEF TakenPast
<1>4. CASE \/ x = m
           \/ x = [latest |-> m.latest, taken |-> Nothing, intervals |-> m.intervals]
           \/ x = [latest |-> m.latest, taken |-> m.taken, intervals |-> <<>>]
           \/ x = [latest |-> Nothing, taken |-> m.taken, intervals |-> <<>>]
           \/ x = [latest |-> Nothing, taken |-> Nothing, intervals |-> <<>>]
           \/ x = [latest |-> m.latest, taken |-> r, intervals |-> m.intervals]
  BY <1>1, <1>4 DEF Past, TakenPast
<1>5. QED  BY <1>2, <1>3, <1>4, MoveCases

LEMMA MovesAgree ==
  ASSUME NEW m \in Monitors, NEW r \in Readings, Sound(m, r.slept, r.mono),
         NEW x \in Moves(m, r), NEW i, NEW j, NEW a,
         AllAgree(i, j, a, m), Agrees(i, j, a, r.slept, r.mono)
  PROVE  AllAgree(i, j, a, x)
<1>1. Len(<<>>) = 0
  BY EmptySeq
<1>2. CASE x = Observed(m, r)
  BY <1>2, ObservationAgrees
<1>3. CASE m.taken # Nothing /\ x = Observed(m, m.taken)
  <2>1. m.taken \in Readings
    BY <1>3, MonitorFields
  <2>2. Agrees(i, j, a, m.taken.slept, m.taken.mono)
    BY <1>3 DEF AllAgree
  <2>3. QED  BY <1>3, <2>1, <2>2, ObservationAgrees
<1>4. CASE \/ x = m
           \/ x = [latest |-> m.latest, taken |-> Nothing, intervals |-> m.intervals]
           \/ x = [latest |-> m.latest, taken |-> m.taken, intervals |-> <<>>]
           \/ x = [latest |-> Nothing, taken |-> m.taken, intervals |-> <<>>]
           \/ x = [latest |-> Nothing, taken |-> Nothing, intervals |-> <<>>]
           \/ x = [latest |-> m.latest, taken |-> r, intervals |-> m.intervals]
  BY <1>1, <1>4 DEF AllAgree
<1>5. QED  BY <1>2, <1>3, <1>4, MoveCases

(* Time passes and the machine sleeps: a sound monitor stays sound.        *)
LEMMA SoundLater ==
  ASSUME NEW m \in Monitors, NEW s \in Nat, NEW t \in Nat, NEW s2 \in Nat, NEW t2 \in Nat,
         s <= s2, t <= t2, Sound(m, s, t)
  PROVE  Sound(m, s2, t2)
BY MonitorFields DEF Sound, Readings

-----------------------------------------------------------------------------
(* The steps, seen from the monitors, the sleeps and the records *)

SleepsKept ==
    /\ Len(sleeps') = Len(sleeps)
    /\ \A i \in 1..Len(sleeps) :
           sleeps'[i].kind = sleeps[i].kind /\ sleeps'[i].owner = sleeps[i].owner

LEMMA ExcuseKeeps ==
  ASSUME TSleeps, NEW these, Excuse(these)
  PROVE  TSleeps' /\ SleepsKept
<1>1. /\ sleeps \in Seq(Sleeps) /\ DOMAIN sleeps = 1..Len(sleeps) /\ Len(sleeps) \in Nat
      /\ \A i \in 1..Len(sleeps) : sleeps[i] \in Sleeps
  BY ElementOfSeq, LenProperties DEF TSleeps
<1>2. ASSUME NEW i \in 1..Len(sleeps)
      PROVE  /\ sleeps'[i] \in Sleeps /\ sleeps'[i].kind = sleeps[i].kind
             /\ sleeps'[i].owner = sleeps[i].owner
  BY <1>1 DEF Excuse, Sleeps
<1>3. sleeps' \in [1..Len(sleeps) -> Sleeps]
  <2>1. sleeps' = [i \in 1..Len(sleeps) |-> sleeps'[i]]
    BY <1>1 DEF Excuse
  <2>2. QED  BY <1>2, <2>1
<1>4. sleeps' \in Seq(Sleeps) /\ Len(sleeps') = Len(sleeps)
  BY <1>1, <1>3, SeqDef, LenProperties
<1>5. QED  BY <1>2, <1>4 DEF TSleeps, SleepsKept

LEMMA NoExcuse == TSleeps /\ sleeps' = sleeps => TSleeps' /\ SleepsKept
BY DEF TSleeps, SleepsKept

(* The steps of the machine, ...                                           *)
Machine ==
    \/ UNCHANGED vars
    \/ \E p \in Processes :
           Sleep(p) \/ EndOperation(p) \/ \E kind \in Kinds : BeginOperation(p, kind)

(* ... those of the collectors that add no record, ...                     *)
Watching ==
    \/ \E c \in Collectors : WorkerReads(c) \/ WorkerObserves(c) \/ Baseline(c)
                             \/ Close(c) \/ FinalReading(c)
    \/ Probe \/ StartService \/ KillService

(* ... and those that may.                                                 *)
Draining(c) == Drains(c) \/ FinalDrain(c) \/ (c = "local" /\ DrainBeforeHandoff)

LEMMA NextCases ==
  [Next]_vars => \/ Machine \/ Watching \/ ResetMonitor
                 \/ \E c \in Collectors : Draining(c)
BY DEF Next, Machine, Watching, Draining, Collectors

LEMMA ReadingNow == TMachine /\ TSleeps => ClockReading \in Readings /\ ClockReading.slept = Len(sleeps)
                                           /\ ClockReading.mono = mono
BY LenProperties DEF TMachine, TSleeps, ClockReading, Readings

LEMMA WatchingSteps ==
  ASSUME Types, Watching
  PROVE  /\ TSleeps' /\ SleepsKept /\ TControl'
         /\ UNCHANGED <<mono, running, journal, operations, records, localDelegated>>
         /\ monitor' = [c \in Collectors |-> monitor'[c]]
         /\ \A c \in Collectors : monitor'[c] \in Moves(monitor[c], ClockReading)
<1> USE DEF Types, TMonitor, TControl, machine
<1>1. ASSUME NEW c \in Collectors, WorkerReads(c) \/ WorkerObserves(c)
      PROVE  /\ UNCHANGED <<sleeps, mono, running, journal, operations, records, localDelegated,
                            state, starts, switching>>
             /\ monitor' = [d \in Collectors |-> monitor'[d]]
             /\ \A d \in Collectors : monitor'[d] \in Moves(monitor[d], ClockReading)
  BY <1>1 DEF WorkerReads, WorkerObserves, Moves
<1>2. ASSUME NEW c \in Collectors, Baseline(c) \/ FinalReading(c) \/ Close(c)
      PROVE  /\ UNCHANGED <<sleeps, mono, running, journal, operations, records, localDelegated,
                            starts, switching>>
             /\ state' \in [Collectors -> {"off", "ready", "up", "closing", "read"}]
             /\ monitor' = [d \in Collectors |-> monitor'[d]]
             /\ \A d \in Collectors : monitor'[d] \in Moves(monitor[d], ClockReading)
  BY <1>2 DEF Baseline, FinalReading, Close, Moves
<1>3. CASE Probe
  BY <1>3, NoExcuse DEF Probe, Moves
<1>4. CASE StartService
  <2>1. TSleeps' /\ SleepsKept
    BY <1>4, ExcuseKeeps DEF StartService
  <2>2. /\ state' \in [Collectors -> {"off", "ready", "up", "closing", "read"}]
        /\ starts' \in Nat
    <3>1. state' = [state EXCEPT !["service"] = "ready"] /\ starts' = starts + 1
      BY <1>4 DEF StartService
    <3>2. /\ state \in [Collectors -> {"off", "ready", "up", "closing", "read"}]
          /\ starts \in Nat
      OBVIOUS
    <3>3. starts' \in Nat
      BY ONLY <3>1, <3>2
    <3>4. state' \in [Collectors -> {"off", "ready", "up", "closing", "read"}]
      BY <3>1, <3>2
    <3>5. QED  BY <3>3, <3>4
  <2>3. UNCHANGED <<mono, running, journal, operations, records, localDelegated, switching, monitor>>
    BY <1>4 DEF StartService
  <2>4. QED  BY <2>1, <2>2, <2>3 DEF Moves
<1>5. CASE KillService
  BY <1>5, ExcuseKeeps DEF KillService, Moves
<1>6. QED  BY <1>1, <1>2, <1>3, <1>4, <1>5, NoExcuse DEF Watching

LEMMA ResetSteps ==
  ASSUME Types, ResetMonitor
  PROVE  /\ UNCHANGED <<machine, state, records>> /\ TControl'
         /\ monitor' = [c \in Collectors |-> monitor'[c]]
         /\ \A c \in Collectors : monitor'[c] \in Moves(monitor[c], ClockReading)
         /\ monitor'["local"].latest = Nothing /\ monitor'["local"].intervals = <<>>
         /\ monitor'["local"].taken = monitor["local"].taken
BY DEF ResetMonitor, Types, TMonitor, TControl, Monitors, Collectors, Moves

LEMMA DrainSteps ==
  ASSUME Types, NEW c \in Collectors, Draining(c)
  PROVE  /\ UNCHANGED <<machine, localDelegated>> /\ TControl' /\ DrainSleep(c)
         /\ monitor' = [d \in Collectors |-> monitor'[d]]
         /\ \A d \in Collectors : monitor'[d] \in Moves(monitor[d], ClockReading)
         /\ monitor'[c].intervals = <<>>
         /\ monitor'[c].latest \in {monitor[c].latest, Nothing}
         /\ monitor'[c].taken \in {monitor[c].taken, Nothing}
         /\ \A d \in Collectors : d # c => monitor'[d] = monitor[d]
<1> USE DEF Types, TMonitor, TControl, Monitors
<1>1. CASE Drains(c)
  BY <1>1 DEF Drains, Moves
<1>2. CASE FinalDrain(c)
  BY <1>2 DEF FinalDrain, Moves, NoMonitor
<1>3. CASE c = "local" /\ DrainBeforeHandoff
  BY <1>3 DEF DrainBeforeHandoff, Moves
<1>4. QED  BY <1>1, <1>2, <1>3 DEF Draining


(* What a drain adds: the intervals held, in order, or nothing.            *)
LEMMA NameOfType == ASSUME NEW j, NEW interval PROVE NameOf(j, interval) \in Kinds \cup {Unknown}
BY DEF NameOf, Succeeded

LEMMA DrainAdds ==
  ASSUME Types, NEW c \in Collectors, DrainSleep(c)
  PROVE  LET held == monitor[c].intervals IN
         /\ TRecords'
         /\ \/ records' = records
            \/ /\ ~Yields(c)
               /\ Len(records') = Len(records) + Len(held)
               /\ \A k \in 1..Len(records) : records'[k] = records[k]
               /\ \E found \in Readable : \A n \in 1..Len(held) :
                      records'[Len(records) + n] = Recorded(c, held[n], found)
<1> DEFINE held == monitor[c].intervals
           Added(found) == [i \in DOMAIN held |-> Recorded(c, held[i], found)]
<1>1. /\ monitor[c] \in Monitors /\ held \in Seq(Intervals) /\ Len(held) \in Nat
      /\ DOMAIN held = 1..Len(held)
      /\ records \in Seq(Records)
      /\ \A n \in 1..Len(held) : held[n].first \in Nat /\ held[n].last \in Nat
  BY MonitorFields DEF Types, TMonitor, TRecords
<1>2. CASE Yields(c)
  BY <1>1, <1>2 DEF DrainSleep, TRecords
<1>3. CASE ~Yields(c)
  <2>1. PICK found \in Readable : records' = records \o Added(found)
    BY <1>3 DEF DrainSleep
  <2>2. \A n \in 1..Len(held) : Recorded(c, held[n], found) \in Records
    BY <1>1, NameOfType DEF Recorded, Records
  <2>3. Added(found) \in [1..Len(held) -> Records]
    BY <1>1, <2>2
  <2>4. Added(found) \in Seq(Records) /\ Len(Added(found)) = Len(held)
    BY <1>1, <2>3, SeqDef, LenProperties
  <2>5. \A n \in 1..Len(held) : Added(found)[n] = Recorded(c, held[n], found)
    BY <1>1
  <2> DEFINE added == Added(found)
  <2>6. /\ added \in Seq(Records) /\ Len(added) = Len(held) /\ records' = records \o added
        /\ \A n \in 1..Len(held) : added[n] = Recorded(c, held[n], found)
    BY <2>1, <2>4, <2>5
  <2> HIDE DEF added, Added, held
  <2>7. /\ records' \in Seq(Records) /\ Len(records') = Len(records) + Len(added)
        /\ \A k \in 1..Len(records) : records'[k] = records[k]
    <3>1. Len(records) \in Nat /\ Len(added) \in Nat
      BY <1>1, <2>6, LenProperties
    <3>2. \A k \in 1..Len(records) : k \in 1..Len(records) + Len(added) /\ k <= Len(records)
      BY <3>1
    <3>3. QED  BY <1>1, <2>6, <3>2, ConcatProperties
  <2>8. \A n \in 1..Len(held) : records'[Len(records) + n] = added[n]
    <3>1. ASSUME NEW n \in 1..Len(held) PROVE records'[Len(records) + n] = added[n]
      <4>1. Len(records) \in Nat /\ Len(added) \in Nat
        BY <1>1, <2>6, LenProperties
      <4>2. Len(records) + n \in 1..Len(records) + Len(added) /\ Len(records) + n > Len(records)
        BY <1>1, <2>6, <4>1
      <4>3. (Len(records) + n) - Len(records) = n
        BY <1>1, <4>1
      <4>4. QED  BY <1>1, <2>6, <4>2, <4>3, ConcatProperties
    <3>2. QED  BY <3>1
  <2>9. QED  BY <1>3, <2>6, <2>7, <2>8 DEF TRecords, held
<1>4. QED  BY <1>2, <1>3


(* The machine: a sleep is added with the owner of the moment, or a record *)
(* of the journal, or nothing.                                             *)
LEMMA SleepAdds ==
  ASSUME TMachine, TSleeps, NEW p \in Processes, Sleep(p)
  PROVE  /\ TMachine' /\ TSleeps'
         /\ Len(sleeps') = Len(sleeps) + 1
         /\ \A i \in 1..Len(sleeps) : sleeps'[i] = sleeps[i]
         /\ sleeps'[Len(sleeps) + 1].owner = Owner
         /\ sleeps'[Len(sleeps) + 1].kind = running[p].kind
<1> DEFINE new == [kind |-> running[p].kind, owner |-> Owner, excused |-> FALSE]
<1>1. running[p].kind \in Kinds \cup {"none"}
  BY DEF TMachine
<1>2. new \in Sleeps
  BY <1>1 DEF Sleeps, Owner, Collectors
<1>3. sleeps \in Seq(Sleeps) /\ sleeps' = Append(sleeps, new)
  BY DEF TSleeps, Sleep
<1>4. TMachine'
  BY DEF TMachine, Sleep
<1>5. new.owner = Owner /\ new.kind = running[p].kind
  OBVIOUS
<1> HIDE DEF new
<1>6. QED  BY <1>2, <1>3, <1>4, <1>5, AppendProperties DEF TSleeps

LEMMA WriteAdds ==
  ASSUME TMachine, NEW record \in JournalRecords, Write(record)
  PROVE  /\ journal' \in Seq(JournalRecords) /\ Len(journal') = Len(journal) + 1
         /\ \A a \in 1..Len(journal) : journal'[a] = journal[a]
         /\ journal'[Len(journal) + 1] = record
         /\ mono' = mono + 2 /\ mono' \in Nat
BY AppendProperties DEF TMachine, Write

LEMMA BeginAdds ==
  ASSUME TMachine, NEW p \in Processes, NEW kind \in Kinds, BeginOperation(p, kind)
  PROVE  /\ TMachine'
         /\ Write([what |-> "start", process |-> p, stamp |-> mono + 1, kind |-> kind, good |-> TRUE])
         /\ [what |-> "start", process |-> p, stamp |-> mono + 1, kind |-> kind, good |-> TRUE]
                \in JournalRecords
<1>1. [what |-> "start", process |-> p, stamp |-> mono + 1, kind |-> kind, good |-> TRUE]
          \in JournalRecords
  BY DEF TMachine, JournalRecords
<1>2. Write([what |-> "start", process |-> p, stamp |-> mono + 1, kind |-> kind, good |-> TRUE])
  BY DEF BeginOperation
<1>3. running' \in [Processes -> [kind : Kinds \cup {"none"}, slept : BOOLEAN]]
  BY DEF TMachine, BeginOperation
<1>4. operations' \in Nat
  BY DEF TMachine, BeginOperation
<1>5. QED  BY <1>1, <1>2, <1>3, <1>4, WriteAdds DEF TMachine

LEMMA EndAdds ==
  ASSUME TMachine, NEW p \in Processes, EndOperation(p)
  PROVE  /\ TMachine'
         /\ Write([what |-> "stop", process |-> p, stamp |-> mono + 1,
                   kind |-> running[p].kind, good |-> running[p].slept])
         /\ [what |-> "stop", process |-> p, stamp |-> mono + 1,
             kind |-> running[p].kind, good |-> running[p].slept] \in JournalRecords
<1>1. [what |-> "stop", process |-> p, stamp |-> mono + 1,
       kind |-> running[p].kind, good |-> running[p].slept] \in JournalRecords
  BY DEF TMachine, JournalRecords
<1>2. Write([what |-> "stop", process |-> p, stamp |-> mono + 1,
             kind |-> running[p].kind, good |-> running[p].slept])
  BY DEF EndOperation
<1>3. running' \in [Processes -> [kind : Kinds \cup {"none"}, slept : BOOLEAN]]
  BY DEF TMachine, EndOperation, Idle
<1>4. operations' \in Nat
  BY DEF TMachine, EndOperation
<1>5. QED  BY <1>1, <1>2, <1>3, <1>4, WriteAdds DEF TMachine

LEMMA MachineSteps ==
  ASSUME Types, Machine
  PROVE  /\ UNCHANGED collectors /\ TMachine' /\ TSleeps'
         /\ Len(sleeps) \in Nat /\ Len(sleeps') \in Nat /\ mono \in Nat /\ mono' \in Nat
         /\ Len(sleeps) <= Len(sleeps') /\ mono <= mono'
         /\ \A i \in 1..Len(sleeps) : sleeps'[i] = sleeps[i]
         /\ \A i \in 1..Len(sleeps') :
                \/ i \in 1..Len(sleeps)
                \/ i = Len(sleeps) + 1 /\ sleeps'[i].owner = Owner
<1> USE DEF Types
<1>1. Len(sleeps) \in Nat /\ mono \in Nat
  BY LenProperties DEF TSleeps, TMachine
<1>2. CASE UNCHANGED vars
  <2>1. UNCHANGED collectors /\ UNCHANGED machine
    BY <1>2 DEF vars
  <2>2. TMachine' /\ TSleeps' /\ mono' = mono /\ sleeps' = sleeps
    BY <2>1 DEF machine, TMachine, TSleeps
  <2>3. QED  BY <1>1, <2>1, <2>2
<1>3. ASSUME NEW p \in Processes, Sleep(p)
      PROVE  /\ UNCHANGED <<collectors, mono>> /\ TMachine' /\ TSleeps'
             /\ Len(sleeps') = Len(sleeps) + 1
             /\ \A i \in 1..Len(sleeps) : sleeps'[i] = sleeps[i]
             /\ sleeps'[Len(sleeps) + 1].owner = Owner
  BY <1>3, SleepAdds DEF Sleep
<1>4. ASSUME NEW p \in Processes, EndOperation(p) \/ \E kind \in Kinds : BeginOperation(p, kind)
      PROVE  UNCHANGED <<collectors, sleeps>> /\ TMachine' /\ mono' = mono + 2 /\ mono' \in Nat
  BY <1>4, EndAdds, BeginAdds, WriteAdds DEF EndOperation, BeginOperation
<1>5. ASSUME NEW p \in Processes, Sleep(p)
      PROVE  \A i \in 1..Len(sleeps') :
                \/ i \in 1..Len(sleeps)
                \/ i = Len(sleeps) + 1 /\ sleeps'[i].owner = Owner
  <2>1. \A i \in 1..Len(sleeps) + 1 : i \in 1..Len(sleeps) \/ i = Len(sleeps) + 1
    BY <1>1
  <2>2. QED  BY <1>3, <1>5, <2>1
<1>6. CASE \E p \in Processes : Sleep(p)
  BY <1>1, <1>3, <1>5, <1>6
<1>7. CASE \E p \in Processes : EndOperation(p) \/ \E kind \in Kinds : BeginOperation(p, kind)
  <2>1. UNCHANGED <<collectors, sleeps>> /\ TMachine' /\ mono' = mono + 2 /\ mono' \in Nat
    BY <1>4, <1>7
  <2>2. UNCHANGED collectors /\ sleeps' = sleeps /\ TSleeps' /\ mono <= mono'
    BY <1>1, <2>1 DEF TSleeps
  <2>3. QED  BY <1>1, <2>1, <2>2
<1>8. QED  BY <1>2, <1>6, <1>7 DEF Machine


-----------------------------------------------------------------------------
(* Types and sound monitors are inductive.                                 *)
LEMMA InitTyped == Init => Types /\ MonitorsSound
<1> SUFFICES ASSUME Init PROVE Types /\ MonitorsSound
  OBVIOUS
<1>1. NoMonitor \in Monitors /\ NoMonitor.latest = Nothing /\ NoMonitor.taken = Nothing
      /\ NoMonitor.intervals = <<>> /\ Len(NoMonitor.intervals) = 0
  <2>1. <<>> \in Seq(Intervals) /\ Len(<<>>) = 0
    BY EmptySeq
  <2>2. QED  BY <2>1 DEF NoMonitor, Monitors
<1>2. TMachine /\ TSleeps /\ TRecords /\ TControl
  BY EmptySeq DEF Init, TMachine, TSleeps, TRecords, TControl, Idle
<1>3. TMonitor /\ \A c \in Collectors : monitor[c] = NoMonitor
  BY <1>1 DEF Init, TMonitor
<1>4. MonitorsSound
  BY <1>1, <1>3 DEF MonitorsSound, Sound
<1>5. QED  BY <1>2, <1>3, <1>4 DEF Types

LEMMA MonitorsMove ==
  ASSUME Types, MonitorsSound, mono' = mono, Len(sleeps') = Len(sleeps),
         monitor' = [c \in Collectors |-> monitor'[c]],
         \A c \in Collectors : monitor'[c] \in Moves(monitor[c], ClockReading)
  PROVE  TMonitor' /\ MonitorsSound'
<1>1. ASSUME NEW c \in Collectors
      PROVE  monitor'[c] \in Monitors /\ Sound(monitor'[c], Len(sleeps), mono)
  <2>1. monitor[c] \in Monitors /\ Sound(monitor[c], Len(sleeps), mono)
    BY DEF Types, TMonitor, MonitorsSound
  <2>2. /\ ClockReading \in Readings /\ ClockReading.slept = Len(sleeps)
        /\ ClockReading.mono = mono
    BY ReadingNow DEF Types
  <2>3. QED  BY <2>1, <2>2, MovesSound
<1>2. TMonitor'
  BY <1>1 DEF TMonitor
<1>3. QED  BY <1>1, <1>2 DEF MonitorsSound

LEMMA TypesStep == Types /\ MonitorsSound /\ [Next]_vars => Types' /\ MonitorsSound'
<1> SUFFICES ASSUME Types, MonitorsSound, [Next]_vars PROVE Types' /\ MonitorsSound'
  OBVIOUS
<1>1. CASE Machine
  <2>1. /\ UNCHANGED collectors /\ TMachine' /\ TSleeps'
        /\ Len(sleeps) \in Nat /\ Len(sleeps') \in Nat /\ mono \in Nat /\ mono' \in Nat
        /\ Len(sleeps) <= Len(sleeps') /\ mono <= mono'
    BY <1>1, MachineSteps
  <2>2. TMonitor' /\ TRecords' /\ TControl' /\ monitor' = monitor
    BY <2>1 DEF collectors, Types, TMonitor, TRecords, TControl
  <2>3. \A c \in Collectors : monitor[c] \in Monitors /\ Sound(monitor[c], Len(sleeps), mono)
    BY DEF Types, TMonitor, MonitorsSound
  <2>4. MonitorsSound'
    BY <2>1, <2>2, <2>3, SoundLater DEF MonitorsSound
  <2>5. QED  BY <2>1, <2>2, <2>4 DEF Types
<1>2. CASE Watching
  <2>1. /\ TSleeps' /\ SleepsKept /\ TControl'
        /\ UNCHANGED <<mono, running, journal, operations, records>>
        /\ TMonitor' /\ MonitorsSound'
    BY <1>2, WatchingSteps, MonitorsMove DEF SleepsKept
  <2>2. TMachine' /\ TRecords'
    BY <2>1 DEF Types, TMachine, TRecords
  <2>3. QED  BY <2>1, <2>2 DEF Types
<1>3. CASE ResetMonitor
  <2>1. UNCHANGED <<machine, records>> /\ TControl'
    BY <1>3, ResetSteps
  <2>2. TMachine' /\ TSleeps' /\ TRecords' /\ mono' = mono /\ sleeps' = sleeps
    BY <2>1 DEF machine, Types, TMachine, TSleeps, TRecords
  <2>3. TMonitor' /\ MonitorsSound'
    BY <1>3, <2>2, ResetSteps, MonitorsMove
  <2>4. QED  BY <2>1, <2>2, <2>3 DEF Types
<1>4. ASSUME NEW c \in Collectors, Draining(c) PROVE Types' /\ MonitorsSound'
  <2>1. UNCHANGED machine /\ TControl' /\ DrainSleep(c)
    BY <1>4, DrainSteps
  <2>2. TMachine' /\ TSleeps' /\ mono' = mono /\ sleeps' = sleeps
    BY <2>1 DEF machine, Types, TMachine, TSleeps
  <2>3. TMonitor' /\ MonitorsSound'
    BY <1>4, <2>2, DrainSteps, MonitorsMove
  <2>4. TRecords'
    BY <2>1, DrainAdds
  <2>5. QED  BY <2>1, <2>2, <2>3, <2>4 DEF Types
<1>5. QED  BY <1>1, <1>2, <1>3, <1>4, NextCases

(* Every variable keeps its type.                                          *)
THEOREM TypeCorrect == Spec => []Types
<1>1. Spec => [](Types /\ MonitorsSound)
  BY InitTyped, TypesStep, PTL DEF Spec
<1>2. QED  BY <1>1, PTL

-----------------------------------------------------------------------------
(* The service has no monitor while it is off.                             *)
LEMMA OffStep == OffIsEmpty /\ Types /\ [Next]_vars => OffIsEmpty'
<1> SUFFICES ASSUME OffIsEmpty, Types, [Next]_vars PROVE OffIsEmpty'
  OBVIOUS
<1> USE DEF OffIsEmpty, Types, TMonitor, TControl, Collectors
<1>1. CASE Machine
  BY <1>1, MachineSteps DEF collectors
<1>2. CASE \E c \in Collectors : WorkerReads(c) \/ WorkerObserves(c) \/ Baseline(c)
                                 \/ Close(c) \/ FinalReading(c)
  BY <1>2 DEF WorkerReads, WorkerObserves, Baseline, Close, FinalReading
<1>3. CASE Probe \/ StartService \/ KillService
  BY <1>3 DEF Probe, StartService, KillService
<1>4. CASE ResetMonitor
  BY <1>4 DEF ResetMonitor
<1>5. CASE \E c \in Collectors : Draining(c)
  BY <1>5 DEF Draining, Drains, FinalDrain, DrainBeforeHandoff
<1>6. QED  BY <1>1, <1>2, <1>3, <1>4, <1>5, NextCases DEF Watching


-----------------------------------------------------------------------------
(* The books of the collectors *)

PastKept ==
    \A c \in Collectors, h \in Nat : h <= Len(sleeps) =>
        /\ TakenPast(h, monitor[c]) => TakenPast(h, monitor'[c])
        /\ Past(h, monitor[c]) => Past(h, monitor'[c])

LEMMA MovesKeepPast ==
  ASSUME Types, MonitorsSound,
         \A c \in Collectors : monitor'[c] \in Moves(monitor[c], ClockReading)
  PROVE  PastKept
<1>1. /\ ClockReading \in Readings /\ ClockReading.slept = Len(sleeps)
      /\ ClockReading.mono = mono
  BY ReadingNow DEF Types
<1>2. \A c \in Collectors : monitor[c] \in Monitors /\ Sound(monitor[c], Len(sleeps), mono)
  BY DEF Types, TMonitor, MonitorsSound
<1>3. QED  BY <1>1, <1>2, MovesPast DEF PastKept

LEMMA RecordFields ==
  ASSUME TRecords
  PROVE  /\ Len(records) \in Nat /\ DOMAIN records = 1..Len(records)
         /\ \A k \in 1..Len(records) :
                /\ records[k] \in Records /\ records[k].by \in Collectors
                /\ records[k].first \in Nat /\ records[k].last \in Nat
<1>1. \A k \in 1..Len(records) : records[k] \in Records
  BY ElementOfSeq DEF TRecords
<1>2. Len(records) \in Nat /\ DOMAIN records = 1..Len(records)
  BY LenProperties DEF TRecords
<1>3. QED  BY <1>1, <1>2 DEF Records

LEMMA BooksFrame ==
  ASSUME Types, Books, PastKept, records' = records,
         Len(sleeps') \in Nat, Len(sleeps) <= Len(sleeps')
  PROVE  Books'
<1>1. Len(sleeps) \in Nat
  BY LenProperties DEF Types, TSleeps
<1>2. ASSUME NEW k \in 1..Len(records)
      PROVE  /\ records[k].last <= Len(sleeps')
             /\ Past(records[k].last, monitor'[records[k].by])
  BY <1>1, RecordFields DEF Types, Books, PastKept
<1>3. QED  BY <1>2 DEF Books

(* What a drain files: intervals in order, past all that was filed, and    *)
(* behind what the monitor is left with.                                   *)
LEMMA Held ==
  ASSUME Types, MonitorsSound, NEW c \in Collectors, NEW n \in 1..Len(monitor[c].intervals)
  PROVE  LET m == monitor[c]
             v == m.intervals[n] IN
         /\ m \in Monitors /\ n \in Nat
         /\ v.first \in Nat /\ v.last \in Nat /\ Len(sleeps) \in Nat
         /\ 1 <= v.first /\ v.first <= v.last /\ v.last <= Len(sleeps)
         /\ m.latest # Nothing
         /\ v.last <= m.latest.slept
         /\ TakenPast(v.last, m)
         /\ \A k \in 1..n - 1 : m.intervals[k].last < v.first
<1> DEFINE m == monitor[c]
           v == m.intervals[n]
<1>1. m \in Monitors /\ Sound(m, Len(sleeps), mono)
  BY DEF Types, TMonitor, MonitorsSound
<1>2. /\ v.first \in Nat /\ v.last \in Nat /\ Len(m.intervals) \in Nat
      /\ m.latest # Nothing => m.latest.slept \in Nat
      /\ m.taken # Nothing => m.taken.slept \in Nat
  BY <1>1, MonitorFields DEF Readings
<1>3. Len(sleeps) \in Nat
  BY LenProperties DEF Types, TSleeps
<1>4. m.latest # Nothing
  <2>1. CASE m.intervals = <<>>
    BY <2>1, EmptySeq
  <2>2. QED  BY <1>1, <2>1 DEF Sound
<1>5. v.last <= m.latest.slept /\ m.latest.slept <= Len(sleeps)
  BY <1>1, <1>4 DEF Sound
<1>6. TakenPast(v.last, m)
  BY <1>1, <1>2, <1>4, <1>5 DEF Sound, TakenPast
<1>7. QED  BY <1>1, <1>2, <1>3, <1>4, <1>5, <1>6 DEF Sound

LEMMA BooksStep == Types /\ MonitorsSound /\ Books /\ [Next]_vars => Books'
<1> SUFFICES ASSUME Types, MonitorsSound, Books, [Next]_vars PROVE Books'
  OBVIOUS
<1>0. Len(sleeps) \in Nat /\ Len(records) \in Nat
  BY LenProperties DEF Types, TSleeps, TRecords
<1>1. CASE Machine
  <2>1. /\ UNCHANGED collectors
        /\ Len(sleeps') \in Nat /\ Len(sleeps) <= Len(sleeps')
    BY <1>1, MachineSteps
  <2>2. records' = records /\ monitor' = monitor
    BY <2>1 DEF collectors
  <2>3. PastKept
    BY <2>2 DEF PastKept
  <2>4. QED  BY <2>1, <2>2, <2>3, BooksFrame
<1>2. CASE Watching \/ ResetMonitor
  <2>1. /\ records' = records /\ Len(sleeps') = Len(sleeps)
        /\ \A c \in Collectors : monitor'[c] \in Moves(monitor[c], ClockReading)
    BY <1>2, WatchingSteps, ResetSteps DEF SleepsKept, machine
  <2>2. PastKept
    BY <2>1, MovesKeepPast
  <2>3. QED  BY <1>0, <2>1, <2>2, BooksFrame
<1>3. ASSUME NEW c \in Collectors, Draining(c) PROVE Books'
  <2> DEFINE held == monitor[c].intervals
             R == Len(records)
  <2>1. /\ sleeps' = sleeps /\ DrainSleep(c)
        /\ \A d \in Collectors : monitor'[d] \in Moves(monitor[d], ClockReading)
        /\ monitor'[c].intervals = <<>>
        /\ monitor'[c].taken \in {monitor[c].taken, Nothing}
        /\ monitor'[c].latest \in {monitor[c].latest, Nothing}
    BY <1>3, DrainSteps DEF machine
  <2>2. PastKept
    BY <2>1, MovesKeepPast
  <2>3. CASE records' = records
    BY <1>0, <2>1, <2>2, <2>3, BooksFrame
  <2>4. CASE records' # records
    <3>1. /\ Len(records') = R + Len(held)
          /\ \A k \in 1..R : records'[k] = records[k]
          /\ \A n \in 1..Len(held) : /\ records'[R + n].by = c
                                     /\ records'[R + n].first = held[n].first
                                     /\ records'[R + n].last = held[n].last
      <4>1. PICK found \in Readable :
                /\ Len(records') = R + Len(held)
                /\ \A k \in 1..R : records'[k] = records[k]
                /\ \A n \in 1..Len(held) : records'[R + n] = Recorded(c, held[n], found)
        BY <2>1, <2>4, DrainAdds
      <4>2. \A n \in 1..Len(held) : /\ Recorded(c, held[n], found).by = c
                                   /\ Recorded(c, held[n], found).first = held[n].first
                                   /\ Recorded(c, held[n], found).last = held[n].last
        BY DEF Recorded
      <4>3. QED  BY <4>1, <4>2
    <3>2. /\ Len(held) \in Nat /\ R \in Nat /\ c \in Collectors
          /\ \A k \in 1..R : records[k].first \in Nat /\ records[k].last \in Nat
                             /\ records[k].by \in Collectors
      BY <1>0, RecordFields, MonitorFields DEF Types, TMonitor
    <3>3. ASSUME NEW k \in 1..R
          PROVE  /\ 1 <= records'[k].first /\ records'[k].first <= records'[k].last
                 /\ records'[k].last <= Len(sleeps')
                 /\ Past(records'[k].last, monitor'[records'[k].by])
                 /\ \A l \in 1..k - 1 : records'[l].by = records'[k].by =>
                        records'[l].last < records'[k].first
      <4>1. \A l \in 1..k - 1 : records'[l] = records[l]
        BY <3>1, <3>2
      <4>2. Past(records[k].last, monitor'[records[k].by])
        BY <2>2, <3>2 DEF Books, PastKept
      <4>3. QED  BY <2>1, <3>1, <4>1, <4>2 DEF Books
    <3>4. ASSUME NEW n \in 1..Len(held)
          PROVE  LET k == R + n IN
                 /\ 1 <= records'[k].first /\ records'[k].first <= records'[k].last
                 /\ records'[k].last <= Len(sleeps')
                 /\ Past(records'[k].last, monitor'[records'[k].by])
                 /\ \A l \in 1..k - 1 : records'[l].by = records'[k].by =>
                        records'[l].last < records'[k].first
      <4>1. /\ held[n].first \in Nat /\ held[n].last \in Nat /\ n \in Nat
            /\ 1 <= held[n].first /\ held[n].first <= held[n].last /\ held[n].last <= Len(sleeps)
            /\ held[n].last <= monitor[c].latest.slept /\ TakenPast(held[n].last, monitor[c])
            /\ \A k \in 1..n - 1 : held[k].last < held[n].first
        BY Held
      <4>2. Past(held[n].last, monitor'[c])
        <5>1. Len(monitor'[c].intervals) = 0
          BY <2>1, EmptySeq
        <5>2. QED  BY <2>1, <4>1, <5>1 DEF Past, TakenPast
      <4>3. ASSUME NEW l \in 1..(R + n) - 1, records'[l].by = c
            PROVE  records'[l].last < held[n].first
        <5>1. CASE l \in 1..R
          <6>1. records'[l] = records[l] /\ Past(records[l].last, monitor[c])
            BY <3>1, <4>3, <5>1 DEF Books
          <6>2. QED  BY <6>1 DEF Past
        <5>2. CASE l \notin 1..R
          <6>1. l - R \in 1..n - 1 /\ R + (l - R) = l
            BY <3>2, <4>1, <5>2
          <6>2. l - R \in 1..Len(held)
            BY <3>2, <4>1, <6>1
          <6> DEFINE q == l - R
          <6>3. q \in 1..Len(held) /\ q \in 1..n - 1 /\ l = R + q
            BY <6>1, <6>2
          <6> HIDE DEF q
          <6>4. records'[l].last = held[q].last
            BY <3>1, <6>3
          <6>5. QED  BY <4>1, <6>3, <6>4
        <5>3. QED  BY <5>1, <5>2
      <4>4. QED  BY <2>1, <3>1, <4>1, <4>2, <4>3
    <3>5. ASSUME NEW k \in 1..Len(records')
          PROVE  k \in 1..R \/ \E n \in 1..Len(held) : k = R + n
      <4>1. k \notin 1..R => k - R \in 1..Len(held) /\ k = R + (k - R)
        BY <3>1, <3>2
      <4>2. QED  BY <4>1
    <3>6. QED  BY <3>3, <3>4, <3>5 DEF Books
  <2>5. QED  BY <2>3, <2>4
<1>4. QED  BY <1>1, <1>2, <1>3, NextCases


-----------------------------------------------------------------------------
(* A sleep that has an owner stays out of reach of the other collector.    *)

OwnedFrom(i) ==
    /\ sleeps[i].owner = "local" => Past(i, monitor["service"])
    /\ sleeps[i].owner = "service" =>
           /\ TakenPast(i, monitor["local"])
           /\ ~localDelegated => Past(i, monitor["local"])

OwnersRecord(i, k) == Covers(k, i) => sleeps[i].owner \in {records[k].by, Nothing}

LEMMA ExcludedParts ==
  Excluded <=> \A i \in 1..Len(sleeps) :
                   OwnedFrom(i) /\ \A k \in 1..Len(records) : OwnersRecord(i, k)
BY DEF Excluded, OwnedFrom, OwnersRecord

LEMMA ExcludedPartsPrimed ==
  Excluded' <=> \A i \in 1..Len(sleeps') :
                    OwnedFrom(i)' /\ \A k \in 1..Len(records') : OwnersRecord(i, k)'
BY DEF Excluded, OwnedFrom, OwnersRecord

LEMMA OwnedFromKept ==
  ASSUME PastKept, Len(sleeps) \in Nat, NEW i \in 1..Len(sleeps), OwnedFrom(i),
         sleeps'[i].owner = sleeps[i].owner,
         localDelegated' = localDelegated \/ Past(i, monitor'["local"]) \/ localDelegated'
  PROVE  OwnedFrom(i)'
<1>1. i \in Nat /\ i <= Len(sleeps) /\ "local" \in Collectors /\ "service" \in Collectors
  BY DEF Collectors
<1>2. QED  BY <1>1 DEF OwnedFrom, PastKept

LEMMA SleepFields ==
  ASSUME TSleeps
  PROVE  /\ Len(sleeps) \in Nat /\ DOMAIN sleeps = 1..Len(sleeps)
         /\ \A i \in 1..Len(sleeps) : sleeps[i].owner \in {"local", "service", Nothing}
<1>1. \A i \in 1..Len(sleeps) : sleeps[i] \in Sleeps
  BY ElementOfSeq DEF TSleeps
<1>2. Len(sleeps) \in Nat /\ DOMAIN sleeps = 1..Len(sleeps)
  BY LenProperties DEF TSleeps
<1>3. QED  BY <1>1, <1>2 DEF Sleeps, Collectors

LEMMA ExcludedStep ==
  Types /\ Shares /\ [Next]_vars => Excluded'
<1> SUFFICES ASSUME Types, Shares, [Next]_vars PROVE Excluded'
  OBVIOUS
<1>0. /\ Len(sleeps) \in Nat /\ Len(records) \in Nat
      /\ \A i \in 1..Len(sleeps) : sleeps[i].owner \in {"local", "service", Nothing}
      /\ \A k \in 1..Len(records) : records[k].first \in Nat /\ records[k].last \in Nat
      /\ MonitorsSound /\ OffIsEmpty /\ Books
      /\ \A i \in 1..Len(sleeps) :
             OwnedFrom(i) /\ \A k \in 1..Len(records) : OwnersRecord(i, k)
  BY SleepFields, RecordFields, ExcludedParts DEF Types, Shares
<1>1. CASE Machine
  <2>1. /\ UNCHANGED collectors
        /\ Len(sleeps') \in Nat /\ Len(sleeps) <= Len(sleeps')
        /\ \A i \in 1..Len(sleeps) : sleeps'[i] = sleeps[i]
        /\ \A i \in 1..Len(sleeps') : \/ i \in 1..Len(sleeps)
                                      \/ i = Len(sleeps) + 1 /\ sleeps'[i].owner = Owner
    BY <1>1, MachineSteps
  <2>2. records' = records /\ monitor' = monitor /\ localDelegated' = localDelegated
    BY <2>1 DEF collectors
  <2>3. ASSUME NEW i \in 1..Len(sleeps)
        PROVE  OwnedFrom(i)' /\ \A k \in 1..Len(records') : OwnersRecord(i, k)'
    <3>1. OwnedFrom(i) /\ \A k \in 1..Len(records) : OwnersRecord(i, k)
      BY <1>0
    <3>2. QED  BY <2>1, <2>2, <3>1 DEF OwnedFrom, OwnersRecord, Covers
  <2>4. ASSUME NEW i \in 1..Len(sleeps'), i = Len(sleeps) + 1, sleeps'[i].owner = Owner
        PROVE  OwnedFrom(i)' /\ \A k \in 1..Len(records') : OwnersRecord(i, k)'
    <3>1. \A k \in 1..Len(records) : ~Covers(k, i)
      <4>1. \A k \in 1..Len(records) : records[k].last <= Len(sleeps)
        BY <1>0 DEF Books
      <4>2. QED  BY <1>0, <2>4, <4>1 DEF Covers
    <3>2. OwnedFrom(i)'
      <4>1. CASE Owner = "local"
        <5>1. state["service"] = "off"
          BY <4>1, SleepOwnershipAssumption DEF Owner, Collectors
        <5>2. monitor["service"] = NoMonitor
          BY <1>0, <5>1 DEF OffIsEmpty
        <5>3. Past(i, NoMonitor)
          BY EmptySeq DEF Past, TakenPast, NoMonitor
        <5>4. QED  BY <2>2, <2>4, <4>1, <5>2, <5>3 DEF OwnedFrom
      <4>2. CASE Owner = "service"
        <5>1. localDelegated /\ monitor["local"].taken = Nothing
          BY <4>2, SleepOwnershipAssumption DEF Owner, Collectors
        <5>2. QED  BY <2>2, <2>4, <4>2, <5>1 DEF OwnedFrom, TakenPast
      <4>3. CASE Owner = Nothing
        BY <2>4, <4>3, SleepOwnershipAssumption DEF OwnedFrom, Collectors
      <4>4. QED  BY <4>1, <4>2, <4>3 DEF Owner
    <3>3. QED  BY <2>2, <3>1, <3>2 DEF OwnersRecord, Covers
  <2>5. QED  BY <2>1, <2>3, <2>4, ExcludedPartsPrimed
<1>2. CASE Watching \/ ResetMonitor
  <2>1. /\ records' = records /\ SleepsKept
        /\ \A c \in Collectors : monitor'[c] \in Moves(monitor[c], ClockReading)
    BY <1>2, WatchingSteps, ResetSteps DEF SleepsKept, machine
  <2>2. PastKept
    BY <2>1, <1>0, MovesKeepPast
  <2>3. ASSUME NEW i \in 1..Len(sleeps) PROVE OwnedFrom(i)'
    <3>1. CASE localDelegated' = localDelegated
      BY <1>0, <2>1, <2>2, <3>1, OwnedFromKept DEF SleepsKept
    <3>2. CASE ResetMonitor
      <4>1. /\ monitor'["local"].latest = Nothing /\ monitor'["local"].intervals = <<>>
            /\ monitor'["local"].taken = monitor["local"].taken
        BY <3>2, ResetSteps
      <4>2. TakenPast(i, monitor["local"]) => Past(i, monitor'["local"])
        BY <4>1, EmptySeq DEF Past, TakenPast
      <4>3. Past(i, monitor["service"]) => Past(i, monitor'["service"])
        BY <1>0, <2>2 DEF PastKept, Collectors
      <4>4. Past(i, monitor'["local"]) => TakenPast(i, monitor'["local"])
        BY DEF Past
      <4>5. OwnedFrom(i) /\ sleeps'[i].owner = sleeps[i].owner
        BY <1>0, <2>1 DEF SleepsKept
      <4>6. QED  BY <4>2, <4>3, <4>4, <4>5 DEF OwnedFrom
    <3>3. QED  BY <1>2, <3>1, <3>2, WatchingSteps
  <2>4. \A i \in 1..Len(sleeps) : \A k \in 1..Len(records') : OwnersRecord(i, k)'
    BY <1>0, <2>1 DEF OwnersRecord, Covers, SleepsKept
  <2>5. QED  BY <2>1, <2>3, <2>4, ExcludedPartsPrimed DEF SleepsKept
<1>3. ASSUME NEW c \in Collectors, Draining(c) PROVE Excluded'
  <2> DEFINE held == monitor[c].intervals
             R == Len(records)
  <2>1. /\ sleeps' = sleeps /\ localDelegated' = localDelegated /\ DrainSleep(c)
        /\ \A d \in Collectors : monitor'[d] \in Moves(monitor[d], ClockReading)
    BY <1>3, DrainSteps DEF machine
  <2>2. PastKept
    BY <2>1, <1>0, MovesKeepPast
  <2>3. \A i \in 1..Len(sleeps) : OwnedFrom(i)'
    BY <1>0, <2>1, <2>2, OwnedFromKept
  <2>4. CASE records' = records
    <3>1. \A i \in 1..Len(sleeps) : \A k \in 1..Len(records') : OwnersRecord(i, k)'
      BY <1>0, <2>1, <2>4 DEF OwnersRecord, Covers
    <3>2. QED  BY <2>1, <2>3, <3>1, ExcludedPartsPrimed
  <2>5. CASE records' # records
    <3>1. PICK found \in Readable :
              /\ ~Yields(c) /\ Len(records') = R + Len(held)
              /\ \A k \in 1..R : records'[k] = records[k]
              /\ \A n \in 1..Len(held) : records'[R + n] = Recorded(c, held[n], found)
      BY <2>1, <2>5, DrainAdds
    <3>2. \A n \in 1..Len(held) : /\ Recorded(c, held[n], found).by = c
                                 /\ Recorded(c, held[n], found).first = held[n].first
                                 /\ Recorded(c, held[n], found).last = held[n].last
      BY DEF Recorded
    <3>3. Len(held) \in Nat
      BY MonitorFields DEF Types, TMonitor
    <3>4. ASSUME NEW i \in 1..Len(sleeps), NEW k \in 1..Len(records') PROVE OwnersRecord(i, k)'
      <4>1. CASE k \in 1..R
        BY <1>0, <2>1, <3>1, <4>1 DEF OwnersRecord, Covers
      <4>2. CASE k \notin 1..R
        <5> DEFINE n == k - R
        <5>1. n \in 1..Len(held) /\ k = R + n
          BY <1>0, <3>1, <3>3, <4>2
        <5> HIDE DEF n
        <5>2. /\ records'[k].by = c /\ records'[k].first = held[n].first
              /\ records'[k].last = held[n].last
          BY <3>1, <3>2, <5>1
        <5>3. CASE sleeps[i].owner \notin {c, Nothing}
          <6>1. Past(i, monitor[c])
            BY <1>0, <3>1, <5>3 DEF OwnedFrom, Yields, Collectors
          <6>2. i < held[n].first
            BY <5>1, <6>1 DEF Past
          <6>3. held[n].first \in Nat
            BY <5>1, Held, <1>0
          <6>4. QED  BY <2>1, <5>2, <6>2, <6>3 DEF OwnersRecord, Covers
        <5>4. QED  BY <2>1, <5>2, <5>3 DEF OwnersRecord
      <4>3. QED  BY <4>1, <4>2
    <3>5. QED  BY <2>1, <2>3, <3>4, ExcludedPartsPrimed
  <2>6. QED  BY <2>4, <2>5
<1>4. QED  BY <1>1, <1>2, <1>3, NextCases

-----------------------------------------------------------------------------
LEMMA InitShares == Init => Shares
<1> SUFFICES ASSUME Init PROVE Shares
  OBVIOUS
<1>1. Len(sleeps) = 0 /\ Len(records) = 0
  BY EmptySeq DEF Init
<1>2. MonitorsSound
  BY InitTyped
<1>3. OffIsEmpty
  BY DEF Init, OffIsEmpty, Collectors
<1>4. QED  BY <1>1, <1>2, <1>3 DEF Shares, Books, Excluded

(* Where the two collectors stand to each other (_Collector and its        *)
(* drains, burnbag_service.py): what is recorded, held or still to be read *)
(* of each sleep, of whom, and whom a change of roles leaves without it.   *)
THEOREM SharesInvariant == Spec => [](Types /\ Shares)
<1>1. Types /\ Shares /\ [Next]_vars => Types' /\ Shares'
  BY TypesStep, OffStep, BooksStep, ExcludedStep DEF Shares
<1>2. QED  BY <1>1, InitTyped, InitShares, PTL DEF Spec

(* However handoffs, restarts and the two threads of each collector        *)
(* interleave, a collector records a sleep at most once, and one that had  *)
(* an owner is recorded by nobody else (_Collector of burnbag_service.py). *)
THEOREM SleepsAreOwnedOnce == Spec => []OwnedOnce
<1>1. Types /\ Shares => OwnedOnce
  <2> SUFFICES ASSUME Types, Shares, NEW i \in 1..Len(sleeps)
               PROVE  /\ \A c \in Collectors :
                             Cardinality({k \in RecordsOf(i) : records[k].by = c}) <= 1
                      /\ sleeps[i].owner # Nothing =>
                             \A k \in RecordsOf(i) : records[k].by = sleeps[i].owner
    BY SleepFields DEF OwnedOnce, Types
  <2>0. /\ Len(records) \in Nat /\ DOMAIN records = 1..Len(records)
        /\ \A k \in 1..Len(records) : records[k].first \in Nat /\ records[k].last \in Nat
        /\ Books /\ Excluded /\ Len(sleeps) \in Nat
    BY RecordFields, SleepFields DEF Types, Shares
  <2>1. RecordsOf(i) = {k \in 1..Len(records) : Covers(k, i)}
    BY <2>0 DEF RecordsOf, Covers
  <2>2. ASSUME NEW c \in Collectors
        PROVE  Cardinality({k \in RecordsOf(i) : records[k].by = c}) <= 1
    <3> DEFINE S == {k \in RecordsOf(i) : records[k].by = c}
    <3>1. ASSUME NEW k \in S, NEW l \in S PROVE k = l
      <4>1. /\ k \in 1..Len(records) /\ l \in 1..Len(records) /\ Covers(k, i) /\ Covers(l, i)
            /\ records[k].by = records[l].by
        BY <2>1
      <4>2. k < l => records[k].last < records[l].first
        BY <2>0, <4>1 DEF Books
      <4>3. l < k => records[l].last < records[k].first
        BY <2>0, <4>1 DEF Books
      <4>4. i \in Nat
        BY <2>0
      <4>5. QED  BY <2>0, <4>1, <4>2, <4>3, <4>4 DEF Covers
    <3> HIDE DEF S
    <3>2. CASE S = {}
      BY <3>2, FS_EmptySet DEF S
    <3>3. CASE S # {}
      <4>1. PICK k \in S : TRUE
        BY <3>3
      <4>2. S = {k}
        BY <3>1, <4>1
      <4>3. Cardinality({k}) = 1
        BY FS_Singleton
      <4>4. Cardinality(S) = 1
        BY <4>2, <4>3
      <4>5. QED  BY <4>4 DEF S
    <3>4. QED  BY <3>2, <3>3
  <2>3. sleeps[i].owner # Nothing => \A k \in RecordsOf(i) : records[k].by = sleeps[i].owner
    BY <2>0, <2>1 DEF Excluded
  <2>4. QED  BY <2>2, <2>3
<1>2. QED  BY <1>1, SharesInvariant, PTL


-----------------------------------------------------------------------------
(* What a reading of the journal says of an interval *)

LEMMA LeastOf ==
  ASSUME NEW S, S \subseteq Nat, S # {}
  PROVE  \E x \in S : \A y \in S : x <= y
<1>1. PICK x \in S : \A y \in S : ~ (<<y, x>> \in OpToRel(<, Nat))
  BY NatLessThanWellFounded, WFMin
<1>2. \A y \in S : ~ (y < x)
  BY <1>1, Zenon DEF OpToRel
<1>3. \A y \in S : x <= y
  BY <1>2
<1>4. QED  BY <1>3

(* The follower of a record is the next one of its process, or 0.          *)
LEMMA FollowerIs ==
  ASSUME NEW j, Len(j) \in Nat, NEW i \in Nat
  PROVE  /\ Follower(j, i) \in Nat
         /\ Follower(j, i) # 0 => i < Follower(j, i) /\ NextOfProcess(j, i, Follower(j, i))
         /\ Follower(j, i) = 0 => LastOfProcess(j, i)
<1> DEFINE later == {b \in i + 1..Len(j) : j[b].process = j[i].process}
<1>1. CASE later = {}
  BY <1>1 DEF Follower, LastOfProcess, SameProcess
<1>2. CASE later # {}
  <2> DEFINE f == CHOOSE b \in later : \A d \in later : b <= d
  <2>1. later \subseteq Nat
    OBVIOUS
  <2>2. f \in later /\ \A d \in later : f <= d
    <3>1. \E b \in later : \A d \in later : b <= d
      <4> HIDE DEF later
      <4>1. QED  BY <1>2, <2>1, LeastOf
    <3> HIDE DEF later
    <3>2. QED  BY <3>1
  <2>3. Follower(j, i) = f
    BY <1>2 DEF Follower
  <2> HIDE DEF f
  <2>4. f \in 1..Len(j) /\ i < f /\ f # 0 /\ SameProcess(j, i, f)
    BY <2>2 DEF SameProcess
  <2>5. \A d \in 1..Len(j) : i < d /\ d < f => ~SameProcess(j, i, d)
    BY <2>2, <2>4 DEF SameProcess
  <2>6. QED  BY <2>3, <2>4, <2>5 DEF NextOfProcess
<1>3. QED  BY <1>1, <1>2

(* A named interval: one complete attempt lies inside, and no other        *)
(* attempt overlaps it.                                                    *)
LEMMA NamedOpening ==
  ASSUME NEW j, Len(j) \in Nat, DOMAIN j = 1..Len(j), NEW v, NameOf(j, v) # Unknown
  PROVE  \E o, c \in 1..Len(j) :
             /\ j[o].what = "start" /\ NextOfProcess(j, o, c)
             /\ j[c].what = "stop" /\ j[c].good
             /\ v.lower <= j[o].stamp /\ j[c].stamp <= v.upper
             /\ NameOf(j, v) = j[o].kind
             /\ \A x \in Attempts(j) : Overlaps(j, x, v) => x = [opening |-> o, closing |-> c]
<1> DEFINE matches == {x \in Attempts(j) : Overlaps(j, x, v)}
           only == CHOOSE x \in matches : TRUE
<1>1. /\ \E x \in matches : matches = {x}
      /\ Succeeded(j, only) /\ Within(j, only, v) /\ NameOf(j, v) = j[only.opening].kind
  BY DEF NameOf
<1>2. only \in Attempts(j) /\ \A x \in matches : x = only
  BY <1>1
<1> HIDE DEF only
<1>3. only.opening # 0 /\ only.closing # 0
      /\ j[only.closing].what = "stop" /\ j[only.closing].good
  BY <1>1 DEF Succeeded
<1>4. PICK o \in 1..Len(j) : j[o].what = "start" /\ only = [opening |-> o, closing |-> Follower(j, o)]
  BY <1>2, <1>3 DEF Attempts
<1>5. Follower(j, o) \in 1..Len(j) /\ NextOfProcess(j, o, Follower(j, o))
  BY <1>3, <1>4, FollowerIs DEF NextOfProcess
<1>6. v.lower <= j[o].stamp /\ j[Follower(j, o)].stamp <= v.upper
  BY <1>1, <1>4 DEF Within
<1>7. QED  BY <1>1, <1>2, <1>3, <1>4, <1>5, <1>6

(* What is read of the journal is all of it after record k.                *)
ReadFrom(found, k) ==
    /\ Len(found) \in Nat /\ DOMAIN found = 1..Len(found)
    /\ k \in Nat /\ Len(found) = Len(journal) - k
    /\ \A i \in 1..Len(found) : i + k \in 1..Len(journal) /\ found[i] = journal[i + k]

LEMMA ReadFromRecord ==
  ASSUME TMachine, NEW k \in 0..Len(journal)
  PROVE  ReadFrom(SubSeq(journal, k + 1, Len(journal)), k)
<1> DEFINE found == SubSeq(journal, k + 1, Len(journal))
<1>1. journal \in Seq(JournalRecords) /\ Len(journal) \in Nat
  BY LenProperties DEF TMachine
<1>2. k \in Nat /\ Len(journal) - k \in Nat
  BY <1>1
<1>3. /\ found \in Seq(JournalRecords)
      /\ Len(found) = Len(journal) - k
      /\ \A i \in 1..Len(journal) - k : found[i] = journal[i + k]
  BY <1>1, <1>2, SubSeqProperties
<1> HIDE DEF found
<1>4. DOMAIN found = 1..Len(found)
  BY <1>3, LenProperties
<1>5. ReadFrom(found, k)
  BY <1>1, <1>2, <1>3, <1>4 DEF ReadFrom
<1>6. QED  BY <1>5 DEF found

LEMMA ReadableIs ==
  ASSUME TMachine, NEW found \in Readable
  PROVE  \/ Len(found) = 0 /\ DOMAIN found = {}
         \/ \E k \in 0..MaxLost :
                ReadFrom(found, k) /\ (k = 0 \/ \A p \in Processes : running[p] = Idle)
<1>1. journal \in Seq(JournalRecords) /\ Len(journal) \in Nat
  BY LenProperties DEF TMachine
<1>2. CASE found = <<>>
  BY <1>2, EmptySeq
<1>3. ASSUME NEW k \in 0..MaxLost, found = SubSeq(journal, k + 1, Len(journal)), k <= Len(journal)
      PROVE  ReadFrom(found, k)
  <2>1. k \in 0..Len(journal)
    BY <1>1, <1>3
  <2>2. QED  BY <1>3, <2>1, ReadFromRecord
<1>4. ASSUME NEW k \in 0..MaxLost, found = SubSeq(journal, k + 1, Len(journal)),
             k > Len(journal)
      PROVE  found = <<>>
  BY <1>1, <1>4, SubSeqProperties, EmptySeq
<1>5. QED
  <2>1. CASE found # <<>>
    <3>1. PICK k \in 0..MaxLost : /\ found = SubSeq(journal, k + 1, Len(journal))
                                  /\ k = 0 \/ \A p \in Processes : running[p] = Idle
      BY <2>1 DEF Readable
    <3>2. k \in Int /\ ~(k > Len(journal))
      BY <1>4, <2>1, <3>1
    <3>3. k <= Len(journal)
      BY <1>1, <3>2
    <3>4. QED  BY <1>3, <3>1, <3>3
  <2>2. QED  BY <1>2, <2>1


(* The records of one process have one order.                              *)
LEMMA OneBefore ==
  ASSUME NEW j, Len(j) \in Nat, NEW a \in 1..Len(j), NEW d \in 1..Len(j), NEW b,
         NextOfProcess(j, a, b), NextOfProcess(j, d, b)
  PROVE  a = d
<1>1. b \in 1..Len(j) /\ a < b /\ d < b /\ SameProcess(j, a, d)
  BY DEF NextOfProcess, SameProcess
<1>2. ~(a < d)
  BY <1>1 DEF NextOfProcess
<1>3. ~(d < a)
  BY <1>1 DEF NextOfProcess, SameProcess
<1>4. QED  BY <1>2, <1>3

LEMMA SameInJournal ==
  ASSUME NEW found, NEW k, ReadFrom(found, k), Len(journal) \in Nat,
         NEW o \in 1..Len(found), NEW c
  PROVE  NextOfProcess(found, o, c) <=> c \in Nat /\ NextOfProcess(journal, o + k, c + k)
<1>1. /\ k \in Nat /\ Len(found) \in Nat /\ Len(found) = Len(journal) - k
      /\ \A i \in 1..Len(found) : i + k \in 1..Len(journal) /\ found[i] = journal[i + k]
  BY DEF ReadFrom
<1>2. ASSUME NextOfProcess(found, o, c)
      PROVE  c \in Nat /\ NextOfProcess(journal, o + k, c + k)
  <2>1. c \in 1..Len(found) /\ o < c /\ found[o].process = found[c].process
    BY <1>2 DEF NextOfProcess, SameProcess
  <2>2. c + k \in 1..Len(journal) /\ o + k < c + k /\ SameProcess(journal, o + k, c + k)
    BY <1>1, <2>1 DEF SameProcess
  <2>3. ASSUME NEW d \in 1..Len(journal), o + k < d, d < c + k
        PROVE  ~SameProcess(journal, o + k, d)
    <3>1. d - k \in 1..Len(found) /\ o < d - k /\ d - k < c /\ (d - k) + k = d
      BY <1>1, <2>1, <2>3
    <3>2. found[d - k] = journal[d]
      BY <1>1, <3>1
    <3>3. ~SameProcess(found, o, d - k)
      BY <1>2, <3>1 DEF NextOfProcess
    <3>4. QED  BY <1>1, <3>2, <3>3 DEF SameProcess
  <2>4. QED  BY <2>1, <2>2, <2>3 DEF NextOfProcess
<1>3. ASSUME c \in Nat, NextOfProcess(journal, o + k, c + k)
      PROVE  NextOfProcess(found, o, c)
  <2>1. /\ c + k \in 1..Len(journal) /\ o + k < c + k
        /\ journal[o + k].process = journal[c + k].process
    BY <1>3 DEF NextOfProcess, SameProcess
  <2>2. c \in 1..Len(found) /\ o < c /\ SameProcess(found, o, c)
    BY <1>1, <1>3, <2>1 DEF SameProcess
  <2>3. ASSUME NEW d \in 1..Len(found), o < d, d < c
        PROVE  ~SameProcess(found, o, d)
    <3>1. d + k \in 1..Len(journal) /\ o + k < d + k /\ d + k < c + k
      BY <1>1, <1>3, <2>3
    <3>2. ~SameProcess(journal, o + k, d + k)
      BY <1>3, <3>1 DEF NextOfProcess
    <3>3. QED  BY <1>1, <3>2 DEF SameProcess
  <2>4. QED  BY <2>2, <2>3 DEF NextOfProcess
<1>4. QED  BY <1>2, <1>3

LEMMA NothingRead ==
  ASSUME NEW found, Len(found) = 0, DOMAIN found = {}, NEW v
  PROVE  NameOf(found, v) = Unknown
BY DEF NameOf, Attempts

LEMMA JournalFields ==
  ASSUME TMachine
  PROVE  /\ Len(journal) \in Nat /\ mono \in Nat
         /\ \A a \in 1..Len(journal) : journal[a] \in JournalRecords /\ journal[a].stamp \in Nat
<1>1. \A a \in 1..Len(journal) : journal[a] \in JournalRecords
  BY ElementOfSeq DEF TMachine
<1>2. Len(journal) \in Nat /\ mono \in Nat
  BY LenProperties DEF TMachine
<1>3. QED  BY <1>1, <1>2 DEF JournalRecords

(* A name given to an interval is that of a sleep in it, whatever part of  *)
(* the journal is read.                                                    *)
LEMMA NamedForOne ==
  ASSUME Types, MonitorsSound, Operations,
         NEW c \in Collectors, NEW n \in 1..Len(monitor[c].intervals), NEW found \in Readable,
         NameOf(found, monitor[c].intervals[n]) # Unknown
  PROVE  LET v == monitor[c].intervals[n] IN
         \E i \in v.first..v.last : i \in 1..Len(sleeps) /\ sleeps[i].kind = NameOf(found, v)
<1> DEFINE v == monitor[c].intervals[n]
<1>1. PICK k \in 0..MaxLost : ReadFrom(found, k)
  BY ReadableIs, NothingRead DEF Types
<1>2. /\ Len(found) \in Nat /\ DOMAIN found = 1..Len(found) /\ Len(journal) \in Nat
      /\ k \in Nat /\ Len(found) = Len(journal) - k
      /\ \A i \in 1..Len(found) : i + k \in 1..Len(journal) /\ found[i] = journal[i + k]
  BY <1>1, JournalFields DEF ReadFrom, Types
<1>3. PICK o, e \in 1..Len(found) :
          /\ found[o].what = "start" /\ NextOfProcess(found, o, e)
          /\ found[e].what = "stop" /\ found[e].good
          /\ v.lower <= found[o].stamp /\ found[e].stamp <= v.upper
          /\ NameOf(found, v) = found[o].kind
  <2> HIDE DEF v
  <2>1. NameOf(found, v) # Unknown
    BY DEF v
  <2>2. QED  BY <1>2, <2>1, NamedOpening
<1>4. /\ o + k \in 1..Len(journal) /\ e + k \in 1..Len(journal)
      /\ found[o] = journal[o + k] /\ found[e] = journal[e + k]
      /\ NextOfProcess(journal, o + k, e + k)
  BY <1>1, <1>2, <1>3, SameInJournal
<1>5. PICK a \in 1..Len(journal) : /\ NextOfProcess(journal, a, e + k)
                                   /\ \E i \in 1..Len(sleeps) : Operation(i, a)
  BY <1>3, <1>4 DEF Operations
<1>6. a = o + k
  BY <1>2, <1>4, <1>5, OneBefore
<1>7. PICK i \in 1..Len(sleeps) : Operation(i, a)
  BY <1>5
<1>8. /\ Agrees(i, journal, a, v.first - 1, v.lower) /\ Agrees(i, journal, a, v.last, v.upper)
      /\ journal[a].kind = sleeps[i].kind
  BY <1>7 DEF Operation, AllAgree
<1>9. /\ journal[a].stamp \in Nat /\ journal[e + k].stamp \in Nat /\ i \in Nat
      /\ v.first \in Nat /\ v.last \in Nat /\ v.lower \in Nat /\ v.upper \in Nat
  <2>1. /\ v.first \in Nat /\ v.last \in Nat /\ v.lower \in Nat /\ v.upper \in Nat
    <3>1. monitor[c] \in Monitors
      BY DEF Types, TMonitor
    <3>2. QED  BY <3>1, MonitorFields
  <2>2. i \in Nat
    <3>1. Len(sleeps) \in Nat
      BY SleepFields DEF Types
    <3>2. QED  BY <3>1
  <2>3. \A b \in 1..Len(journal) : journal[b].stamp \in Nat
    BY JournalFields DEF Types
  <2>4. journal[a].stamp \in Nat /\ journal[e + k].stamp \in Nat
    BY <1>4, <2>3
  <2>5. QED  BY <2>1, <2>2, <2>4
<1> HIDE DEF v
<1>10. v.first <= i
  <2>1. i <= v.first - 1 => journal[a].stamp < v.lower
    BY <1>8 DEF Agrees
  <2> DEFINE opened == journal[a].stamp
  <2>2. opened \in Nat /\ v.lower <= opened
    BY <1>3, <1>4, <1>6, <1>9
  <2>3. ~(i <= v.first - 1)
    <3> SUFFICES ASSUME i <= v.first - 1 PROVE FALSE
      OBVIOUS
    <3>1. opened < v.lower
      BY <2>1
    <3> HIDE DEF opened
    <3>2. QED  BY <1>9, <2>2, <3>1
  <2>4. QED  BY <1>9, <2>3
<1>11. i <= v.last
  <2>1. a < e + k /\ SameProcess(journal, a, e + k)
    BY <1>5 DEF NextOfProcess
  <2>2. v.last < i => v.upper < journal[e + k].stamp
    BY <1>4, <1>8, <2>1 DEF Agrees
  <2> DEFINE closed == journal[e + k].stamp
  <2>3. closed \in Nat /\ closed <= v.upper
    BY <1>3, <1>4, <1>9
  <2>4. ~(v.last < i)
    <3> SUFFICES ASSUME v.last < i PROVE FALSE
      OBVIOUS
    <3>1. v.upper < closed
      BY <2>2
    <3> HIDE DEF closed
    <3>2. QED  BY <1>9, <2>3, <3>1
  <2>5. QED  BY <1>9, <2>4
<1>12. QED  BY <1>3, <1>4, <1>6, <1>7, <1>8, <1>9, <1>10, <1>11 DEF v

(* When no record since the interval began is missing, or the first one at *)
(* most, it is the name of every sleep in it.                              *)
LEMMA NamedForAll ==
  ASSUME Types, MonitorsSound, Operations,
         NEW c \in Collectors, NEW n \in 1..Len(monitor[c].intervals),
         NEW found, NEW k, ReadFrom(found, k),
         k = 0 \/ \A p \in Processes : running[p] = Idle,
         \A b \in 1..k : journal[b].stamp < monitor[c].intervals[n].lower,
         NameOf(found, monitor[c].intervals[n]) # Unknown,
         NEW i \in monitor[c].intervals[n].first..monitor[c].intervals[n].last
  PROVE  sleeps[i].kind = NameOf(found, monitor[c].intervals[n])
<1> DEFINE v == monitor[c].intervals[n]
<1>1. \A b \in 1..k : journal[b].stamp < v.lower
  OBVIOUS
<1>2. /\ Len(found) \in Nat /\ DOMAIN found = 1..Len(found) /\ Len(journal) \in Nat
      /\ k \in Nat /\ Len(found) = Len(journal) - k
      /\ \A b \in 1..Len(found) : b + k \in 1..Len(journal) /\ found[b] = journal[b + k]
  BY JournalFields DEF ReadFrom, Types
<1>3. PICK o, e \in 1..Len(found) :
          /\ NameOf(found, v) = found[o].kind
          /\ \A x \in Attempts(found) : Overlaps(found, x, v) => x = [opening |-> o, closing |-> e]
  <2> HIDE DEF v
  <2>1. NameOf(found, v) # Unknown
    BY DEF v
  <2>2. QED  BY <1>2, <2>1, NamedOpening
<1>4. /\ v.first \in Nat /\ v.last \in Nat /\ v.last <= Len(sleeps) /\ Len(sleeps) \in Nat
      /\ 1 <= v.first /\ v.lower \in Nat /\ v.upper \in Nat
  BY Held, MonitorFields DEF Types, TMonitor
<1>5. i \in 1..Len(sleeps) /\ i <= v.last /\ v.first - 1 < i
  BY <1>4
<1>6. PICK a \in 1..Len(journal) : Operation(i, a)
  BY <1>5 DEF Operations
<1>7. /\ journal[a].what = "start" /\ journal[a].kind = sleeps[i].kind
      /\ Agrees(i, journal, a, v.first - 1, v.lower) /\ Agrees(i, journal, a, v.last, v.upper)
  BY <1>6 DEF Operation, AllAgree
<1>8. /\ journal[a].stamp < v.upper
      /\ \A b \in 1..Len(journal) : b > a /\ SameProcess(journal, a, b) => v.lower < journal[b].stamp
  BY <1>5, <1>7 DEF Agrees
<1>9. \A b \in 1..Len(journal) : journal[b].stamp \in Nat
  BY JournalFields DEF Types
<1> HIDE DEF v
<1>10. CASE a > k
  <2> DEFINE s == a - k
             x == [opening |-> s, closing |-> Follower(found, s)]
  <2>1. s \in 1..Len(found) /\ s + k = a /\ s \in Nat
    BY <1>2, <1>10
  <2> HIDE DEF s
  <2>2. found[s] = journal[a]
    BY <1>2, <2>1
  <2>3. x \in Attempts(found)
    BY <1>2, <1>7, <2>1, <2>2 DEF Attempts
  <2>4. Follower(found, s) # 0 => v.lower <= found[Follower(found, s)].stamp
    <3> DEFINE f == Follower(found, s)
    <3>1. SUFFICES ASSUME f # 0 PROVE v.lower <= found[f].stamp
      OBVIOUS
    <3>2. f \in Nat /\ NextOfProcess(found, s, f)
      BY <1>2, <2>1, <3>1, FollowerIs
    <3> HIDE DEF f
    <3>3. NextOfProcess(journal, a, f + k) /\ f \in 1..Len(found)
      <4>1. f \in 1..Len(found)
        BY <3>2 DEF NextOfProcess
      <4>2. NextOfProcess(journal, s + k, f + k)
        BY <1>1, <1>2, <2>1, <3>2, SameInJournal
      <4>3. QED  BY <2>1, <4>1, <4>2
    <3>4. f + k \in 1..Len(journal) /\ a < f + k /\ SameProcess(journal, a, f + k)
          /\ found[f] = journal[f + k]
      BY <1>2, <3>3 DEF NextOfProcess
    <3>5. v.lower < journal[f + k].stamp /\ journal[f + k].stamp \in Nat
      BY <1>8, <1>9, <3>4
    <3>6. found[f].stamp = journal[f + k].stamp
      BY <3>4
    <3>7. QED  BY <1>4, <3>5, <3>6
  <2>5. found[s].stamp <= v.upper
    BY <1>4, <1>8, <1>9, <2>2
  <2>6. Overlaps(found, x, v)
    BY <2>4, <2>5 DEF Overlaps
  <2>7. s = o
    BY <1>3, <2>3, <2>6
  <2>8. QED  BY <1>3, <1>7, <2>2, <2>7 DEF v
<1>11. CASE a <= k
  <2>1. \A p \in Processes : running[p] = Idle
    BY <1>2, <1>11
  <2>2. journal[a].process \in Processes
    BY JournalFields DEF Types, JournalRecords
  <2>3. PICK b \in 1..Len(journal) : NextOfProcess(journal, a, b) /\ journal[b].what = "stop"
    BY <1>6, <2>1, <2>2 DEF Operation
  <2> DEFINE s == b - k
             x == [opening |-> 0, closing |-> s]
  <2>4. a < b /\ SameProcess(journal, a, b)
    BY <2>3 DEF NextOfProcess
  <2>4a. k < b
    <3>1. v.lower < journal[b].stamp /\ journal[b].stamp \in Nat
      BY <1>8, <1>9, <2>4
    <3>2. ~(journal[b].stamp < v.lower)
      BY <1>4, <3>1
    <3>3. b \notin 1..k
      BY <1>1, <3>2
    <3>4. QED  BY <1>2, <3>3
  <2>5. s \in 1..Len(found) /\ s + k = b /\ s \in Nat /\ s # 0
    BY <1>2, <2>4, <2>4a
  <2> HIDE DEF s
  <2>6. found[s] = journal[b]
    BY <1>2, <2>5
  <2>7. ~Opened(found, s)
    <3>1. SUFFICES ASSUME NEW d \in 1..s - 1, Follower(found, d) = s PROVE FALSE
      BY DEF Opened
    <3>2. d \in 1..Len(found) /\ d \in Nat /\ d < s
      BY <1>2, <2>5
    <3>3. NextOfProcess(found, d, s)
      BY <1>2, <2>5, <3>1, <3>2, FollowerIs
    <3>4. NextOfProcess(journal, d + k, b) /\ d + k \in 1..Len(journal)
      BY <1>1, <1>2, <2>5, <3>2, <3>3, SameInJournal
    <3>5. a = d + k
      BY <1>2, <2>3, <3>4, OneBefore
    <3>6. QED  BY <1>2, <1>11, <3>2, <3>5
  <2>8. x \in Attempts(found)
    <3>1. found[s].what # "start" /\ s \in DOMAIN found
      BY <1>2, <2>3, <2>5, <2>6
    <3>2. QED  BY <2>7, <3>1 DEF Attempts
  <2>9. Overlaps(found, x, v)
    <3>1. v.lower < journal[b].stamp /\ journal[b].stamp \in Nat
      BY <1>8, <1>9, <2>4
    <3>2. found[s].stamp = journal[b].stamp
      BY <2>6
    <3>4. v.lower <= found[s].stamp
      BY <1>4, <3>1, <3>2
    <3>3. QED  BY <2>5, <3>4 DEF Overlaps
  <2>10. 0 = o
    BY <1>3, <2>8, <2>9
  <2>11. QED  BY <2>10
<1>12. QED  BY <1>2, <1>10, <1>11


-----------------------------------------------------------------------------
(* Every sleep keeps its operation *)

(* A step of the collectors: the machine stands still and each monitor     *)
(* moves at the present reading, which agrees with every operation.        *)
LEMMA OperationWatched ==
  ASSUME Types, MonitorsSound, Operations,
         UNCHANGED <<mono, running, journal>>, SleepsKept,
         \A c \in Collectors : monitor'[c] \in Moves(monitor[c], ClockReading),
         NEW i \in 1..Len(sleeps), NEW a, Operation(i, a)
  PROVE  Operation(i, a)'
<1>1. /\ ClockReading \in Readings /\ ClockReading.slept = Len(sleeps)
      /\ ClockReading.mono = mono /\ Len(sleeps) \in Nat
  BY ReadingNow, SleepFields DEF Types
<1>2. a \in 1..Len(journal) /\ journal[a].stamp < mono
  BY DEF Operation, Operations
<1>3. Agrees(i, journal, a, ClockReading.slept, ClockReading.mono)
  BY <1>1, <1>2 DEF Agrees
<1>4. ASSUME NEW c \in Collectors PROVE AllAgree(i, journal, a, monitor'[c])
  <2>1. monitor[c] \in Monitors /\ Sound(monitor[c], Len(sleeps), mono)
    BY DEF Types, TMonitor, MonitorsSound
  <2>2. AllAgree(i, journal, a, monitor[c])
    BY DEF Operation
  <2>3. QED  BY <1>1, <1>3, <2>1, <2>2, MovesAgree
<1>5. sleeps'[i].kind = sleeps[i].kind /\ journal' = journal /\ running' = running
  BY DEF SleepsKept
<1>6. QED  BY <1>4, <1>5 DEF Operation

LEMMA OperationsPrimed ==
  Operations' <=>
    /\ \A a \in 1..Len(journal') : journal'[a].stamp < mono'
    /\ \A i \in 1..Len(sleeps') : \E a \in 1..Len(journal') : Operation(i, a)'
    /\ \A p \in Processes : running'[p] # Idle =>
           \E a \in 1..Len(journal') :
               /\ journal'[a].what = "start" /\ journal'[a].process = p
               /\ journal'[a].kind = running'[p].kind
               /\ LastOfProcess(journal', a)
               /\ running'[p].slept => \E i \in 1..Len(sleeps') : Operation(i, a)'
    /\ \A b \in 1..Len(journal') : journal'[b].what = "stop" /\ journal'[b].good =>
           \E a \in 1..Len(journal') :
               /\ NextOfProcess(journal', a, b)
               /\ \E i \in 1..Len(sleeps') : Operation(i, a)'
BY DEF Operations, Operation

LEMMA OperationsWatched ==
  ASSUME Types, MonitorsSound, Operations,
         UNCHANGED <<mono, running, journal>>, SleepsKept,
         \A c \in Collectors : monitor'[c] \in Moves(monitor[c], ClockReading)
  PROVE  Operations'
<1>1. \A i \in 1..Len(sleeps) : \A a : Operation(i, a) => Operation(i, a)'
  BY OperationWatched
<1>2. /\ mono' = mono /\ running' = running /\ journal' = journal
      /\ Len(sleeps') = Len(sleeps)
  BY DEF SleepsKept
<1>3. QED  BY <1>1, <1>2, OperationsPrimed DEF Operations

(* The machine sleeps: the opening of the operation under way is the       *)
(* sleep's, and no reading counts the sleep yet.                           *)
LEMMA OperationsSleep ==
  ASSUME Types, MonitorsSound, Operations, NEW p \in Processes, Sleep(p)
  PROVE  Operations'
<1>0. PICK new : new = Len(sleeps) + 1
  OBVIOUS
<1>1. /\ Len(sleeps) \in Nat /\ new \in Nat /\ new = Len(sleeps) + 1 /\ Len(sleeps') = new
      /\ \A i \in 1..Len(sleeps) : sleeps'[i] = sleeps[i]
      /\ sleeps'[new].kind = running[p].kind
  BY <1>0, SleepAdds, SleepFields DEF Types
<1>2. /\ running' = [running EXCEPT ![p].slept = TRUE] /\ running[p] # Idle
      /\ mono' = mono /\ journal' = journal /\ monitor' = monitor
  BY DEF Sleep, collectors, Idle
<1>3. /\ running \in [Processes -> [kind : Kinds \cup {"none"}, slept : BOOLEAN]]
      /\ \A b \in 1..Len(journal) : journal[b].process \in Processes
  BY JournalFields DEF Types, TMachine, JournalRecords
<1>4. /\ running'[p].kind = running[p].kind /\ running'[p] # Idle
      /\ \A q \in Processes : q # p => running'[q] = running[q]
  BY <1>2, <1>3 DEF Idle
<1>5. ASSUME NEW i \in 1..Len(sleeps), NEW a, Operation(i, a) PROVE Operation(i, a)'
  <2>1. /\ a \in 1..Len(journal) /\ sleeps'[i] = sleeps[i]
        /\ running[journal[a].process] # Idle => running'[journal[a].process] # Idle
    BY <1>1, <1>3, <1>4, <1>5 DEF Operation
  <2>2. QED  BY <1>2, <1>5, <2>1 DEF Operation
<1>6. PICK o \in 1..Len(journal) : /\ journal[o].what = "start" /\ journal[o].process = p
                                   /\ journal[o].kind = running[p].kind
                                   /\ LastOfProcess(journal, o)
  BY <1>2 DEF Operations
<1>7. Operation(new, o)'
  <2>1. ASSUME NEW slept \in Nat, NEW t, slept <= Len(sleeps)
        PROVE  Agrees(new, journal, o, slept, t)
    <3>1. ~(new <= slept)
      BY <1>1, <2>1
    <3>2. QED  BY <1>6, <3>1 DEF Agrees, LastOfProcess
  <2>2. ASSUME NEW c \in Collectors PROVE AllAgree(new, journal, o, monitor[c])
    <3>1. monitor[c] \in Monitors /\ Sound(monitor[c], Len(sleeps), mono)
      BY DEF Types, TMonitor, MonitorsSound
    <3>2. /\ monitor[c].latest # Nothing =>
                 monitor[c].latest.slept \in Nat /\ monitor[c].latest.slept <= Len(sleeps)
          /\ monitor[c].taken # Nothing =>
                 monitor[c].taken.slept \in Nat /\ monitor[c].taken.slept <= Len(sleeps)
      BY <3>1, MonitorFields DEF Sound, Readings
    <3>3. ASSUME NEW n \in 1..Len(monitor[c].intervals)
          PROVE  LET v == monitor[c].intervals[n] IN
                 /\ v.first - 1 \in Nat /\ v.first - 1 <= Len(sleeps)
                 /\ v.last \in Nat /\ v.last <= Len(sleeps)
      BY Held
    <3>4. QED  BY <2>1, <3>2, <3>3 DEF AllAgree
  <2>3. QED  BY <1>1, <1>2, <1>4, <1>6, <2>2 DEF Operation
<1>8. new \in 1..Len(sleeps') /\ \A i \in 1..Len(sleeps') : i = new \/ i \in 1..Len(sleeps)
  BY <1>1
<1>9. \A i \in 1..Len(sleeps) : i \in 1..Len(sleeps')
  BY <1>1
<1>10. \A i \in 1..Len(sleeps') : \E a \in 1..Len(journal) : Operation(i, a)'
  BY <1>5, <1>7, <1>8 DEF Operations
<1>11. ASSUME NEW q \in Processes, running'[q] # Idle
       PROVE  \E a \in 1..Len(journal) :
                  /\ journal[a].what = "start" /\ journal[a].process = q
                  /\ journal[a].kind = running'[q].kind
                  /\ LastOfProcess(journal, a)
                  /\ running'[q].slept => \E i \in 1..Len(sleeps') : Operation(i, a)'
  <2>1. CASE q = p
    BY <1>4, <1>6, <1>7, <1>8, <2>1
  <2>2. CASE q # p
    <3>1. PICK a \in 1..Len(journal) :
              /\ journal[a].what = "start" /\ journal[a].process = q
              /\ journal[a].kind = running[q].kind
              /\ LastOfProcess(journal, a)
              /\ running[q].slept => \E i \in 1..Len(sleeps) : Operation(i, a)
      BY <1>4, <1>11, <2>2 DEF Operations
    <3>2. QED  BY <1>4, <1>5, <1>9, <2>2, <3>1
  <2>3. QED  BY <2>1, <2>2
<1>12. ASSUME NEW b \in 1..Len(journal), journal[b].what = "stop", journal[b].good
       PROVE  \E a \in 1..Len(journal) :
                  NextOfProcess(journal, a, b) /\ \E i \in 1..Len(sleeps') : Operation(i, a)'
  BY <1>5, <1>9, <1>12 DEF Operations
<1>13. \A a \in 1..Len(journal) : journal[a].stamp < mono
  BY DEF Operations
<1>14. QED  BY <1>2, <1>10, <1>11, <1>12, <1>13, OperationsPrimed


(* A record is written: what precedes it stays as it is.                   *)
LEMMA Written ==
  ASSUME TMachine, NEW record \in JournalRecords, Write(record),
         NEW a \in 1..Len(journal)
  PROVE  /\ a \in 1..Len(journal') /\ journal'[a] = journal[a]
         /\ \A b \in 1..Len(journal) :
                NextOfProcess(journal, a, b) => NextOfProcess(journal', a, b)
         /\ LastOfProcess(journal, a) =>
                IF journal[a].process = record.process
                THEN NextOfProcess(journal', a, Len(journal'))
                ELSE LastOfProcess(journal', a)
<1>1. /\ Len(journal) \in Nat /\ Len(journal') = Len(journal) + 1
      /\ \A b \in 1..Len(journal) : journal'[b] = journal[b]
      /\ journal'[Len(journal')] = record
  BY WriteAdds, JournalFields
<1>2. \A b \in 1..Len(journal') : b \in 1..Len(journal) \/ b = Len(journal')
  BY <1>1
<1>3. \A b \in 1..Len(journal) : b \in 1..Len(journal') /\ b < Len(journal')
  BY <1>1
<1>4. \A b \in 1..Len(journal) : SameProcess(journal', a, b) <=> SameProcess(journal, a, b)
  BY <1>1 DEF SameProcess
<1>5. SameProcess(journal', a, Len(journal')) <=> journal[a].process = record.process
  BY <1>1 DEF SameProcess
<1>6. ASSUME NEW b \in 1..Len(journal), NextOfProcess(journal, a, b)
      PROVE  NextOfProcess(journal', a, b)
  <2>1. ASSUME NEW d \in 1..Len(journal'), a < d, d < b PROVE ~SameProcess(journal', a, d)
    <3>1. d \in 1..Len(journal)
      BY <1>1, <2>1
    <3>2. QED  BY <1>4, <1>6, <2>1, <3>1 DEF NextOfProcess
  <2>2. QED  BY <1>3, <1>4, <1>6, <2>1 DEF NextOfProcess
<1>7. ASSUME LastOfProcess(journal, a), journal[a].process = record.process
      PROVE  NextOfProcess(journal', a, Len(journal'))
  <2>1. ASSUME NEW d \in 1..Len(journal'), a < d, d < Len(journal')
        PROVE  ~SameProcess(journal', a, d)
    <3>1. d \in 1..Len(journal)
      BY <1>1, <2>1
    <3>2. QED  BY <1>4, <1>7, <2>1, <3>1 DEF LastOfProcess
  <2>2. Len(journal') \in 1..Len(journal') /\ a < Len(journal')
    BY <1>1
  <2>3. QED  BY <1>5, <1>7, <2>1, <2>2 DEF NextOfProcess
<1>8. ASSUME LastOfProcess(journal, a), journal[a].process # record.process
      PROVE  LastOfProcess(journal', a)
  BY <1>2, <1>4, <1>5, <1>8 DEF LastOfProcess
<1>9. QED  BY <1>1, <1>3, <1>6, <1>7, <1>8

(* No reading is as late as the record, so all agree as before.            *)
LEMMA WrittenAgrees ==
  ASSUME Types, MonitorsSound, NEW record \in JournalRecords, Write(record),
         record.stamp = mono + 1,
         NEW i, NEW a \in 1..Len(journal), NEW c \in Collectors,
         AllAgree(i, journal, a, monitor[c])
  PROVE  AllAgree(i, journal', a, monitor[c])
<1>1. /\ Len(journal) \in Nat /\ Len(journal') = Len(journal) + 1 /\ mono \in Nat
      /\ \A b \in 1..Len(journal) : journal'[b] = journal[b]
      /\ journal'[Len(journal')].stamp = mono + 1
  BY WriteAdds, JournalFields DEF Types
<1>2. ASSUME NEW slept, NEW t \in Nat, t <= mono, Agrees(i, journal, a, slept, t)
      PROVE  Agrees(i, journal', a, slept, t)
  <2>1. ASSUME slept < i, NEW b \in 1..Len(journal'), b > a, SameProcess(journal', a, b)
        PROVE  t < journal'[b].stamp
    <3>1. CASE b \in 1..Len(journal)
      BY <1>1, <1>2, <2>1, <3>1 DEF Agrees, SameProcess
    <3>2. CASE b = Len(journal')
      BY <1>1, <1>2, <3>2
    <3>3. QED  BY <1>1, <3>1, <3>2
  <2>2. QED  BY <1>1, <1>2, <2>1 DEF Agrees
<1>3. monitor[c] \in Monitors /\ Sound(monitor[c], Len(sleeps), mono)
  BY DEF Types, TMonitor, MonitorsSound
<1>4. /\ monitor[c].latest # Nothing => monitor[c].latest.mono \in Nat /\ monitor[c].latest.mono <= mono
      /\ monitor[c].taken # Nothing => monitor[c].taken.mono \in Nat /\ monitor[c].taken.mono <= mono
  BY <1>3, MonitorFields DEF Sound, Readings
<1>5. \A n \in 1..Len(monitor[c].intervals) :
          LET v == monitor[c].intervals[n] IN
          v.lower \in Nat /\ v.upper \in Nat /\ v.lower <= mono /\ v.upper <= mono
  BY <1>3, MonitorFields DEF Sound
<1>6. QED  BY <1>2, <1>4, <1>5 DEF AllAgree

(* An operation under way is over once its process writes a stop.          *)
LEMMA OperationWritten ==
  ASSUME Types, MonitorsSound, NEW record \in JournalRecords, Write(record),
         record.stamp = mono + 1, UNCHANGED <<sleeps, monitor>>,
         record.what = "stop" \/ running[record.process] = Idle,
         \A q \in Processes : q # record.process => running'[q] = running[q],
         NEW i, NEW a, Operation(i, a)
  PROVE  Operation(i, a)'
<1>1. /\ a \in 1..Len(journal) /\ journal[a].process \in Processes
      /\ Len(journal) \in Nat /\ Len(journal') = Len(journal) + 1
      /\ journal'[Len(journal')] = record
  BY WriteAdds, JournalFields DEF Types, Operation, JournalRecords
<1>2. /\ a \in 1..Len(journal') /\ journal'[a] = journal[a]
      /\ \A b \in 1..Len(journal) : NextOfProcess(journal, a, b) => NextOfProcess(journal', a, b)
      /\ LastOfProcess(journal, a) =>
             IF journal[a].process = record.process
             THEN NextOfProcess(journal', a, Len(journal'))
             ELSE LastOfProcess(journal', a)
  BY <1>1, Written DEF Types
<1>3. \A c \in Collectors : AllAgree(i, journal', a, monitor'[c])
  BY <1>1, WrittenAgrees DEF Operation
<1>4. \/ LastOfProcess(journal', a) /\ running'[journal'[a].process] # Idle
      \/ \E b \in 1..Len(journal') : NextOfProcess(journal', a, b) /\ journal'[b].what = "stop"
  <2>1. CASE LastOfProcess(journal, a) /\ running[journal[a].process] # Idle
    <3>1. CASE journal[a].process = record.process
      BY <1>1, <1>2, <2>1, <3>1 DEF NextOfProcess
    <3>2. CASE journal[a].process # record.process
      BY <1>1, <1>2, <2>1, <3>2
    <3>3. QED  BY <3>1, <3>2
  <2>2. ASSUME NEW b \in 1..Len(journal), NextOfProcess(journal, a, b), journal[b].what = "stop"
        PROVE  b \in 1..Len(journal') /\ NextOfProcess(journal', a, b) /\ journal'[b].what = "stop"
    BY <1>1, <1>2, <2>2, Written DEF Types
  <2>3. QED  BY <2>1, <2>2 DEF Operation
<1>5. QED  BY <1>2, <1>3, <1>4 DEF Operation

(* systemd-sleep writes a record: an operation begins or ends.             *)
LEMMA OperationsWritten ==
  ASSUME Types, MonitorsSound, Operations, NEW record \in JournalRecords, Write(record),
         NEW p \in Processes, record.process = p, record.stamp = mono + 1,
         UNCHANGED <<sleeps, monitor>>,
         \A q \in Processes : q # p => running'[q] = running[q],
         \/ /\ running[p] = Idle /\ record.what = "start"
            /\ ~running'[p].slept /\ running'[p].kind = record.kind
         \/ /\ running'[p] = Idle /\ record.what = "stop"
            /\ running[p] # Idle /\ (record.good => running[p].slept)
  PROVE  Operations'
<1>0. PICK new : new = Len(journal) + 1
  OBVIOUS
<1>1. /\ Len(journal) \in Nat /\ mono \in Nat /\ Len(journal') = new
      /\ new \in 1..Len(journal')
      /\ \A b \in 1..Len(journal) : b \in 1..Len(journal') /\ journal'[b] = journal[b]
      /\ journal'[new] = record /\ mono' = mono + 2
      /\ \A b \in 1..Len(journal) : journal[b].stamp \in Nat
  BY <1>0, WriteAdds, JournalFields DEF Types
<1>2. \A b \in 1..Len(journal') : b = new \/ b \in 1..Len(journal)
  BY <1>0, <1>1
<1>3. \A i \in 1..Len(sleeps) : \A a : Operation(i, a) => Operation(i, a)'
  BY OperationWritten
<1>4. \A a \in 1..Len(journal') : journal'[a].stamp < mono'
  <2>1. \A a \in 1..Len(journal) : journal'[a].stamp < mono'
    BY <1>1 DEF Operations
  <2>2. journal'[new].stamp < mono'
    BY <1>1
  <2>3. QED  BY <1>2, <2>1, <2>2
<1>5. \A i \in 1..Len(sleeps') : \E a \in 1..Len(journal') : Operation(i, a)'
  BY <1>1, <1>3 DEF Operations
<1>6. ASSUME NEW q \in Processes, running'[q] # Idle
      PROVE  \E a \in 1..Len(journal') :
                 /\ journal'[a].what = "start" /\ journal'[a].process = q
                 /\ journal'[a].kind = running'[q].kind
                 /\ LastOfProcess(journal', a)
                 /\ running'[q].slept => \E i \in 1..Len(sleeps') : Operation(i, a)'
  <2>1. CASE q = p
    <3>1. LastOfProcess(journal', new)
      BY <1>1 DEF LastOfProcess
    <3>2. QED  BY <1>1, <1>6, <2>1, <3>1
  <2>2. CASE q # p
    <3>1. PICK a \in 1..Len(journal) :
              /\ journal[a].what = "start" /\ journal[a].process = q
              /\ journal[a].kind = running[q].kind
              /\ LastOfProcess(journal, a)
              /\ running[q].slept => \E i \in 1..Len(sleeps) : Operation(i, a)
      BY <1>6, <2>2 DEF Operations
    <3>2. LastOfProcess(journal', a)
      BY <2>2, <3>1, Written DEF Types
    <3>3. QED  BY <1>1, <1>3, <2>2, <3>1, <3>2
  <2>3. QED  BY <2>1, <2>2
<1>7. ASSUME NEW b \in 1..Len(journal'), journal'[b].what = "stop", journal'[b].good
      PROVE  \E a \in 1..Len(journal') :
                 NextOfProcess(journal', a, b) /\ \E i \in 1..Len(sleeps') : Operation(i, a)'
  <2>1. CASE b \in 1..Len(journal)
    <3>1. PICK a \in 1..Len(journal) :
              NextOfProcess(journal, a, b) /\ \E i \in 1..Len(sleeps) : Operation(i, a)
      BY <1>1, <1>7, <2>1 DEF Operations
    <3>2. NextOfProcess(journal', a, b)
      BY <2>1, <3>1, Written DEF Types
    <3>3. QED  BY <1>1, <1>3, <3>1, <3>2
  <2>2. CASE b = new
    <3>1. running[p] # Idle /\ running[p].slept
      BY <1>1, <1>7, <2>2
    <3>2. PICK a \in 1..Len(journal) :
              /\ journal[a].process = p /\ LastOfProcess(journal, a)
              /\ \E i \in 1..Len(sleeps) : Operation(i, a)
      BY <3>1 DEF Operations
    <3>3. NextOfProcess(journal', a, new)
      BY <1>1, <3>2, Written DEF Types
    <3>4. QED  BY <1>1, <1>3, <2>2, <3>2, <3>3
  <2>3. QED  BY <1>2, <2>1, <2>2
<1>8. QED  BY <1>4, <1>5, <1>6, <1>7, OperationsPrimed


LEMMA OperationsStep ==
  Types /\ MonitorsSound /\ Operations /\ [Next]_vars => Operations'
<1> SUFFICES ASSUME Types, MonitorsSound, Operations, [Next]_vars PROVE Operations'
  OBVIOUS
<1>1. CASE UNCHANGED vars
  <2>1. \A i, a : Operation(i, a) => Operation(i, a)'
    BY <1>1 DEF vars, machine, collectors, Operation
  <2>2. UNCHANGED <<mono, running, journal, sleeps>>
    BY <1>1 DEF vars, machine
  <2>3. QED  BY <2>1, <2>2, OperationsPrimed DEF Operations
<1>2. ASSUME NEW p \in Processes, Sleep(p) PROVE Operations'
  BY <1>2, OperationsSleep
<1>3. ASSUME NEW p \in Processes, EndOperation(p) PROVE Operations'
  <2>1. PICK record \in JournalRecords :
            /\ Write(record) /\ record.process = p /\ record.stamp = mono + 1
            /\ record.what = "stop" /\ (record.good => running[p].slept)
    BY <1>3, EndAdds DEF Types
  <2>2. /\ UNCHANGED <<sleeps, monitor>>
        /\ running[p] # Idle /\ running' = [running EXCEPT ![p] = Idle]
    BY <1>3 DEF EndOperation, collectors
  <2>3. running'[p] = Idle /\ \A q \in Processes : q # p => running'[q] = running[q]
    BY <2>2 DEF Types, TMachine
  <2>4. QED  BY <2>1, <2>2, <2>3, OperationsWritten
<1>4. ASSUME NEW p \in Processes, NEW kind \in Kinds, BeginOperation(p, kind) PROVE Operations'
  <2>1. PICK record \in JournalRecords :
            /\ Write(record) /\ record.process = p /\ record.stamp = mono + 1
            /\ record.what = "start" /\ record.kind = kind
    BY <1>4, BeginAdds DEF Types
  <2>2. /\ UNCHANGED <<sleeps, monitor>>
        /\ running[p] = Idle
        /\ running' = [running EXCEPT ![p] = [kind |-> kind, slept |-> FALSE]]
    BY <1>4 DEF BeginOperation, collectors
  <2>3. /\ ~running'[p].slept /\ running'[p].kind = kind
        /\ \A q \in Processes : q # p => running'[q] = running[q]
    BY <2>2 DEF Types, TMachine
  <2>4. QED  BY <2>1, <2>2, <2>3, OperationsWritten
<1>5. CASE Watching
  BY <1>5, WatchingSteps, OperationsWatched
<1>6. CASE ResetMonitor \/ \E c \in Collectors : Draining(c)
  <2>1. /\ UNCHANGED machine
        /\ \A d \in Collectors : monitor'[d] \in Moves(monitor[d], ClockReading)
    BY <1>6, ResetSteps, DrainSteps
  <2>2. UNCHANGED <<mono, running, journal>> /\ SleepsKept
    BY <2>1 DEF machine, SleepsKept
  <2>3. QED  BY <2>1, <2>2, OperationsWatched
<1>7. QED  BY <1>1, <1>2, <1>3, <1>4, <1>5, <1>6, NextCases DEF Machine

LEMMA InitOperations == Init => Operations
<1> SUFFICES ASSUME Init PROVE Operations
  OBVIOUS
<1>1. Len(sleeps) = 0 /\ Len(journal) = 0 /\ \A p \in Processes : running[p] = Idle
  BY EmptySeq DEF Init
<1>2. QED  BY <1>1 DEF Operations

-----------------------------------------------------------------------------
(* The names of the records *)

LEMMA KindsKept ==
  ASSUME Types, [Next]_vars, NEW i \in 1..Len(sleeps)
  PROVE  i \in 1..Len(sleeps') /\ sleeps'[i].kind = sleeps[i].kind
<1>1. Len(sleeps) \in Nat
  BY SleepFields DEF Types
<1>2. CASE Machine
  BY <1>1, <1>2, MachineSteps
<1>3. CASE Watching
  BY <1>3, WatchingSteps DEF SleepsKept
<1>4. CASE ResetMonitor \/ \E c \in Collectors : Draining(c)
  BY <1>4, ResetSteps, DrainSteps DEF machine
<1>5. QED  BY <1>2, <1>3, <1>4, NextCases

(* A record is there already or names an interval that a monitor held.     *)
LEMMA RecordIs ==
  ASSUME Types, [Next]_vars, NEW k \in 1..Len(records')
  PROVE  \/ k \in 1..Len(records) /\ records'[k] = records[k]
         \/ \E c \in Collectors : \E n \in 1..Len(monitor[c].intervals) : \E found \in Readable :
                records'[k] = Recorded(c, monitor[c].intervals[n], found)
<1>1. CASE records' = records
  BY <1>1
<1>2. ASSUME NEW c \in Collectors, Draining(c), records' # records
      PROVE  \/ k \in 1..Len(records) /\ records'[k] = records[k]
             \/ \E n \in 1..Len(monitor[c].intervals) : \E found \in Readable :
                    records'[k] = Recorded(c, monitor[c].intervals[n], found)
  <2> DEFINE held == monitor[c].intervals
             R == Len(records)
  <2>1. DrainSleep(c)
    BY <1>2, DrainSteps
  <2>2. PICK found \in Readable :
            /\ Len(records') = R + Len(held)
            /\ \A l \in 1..R : records'[l] = records[l]
            /\ \A n \in 1..Len(held) : records'[R + n] = Recorded(c, held[n], found)
    BY <1>2, <2>1, DrainAdds
  <2>3. R \in Nat /\ Len(held) \in Nat
    BY RecordFields, MonitorFields DEF Types, TMonitor
  <2>4. CASE k \in 1..R
    BY <2>2, <2>4
  <2>5. CASE k \notin 1..R
    <3> DEFINE n == k - R
    <3>1. n \in 1..Len(held) /\ k = R + n
      BY <2>2, <2>3, <2>5
    <3> HIDE DEF n
    <3>2. QED  BY <2>2, <3>1
  <2>6. QED  BY <2>4, <2>5
<1>3. CASE Machine
  BY <1>1, <1>3, MachineSteps DEF collectors
<1>4. CASE Watching \/ ResetMonitor
  BY <1>1, <1>4, WatchingSteps, ResetSteps
<1>5. QED  BY <1>1, <1>2, <1>3, <1>4, NextCases

LEMMA RecordedSleeps ==
  ASSUME Types, Books, NEW k \in 1..Len(records), NEW i \in records[k].first..records[k].last
  PROVE  i \in 1..Len(sleeps)
<1>1. /\ records[k].first \in Nat /\ records[k].last \in Nat /\ Len(sleeps) \in Nat
      /\ 1 <= records[k].first /\ records[k].last <= Len(sleeps)
  BY RecordFields, SleepFields DEF Types, Books
<1>2. QED  BY <1>1

LEMMA NamedAfterStep ==
  Types /\ Shares /\ Operations /\ NamedAfterASleep /\ [Next]_vars => NamedAfterASleep'
<1> SUFFICES ASSUME Types, Shares, Operations, NamedAfterASleep, [Next]_vars
             PROVE  NamedAfterASleep'
  OBVIOUS
<1> SUFFICES ASSUME NEW k \in 1..Len(records'), records'[k].kind # Unknown
             PROVE  \E i \in records'[k].first..records'[k].last :
                        sleeps'[i].kind = records'[k].kind
  <2>1. Types'
    BY TypesStep DEF Shares
  <2>2. DOMAIN records' = 1..Len(records')
    BY <2>1, LenProperties DEF Types, TRecords
  <2>3. QED  BY <2>2 DEF NamedAfterASleep
<1>1. CASE k \in 1..Len(records) /\ records'[k] = records[k]
  <2>1. PICK i \in records[k].first..records[k].last : sleeps[i].kind = records[k].kind
    BY <1>1, RecordFields DEF NamedAfterASleep, Types
  <2>2. i \in 1..Len(sleeps)
    BY <1>1, RecordedSleeps DEF Shares
  <2>3. QED  BY <1>1, <2>1, <2>2, KindsKept
<1>2. ASSUME NEW c \in Collectors, NEW n \in 1..Len(monitor[c].intervals), NEW found \in Readable,
             records'[k] = Recorded(c, monitor[c].intervals[n], found)
      PROVE  \E i \in records'[k].first..records'[k].last :
                 sleeps'[i].kind = records'[k].kind
  <2> DEFINE v == monitor[c].intervals[n]
  <2>1. /\ records'[k].first = v.first /\ records'[k].last = v.last
        /\ records'[k].kind = NameOf(found, v)
    BY <1>2 DEF Recorded
  <2>2. PICK i \in v.first..v.last : i \in 1..Len(sleeps) /\ sleeps[i].kind = NameOf(found, v)
    BY <2>1, NamedForOne DEF Shares
  <2>3. QED  BY <2>1, <2>2, KindsKept
<1>3. QED  BY <1>1, <1>2, RecordIs

(* The name given to what the clocks show (classify_sleep_records of       *)
(* burnbag.py) is that of something the machine did in the interval,       *)
(* whatever part of the journal could be read.                             *)
THEOREM NamesASleep == Spec => []NamedAfterASleep
<1>1. Init => Types /\ Shares /\ Operations /\ NamedAfterASleep
  <2>1. Init => NamedAfterASleep
    BY DEF Init, NamedAfterASleep
  <2>2. QED  BY <2>1, InitTyped, InitShares, InitOperations
<1>2. Types /\ Shares /\ Operations /\ NamedAfterASleep /\ [Next]_vars =>
          Types' /\ Shares' /\ Operations' /\ NamedAfterASleep'
  BY TypesStep, OffStep, BooksStep, ExcludedStep, OperationsStep, NamedAfterStep DEF Shares
<1>3. QED  BY <1>1, <1>2, PTL DEF Spec

(* ... and of every sleep in it when nothing since the interval began has  *)
(* left the journal (read_sleep_journal), although operations of several   *)
(* processes overlap, fail or are under way.                               *)
THEOREM NamesFollow == Spec => []NamesFollowJournal
<1>1. Types /\ Shares /\ Operations => NamesFollowJournal
  <2> SUFFICES ASSUME Types, Shares, Operations PROVE NamesFollowJournal
    OBVIOUS
  <2> SUFFICES ASSUME NEW c \in Collectors, NEW n \in 1..Len(monitor[c].intervals),
                      NEW k \in 0..Len(journal),
                      k = 0 \/ \A p \in Processes : running[p] = Idle,
                      \A b \in 1..k : journal[b].stamp < monitor[c].intervals[n].lower,
                      NameOf(SubSeq(journal, k + 1, Len(journal)), monitor[c].intervals[n]) # Unknown,
                      NEW i \in monitor[c].intervals[n].first..monitor[c].intervals[n].last
               PROVE  sleeps[i].kind =
                          NameOf(SubSeq(journal, k + 1, Len(journal)), monitor[c].intervals[n])
    BY DEF NamesFollowJournal
  <2>1. PICK found : found = SubSeq(journal, k + 1, Len(journal))
    OBVIOUS
  <2>2. ReadFrom(found, k)
    BY <2>1, ReadFromRecord DEF Types
  <2>3. QED  BY <2>1, <2>2, NamedForAll DEF Shares
<1>2. Init => Types /\ Shares /\ Operations
  BY InitTyped, InitShares, InitOperations
<1>3. Types /\ Shares /\ Operations /\ [Next]_vars => Types' /\ Shares' /\ Operations'
  BY TypesStep, OffStep, BooksStep, ExcludedStep, OperationsStep DEF Shares
<1>4. QED  BY <1>1, <1>2, <1>3, PTL DEF Spec

(* Both together, for every number of records that a journal may lose.     *)
THEOREM NamesEarned == Spec => []NamesAreEarned
<1>1. NamedAfterASleep /\ NamesFollowJournal => NamesAreEarned
  BY DEF NamesAreEarned
<1>2. QED  BY <1>1, NamesASleep, NamesFollow, PTL
=============================================================================
