-------------------------- MODULE RunLifecycleProofs --------------------------
(***************************************************************************)
(* What holds of RunLifecycle for any set of backlights and any modes.     *)
(* Most steps only write a record and move on; they are proved once, as    *)
(* steps that are Recorded.  The others touch the host, and are taken one  *)
(* by one.                                                                 *)
(***************************************************************************)
EXTENDS RunLifecycle, TLAPS

(* The failing log is heard: not only in the report of a battery error.    *)
Heard == BatteryLogFaults = FALSE

Ending == {"restore", "release", "restoreProfile", "report", "end", "close", "done"}

Passive == {"loop", "exited", "undo", "record", "teardown"} \cup Ending

(* Where a change of the host, or a sleep, is about to be requested.       *)
Calls == {"profileSet", "inhibitCall", "darkSet", "sleepCall"}

Checks == {"profileCheck", "inhibitCheck", "darkCheck", "sleepCheck"}

Loops == {"none", "made", "running", "quit", "over"}

(* A log that failed keeps the setup and the callbacks from going on.      *)
Journal ==
    /\ log # "open" => tip
    /\ log = "closed" => stage = "done"
    /\ Heard /\ tip /\ stage \notin Passive => out.stop
    /\ stage \in Ending => tip

(* What is on disk when a request is about to be checked, and to be made.  *)
Announced ==
    Heard => /\ stage = "profileCheck" => out.stop \/ "setProfile" \in intents
             /\ stage = "profileSet" => "setProfile" \in intents
             /\ stage = "inhibitCheck" => out.stop \/ "inhibit" \in intents
             /\ stage = "inhibitCall" => "inhibit" \in intents
             /\ stage = "sleepCheck" => out.stop \/ ("sleep" \in intents /\ flushed)
             /\ stage = "sleepCall" => "sleep" \in intents /\ flushed
             /\ stage = "darkCheck" => out.stop \/ Current \in intents
             /\ stage = "darkSet" => Current \in intents

Marked ==
    /\ stage = "profileSet" => owed
    /\ stage \in {"darkCheck", "darkSet"} => todo # {}
    /\ stage = "darkSet" => Current \in changed
    /\ stage = "slept" => accepted

(* A late call was already past its check when the signal fell.            *)
Late1 ==
    /\ OneLateMutation
    /\ late > 0 => signal
    /\ stage \in Calls => late = 0

(* The recovery, step by step.                                             *)
Recovered ==
    /\ stage = "restore" => out.exit = 1 \/ dark \subseteq todo
    /\ stage \in Ending \ {"restore"} => out.exit = 1 \/ dark = {}
    /\ IF stage \in Ending \ {"restore", "release"}
         THEN out.exit = 1 \/ fd \in {"none", "closed"}
         ELSE fd \in {"none", "held"}
    /\ stage \in Ending \ {"restore", "release", "restoreProfile"} =>
         out.exit = 1 \/ profile = "original" \/ retained

Reason == signal \/ accepted \/ retained \/ "cycle" \in intents

Honest ==
    /\ log = "open" /\ out.goal => Reason
    /\ stage \in {"end", "close"} => (out.goal => out.exit = 0)
    /\ stage = "close" /\ log = "open" => ended = {[exit |-> out.exit, goal |-> out.goal]}
    /\ HonestOutcome

Intents == Heard => IntentBeforeMutation /\ FlushedBeforeSleep

IInv ==
    /\ TypeOK /\ Journal /\ Announced /\ Marked /\ Late1 /\ Recovered /\ Honest
    /\ Intents /\ EveryChangeIsOwed

(* The variables a record does not concern have values of their kind.      *)
Bystanders ==
    /\ mode \in Modes /\ timed \in BOOLEAN /\ ignoreLid \in BOOLEAN
    /\ source \in BOOLEAN /\ lightTimer \in BOOLEAN /\ sleepTimer \in BOOLEAN
    /\ lid \in {"unseen", "closed", "open"} /\ todo \subseteq Devices

(* A step that writes at most a record: nothing recorded is forgotten,     *)
(* nothing failed is forgiven, and a log that fails stops the session.     *)
Recorded ==
    /\ log' \in {"open", "failed"} /\ tip' \in BOOLEAN /\ out' \in Outcomes /\ loop' \in Loops
    /\ intents \subseteq intents' /\ intents' \subseteq Announcements
    /\ log # "open" => log' = log
    /\ log' # "open" => tip'
    /\ tip => tip'
    /\ out.exit = 1 => out'.exit = 1
    /\ out.stop => out'.stop
    /\ out'.goal /\ log' = "open" => out.goal \/ Reason'
    /\ Heard /\ tip' => out'.stop \/ stage' \in Passive

Lively == log # "closed" /\ (Heard /\ tip => out.stop)

-----------------------------------------------------------------------------
LEMMA OutcomeFields ==
  ASSUME NEW o \in Outcomes
  PROVE  /\ o.exit \in {0, 1} /\ o.goal \in BOOLEAN /\ o.stop \in BOOLEAN
         /\ Failing(o) \in Outcomes /\ Failing(o).exit = 1
         /\ Failing(o).stop = TRUE /\ Failing(o).goal = FALSE
         /\ LogFailing(o) \in Outcomes /\ LogFailing(o).exit = 1
         /\ LogFailing(o).stop = o.stop /\ LogFailing(o).goal = FALSE
         /\ RestoreFailure(o) \in Outcomes /\ RestoreFailure(o).exit = 1
         /\ RestoreFailure(o).stop = o.stop /\ RestoreFailure(o).goal = o.goal
<1>1. o.exit \in {0, 1} /\ o.goal \in BOOLEAN /\ o.stop \in BOOLEAN
  BY DEF Outcomes
<1>2. /\ Failing(o) \in Outcomes /\ Failing(o).exit = 1
      /\ Failing(o).stop = TRUE /\ Failing(o).goal = FALSE
  BY DEF Outcomes, Failing
<1>3. /\ LogFailing(o) \in Outcomes /\ LogFailing(o).exit = 1
      /\ LogFailing(o).stop = o.stop /\ LogFailing(o).goal = FALSE
  BY DEF Outcomes, LogFailing
<1>4. /\ RestoreFailure(o) \in Outcomes /\ RestoreFailure(o).exit = 1
      /\ RestoreFailure(o).stop = o.stop /\ RestoreFailure(o).goal = o.goal
  BY DEF Outcomes, RestoreFailure
<1>5. QED  BY <1>1, <1>2, <1>3, <1>4

(* A log failure, reported where it happens or raised to the loop.         *)
LEMMA RaisedFields ==
  ASSUME out \in Outcomes, NEW o \in Outcomes
  PROVE  /\ Raised(LogFailing(o)) \in Outcomes /\ Raised(LogFailing(o)).exit = 1
         /\ Raised(LogFailing(o)).goal = FALSE
         /\ o.stop => Raised(LogFailing(o)).stop
<1>1. Raised(LogFailing(o)) \in {LogFailing(o), Failing(LogFailing(o))}
  BY DEF Raised
<1> DEFINE l == LogFailing(o)
<1>2. l \in Outcomes /\ l.exit = 1 /\ l.goal = FALSE /\ l.stop = o.stop
  BY OutcomeFields
<1> HIDE DEF l
<1>3. Failing(l) \in Outcomes /\ Failing(l).exit = 1 /\ Failing(l).goal = FALSE /\ Failing(l).stop = TRUE
  BY <1>2, OutcomeFields
<1>4. Raised(LogFailing(o)) = l \/ Raised(LogFailing(o)) = Failing(l)
  BY <1>1 DEF l
<1>5. QED  BY <1>2, <1>3, <1>4

LEMMA Quits == loop \in Loops => Quit(loop) \in Loops
  BY DEF Loops, Quit

LEMMA LogFailsIsRecorded ==
  ASSUME TypeOK, NEW o \in Outcomes, LogFails(o), o.exit = 1, o.goal = FALSE,
         out.stop => o.stop, stage' \in Passive \/ o.stop
  PROVE  Recorded
  BY Quits DEF LogFails, Recorded, TypeOK, Loops

LEMMA SkippedIsRecorded ==
  ASSUME TypeOK, Journal, Skipped, Lively
  PROVE  Recorded /\ log = "failed"
  BY DEF Skipped, Recorded, TypeOK, Loops, Lively, Journal

LEMMA WrittenIsRecorded ==
  ASSUME TypeOK, NEW event, Written(event), Lively
  PROVE  Recorded /\ (event \in Announcements => event \in intents')
  BY DEF Written, With, Recorded, TypeOK, Loops, Lively

LEMMA GoToIsRecorded ==
  ASSUME TypeOK, Journal, NEW next, GoTo(next), Lively
  PROVE  Recorded /\ stage' = next /\ UNCHANGED <<log, intents, tip, out, loop>>
  BY DEF GoTo, Recorded, TypeOK, Loops, Lively, Journal

LEMMA CancelledIsRecorded ==
  ASSUME TypeOK, Journal, Cancelled, Lively
  PROVE  Recorded /\ stage' \in {"loop", "record"}
  BY Quits DEF Cancelled, Recorded, TypeOK, Loops, Lively, Unwound, Journal

LEMMA FatalIsRecorded ==
  ASSUME TypeOK, Journal, Fatal, log # "closed"
  PROVE  Recorded /\ stage' = "teardown" /\ out'.exit = 1
<1>1. /\ out' \in Outcomes /\ out'.exit = 1 /\ out'.goal = FALSE /\ out'.stop = out.stop
  BY DEF Fatal, TypeOK, Outcomes
<1>2. QED  BY <1>1, Quits DEF Fatal, Recorded, TypeOK, Loops, Passive, Journal

LEMMA AppendIsRecorded ==
  ASSUME TypeOK, Journal, Lively, NEW event, NEW next, Append(event, next)
  PROVE  /\ Recorded /\ stage' \in {next, "loop", "record"}
         /\ \/ stage' \in {"loop", "record"}
            \/ event \in Announcements => event \in intents' \/ (Heard => out'.stop)
<1>1. CASE Written(event) /\ stage' = next
  BY <1>1, WrittenIsRecorded
<1>2. CASE Skipped /\ stage' = next
  BY <1>2, SkippedIsRecorded DEF Skipped, Journal, Lively
<1>3. CASE LogFails(Raised(LogFailing(out))) /\ stage' = AfterLogFailure(next)
  <2> DEFINE o == Raised(LogFailing(out))
  <2>1. o \in Outcomes /\ o.exit = 1 /\ o.goal = FALSE /\ (out.stop => o.stop)
    BY RaisedFields DEF TypeOK
  <2>2. out' = o /\ LogFails(o)
    BY <1>3 DEF LogFails
  <2> HIDE DEF o
  <2>3. CASE tip /\ Heard
    BY <1>3, <2>1, <2>2, <2>3, LogFailsIsRecorded DEF Lively, AfterLogFailure
  <2>4. CASE tip /\ ~Heard
    BY <1>3, <2>1, <2>2, <2>4, Quits DEF AfterLogFailure, Recorded, LogFails, TypeOK, Loops
  <2>5. CASE ~tip
    <3>1. stage' \in {"loop", "record"}
      BY <1>3, <2>5 DEF AfterLogFailure, Unwound
    <3>2. QED  BY <2>1, <2>2, <3>1, LogFailsIsRecorded DEF Passive
  <2>6. QED  BY <2>3, <2>4, <2>5
<1>4. QED  BY <1>1, <1>2, <1>3 DEF Append

LEMMA ReportFailsIsRecorded ==
  ASSUME TypeOK, Journal, Lively, NEW event, ReportFails(event)
  PROVE  Recorded /\ out'.stop
<1>1. out \in Outcomes /\ Failing(out) \in Outcomes
  BY OutcomeFields DEF TypeOK
<1> DEFINE f == Failing(out)
<1>4. f \in Outcomes /\ f.exit = 1 /\ f.goal = FALSE /\ f.stop = TRUE
  BY <1>1, OutcomeFields
<1> HIDE DEF f
<1>5. LogFailing(f) \in Outcomes /\ LogFailing(f).exit = 1 /\ LogFailing(f).goal = FALSE /\ LogFailing(f).stop = f.stop
  BY <1>4, OutcomeFields
<1>6. out' = f \/ out' = LogFailing(f)
  BY DEF ReportFails, f
<1>2. /\ out' \in Outcomes /\ out'.exit = 1 /\ out'.goal = FALSE /\ out'.stop
  BY <1>4, <1>5, <1>6
<1>3. QED  BY <1>2, Quits DEF ReportFails, With, Recorded, TypeOK, Loops, Lively, Journal

LEMMA SayIsRecorded ==
  ASSUME TypeOK, Journal, Lively, NEW event, NEW next, Say(event, next)
  PROVE  Recorded /\ stage' \in {next, "loop", "record"}
  BY AppendIsRecorded, ReportFailsIsRecorded DEF Say
(* A step before the recovery keeps what is not about the host.            *)
LEMMA EarlyStep ==
  ASSUME IInv, Recorded, Bystanders', signal' \in BOOLEAN, signal => signal',
         UNCHANGED ended, stage \notin Ending, stage' \in Stages \ Ending,
         profile' \in {"original", "target"}, owed' \in BOOLEAN, retained' \in BOOLEAN,
         fd' \in {"none", "held"}, dark' \subseteq Devices, changed' \subseteq Devices,
         asked' \in BOOLEAN, accepted' \in BOOLEAN, flushed' \in BOOLEAN, late' \in Nat,
         retained => retained', accepted => accepted',
         Announced', Marked', Late1', Intents', EveryChangeIsOwed'
  PROVE  IInv'
<1>1. TypeOK'
  BY DEF IInv, TypeOK, Recorded, Bystanders, Loops
<1>2. Journal'
  BY DEF Journal, Recorded, Ending, Passive
<1>3. Recovered'
  BY DEF Recovered, Ending
<1>4. Honest'
  <2>1. stage' \notin {"end", "close", "done"}
    BY DEF Ending
  <2>2. Reason => Reason'
    BY DEF Reason, Recorded
  <2>3. log' = "open" /\ out'.goal => Reason'
    <3>1. log' = "open" => log = "open"
      BY DEF Recorded
    <3>2. QED  BY <2>2, <3>1 DEF IInv, Honest, Recorded
  <2>4. QED  BY <2>1, <2>3 DEF Honest, HonestOutcome
<1>5. QED  BY <1>1, <1>2, <1>3, <1>4 DEF IInv

LEMMA QuietStep ==
  ASSUME IInv, Recorded, Bystanders', signal' \in BOOLEAN, signal => signal',
         UNCHANGED <<ended, power, fd, dark, changed, sleep, late>>,
         stage \notin Ending,
         stage' \in Stages \ (Ending \cup Calls \cup {"slept"}),
         stage' \in Checks => Announced' /\ Marked'
  PROVE  IInv'
<1>1. /\ profile' \in {"original", "target"} /\ owed' \in BOOLEAN /\ retained' \in BOOLEAN
      /\ dark' \subseteq Devices /\ changed' \subseteq Devices
      /\ asked' \in BOOLEAN /\ accepted' \in BOOLEAN /\ flushed' \in BOOLEAN /\ late' \in Nat
      /\ (retained => retained') /\ (accepted => accepted')
  BY DEF IInv, TypeOK, power, sleep
<1>2. fd' \in {"none", "held"}
  BY DEF IInv, Recovered, Ending
<1>3. Announced'
  BY DEF Announced, Checks, Calls
<1>4. Marked'
  BY DEF Marked, Checks, Calls
<1>5. Late1'
  BY DEF IInv, Late1, OneLateMutation, Calls
<1>6. Intents'
  BY DEF IInv, Intents, IntentBeforeMutation, FlushedBeforeSleep, power, sleep, Recorded
<1>7. EveryChangeIsOwed'
  BY DEF IInv, EveryChangeIsOwed, power
<1>8. QED  BY <1>1, <1>2, <1>3, <1>4, <1>5, <1>6, <1>7, EarlyStep

LEMMA IsLively ==
  ASSUME IInv, stage \notin Ending, stage \notin Passive \/ ~tip
  PROVE  TypeOK /\ Journal /\ Lively /\ log # "closed"
  BY DEF IInv, Journal, Lively, Ending

LEMMA StandsBy ==
  ASSUME IInv, UNCHANGED <<option, source, lightTimer, sleepTimer, lid, todo>>
  PROVE  Bystanders'
  BY DEF IInv, TypeOK, Bystanders, option

Silent == UNCHANGED <<option, noted, power, fd, dark, changed, sleep, ended, late>>

(* In "exited" the log may have failed and nobody was told to stop.        *)
LEMMA ExitedStep ==
  ASSUME IInv, LoopExited
  PROVE  Recorded /\ stage' \in {"loop", "record"}
<1>1. TypeOK /\ Journal /\ log # "closed" /\ stage = "exited"
  BY DEF IInv, Journal, LoopExited, At
<1>2. CASE Written("exited") /\ stage' = "record"
  BY <1>1, <1>2 DEF Written, With, Recorded, TypeOK, Loops, Passive, Journal
<1>3. CASE Skipped /\ stage' = "record"
  BY <1>1, <1>3 DEF Skipped, Recorded, TypeOK, Loops, Passive, Journal
<1>4. CASE LogFails(Raised(LogFailing(out))) /\ stage' = AfterLogFailure("record")
  <2> DEFINE o == Raised(LogFailing(out))
  <2>1. o \in Outcomes /\ o.exit = 1 /\ o.goal = FALSE /\ (out.stop => o.stop)
    BY RaisedFields DEF IInv, TypeOK
  <2>2. LogFails(o) /\ stage' \in {"loop", "record"}
    BY <1>4 DEF AfterLogFailure, Unwound
  <2> HIDE DEF o
  <2>3. QED  BY <1>1, <2>1, <2>2, LogFailsIsRecorded DEF Passive
<1>5. QED  BY <1>2, <1>3, <1>4 DEF LoopExited, Append

-----------------------------------------------------------------------------
(* Setup.                                                                  *)
LEMMA RecordingSetup ==
  ASSUME IInv,
         \/ Plan \/ Connect \/ ValidateLid \/ PrepareBacklight \/ ProfileRead
         \/ ProfileInfo \/ InhibitInfo \/ Listen \/ AnnounceLoop \/ LoopExited
  PROVE  IInv'
<1>1. Silent /\ UNCHANGED <<source, lightTimer, sleepTimer, lid, todo>>
  BY DEF Plan, Connect, ValidateLid, PrepareBacklight, ProfileRead, ProfileInfo, InhibitInfo,
         Listen, AnnounceLoop, LoopExited, Silent, noted, timers, lights
<1>2. stage \notin Ending /\ (stage \notin Passive \/ stage = "exited")
  BY DEF Plan, Connect, ValidateLid, PrepareBacklight, ProfileRead, ProfileInfo, InhibitInfo,
         Listen, AnnounceLoop, LoopExited, At, Ending, Passive
<1>3. Bystanders' /\ signal' \in BOOLEAN /\ (signal => signal')
  BY <1>1, StandsBy DEF Silent, noted, IInv, TypeOK
<1> DEFINE Others == {"loop", "record", "teardown"}
<1>4. Recorded /\ stage' \in Others \cup {"battery", "validate", "profileRead", "capability",
         "backlight", "profileIntent", "retain", "inhibit", "listen", "lidState", "ready"}
  <2>1. CASE Plan
    BY <1>2, <2>1, IsLively, AppendIsRecorded DEF Plan, At
  <2>2. CASE Connect
    <3>1. AfterConnect \in {"validate", "profileRead", "capability"}
      BY RunLifecycleAssumption DEF AfterConnect, IInv, TypeOK
    <3>2. TypeOK /\ Journal /\ Lively /\ log # "closed"
      BY <1>2, <2>2, IsLively DEF Connect, At
    <3>3. Cancelled \/ Fatal \/ Append("connected", AfterConnect)
      BY <2>2 DEF Connect, Checked
    <3>4. QED  BY <3>1, <3>2, <3>3, CancelledIsRecorded, FatalIsRecorded, AppendIsRecorded
  <2>3. CASE ValidateLid
    BY <1>2, <2>3, IsLively, CancelledIsRecorded, FatalIsRecorded, AppendIsRecorded
       DEF ValidateLid, At, Checked
  <2>4. CASE PrepareBacklight
    BY <1>2, <2>4, IsLively, CancelledIsRecorded, FatalIsRecorded, SayIsRecorded
       DEF PrepareBacklight, At, Checked
  <2>5. CASE ProfileRead
    BY <1>2, <2>5, IsLively, CancelledIsRecorded, FatalIsRecorded, AppendIsRecorded
       DEF ProfileRead, At, Checked, AfterProfile
  <2>6. CASE ProfileInfo
    BY <1>2, <2>6, IsLively, SayIsRecorded DEF ProfileInfo, At, AfterProfile
  <2>7. CASE InhibitInfo
    BY <1>2, <2>7, IsLively, SayIsRecorded DEF InhibitInfo, At
  <2>8. CASE Listen
    BY <1>2, <2>8, IsLively, CancelledIsRecorded, AppendIsRecorded DEF Listen, At, Checked
  <2>9. CASE AnnounceLoop
    BY <1>2, <2>9, IsLively, CancelledIsRecorded, SayIsRecorded DEF AnnounceLoop, At, Checked
  <2>10. CASE LoopExited
    BY <2>10, ExitedStep
  <2>11. QED
    BY <2>1, <2>2, <2>3, <2>4, <2>5, <2>6, <2>7, <2>8, <2>9, <2>10
<1>5. /\ stage' \in Stages \ (Ending \cup Calls \cup {"slept"}) /\ stage' \notin Checks
  BY <1>4 DEF Stages, Ending, Calls, Checks
<1>6. QED  BY <1>1, <1>2, <1>3, <1>4, <1>5, QuietStep DEF Silent
LEMMA BatteryStep == ASSUME IInv, Battery PROVE IInv'
<1>1. Silent /\ UNCHANGED <<source, lightTimer, sleepTimer, lid, todo>> /\ stage = "battery"
  BY DEF Battery, Silent, noted, timers, lights, At
<1>2. stage \notin Ending /\ stage \notin Passive
  BY <1>1 DEF Ending, Passive
<1>3. Bystanders' /\ signal' \in BOOLEAN /\ (signal => signal')
  BY <1>1, StandsBy DEF Silent, noted, IInv, TypeOK
<1>4. TypeOK /\ Journal /\ Lively
  BY <1>2, IsLively
<1>5. Recorded /\ stage' \in {"loop", "record", "connect"}
  <2>1. CASE Append("battery", "connect")
    BY <1>4, <2>1, AppendIsRecorded
  <2>2. CASE /\ log = "open" /\ out' = [out EXCEPT !.exit = 1] /\ stage' = "connect"
             /\ UNCHANGED <<log, intents, tip, loop>>
    <3>1. /\ out' \in Outcomes /\ out'.exit = 1 /\ out'.stop = out.stop /\ out'.goal = out.goal
      BY <1>4, <2>2 DEF TypeOK, Outcomes
    <3>2. QED  BY <1>4, <2>2, <3>1 DEF Recorded, TypeOK, Loops, Lively
  <2>3. CASE BatteryLogFaults /\ LogFails(LogFailing(out)) /\ stage' = "connect"
    <3>1. ~Heard
      BY <2>3 DEF Heard
    <3>2. /\ LogFailing(out) \in Outcomes /\ LogFailing(out).exit = 1
          /\ LogFailing(out).stop = out.stop /\ LogFailing(out).goal = FALSE
      BY <1>4, OutcomeFields DEF TypeOK
    <3>3. QED  BY <1>4, <2>3, <3>1, <3>2, Quits DEF LogFails, Recorded, TypeOK, Loops
  <2>4. QED  BY <2>1, <2>2, <2>3 DEF Battery
<1>6. stage' \in Stages \ (Ending \cup Calls \cup {"slept"}) /\ stage' \notin Checks
  BY <1>5 DEF Stages, Ending, Calls, Checks
<1>7. QED  BY <1>1, <1>2, <1>3, <1>5, <1>6, QuietStep DEF Silent

(* An intent is on its way to the check that precedes its call.            *)
LEMMA IntentStep ==
  ASSUME IInv, ProfileIntent \/ InhibitIntent
  PROVE  IInv'
<1>1. /\ Silent /\ UNCHANGED <<source, lightTimer, sleepTimer, lid, todo>>
      /\ stage \in {"profileIntent", "inhibit"}
  BY DEF ProfileIntent, InhibitIntent, Silent, noted, timers, lights, At
<1>2. stage \notin Ending /\ stage \notin Passive
  BY <1>1 DEF Ending, Passive
<1>3. Bystanders' /\ signal' \in BOOLEAN /\ (signal => signal')
  BY <1>1, StandsBy DEF Silent, noted, IInv, TypeOK
<1>4. TypeOK /\ Journal /\ Lively /\ log # "closed"
  BY <1>2, IsLively
<1>5. /\ Recorded /\ stage' \in {"loop", "record", "teardown", "profileCheck", "inhibitCheck"}
      /\ stage' = "profileCheck" => "setProfile" \in intents' \/ (Heard => out'.stop)
      /\ stage' = "inhibitCheck" => "inhibit" \in intents' \/ (Heard => out'.stop)
  <2>1. "setProfile" \in Announcements /\ "inhibit" \in Announcements
    BY DEF Announcements
  <2>2. CASE ProfileIntent
    <3>1. Cancelled \/ Fatal \/ Append("setProfile", "profileCheck")
      BY <2>2 DEF ProfileIntent, Checked
    <3>2. CASE Cancelled
      BY <1>4, <3>2, CancelledIsRecorded
    <3>3. CASE Fatal
      BY <1>4, <3>3, FatalIsRecorded
    <3>4. CASE Append("setProfile", "profileCheck")
      BY <1>4, <2>1, <3>4, AppendIsRecorded
    <3>5. QED  BY <3>1, <3>2, <3>3, <3>4
  <2>3. CASE InhibitIntent
    <3>1. Cancelled \/ Append("inhibit", "inhibitCheck")
      BY <2>3 DEF InhibitIntent, Checked
    <3>2. CASE Cancelled
      BY <1>4, <3>2, CancelledIsRecorded
    <3>3. CASE Append("inhibit", "inhibitCheck")
      BY <1>4, <2>1, <3>3, AppendIsRecorded
    <3>4. QED  BY <3>1, <3>2, <3>3
  <2>4. QED  BY <2>2, <2>3
<1>6. stage' \in Stages \ (Ending \cup Calls \cup {"slept"})
  BY <1>5 DEF Stages, Ending, Calls
<1>7. Announced' /\ Marked'
  BY <1>5 DEF Announced, Marked
<1>8. QED  BY <1>1, <1>2, <1>3, <1>5, <1>6, <1>7, QuietStep DEF Silent

(* A check that finds no signal opens the way to the call.                 *)
LEMMA CheckStep ==
  ASSUME IInv, ProfileCheck \/ InhibitCheck \/ SleepCheck \/ DarkCheck
  PROVE  IInv'
<1>1. /\ stage \in Checks
      /\ UNCHANGED <<option, noted, timers, profile, retained, fd, dark, todo, sleep, ended, late>>
      /\ Cancelled \/ ~Stopped
      /\ ~Cancelled => ~Stopped /\ GoTo(IF stage = "profileCheck" THEN "profileSet"
                                      ELSE IF stage = "inhibitCheck" THEN "inhibitCall"
                                      ELSE IF stage = "sleepCheck" THEN "sleepCall" ELSE "darkSet")
      /\ owed' = owed \/ (owed' = TRUE)
      /\ stage = "profileCheck" /\ ~Cancelled => owed' = TRUE
      /\ changed' = changed \/ (stage = "darkCheck" /\ changed' = changed \cup {Current})
      /\ stage = "darkCheck" /\ ~Cancelled => changed' = changed \cup {Current}
  BY DEF ProfileCheck, InhibitCheck, SleepCheck, DarkCheck, At, Checked, Checks, power, lights,
         Cancelled, Stopped
<1>2. stage \notin Ending /\ stage \notin Passive
  BY <1>1 DEF Ending, Passive, Checks
<1>3. TypeOK /\ Journal /\ Lively
  BY <1>2, IsLively
<1>4. Bystanders' /\ signal' \in BOOLEAN /\ (signal => signal')
  BY <1>1, StandsBy DEF noted, timers, IInv, TypeOK
<1>5. /\ Recorded
      /\ \/ stage' \in {"loop", "record"}
         \/ /\ ~Stopped /\ UNCHANGED <<log, intents, tip, out, loop>>
            /\ stage' = (IF stage = "profileCheck" THEN "profileSet"
                         ELSE IF stage = "inhibitCheck" THEN "inhibitCall"
                         ELSE IF stage = "sleepCheck" THEN "sleepCall" ELSE "darkSet")
  <2>1. CASE Cancelled
    BY <1>3, <2>1, CancelledIsRecorded
  <2>2. CASE ~Cancelled
    BY <1>1, <1>3, <2>2, GoToIsRecorded
  <2>3. QED  BY <2>1, <2>2
<1>6. stage' \in Stages \ Ending
  BY <1>5 DEF Stages, Ending
<1>7. stage = "darkCheck" => Current \in Devices /\ todo # {} /\ Current \in todo
  BY DEF IInv, Marked, Current, TypeOK
<1>8. Current' = Current
  BY <1>1 DEF Current
<1>9. /\ profile' \in {"original", "target"} /\ owed' \in BOOLEAN /\ retained' \in BOOLEAN
      /\ dark' \subseteq Devices
      /\ asked' \in BOOLEAN /\ accepted' \in BOOLEAN /\ flushed' \in BOOLEAN /\ late' \in Nat
      /\ (retained => retained') /\ (accepted => accepted')
  BY <1>1 DEF IInv, TypeOK, sleep
<1>10. changed' \subseteq Devices
  BY <1>1, <1>7 DEF IInv, TypeOK
<1>11. fd' \in {"none", "held"}
  BY <1>1, <1>2 DEF IInv, Recovered, Ending
<1>12. Announced'
  <2> SUFFICES ASSUME Heard PROVE Announced'
    BY DEF Announced, Heard
  <2>1. CASE stage' \in {"loop", "record"}
    BY <2>1 DEF Announced
  <2>2. CASE stage' \notin {"loop", "record"}
    BY <1>1, <1>5, <1>8, <2>2 DEF IInv, Announced, Stopped, Checks, sleep
  <2>3. QED  BY <2>1, <2>2
<1>13. Marked'
  BY <1>1, <1>5, <1>7, <1>8 DEF Marked, Cancelled, Checks
<1>14. Late1'
  BY <1>1, <1>5 DEF IInv, Late1, OneLateMutation, Stopped, noted, Calls, TypeOK
<1>15. Intents'
  BY <1>1, <1>5 DEF IInv, Intents, IntentBeforeMutation, FlushedBeforeSleep, sleep, Recorded
<1>16. EveryChangeIsOwed'
  BY <1>1 DEF IInv, EveryChangeIsOwed
<1>17. UNCHANGED ended
  BY <1>1
<1>18. QED
  BY <1>2, <1>4, <1>5, <1>6, <1>9, <1>10, <1>11, <1>12, <1>13, <1>14, <1>15, <1>16, <1>17, EarlyStep

(* The loop is made, entered and left.                                     *)
LEMMA LoopSetup ==
  ASSUME IInv, MakeLoop \/ InitialLid \/ ScheduleBacklight \/ LastCheck \/ RunLoop \/ LoopReturns
  PROVE  IInv'
<1>1. /\ Silent /\ UNCHANGED <<source, sleepTimer, todo>>
      /\ stage \in {"makeLoop", "lidState", "schedule", "ready", "run", "loop"}
  BY DEF MakeLoop, InitialLid, ScheduleBacklight, LastCheck, RunLoop, LoopReturns, Silent, noted,
         timers, lights, At
<1>9. lid' \in {"unseen", "closed", "open"} /\ lightTimer' \in BOOLEAN
  <2>1. CASE InitialLid
    BY <2>1 DEF InitialLid, IInv, TypeOK
  <2>2. CASE ScheduleBacklight
    BY <2>2 DEF ScheduleBacklight, IInv, TypeOK
  <2>3. CASE MakeLoop \/ LastCheck \/ RunLoop \/ LoopReturns
    BY <2>3 DEF MakeLoop, LastCheck, RunLoop, LoopReturns, timers, IInv, TypeOK
  <2>4. QED  BY <2>1, <2>2, <2>3
<1>2. stage \notin Ending /\ (stage \notin Passive \/ stage = "loop")
  BY <1>1 DEF Ending, Passive
<1>3. Bystanders' /\ signal' \in BOOLEAN /\ (signal => signal')
  BY <1>1, <1>9 DEF Silent, noted, option, IInv, TypeOK, Bystanders
<1>4. TypeOK /\ Journal /\ log # "closed"
  BY <1>2 DEF IInv, Journal, Ending
<1>5. stage # "loop" => Lively
  BY <1>2, IsLively
<1>6. /\ Recorded
      /\ stage' \in {"loop", "record", "teardown", "makeLoop", "closed", "schedule", "enter", "run",
                     "exited"}
  <2>1. CASE MakeLoop
    <3>1. CASE Cancelled
      BY <1>1, <1>4, <1>5, <2>1, <3>1, CancelledIsRecorded DEF MakeLoop, At
    <3>2. CASE loop' = "made" /\ stage' = "schedule" /\ UNCHANGED <<log, intents, tip, out>>
      BY <1>4, <1>5, <2>1, <3>2 DEF MakeLoop, At, Recorded, TypeOK, Loops, Lively, Journal
    <3>3. QED  BY <2>1, <3>1, <3>2 DEF MakeLoop
  <2>2. CASE InitialLid
    <3>1. Lively
      BY <1>5, <2>2 DEF InitialLid, At
    <3>2. \/ Cancelled \/ Fatal \/ Say("lidState", "makeLoop") \/ Say("lidState", "closed")
      BY <2>2 DEF InitialLid
    <3>3. QED  BY <1>4, <3>1, <3>2, CancelledIsRecorded, FatalIsRecorded, SayIsRecorded
  <2>3. CASE ScheduleBacklight
    <3>1. Lively
      BY <1>5, <2>3 DEF ScheduleBacklight, At
    <3>2. \/ GoTo("enter") \/ Fatal \/ Say("scheduled", "enter")
      BY <2>3 DEF ScheduleBacklight
    <3>3. QED  BY <1>4, <3>1, <3>2, GoToIsRecorded, FatalIsRecorded, SayIsRecorded
  <2>4. CASE LastCheck
    <3>1. Lively
      BY <1>5, <2>4 DEF LastCheck, At
    <3>2. Cancelled \/ GoTo("run")
      BY <2>4 DEF LastCheck, Checked
    <3>3. QED  BY <1>4, <3>1, <3>2, CancelledIsRecorded, GoToIsRecorded
  <2>5. CASE RunLoop
    BY <1>4, <2>5 DEF RunLoop, Recorded, TypeOK, Loops, Journal, Passive
  <2>6. CASE LoopReturns
    BY <1>4, <2>6 DEF LoopReturns, Recorded, TypeOK, Loops, Journal, Passive
  <2>7. QED  BY <2>1, <2>2, <2>3, <2>4, <2>5, <2>6
<1>7. stage' \in Stages \ (Ending \cup Calls \cup {"slept"}) /\ stage' \notin Checks
  BY <1>6 DEF Stages, Ending, Calls, Checks
<1>8. QED  BY <1>1, <1>2, <1>3, <1>6, <1>7, QuietStep DEF Silent

(* A failed call is fatal, and what it may have changed is owed.           *)
LEMMA HostCall ==
  ASSUME IInv, ProfileSet \/ InhibitCall
  PROVE  IInv'
<1>1. /\ stage \in {"profileSet", "inhibitCall"} /\ Late
      /\ UNCHANGED <<option, noted, timers, owed, retained, lights, sleep, ended>>
      /\ stage = "profileSet" => profile' \in {"original", "target"} /\ fd' = fd
      /\ stage = "inhibitCall" => profile' = profile /\ fd' \in {"none", "held"}
      /\ Fatal \/ GoTo("profileInfo") \/ GoTo("inhibitInfo")
  BY DEF ProfileSet, InhibitCall, At, power
<1>2. stage \notin Ending /\ stage \notin Passive /\ stage \in Calls
  BY <1>1 DEF Ending, Passive, Calls
<1>3. TypeOK /\ Journal /\ Lively /\ log # "closed"
  BY <1>2, IsLively
<1>4. Bystanders' /\ signal' \in BOOLEAN /\ (signal => signal')
  BY <1>1, StandsBy DEF noted, timers, lights, IInv, TypeOK
<1>5. Recorded /\ stage' \in {"teardown", "profileInfo", "inhibitInfo"}
  BY <1>1, <1>3, FatalIsRecorded, GoToIsRecorded
<1>6. stage' \in Stages \ Ending
  BY <1>5 DEF Stages, Ending
<1>7. late = 0 /\ late' \in {0, 1} /\ (late' = 1 => signal)
  BY <1>1, <1>2 DEF IInv, Late1, Late
<1>8. /\ owed' \in BOOLEAN /\ retained' \in BOOLEAN /\ dark' \subseteq Devices
      /\ changed' \subseteq Devices /\ asked' \in BOOLEAN /\ accepted' \in BOOLEAN
      /\ flushed' \in BOOLEAN /\ (retained => retained') /\ (accepted => accepted')
  BY <1>1 DEF IInv, TypeOK, sleep, lights
<1>9. profile' \in {"original", "target"} /\ fd' \in {"none", "held"} /\ late' \in Nat
  BY <1>1, <1>2, <1>7 DEF IInv, TypeOK, Recovered, Ending
<1>10. Announced' /\ Marked'
  BY <1>5 DEF Announced, Marked
<1>11. Late1'
  BY <1>1, <1>5, <1>7 DEF Late1, OneLateMutation, noted, Calls
<1>12. Intents'
  BY <1>1, <1>5 DEF IInv, Intents, Announced, IntentBeforeMutation, FlushedBeforeSleep, sleep,
         lights, Recorded
<1>13. EveryChangeIsOwed'
  BY <1>1 DEF IInv, EveryChangeIsOwed, Marked, lights
<1>14. QED
  BY <1>1, <1>2, <1>4, <1>5, <1>6, <1>8, <1>9, <1>10, <1>11, <1>12, <1>13, EarlyStep

(* Normal mode keeps a change only when nothing asked it to stop.          *)
LEMMA RetainStep == ASSUME IInv, Retain PROVE IInv'
<1>1. /\ stage = "retain" /\ UNCHANGED <<option, noted, timers, profile, fd, lights, sleep, ended, late>>
      /\ \/ Cancelled /\ UNCHANGED <<owed, retained>>
         \/ /\ retained' = TRUE /\ owed' = FALSE
            /\ out' = [out EXCEPT !.goal = out.exit = 0, !.reason = "done"]
            /\ stage' = "record" /\ UNCHANGED <<log, intents, tip, loop>>
  BY DEF Retain, At
<1>2. stage \notin Ending /\ stage \notin Passive
  BY <1>1 DEF Ending, Passive
<1>3. TypeOK /\ Journal /\ Lively /\ log # "closed"
  BY <1>2, IsLively
<1>4. Bystanders' /\ signal' \in BOOLEAN /\ (signal => signal')
  BY <1>1, StandsBy DEF noted, timers, lights, IInv, TypeOK
<1>5. Recorded /\ stage' \in {"loop", "record"} /\ (retained => retained') /\ retained' \in BOOLEAN
      /\ owed' \in BOOLEAN /\ (owed \/ retained => owed' \/ retained')
  <2>1. CASE Cancelled /\ UNCHANGED <<owed, retained>>
    BY <1>3, <2>1, CancelledIsRecorded DEF TypeOK
  <2>2. CASE /\ retained' = TRUE /\ owed' = FALSE
             /\ out' = [out EXCEPT !.goal = out.exit = 0, !.reason = "done"]
             /\ stage' = "record" /\ UNCHANGED <<log, intents, tip, loop>>
    <3>1. out' \in Outcomes /\ out'.exit = out.exit /\ out'.stop = out.stop
      BY <1>3, <2>2 DEF TypeOK, Outcomes
    <3>2. Reason'
      BY <2>2 DEF Reason
    <3>3. QED  BY <1>3, <2>2, <3>1, <3>2 DEF Recorded, TypeOK, Loops, Lively, Journal
  <2>3. QED  BY <1>1, <2>1, <2>2
<1>6. stage' \in Stages \ Ending /\ stage' \notin Calls
  BY <1>5 DEF Stages, Ending, Calls
<1>7. /\ profile' \in {"original", "target"} /\ fd' \in {"none", "held"} /\ dark' \subseteq Devices
      /\ changed' \subseteq Devices /\ asked' \in BOOLEAN /\ accepted' \in BOOLEAN
      /\ flushed' \in BOOLEAN /\ late' \in Nat /\ (accepted => accepted')
  BY <1>1, <1>2 DEF IInv, TypeOK, sleep, lights, Recovered
<1>8. Announced' /\ Marked'
  BY <1>5 DEF Announced, Marked
<1>9. Late1'
  BY <1>1, <1>6 DEF IInv, Late1, OneLateMutation, noted
<1>10. Intents'
  BY <1>1, <1>5 DEF IInv, Intents, IntentBeforeMutation, FlushedBeforeSleep, sleep, lights, Recorded
<1>11. EveryChangeIsOwed'
  BY <1>1, <1>5 DEF IInv, EveryChangeIsOwed, lights
<1>12. QED
  BY <1>1, <1>2, <1>4, <1>5, <1>6, <1>7, <1>8, <1>9, <1>10, <1>11, EarlyStep

-----------------------------------------------------------------------------
(* The loop: what it dispatches, and what only records in a callback.      *)
LEMMA DispatchStep ==
  ASSUME IInv, Dispatch \/ QuitForSignal
  PROVE  IInv'
<1>1. /\ stage = "loop" /\ ~tip
      /\ UNCHANGED <<option, signal, power, fd, dark, changed, sleep, ended, late>>
  BY DEF Dispatch, QuitForSignal, Observe, LidCloses, LidOpens, SensorLost, LightTimerFires,
         SleepTimerFires, Dispatched, At, noted, lights
<1>2. stage \notin Ending /\ TypeOK /\ Journal /\ Lively /\ log # "closed"
  BY <1>1, IsLively DEF Ending
<1>3. /\ Recorded /\ Bystanders'
      /\ stage' \in {"loop", "record", "teardown", "closed", "opened", "dark", "expired"}
  <2>1. CASE Observe
    <3>1. Bystanders'
      BY <2>1, StandsBy DEF Observe, noted, timers, lights
    <3>2. CASE Say("observed", "loop")
      BY <1>2, <3>1, <3>2, SayIsRecorded
    <3>3. CASE log = "open" /\ out' = [out EXCEPT !.exit = 1]
               /\ UNCHANGED <<stage, log, intents, tip, loop>>
      <4>1. out' \in Outcomes /\ out'.exit = 1 /\ out'.stop = out.stop /\ out'.goal = out.goal
        BY <1>2, <3>3 DEF TypeOK, Outcomes
      <4>2. QED  BY <1>1, <1>2, <3>1, <3>3, <4>1 DEF Recorded, TypeOK, Loops, Lively
    <3>4. QED  BY <2>1, <3>2, <3>3 DEF Observe
  <2>2. CASE LidCloses
    <3>1. Say("lidClosed", "closed")
      BY <2>2 DEF LidCloses
    <3>2. Bystanders'
      BY <1>2, <2>2 DEF LidCloses, option, noted, lights, TypeOK, Bystanders
    <3>3. QED  BY <1>2, <3>1, <3>2, SayIsRecorded
  <2>3. CASE LidOpens
    <3>1. Say("lidOpened", "opened")
      BY <2>3 DEF LidOpens
    <3>2. Bystanders'
      BY <1>2, <2>3 DEF LidOpens, option, noted, lights, TypeOK, Bystanders
    <3>3. QED  BY <1>2, <3>1, <3>2, SayIsRecorded
  <2>4. CASE SensorLost
    <3>1. Fatal \/ Say("sensor", "loop")
      BY <2>4 DEF SensorLost
    <3>2. Bystanders'
      BY <2>4, StandsBy DEF SensorLost, noted, timers, lights
    <3>3. QED  BY <1>2, <3>1, <3>2, SayIsRecorded, FatalIsRecorded
  <2>5. CASE LightTimerFires
    <3>1. /\ stage' = "dark" /\ UNCHANGED <<log, intents, tip, out, loop>>
    BY <2>5 DEF LightTimerFires
    <3>2. Bystanders'
      BY <1>2, <2>5 DEF LightTimerFires, option, noted, TypeOK, Bystanders
    <3>3. QED  BY <1>1, <1>2, <3>1, <3>2 DEF Recorded, TypeOK, Loops, Journal
  <2>6. CASE SleepTimerFires
    <3>1. /\ stage' = "expired" /\ UNCHANGED <<log, intents, tip, loop>>
          /\ out' = [out EXCEPT !.goal = FALSE, !.reason = "timeout"]
      BY <2>6 DEF SleepTimerFires
    <3>2. Bystanders'
      BY <1>2, <2>6 DEF SleepTimerFires, option, noted, lights, TypeOK, Bystanders
    <3>3. out' \in Outcomes /\ out'.exit = out.exit /\ out'.stop = out.stop /\ out'.goal = FALSE
      BY <1>2, <3>1 DEF TypeOK, Outcomes
    <3>4. QED  BY <1>1, <1>2, <3>1, <3>2, <3>3 DEF Recorded, TypeOK, Loops, Journal
  <2>7. CASE QuitForSignal
    <3>1. /\ UNCHANGED <<stage, log, intents, tip, out>> /\ loop' = Quit(loop)
      BY <2>7 DEF QuitForSignal
    <3>2. Bystanders'
      BY <1>2, <2>7 DEF QuitForSignal, option, timers, lights, TypeOK, Bystanders
    <3>3. QED  BY <1>1, <1>2, <3>1, <3>2, Quits DEF Recorded, TypeOK, Loops, Journal
  <2>8. QED  BY <2>1, <2>2, <2>3, <2>4, <2>5, <2>6, <2>7 DEF Dispatch
<1>4. stage' \in Stages \ (Ending \cup Calls \cup {"slept"}) /\ stage' \notin Checks
  BY <1>3 DEF Stages, Ending, Calls, Checks
<1>5. signal' \in BOOLEAN /\ (signal => signal')
  BY <1>1, <1>2 DEF TypeOK
<1>6. QED  BY <1>1, <1>2, <1>3, <1>4, <1>5, QuietStep

(* The refusal of a sleep ends the loop, or is fatal before it.            *)
LEMMA SleepRefusedIsRecorded ==
  ASSUME TypeOK, Journal, Lively, SleepRefused
  PROVE  Recorded /\ stage' \in {"loop", "teardown"}
<1>1. CASE ~InLoop
  BY <1>1, FatalIsRecorded DEF SleepRefused, Lively
<1>2. CASE InLoop
  <2>1. CASE out' = [out EXCEPT !.exit = 1, !.goal = FALSE, !.reason = "failure"]
             /\ UNCHANGED <<log, tip>>
    <3>1. out' \in Outcomes /\ out'.exit = 1 /\ out'.stop = out.stop /\ out'.goal = FALSE
      BY <2>1 DEF TypeOK, Outcomes
    <3>2. QED  BY <1>2, <2>1, <3>1, Quits DEF SleepRefused, Recorded, TypeOK, Loops, Journal,
                  Passive, Lively
  <2>2. CASE LogFails(Raised(LogFailing(out)))
    <3> DEFINE o == Raised(LogFailing(out))
    <3>1. o \in Outcomes /\ o.exit = 1 /\ o.goal = FALSE /\ (out.stop => o.stop)
      BY RaisedFields DEF TypeOK
    <3>2. LogFails(o) /\ stage' = "loop"
      BY <1>2, <2>2 DEF SleepRefused
    <3> HIDE DEF o
    <3>3. QED  BY <3>1, <3>2, LogFailsIsRecorded DEF Passive
  <2>3. QED  BY <1>2, <2>1, <2>2 DEF SleepRefused
<1>3. QED  BY <1>1, <1>2

LEMMA RecordingCallback ==
  ASSUME IInv,
         \/ AnnounceCountdown \/ StartCountdown \/ CancelCountdown \/ Expired \/ SleepCapability
         \/ Undone
  PROVE  IInv'
<1>1. /\ Silent /\ UNCHANGED <<source, lightTimer, lid, todo>>
      /\ stage \in {"closed", "arm", "opened", "expired", "capability", "undo"}
  BY DEF AnnounceCountdown, StartCountdown, CancelCountdown, Expired, SleepCapability, Undone, At,
         Silent, noted, timers, lights
<1>2. sleepTimer' \in BOOLEAN
  <2>1. CASE StartCountdown \/ CancelCountdown
    BY <2>1 DEF StartCountdown, CancelCountdown
  <2>2. CASE AnnounceCountdown \/ Expired \/ SleepCapability \/ Undone
    BY <2>2 DEF AnnounceCountdown, Expired, SleepCapability, Undone, timers, IInv, TypeOK
  <2>3. QED  BY <2>1, <2>2
<1>3. stage \notin Ending /\ (stage \notin Passive \/ stage = "undo")
  BY <1>1 DEF Ending, Passive
<1>4. Bystanders' /\ signal' \in BOOLEAN /\ (signal => signal')
  BY <1>1, <1>2 DEF Silent, noted, option, IInv, TypeOK, Bystanders
<1>5. TypeOK /\ Journal /\ log # "closed"
  BY <1>3 DEF IInv, Journal, Ending
<1>6. stage # "undo" => Lively
  BY <1>3, IsLively
<1>7. AfterLid \in {"loop", "makeLoop"}
  BY DEF AfterLid
<1>8. /\ Recorded
      /\ stage' \in {"loop", "record", "teardown", "arm", "makeLoop", "cycle", "capability", "sleepIntent"}
  <2>1. CASE AnnounceCountdown
    <3>1. Lively /\ (Say("countdown", "arm") \/ GoTo(AfterLid))
      BY <1>6, <2>1 DEF AnnounceCountdown, At
    <3>2. QED  BY <1>5, <1>7, <3>1, SayIsRecorded, GoToIsRecorded
  <2>2. CASE StartCountdown
    <3>1. Lively /\ Append("started", AfterLid)
      BY <1>6, <2>2 DEF StartCountdown, At
    <3>2. QED  BY <1>5, <1>7, <3>1, AppendIsRecorded
  <2>3. CASE CancelCountdown
    <3>1. Lively /\ Say("cancelled", IF ignoreLid THEN "loop" ELSE "cycle")
      BY <1>6, <2>3 DEF CancelCountdown, At
    <3>2. QED  BY <1>5, <3>1, SayIsRecorded
  <2>4. CASE Expired
    <3>1. Lively /\ Say("expired", "capability")
      BY <1>6, <2>4 DEF Expired, At
    <3>2. QED  BY <1>5, <3>1, SayIsRecorded
  <2>5. CASE SleepCapability
    <3>1. Lively /\ (SleepRefused \/ Append("capability", "sleepIntent"))
      BY <1>6, <2>5 DEF SleepCapability, At
    <3>2. QED  BY <1>5, <3>1, SleepRefusedIsRecorded, AppendIsRecorded
  <2>6. CASE Undone
    BY <1>5, <2>6, Quits DEF Undone, Recorded, TypeOK, Loops, Journal, Passive
  <2>7. QED  BY <2>1, <2>2, <2>3, <2>4, <2>5, <2>6
<1>9. stage' \in Stages \ (Ending \cup Calls \cup {"slept"}) /\ stage' \notin Checks
  BY <1>8 DEF Stages, Ending, Calls, Checks
<1>10. QED  BY <1>1, <1>3, <1>4, <1>8, <1>9, QuietStep DEF Silent

(* The goal is reached only for a reason that is in the log.               *)
LEMMA GoalStep ==
  ASSUME IInv, LidCycleEnds \/ SleepAccepted
  PROVE  IInv'
<1>1. /\ Silent /\ UNCHANGED <<source, lightTimer, sleepTimer, lid, todo>>
      /\ stage \in {"cycle", "slept"}
  BY DEF LidCycleEnds, SleepAccepted, At, Silent, noted, timers, lights
<1>2. stage \notin Ending /\ stage \notin Passive
  BY <1>1 DEF Ending, Passive
<1>3. Bystanders' /\ signal' \in BOOLEAN /\ (signal => signal')
  BY <1>1, StandsBy DEF Silent, noted, IInv, TypeOK
<1>4. TypeOK /\ Journal /\ Lively
  BY <1>2, IsLively
<1>5. stage' \in {"loop", "record"}
  BY DEF LidCycleEnds, SleepAccepted, Unwound
<1>6. Recorded
  <2>1. CASE LogFails(Raised(LogFailing(out)))
    <3> DEFINE o == Raised(LogFailing(out))
    <3>1. o \in Outcomes /\ o.exit = 1 /\ o.goal = FALSE /\ (out.stop => o.stop)
      BY <1>4, RaisedFields DEF TypeOK
    <3>2. LogFails(o)
      BY <2>1
    <3> HIDE DEF o
    <3>3. QED  BY <1>4, <1>5, <3>1, <3>2, LogFailsIsRecorded DEF Passive
  <2>2. CASE LidCycleEnds /\ ~LogFails(Raised(LogFailing(out)))
    <3>1. /\ intents' = With("cycle") /\ out' = [out EXCEPT !.goal = TRUE, !.reason = "lid"]
          /\ UNCHANGED <<log, tip>> /\ loop' = Quit(loop)
      BY <2>2 DEF LidCycleEnds
    <3>2. out' \in Outcomes /\ out'.exit = out.exit /\ out'.stop = out.stop
      BY <1>4, <3>1 DEF TypeOK, Outcomes
    <3>3. intents \subseteq intents' /\ intents' \subseteq Announcements
      BY <1>4, <3>1 DEF With, TypeOK
    <3>4. log' = "open" => Reason'
      BY <3>1 DEF Reason, With, Announcements
    <3>5. QED  BY <1>4, <1>5, <3>1, <3>2, <3>3, <3>4, Quits DEF Recorded, TypeOK, Loops, Journal,
                  Passive, Lively
  <2>3. CASE SleepAccepted /\ ~LogFails(Raised(LogFailing(out)))
    <3>1. /\ intents' = With("slept") /\ UNCHANGED <<log, tip>> /\ loop' = Quit(loop)
          /\ out' = [out EXCEPT !.goal = out.exit = 0,
                               !.reason = IF InLoop THEN @ ELSE "done"]
      BY <2>3 DEF SleepAccepted
    <3>2. out' \in Outcomes /\ out'.exit = out.exit /\ out'.stop = out.stop
      BY <1>4, <3>1 DEF TypeOK, Outcomes
    <3>3. intents \subseteq intents' /\ intents' \subseteq Announcements
      BY <1>4, <3>1 DEF With, TypeOK
    <3>4. accepted'
      BY <1>1, <2>3 DEF SleepAccepted, At, IInv, Marked, Silent, sleep
    <3>5. QED  BY <1>4, <1>5, <3>1, <3>2, <3>3, <3>4, Quits DEF Recorded, TypeOK, Loops, Journal,
                  Passive, Reason, Lively
  <2>4. QED  BY <2>1, <2>2, <2>3
<1>7. stage' \in Stages \ (Ending \cup Calls \cup {"slept"}) /\ stage' \notin Checks
  BY <1>5 DEF Stages, Ending, Calls, Checks
<1>8. QED  BY <1>1, <1>2, <1>3, <1>6, <1>7, QuietStep DEF Silent

LEMMA AppendOrUndoIsRecorded ==
  ASSUME TypeOK, Journal, Lively, NEW event, NEW next, NEW rest, AppendOrUndo(event, next, rest)
  PROVE  /\ Recorded
         /\ \/ stage' = next /\ todo' = rest
               /\ (event \in Announcements => event \in intents' \/ (Heard => out'.stop))
            \/ stage' = "undo" /\ todo' = changed
<1>1. CASE Written(event) /\ stage' = next /\ todo' = rest
  BY <1>1, WrittenIsRecorded
<1>2. CASE Skipped /\ stage' = next /\ todo' = rest
  BY <1>2, SkippedIsRecorded DEF Skipped, Journal, Lively
<1>3. CASE LogFails(LogFailing(out)) /\ stage' = "undo" /\ todo' = changed
  <2> DEFINE o == LogFailing(out)
  <2>1. o \in Outcomes /\ o.exit = 1 /\ o.goal = FALSE /\ o.stop = out.stop
    BY OutcomeFields DEF TypeOK
  <2>2. LogFails(o)
    BY <1>3
  <2> HIDE DEF o
  <2>3. QED  BY <1>3, <2>1, <2>2, LogFailsIsRecorded DEF Passive
<1>4. QED  BY <1>1, <1>2, <1>3 DEF AppendOrUndo

LEMMA DarkRecord ==
  ASSUME IInv, DarkIntent \/ DarkVerified
  PROVE  IInv'
<1>1. /\ Silent /\ UNCHANGED <<source, lightTimer, sleepTimer, lid>>
      /\ stage \in {"dark", "darkVerify"}
  BY DEF DarkIntent, DarkVerified, At, Silent, noted, timers
<1>2. stage \notin Ending /\ stage \notin Passive
  BY <1>1 DEF Ending, Passive
<1>3. TypeOK /\ Journal /\ Lively
  BY <1>2, IsLively
<1>4. /\ Recorded /\ todo' \subseteq Devices
      /\ \/ stage' \in {"loop", "undo", "dark"}
         \/ /\ stage' = "darkCheck" /\ todo' = todo /\ todo # {}
            /\ Current \in intents' \/ (Heard => out'.stop)
  <2>1. CASE DarkIntent /\ todo # {}
    <3>1. AppendOrUndo(Current, "darkCheck", todo)
      BY <2>1 DEF DarkIntent
    <3>2. Current \in Announcements
      BY <1>3, <2>1 DEF Announcements, Current, TypeOK
    <3>3. QED  BY <1>3, <2>1, <3>1, <3>2, AppendOrUndoIsRecorded DEF TypeOK
  <2>2. CASE DarkIntent /\ todo = {}
    <3>1. \/ AppendOrUndo("darkened", "loop", todo)
          \/ ReportFails("darkened") /\ stage' = "loop" /\ UNCHANGED todo
      BY <2>2 DEF DarkIntent
    <3>2. QED  BY <1>3, <3>1, AppendOrUndoIsRecorded, ReportFailsIsRecorded DEF TypeOK
  <2>3. CASE DarkVerified
    <3>1. AppendOrUndo("verified", "dark", todo \ {Current})
      BY <2>3 DEF DarkVerified
    <3>2. QED  BY <1>3, <3>1, AppendOrUndoIsRecorded DEF TypeOK
  <2>4. QED  BY <2>1, <2>2, <2>3
<1>5. Bystanders' /\ signal' \in BOOLEAN /\ (signal => signal')
  BY <1>1, <1>3, <1>4 DEF Silent, noted, option, TypeOK, Bystanders
<1>6. stage' \in Stages \ (Ending \cup Calls \cup {"slept"})
  BY <1>4 DEF Stages, Ending, Calls
<1>7. ASSUME stage' \in Checks PROVE Announced' /\ Marked'
  <2>1. /\ stage' = "darkCheck" /\ todo' = todo /\ todo # {}
        /\ Current \in intents' \/ (Heard => out'.stop)
    BY <1>4, <1>7 DEF Checks
  <2>2. Current' = Current
    BY <2>1 DEF Current
  <2>3. QED  BY <2>1, <2>2 DEF Announced, Marked
<1>8. QED  BY <1>1, <1>2, <1>4, <1>5, <1>6, <1>7, QuietStep DEF Silent

(* The intent of a sleep flushes the history, or asks to stop.             *)
LEMMA SleepIntentStep == ASSUME IInv, SleepIntent PROVE IInv'
<1>1. /\ UNCHANGED <<option, noted, timers, power, fd, lights, asked, accepted, ended, late>>
      /\ stage = "sleepIntent" /\ (flushed' = flushed \/ flushed' = TRUE)
  BY DEF SleepIntent, At
<1>2. stage \notin Ending /\ stage \notin Passive
  BY <1>1 DEF Ending, Passive
<1>3. TypeOK /\ Journal /\ Lively
  BY <1>2, IsLively
<1>4. Bystanders' /\ signal' \in BOOLEAN /\ (signal => signal')
  BY <1>1, StandsBy DEF noted, timers, lights, IInv, TypeOK
<1>5. /\ Recorded /\ stage' \in {"loop", "record", "sleepCheck"}
      /\ stage' = "sleepCheck" => ("sleep" \in intents' /\ flushed') \/ (Heard => out'.stop)
  <2>1. "sleep" \in Announcements
    BY DEF Announcements
  <2>2. CASE Written("sleep") /\ stage' = "sleepCheck" /\ flushed' = TRUE
    BY <1>3, <2>1, <2>2, WrittenIsRecorded
  <2>3. CASE Skipped /\ stage' = "sleepCheck"
    BY <1>3, <2>3, SkippedIsRecorded DEF Skipped, Journal, Lively
  <2>4. CASE ReportFails("sleep") /\ stage' = "sleepCheck"
    BY <1>3, <2>4, ReportFailsIsRecorded
  <2>5. CASE LogFails(Raised(LogFailing(out))) /\ stage' = AfterLogFailure("sleepCheck")
    <3>1. Append("sleep", "sleepCheck")
      BY <2>5 DEF Append
    <3>2. stage' = "sleepCheck" => (Heard => out'.stop)
      <4>1. stage' = "sleepCheck" => tip'
        BY <2>5 DEF LogFails
      <4>2. "sleepCheck" \notin Passive
        BY DEF Passive, Ending
      <4>3. Recorded
        BY <1>3, <3>1, AppendIsRecorded
      <4>4. QED  BY <4>1, <4>2, <4>3 DEF Recorded
    <3>3. QED  BY <1>3, <3>1, <3>2, AppendIsRecorded
  <2>6. QED  BY <2>2, <2>3, <2>4, <2>5 DEF SleepIntent
<1>6. stage' \in Stages \ Ending /\ stage' \notin Calls
  BY <1>5 DEF Stages, Ending, Calls
<1>7. /\ profile' \in {"original", "target"} /\ owed' \in BOOLEAN /\ retained' \in BOOLEAN
      /\ fd' \in {"none", "held"} /\ dark' \subseteq Devices /\ changed' \subseteq Devices
      /\ asked' \in BOOLEAN /\ accepted' \in BOOLEAN /\ flushed' \in BOOLEAN /\ late' \in Nat
      /\ (retained => retained') /\ (accepted => accepted') /\ (flushed => flushed')
  BY <1>1, <1>2 DEF IInv, TypeOK, power, lights, Recovered
<1>8. Announced' /\ Marked'
  BY <1>5 DEF Announced, Marked
<1>9. Late1'
  BY <1>1, <1>6 DEF IInv, Late1, OneLateMutation, noted
<1>10. Intents'
  BY <1>1, <1>5, <1>7 DEF IInv, Intents, IntentBeforeMutation, FlushedBeforeSleep, power, lights,
         Recorded
<1>11. EveryChangeIsOwed'
  BY <1>1 DEF IInv, EveryChangeIsOwed, power, lights
<1>12. QED
  BY <1>1, <1>2, <1>4, <1>5, <1>6, <1>7, <1>8, <1>9, <1>10, <1>11, EarlyStep

(* A sleep is asked for once it is announced and the history is safe.      *)
LEMMA SleepCallStep == ASSUME IInv, SleepCall PROVE IInv'
<1>1. /\ UNCHANGED <<option, noted, timers, power, fd, lights, flushed, ended>>
      /\ stage = "sleepCall" /\ Late /\ asked' = TRUE
      /\ \/ accepted' = TRUE /\ GoTo("slept")
         \/ SleepRefused /\ UNCHANGED accepted
  BY DEF SleepCall, At
<1>2. stage \notin Ending /\ stage \notin Passive /\ stage \in Calls
  BY <1>1 DEF Ending, Passive, Calls
<1>3. TypeOK /\ Journal /\ Lively
  BY <1>2, IsLively
<1>4. Bystanders' /\ signal' \in BOOLEAN /\ (signal => signal')
  BY <1>1, StandsBy DEF noted, timers, lights, IInv, TypeOK
<1>5. Recorded /\ (stage' \in {"loop", "teardown"} \/ (stage' = "slept" /\ accepted' = TRUE))
  <2>1. CASE accepted' = TRUE /\ GoTo("slept")
    BY <1>3, <2>1, GoToIsRecorded
  <2>2. CASE SleepRefused
    BY <1>3, <2>2, SleepRefusedIsRecorded
  <2>3. QED  BY <1>1, <2>1, <2>2
<1>6. stage' \in Stages \ Ending /\ stage' \notin Calls
  BY <1>5 DEF Stages, Ending, Calls
<1>7. late = 0 /\ late' \in {0, 1} /\ (late' = 1 => signal)
  BY <1>1, <1>2 DEF IInv, Late1, Late
<1>8. /\ profile' \in {"original", "target"} /\ owed' \in BOOLEAN /\ retained' \in BOOLEAN
      /\ fd' \in {"none", "held"} /\ dark' \subseteq Devices /\ changed' \subseteq Devices
      /\ asked' \in BOOLEAN /\ flushed' \in BOOLEAN /\ late' \in Nat /\ (retained => retained')
  BY <1>1, <1>2, <1>7 DEF IInv, TypeOK, power, lights, Recovered
<1>9. accepted' \in BOOLEAN /\ (accepted => accepted')
  <2>1. accepted' = TRUE \/ accepted' = accepted
    BY <1>1
  <2>2. QED  BY <2>1 DEF IInv, TypeOK
<1>10. Announced' /\ Marked'
  BY <1>5 DEF Announced, Marked
<1>11. Late1'
  BY <1>1, <1>5, <1>7 DEF Late1, OneLateMutation, noted, Calls
<1>12. Intents'
  BY <1>1, <1>5 DEF IInv, Intents, Announced, IntentBeforeMutation, FlushedBeforeSleep, power,
         lights, Recorded
<1>13. EveryChangeIsOwed'
  BY <1>1 DEF IInv, EveryChangeIsOwed, power, lights
<1>14. QED
  BY <1>1, <1>2, <1>4, <1>5, <1>6, <1>8, <1>9, <1>10, <1>11, <1>12, <1>13, EarlyStep

(* A device is marked before it is switched off.                           *)
LEMMA DarkSetStep == ASSUME IInv, DarkSet PROVE IInv'
<1>1. /\ UNCHANGED <<option, noted, timers, power, fd, changed, sleep, ended>>
      /\ stage = "darkSet" /\ Late /\ dark' \in {dark, dark \cup {Current}}
  BY DEF DarkSet, At
<1>2. stage \notin Ending /\ stage \notin Passive /\ stage \in Calls
  BY <1>1 DEF Ending, Passive, Calls
<1>3. TypeOK /\ Journal /\ Lively
  BY <1>2, IsLively
<1>4. Current \in changed /\ Current \in Devices
  BY <1>1 DEF IInv, Marked, TypeOK
<1>5. /\ Recorded /\ todo' \subseteq Devices
      /\ stage' \in {"darkVerify", "undo", "loop"}
  <2>1. CASE stage' = "darkVerify" /\ UNCHANGED <<log, intents, tip, out, loop, todo>>
    BY <1>3, <2>1 DEF Recorded, TypeOK, Loops, Lively, Journal
  <2>2. CASE /\ out' = [out EXCEPT !.exit = 1, !.goal = FALSE, !.reason = "failure"]
             /\ stage' = "undo" /\ todo' = changed /\ UNCHANGED <<log, intents, tip, loop>>
    <3>1. out' \in Outcomes /\ out'.exit = 1 /\ out'.stop = out.stop /\ out'.goal = FALSE
      BY <1>3, <2>2 DEF TypeOK, Outcomes
    <3>2. QED  BY <1>3, <2>2, <3>1 DEF Recorded, TypeOK, Loops, Lively, Journal
  <2>3. CASE LogFails(Raised(LogFailing(out))) /\ stage' = "loop" /\ UNCHANGED todo
    <3> DEFINE o == Raised(LogFailing(out))
    <3>1. o \in Outcomes /\ o.exit = 1 /\ o.goal = FALSE /\ (out.stop => o.stop)
      BY <1>3, RaisedFields DEF TypeOK
    <3>2. LogFails(o)
      BY <2>3
    <3> HIDE DEF o
    <3>3. QED  BY <1>3, <2>3, <3>1, <3>2, LogFailsIsRecorded DEF Passive, TypeOK
  <2>4. QED  BY <2>1, <2>2, <2>3 DEF DarkSet
<1>6. Bystanders' /\ signal' \in BOOLEAN /\ (signal => signal')
  BY <1>1, <1>3, <1>5 DEF option, noted, timers, TypeOK, Bystanders
<1>7. stage' \in Stages \ Ending
  BY <1>5 DEF Stages, Ending
<1>8. late = 0 /\ late' \in {0, 1} /\ (late' = 1 => signal)
  BY <1>1, <1>2 DEF IInv, Late1, Late
<1>9. /\ profile' \in {"original", "target"} /\ owed' \in BOOLEAN /\ retained' \in BOOLEAN
      /\ fd' \in {"none", "held"} /\ changed' \subseteq Devices
      /\ asked' \in BOOLEAN /\ accepted' \in BOOLEAN /\ flushed' \in BOOLEAN /\ late' \in Nat
      /\ (retained => retained') /\ (accepted => accepted')
  BY <1>1, <1>2, <1>8 DEF IInv, TypeOK, power, sleep, Recovered
<1>10. dark' \subseteq Devices
  BY <1>1, <1>4 DEF IInv, TypeOK
<1>11. Announced' /\ Marked'
  BY <1>5 DEF Announced, Marked
<1>12. Late1'
  BY <1>1, <1>5, <1>8 DEF Late1, OneLateMutation, noted, Calls
<1>13. Intents'
  <2> SUFFICES ASSUME Heard PROVE Intents'
    BY DEF Intents, Heard
  <2>1. Current \in intents
    BY <1>1 DEF IInv, Announced
  <2>2. QED  BY <1>1, <1>5, <2>1 DEF IInv, Intents, IntentBeforeMutation, FlushedBeforeSleep, power,
                sleep, Recorded
<1>14. EveryChangeIsOwed'
  BY <1>1, <1>4 DEF IInv, EveryChangeIsOwed, power
<1>15. UNCHANGED ended
  BY <1>1
<1>16. QED
  BY <1>2, <1>5, <1>6, <1>7, <1>9, <1>10, <1>11, <1>12, <1>13, <1>14, <1>15, EarlyStep

(* A device that may still be dark stays marked.                           *)
LEMMA RestoreDeviceFields ==
  ASSUME TypeOK, NEW from, RestoreDevice(from)
  PROVE  /\ stage = from /\ stage' = from /\ todo' \subseteq todo
         /\ UNCHANGED <<option, noted, timers, power, fd, sleep, ended, late, intents>>
         /\ dark' \subseteq dark /\ changed' \subseteq changed /\ out' \in Outcomes
         /\ dark \subseteq changed => dark' \subseteq changed'
         /\ out'.exit \in {out.exit, 1} /\ (out.stop => out'.stop)
         /\ out'.exit = 1 \/ (dark' = dark \ {Current} /\ todo' = todo \ {Current})
         /\ out'.goal => out.goal
         /\ \/ UNCHANGED <<log, tip, loop>>
            \/ ~tip /\ log' = "failed" /\ tip' = TRUE /\ log = "open" /\ loop' = Quit(loop)
<1> DEFINE l == LogFailing(out)
<1>1. l \in Outcomes /\ l.stop = out.stop /\ l.goal = FALSE
  BY OutcomeFields DEF TypeOK
<1> HIDE DEF l
<1>2. /\ RestoreFailure(l) \in Outcomes /\ RestoreFailure(l).exit = 1
      /\ RestoreFailure(l).stop = out.stop /\ RestoreFailure(l).goal = FALSE
  BY <1>1, OutcomeFields
<1>3. /\ RestoreFailure(out) \in Outcomes /\ RestoreFailure(out).exit = 1
      /\ RestoreFailure(out).stop = out.stop /\ RestoreFailure(out).goal = out.goal
  BY OutcomeFields DEF TypeOK
<1>4. /\ stage = from /\ UNCHANGED stage /\ todo' = todo \ {Current}
      /\ UNCHANGED <<option, noted, timers, power, fd, sleep, ended, late>>
  BY DEF RestoreDevice, At
<1>5. CASE /\ dark' = dark \ {Current} /\ changed' = changed \ {Current}
           /\ UNCHANGED <<log, intents, tip, out, loop>>
  BY <1>4, <1>5 DEF TypeOK
<1>6. CASE /\ dark' \in {dark, dark \ {Current}} /\ UNCHANGED changed
           /\ out' = RestoreFailure(out) /\ UNCHANGED <<log, intents, tip, loop>>
  BY <1>3, <1>4, <1>6
<1>7. CASE /\ ~tip /\ LogFails(RestoreFailure(l)) /\ UNCHANGED <<dark, changed>>
  BY <1>2, <1>4, <1>7 DEF LogFails
<1>8. QED  BY <1>5, <1>6, <1>7 DEF RestoreDevice, l

LEMMA UndoDeviceStep == ASSUME IInv, UndoDevice PROVE IInv'
<1>1. TypeOK /\ RestoreDevice("undo")
  BY DEF IInv, UndoDevice
<1>2. /\ stage = "undo" /\ stage' = "undo" /\ todo' \subseteq todo
      /\ UNCHANGED <<option, noted, timers, power, fd, sleep, ended, late, intents>>
      /\ dark' \subseteq dark /\ changed' \subseteq changed /\ out' \in Outcomes
      /\ dark \subseteq changed => dark' \subseteq changed'
      /\ out'.exit \in {out.exit, 1} /\ (out.stop => out'.stop) /\ (out'.goal => out.goal)
      /\ \/ UNCHANGED <<log, tip, loop>>
         \/ ~tip /\ log' = "failed" /\ tip' = TRUE /\ log = "open" /\ loop' = Quit(loop)
  BY <1>1, RestoreDeviceFields
<1>3. /\ stage \notin Ending /\ stage' \in Passive /\ Journal /\ stage' \in Stages \ Ending
      /\ log # "closed"
  BY <1>2 DEF Ending, Passive, IInv, Journal, Stages
<1>4. Recorded
  BY <1>1, <1>2, <1>3, Quits DEF Recorded, TypeOK, Loops, Journal
<1>5. Bystanders' /\ signal' \in BOOLEAN /\ (signal => signal')
  BY <1>1, <1>2 DEF option, noted, timers, TypeOK, Bystanders
<1>6. /\ profile' \in {"original", "target"} /\ owed' \in BOOLEAN /\ retained' \in BOOLEAN
      /\ fd' \in {"none", "held"} /\ dark' \subseteq Devices /\ changed' \subseteq Devices
      /\ asked' \in BOOLEAN /\ accepted' \in BOOLEAN /\ flushed' \in BOOLEAN /\ late' \in Nat
      /\ (retained => retained') /\ (accepted => accepted')
  BY <1>2, <1>3 DEF IInv, TypeOK, power, sleep, Recovered
<1>7. Announced' /\ Marked'
  BY <1>2 DEF Announced, Marked
<1>8. Late1'
  BY <1>2 DEF IInv, Late1, OneLateMutation, noted, Calls
<1>9. Intents'
  BY <1>2 DEF IInv, Intents, IntentBeforeMutation, FlushedBeforeSleep, power, sleep
<1>10. EveryChangeIsOwed'
  BY <1>2 DEF IInv, EveryChangeIsOwed, power
<1>11. QED
  BY <1>2, <1>3, <1>4, <1>5, <1>6, <1>7, <1>8, <1>9, <1>10, EarlyStep

(* A signal only leaves its note.                                          *)
LEMMA SignalStep == ASSUME IInv, SignalArrives PROVE IInv'
<1>1. /\ ~tip /\ signal' = TRUE /\ source' \in BOOLEAN
      /\ UNCHANGED <<option, control, timers, power, fd, lights, sleep, ended, late>>
  BY DEF SignalArrives
<1>2. TypeOK /\ Journal /\ stage \notin Ending /\ log = "open"
  BY <1>1 DEF IInv, Journal
<1>3. Recorded
  BY <1>1, <1>2 DEF Recorded, control, TypeOK, Loops
<1>4. Bystanders' /\ signal' \in BOOLEAN
  BY <1>1, <1>2 DEF option, timers, lights, TypeOK, Bystanders
<1>5. stage' \in Stages \ Ending /\ stage' = stage /\ Current' = Current
  BY <1>1, <1>2 DEF control, TypeOK, lights, Current
<1>6. /\ profile' \in {"original", "target"} /\ owed' \in BOOLEAN /\ retained' \in BOOLEAN
      /\ fd' \in {"none", "held"} /\ dark' \subseteq Devices /\ changed' \subseteq Devices
      /\ asked' \in BOOLEAN /\ accepted' \in BOOLEAN /\ flushed' \in BOOLEAN /\ late' \in Nat
      /\ (retained => retained') /\ (accepted => accepted')
  BY <1>1, <1>2 DEF IInv, TypeOK, power, sleep, lights, Recovered, Ending
<1>7. Announced' /\ Marked'
  BY <1>1, <1>5 DEF IInv, Announced, Marked, control, power, sleep, lights
<1>8. Late1'
  BY <1>1, <1>5 DEF IInv, Late1, OneLateMutation
<1>9. Intents' /\ EveryChangeIsOwed'
  BY <1>1 DEF IInv, Intents, IntentBeforeMutation, FlushedBeforeSleep, EveryChangeIsOwed, control,
     power, sleep, lights
<1>10. QED
  BY <1>1, <1>2, <1>3, <1>4, <1>5, <1>6, <1>7, <1>8, <1>9, EarlyStep

-----------------------------------------------------------------------------
(* The finally clause.                                                     *)
LEMMA RecordSignalStep == ASSUME IInv, RecordSignal PROVE IInv'
<1>1. /\ stage = "record" /\ stage' = "teardown"
      /\ UNCHANGED <<option, noted, timers, power, fd, lights, sleep, ended, late>>
  BY DEF RecordSignal, At
<1>2. stage \notin Ending /\ TypeOK /\ Journal /\ log # "closed"
  BY <1>1 DEF Ending, IInv, Journal
<1>3. Bystanders' /\ signal' \in BOOLEAN /\ (signal => signal')
  BY <1>1, StandsBy DEF noted, timers, lights, IInv, TypeOK
<1> DEFINE noticed == IF signal /\ (out.reason = "unknown" \/ out.exit = 0)
                        THEN [out EXCEPT !.reason = "signal", !.goal = out.exit = 0] ELSE out
<1>4. /\ noticed \in Outcomes /\ noticed.exit = out.exit /\ noticed.stop = out.stop
      /\ noticed.goal => out.goal \/ signal
  BY <1>2 DEF TypeOK, Outcomes
<1>5. \/ out' = noticed /\ UNCHANGED <<log, intents, tip, loop>>
      \/ signal /\ LogFails(LogFailing(noticed))
  BY DEF RecordSignal
<1> HIDE DEF noticed
<1>6. Recorded
  <2>1. CASE out' = noticed /\ UNCHANGED <<log, intents, tip, loop>>
    BY <1>1, <1>2, <1>4, <2>1 DEF Recorded, TypeOK, Loops, Journal, Passive, Reason, noted
  <2>2. CASE LogFails(LogFailing(noticed))
    <3>1. /\ LogFailing(noticed) \in Outcomes /\ LogFailing(noticed).exit = 1
          /\ LogFailing(noticed).goal = FALSE /\ LogFailing(noticed).stop = out.stop
      BY <1>4, OutcomeFields
    <3>2. QED  BY <1>1, <1>2, <2>2, <3>1, LogFailsIsRecorded DEF Passive
  <2>3. QED  BY <1>5, <2>1, <2>2
<1>7. stage' \in Stages \ (Ending \cup Calls \cup {"slept"}) /\ stage' \notin Checks
  BY <1>1 DEF Stages, Ending, Calls, Checks
<1>8. QED  BY <1>1, <1>2, <1>3, <1>6, <1>7, QuietStep DEF lights

(* A step of the recovery writes no intent and changes nothing for good.   *)
LEMMA LateStep ==
  ASSUME IInv, stage' \in Ending, tip' = TRUE, UNCHANGED <<option, signal, lid, intents, sleep, late, retained>>,
         out' \in Outcomes, loop' \in Loops, log' \in {"open", "failed", "closed"},
         log' = "closed" => stage' = "done",
         source' \in BOOLEAN, lightTimer' \in BOOLEAN, sleepTimer' \in BOOLEAN,
         profile' \in {profile, "original"}, owed' \in BOOLEAN,
         fd' \in {"none", "held", "closed", "doubtful"}, fd = "none" => fd' = "none",
         dark' \subseteq dark, changed' \subseteq Devices, todo' \subseteq Devices,
         ended' \subseteq [exit : {0, 1}, goal : BOOLEAN],
         Recovered', Honest', EveryChangeIsOwed'
  PROVE  IInv'
<1>1. TypeOK'
  BY DEF IInv, TypeOK, option, sleep, Loops, Ending, Stages
<1>2. Journal'
  BY DEF Journal, Passive
<1>3. Announced' /\ Marked'
  BY DEF Announced, Marked, Ending
<1>4. Late1'
  BY DEF IInv, Late1, OneLateMutation, Calls, Ending
<1>5. Intents'
  BY DEF IInv, Intents, IntentBeforeMutation, FlushedBeforeSleep, sleep
<1>6. QED  BY <1>1, <1>2, <1>3, <1>4, <1>5 DEF IInv

LEMMA TeardownStep == ASSUME IInv, Teardown PROVE IInv'
<1>1. /\ stage = "teardown" /\ stage' = "restore" /\ tip' = TRUE /\ todo' = changed
      /\ source' = FALSE /\ lightTimer' = FALSE /\ sleepTimer' = FALSE
      /\ UNCHANGED <<log, intents, out, loop, option, signal, lid, power, fd, dark, changed, sleep,
                     ended, late>>
  BY DEF Teardown, At
<1>2. TypeOK /\ log # "closed" /\ stage \notin Ending
  BY <1>1 DEF IInv, Journal, Ending
<1>3. Recovered'
  BY <1>1, <1>2 DEF IInv, Recovered, EveryChangeIsOwed, Ending
<1>4. Honest'
  BY <1>1 DEF IInv, Honest, HonestOutcome, Reason, power, sleep
<1>5. EveryChangeIsOwed'
  BY <1>1 DEF IInv, EveryChangeIsOwed, power
<1>6. stage' \in Ending /\ loop' \in Loops
  BY <1>1, <1>2 DEF Ending, Loops, TypeOK
<1>7. QED  BY <1>1, <1>2, <1>3, <1>4, <1>5, <1>6, LateStep DEF TypeOK, power

LEMMA RecoveryReportStep == ASSUME IInv, RecoveryReportFails PROVE IInv'
<1>1. /\ tip /\ stage \in {"restore", "release", "restoreProfile", "report"}
      /\ UNCHANGED <<stage, option, noted, timers, power, fd, lights, sleep, ended, late>>
  BY DEF RecoveryReportFails, Recovering
<1>2. TypeOK
  BY DEF IInv
<1>3. /\ LogFailing(out) \in Outcomes /\ LogFailing(out).exit = 1 /\ LogFailing(out).goal = FALSE
      /\ Failing(out) \in Outcomes /\ Failing(out).exit = 1 /\ Failing(out).goal = FALSE
  BY <1>2, OutcomeFields DEF TypeOK
<1>4. /\ out' \in Outcomes /\ out'.exit = 1 /\ out'.goal = FALSE /\ loop' \in Loops
      /\ log' \in {log, "failed"} /\ intents' = intents /\ tip' = TRUE
  BY <1>1, <1>2, <1>3, Quits DEF RecoveryReportFails, LogFails, TypeOK, Loops
<1>5. Recovered'
  BY <1>1, <1>4 DEF IInv, Recovered, power, lights, Ending
<1>6. Honest'
  BY <1>1, <1>4 DEF Honest, HonestOutcome
<1>7. EveryChangeIsOwed'
  BY <1>1 DEF IInv, EveryChangeIsOwed, power, lights
<1>8. stage' \in Ending /\ (log' = "closed" => stage' = "done")
  BY <1>1, <1>4 DEF Ending, IInv, Journal
<1>9. QED
  BY <1>1, <1>2, <1>4, <1>5, <1>6, <1>7, <1>8, LateStep
     DEF TypeOK, noted, timers, power, lights

LEMMA TeardownDeviceStep == ASSUME IInv, TeardownDevice PROVE IInv'
<1>1. TypeOK /\ RestoreDevice("restore")
  BY DEF IInv, TeardownDevice
<1>2. tip /\ stage = "restore"
  BY <1>1 DEF IInv, Journal, Ending, RestoreDevice, At
<1>3. /\ stage' = "restore" /\ todo' \subseteq todo
      /\ UNCHANGED <<option, noted, timers, power, fd, sleep, ended, late, intents, log, tip, loop>>
      /\ dark' \subseteq dark /\ changed' \subseteq changed /\ out' \in Outcomes
      /\ dark \subseteq changed => dark' \subseteq changed'
      /\ out'.exit \in {out.exit, 1} /\ (out'.goal => out.goal)
      /\ out'.exit = 1 \/ (dark' = dark \ {Current} /\ todo' = todo \ {Current})
  BY <1>1, <1>2, RestoreDeviceFields
<1>4. Recovered'
  BY <1>2, <1>3 DEF IInv, Recovered, Ending
<1>5. Honest'
  BY <1>2, <1>3 DEF IInv, Honest, HonestOutcome, Reason, noted, power, sleep
<1>6. EveryChangeIsOwed'
  BY <1>3 DEF IInv, EveryChangeIsOwed, power
<1>7. stage' \in Ending /\ (log' = "closed" => stage' = "done")
  BY <1>2, <1>3 DEF Ending, IInv, Journal
<1>8. loop' \in Loops
  BY <1>1, <1>3 DEF TypeOK, Loops
<1>9. QED
  BY <1>1, <1>2, <1>3, <1>4, <1>5, <1>6, <1>7, <1>8, LateStep DEF TypeOK, noted, timers, power

LEMMA HostReleased ==
  ASSUME IInv, BacklightsDone \/ ReleaseInhibitor \/ RestoreProfile
  PROVE  IInv'
<1>1. TypeOK /\ tip /\ stage \in {"restore", "release", "restoreProfile"}
  BY DEF IInv, Journal, Ending, BacklightsDone, ReleaseInhibitor, RestoreProfile, At
<1>2. /\ UNCHANGED <<log, intents, tip, loop, option, noted, timers, lights, sleep, ended, late,
                     retained>>
      /\ stage' \in {"release", "restoreProfile", "report"}
  BY DEF BacklightsDone, ReleaseInhibitor, RestoreProfile, power
<1>3. /\ out' \in Outcomes /\ out'.exit \in {out.exit, 1} /\ (out'.goal => out.goal)
      /\ out' = out \/ out'.exit = 1
  BY <1>1 DEF BacklightsDone, ReleaseInhibitor, RestoreProfile, TypeOK, Outcomes
<1>4. /\ profile' \in {profile, "original"} /\ owed' \in BOOLEAN
      /\ fd' \in {"none", "held", "closed", "doubtful"} /\ (fd = "none" => fd' = "none")
  BY <1>1 DEF BacklightsDone, ReleaseInhibitor, RestoreProfile, TypeOK, power
<1>5. EveryChangeIsOwed'
  <2>1. CASE BacklightsDone \/ ReleaseInhibitor
    BY <2>1 DEF BacklightsDone, ReleaseInhibitor, IInv, EveryChangeIsOwed, power, lights
  <2>2. CASE RestoreProfile
    BY <2>2 DEF RestoreProfile, IInv, EveryChangeIsOwed, lights
  <2>3. QED  BY <2>1, <2>2
<1>6. Recovered'
  <2>1. CASE BacklightsDone
    BY <2>1 DEF BacklightsDone, At, IInv, Recovered, Ending, power, lights
  <2>2. CASE ReleaseInhibitor
    <3>1. /\ stage = "release" /\ stage' = "restoreProfile" /\ dark' = dark
          /\ out'.exit = 1 \/ fd' \in {"none", "closed"}
      <4>1. fd \in {"none", "held"}
        BY <2>2 DEF ReleaseInhibitor, At, IInv, Recovered, Ending
      <4>2. QED  BY <1>1, <2>2, <4>1 DEF ReleaseInhibitor, At, TypeOK, Outcomes, lights
    <3>2. out'.exit = 1 \/ dark' = {}
      BY <1>3, <3>1 DEF IInv, Recovered, Ending
    <3>3. QED  BY <3>1, <3>2 DEF Recovered, Ending
  <2>3. CASE RestoreProfile
    <3>1. /\ stage = "restoreProfile" /\ stage' = "report" /\ dark' = dark /\ fd' = fd
          /\ out'.exit = 1 \/ profile' = "original" \/ retained'
      BY <1>1, <2>3 DEF RestoreProfile, At, TypeOK, Outcomes, lights, IInv, EveryChangeIsOwed
    <3>2. (out'.exit = 1 \/ dark' = {}) /\ (out'.exit = 1 \/ fd' \in {"none", "closed"})
      BY <1>3, <3>1 DEF IInv, Recovered, Ending
    <3>3. QED  BY <3>1, <3>2 DEF Recovered, Ending
  <2>4. QED  BY <2>1, <2>2, <2>3
<1>7. Honest'
  BY <1>1, <1>2, <1>3 DEF IInv, Honest, HonestOutcome, Reason, noted, sleep
<1>8. stage' \in Ending /\ log # "closed"
  BY <1>1, <1>2 DEF Ending, IInv, Journal
<1>9. loop' \in Loops
  BY <1>1, <1>2 DEF TypeOK, Loops
<1>10. QED
  BY <1>1, <1>2, <1>3, <1>4, <1>5, <1>6, <1>7, <1>8, <1>9, LateStep DEF TypeOK, noted, timers, lights

(* The outcome is fixed, recorded and returned.                            *)
LEMMA SessionEnds ==
  ASSUME IInv, Report \/ EndSession \/ CloseLog
  PROVE  IInv'
<1>1. TypeOK /\ tip /\ stage \in {"report", "end", "close"} /\ log # "closed"
  BY DEF IInv, Journal, Ending, Report, EndSession, CloseLog, At
<1>2. LogFailing(out) \in Outcomes /\ LogFailing(out).exit = 1 /\ LogFailing(out).goal = FALSE
  BY <1>1, OutcomeFields DEF TypeOK
<1>3. UNCHANGED <<intents, option, noted, timers, power, fd, lights, sleep, late>>
  BY <1>1 DEF Report, EndSession, CloseLog, Skipped, LogFails
<1>4. /\ out' \in Outcomes /\ out'.exit \in {out.exit, 1} /\ (out'.goal => out.goal)
      /\ tip' = TRUE /\ loop' \in Loops /\ log' \in {"open", "failed", "closed"}
      /\ log' = "closed" => stage' = "done"
      /\ stage' \in {"end", "close", "done"} /\ (stage' = "done" => stage = "close")
      /\ log' = "open" => log = "open"
  <2>1. CASE Report
    <3>1. /\ out' = [out EXCEPT !.goal = out.goal /\ out.exit = 0] /\ stage' = "end"
          /\ UNCHANGED <<log, tip, loop>>
      BY <2>1 DEF Report
    <3>2. out' \in Outcomes /\ out'.exit = out.exit /\ (out'.goal => out.goal)
      BY <1>1, <3>1 DEF TypeOK, Outcomes
    <3>3. QED  BY <1>1, <3>1, <3>2 DEF TypeOK, Loops
  <2>2. CASE EndSession
    BY <1>1, <1>2, <2>2, Quits DEF EndSession, Skipped, LogFails, TypeOK, Loops
  <2>3. CASE CloseLog
    BY <1>1, <1>2, <2>3, Quits DEF CloseLog, At, TypeOK, Loops
  <2>4. QED  BY <2>1, <2>2, <2>3
<1>5. ended' \subseteq [exit : {0, 1}, goal : BOOLEAN]
  <2>1. out.exit \in {0, 1} /\ out.goal \in BOOLEAN
    BY <1>1, OutcomeFields DEF TypeOK
  <2>2. ended' = ended \/ ended' = {[exit |-> out.exit, goal |-> out.goal]}
    BY DEF Report, EndSession, CloseLog
  <2>3. QED  BY <1>1, <2>1, <2>2 DEF TypeOK
<1>6. Recovered'
  BY <1>1, <1>3, <1>4 DEF IInv, Recovered, Ending, power, lights
<1>7. EveryChangeIsOwed'
  BY <1>3 DEF IInv, EveryChangeIsOwed, power, lights
<1>8. Reason' = Reason
  BY <1>3 DEF Reason, noted, power, sleep
<1>9. Honest'
  <2>1. log' = "open" /\ out'.goal => Reason'
    BY <1>4, <1>8 DEF IInv, Honest
  <2>2. CASE Report
    <3>1. out'.goal => out'.exit = 0
      BY <1>1, <2>2 DEF Report, TypeOK, Outcomes
    <3>2. stage' = "end"
      BY <2>2 DEF Report
    <3>3. QED  BY <2>1, <3>1, <3>2 DEF Honest, HonestOutcome
  <2>3. CASE EndSession
    <3>1. stage = "end" /\ stage' = "close"
      BY <2>3 DEF EndSession, At
    <3>2. out.goal => out.exit = 0
      BY <3>1 DEF IInv, Honest
    <3>3. out' = out \/ out'.goal = FALSE
      BY <1>2, <2>3 DEF EndSession, Skipped, LogFails
    <3>4. log' = "open" => ended' = {[exit |-> out'.exit, goal |-> out'.goal]}
      BY <2>3 DEF EndSession, Skipped, LogFails
    <3>5. QED  BY <2>1, <3>1, <3>2, <3>3, <3>4 DEF Honest, HonestOutcome
  <2>4. CASE CloseLog
    <3>1. stage = "close" /\ stage' = "done" /\ ended' = ended
      BY <2>4 DEF CloseLog, At
    <3>2. log' = "closed" => log = "open" /\ out' = out
      BY <1>1, <2>4 DEF CloseLog
    <3>3. log = "open" => /\ ended = {[exit |-> out.exit, goal |-> out.goal]}
                          /\ out.goal => out.exit = 0 /\ Reason
      BY <3>1 DEF IInv, Honest
    <3>4. HonestOutcome'
      <4> SUFFICES ASSUME log' = "closed"
                   PROVE  \E e \in ended' : /\ ended' = {e} /\ e.exit = out'.exit
                                            /\ e.goal => e.exit = 0 /\ Reason'
        BY DEF HonestOutcome, Reason
      <4> DEFINE e == [exit |-> out.exit, goal |-> out.goal]
      <4>1. ended' = {e} /\ out' = out /\ (out.goal => out.exit = 0 /\ Reason')
        BY <1>8, <3>1, <3>2, <3>3
      <4>2. e.exit = out.exit /\ e.goal = out.goal
        OBVIOUS
      <4>3. QED  BY <4>1, <4>2
    <3>5. QED  BY <2>1, <3>1, <3>4 DEF Honest
  <2>5. QED  BY <2>2, <2>3, <2>4
<1>10. stage' \in Ending /\ dark' \subseteq dark /\ changed' \subseteq Devices /\ todo' \subseteq Devices
  BY <1>1, <1>3, <1>4 DEF Ending, TypeOK, lights
<1>11. QED
  BY <1>1, <1>3, <1>4, <1>5, <1>6, <1>7, <1>9, <1>10, LateStep DEF TypeOK, noted, timers, power

-----------------------------------------------------------------------------
(* Every state a run of the program reaches satisfies IInv.                *)
LEMMA InitIInv == Init => IInv
<1> SUFFICES ASSUME Init PROVE IInv
  OBVIOUS
<1>1. TypeOK
  BY DEF Init, TypeOK, Stages, Outcomes
<1>2. Journal /\ Announced /\ Marked /\ Recovered
  BY DEF Init, Journal, Announced, Marked, Recovered, Ending
<1>3. Late1 /\ Honest /\ Intents /\ EveryChangeIsOwed
  BY DEF Init, Late1, OneLateMutation, Calls, Honest, HonestOutcome, Intents,
     IntentBeforeMutation, FlushedBeforeSleep, EveryChangeIsOwed
<1>4. QED  BY <1>1, <1>2, <1>3 DEF IInv

LEMMA StutterIInv == ASSUME IInv, UNCHANGED vars PROVE IInv'
<1>1. /\ UNCHANGED <<mode, timed, ignoreLid, stage, log, intents, tip, out, loop, signal, source>>
      /\ UNCHANGED <<lightTimer, sleepTimer, lid, profile, owed, retained, fd, dark, changed>>
      /\ UNCHANGED <<todo, asked, accepted, flushed, ended, late>>
  BY DEF vars, option, control, noted, timers, power, lights, sleep
<1>2. TypeOK'
  BY <1>1 DEF IInv, TypeOK
<1>3. Current' = Current
  BY <1>1 DEF Current
<1>4. Journal' /\ Announced' /\ Marked' /\ Recovered'
  BY <1>1, <1>3 DEF IInv, Journal, Announced, Marked, Recovered
<1>5. Late1' /\ Honest' /\ Intents' /\ EveryChangeIsOwed'
  BY <1>1 DEF IInv, Late1, OneLateMutation, Honest, HonestOutcome, Reason, Intents,
     IntentBeforeMutation, FlushedBeforeSleep, EveryChangeIsOwed
<1>6. QED  BY <1>2, <1>4, <1>5 DEF IInv

LEMMA NextKeepsIInv == IInv /\ [Next]_vars => IInv'
<1> SUFFICES ASSUME IInv, [Next]_vars PROVE IInv'
  OBVIOUS
<1>1. CASE Setup
  BY <1>1, RecordingSetup, BatteryStep, IntentStep, CheckStep, HostCall, RetainStep, LoopSetup
     DEF Setup
<1>2. CASE Callback
  BY <1>2, RecordingCallback, GoalStep, DarkRecord, CheckStep, DarkSetStep, UndoDeviceStep,
     SleepIntentStep, SleepCallStep DEF Callback
<1>3. CASE Finally
  BY <1>3, RecordSignalStep, TeardownStep, TeardownDeviceStep, HostReleased, SessionEnds
     DEF Finally
<1>4. CASE Dispatch \/ QuitForSignal
  BY <1>4, DispatchStep
<1>5. CASE SignalArrives
  BY <1>5, SignalStep
<1>6. CASE RecoveryReportFails
  BY <1>6, RecoveryReportStep
<1>7. CASE UNCHANGED vars
  BY <1>7, StutterIInv
<1>8. QED  BY <1>1, <1>2, <1>3, <1>4, <1>5, <1>6, <1>7 DEF Next, MainThread

THEOREM Invariance == Spec => []IInv
BY InitIInv, NextKeepsIInv, PTL DEF Spec

(* Every variable has a value of its kind in every state.                  *)
THEOREM TypeCorrect == Spec => []TypeOK
<1>1. IInv => TypeOK
  BY DEF IInv
<1>2. QED  BY <1>1, Invariance, PTL

(* Where the log fails only when its failure is heard, the synchronized    *)
(* log announces every change the host may show, whatever interrupts the   *)
(* program (_append_running_log before each request).                      *)
THEOREM ChangesAreAnnounced ==
  ASSUME BatteryLogFaults = FALSE
  PROVE  Spec => []IntentBeforeMutation
<1>1. IInv => IntentBeforeMutation
  BY DEF IInv, Intents, Heard
<1>2. QED  BY <1>1, Invariance, PTL

(* With the same proviso no sleep is requested before the history of the   *)
(* session is flushed (prepare_for_system_sleep).                          *)
THEOREM SleepIsFlushed ==
  ASSUME BatteryLogFaults = FALSE
  PROVE  Spec => []FlushedBeforeSleep
<1>1. IInv => FlushedBeforeSleep
  BY DEF IInv, Intents, Heard
<1>2. QED  BY <1>1, Invariance, PTL

(* The obligations cover the host: no failure makes the program forget a   *)
(* profile or a backlight it may have changed.                             *)
THEOREM ChangesAreOwed == Spec => []EveryChangeIsOwed
<1>1. IInv => EveryChangeIsOwed
  BY DEF IInv
<1>2. QED  BY <1>1, Invariance, PTL

(* The program ends with the host restored or with a nonzero status.       *)
THEOREM NothingLeftSilently == Spec => []RestoredOrReported
<1>1. IInv => RestoredOrReported
  BY DEF IInv, Recovered, Ending, RestoredOrReported
<1>2. QED  BY <1>1, Invariance, PTL

(* At most one request starts after the note of a signal: the one already  *)
(* past its check (check_shutdown_requested).                              *)
THEOREM AtMostOneLate == Spec => []OneLateMutation
<1>1. IInv => OneLateMutation
  BY DEF IInv, Late1
<1>2. QED  BY <1>1, Invariance, PTL

(* The session_end record of a log that closed tells the status returned   *)
(* and claims success only for a reason that occurred (finish_running_log).*)
THEOREM OutcomeIsHonest == Spec => []HonestOutcome
<1>1. IInv => HonestOutcome
  BY DEF IInv, Honest
<1>2. QED  BY <1>1, Invariance, PTL

-----------------------------------------------------------------------------
(* The refinement of HostObligations.                                      *)

(* Where the program is before it sets the profile.                        *)
BeforeProfile ==
    {"plan", "battery", "connect", "validate", "backlight", "profileRead", "profileIntent",
     "profileCheck", "profileSet"}

(* And before it has the inhibitor.                                        *)
BeforeInhibitor ==
    BeforeProfile \cup {"profileInfo", "retain", "inhibit", "inhibitCheck", "inhibitCall"}

(* Nothing is changed before its turn, and only what may have been         *)
(* switched off is left to restore.                                        *)
Ordered ==
    /\ stage \in BeforeProfile => profile = "original"
    /\ stage \in BeforeInhibitor => fd = "none"
    /\ stage \in {"undo", "restore"} => todo \subseteq changed

(* What every step does to the records and the exit status.                *)
Forward ==
    /\ out.exit = 1 => out'.exit = 1
    /\ \E e : intents \subseteq intents' /\ intents' \subseteq intents \cup {e}

(* A step that records at most one event on its way to the next stage.     *)
Moves(next) == Forward /\ stage' \in {next, "loop", "record", "teardown"}

(* An intent more and no less blame is a step forward.                     *)
LEMMA ForwardByRecord ==
    ASSUME NEW event, intents' = With(event) \/ UNCHANGED intents, out.exit = 1 => out'.exit = 1
    PROVE  Forward
BY DEF Forward, With

(* So is a log that fails.                                                 *)
LEMMA LogFailsForward ==
    ASSUME TypeOK, NEW o, LogFails(o), o.exit = 1
    PROVE  Forward
<1>1. UNCHANGED intents /\ out'.exit = 1
  BY DEF LogFails
<1>2. QED  BY <1>1, ForwardByRecord

(* What each way of writing a record does to the announcements (the lemmas *)
(* up to SleepRefusedMoves): it goes where it should or to the recovery.   *)
LEMMA AppendMoves ==
    ASSUME TypeOK, NEW event, NEW next, Append(event, next)
    PROVE  Moves(next)
<1>1. CASE (Written(event) \/ Skipped) /\ stage' = next
  <2>1. (intents' = With(event) \/ UNCHANGED intents) /\ out' = out
    BY <1>1 DEF Written, Skipped
  <2>2. QED  BY <1>1, <2>1, ForwardByRecord DEF Moves
<1>2. CASE LogFails(Raised(LogFailing(out))) /\ stage' = AfterLogFailure(next)
  <2>1. Raised(LogFailing(out)).exit = 1
    BY RaisedFields DEF TypeOK
  <2>2. stage' \in {next, "loop", "record"}
    BY <1>2 DEF AfterLogFailure, Unwound
  <2>3. QED  BY <1>2, <2>1, <2>2, LogFailsForward DEF Moves
<1>3. QED  BY <1>1, <1>2 DEF Append

LEMMA ReportFailsForward ==
    ASSUME TypeOK, NEW event, ReportFails(event)
    PROVE  Forward
<1>1. Failing(out).exit = 1 /\ LogFailing(Failing(out)).exit = 1
  BY OutcomeFields DEF TypeOK
<1>2. intents' = With(event) /\ out'.exit = 1
  BY <1>1 DEF ReportFails
<1>3. QED  BY <1>2, ForwardByRecord

LEMMA SayMoves ==
    ASSUME TypeOK, NEW event, NEW next, Say(event, next)
    PROVE  Moves(next)
BY AppendMoves, ReportFailsForward DEF Say, Moves

LEMMA FatalMoves ==
    ASSUME TypeOK, Fatal
    PROVE  \A next : Moves(next)
<1>1. UNCHANGED intents /\ out'.exit = 1 /\ stage' = "teardown"
  BY DEF Fatal, TypeOK, Outcomes
<1>2. Forward
  BY <1>1, ForwardByRecord
<1>3. QED  BY <1>1, <1>2 DEF Moves

LEMMA CancelledMoves ==
    ASSUME Cancelled
    PROVE  \A next : Moves(next)
<1>1. UNCHANGED <<intents, out>> /\ stage' \in {"loop", "record"}
  BY DEF Cancelled, Unwound
<1>2. Forward
  BY <1>1, ForwardByRecord
<1>3. QED  BY <1>1, <1>2 DEF Moves

LEMMA GoToMoves ==
    ASSUME NEW next, GoTo(next)
    PROVE  Moves(next)
<1>1. UNCHANGED <<intents, out>> /\ stage' = next
  BY DEF GoTo
<1>2. Forward
  BY <1>1, ForwardByRecord
<1>3. QED  BY <1>1, <1>2 DEF Moves

LEMMA SleepRefusedMoves ==
    ASSUME TypeOK, SleepRefused
    PROVE  \A next : Moves(next)
<1>1. CASE ~InLoop
  BY <1>1, FatalMoves DEF SleepRefused
<1>2. CASE InLoop
  <2>1. Raised(LogFailing(out)).exit = 1
    BY RaisedFields, OutcomeFields DEF TypeOK
  <2>2. UNCHANGED intents /\ stage' = "loop" /\ out'.exit = 1
    BY <1>2, <2>1 DEF SleepRefused, LogFails, TypeOK, Outcomes
  <2>3. Forward
    BY <2>2, ForwardByRecord
  <2>4. QED  BY <2>2, <2>3 DEF Moves
<1>3. QED  BY <1>1, <1>2

-----------------------------------------------------------------------------
(* A step that leaves the host and the obligations alone.                  *)
Untouched ==
    /\ Forward
    /\ UNCHANGED <<power, fd, dark, changed>>
    /\ stage \notin Ending /\ stage' \notin Ending
    /\ stage' \in BeforeProfile => stage \in BeforeProfile
    /\ stage' \in BeforeInhibitor => stage \in BeforeInhibitor
    /\ stage' = "undo" => todo' = changed

(* A status that stays nonzero is a blame that stays.                      *)
LEMMA BlameStays ==
    ASSUME out.exit = 1 => out'.exit = 1
    PROVE  Obligations!MayBlame
BY Zenon DEF Obligations!MayBlame

(* It announces a change, or is to be blamed, or does nothing.             *)
LEMMA UntouchedRefines ==
    ASSUME Ordered, Untouched
    PROVE  Ordered' /\ [Obligations!Next]_(Obligations!obligations)
<1>1. Ordered'
  BY DEF Untouched, Ordered, Ending, power
<1>2. Phase = "working" /\ Phase' = "working"
  BY DEF Untouched, Phase, Ending
<1>3. Owed' = Owed /\ Shown' = Shown /\ Kept' = Kept
  BY DEF Untouched, Owed, Shown, Kept, Taken, power
<1>4. PICK e : intents \subseteq intents' /\ intents' \subseteq intents \cup {e}
  BY DEF Untouched, Forward
<1>5. Obligations!MayBlame
  BY BlameStays DEF Untouched, Forward
<1>6. CASE e \in Changes /\ e \in intents'
  <2>1. intents' \cap Changes = (intents \cap Changes) \cup {e}
    BY <1>4, <1>6
  <2>2. Obligations!Announce(e)
    BY <1>2, <1>3, <1>5, <2>1 DEF Obligations!Announce
  <2>3. QED  BY <1>1, <1>6, <2>2 DEF Obligations!Next
<1>7. CASE ~(e \in Changes /\ e \in intents')
  <2>1. intents' \cap Changes = intents \cap Changes
    BY <1>4, <1>7
  <2>2. CASE out'.exit = 1 /\ out.exit # 1
    <3>1. Obligations!Blame
      BY <1>2, <1>3, <2>1, <2>2 DEF Obligations!Blame
    <3>2. QED  BY <1>1, <3>1 DEF Obligations!Next
  <2>3. CASE (out'.exit = 1) <=> (out.exit = 1)
    <3>1. (out'.exit = 1) = (out.exit = 1)
      BY <2>3, Zenon
    <3>2. QED  BY <1>1, <1>2, <1>3, <2>1, <3>1 DEF Obligations!obligations
  <2>4. QED  BY <2>2, <2>3 DEF Untouched, Forward
<1>8. QED  BY <1>6, <1>7

-----------------------------------------------------------------------------
(* The steps of the setup that leave the host alone.                       *)
LEMMA SetupUntouched ==
    ASSUME TypeOK,
           \/ Plan \/ Battery \/ Connect \/ ValidateLid \/ PrepareBacklight \/ ProfileRead
           \/ ProfileIntent \/ ProfileInfo \/ InhibitIntent \/ InhibitCheck \/ InhibitInfo
           \/ Listen \/ AnnounceLoop \/ LastCheck \/ LoopExited
    PROVE  Untouched
<1>1. UNCHANGED <<power, fd, dark, changed>>
  BY DEF Plan, Battery, Connect, ValidateLid, PrepareBacklight, ProfileRead, ProfileIntent,
         ProfileInfo, InhibitIntent, InhibitCheck, InhibitInfo, Listen, AnnounceLoop, LastCheck,
         LoopExited, lights
<1>2. ASSUME NEW next, Moves(next), stage \notin Ending, next \notin Ending, next # "undo",
             next \in BeforeProfile => stage \in BeforeProfile, next \in BeforeInhibitor => stage \in BeforeInhibitor
      PROVE  Untouched
  BY <1>1, <1>2 DEF Moves, Untouched, BeforeProfile, BeforeInhibitor, Ending
<1> USE DEF At, Ending, BeforeProfile, BeforeInhibitor
<1>3. CASE Plan
  BY <1>2, <1>3, AppendMoves DEF Plan
<1>4. CASE Battery
  <2>1. CASE Append("battery", "connect")
    BY <1>2, <1>4, <2>1, AppendMoves DEF Battery
  <2>2. CASE log = "open" /\ out' = [out EXCEPT !.exit = 1] /\ stage' = "connect"
             /\ UNCHANGED <<log, intents, tip, loop>>
    <3>1. out'.exit = 1
      BY <2>2 DEF TypeOK, Outcomes
    <3>2. Forward
      BY <2>2, <3>1, ForwardByRecord
    <3>3. QED  BY <1>1, <1>4, <2>2, <3>2 DEF Battery, Untouched
  <2>3. CASE LogFails(LogFailing(out)) /\ stage' = "connect"
    <3>1. Forward
      BY <2>3, LogFailsForward, OutcomeFields DEF TypeOK
    <3>2. QED  BY <1>1, <1>4, <2>3, <3>1 DEF Battery, Untouched
  <2>4. QED  BY <1>4, <2>1, <2>2, <2>3 DEF Battery
<1>5. CASE Connect
  <2>1. AfterConnect \in {"validate", "profileRead", "capability"}
    BY RunLifecycleAssumption DEF AfterConnect, TypeOK
  <2>2. Moves(AfterConnect)
    BY <1>5, AppendMoves, FatalMoves, CancelledMoves DEF Connect, Checked
  <2>3. QED  BY <1>2, <1>5, <2>1, <2>2 DEF Connect
<1>6. CASE ValidateLid
  <2>1. Moves("backlight")
    BY <1>6, AppendMoves, FatalMoves, CancelledMoves DEF ValidateLid, Checked
  <2>2. QED  BY <1>2, <1>6, <2>1 DEF ValidateLid
<1>7. CASE PrepareBacklight
  <2>1. Moves("profileRead")
    BY <1>7, SayMoves, FatalMoves, CancelledMoves DEF PrepareBacklight, Checked
  <2>2. QED  BY <1>2, <1>7, <2>1 DEF PrepareBacklight
<1>8. CASE ProfileRead
  <2>1. Moves("profileIntent") \/ Moves(AfterProfile)
    BY <1>8, AppendMoves, FatalMoves, CancelledMoves DEF ProfileRead, Checked
  <2>2. QED  BY <1>2, <1>8, <2>1 DEF ProfileRead, AfterProfile
<1>9. CASE ProfileIntent
  <2>1. Moves("profileCheck")
    BY <1>9, AppendMoves, FatalMoves, CancelledMoves DEF ProfileIntent, Checked
  <2>2. QED  BY <1>2, <1>9, <2>1 DEF ProfileIntent
<1>10. CASE ProfileInfo
  BY <1>2, <1>10, SayMoves DEF ProfileInfo, AfterProfile
<1>11. CASE InhibitIntent
  <2>1. Moves("inhibitCheck")
    BY <1>11, AppendMoves, CancelledMoves DEF InhibitIntent, Checked
  <2>2. QED  BY <1>2, <1>11, <2>1 DEF InhibitIntent
<1>12. CASE InhibitCheck
  <2>1. Moves("inhibitCall")
    BY <1>12, GoToMoves, CancelledMoves DEF InhibitCheck, Checked
  <2>2. QED  BY <1>2, <1>12, <2>1 DEF InhibitCheck
<1>13. CASE InhibitInfo
  BY <1>2, <1>13, SayMoves DEF InhibitInfo
<1>14. CASE Listen
  <2>1. Moves("lidState")
    BY <1>14, AppendMoves, CancelledMoves DEF Listen, Checked
  <2>2. QED  BY <1>2, <1>14, <2>1 DEF Listen
<1>15. CASE AnnounceLoop
  <2>1. Moves("ready")
    BY <1>15, SayMoves, CancelledMoves DEF AnnounceLoop, Checked
  <2>2. QED  BY <1>2, <1>15, <2>1 DEF AnnounceLoop
<1>16. CASE LastCheck
  <2>1. Moves("run")
    BY <1>16, GoToMoves, CancelledMoves DEF LastCheck, Checked
  <2>2. QED  BY <1>2, <1>16, <2>1 DEF LastCheck
<1>17. CASE LoopExited
  BY <1>2, <1>17, AppendMoves DEF LoopExited
<1>18. QED
  BY <1>3, <1>4, <1>5, <1>6, <1>7, <1>8, <1>9, <1>10, <1>11, <1>12, <1>13, <1>14, <1>15,
     <1>16, <1>17

(* The steps around the main loop that do.                                 *)
LEMMA LoopUntouched ==
    ASSUME TypeOK,
           \/ InitialLid \/ MakeLoop \/ ScheduleBacklight \/ RunLoop \/ LoopReturns
           \/ Observe \/ LidCloses \/ LidOpens \/ SensorLost \/ LightTimerFires
           \/ SleepTimerFires \/ QuitForSignal \/ RecordSignal
    PROVE  Untouched
<1>1. UNCHANGED <<power, fd, dark, changed>>
  BY DEF InitialLid, MakeLoop, ScheduleBacklight, RunLoop, LoopReturns, Observe, LidCloses,
         LidOpens, SensorLost, LightTimerFires, SleepTimerFires, QuitForSignal, RecordSignal,
         lights
<1> USE DEF At, Ending, BeforeProfile, BeforeInhibitor
<1>2. ASSUME NEW next \in {"loop", "makeLoop", "closed", "enter", "opened", "schedule",
                           "exited", "dark", "expired", "teardown"}, Moves(next),
             stage \notin Ending
      PROVE  Untouched
  BY <1>1, <1>2 DEF Moves, Untouched
<1>3. ASSUME NEW next, stage' = next, UNCHANGED intents, out'.exit = out.exit
      PROVE  Moves(next)
  BY <1>3, ForwardByRecord DEF Moves
<1>4. CASE InitialLid
  <2>1. Moves("makeLoop") \/ Moves("closed")
    BY <1>4, SayMoves, FatalMoves, CancelledMoves DEF InitialLid
  <2>2. QED  BY <1>2, <1>4, <2>1 DEF InitialLid
<1>5. CASE MakeLoop
  <2>1. Moves("schedule")
    BY <1>3, <1>5, CancelledMoves DEF MakeLoop
  <2>2. QED  BY <1>2, <1>5, <2>1 DEF MakeLoop
<1>6. CASE ScheduleBacklight
  <2>1. Moves("enter")
    BY <1>6, GoToMoves, FatalMoves, SayMoves DEF ScheduleBacklight
  <2>2. QED  BY <1>2, <1>6, <2>1 DEF ScheduleBacklight
<1>7. CASE RunLoop
  BY <1>2, <1>3, <1>7 DEF RunLoop
<1>8. CASE LoopReturns
  BY <1>2, <1>3, <1>8 DEF LoopReturns
<1>9. CASE Observe
  <2>1. CASE Say("observed", "loop")
    BY <1>2, <1>9, <2>1, SayMoves DEF Observe, Dispatched
  <2>2. CASE log = "open" /\ out' = [out EXCEPT !.exit = 1]
             /\ UNCHANGED <<stage, log, intents, tip, loop>>
    <3>1. out'.exit = 1
      BY <2>2 DEF TypeOK, Outcomes
    <3>2. Forward
      BY <2>2, <3>1, ForwardByRecord
    <3>3. QED  BY <1>1, <1>9, <2>2, <3>2 DEF Observe, Dispatched, Untouched
  <2>3. QED  BY <1>9, <2>1, <2>2 DEF Observe
<1>10. CASE LidCloses
  BY <1>2, <1>10, SayMoves DEF LidCloses, Dispatched
<1>11. CASE LidOpens
  BY <1>2, <1>11, SayMoves DEF LidOpens, Dispatched
<1>12. CASE SensorLost
  BY <1>2, <1>12, SayMoves, FatalMoves DEF SensorLost, Dispatched
<1>13. CASE LightTimerFires
  BY <1>2, <1>3, <1>13 DEF LightTimerFires, Dispatched
<1>14. CASE SleepTimerFires
  <2>1. out'.exit = out.exit /\ UNCHANGED intents /\ stage' = "expired"
    BY <1>14 DEF SleepTimerFires, TypeOK, Outcomes
  <2>2. QED  BY <1>2, <1>3, <1>14, <2>1 DEF SleepTimerFires, Dispatched
<1>15. CASE QuitForSignal
  BY <1>2, <1>3, <1>15 DEF QuitForSignal, Dispatched
<1>16. CASE RecordSignal
  <2> DEFINE noticed ==
               IF signal /\ (out.reason = "unknown" \/ out.exit = 0)
               THEN [out EXCEPT !.reason = "signal", !.goal = out.exit = 0]
               ELSE out
  <2>1. noticed \in Outcomes /\ noticed.exit = out.exit
    BY DEF TypeOK, Outcomes
  <2>2. \/ out' = noticed /\ UNCHANGED intents
        \/ LogFails(LogFailing(noticed))
    BY <1>16 DEF RecordSignal
  <2> HIDE DEF noticed
  <2>3. Forward
    BY <2>1, <2>2, ForwardByRecord, LogFailsForward, OutcomeFields
  <2>4. QED  BY <1>2, <1>16, <2>3 DEF RecordSignal, Moves
<1>17. QED
  BY <1>4, <1>5, <1>6, <1>7, <1>8, <1>9, <1>10, <1>11, <1>12, <1>13, <1>14, <1>15, <1>16

-----------------------------------------------------------------------------
(* The callbacks that do.                                                  *)
LEMMA CallbackUntouched ==
    ASSUME TypeOK,
           \/ AnnounceCountdown \/ StartCountdown \/ CancelCountdown \/ LidCycleEnds
           \/ DarkIntent \/ DarkVerified \/ Undone \/ Expired \/ SleepCapability
           \/ SleepIntent \/ SleepCheck \/ SleepCall \/ SleepAccepted
    PROVE  Untouched
<1>1. UNCHANGED <<power, fd, dark, changed>>
  BY DEF AnnounceCountdown, StartCountdown, CancelCountdown, LidCycleEnds, DarkIntent,
         DarkVerified, Undone, Expired, SleepCapability, SleepIntent, SleepCheck, SleepCall,
         SleepAccepted, lights
<1> USE DEF At, Ending, BeforeProfile, BeforeInhibitor
<1>2. ASSUME NEW next \in {"loop", "makeLoop", "arm", "cycle", "capability", "sleepIntent",
                           "sleepCheck", "sleepCall", "slept"},
             Moves(next), stage \notin Ending
      PROVE  Untouched
  BY <1>1, <1>2 DEF Moves, Untouched
<1>3. CASE AnnounceCountdown
  <2>1. Moves("arm") \/ Moves("loop") \/ Moves("makeLoop")
    BY <1>3, SayMoves, GoToMoves DEF AnnounceCountdown, AfterLid
  <2>2. QED  BY <1>2, <1>3, <2>1 DEF AnnounceCountdown
<1>4. CASE StartCountdown
  <2>1. Moves("loop") \/ Moves("makeLoop")
    BY <1>4, AppendMoves DEF StartCountdown, AfterLid
  <2>2. QED  BY <1>2, <1>4, <2>1 DEF StartCountdown
<1>5. CASE CancelCountdown
  <2>1. Moves("loop") \/ Moves("cycle")
    BY <1>5, SayMoves DEF CancelCountdown
  <2>2. QED  BY <1>2, <1>5, <2>1 DEF CancelCountdown
<1>6. CASE LidCycleEnds
  <2>1. CASE intents' = With("cycle") /\ out' = [out EXCEPT !.goal = TRUE, !.reason = "lid"]
    <3>1. out'.exit = out.exit
      BY <2>1 DEF TypeOK, Outcomes
    <3>2. QED  BY <2>1, <3>1, ForwardByRecord, <1>6, <1>2 DEF LidCycleEnds, Moves
  <2>2. CASE LogFails(Raised(LogFailing(out)))
    <3>1. Raised(LogFailing(out)).exit = 1
      BY RaisedFields DEF TypeOK
    <3>2. QED  BY <1>2, <1>6, <2>2, <3>1, LogFailsForward DEF LidCycleEnds, Moves
  <2>3. QED  BY <1>6, <2>1, <2>2 DEF LidCycleEnds
<1>7. ASSUME NEW event, NEW next \in {"darkCheck", "loop", "dark"}, NEW rest,
             AppendOrUndo(event, next, rest), stage \notin Ending
      PROVE  Untouched
  <2>1. CASE (Written(event) \/ Skipped) /\ stage' = next
    <3>1. (intents' = With(event) \/ UNCHANGED intents) /\ out' = out
      BY <2>1 DEF Written, Skipped
    <3>2. QED  BY <1>1, <1>7, <2>1, <3>1, ForwardByRecord DEF Untouched
  <2>2. CASE LogFails(LogFailing(out)) /\ stage' = "undo" /\ todo' = changed
    <3>1. Forward
      BY <2>2, LogFailsForward, OutcomeFields DEF TypeOK
    <3>2. QED  BY <1>1, <1>7, <2>2, <3>1 DEF Untouched
  <2>3. QED  BY <1>7, <2>1, <2>2 DEF AppendOrUndo
<1>8. CASE DarkIntent
  <2>1. CASE ReportFails("darkened") /\ stage' = "loop"
    BY <1>1, <1>8, <2>1, ReportFailsForward DEF DarkIntent, Untouched
  <2>2. CASE ~(ReportFails("darkened") /\ stage' = "loop")
    BY <1>7, <1>8, <2>2 DEF DarkIntent
  <2>3. QED  BY <2>1, <2>2
<1>9. CASE DarkVerified
  BY <1>7, <1>9 DEF DarkVerified
<1>10. CASE Undone
  <2>1. Forward
    BY <1>10, ForwardByRecord DEF Undone
  <2>2. QED  BY <1>1, <1>10, <2>1 DEF Undone, Untouched
<1>11. CASE Expired
  BY <1>2, <1>11, SayMoves DEF Expired
<1>12. CASE SleepCapability
  <2>1. Moves("sleepIntent")
    BY <1>12, AppendMoves, SleepRefusedMoves DEF SleepCapability
  <2>2. QED  BY <1>2, <1>12, <2>1 DEF SleepCapability
<1>13. CASE SleepIntent
  <2>1. Raised(LogFailing(out)).exit = 1
    BY RaisedFields DEF TypeOK
  <2>2. Forward
    BY <1>13, <2>1, ForwardByRecord, ReportFailsForward, LogFailsForward
       DEF SleepIntent, Written, Skipped
  <2>3. stage' \in {"sleepCheck", "loop", "record"}
    BY <1>13 DEF SleepIntent, AfterLogFailure, Unwound
  <2>4. QED  BY <1>2, <1>13, <2>2, <2>3 DEF SleepIntent, Moves
<1>14. CASE SleepCheck
  <2>1. Moves("sleepCall")
    BY <1>14, GoToMoves, CancelledMoves DEF SleepCheck, Checked
  <2>2. QED  BY <1>2, <1>14, <2>1 DEF SleepCheck
<1>15. CASE SleepCall
  <2>1. Moves("slept")
    BY <1>15, GoToMoves, SleepRefusedMoves DEF SleepCall
  <2>2. QED  BY <1>2, <1>15, <2>1 DEF SleepCall
<1>16. CASE SleepAccepted
  <2>1. Raised(LogFailing(out)).exit = 1
    BY RaisedFields DEF TypeOK
  <2>2. CASE intents' = With("slept")
             /\ out' = [out EXCEPT !.goal = out.exit = 0, !.reason = IF InLoop THEN @ ELSE "done"]
    <3>1. out'.exit = out.exit
      <4> DEFINE goal == out.exit = 0
                 reason == IF InLoop THEN out.reason ELSE "done"
      <4>1. out' = [[out EXCEPT !.goal = goal] EXCEPT !.reason = reason]
        BY <2>2
      <4> HIDE DEF goal, reason
      <4>2. QED  BY <4>1 DEF TypeOK, Outcomes
    <3>2. QED  BY <2>2, <3>1, ForwardByRecord, <1>2, <1>16 DEF SleepAccepted, Moves, Unwound
  <2>3. CASE LogFails(Raised(LogFailing(out)))
    BY <1>2, <1>16, <2>1, <2>3, LogFailsForward DEF SleepAccepted, Moves, Unwound
  <2>4. QED  BY <1>16, <2>2, <2>3 DEF SleepAccepted
<1>17. QED
  BY <1>3, <1>4, <1>5, <1>6, <1>8, <1>9, <1>10, <1>11, <1>12, <1>13, <1>14, <1>15, <1>16

-----------------------------------------------------------------------------
(* The steps that bind the program, change the host, or keep a change.     *)
LEMMA SomeIntents == "setProfile" \in Changes /\ "inhibit" \in Changes /\ Devices \subseteq Changes
BY DEF Changes

(* Bound before the change: the intent is on disk.                         *)
LEMMA CheckBinds ==
    ASSUME Heard, IInv, Ordered, ProfileCheck \/ DarkCheck
    PROVE  Ordered' /\ [Obligations!Next]_(Obligations!obligations)
<1>1. TypeOK /\ stage \in {"profileCheck", "darkCheck"} /\ UNCHANGED <<fd, dark, profile, retained>>
  BY DEF IInv, ProfileCheck, DarkCheck, At, power, lights
<1>2. CASE Cancelled /\ UNCHANGED <<owed, changed>>
  <2>1. Untouched
    BY <1>1, <1>2, CancelledMoves DEF Moves, Untouched, Ending, BeforeProfile, BeforeInhibitor, power, Cancelled, Unwound
  <2>2. QED  BY <2>1, UntouchedRefines
<1>3. CASE ~(Cancelled /\ UNCHANGED <<owed, changed>>)
  <2> DEFINE c == IF stage = "profileCheck" THEN "setProfile" ELSE Current
  <2>1. /\ ~out.stop /\ stage' \in {"profileSet", "darkSet"} /\ UNCHANGED <<intents, out>>
        /\ stage = "profileCheck" => stage' = "profileSet" /\ owed' = TRUE /\ UNCHANGED changed
        /\ stage = "darkCheck" =>
             stage' = "darkSet" /\ changed' = changed \cup {Current} /\ UNCHANGED owed
    BY <1>3 DEF ProfileCheck, DarkCheck, Stopped, GoTo, At, lights, power
  <2>2. Ordered'
    BY <1>1, <2>1 DEF Ordered, BeforeProfile, BeforeInhibitor
  <2>3. stage = "darkCheck" => Current \in Devices
    BY <1>1 DEF IInv, Marked, Current, TypeOK
  <2>4. c \in Changes /\ c # "inhibit" /\ c \in intents
    BY <1>1, <2>1, <2>3, RunLifecycleAssumption DEF IInv, Announced, Changes
  <2>5. Owed' = Owed \cup {c}
    BY <1>1, <2>1 DEF Owed, Taken
  <2>6. /\ Phase = "working" /\ Phase' = "working" /\ Shown' = Shown /\ Kept' = Kept
        /\ (intents \cap Changes)' = intents \cap Changes /\ (out.exit = 1)' = (out.exit = 1)
    BY <1>1, <2>1 DEF Phase, Shown, Kept, Taken
  <2> HIDE DEF c
  <2>7. Obligations!Promise(c)
    BY <2>4, <2>5, <2>6 DEF Obligations!Promise
  <2>8. QED  BY <2>2, <2>4, <2>7 DEF Obligations!Next
<1>4. QED  BY <1>2, <1>3

(* A request to the host was announced and its undoing is owed; it is      *)
(* blamed for whatever went wrong.                                         *)
LEMMA RequestRefines ==
    ASSUME NEW c \in Changes, c \in intents, c \in Owed,
           stage \notin Ending, stage' \notin Ending,
           Shown' \in {Shown, Shown \cup {c}}, UNCHANGED <<Owed, Kept, intents>>,
           out.exit = 1 => out'.exit = 1
    PROVE  [Obligations!Next]_(Obligations!obligations)
<1>1. Phase = "working" /\ Phase' = "working"
  BY DEF Phase, Ending
<1>2. Obligations!MayBlame
  BY BlameStays
<1>3. CASE Shown' = Shown \cup {c}
  <2>1. Obligations!Change(c)
    BY <1>1, <1>2, <1>3 DEF Obligations!Change
  <2>2. QED  BY <2>1 DEF Obligations!Next
<1>4. CASE Shown' = Shown
  <2>1. CASE out'.exit = 1 /\ out.exit # 1
    <3>1. Obligations!Blame
      BY <1>1, <1>4, <2>1 DEF Obligations!Blame
    <3>2. QED  BY <3>1 DEF Obligations!Next
  <2>2. CASE (out'.exit = 1) <=> (out.exit = 1)
    <3>1. (out'.exit = 1) = (out.exit = 1)
      BY <2>2, Zenon
    <3>2. QED  BY <1>1, <1>4, <3>1 DEF Obligations!obligations
  <2>3. QED  BY <2>1, <2>2
<1>5. QED  BY <1>3, <1>4

(* Setting the profile is the change that was promised.                    *)
LEMMA ProfileSetRefines ==
    ASSUME Heard, IInv, Ordered, ProfileSet
    PROVE  Ordered' /\ [Obligations!Next]_(Obligations!obligations)
<1>1. /\ stage = "profileSet" /\ stage' \in {"profileInfo", "teardown"}
      /\ UNCHANGED <<owed, retained, fd, dark, changed, intents>>
      /\ profile' \in {"original", "target"}
      /\ profile' = "target" \/ out'.exit = 1
  BY DEF ProfileSet, At, GoTo, Fatal, lights, IInv, TypeOK, Outcomes
<1>2. out.exit = 1 => out'.exit = 1
  BY DEF ProfileSet, GoTo, Fatal, IInv, TypeOK, Outcomes
<1>3. "setProfile" \in intents /\ "setProfile" \in Owed /\ "setProfile" \in Changes
  BY <1>1, SomeIntents DEF IInv, Announced, Marked, Owed
<1>4. Ordered'
  BY <1>1 DEF Ordered, BeforeProfile, BeforeInhibitor
<1>5. UNCHANGED <<Owed, Kept>>
  BY <1>1 DEF Owed, Kept, Taken
<1>6. stage \notin Ending /\ stage' \notin Ending
  BY <1>1 DEF Ending
<1>7. Shown' \in {Shown, Shown \cup {"setProfile"}}
  BY <1>1 DEF Ordered, BeforeProfile, Shown, Taken
<1>8. QED  BY <1>1, <1>2, <1>3, <1>4, <1>5, <1>6, <1>7, RequestRefines

(* So is turning a backlight off.                                          *)
LEMMA DarkSetRefines ==
    ASSUME Heard, IInv, Ordered, DarkSet
    PROVE  Ordered' /\ [Obligations!Next]_(Obligations!obligations)
<1>1. /\ stage = "darkSet" /\ stage' \in {"darkVerify", "undo", "loop"}
      /\ UNCHANGED <<power, fd, changed>> /\ UNCHANGED intents
      /\ dark' \in {dark, dark \cup {Current}}
      /\ stage' = "undo" => todo' = changed
  BY DEF DarkSet, At, LogFails
<1>2. out.exit = 1 => out'.exit = 1
  <2>1. Raised(LogFailing(out)).exit = 1
    BY RaisedFields, OutcomeFields DEF IInv, TypeOK
  <2>2. QED  BY <2>1 DEF DarkSet, LogFails, IInv, TypeOK, Outcomes
<1>3. Current \in intents /\ Current \in changed /\ Current \in Devices
  BY <1>1 DEF IInv, Announced, Marked, TypeOK
<1>4. Current \in Owed /\ Current \in Changes
  BY <1>3, SomeIntents DEF Owed
<1>5. Ordered'
  BY <1>1 DEF Ordered, BeforeProfile, BeforeInhibitor
<1>6. UNCHANGED <<Owed, Kept>>
  BY <1>1 DEF Owed, Kept, Taken, power
<1>7. stage \notin Ending /\ stage' \notin Ending
  BY <1>1 DEF Ending
<1>8. Shown' \in {Shown, Shown \cup {Current}}
  BY <1>1 DEF Shown, Taken, power
<1>9. QED  BY <1>1, <1>2, <1>3, <1>4, <1>5, <1>6, <1>7, <1>8, RequestRefines

(* The inhibitor is taken: its descriptor is the promise.                  *)
LEMMA InhibitCallRefines ==
    ASSUME Heard, IInv, Ordered, InhibitCall
    PROVE  Ordered' /\ [Obligations!Next]_(Obligations!obligations)
<1>1. /\ stage = "inhibitCall" /\ stage' \in {"inhibitInfo", "teardown"}
      /\ UNCHANGED <<power, dark, changed, intents>>
      /\ fd = "none" /\ fd' \in {"none", "held"}
      /\ out.exit = 1 => out'.exit = 1
  BY DEF InhibitCall, At, GoTo, Fatal, lights, IInv, TypeOK, Outcomes, Ordered, BeforeInhibitor
<1>2. CASE fd' = "none"
  <2>1. Forward
    BY <1>1, ForwardByRecord
  <2>2. Untouched
    BY <1>1, <1>2, <2>1 DEF Untouched, Ending, BeforeProfile, BeforeInhibitor
  <2>3. QED  BY <2>2, UntouchedRefines
<1>3. CASE fd' = "held"
  <2>1. Ordered'
    BY <1>1 DEF Ordered, BeforeProfile, BeforeInhibitor
  <2>2. "inhibit" \in intents /\ "inhibit" \in Changes
    BY <1>1, SomeIntents DEF IInv, Announced
  <2>3. /\ Phase = "working" /\ Phase' = "working" /\ Kept' = Kept
        /\ Shown' = Shown \cup {"inhibit"} /\ Owed' = Owed \cup {"inhibit"}
    BY <1>1, <1>3 DEF Phase, Kept, Shown, Owed, Taken, power
  <2>4. Obligations!MayBlame
    BY <1>1, BlameStays
  <2>5. Obligations!Take("inhibit")
    BY <1>1, <2>2, <2>3, <2>4 DEF Obligations!Take
  <2>6. QED  BY <2>1, <2>2, <2>5 DEF Obligations!Next
<1>4. QED  BY <1>1, <1>2, <1>3

(* Normal mode keeps the profile.                                          *)
LEMMA RetainRefines ==
    ASSUME IInv, Ordered, Retain
    PROVE  Ordered' /\ [Obligations!Next]_(Obligations!obligations)
<1>1. /\ stage = "retain" /\ UNCHANGED <<profile, fd, dark, changed>>
      /\ TypeOK
  BY DEF Retain, At, lights, IInv
<1>2. CASE Cancelled /\ UNCHANGED <<owed, retained>>
  <2>1. Untouched
    BY <1>1, <1>2, CancelledMoves
       DEF Moves, Untouched, Ending, BeforeProfile, BeforeInhibitor, power, Cancelled, Unwound
  <2>2. QED  BY <2>1, UntouchedRefines
<1>3. CASE ~(Cancelled /\ UNCHANGED <<owed, retained>>)
  <2>1. /\ retained' = TRUE /\ owed' = FALSE /\ stage' = "record" /\ UNCHANGED intents
        /\ out' = [out EXCEPT !.goal = out.exit = 0, !.reason = "done"]
    BY <1>3 DEF Retain
  <2>2. out'.exit = out.exit
    <3> DEFINE goal == out.exit = 0
    <3>1. out' = [[out EXCEPT !.goal = goal] EXCEPT !.reason = "done"]
      BY <2>1
    <3> HIDE DEF goal
    <3>2. QED  BY <1>1, <3>1 DEF TypeOK, Outcomes
  <2>3. Ordered'
    BY <1>1, <2>1 DEF Ordered, BeforeProfile, BeforeInhibitor
  <2>4. /\ Phase = "working" /\ Phase' = "working" /\ Shown' = Shown
        /\ (out.exit = 1)' = (out.exit = 1) /\ (intents \cap Changes)' = intents \cap Changes
    BY <1>1, <2>1, <2>2 DEF Phase, Shown, Taken
  <2>5. Kept' = Kept \cup {"setProfile"}
    BY <2>1 DEF Kept
  <2>6. Owed' = Owed \ {"setProfile"}
    BY <1>1, <2>1, RunLifecycleAssumption DEF Owed, Taken, TypeOK
  <2>7. Obligations!Keep("setProfile")
    BY <2>4, <2>5, <2>6 DEF Obligations!Keep
  <2>8. QED  BY <2>3, <2>7, SomeIntents DEF Obligations!Next
<1>4. QED  BY <1>2, <1>3

-----------------------------------------------------------------------------
(* The recovery.                                                           *)

(* A device is restored, or the attempt is to be blamed.                   *)
LEMMA RestoreDeviceRefines ==
    ASSUME TypeOK, Ordered, NEW from \in {"undo", "restore"}, RestoreDevice(from)
    PROVE  Ordered' /\ [Obligations!Next]_(Obligations!obligations)
<1>1. /\ stage = from /\ stage' = from /\ todo # {} /\ todo' = todo \ {Current}
      /\ UNCHANGED <<power, fd>>
      /\ todo \subseteq changed /\ changed \subseteq Devices
  BY DEF RestoreDevice, At, Ordered, TypeOK
<1>2. Current \in todo /\ Current \in Devices /\ Current \in Changes
  BY <1>1, SomeIntents DEF Current
<1>3. Current \in Owed /\ Current \notin Kept /\ Current # "inhibit" /\ Current # "setProfile"
  BY <1>1, <1>2, RunLifecycleAssumption DEF Owed, Kept
<1>4. Phase # "over" /\ Phase' = Phase /\ Kept' = Kept
  BY <1>1 DEF Phase, Kept, power
<1>5. dark' = dark \ {Current} => Shown' = Shown \ {Current}
  BY <1>1, <1>3 DEF Shown, Taken, power
<1>6. changed' = changed \ {Current} => Owed' = Owed \ {Current}
  BY <1>1, <1>3 DEF Owed, Taken, power
<1>7. UNCHANGED dark => Shown' = Shown
  BY <1>1 DEF Shown, Taken, power
<1>8. UNCHANGED changed => Owed' = Owed
  BY <1>1 DEF Owed, Taken, power
<1>9. CASE /\ dark' = dark \ {Current} /\ changed' = changed \ {Current}
           /\ UNCHANGED <<log, intents, tip, out, loop>>
  <2>1. Ordered'
    BY <1>1, <1>9 DEF Ordered, BeforeProfile, BeforeInhibitor
  <2>2. (out.exit = 1)' = (out.exit = 1) /\ (intents \cap Changes)' = intents \cap Changes
    BY <1>9
  <2>3. Obligations!Undo(Current)
    BY <1>3, <1>4, <1>5, <1>6, <1>9, <2>2 DEF Obligations!Undo
  <2>4. QED  BY <1>2, <2>1, <2>3 DEF Obligations!Next
<1>10. CASE /\ dark' \in {dark, dark \ {Current}} /\ UNCHANGED <<changed, intents>>
            /\ out'.exit = 1
  <2>1. Ordered'
    BY <1>1, <1>10 DEF Ordered, BeforeProfile, BeforeInhibitor
  <2>2. Shown' \in {Shown, Shown \ {Current}} /\ (intents \cap Changes)' = intents \cap Changes
    BY <1>5, <1>7, <1>10
  <2>3. Obligations!Botch(Current)
    BY <1>3, <1>4, <1>8, <1>10, <2>2 DEF Obligations!Botch
  <2>4. QED  BY <1>2, <2>1, <2>3 DEF Obligations!Next
<1>11. /\ RestoreFailure(out).exit = 1 /\ RestoreFailure(LogFailing(out)).exit = 1
  BY OutcomeFields DEF TypeOK
<1>12. QED  BY <1>9, <1>10, <1>11 DEF RestoreDevice, LogFails

(* A step of the recovery that leaves the host alone.                      *)
LEMMA RecoveringRefines ==
    ASSUME Ordered, UNCHANGED <<power, fd, dark, changed, todo, intents>>,
           stage \in Ending \ {"done"}, stage' \in Ending \ {"done"},
           stage' = "restore" => stage = "restore", out.exit = 1 => out'.exit = 1
    PROVE  Ordered' /\ [Obligations!Next]_(Obligations!obligations)
<1>1. Ordered'
  BY DEF Ordered, BeforeProfile, BeforeInhibitor, Ending, power
<1>2. Phase = "recovering" /\ Phase' = "recovering"
  BY DEF Phase, Ending
<1>3. Shown' = Shown /\ Owed' = Owed /\ Kept' = Kept /\ (intents \cap Changes)' = intents \cap Changes
  BY DEF Shown, Owed, Kept, Taken, power
<1>4. CASE out'.exit = 1 /\ out.exit # 1
  <2>1. Obligations!Blame
    BY <1>2, <1>3, <1>4 DEF Obligations!Blame
  <2>2. QED  BY <1>1, <2>1 DEF Obligations!Next
<1>5. CASE (out'.exit = 1) <=> (out.exit = 1)
  <2>1. (out'.exit = 1) = (out.exit = 1)
    BY <1>5, Zenon
  <2>2. QED  BY <1>1, <1>2, <1>3, <2>1 DEF Obligations!obligations
<1>6. QED  BY <1>4, <1>5

(* A recovery that cannot report is blamed.                                *)
LEMMA FinallyRefines ==
    ASSUME IInv, Ordered, BacklightsDone \/ Report \/ EndSession \/ RecoveryReportFails
    PROVE  Ordered' /\ [Obligations!Next]_(Obligations!obligations)
<1>1. UNCHANGED <<power, fd, dark, changed, todo, intents>>
  BY DEF BacklightsDone, Report, EndSession, RecoveryReportFails, Skipped, LogFails, lights
<1>2. /\ stage \in Ending \ {"done"} /\ stage' \in Ending \ {"done"}
      /\ stage' = "restore" => stage = "restore"
  BY DEF BacklightsDone, Report, EndSession, RecoveryReportFails, Recovering, At, Ending
<1>3. out.exit = 1 => out'.exit = 1
  <2>1. Failing(out).exit = 1 /\ LogFailing(out).exit = 1
    BY OutcomeFields DEF IInv, TypeOK
  <2>2. CASE Report
    <3> DEFINE goal == out.goal /\ out.exit = 0
    <3>1. out' = [out EXCEPT !.goal = goal]
      BY <2>2 DEF Report
    <3> HIDE DEF goal
    <3>2. QED  BY <3>1 DEF IInv, TypeOK, Outcomes
  <2>3. CASE BacklightsDone \/ EndSession \/ RecoveryReportFails
    BY <2>1, <2>3 DEF BacklightsDone, EndSession, RecoveryReportFails, Skipped, LogFails
  <2>4. QED  BY <2>2, <2>3
<1>4. QED  BY <1>1, <1>2, <1>3, RecoveringRefines

(* The recovery starts.                                                    *)
LEMMA TeardownRefines ==
    ASSUME Ordered, Teardown
    PROVE  Ordered' /\ [Obligations!Next]_(Obligations!obligations)
<1>1. /\ stage = "teardown" /\ stage' = "restore" /\ todo' = changed
      /\ UNCHANGED <<intents, out, power, fd, dark, changed>>
  BY DEF Teardown, At
<1>2. Ordered'
  BY <1>1 DEF Ordered, BeforeProfile, BeforeInhibitor
<1>3. Phase = "working" /\ Phase' = "recovering"
  BY <1>1 DEF Phase
<1>4. /\ Shown' = Shown /\ Owed' = Owed /\ Kept' = Kept /\ (intents \cap Changes)' = intents \cap Changes
      /\ (out.exit = 1)' = (out.exit = 1)
  BY <1>1 DEF Shown, Owed, Kept, Taken, power
<1>5. Obligations!Recover
  BY <1>3, <1>4 DEF Obligations!Recover
<1>6. QED  BY <1>2, <1>5 DEF Obligations!Next

(* A descriptor is closed, or it is unknown whether it is.                 *)
LEMMA ReleaseRefines ==
    ASSUME IInv, Ordered, ReleaseInhibitor
    PROVE  Ordered' /\ [Obligations!Next]_(Obligations!obligations)
<1>1. /\ stage = "release" /\ stage' = "restoreProfile" /\ fd \in {"none", "held"}
      /\ UNCHANGED <<intents, power, dark, changed, todo>> /\ TypeOK
  BY DEF ReleaseInhibitor, At, lights, IInv, Recovered, Ending
<1>2. Ordered'
  BY <1>1 DEF Ordered, BeforeProfile, BeforeInhibitor
<1>3. /\ Phase = "recovering" /\ Phase' = "recovering" /\ Kept' = Kept
      /\ (intents \cap Changes)' = intents \cap Changes
  BY <1>1 DEF Phase, Kept, power
<1>4. "inhibit" \in Changes /\ "inhibit" \notin Kept
  BY SomeIntents DEF Kept
<1>5. CASE fd = "held" /\ fd' = "closed" /\ UNCHANGED out
  <2>1. "inhibit" \in Owed /\ Shown' = Shown \ {"inhibit"} /\ Owed' = Owed \ {"inhibit"}
    BY <1>1, <1>5, RunLifecycleAssumption DEF Shown, Owed, Taken, power, TypeOK
  <2>2. (out.exit = 1)' = (out.exit = 1)
    BY <1>5
  <2>3. Obligations!Undo("inhibit")
    BY <1>3, <1>4, <2>1, <2>2 DEF Obligations!Undo
  <2>4. QED  BY <1>2, <1>4, <2>3 DEF Obligations!Next
<1>6. CASE fd = "held" /\ fd' = "doubtful" /\ out' = [out EXCEPT !.exit = 1, !.goal = FALSE]
  <2>1. "inhibit" \in Owed /\ Shown' = Shown /\ Owed' = Owed
    BY <1>1, <1>6 DEF Shown, Owed, Taken, power
  <2>2. out'.exit = 1
    BY <1>1, <1>6 DEF TypeOK, Outcomes
  <2>3. Obligations!Botch("inhibit")
    BY <1>3, <1>4, <2>1, <2>2 DEF Obligations!Botch
  <2>4. QED  BY <1>2, <1>4, <2>3 DEF Obligations!Next
<1>7. CASE fd = "none" /\ fd' = "none" /\ UNCHANGED out
  BY <1>1, <1>7, RecoveringRefines DEF Ending
<1>8. QED  BY <1>1, <1>5, <1>6, <1>7 DEF ReleaseInhibitor

(* The profile is restored only if that is owed.                           *)
LEMMA RestoreProfileRefines ==
    ASSUME IInv, Ordered, RestoreProfile
    PROVE  Ordered' /\ [Obligations!Next]_(Obligations!obligations)
<1>1. /\ stage = "restoreProfile" /\ stage' = "report"
      /\ UNCHANGED <<intents, retained, fd, dark, changed, todo>> /\ TypeOK
  BY DEF RestoreProfile, At, lights, IInv
<1>2. Ordered'
  BY <1>1 DEF Ordered, BeforeProfile, BeforeInhibitor
<1>3. /\ Phase = "recovering" /\ Phase' = "recovering" /\ Kept' = Kept
      /\ (intents \cap Changes)' = intents \cap Changes
  BY <1>1 DEF Phase, Kept
<1>4. "setProfile" \notin dark /\ "setProfile" \notin changed /\ "setProfile" \notin Taken
  BY <1>1, RunLifecycleAssumption DEF TypeOK, Taken
<1>5. profile' = "original" => Shown' = Shown \ {"setProfile"}
  BY <1>1, <1>4 DEF Shown, Taken
<1>6. ASSUME owed, ~retained PROVE "setProfile" \in Owed /\ "setProfile" \notin Kept
  BY <1>6 DEF Owed, Kept
<1>7. CASE owed /\ ~retained /\ profile' = "original" /\ owed' = FALSE /\ UNCHANGED out
  <2>1. Owed' = Owed \ {"setProfile"}
    BY <1>1, <1>4, <1>7 DEF Owed, Taken
  <2>2. (out.exit = 1)' = (out.exit = 1)
    BY <1>7
  <2>3. Obligations!Undo("setProfile")
    BY <1>3, <1>5, <1>6, <1>7, <2>1, <2>2 DEF Obligations!Undo
  <2>4. QED  BY <1>2, <2>3, SomeIntents DEF Obligations!Next
<1>8. CASE owed /\ ~retained /\ profile' \in {profile, "original"} /\ UNCHANGED owed
           /\ out' = [out EXCEPT !.exit = 1, !.goal = FALSE]
  <2>1. Owed' = Owed
    BY <1>1, <1>8 DEF Owed, Taken
  <2>2. profile' = profile => Shown' = Shown
    BY <1>1 DEF Shown, Taken
  <2>3. out'.exit = 1
    BY <1>1, <1>8 DEF TypeOK, Outcomes
  <2>4. Obligations!Botch("setProfile")
    BY <1>3, <1>5, <1>6, <1>8, <2>1, <2>2, <2>3 DEF Obligations!Botch
  <2>5. QED  BY <1>2, <2>4, SomeIntents DEF Obligations!Next
<1>9. CASE UNCHANGED <<profile, owed, out>>
  BY <1>1, <1>9, RecoveringRefines DEF Ending, power
<1>10. QED  BY <1>7, <1>8, <1>9 DEF RestoreProfile

(* The end leaves nothing behind in silence.                               *)
LEMMA CloseLogRefines ==
    ASSUME IInv, Ordered, CloseLog
    PROVE  Ordered' /\ [Obligations!Next]_(Obligations!obligations)
<1>1. /\ stage = "close" /\ stage' = "done"
      /\ UNCHANGED <<intents, power, fd, dark, changed>> /\ TypeOK
  BY DEF CloseLog, At, lights, IInv
<1>2. Ordered'
  BY <1>1 DEF Ordered, BeforeProfile, BeforeInhibitor
<1>3. out.exit = 1 => out'.exit = 1
  <2>1. LogFailing(out).exit = 1
    BY <1>1, OutcomeFields DEF TypeOK
  <2>2. QED  BY <2>1 DEF CloseLog
<1>4. out.exit = 1 \/ ((profile = "original" \/ retained) /\ dark = {} /\ fd \in {"none", "closed"})
  BY <1>1 DEF IInv, Recovered, Ending
<1>5. out'.exit = 1 \/ Shown \subseteq Kept
  BY <1>1, <1>3, <1>4 DEF Shown, Kept, Taken
<1>6. /\ Phase = "recovering" /\ Phase' = "over" /\ Shown' = Shown /\ Owed' = Owed /\ Kept' = Kept
      /\ (intents \cap Changes)' = intents \cap Changes
  BY <1>1 DEF Phase, Shown, Owed, Kept, Taken, power
<1>7. Obligations!MayBlame
  BY <1>3, BlameStays
<1>8. Obligations!End
  BY <1>5, <1>6, <1>7 DEF Obligations!End
<1>9. QED  BY <1>2, <1>8 DEF Obligations!Next

-----------------------------------------------------------------------------
(* A run starts with nothing announced.                                    *)
LEMMA InitRefinesObligations == Init => Ordered /\ Obligations!Init
<1> SUFFICES ASSUME Init PROVE Ordered /\ Obligations!Init
  OBVIOUS
<1>1. Ordered
  BY DEF Init, Ordered
<1>2. Shown = {} /\ Owed = {} /\ Kept = {} /\ Phase = "working" /\ (out.exit = 1) = FALSE
  BY DEF Init, Shown, Owed, Kept, Taken, Phase
<1>3. QED  BY <1>1, <1>2 DEF Init, Obligations!Init

(* One case for each part of the program.                                  *)
LEMMA StepRefinesObligations ==
    ASSUME Heard, IInv, Ordered, [Next]_vars
    PROVE  Ordered' /\ [Obligations!Next]_(Obligations!obligations)
<1>1. TypeOK
  BY DEF IInv
<1>2. CASE Setup
  BY <1>1, <1>2, SetupUntouched, LoopUntouched, UntouchedRefines, CheckBinds, ProfileSetRefines,
     InhibitCallRefines, RetainRefines DEF Setup
<1>3. CASE Callback
  BY <1>1, <1>3, CallbackUntouched, UntouchedRefines, CheckBinds, DarkSetRefines,
     RestoreDeviceRefines DEF Callback, UndoDevice
<1>4. CASE Finally
  BY <1>1, <1>4, LoopUntouched, UntouchedRefines, RestoreDeviceRefines, FinallyRefines,
     TeardownRefines, ReleaseRefines, RestoreProfileRefines, CloseLogRefines
     DEF Finally, TeardownDevice
<1>5. CASE Dispatch \/ QuitForSignal
  BY <1>1, <1>5, LoopUntouched, UntouchedRefines DEF Dispatch
<1>6. CASE RecoveryReportFails
  BY <1>6, FinallyRefines
<1>7. CASE SignalArrives \/ UNCHANGED vars
  <2>1. UNCHANGED <<stage, out, intents, profile, owed, retained, fd, dark, changed, todo>>
    BY <1>7 DEF SignalArrives, vars, control, power, lights
  <2>2. Phase' = Phase /\ Shown' = Shown /\ Owed' = Owed /\ Kept' = Kept
    BY <2>1 DEF Phase, Shown, Owed, Kept, Taken
  <2>3. (out.exit = 1)' = (out.exit = 1) /\ (intents \cap Changes)' = intents \cap Changes
    BY <2>1
  <2>4. Ordered'
    BY <2>1 DEF Ordered
  <2>5. QED  BY <2>2, <2>3, <2>4 DEF Obligations!obligations
<1>8. QED  BY <1>2, <1>3, <1>4, <1>5, <1>6, <1>7 DEF Next, MainThread

(* Where the log fails only when its failure is heard, a run keeps to what *)
(* it owes the host: for any backlights and modes, whatever fails, and     *)
(* wherever a signal falls, each change is announced, then bound to be     *)
(* undone, then made, undone only if it was bound, and none is left behind *)
(* in silence (_append_running_log, the marks of the obligations,          *)
(* teardown).                                                              *)
THEOREM RunImplementsObligations ==
    ASSUME BatteryLogFaults = FALSE
    PROVE  Spec => ImplementsObligations
<1>1. Heard
  BY DEF Heard
<1>2. Init => Ordered /\ Obligations!Init
  BY InitRefinesObligations
<1>3. IInv /\ Ordered /\ [Next]_vars => Ordered' /\ [Obligations!Next]_(Obligations!obligations)
  BY <1>1, StepRefinesObligations
<1>4. QED  BY <1>2, <1>3, Invariance, PTL DEF Spec, ImplementsObligations, Obligations!Spec

(* What keeping to the obligations is worth: the host never shows a change *)
(* that was not announced or is neither bound to be undone nor to be kept, *)
(* and at the end only what is kept, or the exit status is not zero.       *)
THEOREM ObligationsAreHonoured == Obligations!Spec => []Obligations!Honoured
<1>1. Obligations!Init => Obligations!Honoured
  BY DEF Obligations!Init, Obligations!Honoured
<1>2. Obligations!Honoured /\ [Obligations!Next]_(Obligations!obligations) => Obligations!Honoured'
  <2> SUFFICES ASSUME Obligations!Honoured, [Obligations!Next]_(Obligations!obligations)
               PROVE  Obligations!Honoured'
    OBVIOUS
  <2> USE DEF Obligations!Honoured
  <2>1. ASSUME NEW c, Obligations!Announce(c) PROVE Obligations!Honoured'
    BY <2>1 DEF Obligations!Announce, Obligations!MayBlame
  <2>2. ASSUME NEW c, Obligations!Promise(c) PROVE Obligations!Honoured'
    BY <2>2 DEF Obligations!Promise
  <2>3. ASSUME NEW c, Obligations!Change(c) PROVE Obligations!Honoured'
    BY <2>3 DEF Obligations!Change, Obligations!MayBlame
  <2>4. ASSUME NEW c, Obligations!Take(c) PROVE Obligations!Honoured'
    BY <2>4 DEF Obligations!Take, Obligations!MayBlame
  <2>5. ASSUME NEW c, Obligations!Undo(c) PROVE Obligations!Honoured'
    BY <2>5 DEF Obligations!Undo
  <2>6. ASSUME NEW c, Obligations!Botch(c) PROVE Obligations!Honoured'
    BY <2>6 DEF Obligations!Botch
  <2>7. ASSUME NEW c, Obligations!Keep(c) PROVE Obligations!Honoured'
    BY <2>7 DEF Obligations!Keep
  <2>8. CASE Obligations!Blame
    BY <2>8 DEF Obligations!Blame
  <2>9. CASE Obligations!Recover
    BY <2>9 DEF Obligations!Recover
  <2>10. CASE Obligations!End
    BY <2>10 DEF Obligations!End, Obligations!MayBlame
  <2>11. CASE UNCHANGED Obligations!obligations
    BY <2>11 DEF Obligations!obligations
  <2>12. QED
    BY <2>1, <2>2, <2>3, <2>4, <2>5, <2>6, <2>7, <2>8, <2>9, <2>10, <2>11
    DEF Obligations!Next
<1>3. QED  BY <1>1, <1>2, PTL DEF Obligations!Spec

(* So every run honours them (_append_running_log before each request, the *)
(* marks of the obligations, teardown and restore_power_profile).          *)
THEOREM RunIsHonoured ==
    ASSUME BatteryLogFaults = FALSE
    PROVE  Spec => []Obligations!Honoured
<1>1. Spec => Obligations!Spec
  BY RunImplementsObligations DEF ImplementsObligations
<1>2. QED  BY <1>1, ObligationsAreHonoured, PTL
=============================================================================
