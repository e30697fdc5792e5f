---------------------------- MODULE RunLifecycle ----------------------------
(***************************************************************************)
(* One invocation of burnbag after its running log is open: _main and the  *)
(* LidCloseManager it drives, from the startup plan to the closed log.     *)
(*                                                                         *)
(* `stage' is the place the main thread has reached.  GLib callbacks run   *)
(* on that thread inside the loop, one at a time; signals arrive between   *)
(* any two steps and only leave a note.  The checks for that note and the  *)
(* host change they protect are separate steps, because a signal may fall  *)
(* between them.  Host calls may fail after they took effect.              *)
(***************************************************************************)
EXTENDS Naturals, FiniteSets

CONSTANTS
    Devices,          \* the backlights
    Modes,            \* subset of {"run", "normal", "sleep"}
    BatteryLogFaults  \* may the log fail under the report of a battery error?

ASSUME RunLifecycleAssumption ==
    /\ IsFiniteSet(Devices)
    /\ Devices \cap {"setProfile", "inhibit", "sleep", "cycle"} = {}
    /\ Modes \subseteq {"run", "normal", "sleep"}
    /\ BatteryLogFaults \in BOOLEAN

VARIABLES
    mode,        \* the requested mode; "sleep" is suspend or hibernate
    timed,       \* --suspend-after-minutes
    ignoreLid,   \* --ignore-lid
    stage,       \* where the main thread is
    log,         \* the running log: "open", "failed" or "closed"
    intents,     \* the intents in the synchronized records of the log; a
                 \* device stands for the intent to switch it off
    tip,         \* teardown_in_progress
    out,         \* exit_code, goal_achieved, shutdown_reason, stop_requested
    loop,        \* the GLib loop: "none", "made", "running", "quit", "over"
    signal,      \* shutdown_signal is set
    source,      \* shutdown_signal_source_id is set
    lightTimer,  \* backlight_timer_id is set
    sleepTimer,  \* suspend_timer_id is set
    lid,         \* "unseen" until closed once, then "closed" or "open"
    profile,     \* the host's active profile: "original" or "target"
    owed,        \* power_profile_changed
    retained,    \* power_profile_retained
    fd,          \* the inhibitor: "none", "held", "closed" or "doubtful"
    dark,        \* the devices the host has switched off
    changed,     \* the devices marked device.changed
    todo,        \* the devices the current loop over devices has left
    asked,       \* a sleep request was sent to logind
    accepted,    \* logind accepted it
    flushed,     \* the history was flushed for it
    ended,       \* the session_end records: exit_code and goal_achieved
    late         \* host changes started with a signal noted (history)

option == <<mode, timed, ignoreLid>>
control == <<stage, log, intents, tip, out, loop>>
noted == <<signal, source>>
timers == <<lightTimer, sleepTimer, lid>>
power == <<profile, owed, retained>>
lights == <<dark, changed, todo>>
sleep == <<asked, accepted, flushed>>
vars == <<option, control, noted, timers, power, fd, lights, sleep, ended, late>>

InLoop == loop \in {"running", "quit"}

(* MainLoop.quit: it has an effect only on a loop that is running.         *)
Quit(l) == IF l = "running" THEN "quit" ELSE l

(* Defect: a recorded failure does not ask the setup to stop.              *)
FailingGoesOn(o) ==
    [o EXCEPT !.exit = 1, !.goal = FALSE,
              !.reason = IF o.exit = 0 \/ @ = "unknown" THEN "failure" ELSE @]

(* _record_failure, without its log record.                                *)
Failing(o) ==
    [exit |-> 1, goal |-> FALSE, stop |-> TRUE,
     reason |-> IF o.exit = 0 \/ o.reason = "unknown" THEN "failure" ELSE o.reason]

(* _mark_running_log_failure.                                              *)
LogFailing(o) == [o EXCEPT !.exit = 1, !.goal = FALSE, !.reason = "log"]

Init ==
    /\ mode \in Modes /\ timed \in BOOLEAN /\ ignoreLid \in BOOLEAN
    /\ mode = "run" \/ (~timed /\ ~ignoreLid)
    /\ stage = "plan" /\ log = "open" /\ intents = {} /\ tip = FALSE
    /\ out = [exit |-> 0, goal |-> FALSE, stop |-> FALSE, reason |-> "unknown"]
    /\ loop = "none" /\ signal = FALSE /\ source = FALSE
    /\ lightTimer = FALSE /\ sleepTimer = FALSE /\ lid = "unseen"
    /\ profile = "original" /\ owed = FALSE /\ retained = FALSE
    /\ fd = "none" /\ dark = {} /\ changed = {} /\ todo = {}
    /\ asked = FALSE /\ accepted = FALSE /\ flushed = FALSE
    /\ ended = {} /\ late = 0

-----------------------------------------------------------------------------
(* Records of the running log and how their failure ends a step.           *)

(* Where an exception takes the thread: out of a callback to the loop,     *)
(* which guard_callback stops, or out of the setup to the finally clause.  *)
Unwound == IF InLoop THEN "loop" ELSE "record"

(* guard_callback turns an exception of a callback into a failure.         *)
Raised(o) == IF InLoop /\ ~tip THEN Failing(o) ELSE o

(* Defect: a failed append does not abort the step that wrote it.          *)
AfterLogFailureGoOn(next) == next

(* A failed append raises unless the recovery has begun.                   *)
AfterLogFailure(next) == IF tip THEN next ELSE Unwound

(* The records the properties speak of; the others are not remembered.     *)
Announcements == {"setProfile", "inhibit", "sleep", "cycle"} \cup Devices

With(event) ==
    IF log = "open" THEN intents \cup ({event} \cap Announcements) ELSE intents

Written(event) ==
    /\ log = "open"
    /\ intents' = With(event)
    /\ UNCHANGED <<log, tip, out, loop>>

(* With the log failed, tip is set, and the append returns in silence.     *)
Skipped == log = "failed" /\ UNCHANGED <<log, intents, tip, out, loop>>

LogFails(outcome) ==
    /\ log = "open"
    /\ log' = "failed"
    /\ tip' = TRUE
    /\ out' = outcome
    /\ loop' = Quit(loop)
    /\ UNCHANGED intents

(* _append_running_log(event) on the way to the stage `next'.              *)
Append(event, next) ==
    \/ (Written(event) \/ Skipped) /\ stage' = next
    \/ LogFails(Raised(LogFailing(out))) /\ stage' = AfterLogFailure(next)

(* The record is written, and then the terminal or the history recorder    *)
(* fails; _record_failure notes it, and its own record may fail unheard.   *)
ReportFails(event) ==
    /\ intents' = With(event)
    /\ \/ out' = Failing(out) /\ UNCHANGED <<log, tip>>
       \/ log = "open" /\ log' = "failed" /\ tip' = TRUE
          /\ out' = LogFailing(Failing(out))
    /\ loop' = Quit(loop)

(* _info, _ok and _event: a record and a line on the terminal.             *)
Say(event, next) ==
    \/ Append(event, next)
    \/ ReportFails(event) /\ stage' = next

(* _fatal_error: it runs the teardown where it stands.                     *)
Fatal ==
    /\ out' = [out EXCEPT !.exit = 1, !.goal = FALSE, !.reason = "fatal"]
    /\ \/ UNCHANGED <<log, tip>>
       \/ log = "open" /\ log' = "failed" /\ tip' = TRUE
    /\ loop' = Quit(loop)
    /\ stage' = "teardown"
    /\ UNCHANGED intents

Stopped == signal \/ out.stop

(* check_shutdown_requested raises ShutdownRequested.                      *)
Cancelled ==
    /\ Stopped
    /\ stage' = Unwound
    /\ loop' = Quit(loop)
    /\ UNCHANGED <<log, intents, tip, out>>

(* check_shutdown_requested, then `step'.                                  *)
Checked(step) == Cancelled \/ (~Stopped /\ step)

(* A step that leaves the log, the outcome and the loop alone.             *)
GoTo(next) == stage' = next /\ UNCHANGED <<log, intents, tip, out, loop>>

Late == late' = IF signal THEN late + 1 ELSE late

At(s) == stage = s

-----------------------------------------------------------------------------
(* Setup.  Read-only steps look at the note of a signal as they start.     *)

Plan ==
    /\ At("plan")
    /\ Append("plan", "battery")
    /\ UNCHANGED <<option, noted, timers, power, fd, lights, sleep, ended, late>>

(* start_battery_monitoring.  _record_battery_error swallows the failure   *)
(* of its own record: marking that failure has already set tip.            *)
Battery ==
    /\ At("battery")
    /\ \/ Append("battery", "connect")
       \/ log = "open" /\ out' = [out EXCEPT !.exit = 1] /\ stage' = "connect"
          /\ UNCHANGED <<log, intents, tip, loop>>
       \/ BatteryLogFaults /\ LogFails(LogFailing(out)) /\ stage' = "connect"
    /\ UNCHANGED <<option, noted, timers, power, fd, lights, sleep, ended, late>>

AfterConnect ==
    CASE mode = "run" -> "validate" [] mode = "normal" -> "profileRead"
      [] mode = "sleep" -> "capability"

Connect ==
    /\ At("connect")
    /\ Checked(Fatal \/ Append("connected", AfterConnect))
    /\ UNCHANGED <<option, noted, timers, power, fd, lights, sleep, ended, late>>

ValidateLid ==
    /\ At("validate")
    /\ Checked(Fatal \/ Append("lid", "backlight"))
    /\ UNCHANGED <<option, noted, timers, power, fd, lights, sleep, ended, late>>

PrepareBacklight ==
    /\ At("backlight")
    /\ Checked(Fatal \/ Say("backlight", "profileRead"))
    /\ UNCHANGED <<option, noted, timers, power, fd, lights, sleep, ended, late>>

AfterProfile == IF mode = "normal" THEN "retain" ELSE "inhibit"

(* save_and_set_power_profile up to the record of the current profile: a   *)
(* change may be wanted, or not, or the profile may not be readable.       *)
ProfileRead ==
    /\ At("profileRead")
    /\ Checked(Fatal \/ Append("profile", "profileIntent")
                     \/ Append("profile", AfterProfile))
    /\ UNCHANGED <<option, noted, timers, power, fd, lights, sleep, ended, late>>

ProfileIntent ==
    /\ At("profileIntent")
    /\ Checked(Fatal \/ Append("setProfile", "profileCheck"))
    /\ UNCHANGED <<option, noted, timers, power, fd, lights, sleep, ended, late>>

(* Defect: the change is not marked as owed before it is requested.        *)
ProfileCheckUnmarked ==
    /\ At("profileCheck")
    /\ Checked(GoTo("profileSet"))
    /\ UNCHANGED <<option, noted, timers, profile, owed, retained, fd, lights,
                   sleep, ended, late>>

ProfileCheck ==
    /\ At("profileCheck")
    /\ \/ Cancelled /\ UNCHANGED owed
       \/ ~Stopped /\ owed' = TRUE /\ GoTo("profileSet")
    /\ UNCHANGED <<option, noted, timers, profile, retained, fd, lights, sleep,
                   ended, late>>

(* Set, then the verification read: only a verified change goes on.        *)
ProfileSet ==
    /\ At("profileSet")
    /\ Late
    /\ \/ profile' = "target" /\ GoTo("profileInfo")
       \/ profile' \in {"original", "target"} /\ Fatal
    /\ UNCHANGED <<option, noted, timers, owed, retained, fd, lights, sleep, ended>>

ProfileInfo ==
    /\ At("profileInfo")
    /\ Say("profileSet", AfterProfile)
    /\ UNCHANGED <<option, noted, timers, power, fd, lights, sleep, ended, late>>

(* Normal mode keeps a verified change, unless it was told to stop.        *)
Retain ==
    /\ At("retain")
    /\ \/ Cancelled /\ UNCHANGED <<owed, retained>>
       \/ /\ ~Stopped
          /\ retained' = TRUE /\ owed' = FALSE
          /\ out' = [out EXCEPT !.goal = out.exit = 0, !.reason = "done"]
          /\ stage' = "record"
          /\ UNCHANGED <<log, intents, tip, loop>>
    /\ UNCHANGED <<option, noted, timers, profile, fd, lights, sleep, ended, late>>

InhibitIntent ==
    /\ At("inhibit")
    /\ Checked(Append("inhibit", "inhibitCheck"))
    /\ UNCHANGED <<option, noted, timers, power, fd, lights, sleep, ended, late>>

InhibitCheck ==
    /\ At("inhibitCheck")
    /\ Checked(GoTo("inhibitCall"))
    /\ UNCHANGED <<option, noted, timers, power, fd, lights, sleep, ended, late>>

(* A descriptor may be held although the step after it failed.             *)
InhibitCall ==
    /\ At("inhibitCall")
    /\ Late
    /\ \/ fd' = "held" /\ GoTo("inhibitInfo")
       \/ fd' \in {"none", "held"} /\ Fatal
    /\ UNCHANGED <<option, noted, timers, power, lights, sleep, ended>>

InhibitInfo ==
    /\ At("inhibitInfo")
    /\ Say("inhibited", "listen")
    /\ UNCHANGED <<option, noted, timers, power, fd, lights, sleep, ended, late>>

Listen ==
    /\ At("listen")
    /\ Checked(Append("listener", "lidState"))
    /\ UNCHANGED <<option, noted, timers, power, fd, lights, sleep, ended, late>>

(* check_initial_lid_state: a lid already closed is handled at once.       *)
InitialLid ==
    /\ At("lidState")
    /\ \/ Cancelled /\ UNCHANGED lid
       \/ ~Stopped /\ (Fatal \/ Say("lidState", "makeLoop")) /\ UNCHANGED lid
       \/ ~Stopped /\ Say("lidState", "closed") /\ lid' = "closed"
    /\ UNCHANGED <<option, noted, lightTimer, sleepTimer, power, fd, lights,
                   sleep, ended, late>>

MakeLoop ==
    /\ At("makeLoop")
    /\ \/ Cancelled
       \/ ~Stopped /\ loop' = "made" /\ stage' = "schedule"
          /\ UNCHANGED <<log, intents, tip, out>>
    /\ UNCHANGED <<option, noted, timers, power, fd, lights, sleep, ended, late>>

(* Not under --do-not-touch-backlight; GLib may refuse the timer.          *)
ScheduleBacklight ==
    /\ At("schedule")
    /\ \/ lightTimer' = FALSE /\ GoTo("enter")
       \/ lightTimer' = FALSE /\ Fatal
       \/ lightTimer' = TRUE /\ Say("scheduled", "enter")
    /\ UNCHANGED <<option, noted, sleepTimer, lid, power, fd, lights, sleep,
                   ended, late>>

AnnounceLoop ==
    /\ At("enter")
    /\ Checked(Say("entered", "ready"))
    /\ UNCHANGED <<option, noted, timers, power, fd, lights, sleep, ended, late>>

LastCheck ==
    /\ At("ready")
    /\ Checked(GoTo("run"))
    /\ UNCHANGED <<option, noted, timers, power, fd, lights, sleep, ended, late>>

(* MainLoop.run: what quit() did before is forgotten.                      *)
RunLoop ==
    /\ At("run")
    /\ loop' = "running" /\ stage' = "loop"
    /\ UNCHANGED <<log, intents, tip, out, option, noted, timers, power, fd,
                   lights, sleep, ended, late>>

LoopReturns ==
    /\ At("loop") /\ loop = "quit"
    /\ loop' = "over"
    /\ stage' = "exited"
    /\ UNCHANGED <<log, intents, tip, out, option, noted, timers, power, fd,
                   lights, sleep, ended, late>>

LoopExited ==
    /\ At("exited")
    /\ Append("exited", "record")
    /\ UNCHANGED <<option, noted, timers, power, fd, lights, sleep, ended, late>>

Setup ==
    \/ Plan \/ Battery \/ Connect \/ ValidateLid \/ PrepareBacklight
    \/ ProfileRead \/ ProfileIntent \/ ProfileCheck \/ ProfileSet \/ ProfileInfo
    \/ Retain \/ InhibitIntent \/ InhibitCheck \/ InhibitCall \/ InhibitInfo
    \/ Listen \/ InitialLid \/ MakeLoop \/ ScheduleBacklight \/ AnnounceLoop
    \/ LastCheck \/ RunLoop \/ LoopReturns \/ LoopExited

-----------------------------------------------------------------------------
(* Callbacks in the loop.  Once tip is set guard_callback drops them all.  *)

Dispatched == At("loop") /\ InLoop /\ ~tip

(* Defect: the pending callback of a signal does not stop the loop.        *)
QuitForSignalIdle ==
    /\ Dispatched /\ source
    /\ source' = FALSE
    /\ UNCHANGED <<option, control, signal, timers, power, fd, lights, sleep,
                   ended, late>>

QuitForSignal ==
    /\ Dispatched /\ source
    /\ source' = FALSE
    /\ loop' = Quit(loop)
    /\ UNCHANGED <<stage, log, intents, tip, out, option, signal, timers, power,
                   fd, lights, sleep, ended, late>>

(* The battery and telemetry timers: a record, or an error to report.      *)
Observe ==
    /\ Dispatched
    /\ \/ Say("observed", "loop")
       \/ log = "open" /\ out' = [out EXCEPT !.exit = 1]
          /\ UNCHANGED <<stage, log, intents, tip, loop>>
    /\ UNCHANGED <<option, noted, timers, power, fd, lights, sleep, ended, late>>

(* The lid of the laptop moves; a failed record leaves the countdown be.   *)
LidCloses ==
    /\ Dispatched /\ lid # "closed"
    /\ lid' = "closed"
    /\ Say("lidClosed", "closed")
    /\ UNCHANGED <<option, noted, lightTimer, sleepTimer, power, fd, lights,
                   sleep, ended, late>>

LidOpens ==
    /\ Dispatched /\ lid = "closed"
    /\ lid' = "open"
    /\ Say("lidOpened", "opened")
    /\ UNCHANGED <<option, noted, lightTimer, sleepTimer, power, fd, lights,
                   sleep, ended, late>>

AfterLid == IF InLoop THEN "loop" ELSE "makeLoop"

(* _handle_lid_closed_event: announce the countdown, then start it.        *)
AnnounceCountdown ==
    /\ At("closed")
    /\ IF timed THEN Say("countdown", "arm")
                ELSE GoTo(AfterLid)
    /\ UNCHANGED <<option, noted, timers, power, fd, lights, sleep, ended, late>>

StartCountdown ==
    /\ At("arm")
    /\ sleepTimer' = TRUE
    /\ Append("started", AfterLid)
    /\ UNCHANGED <<option, noted, lightTimer, lid, power, fd, lights, sleep,
                   ended, late>>

(* _handle_lid_opened_event.                                               *)
CancelCountdown ==
    /\ At("opened")
    /\ sleepTimer' = FALSE
    /\ Say("cancelled", IF ignoreLid THEN "loop" ELSE "cycle")
    /\ UNCHANGED <<option, noted, lightTimer, lid, power, fd, lights, sleep,
                   ended, late>>

LidCycleEnds ==
    /\ At("cycle")
    /\ stage' = "loop"
    /\ loop' = Quit(loop)
    /\ \/ /\ intents' = With("cycle")
          /\ out' = [out EXCEPT !.goal = TRUE, !.reason = "lid"]
          /\ UNCHANGED <<log, tip>>
       \/ LogFails(Raised(LogFailing(out)))
    /\ UNCHANGED <<option, noted, timers, power, fd, lights, sleep, ended, late>>

(* The sensor disappears: fatal where the mission depends on it.           *)
SensorLost ==
    /\ Dispatched
    /\ IF ~ignoreLid \/ timed THEN Fatal ELSE Say("sensor", "loop")
    /\ UNCHANGED <<option, noted, timers, power, fd, lights, sleep, ended, late>>

-----------------------------------------------------------------------------
(* Switching the backlights off, in the order of the list of devices.      *)

Current == CHOOSE d \in todo : TRUE

(* A failed append in this callback leads to the restoration, not out.     *)
AppendOrUndo(event, next, rest) ==
    \/ (Written(event) \/ Skipped) /\ stage' = next /\ todo' = rest
    \/ LogFails(LogFailing(out)) /\ stage' = "undo" /\ todo' = changed

LightTimerFires ==
    /\ Dispatched /\ lightTimer
    /\ lightTimer' = FALSE
    /\ todo' = Devices
    /\ stage' = "dark"
    /\ UNCHANGED <<log, intents, tip, out, loop, option, noted, sleepTimer, lid,
                   power, fd, dark, changed, sleep, ended, late>>

DarkIntent ==
    /\ At("dark")
    /\ IF todo # {} THEN AppendOrUndo(Current, "darkCheck", todo)
       ELSE \/ AppendOrUndo("darkened", "loop", todo)
            \/ ReportFails("darkened") /\ stage' = "loop" /\ UNCHANGED todo
    /\ UNCHANGED <<option, noted, timers, power, fd, dark, changed, sleep,
                   ended, late>>

(* Defect: the device is switched off without a look at the signal.        *)
DarkCheckBlind ==
    /\ At("darkCheck")
    /\ changed' = changed \cup {Current} /\ stage' = "darkSet"
    /\ UNCHANGED <<log, intents, tip, out, loop, option, noted, timers, power,
                   fd, dark, todo, sleep, ended, late>>

DarkCheck ==
    /\ At("darkCheck")
    /\ \/ Cancelled /\ UNCHANGED changed
       \/ ~Stopped /\ changed' = changed \cup {Current} /\ GoTo("darkSet")
    /\ UNCHANGED <<option, noted, timers, power, fd, dark, todo, sleep, ended, late>>

(* A failed request may have switched the device off all the same; if its  *)
(* warning cannot be recorded, the restoration is left to the teardown.    *)
DarkSet ==
    /\ At("darkSet")
    /\ Late
    /\ \/ dark' = dark \cup {Current} /\ stage' = "darkVerify"
          /\ UNCHANGED <<log, intents, tip, out, loop, todo>>
       \/ /\ dark' \in {dark, dark \cup {Current}}
          /\ \/ out' = [out EXCEPT !.exit = 1, !.goal = FALSE, !.reason = "failure"]
                /\ stage' = "undo" /\ todo' = changed
                /\ UNCHANGED <<log, intents, tip, loop>>
             \/ LogFails(Raised(LogFailing(out))) /\ stage' = "loop"
                /\ UNCHANGED todo
    /\ UNCHANGED <<option, noted, timers, power, fd, changed, sleep, ended>>

DarkVerified ==
    /\ At("darkVerify")
    /\ AppendOrUndo("verified", "dark", todo \ {Current})
    /\ UNCHANGED <<option, noted, timers, power, fd, dark, changed, sleep,
                   ended, late>>

(* Defect: a failed restoration leaves the exit status alone.              *)
RestoreFailureUnnoticed(o) == o

RestoreFailure(o) == [o EXCEPT !.exit = 1]

(* restore_backlights, one device at a time.                               *)
RestoreDevice(from) ==
    /\ At(from) /\ todo # {}
    /\ todo' = todo \ {Current}
    /\ \/ dark' = dark \ {Current} /\ changed' = changed \ {Current}
          /\ UNCHANGED <<log, intents, tip, out, loop>>
       \/ dark' \in {dark, dark \ {Current}} /\ UNCHANGED changed
          /\ out' = RestoreFailure(out) /\ UNCHANGED <<log, intents, tip, loop>>
       \/ ~tip /\ LogFails(RestoreFailure(LogFailing(out)))
          /\ UNCHANGED <<dark, changed>>
    /\ UNCHANGED <<stage, option, noted, timers, power, fd, sleep, ended, late>>

UndoDevice == RestoreDevice("undo")

Undone ==
    /\ At("undo") /\ todo = {}
    /\ stage' = "loop" /\ loop' = Quit(loop)
    /\ UNCHANGED <<log, intents, tip, out, option, noted, timers, power, fd,
                   lights, sleep, ended, late>>

-----------------------------------------------------------------------------
(* A sleep request: of the one-shot modes, or of the countdown.            *)

SleepTimerFires ==
    /\ Dispatched /\ sleepTimer
    /\ sleepTimer' = FALSE
    /\ out' = [out EXCEPT !.goal = FALSE, !.reason = "timeout"]
    /\ stage' = "expired"
    /\ UNCHANGED <<log, intents, tip, loop, option, noted, lightTimer, lid, power,
                   fd, lights, sleep, ended, late>>

Expired ==
    /\ At("expired")
    /\ Say("expired", "capability")
    /\ UNCHANGED <<option, noted, timers, power, fd, lights, sleep, ended, late>>

(* The request cannot be made or is not accepted.                          *)
SleepRefused ==
    IF ~InLoop THEN Fatal
    ELSE /\ loop' = Quit(loop) /\ stage' = "loop" /\ UNCHANGED intents
         /\ \/ out' = [out EXCEPT !.exit = 1, !.goal = FALSE, !.reason = "failure"]
               /\ UNCHANGED <<log, tip>>
            \/ LogFails(Raised(LogFailing(out)))

SleepCapability ==
    /\ At("capability")
    /\ SleepRefused \/ Append("capability", "sleepIntent")
    /\ UNCHANGED <<option, noted, timers, power, fd, lights, sleep, ended, late>>

(* The record of the intent also flushes the history, for at most 3 s.     *)
SleepIntent ==
    /\ At("sleepIntent")
    /\ \/ Written("sleep") /\ stage' = "sleepCheck" /\ flushed' = TRUE
       \/ Skipped /\ stage' = "sleepCheck" /\ UNCHANGED flushed
       \/ ReportFails("sleep") /\ stage' = "sleepCheck" /\ UNCHANGED flushed
       \/ LogFails(Raised(LogFailing(out))) /\ stage' = AfterLogFailure("sleepCheck")
          /\ UNCHANGED flushed
    /\ UNCHANGED <<option, noted, timers, power, fd, lights, asked, accepted,
                   ended, late>>

SleepCheck ==
    /\ At("sleepCheck")
    /\ Checked(GoTo("sleepCall"))
    /\ UNCHANGED <<option, noted, timers, power, fd, lights, sleep, ended, late>>

SleepCall ==
    /\ At("sleepCall")
    /\ Late
    /\ asked' = TRUE
    /\ \/ accepted' = TRUE /\ GoTo("slept")
       \/ SleepRefused /\ UNCHANGED accepted
    /\ UNCHANGED <<option, noted, timers, power, fd, lights, flushed, ended>>

SleepAccepted ==
    /\ At("slept")
    /\ stage' = Unwound
    /\ \/ /\ intents' = With("slept")
          /\ loop' = Quit(loop)
          /\ out' = [out EXCEPT !.goal = out.exit = 0,
                               !.reason = IF InLoop THEN @ ELSE "done"]
          /\ UNCHANGED <<log, tip>>
       \/ LogFails(Raised(LogFailing(out)))
    /\ UNCHANGED <<option, noted, timers, power, fd, lights, sleep, ended, late>>

Callback ==
    \/ AnnounceCountdown \/ StartCountdown \/ CancelCountdown \/ LidCycleEnds
    \/ DarkIntent \/ DarkCheck \/ DarkSet \/ DarkVerified \/ UndoDevice
    \/ Undone \/ Expired \/ SleepCapability \/ SleepIntent \/ SleepCheck
    \/ SleepCall \/ SleepAccepted

Dispatch ==
    \/ Observe \/ LidCloses \/ LidOpens \/ SensorLost \/ LightTimerFires
    \/ SleepTimerFires

-----------------------------------------------------------------------------
(* The finally clause: note the signal, recover the host, report, close.   *)

RecordSignal ==
    /\ At("record")
    /\ stage' = "teardown"
    /\ LET noticed ==
             IF signal /\ (out.reason = "unknown" \/ out.exit = 0)
             THEN [out EXCEPT !.reason = "signal", !.goal = out.exit = 0]
             ELSE out
       IN \/ out' = noticed /\ UNCHANGED <<log, intents, tip, loop>>
          \/ signal /\ LogFails(LogFailing(noticed))
    /\ UNCHANGED <<option, noted, timers, power, fd, lights, sleep, ended, late>>

(* teardown starts: no signal is noted from here on, no callback runs.     *)
Teardown ==
    /\ At("teardown")
    /\ tip' = TRUE
    /\ source' = FALSE /\ lightTimer' = FALSE /\ sleepTimer' = FALSE
    /\ todo' = changed
    /\ stage' = "restore"
    /\ UNCHANGED <<log, intents, out, loop, option, signal, lid, power, fd, dark,
                   changed, sleep, ended, late>>

Recovering == tip /\ stage \in {"restore", "release", "restoreProfile", "report"}

(* A record, an observation or a line of output of the recovery fails: it  *)
(* is noted, and the recovery goes on.                                     *)
RecoveryReportFails ==
    /\ Recovering
    /\ \/ LogFails(LogFailing(out))
       \/ out' = Failing(out) /\ loop' = Quit(loop) /\ UNCHANGED <<log, intents, tip>>
    /\ UNCHANGED <<stage, option, noted, timers, power, fd, lights, sleep, ended, late>>

TeardownDevice == RestoreDevice("restore")

BacklightsDone ==
    /\ At("restore") /\ todo = {}
    /\ stage' = "release"
    /\ UNCHANGED <<log, intents, tip, out, loop, option, noted, timers, power, fd,
                   lights, sleep, ended, late>>

(* release_inhibitor_fds closes a descriptor once, whatever comes of it.   *)
ReleaseInhibitor ==
    /\ At("release")
    /\ stage' = "restoreProfile"
    /\ \/ fd' = (IF fd = "held" THEN "closed" ELSE fd) /\ UNCHANGED out
       \/ fd = "held" /\ fd' = "doubtful"
          /\ out' = [out EXCEPT !.exit = 1, !.goal = FALSE]
    /\ UNCHANGED <<log, intents, tip, loop, option, noted, timers, power, lights,
                   sleep, ended, late>>

RestoreProfile ==
    /\ At("restoreProfile")
    /\ stage' = "report"
    /\ \/ (retained \/ ~owed) /\ UNCHANGED <<profile, owed, out>>
       \/ owed /\ ~retained /\ profile' = "original" /\ owed' = FALSE /\ UNCHANGED out
       \/ owed /\ ~retained /\ profile' \in {profile, "original"} /\ UNCHANGED owed
          /\ out' = [out EXCEPT !.exit = 1, !.goal = FALSE]
    /\ UNCHANGED <<log, intents, tip, loop, option, noted, timers, retained, fd,
                   lights, sleep, ended, late>>

(* print_shutdown_narrative: stop the observers, close the history, show   *)
(* the outcome.                                                            *)
Report ==
    /\ At("report")
    /\ stage' = "end"
    /\ out' = [out EXCEPT !.goal = @ /\ out.exit = 0]
    /\ UNCHANGED <<log, intents, tip, loop, option, noted, timers, power, fd,
                   lights, sleep, ended, late>>

(* finish_running_log: the last record, then the file is closed.           *)
EndSession ==
    /\ At("end")
    /\ stage' = "close"
    /\ \/ log = "open" /\ ended' = {[exit |-> out.exit, goal |-> out.goal]}
          /\ UNCHANGED <<log, intents, tip, out, loop>>
       \/ Skipped /\ UNCHANGED ended
       \/ LogFails(LogFailing(out)) /\ UNCHANGED ended
    /\ UNCHANGED <<option, noted, timers, power, fd, lights, sleep, late>>

(* Defect: the history is closed after the last record, so that its        *)
(* failure changes the exit status and no record says so.                  *)
CloseLogAfterHistory ==
    /\ At("close")
    /\ stage' = "done"
    /\ log' = IF log = "open" THEN "closed" ELSE log
    /\ out' \in {out, Failing(out)}
    /\ UNCHANGED <<intents, tip, loop, option, noted, timers, power, fd, lights,
                   sleep, ended, late>>

CloseLog ==
    /\ At("close")
    /\ stage' = "done"
    /\ \/ log' = (IF log = "open" THEN "closed" ELSE log) /\ UNCHANGED <<out, loop>>
       \/ log' = "failed" /\ out' = LogFailing(out) /\ loop' = Quit(loop)
    /\ UNCHANGED <<intents, tip, option, noted, timers, power, fd, lights, sleep,
                   ended, late>>

Finally ==
    \/ RecordSignal \/ Teardown \/ TeardownDevice \/ BacklightsDone
    \/ ReleaseInhibitor \/ RestoreProfile \/ Report \/ EndSession \/ CloseLog

-----------------------------------------------------------------------------
(* request_signal_shutdown: SIGINT, SIGTERM or SIGHUP, at any time.        *)

SignalArrives ==
    /\ ~tip /\ stage # "done"
    /\ signal' = TRUE
    /\ source' = (loop # "none")
    /\ UNCHANGED <<option, control, timers, power, fd, lights, sleep, ended, late>>

MainThread == Setup \/ Callback \/ Finally

Next ==
    \/ MainThread \/ Dispatch \/ QuitForSignal \/ SignalArrives
    \/ RecoveryReportFails

(* The thread runs; GLib gets to a ready source, and out of a loop that    *)
(* was told to quit, between the callbacks of its periodic timers.         *)
Fairness ==
    /\ WF_vars(MainThread)
    /\ SF_vars(QuitForSignal)
    /\ SF_vars(LoopReturns)

Spec == Init /\ [][Next]_vars /\ Fairness

-----------------------------------------------------------------------------
Stages ==
    {"plan", "battery", "connect", "validate", "backlight", "profileRead",
     "profileIntent", "profileCheck", "profileSet", "profileInfo", "retain",
     "inhibit", "inhibitCheck", "inhibitCall", "inhibitInfo", "listen",
     "lidState", "makeLoop", "schedule", "enter", "ready", "run", "loop",
     "exited", "closed", "arm", "opened", "cycle", "dark", "darkCheck",
     "darkSet", "darkVerify", "undo", "expired", "capability", "sleepIntent",
     "sleepCheck", "sleepCall", "slept", "record", "teardown", "restore",
     "release", "restoreProfile", "report", "end", "close", "done"}

Outcomes ==
    [exit : {0, 1}, goal : BOOLEAN, stop : BOOLEAN,
     reason : {"unknown", "failure", "log", "fatal", "signal", "lid", "timeout",
               "done"}]

(* Every variable has a value of its kind.                                 *)
TypeOK ==
    /\ mode \in Modes /\ timed \in BOOLEAN /\ ignoreLid \in BOOLEAN
    /\ stage \in Stages /\ log \in {"open", "failed", "closed"}
    /\ intents \subseteq Announcements /\ tip \in BOOLEAN /\ out \in Outcomes
    /\ loop \in {"none", "made", "running", "quit", "over"}
    /\ signal \in BOOLEAN /\ source \in BOOLEAN
    /\ lightTimer \in BOOLEAN /\ sleepTimer \in BOOLEAN
    /\ lid \in {"unseen", "closed", "open"}
    /\ profile \in {"original", "target"} /\ owed \in BOOLEAN /\ retained \in BOOLEAN
    /\ fd \in {"none", "held", "closed", "doubtful"}
    /\ dark \subseteq Devices /\ changed \subseteq Devices /\ todo \subseteq Devices
    /\ asked \in BOOLEAN /\ accepted \in BOOLEAN /\ flushed \in BOOLEAN
    /\ ended \subseteq [exit : {0, 1}, goal : BOOLEAN]
    /\ late \in Nat

(* "Every safety-relevant host mutation requires a synchronized intent     *)
(* record before the mutation": wherever the program is killed, the log    *)
(* announces each change the host may show.                                *)
IntentBeforeMutation ==
    /\ profile = "target" => "setProfile" \in intents
    /\ fd # "none" => "inhibit" \in intents
    /\ \A d \in dark : d \in intents
    /\ asked => "sleep" \in intents

(* The program never loses track of what it must undo, even when a call    *)
(* failed after it took effect (save_and_set_power_profile and             *)
(* _on_backlight_power_down mark the obligation before they call).         *)
EveryChangeIsOwed ==
    /\ profile = "target" => owed \/ retained
    /\ dark \subseteq changed

(* Every handled exit undoes each temporary change and closes the          *)
(* inhibitor, or ends with a nonzero status.                               *)
RestoredOrReported ==
    stage = "done" =>
      \/ out.exit = 1
      \/ (profile = "original" \/ retained) /\ dark = {} /\ fd \in {"none", "closed"}

(* "Setup stops at the next safe boundary": once a signal is noted, at     *)
(* most the one host change already past its check still starts.           *)
OneLateMutation == late <= 1

(* No sleep request leaves before the history of the session is flushed.   *)
FlushedBeforeSleep == asked => flushed

(* The session_end record tells the exit status the process returns, and   *)
(* claims success only with status 0 and for a reason that occurred.  The  *)
(* code counts a signal as such a reason in every mode; that it should not *)
(* for a one-shot sleep is what SuccessAfterAcceptance says.               *)
HonestOutcome ==
    stage = "done" /\ log = "closed" =>
      \E e \in ended :
        /\ ended = {e} /\ e.exit = out.exit
        /\ e.goal => e.exit = 0 /\ (signal \/ accepted \/ retained \/ "cycle" \in intents)

(* "Mission success is recorded only after logind accepts the requested    *)
(* action": a suspend or hibernate told to stop before it asked has not    *)
(* reached its goal (record_signal_shutdown says it has).                  *)
SuccessAfterAcceptance ==
    mode = "sleep" => \A e \in ended : e.goal => accepted

(* A signal or a recorded failure ends the session, wherever it falls:     *)
(* before the loop starts, in it, in a callback, after another quit.       *)
StopEnds == signal \/ out.stop \/ tip ~> stage = "done"

-----------------------------------------------------------------------------
(* What the host shows of the run's changes, each by the name of its       *)
(* intent, and what the run holds itself bound to undo.                    *)
Changes == {"setProfile", "inhibit"} \cup Devices

Taken == IF fd \in {"held", "doubtful"} THEN {"inhibit"} ELSE {}

Shown == (IF profile = "target" THEN {"setProfile"} ELSE {}) \cup Taken \cup dark

Owed == (IF owed THEN {"setProfile"} ELSE {}) \cup Taken \cup changed

Kept == IF retained THEN {"setProfile"} ELSE {}

Phase ==
    IF stage = "done" THEN "over"
    ELSE IF stage \in {"restore", "release", "restoreProfile", "report", "end", "close"}
         THEN "recovering" ELSE "working"

Obligations == INSTANCE HostObligations WITH
    Things <- Changes, Handles <- {"inhibit"}, phase <- Phase,
    announced <- intents \cap Changes, promised <- Owed, host <- Shown,
    kept <- Kept, blamed <- out.exit = 1

(* Through all modes, callbacks, failures and signals the program keeps to *)
(* the obligations: it announces a change before it binds itself to undo   *)
(* it, binds itself before it makes the change, undoes nothing but that,   *)
(* makes none once the recovery began, and does not end in silence with a  *)
(* change in place (_append_running_log, power_profile_changed,            *)
(* device.changed, teardown).                                              *)
ImplementsObligations == Obligations!Spec
=============================================================================
