----------------------------- MODULE RedrawCheck -----------------------------
(***************************************************************************)
(* The home screen redraw check (redrawcheck.cpp): the background watch,    *)
(* which looks at lipstick every few seconds and raises a suspicion when it *)
(* keeps drawing untouched, and the guided run (an idle measurement or the  *)
(* trigger test), a second-by-second state machine on another timer.  Both  *)
(* read the same lipstick, which may be touched and may restart between any *)
(* two reads, and while the GUI thread waits for the display's state.  Rates are abstracted to their class against the thresholds;  *)
(* the observed notification and screenshot events are left out.            *)
(***************************************************************************)
EXTENDS Integers, Sequences

CONSTANTS
  HotWindows,   \* kHotWindows, 6 in the code
  MeasureSec,   \* kMeasureSec, 30
  TestSec,      \* kTestSec, 20
  SettleSec,    \* kSettleSec, 15
  WaitSec,      \* the 60 s a run waits for the app to leave the front
  OutOfSight,   \* the 3 s the app must have been out of sight
  MaxLipsticks, \* bound: lipsticks that are ever started
  MaxTouches    \* bound: touches one lipstick gets

ASSUME RedrawAssumption ==
  /\ HotWindows \in Nat \ {0} /\ MeasureSec \in Nat \ {0} /\ TestSec \in Nat \ {0}
  /\ SettleSec \in Nat \ {0} /\ OutOfSight \in Nat \ {0}
  /\ WaitSec \in Nat /\ WaitSec > OutOfSight
  /\ MaxLipsticks \in Nat /\ MaxTouches \in Nat

VARIABLES
  lip,         \* the lipstick that runs, or 0 (external)
  lipsticks,   \* how many have been started (external)
  touches,     \* what the touch thread of the running one has counted (external)
  display,     \* what MCE says of the display: on or off (external)
  shown,       \* test notifications on the screen whose id was returned (external)
  foreground,  \* m_foreground
  lipstick,    \* m_lipstick with m_lipStart: which lipstick is looked at, or 0
  watching,    \* m_watching, and with it m_watchTimer
  wPrev,       \* m_wPrevMs, m_wPrevTouch: the last look, NoLook for m_wPrevMs = 0
  hotWindows,  \* m_hotWindows, counted up to HotWindows
  hotSince,    \* m_hotSince
  rebased,     \* history: a baseline was taken anew since the onset
  since,       \* m_watch["since"]
  suspect,     \* m_suspect
  mode,        \* m_mode
  phase,       \* m_phase, "-" while no run is on; "-" is the empty string
  runTimer,    \* m_runTimer is active
  left,        \* m_left
  waitFg,      \* m_waitFg
  settle,      \* m_settle
  invalid,     \* m_invalid is not empty
  t0,          \* m_t0: the look a window began with
  prevTouch,   \* m_prevTouchSec
  asking,      \* runTick() waits in displayOn()'s blocking call
  checked,     \* history: the look a window was last checked with
  measurement, \* m_measurement's result: none, or one
  steps,       \* m_steps, and with it m_trigger["steps"]
  outcome,     \* m_trigger["outcome"]
  message,     \* which of m_measurement and m_trigger hold a "message"
  testIds      \* m_testIds

world == <<lip, lipsticks, touches, display>>
watchVars == <<watching, wPrev, hotWindows, hotSince, rebased, since, suspect>>
openWindow == <<invalid, t0, prevTouch, checked>>
windowVars == <<left, settle, asking, openWindow>>
resultVars == <<measurement, steps, outcome, message>>
runVars == <<mode, phase, runTimer, waitFg, windowVars, resultVars, testIds, shown>>
vars == <<world, foreground, lipstick, watchVars, runVars>>

\* A look stands for a point in time: which lipstick it saw and that one's
\* touch count.  The code keeps the count; the rest is history.
Look == [lip : Nat, touches : Nat]
NoLook == [lip |-> 0, touches |-> 0]
Now == [lip |-> lip, touches |-> touches]

Phases == {"-", "wait", "baseline", "plain", "actions", "measure"}
Verdicts == {"quiet", "stuck", "other"}
\* touched is history: the lipstick the window began with had more touches when
\* the window was last checked.
Result == [step : Phases, valid : BOOLEAN, verdict : Verdicts, touched : BOOLEAN]

busy == phase # "-"

Init ==
  /\ lip \in {0, 1} /\ lipsticks = lip /\ touches = 0 /\ display = TRUE
  /\ shown = {}
  /\ foreground = TRUE
  /\ lipstick = lip
  /\ watching = TRUE
  /\ wPrev = NoLook /\ hotWindows = 0 /\ hotSince = NoLook /\ since = NoLook
  /\ rebased = FALSE /\ suspect = FALSE
  /\ mode = "-" /\ phase = "-" /\ runTimer = FALSE
  /\ left = 0 /\ waitFg = 0 /\ settle = 0
  /\ invalid = FALSE /\ t0 = NoLook /\ prevTouch = 0 /\ checked = NoLook
  /\ asking = FALSE
  /\ measurement = {} /\ steps = <<>> /\ outcome = "-" /\ message = {}
  /\ testIds = {}

------------------------------------------------------------------------------
(* The world: lipstick and the user *)

LipstickExits ==
  /\ lip # 0
  /\ lip' = 0 /\ touches' = 0
  /\ UNCHANGED <<lipsticks, display, foreground, lipstick, watchVars, runVars>>

LipstickStarts ==
  /\ lip = 0
  /\ lipsticks < MaxLipsticks
  /\ lipsticks' = lipsticks + 1
  /\ lip' = lipsticks + 1
  /\ UNCHANGED <<touches, display, foreground, lipstick, watchVars, runVars>>

Touch ==
  /\ lip # 0
  /\ touches < MaxTouches
  /\ touches' = touches + 1
  /\ UNCHANGED <<lip, lipsticks, display, foreground, lipstick, watchVars, runVars>>

DisplaySwitches ==
  /\ display' = ~display
  /\ UNCHANGED <<lip, lipsticks, touches, foreground, lipstick, watchVars, runVars>>

SetForeground ==
  /\ foreground' = ~foreground
  /\ UNCHANGED <<world, lipstick, watchVars, runVars>>

------------------------------------------------------------------------------
(* The watch *)

\* findLipstick(): the one looked at while it lives, else the one that runs.
FindLipstick == lipstick' = lip

\* What setWatching() does to the watch's state.
SetWatchingTo(on) ==
  /\ watching' = on
  /\ suspect' = (on /\ suspect)
  /\ hotWindows' = IF on THEN hotWindows ELSE 0

SetWatching ==
  /\ SetWatchingTo(~watching)
  /\ UNCHANGED <<world, foreground, lipstick, wPrev, hotSince, rebased, since, runVars>>

\* Nothing to judge now.  A suspicion stays.
WatchPauses ==
  /\ lip = 0 \/ busy \/ foreground \/ ~display
  /\ wPrev' = NoLook
  /\ hotWindows' = 0
  /\ UNCHANGED <<hotSince, rebased, since, suspect>>

\* The first look, or a render thread that counts less than at the last one:
\* another lipstick's, or one that this lipstick has made anew, which it may at
\* any time.  The hot windows counted so far stay.
WatchBegins ==
  /\ wPrev' = Now
  /\ rebased' = TRUE
  /\ UNCHANGED <<hotWindows, hotSince, since, suspect>>

\* A slip: a window in which the screen was touched counts as well.
HotTouchedToo(wake, touched) == wake = "hot"

\* The window is one more of drawing without touch.
Hot(wake, touched) == wake = "hot" /\ ~touched

WatchJudges ==
  \E wake \in {"quiet", "cool", "warm", "hot"} :
    LET hot    == Hot(wake, touches # wPrev.touches)
        onset  == IF hotWindows = 0 THEN wPrev ELSE hotSince
        raised == hot /\ hotWindows + 1 >= HotWindows /\ ~suspect
    IN  /\ wPrev # NoLook
        /\ hotWindows' = IF ~hot THEN 0
                         ELSE IF hotWindows < HotWindows THEN hotWindows + 1
                         ELSE hotWindows
        /\ hotSince' = IF hot THEN onset ELSE hotSince
        /\ rebased' = (hotWindows > 0 /\ rebased)
        /\ since' = IF raised THEN onset ELSE since
        /\ suspect' = (raised \/ (suspect /\ wake \in {"warm", "hot"}))
        /\ wPrev' = Now

WatchTick ==
  /\ watching
  /\ FindLipstick
  /\ \/ WatchPauses
     \/ /\ lip # 0 /\ ~busy /\ ~foreground /\ display
        /\ WatchBegins \/ WatchJudges
  /\ UNCHANGED <<world, foreground, watching, runVars>>

------------------------------------------------------------------------------
(* The guided run *)

\* startMeasurement() and startTriggerTest(): the buttons are on a page of this
\* app and hidden while a run is on.  Each run clears its own earlier result.
StartRun(m) ==
  /\ ~busy
  /\ foreground
  /\ mode' = m
  /\ phase' = "wait"
  /\ runTimer' = TRUE
  /\ left' = WaitSec
  /\ waitFg' = 0
  /\ message' = message \ {m}
  /\ UNCHANGED <<world, foreground, lipstick, watchVars, settle, asking,
                 openWindow, testIds, shown>>

StartMeasurement ==
  /\ StartRun("measure")
  /\ measurement' = {}
  /\ UNCHANGED <<steps, outcome>>

StartTriggerTest ==
  /\ StartRun("trigger")
  /\ steps' = <<>>
  /\ outcome' = "-"
  /\ UNCHANGED measurement

\* beginWindow()
BeginWindow(seconds) ==
  /\ FindLipstick
  /\ t0' = Now
  /\ prevTouch' = touches
  /\ checked' = Now
  /\ invalid' = FALSE
  /\ settle' = 0
  /\ left' = seconds

\* A slip: an end that leaves the test notifications where they are.
CloseNothing == UNCHANGED <<testIds, shown>>

\* closeTestNotifications(): only a known id can be closed.
CloseTestNotifications ==
  /\ testIds' = {}
  /\ shown' = shown \ testIds

\* A slip: an early end that leaves the timer running.
FinishRunUntimed(verdict) ==
  /\ CloseTestNotifications
  /\ message' = IF verdict THEN message \cup {mode} ELSE message
  /\ phase' = "-" /\ settle' = 0 /\ left' = 0
  /\ wPrev' = NoLook /\ hotWindows' = 0
  /\ UNCHANGED <<runTimer, watching, hotSince, rebased, since, suspect>>

\* finishRun(); verdict says whether there is a text to show.
FinishRun(verdict) ==
  /\ runTimer' = FALSE
  /\ CloseTestNotifications
  /\ message' = IF verdict THEN message \cup {mode} ELSE message
  /\ phase' = "-"
  /\ settle' = 0
  /\ left' = 0
  /\ wPrev' = NoLook
  /\ hotWindows' = 0
  /\ UNCHANGED <<watching, hotSince, rebased, since, suspect>>

\* cancel(): the button is on the page, which is in front then.
Cancel ==
  /\ busy
  /\ foreground
  /\ FinishRun(TRUE)
  /\ UNCHANGED <<world, foreground, lipstick, mode, waitFg, asking, openWindow,
                 measurement, steps, outcome>>

\* A slip: a wait that stands still while the app is in front.
WaitLeftWhileAway == IF foreground THEN left ELSE left - 1

\* The seconds left of the wait.
WaitLeft == left - 1

\* A second of waiting for the app to leave the front.
WaitSecond ==
  /\ waitFg' = IF foreground THEN 0 ELSE waitFg + 1
  /\ UNCHANGED <<asking, measurement, steps, outcome>>
  /\ IF WaitLeft <= 0 THEN FinishRun(TRUE) /\ UNCHANGED <<lipstick, openWindow>>
     ELSE /\ UNCHANGED <<runTimer, message, testIds, shown, watchVars>>
          /\ IF waitFg' < OutOfSight
               THEN /\ left' = WaitLeft
                    /\ UNCHANGED <<phase, lipstick, settle, openWindow>>
             ELSE IF mode = "measure"
               THEN phase' = "measure" /\ BeginWindow(MeasureSec)
               ELSE phase' = "baseline" /\ BeginWindow(TestSec)

\* A second of leaving lipstick alone after a test notification.
SettleSecond ==
  /\ IF settle = 1
       THEN BeginWindow(TestSec)
       ELSE /\ settle' = settle - 1
            /\ left' = settle - 1
            /\ UNCHANGED <<lipstick, openWindow>>
  /\ UNCHANGED <<asking, phase, runTimer, waitFg, resultVars, testIds, shown, watchVars>>

\* What /proc says of the lipstick looked at: nothing when it has gone.
TouchesRead == IF lipstick = lip THEN touches ELSE 0

\* A slip: only a window's last second is compared with the one before.
AgainstAtEnd == invalid \/ (left = 1 /\ TouchesRead # prevTouch) \/ foreground

\* What a second finds against its window before it asks for the display.
Against == invalid \/ TouchesRead # prevTouch \/ foreground

\* The rest of a window's second that is not its last.
WindowSecond(against) ==
  /\ left > 1
  /\ left' = left - 1
  /\ invalid' = against
  /\ UNCHANGED <<lipstick, settle, phase, runTimer, resultVars, testIds, shown,
                 watchVars>>

\* finishWindow() after the last second: threads that are not in both looks
\* count nothing, so another lipstick comes out quiet.  The rates, the share
\* of hot seconds and the classification decide between the three verdicts.
WindowResult(against, verdict) ==
  [step |-> phase, valid |-> ~(against \/ lipstick # lip), verdict |-> verdict,
   touched |-> t0.lip = checked'.lip /\ t0.touches # checked'.touches]

Measurable == lip # 0 /\ t0.lip = lip

\* sendTestNotification(): shown and its id returned, or no reply, in which
\* case 0 stands for an id that nothing can close.
SendTestNotification(n) ==
  \/ shown' = shown \cup {n} /\ testIds' = testIds \cup {n}
  \/ UNCHANGED <<shown, testIds>>

Settle(next) ==
  /\ phase' = next
  /\ SendTestNotification(next)
  /\ settle' = SettleSec
  /\ left' = SettleSec
  /\ UNCHANGED <<runTimer, message, watchVars>>

\* A slip: an invalid window goes on to the next step like a valid one.
UsableAnyway(result) == TRUE

Usable(result) == result.valid

\* advance() with the result of a window of the trigger test: each conclusion
\* is drawn from a valid window and ends the run, or leads to the next one.
AdvanceTrigger(result) ==
  /\ steps' = Append(steps, result)
  /\ UNCHANGED measurement
  /\ \/ ~Usable(result) /\ FinishRun(TRUE) /\ UNCHANGED outcome
     \/ /\ Usable(result)
        /\ \/ /\ phase = "baseline"
              /\ IF result.verdict = "quiet"
                   THEN Settle("plain") /\ UNCHANGED outcome
                   ELSE outcome' = "busy-before" /\ FinishRun(FALSE)
           \/ /\ phase = "plain"
              /\ IF result.verdict = "stuck"
                   THEN outcome' = "plain" /\ FinishRun(FALSE)
                   ELSE Settle("actions") /\ UNCHANGED outcome
           \/ /\ phase = "actions"
              /\ outcome' = IF result.verdict = "stuck" THEN "actions" ELSE "none"
              /\ FinishRun(FALSE)

\* The rest of a window's last second.
WindowEnds(against) ==
  /\ left <= 1
  /\ FindLipstick
  /\ invalid' = (against \/ lipstick # lip)
  /\ \E verdict \in IF Measurable THEN Verdicts ELSE {"quiet"} :
       IF mode = "measure"
         THEN /\ measurement' = {WindowResult(against, verdict)}
              /\ FinishRun(FALSE)
              /\ UNCHANGED <<steps, outcome>>
         ELSE AdvanceTrigger(WindowResult(against, verdict))

SecondOver(against) ==
  /\ WindowSecond(against) \/ WindowEnds(against)
  /\ UNCHANGED <<t0, waitFg>>

\* A second inside a window reads lipstick's threads.  With nothing against the
\* window it asks MCE for the display, and the GUI thread waits for the answer.
SecondReads ==
  /\ prevTouch' = TouchesRead
  /\ checked' = Now
  /\ \/ /\ ~Against
        /\ asking' = TRUE
        /\ UNCHANGED <<lipstick, invalid, t0, left, settle, phase, runTimer, waitFg,
                       resultVars, testIds, shown, watchVars>>
     \/ /\ Against
        /\ asking' = FALSE
        /\ SecondOver(TRUE)

\* MCE has answered, or the half second for it is over, which counts as lit.
SecondAnswered ==
  /\ asking' = FALSE
  /\ UNCHANGED <<prevTouch, checked>>
  /\ \E against \in {FALSE, ~display} : SecondOver(against)

\* runTick()
RunTick ==
  /\ runTimer
  /\ \/ asking /\ SecondAnswered
     \/ /\ ~asking
        /\ \/ phase = "wait" /\ WaitSecond
           \/ phase # "wait" /\ settle > 0 /\ SettleSecond
           \/ phase # "wait" /\ settle = 0 /\ SecondReads
  /\ UNCHANGED <<world, foreground, mode>>

Next ==
  \/ LipstickExits \/ LipstickStarts \/ Touch \/ DisplaySwitches
  \/ /\ ~asking
     /\ \/ SetForeground
        \/ SetWatching \/ WatchTick
        \/ StartMeasurement \/ StartTriggerTest \/ Cancel
  \/ RunTick

\* The one-second timer of a run keeps firing, and the call to MCE returns: it
\* is given up after half a second.
Spec == Init /\ [][Next]_vars /\ WF_vars(RunTick)
------------------------------------------------------------------------------
(* Properties *)

LookOK(look) == look \in Look /\ look.lip <= lipsticks

\* Every variable holds a value of its kind, and the run's variables fit its
\* phase: the timer runs exactly during a run, and as many windows have been
\* finished as the phase says.
TypeOK ==
  /\ lip \in 0 .. lipsticks /\ lipsticks \in Nat /\ touches \in Nat
  /\ display \in BOOLEAN /\ foreground \in BOOLEAN
  /\ shown \subseteq {"plain", "actions"}
  /\ lipstick \in 0 .. lipsticks
  /\ watching \in BOOLEAN /\ suspect \in BOOLEAN /\ hotWindows \in 0 .. HotWindows
  /\ LookOK(wPrev) /\ LookOK(hotSince) /\ LookOK(since)
  /\ LookOK(t0) /\ LookOK(checked) /\ rebased \in BOOLEAN /\ asking \in BOOLEAN
  /\ mode \in {"-", "measure", "trigger"} /\ phase \in Phases
  /\ runTimer \in BOOLEAN /\ left \in Nat /\ waitFg \in 0 .. WaitSec
  /\ settle \in 0 .. SettleSec /\ invalid \in BOOLEAN /\ prevTouch \in Nat
  /\ measurement \subseteq Result /\ steps \in Seq(Result)
  /\ outcome \in {"-", "busy-before", "plain", "actions", "none"}
  /\ message \subseteq {"measure", "trigger"}
  /\ testIds \subseteq {"plain", "actions"}
  /\ (runTimer <=> busy) /\ (left > 0 <=> busy)
  /\ settle > 0 => phase \in {"plain", "actions"} /\ left = settle
  /\ phase \in {"plain", "actions"} => outcome = "-" /\ mode = "trigger"
  /\ phase = "baseline" => steps = <<>> /\ outcome = "-" /\ mode = "trigger"
  /\ phase = "plain" => Len(steps) = 1
  /\ phase = "actions" => Len(steps) = 2
  /\ phase = "measure" => mode = "measure"

\* A suspicion is raised only by the watch, with no run on, the app out of
\* sight and the display lit, and not one touch lies between the onset it names
\* and now, unless lipstick has restarted or a render thread made anew has
\* started the comparison afresh since.
SuspicionEarned ==
  [][~suspect /\ suspect' =>
       /\ ~busy /\ ~foreground /\ display
       /\ since'.lip = lip /\ ~rebased' => since'.touches = touches]_vars

\* A window that counts as valid had no touch on its lipstick from its beginning
\* to its last check.  A touch while that check waits for the display's state
\* lies in the window, and no check sees it.
ValidUntouched ==
  \A r \in measurement \cup {steps[i] : i \in DOMAIN steps} : r.valid => ~r.touched

\* What the page concludes from a trigger test follows from its windows: each
\* conclusion from valid windows only, the counter-test before the test, and a
\* test that ended says either why it is invalid or what came out, not both.
VerdictEarned ==
  LET Step(i, name, verdicts) ==
        /\ i <= Len(steps)
        /\ steps[i].step = name /\ steps[i].valid /\ steps[i].verdict \in verdicts
  IN  /\ outcome = "busy-before" => Step(1, "baseline", {"stuck", "other"})
      /\ outcome = "plain" => /\ Step(1, "baseline", {"quiet"})
                              /\ Step(2, "plain", {"stuck"})
      /\ outcome \in {"actions", "none"} =>
           /\ Step(1, "baseline", {"quiet"})
           /\ Step(2, "plain", {"quiet", "other"})
           /\ Step(3, "actions", IF outcome = "actions" THEN {"stuck"}
                                                       ELSE {"quiet", "other"})
      /\ ~(outcome # "-" /\ "trigger" \in message)

\* A test notification whose id is known never outlives the run.
TestNotificationsClosed == ~busy => shown = {}

\* A run ends, whatever the user and lipstick do meanwhile.
RunEnds == busy ~> ~busy

\* The world: one lipstick at a time, the newest, and no touches without one.
WorldOK == /\ lip # 0 => lip = lipsticks
           /\ lip = 0 => touches = 0

\* While hot windows are counted the last look is no older than the onset, and
\* saw the same touches if it saw the same lipstick and no baseline was taken
\* between them.
OnsetOK ==
  hotWindows > 0 =>
    /\ hotSince.lip <= wPrev.lip
    /\ hotSince.lip = wPrev.lip /\ ~rebased => hotSince.touches = wPrev.touches

\* In a window not yet invalid the count read last is the one it began with, as
\* long as the lipstick it began with runs, and so is the one its last check
\* saw.  Only such a window asks for the display.
WindowOK ==
  /\ t0.lip = 0 => t0.touches = 0
  /\ checked.lip = 0 => checked.touches = 0
  /\ asking => phase \notin {"-", "wait"} /\ settle = 0 /\ ~invalid
  /\ phase \notin {"-", "wait"} /\ settle = 0 /\ ~invalid =>
       /\ lip # 0 /\ t0.lip = lip => lipstick = lip /\ prevTouch = t0.touches
       /\ t0.lip = checked.lip => t0.touches = checked.touches

\* A run under way has concluded nothing yet, and its windows have earned it
\* the phase it is in.
RunOK ==
  /\ phase = "wait" => waitFg < OutOfSight
  /\ busy => mode # "-"
  /\ busy /\ mode = "trigger" => outcome = "-" /\ "trigger" \notin message
  /\ phase = "wait" /\ mode = "trigger" => steps = <<>>
  /\ phase \in {"plain", "actions"} =>
       steps[1].step = "baseline" /\ steps[1].valid /\ steps[1].verdict = "quiet"
  /\ phase = "actions" =>
       steps[2].step = "plain" /\ steps[2].valid /\ steps[2].verdict # "stuck"
  /\ shown \subseteq testIds

\* What every step keeps.
IInv ==
  /\ TypeOK /\ ValidUntouched /\ VerdictEarned /\ TestNotificationsClosed
  /\ WorldOK /\ OnsetOK /\ WindowOK /\ RunOK
==============================================================================
