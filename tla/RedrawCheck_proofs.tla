-------------------------- MODULE RedrawCheck_proofs --------------------------
(***************************************************************************)
(* Proofs about RedrawCheck for any thresholds, durations and bounds that   *)
(* satisfy RedrawAssumption, and any number of lipsticks and touches.        *)
(***************************************************************************)
EXTENDS RedrawCheck, SequenceTheorems, TLAPS

\* IInv by whom it is about: the world, the watch, a window, the run.
WorldPart ==
  /\ lip \in 0 .. lipsticks /\ lipsticks \in Nat /\ touches \in Nat
  /\ display \in BOOLEAN /\ foreground \in BOOLEAN
  /\ lipstick \in 0 .. lipsticks
  /\ WorldOK

WatchPart ==
  /\ watching \in BOOLEAN /\ suspect \in BOOLEAN /\ hotWindows \in 0 .. HotWindows
  /\ LookOK(wPrev) /\ LookOK(hotSince) /\ LookOK(since) /\ rebased \in BOOLEAN
  /\ OnsetOK

WindowPart ==
  /\ LookOK(t0) /\ LookOK(checked) /\ prevTouch \in Nat /\ invalid \in BOOLEAN
  /\ asking \in BOOLEAN
  /\ WindowOK

\* The run's own types, and how its variables fit its phase.
RunTypes ==
  /\ shown \subseteq {"plain", "actions"} /\ testIds \subseteq {"plain", "actions"}
  /\ mode \in {"-", "measure", "trigger"} /\ phase \in Phases
  /\ runTimer \in BOOLEAN /\ left \in Nat /\ waitFg \in 0 .. WaitSec
  /\ settle \in 0 .. SettleSec
  /\ measurement \subseteq Result /\ steps \in Seq(Result)
  /\ outcome \in {"-", "busy-before", "plain", "actions", "none"}
  /\ message \subseteq {"measure", "trigger"}

PhaseFits ==
  /\ (runTimer <=> busy) /\ (left > 0 <=> busy)
  /\ settle > 0 => phase \in {"plain", "actions"} /\ left = settle
  /\ phase \in {"plain", "actions"} => outcome = "-" /\ mode = "trigger"
  /\ phase = "baseline" => steps = <<>> /\ outcome = "-" /\ mode = "trigger"
  /\ phase = "plain" => Len(steps) = 1
  /\ phase = "actions" => Len(steps) = 2
  /\ phase = "measure" => mode = "measure"

RunPart ==
  /\ RunTypes /\ PhaseFits /\ RunOK
  /\ ValidUntouched /\ VerdictEarned /\ TestNotificationsClosed

LEMMA Parts == IInv <=> WorldPart /\ WatchPart /\ WindowPart /\ RunPart
  BY DEF IInv, TypeOK, WorldPart, WatchPart, WindowPart, RunPart, RunTypes, PhaseFits

LEMMA PartsNext == IInv' <=> WorldPart' /\ WatchPart' /\ WindowPart' /\ RunPart'
  BY DEF IInv, TypeOK, WorldPart, WatchPart, WindowPart, RunPart, RunTypes, PhaseFits

LEMMA Constants ==
  /\ HotWindows \in Nat \ {0} /\ MeasureSec \in Nat \ {0} /\ TestSec \in Nat \ {0}
  /\ SettleSec \in Nat \ {0} /\ OutOfSight \in Nat \ {0}
  /\ WaitSec \in Nat /\ WaitSec > OutOfSight
  BY RedrawAssumption

LEMMA InitIInv == Init => IInv
<1> SUFFICES ASSUME Init PROVE IInv
  OBVIOUS
<1>1. /\ lip \in {0, 1} /\ lipsticks = lip /\ touches = 0 /\ lipstick = lip
      /\ display \in BOOLEAN /\ foreground \in BOOLEAN /\ watching \in BOOLEAN
      /\ suspect \in BOOLEAN /\ invalid \in BOOLEAN /\ hotWindows = 0 /\ prevTouch = 0
      /\ wPrev = NoLook /\ hotSince = NoLook /\ since = NoLook /\ t0 = NoLook
      /\ checked = NoLook /\ asking = FALSE /\ rebased = FALSE
  BY DEF Init
<1>2. /\ phase = "-" /\ runTimer = FALSE /\ mode = "-" /\ outcome = "-" /\ message = {}
      /\ shown = {} /\ testIds = {} /\ left = 0 /\ waitFg = 0 /\ settle = 0
      /\ measurement = {} /\ steps = <<>>
  BY DEF Init
<1> HIDE DEF Init
<1>3. steps \in Seq(Result) /\ Len(steps) = 0 /\ DOMAIN steps = {}
  <2>1. steps \in Seq(Result) /\ Len(steps) = 0
    BY <1>2, EmptySeq
  <2>2. DOMAIN steps = 1 .. Len(steps)
    BY <2>1, LenProperties
  <2> QED BY <2>1, <2>2
<1>4. WorldPart
  BY <1>1 DEF WorldPart, WorldOK
<1>5. LookOK(NoLook) /\ NoLook.lip = 0 /\ NoLook.touches = 0
  BY <1>1 DEF LookOK, Look, NoLook
<1>6. WatchPart
  <2>1. OnsetOK /\ hotWindows \in 0 .. HotWindows
    BY <1>1, Constants DEF OnsetOK
  <2>2. LookOK(wPrev) /\ LookOK(hotSince) /\ LookOK(since)
    BY <1>1, <1>5
  <2> QED BY <1>1, <2>1, <2>2 DEF WatchPart
<1>7. WindowPart
  BY <1>1, <1>2, <1>5 DEF WindowPart, WindowOK
<1>8. RunTypes
  <2>1. waitFg \in 0 .. WaitSec /\ settle \in 0 .. SettleSec /\ left \in Nat
    BY <1>2, Constants
  <2> QED BY <1>2, <1>3, <2>1 DEF RunTypes, Phases
<1>9. PhaseFits /\ RunOK
  <2>1. PhaseFits
    BY <1>2 DEF PhaseFits, busy
  <2>2. RunOK
    BY <1>2 DEF RunOK, busy
  <2> QED BY <2>1, <2>2
<1>10. ValidUntouched /\ VerdictEarned /\ TestNotificationsClosed
  BY <1>2, <1>3 DEF ValidUntouched, VerdictEarned, TestNotificationsClosed
<1> QED BY <1>4, <1>6, <1>7, <1>8, <1>9, <1>10, Parts DEF RunPart

(* What an action leaves alone keeps its part. *)

LEMMA RunKept == ASSUME RunPart, UNCHANGED runVars PROVE RunPart'
<1>1. UNCHANGED <<mode, phase, runTimer, waitFg, left, settle, measurement, steps,
                  outcome, message, testIds, shown>>
  BY DEF runVars, windowVars, resultVars
<1> QED BY <1>1 DEF RunPart, RunTypes, PhaseFits, RunOK, ValidUntouched, VerdictEarned,
                    TestNotificationsClosed, busy

LEMMA WatchKept ==
  ASSUME WatchPart, UNCHANGED watchVars, lipsticks \in Nat, lipsticks' \in Nat,
         lipsticks <= lipsticks'
  PROVE  WatchPart'
<1>1. UNCHANGED <<watching, wPrev, hotWindows, hotSince, rebased, since, suspect>>
  BY DEF watchVars
<1> QED BY <1>1 DEF WatchPart, OnsetOK, LookOK, Look

\* A window goes on as it is when lipstick does, or has gone, or another one
\* comes; looking for it again finds the one that runs.
LEMMA WindowKept ==
  ASSUME WindowPart, WorldPart,
         UNCHANGED <<phase, settle, invalid, t0, prevTouch, checked, asking>>,
         lipsticks' \in Nat, lipsticks <= lipsticks',
         \/ lip' = lip /\ lipstick' \in {lipstick, lip}
         \/ lip' = 0
         \/ lip' > lipsticks
  PROVE  WindowPart'
<1>1. LookOK(t0)' /\ t0' = t0 /\ LookOK(checked)' /\ checked' = checked
  BY DEF WindowPart, WorldPart, LookOK, Look
<1>2. ASSUME phase \notin {"-", "wait"}, settle = 0, ~invalid, lip' # 0, t0.lip = lip'
      PROVE  lipstick' = lip' /\ prevTouch = t0.touches
  <2>1. t0.lip <= lipsticks /\ t0.lip \in Nat /\ lipsticks \in Nat
    BY DEF WindowPart, WorldPart, LookOK, Look
  <2>2. lip' \in Nat /\ ~(lip' > lipsticks)
    BY <1>2, <2>1
  <2>3. lip' = lip /\ lipstick' \in {lipstick, lip}
    BY <1>2, <2>2
  <2> QED BY <1>2, <2>3 DEF WindowPart, WindowOK
<1> QED BY <1>1, <1>2 DEF WindowPart, WindowOK

LEMMA NowIsLook ==
  ASSUME WorldPart
  PROVE  /\ LookOK(Now) /\ Now.lip = lip /\ Now.touches = touches
         /\ lip = 0 => touches = 0
  BY DEF WorldPart, WorldOK, LookOK, Look, Now

\* No window is open after a run ended, while one waits, or while lipstick is
\* left alone after a notification.
LEMMA NoWindow ==
  ASSUME WindowPart, WorldPart, lipsticks' = lipsticks,
         UNCHANGED t0, checked' \in {checked, Now}, asking' = FALSE,
         prevTouch' \in Nat, invalid' \in BOOLEAN,
         phase' \in {"-", "wait"} \/ settle' # 0
  PROVE  WindowPart'
<1>1. LookOK(t0)' /\ LookOK(checked)' /\ (checked'.lip = 0 => checked'.touches = 0)
  BY NowIsLook DEF WindowPart, WindowOK, LookOK
<1> QED BY <1>1 DEF WindowPart, WindowOK

LEMMA WindowBegun ==
  ASSUME WorldPart, NEW seconds, BeginWindow(seconds), asking' = FALSE,
         UNCHANGED <<world, foreground>>
  PROVE  WindowPart' /\ WorldPart' /\ settle' = 0 /\ left' = seconds
<1>1. /\ lipstick' = lip /\ t0' = Now /\ checked' = Now
      /\ prevTouch' = touches /\ invalid' = FALSE /\ settle' = 0 /\ left' = seconds
      /\ lip' = lip /\ lipsticks' = lipsticks /\ touches' = touches
      /\ display' = display /\ foreground' = foreground
  BY DEF BeginWindow, FindLipstick, world
<1>2. WindowPart'
  <2>1. /\ LookOK(t0)' /\ t0'.lip = lip /\ t0'.touches = touches
        /\ LookOK(checked)' /\ lip = 0 => touches = 0
    BY <1>1, NowIsLook DEF LookOK
  <2>2. touches \in Nat
    BY DEF WorldPart
  <2> QED BY <1>1, <2>1, <2>2 DEF WindowPart, WindowOK
<1> QED BY <1>1, <1>2 DEF WorldPart, WorldOK

(* The world and the watch. *)

LEMMA WorldStep ==
  ASSUME IInv,
         LipstickExits \/ LipstickStarts \/ Touch \/ DisplaySwitches \/ SetForeground
  PROVE  IInv'
<1>1. WorldPart /\ WatchPart /\ WindowPart /\ RunPart
  BY Parts
<1>2. /\ UNCHANGED <<lipstick, watchVars, runVars>>
      /\ lipsticks' \in Nat /\ lipsticks <= lipsticks'
      /\ WorldPart'
      /\ lip' = lip \/ lip' = 0 \/ lip' > lipsticks
  <2>1. CASE LipstickExits
    BY <1>1, <2>1 DEF LipstickExits, WorldPart, WorldOK
  <2>2. CASE LipstickStarts
    BY <1>1, <2>2 DEF LipstickStarts, WorldPart, WorldOK
  <2>3. CASE Touch
    BY <1>1, <2>3 DEF Touch, WorldPart, WorldOK
  <2>4. CASE DisplaySwitches
    BY <1>1, <2>4 DEF DisplaySwitches, WorldPart, WorldOK
  <2>5. CASE SetForeground
    BY <1>1, <2>5 DEF SetForeground, WorldPart, WorldOK, world
  <2> QED BY <2>1, <2>2, <2>3, <2>4, <2>5
<1>3. WindowPart'
  BY <1>1, <1>2, WindowKept DEF runVars, windowVars, openWindow
<1>4. WatchPart'
  BY <1>1, <1>2, WatchKept DEF WorldPart
<1>5. RunPart'
  BY <1>1, <1>2, RunKept
<1> QED BY <1>2, <1>3, <1>4, <1>5, PartsNext

LEMMA SetWatchingStep == ASSUME IInv, SetWatching PROVE IInv'
<1>1. WorldPart /\ WatchPart /\ WindowPart /\ RunPart
  BY Parts
<1>2. /\ UNCHANGED <<world, foreground, lipstick, runVars>>
      /\ UNCHANGED <<wPrev, hotSince, rebased, since>>
      /\ watching' \in BOOLEAN /\ suspect' \in BOOLEAN
      /\ hotWindows' = hotWindows \/ hotWindows' = 0
  BY <1>1 DEF SetWatching, SetWatchingTo, WatchPart
<1>3. WorldPart'
  BY <1>1, <1>2 DEF WorldPart, WorldOK, world
<1>4. WindowPart'
  BY <1>1, <1>2, WindowKept DEF runVars, windowVars, openWindow, world, WorldPart
<1>5. WatchPart'
  BY <1>1, <1>2, Constants DEF WatchPart, OnsetOK, LookOK, Look, world
<1>6. RunPart'
  BY <1>1, <1>2, RunKept
<1> QED BY <1>3, <1>4, <1>5, <1>6, PartsNext

\* What a judged window leaves of the watch.
LEMMA Judged ==
  ASSUME WorldPart, WatchPart, WatchJudges, lip # 0, UNCHANGED <<watching, lipsticks>>
  PROVE  WatchPart'
<1>1. PICK wake \in {"quiet", "cool", "warm", "hot"} :
        LET hot    == Hot(wake, touches # wPrev.touches)
            onset  == IF hotWindows = 0 THEN wPrev ELSE hotSince
            raised == hot /\ hotWindows + 1 >= HotWindows /\ ~suspect
        IN  /\ wPrev # NoLook
            /\ hotWindows' = IF ~hot THEN 0
                             ELSE IF hotWindows < HotWindows THEN hotWindows + 1
                             ELSE hotWindows
            /\ hotSince' = IF hot THEN onset ELSE hotSince
            /\ rebased' = (hotWindows > 0 /\ rebased)
            /\ since' = IF raised THEN onset ELSE since
            /\ suspect' = (raised \/ (suspect /\ wake \in {"warm", "hot"}))
            /\ wPrev' = Now
  BY DEF WatchJudges
<1> DEFINE hot == Hot(wake, touches # wPrev.touches)
           onset == IF hotWindows = 0 THEN wPrev ELSE hotSince
<1>2. /\ hotWindows' = IF ~hot THEN 0
                       ELSE IF hotWindows < HotWindows THEN hotWindows + 1
                       ELSE hotWindows
      /\ hotSince' = IF hot THEN onset ELSE hotSince
      /\ rebased' = (hotWindows > 0 /\ rebased)
      /\ since' \in {since, onset}
      /\ suspect' \in BOOLEAN
      /\ wPrev' = Now
  BY <1>1 DEF Hot
<1>3. /\ lip \in Nat /\ lip = lipsticks /\ touches \in Nat /\ lipsticks \in Nat
      /\ Now.lip = lip /\ Now.touches = touches /\ Now \in Look
  BY DEF WorldPart, WorldOK, Now, Look
<1>4. /\ LookOK(wPrev) /\ LookOK(hotSince) /\ LookOK(since) /\ LookOK(onset)
      /\ LookOK(Now) /\ hotWindows \in 0 .. HotWindows
  BY <1>3 DEF WatchPart, LookOK
<1>5. ASSUME hot
      PROVE  /\ onset.lip <= lip
             /\ onset.lip = lip /\ ~rebased' => onset.touches = touches
  <2>1. wPrev.touches = touches
    BY <1>5 DEF Hot
  <2>2. wPrev.lip \in Nat /\ wPrev.lip <= lip /\ hotSince.lip \in Nat
    BY <1>3, <1>4 DEF LookOK, Look
  <2>3. CASE hotWindows = 0
    BY <2>1, <2>2, <2>3
  <2>4. CASE hotWindows # 0
    <3>1. /\ hotSince.lip <= wPrev.lip /\ rebased' = rebased
          /\ hotSince.lip = wPrev.lip /\ ~rebased => hotSince.touches = wPrev.touches
      BY <1>2, <1>4, <2>4 DEF WatchPart, OnsetOK
    <3>2. onset = hotSince /\ lip \in Nat
      BY <1>3, <2>4
    <3> HIDE DEF onset
    <3>3. onset.lip <= lip
      BY <2>2, <3>1, <3>2
    <3>4. ASSUME onset.lip = lip, ~rebased' PROVE onset.touches = touches
      <4>1. hotSince.lip = wPrev.lip
        BY <2>2, <3>1, <3>2, <3>4
      <4> QED BY <2>1, <3>1, <3>2, <3>4, <4>1
    <3> QED BY <3>3, <3>4
  <2> QED BY <2>3, <2>4
<1> HIDE DEF hot, onset
<1>6. hotWindows' \in 0 .. HotWindows
  BY <1>2, <1>4, Constants
<1>7. LookOK(wPrev)' /\ LookOK(hotSince)' /\ LookOK(since)' /\ rebased' \in BOOLEAN
  BY <1>2, <1>4 DEF WatchPart, LookOK, Look
<1>8. OnsetOK'
  BY <1>2, <1>3, <1>5 DEF OnsetOK
<1> QED BY <1>2, <1>6, <1>7, <1>8 DEF WatchPart

LEMMA WatchTickStep == ASSUME IInv, WatchTick PROVE IInv'
<1>1. WorldPart /\ WatchPart /\ WindowPart /\ RunPart
  BY Parts
<1>2. /\ lipstick' = lip /\ UNCHANGED <<world, foreground, watching, runVars>>
      /\ WatchPauses \/ (lip # 0 /\ (WatchBegins \/ WatchJudges))
  BY DEF WatchTick, FindLipstick
<1>3. WorldPart'
  BY <1>1, <1>2 DEF WorldPart, WorldOK, world
<1>4. WindowPart'
  BY <1>1, <1>2, WindowKept DEF runVars, windowVars, openWindow, world, WorldPart
<1>5. WatchPart'
  <2>1. CASE WatchPauses
    <3>1. /\ hotWindows' = 0 /\ wPrev' = NoLook
          /\ UNCHANGED <<hotSince, rebased, since, suspect>>
      BY <2>1 DEF WatchPauses
    <3>2. LookOK(NoLook) /\ lipsticks \in Nat
      BY <1>1 DEF LookOK, Look, NoLook, WorldPart
    <3> QED BY <1>1, <1>2, <3>1, <3>2, Constants DEF WatchPart, OnsetOK, LookOK, world
  <2>2. CASE lip # 0 /\ WatchBegins
    <3>1. /\ wPrev' = Now /\ rebased' = TRUE
          /\ UNCHANGED <<hotWindows, hotSince, since, suspect>>
      BY <2>2 DEF WatchBegins
    <3>2. /\ lip \in Nat /\ lip = lipsticks /\ touches \in Nat
          /\ Now.lip = lip /\ Now \in Look
      BY <1>1, <2>2 DEF WorldPart, WorldOK, Now, Look
    <3>3. wPrev.lip \in Nat /\ wPrev.lip <= lip /\ hotSince.lip \in Nat
      BY <1>1, <3>2 DEF WatchPart, LookOK, Look
    <3>4. OnsetOK'
      BY <1>1, <3>1, <3>2, <3>3 DEF WatchPart, OnsetOK
    <3> QED BY <1>1, <1>2, <3>1, <3>2, <3>4 DEF WatchPart, LookOK, world
  <2>3. CASE lip # 0 /\ WatchJudges
    BY <1>1, <1>2, <2>3, Judged DEF world
  <2> QED BY <1>2, <2>1, <2>2, <2>3
<1>6. RunPart'
  BY <1>1, <1>2, RunKept
<1> QED BY <1>3, <1>4, <1>5, <1>6, PartsNext

(* The guided run. *)

\* VerdictEarned and ValidUntouched for any windows and conclusion.
Holds(done, i, name, verdicts) ==
  /\ i <= Len(done)
  /\ done[i].step = name /\ done[i].valid /\ done[i].verdict \in verdicts

Earned(done, concluded) ==
  /\ concluded = "busy-before" => Holds(done, 1, "baseline", {"stuck", "other"})
  /\ concluded = "plain" => /\ Holds(done, 1, "baseline", {"quiet"})
                            /\ Holds(done, 2, "plain", {"stuck"})
  /\ concluded \in {"actions", "none"} =>
       /\ Holds(done, 1, "baseline", {"quiet"})
       /\ Holds(done, 2, "plain", {"quiet", "other"})
       /\ Holds(done, 3, "actions", IF concluded = "actions" THEN {"stuck"}
                                                             ELSE {"quiet", "other"})

LEMMA VerdictIsEarned ==
  VerdictEarned <=> Earned(steps, outcome) /\ ~(outcome # "-" /\ "trigger" \in message)
  BY DEF VerdictEarned, Earned, Holds

LEMMA VerdictIsEarnedNext ==
  VerdictEarned' <=> /\ Earned(steps', outcome')
                     /\ ~(outcome' # "-" /\ "trigger" \in message')
  BY DEF VerdictEarned, Earned, Holds

LEMMA NothingEarned == ASSUME NEW done PROVE Earned(done, "-")
  BY DEF Earned

AllUntouched(done) == \A i \in 1 .. Len(done) : done[i].valid => ~done[i].touched

LEMMA UntouchedIsAll ==
  ASSUME steps \in Seq(Result)
  PROVE  ValidUntouched <=> /\ \A r \in measurement : r.valid => ~r.touched
                            /\ AllUntouched(steps)
<1>1. DOMAIN steps = 1 .. Len(steps)
  BY LenProperties
<1> QED BY <1>1 DEF ValidUntouched, AllUntouched

LEMMA UntouchedIsAllNext ==
  ASSUME steps' \in Seq(Result)
  PROVE  ValidUntouched' <=> /\ \A r \in measurement' : r.valid => ~r.touched
                             /\ AllUntouched(steps')
<1>1. DOMAIN steps' = 1 .. Len(steps')
  BY LenProperties
<1> QED BY <1>1 DEF ValidUntouched, AllUntouched

LEMMA OneMoreWindow ==
  ASSUME NEW done \in Seq(Result), NEW r \in Result
  PROVE  /\ Append(done, r) \in Seq(Result) /\ Len(Append(done, r)) = Len(done) + 1
         /\ Len(done) \in Nat
         /\ \A i \in 1 .. Len(done) : Append(done, r)[i] = done[i]
         /\ Append(done, r)[Len(done) + 1] = r
         /\ AllUntouched(done) /\ (r.valid => ~r.touched)
              => AllUntouched(Append(done, r))
<1> DEFINE n == Len(done)
           longer == Append(done, r)
<1>1. /\ longer \in Seq(Result) /\ n \in Nat /\ Len(longer) = n + 1
      /\ longer[n + 1] = r /\ \A i \in 1 .. n : longer[i] = done[i]
  BY AppendProperties, LenProperties
<1> HIDE DEF longer
<1>2. ASSUME AllUntouched(done), r.valid => ~r.touched, NEW i \in 1 .. Len(longer)
      PROVE  longer[i].valid => ~longer[i].touched
  <2>1. CASE i = n + 1
    BY <1>1, <1>2, <2>1
  <2>2. CASE i # n + 1
    <3>1. i \in 1 .. n
      BY <1>1, <2>2
    <3> QED BY <1>1, <1>2, <3>1 DEF AllUntouched
  <2> QED BY <2>1, <2>2
<1> QED BY <1>1, <1>2 DEF AllUntouched, longer

LEMMA WorldKept ==
  ASSUME WorldPart, UNCHANGED <<world, foreground>>, lipstick' \in {lipstick, lip}
  PROVE  WorldPart'
  BY DEF WorldPart, WorldOK, world

\* The end of a run, early or not.
LEMMA Finished ==
  ASSUME RunTypes, RunOK, busy, NEW verdict \in BOOLEAN, FinishRun(verdict),
         mode' = mode, waitFg' \in 0 .. WaitSec,
         measurement' \subseteq Result, steps' \in Seq(Result),
         outcome' \in {"-", "busy-before", "plain", "actions", "none"},
         Earned(steps', outcome'), ValidUntouched',
         outcome' # "-" => "trigger" \notin message /\ (verdict => mode # "trigger")
  PROVE  RunPart'
<1>1. /\ runTimer' = FALSE /\ phase' = "-" /\ settle' = 0 /\ left' = 0
      /\ message' = IF verdict THEN message \cup {mode} ELSE message
      /\ testIds' = {} /\ shown' = shown \ testIds
  BY DEF FinishRun, CloseTestNotifications
<1>2. shown' = {} /\ mode \in {"measure", "trigger"} /\ mode # "-"
  BY <1>1 DEF RunOK, RunTypes
<1>3. message' \subseteq {"measure", "trigger"}
  BY <1>1, <1>2 DEF RunTypes
<1>4. RunTypes'
  <2>1. left' \in Nat /\ settle' \in 0 .. SettleSec
    BY <1>1, Constants
  <2> QED BY <1>1, <1>2, <1>3, <2>1 DEF RunTypes, Phases
<1>5. PhaseFits' /\ RunOK'
  BY <1>1, <1>2 DEF PhaseFits, RunOK, busy
<1>6. VerdictEarned'
  <2>1. ~(outcome' # "-" /\ "trigger" \in message')
    BY <1>1
  <2> QED BY <2>1, VerdictIsEarnedNext
<1>7. TestNotificationsClosed'
  BY <1>2 DEF TestNotificationsClosed
<1> QED BY <1>4, <1>5, <1>6, <1>7 DEF RunPart

LEMMA WatchReset ==
  ASSUME WatchPart, WorldPart, NEW verdict, FinishRun(verdict), lipsticks' = lipsticks
  PROVE  WatchPart'
<1>1. /\ wPrev' = NoLook /\ hotWindows' = 0
      /\ UNCHANGED <<watching, hotSince, rebased, since, suspect>>
  BY DEF FinishRun
<1>2. LookOK(NoLook) /\ lipsticks \in Nat
  BY DEF LookOK, Look, NoLook, WorldPart
<1> QED BY <1>1, <1>2, Constants DEF WatchPart, OnsetOK, LookOK

LEMMA CancelStep == ASSUME IInv, ~asking, Cancel PROVE IInv'
<1>1. WorldPart /\ WatchPart /\ WindowPart /\ RunPart
  BY Parts
<1>2. /\ busy /\ FinishRun(TRUE)
      /\ UNCHANGED <<world, foreground, lipstick, mode, waitFg, asking, invalid, t0,
                     prevTouch, checked, measurement, steps, outcome>>
  BY DEF Cancel, openWindow
<1>3. phase' = "-" /\ lipsticks' = lipsticks
  BY <1>2 DEF FinishRun, world
<1>4. WorldPart'
  BY <1>1, <1>2, WorldKept
<1>5. WatchPart'
  BY <1>1, <1>2, <1>3, WatchReset
<1>6. WindowPart'
  BY <1>1, <1>2, <1>3, NoWindow DEF WindowPart
<1>7. RunPart'
  <2>1. Earned(steps', outcome') /\ ValidUntouched'
    BY <1>1, <1>2, VerdictIsEarned DEF RunPart, ValidUntouched
  <2>2. outcome' # "-" => "trigger" \notin message /\ mode # "trigger"
    BY <1>1, <1>2, VerdictIsEarned DEF RunPart, RunOK
  <2> QED BY <1>1, <1>2, <2>1, <2>2, Finished DEF RunPart, RunTypes
<1> QED BY <1>4, <1>5, <1>6, <1>7, PartsNext

\* Both buttons.
LEMMA StartRunStep ==
  ASSUME IInv, ~asking, StartMeasurement \/ StartTriggerTest PROVE IInv'
<1>1. WorldPart /\ WatchPart /\ WindowPart /\ RunPart
  BY Parts
<1>2. PICK m \in {"measure", "trigger"} :
        /\ StartRun(m)
        /\ \/ m = "measure" /\ measurement' = {} /\ UNCHANGED <<steps, outcome>>
           \/ m = "trigger" /\ steps' = <<>> /\ outcome' = "-" /\ UNCHANGED measurement
  BY DEF StartMeasurement, StartTriggerTest
<1>3. /\ phase = "-" /\ mode' = m /\ phase' = "wait" /\ runTimer' = TRUE
      /\ left' = WaitSec /\ waitFg' = 0 /\ message' = message \ {m}
      /\ UNCHANGED <<world, foreground, lipstick, watchVars, settle, asking, invalid,
                     t0, prevTouch, checked, testIds, shown>>
  BY <1>2 DEF StartRun, openWindow, busy
<1>4. WorldPart'
  BY <1>1, <1>3, WorldKept
<1>5. WatchPart'
  BY <1>1, <1>3, WatchKept DEF WorldPart, world
<1>6. WindowPart'
  BY <1>1, <1>3, NoWindow DEF WindowPart, world
<1>7. RunTypes /\ PhaseFits /\ RunOK /\ ValidUntouched /\ VerdictEarned
      /\ TestNotificationsClosed
  BY <1>1 DEF RunPart
<1>8. /\ steps' \in Seq(Result) /\ measurement' \subseteq Result
      /\ outcome' \in {"-", "busy-before", "plain", "actions", "none"}
      /\ m = "trigger" => steps' = <<>> /\ outcome' = "-"
  BY <1>2, <1>7, EmptySeq DEF RunTypes
<1>9. settle = 0
  BY <1>3, <1>7, Constants DEF PhaseFits, RunTypes
<1>10. RunTypes'
  <2>1. left' \in Nat /\ waitFg' \in 0 .. WaitSec
    BY <1>3, Constants
  <2> QED BY <1>3, <1>7, <1>8, <2>1 DEF RunTypes, Phases
<1>11. PhaseFits'
  BY <1>3, <1>9, Constants DEF PhaseFits, busy
<1>12. RunOK'
  <2>1. waitFg' < OutOfSight
    BY <1>3, Constants
  <2> QED BY <1>3, <1>7, <1>8, <2>1 DEF RunOK
<1>13. ValidUntouched'
  <2>1. AllUntouched(<<>>)
    BY DEF AllUntouched
  <2>2. /\ \A r \in measurement : r.valid => ~r.touched
        /\ AllUntouched(steps)
    BY <1>7, UntouchedIsAll DEF RunTypes
  <2>3. /\ \A r \in measurement' : r.valid => ~r.touched
        /\ AllUntouched(steps')
    BY <1>2, <2>1, <2>2
  <2> QED BY <1>8, <2>3, UntouchedIsAllNext
<1>14. VerdictEarned'
  <2>1. Earned(steps', outcome')
    BY <1>2, <1>7, NothingEarned, VerdictIsEarned
  <2>2. ~(outcome' # "-" /\ "trigger" \in message')
    BY <1>2, <1>3, <1>7, VerdictIsEarned
  <2> QED BY <2>1, <2>2, VerdictIsEarnedNext
<1>15. TestNotificationsClosed'
  BY <1>3 DEF TestNotificationsClosed, busy
<1> QED
  BY <1>4, <1>5, <1>6, <1>10, <1>11, <1>12, <1>13, <1>14, <1>15, PartsNext DEF RunPart

\* A step of a run under way that concludes nothing: the windows, the results
\* and the notifications stay as they are.
LEMMA GoesOn ==
  ASSUME RunPart, busy, UNCHANGED <<mode, runTimer, resultVars, testIds, shown>>,
         phase' \in Phases, left' \in Nat \ {0}, waitFg' \in 0 .. WaitSec,
         settle' \in 0 .. SettleSec,
         settle' > 0 => phase' \in {"plain", "actions"} /\ left' = settle',
         \/ phase' = phase /\ (phase = "wait" => waitFg' < OutOfSight)
         \/ phase = "wait" /\ phase' = IF mode = "measure" THEN "measure" ELSE "baseline"
  PROVE  RunPart'
<1>1. /\ RunTypes /\ PhaseFits /\ RunOK /\ ValidUntouched /\ VerdictEarned
      /\ UNCHANGED <<measurement, steps, outcome, message>>
  BY DEF RunPart, resultVars
<1>2. phase # "-" /\ phase' # "-"
  BY DEF busy
<1>3. RunTypes'
  BY <1>1 DEF RunTypes
<1>4. PhaseFits'
  BY <1>1, <1>2 DEF PhaseFits, RunOK, RunTypes, busy
<1>5. RunOK'
  BY <1>1, <1>2 DEF RunOK, busy
<1>6. ValidUntouched' /\ VerdictEarned'
  BY <1>1 DEF ValidUntouched, VerdictEarned
<1>7. TestNotificationsClosed'
  BY <1>2 DEF TestNotificationsClosed, busy
<1> QED BY <1>3, <1>4, <1>5, <1>6, <1>7 DEF RunPart

LEMMA WaitSecondStep ==
  ASSUME IInv, ~asking, phase = "wait", WaitSecond,
         UNCHANGED <<world, foreground, mode>>
  PROVE  IInv'
<1>1. WorldPart /\ WatchPart /\ WindowPart /\ RunPart
  BY Parts
<1>2. /\ RunTypes /\ PhaseFits /\ RunOK /\ ValidUntouched /\ VerdictEarned
      /\ busy /\ UNCHANGED <<measurement, steps, outcome>> /\ asking' = FALSE
  BY <1>1 DEF RunPart, WindowPart, busy, WaitSecond
<1>3. waitFg' \in 0 .. WaitSec
  BY <1>2, Constants DEF WaitSecond, RunTypes, RunOK
<1>7. WaitLeft \in Int
  BY <1>2 DEF WaitLeft, RunTypes
<1>4. CASE WaitLeft <= 0
  <2>1. FinishRun(TRUE) /\ UNCHANGED <<lipstick, invalid, t0, prevTouch, checked>>
    BY <1>4 DEF WaitSecond, openWindow
  <2>2. phase' = "-" /\ lipsticks' = lipsticks
    BY <2>1 DEF FinishRun, world
  <2>3. WorldPart'
    BY <1>1, <2>1, WorldKept
  <2>4. WatchPart'
    BY <1>1, <2>1, <2>2, WatchReset
  <2>5. WindowPart'
    BY <1>1, <1>2, <2>1, <2>2, NoWindow DEF WindowPart
  <2>6. RunPart'
    <3>1. Earned(steps', outcome') /\ ValidUntouched'
      BY <1>2, VerdictIsEarned DEF ValidUntouched
    <3>2. outcome' # "-" => "trigger" \notin message /\ mode # "trigger"
      BY <1>2, VerdictIsEarned DEF RunOK
    <3> QED BY <1>2, <1>3, <2>1, <3>1, <3>2, Finished DEF RunTypes
  <2> QED BY <2>3, <2>4, <2>5, <2>6, PartsNext
<1>5. CASE WaitLeft > 0 /\ waitFg' < OutOfSight
  <2>1. /\ left' = WaitLeft
        /\ UNCHANGED <<runTimer, message, testIds, shown, watchVars>>
        /\ UNCHANGED <<phase, lipstick, settle, invalid, t0, prevTouch, checked>>
    <3>1. ~(WaitLeft <= 0)
      BY <1>5, <1>7
    <3> QED BY <1>5, <3>1 DEF WaitSecond, openWindow
  <2>2. left' \in Nat \ {0} /\ settle = 0
    BY <1>2, <1>5, <2>1, Constants DEF WaitLeft, RunTypes, PhaseFits
  <2>3. WorldPart'
    BY <1>1, <2>1, WorldKept
  <2>4. WatchPart'
    BY <1>1, <2>1, WatchKept DEF WorldPart, world
  <2>5. WindowPart'
    BY <1>1, <1>2, <2>1, NoWindow DEF WindowPart, world
  <2>6. RunPart'
    BY <1>1, <1>2, <1>3, <1>5, <2>1, <2>2, GoesOn DEF RunTypes, resultVars
  <2> QED BY <2>3, <2>4, <2>5, <2>6, PartsNext
<1>6. CASE WaitLeft > 0 /\ ~(waitFg' < OutOfSight)
  <2> DEFINE next == IF mode = "measure" THEN "measure" ELSE "baseline"
             seconds == IF mode = "measure" THEN MeasureSec ELSE TestSec
  <2>1. /\ UNCHANGED <<runTimer, message, testIds, shown, watchVars>>
        /\ phase' = next /\ BeginWindow(seconds)
    <3>1. ~(WaitLeft <= 0)
      BY <1>6, <1>7
    <3> QED BY <1>6, <3>1 DEF WaitSecond
  <2>7. asking' = FALSE /\ BeginWindow(seconds) /\ UNCHANGED <<world, foreground>>
    BY <1>2, <2>1
  <2>2. /\ WindowPart' /\ WorldPart' /\ settle' = 0 /\ left' = seconds
    <3> HIDE DEF seconds
    <3> QED BY <1>1, <2>7, WindowBegun
  <2>3. left' \in Nat \ {0} /\ settle' \in 0 .. SettleSec /\ ~(settle' > 0)
    BY <2>2, Constants
  <2>4. WatchPart'
    BY <1>1, <2>1, WatchKept DEF WorldPart, world
  <2>5. phase' \in Phases
    BY <2>1 DEF Phases
  <2>6. RunPart'
    BY <1>1, <1>2, <1>3, <2>1, <2>3, <2>5, GoesOn DEF resultVars
  <2> QED BY <2>2, <2>4, <2>6, PartsNext
<1> QED BY <1>4, <1>5, <1>6, <1>7

LEMMA SettleSecondStep ==
  ASSUME IInv, ~asking, phase \notin {"-", "wait"}, settle > 0, SettleSecond,
         UNCHANGED <<world, foreground, mode>>
  PROVE  IInv'
<1>1. WorldPart /\ WatchPart /\ WindowPart /\ RunPart
  BY Parts
<1>2. /\ RunTypes /\ PhaseFits /\ busy /\ asking' = FALSE
      /\ UNCHANGED <<phase, runTimer, waitFg, resultVars, testIds, shown, watchVars>>
  BY <1>1 DEF RunPart, WindowPart, busy, SettleSecond
<1>3. WatchPart'
  BY <1>1, <1>2, WatchKept DEF WorldPart, world
<1>4. CASE settle = 1
  <2>1. /\ WindowPart' /\ WorldPart' /\ settle' = 0 /\ left' = TestSec
    BY <1>1, <1>2, <1>4, WindowBegun DEF SettleSecond
  <2>2. left' \in Nat \ {0} /\ settle' \in 0 .. SettleSec /\ ~(settle' > 0)
    BY <2>1, Constants
  <2>3. RunPart'
    BY <1>1, <1>2, <2>2, GoesOn DEF RunTypes
  <2> QED BY <1>3, <2>1, <2>3, PartsNext
<1>5. CASE settle # 1
  <2>1. /\ settle' = settle - 1 /\ left' = settle - 1
        /\ UNCHANGED <<lipstick, invalid, t0, prevTouch, checked>>
    BY <1>5 DEF SettleSecond, openWindow
  <2>2. left' \in Nat \ {0} /\ settle' \in 0 .. SettleSec /\ settle' # 0
    BY <1>2, <1>5, <2>1, Constants DEF RunTypes
  <2>3. phase' \in {"plain", "actions"} /\ left' = settle'
    BY <1>2, <2>1 DEF PhaseFits
  <2>4. WorldPart'
    BY <1>1, <2>1, WorldKept
  <2>5. WindowPart'
    BY <1>1, <1>2, <2>1, <2>2, NoWindow DEF WindowPart, world
  <2>6. RunPart'
    BY <1>1, <1>2, <2>2, <2>3, GoesOn DEF RunTypes
  <2> QED BY <1>3, <2>4, <2>5, <2>6, PartsNext
<1> QED BY <1>4, <1>5

\* A second of an open window reads the threads; it asks for the display if it
\* finds nothing against the window.
LEMMA ReadsLook ==
  ASSUME WorldPart, WindowPart, ~asking, phase \notin {"-", "wait"}, settle = 0,
         prevTouch' = TouchesRead, checked' = Now, UNCHANGED <<t0, lipsticks>>
  PROVE  /\ LookOK(t0)' /\ LookOK(checked)' /\ prevTouch' \in Nat /\ Against \in BOOLEAN
         /\ t0'.lip = 0 => t0'.touches = 0
         /\ checked'.lip = 0 => checked'.touches = 0
         /\ ~Against =>
              /\ lip # 0 /\ t0.lip = lip => lipstick = lip /\ prevTouch' = t0.touches
              /\ t0.lip = checked'.lip => t0.touches = checked'.touches
<1>1. LookOK(Now) /\ Now.lip = lip /\ Now.touches = touches /\ (lip = 0 => touches = 0)
  BY NowIsLook
<1>2. prevTouch' \in Nat /\ Against \in BOOLEAN
  BY DEF TouchesRead, Against, WorldPart, WindowPart
<1>3. /\ LookOK(t0)' /\ LookOK(checked)'
      /\ t0'.lip = 0 => t0'.touches = 0
      /\ checked'.lip = 0 => checked'.touches = 0
  BY <1>1 DEF WindowPart, WindowOK, LookOK
<1>4. ASSUME ~Against
      PROVE  /\ lip # 0 /\ t0.lip = lip => lipstick = lip /\ prevTouch' = t0.touches
             /\ t0.lip = lip => t0.touches = touches
  <2>1. ~invalid /\ TouchesRead = prevTouch
    BY <1>4 DEF Against
  <2>2. ASSUME lip # 0, t0.lip = lip PROVE lipstick = lip /\ prevTouch = t0.touches
    BY <2>1, <2>2 DEF WindowPart, WindowOK
  <2>3. ASSUME t0.lip = lip PROVE t0.touches = touches
    <3>1. CASE lip = 0
      BY <1>1, <2>3, <3>1 DEF WindowPart, WindowOK
    <3>2. CASE lip # 0
      BY <2>1, <2>2, <2>3, <3>2 DEF TouchesRead
    <3> QED BY <3>1, <3>2
  <2> QED BY <2>1, <2>2, <2>3
<1> QED BY <1>1, <1>2, <1>3, <1>4

LEMMA AsksStep ==
  ASSUME IInv, ~asking, phase \notin {"-", "wait"}, settle = 0, ~Against, asking' = TRUE,
         prevTouch' = TouchesRead, checked' = Now,
         UNCHANGED <<lipstick, invalid, t0, left, settle, phase, runTimer, waitFg,
                     resultVars, testIds, shown, watchVars>>,
         UNCHANGED <<world, foreground, mode>>
  PROVE  IInv'
<1>1. WorldPart /\ WatchPart /\ WindowPart /\ RunPart
  BY Parts
<1>2. WorldPart'
  BY <1>1, WorldKept
<1>3. WatchPart'
  BY <1>1, WatchKept DEF WorldPart, world
<1>4. WindowPart'
  <2>1. /\ ~invalid /\ invalid' = FALSE /\ lip' = lip /\ lipstick' = lipstick /\ t0' = t0
        /\ phase' \notin {"-", "wait"} /\ settle' = 0 /\ asking' = TRUE
    <3>1. ~invalid /\ invalid \in BOOLEAN
      BY <1>1 DEF Against, WindowPart
    <3> QED BY <3>1 DEF world
  <2>2. /\ LookOK(t0)' /\ LookOK(checked)' /\ prevTouch' \in Nat
        /\ t0'.lip = 0 => t0'.touches = 0
        /\ checked'.lip = 0 => checked'.touches = 0
        /\ lip # 0 /\ t0.lip = lip => lipstick = lip /\ prevTouch' = t0.touches
        /\ t0.lip = checked'.lip => t0.touches = checked'.touches
    BY <1>1, ReadsLook DEF world
  <2> QED BY <2>1, <2>2 DEF WindowPart, WindowOK
<1>5. RunPart'
  <2>1. RunTypes /\ PhaseFits /\ busy
    BY <1>1 DEF RunPart, busy
  <2>2. left \in Nat \ {0} /\ settle \in 0 .. SettleSec /\ ~(settle > 0)
    BY <2>1, Constants DEF RunTypes, PhaseFits
  <2>3. (phase = "wait" => waitFg < OutOfSight) /\ phase \in Phases
        /\ waitFg \in 0 .. WaitSec
    BY <1>1, <2>1 DEF RunPart, RunTypes, RunOK
  <2> QED BY <1>1, <2>1, <2>2, <2>3, GoesOn
<1> QED BY <1>2, <1>3, <1>4, <1>5, PartsNext

\* What a second knows of its window when its verdict is in.
Judging(against) ==
  /\ against \in BOOLEAN /\ asking' = FALSE
  /\ LookOK(t0) /\ LookOK(checked') /\ prevTouch' \in Nat
  /\ t0.lip = 0 => t0.touches = 0
  /\ checked'.lip = 0 => checked'.touches = 0
  /\ checked' \in {checked, Now}
  /\ ~against =>
       /\ lip # 0 /\ t0.lip = lip => lipstick = lip /\ prevTouch' = t0.touches
       /\ t0.lip = checked'.lip => t0.touches = checked'.touches

LEMMA WindowSecondStep ==
  ASSUME IInv, phase \notin {"-", "wait"}, settle = 0, NEW against, Judging(against),
         WindowSecond(against), UNCHANGED <<t0, waitFg, world, foreground, mode>>
  PROVE  IInv'
<1>1. WorldPart /\ WatchPart /\ WindowPart /\ RunPart
  BY Parts
<1>2. /\ RunTypes /\ PhaseFits /\ busy
      /\ left > 1 /\ left' = left - 1 /\ invalid' = against
      /\ UNCHANGED <<lipstick, settle, t0, phase, runTimer, waitFg, resultVars, testIds,
                     shown, watchVars>>
  BY <1>1 DEF RunPart, busy, WindowSecond
<1>3. WorldPart'
  BY <1>1, <1>2, WorldKept
<1>4. WatchPart'
  BY <1>1, <1>2, WatchKept DEF WorldPart, world
<1>5. WindowPart'
  <2>1. lipsticks' = lipsticks /\ lip' = lip
    BY DEF world
  <2>2. LookOK(t0)' /\ LookOK(checked)'
    BY <1>2, <2>1 DEF Judging, LookOK
  <2> QED BY <1>2, <2>1, <2>2 DEF Judging, WindowPart, WindowOK
<1>6. RunPart'
  <2>1. left' \in Nat \ {0} /\ settle' \in 0 .. SettleSec /\ ~(settle' > 0)
    BY <1>2, Constants DEF RunTypes
  <2> QED BY <1>1, <1>2, <2>1, GoesOn DEF RunTypes
<1> QED BY <1>3, <1>4, <1>5, <1>6, PartsNext

\* A result, and that a valid one had no touch up to its last check.
LEMMA ResultUntouched ==
  ASSUME NEW against, Judging(against), phase \in Phases, NEW verdict \in Verdicts
  PROVE  /\ WindowResult(against, verdict) \in Result
         /\ WindowResult(against, verdict).valid => ~WindowResult(against, verdict).touched
         /\ WindowResult(against, verdict).step = phase
         /\ WindowResult(against, verdict).verdict = verdict
<1> DEFINE valid == ~(against \/ lipstick # lip)
           touched == t0.lip = checked'.lip /\ t0.touches # checked'.touches
<1>1. /\ WindowResult(against, verdict)
           = [step |-> phase, valid |-> valid, verdict |-> verdict, touched |-> touched]
      /\ valid \in BOOLEAN /\ touched \in BOOLEAN
  BY DEF WindowResult
<1>2. ASSUME valid, touched PROVE FALSE
  BY <1>2 DEF Judging
<1> HIDE DEF valid, touched
<1> QED BY <1>1, <1>2 DEF Result

\* A trigger test that leads on to its next window: what it has is enough.
LEMMA SettleLeadsOn ==
  ASSUME RunPart, busy, mode = "trigger", mode' = mode, waitFg' = waitFg,
         NEW r \in Result, r.valid, ~r.touched, r.step = phase,
         steps' = Append(steps, r), UNCHANGED <<measurement, outcome>>,
         NEW next, Settle(next),
         \/ phase = "baseline" /\ r.verdict = "quiet" /\ next = "plain"
         \/ phase = "plain" /\ r.verdict # "stuck" /\ next = "actions"
  PROVE  RunPart'
<1>1. /\ RunTypes /\ PhaseFits /\ RunOK /\ ValidUntouched
      /\ outcome = "-" /\ "trigger" \notin message /\ steps \in Seq(Result)
  BY DEF RunPart, RunOK, RunTypes
<1>2. /\ phase' = next /\ SendTestNotification(next) /\ settle' = SettleSec
      /\ left' = SettleSec /\ UNCHANGED <<runTimer, message, watchVars>>
      /\ next \in {"plain", "actions"}
  BY DEF Settle
<1>3. /\ steps' \in Seq(Result) /\ Len(steps') = Len(steps) + 1 /\ Len(steps) \in Nat
      /\ \A i \in 1 .. Len(steps) : steps'[i] = steps[i]
      /\ steps'[Len(steps) + 1] = r
      /\ AllUntouched(steps) => AllUntouched(steps')
  BY <1>1, OneMoreWindow
<1>4. /\ testIds' \subseteq {"plain", "actions"} /\ shown' \subseteq testIds'
      /\ shown' \subseteq {"plain", "actions"}
  BY <1>1, <1>2 DEF SendTestNotification, RunOK, RunTypes
<1>5. Len(steps) = IF next = "plain" THEN 0 ELSE 1
  <2>1. CASE phase = "baseline"
    BY <1>1, <2>1 DEF PhaseFits
  <2>2. CASE phase = "plain"
    BY <1>1, <2>2 DEF PhaseFits
  <2> QED BY <2>1, <2>2
<1>6. RunTypes'
  <2>1. left' \in Nat /\ settle' \in 0 .. SettleSec
    BY <1>2, Constants
  <2> QED BY <1>1, <1>2, <1>3, <1>4, <2>1 DEF RunTypes, Phases
<1>7. PhaseFits'
  <2>1. left' > 0 /\ settle' = left' /\ phase' # "-"
    BY <1>2, Constants
  <2>2. Len(steps') = IF next = "plain" THEN 1 ELSE 2
    BY <1>3, <1>5
  <2> QED BY <1>1, <1>2, <2>1, <2>2 DEF PhaseFits, busy
<1>8. RunOK'
  <2>1. /\ steps'[1].step = "baseline" /\ steps'[1].valid
        /\ steps'[1].verdict = "quiet"
    <3>1. CASE phase = "baseline"
      <4>1. steps'[1] = r
        BY <1>3, <1>5, <3>1
      <4> QED BY <3>1, <4>1
    <3>2. CASE phase = "plain"
      <4>1. steps'[1] = steps[1]
        BY <1>3, <1>5, <3>2
      <4> QED BY <1>1, <3>2, <4>1 DEF RunOK
    <3> QED BY <3>1, <3>2
  <2>2. next = "actions" => /\ steps'[2].step = "plain" /\ steps'[2].valid
                            /\ steps'[2].verdict # "stuck"
    <3>1. ASSUME next = "actions" PROVE steps'[2] = r /\ phase = "plain"
      BY <1>3, <1>5, <3>1
    <3> QED BY <3>1
  <2> QED BY <1>1, <1>2, <1>4, <2>1, <2>2 DEF RunOK, busy
<1>9. ValidUntouched'
  <2>1. (\A c \in measurement : c.valid => ~c.touched) /\ AllUntouched(steps)
    BY <1>1, UntouchedIsAll
  <2> QED BY <1>3, <2>1, UntouchedIsAllNext
<1>10. VerdictEarned'
  BY <1>1, <1>2, NothingEarned, VerdictIsEarnedNext
<1>11. TestNotificationsClosed'
  BY <1>2 DEF TestNotificationsClosed, busy
<1> QED BY <1>6, <1>7, <1>8, <1>9, <1>10, <1>11 DEF RunPart

\* A trigger test that ends: its windows earn what it concludes.
LEMMA ConclusionEarned ==
  ASSUME RunPart, busy, mode = "trigger", NEW r \in Result, r.valid, r.step = phase,
         steps' = Append(steps, r),
         \/ /\ phase = "baseline" /\ r.verdict # "quiet" /\ outcome' = "busy-before"
         \/ /\ phase = "plain" /\ r.verdict = "stuck" /\ outcome' = "plain"
         \/ /\ phase = "actions"
            /\ outcome' = IF r.verdict = "stuck" THEN "actions" ELSE "none"
  PROVE  Earned(steps', outcome')
<1>1. /\ RunTypes /\ PhaseFits /\ RunOK /\ steps \in Seq(Result)
      /\ r.verdict \in {"quiet", "stuck", "other"}
  BY DEF RunPart, RunTypes, Result, Verdicts
<1>2. /\ Len(steps') = Len(steps) + 1 /\ Len(steps) \in Nat /\ steps' \in Seq(Result)
      /\ \A i \in 1 .. Len(steps) : steps'[i] = steps[i]
      /\ steps'[Len(steps) + 1] = r
  BY <1>1, OneMoreWindow
<1>3. CASE phase = "baseline"
  <2>1. Len(steps) = 0
    BY <1>1, <1>3 DEF PhaseFits
  <2>2. Len(steps') = 1 /\ steps'[1] = r
    BY <1>2, <2>1
  <2>3. Holds(steps', 1, "baseline", {"stuck", "other"})
    BY <1>1, <1>3, <2>2 DEF Holds
  <2> QED BY <1>3, <2>3 DEF Earned
<1>4. CASE phase = "plain"
  <2>1. Len(steps) = 1
    BY <1>1, <1>4 DEF PhaseFits
  <2>2. Len(steps') = 2 /\ steps'[1] = steps[1] /\ steps'[2] = r
    BY <1>2, <2>1
  <2>3. Holds(steps', 1, "baseline", {"quiet"})
    BY <1>1, <1>4, <2>2 DEF Holds, RunOK
  <2>4. Holds(steps', 2, "plain", {"stuck"})
    BY <1>4, <2>2 DEF Holds
  <2> QED BY <1>4, <2>3, <2>4 DEF Earned
<1>5. CASE phase = "actions"
  <2>1. Len(steps) = 2
    BY <1>1, <1>5 DEF PhaseFits
  <2>2. /\ Len(steps') = 3 /\ steps'[1] = steps[1] /\ steps'[2] = steps[2]
        /\ steps'[3] = r /\ steps'[2] \in Result
    BY <1>2, <2>1, ElementOfSeq
  <2>3. Holds(steps', 1, "baseline", {"quiet"})
    BY <1>1, <1>5, <2>2 DEF Holds, RunOK
  <2>4. Holds(steps', 2, "plain", {"quiet", "other"})
    BY <1>1, <1>5, <2>2 DEF Holds, RunOK, Result, Verdicts
  <2>5. Holds(steps', 3, "actions",
              IF outcome' = "actions" THEN {"stuck"} ELSE {"quiet", "other"})
    BY <1>1, <1>5, <2>2 DEF Holds
  <2> QED BY <1>5, <2>3, <2>4, <2>5 DEF Earned
<1> QED BY <1>3, <1>4, <1>5

LEMMA WindowEndsStep ==
  ASSUME IInv, phase \notin {"-", "wait"}, settle = 0, NEW against, Judging(against),
         WindowEnds(against), UNCHANGED <<t0, waitFg, world, foreground, mode>>
  PROVE  IInv'
<1>1. WorldPart /\ WatchPart /\ WindowPart /\ RunPart
  BY Parts
<1>2. /\ RunTypes /\ PhaseFits /\ RunOK /\ ValidUntouched /\ VerdictEarned /\ busy
      /\ waitFg' = waitFg /\ t0' = t0 /\ lipstick' = lip
      /\ lipsticks' = lipsticks /\ mode' = mode
  BY <1>1 DEF RunPart, busy, WindowEnds, FindLipstick, world
<1>3. /\ prevTouch' \in Nat /\ invalid' \in BOOLEAN /\ asking' = FALSE
      /\ checked' \in {checked, Now}
  BY DEF WindowEnds, Judging
<1>4. PICK verdict \in Verdicts :
        IF mode = "measure"
          THEN /\ measurement' = {WindowResult(against, verdict)}
               /\ FinishRun(FALSE)
               /\ UNCHANGED <<steps, outcome>>
          ELSE AdvanceTrigger(WindowResult(against, verdict))
  BY DEF WindowEnds, Verdicts
<1> DEFINE r == WindowResult(against, verdict)
<1>5. r \in Result /\ (r.valid => ~r.touched) /\ r.step = phase
  BY <1>2, ResultUntouched DEF RunTypes
<1> HIDE DEF r
<1>6. WorldPart'
  BY <1>1, <1>2, WorldKept
<1>7. ASSUME phase' = "-" \/ settle' # 0 PROVE WindowPart'
  BY <1>1, <1>2, <1>3, <1>7, NoWindow
<1>8. ASSUME NEW early \in BOOLEAN, FinishRun(early),
             measurement' \subseteq Result, steps' \in Seq(Result),
             outcome' \in {"-", "busy-before", "plain", "actions", "none"},
             Earned(steps', outcome'), ValidUntouched',
             outcome' # "-" => "trigger" \notin message /\ (early => mode # "trigger")
      PROVE  IInv'
  <2>1. phase' = "-"
    BY <1>8 DEF FinishRun
  <2>2. WatchPart'
    BY <1>1, <1>2, <1>8, WatchReset
  <2>3. RunPart'
    BY <1>2, <1>8, Finished DEF RunTypes
  <2> QED BY <1>6, <1>7, <2>1, <2>2, <2>3, PartsNext
<1>9. (\A c \in measurement : c.valid => ~c.touched) /\ AllUntouched(steps)
  BY <1>2, UntouchedIsAll DEF RunTypes
<1>10. CASE mode = "measure"
  <2>1. measurement' = {r} /\ FinishRun(FALSE) /\ UNCHANGED <<steps, outcome>>
    BY <1>4, <1>10 DEF r
  <2>2. ValidUntouched'
    BY <1>2, <1>5, <1>9, <2>1, UntouchedIsAllNext DEF RunTypes
  <2>3. Earned(steps', outcome') /\ (outcome' # "-" => "trigger" \notin message)
    BY <1>2, <2>1, VerdictIsEarned
  <2> QED BY <1>2, <1>5, <1>8, <2>1, <2>2, <2>3 DEF RunTypes
<1>11. CASE mode # "measure"
  <2>1. /\ mode = "trigger" /\ outcome = "-" /\ "trigger" \notin message
        /\ phase \in {"baseline", "plain", "actions"}
    BY <1>2, <1>11 DEF RunOK, RunTypes, PhaseFits, Phases, busy
  <2>2. AdvanceTrigger(r)
    BY <1>4, <1>11 DEF r
  <2>3. steps' = Append(steps, r) /\ measurement' = measurement
    BY <2>2 DEF AdvanceTrigger
  <2>4. steps' \in Seq(Result) /\ measurement' \subseteq Result /\ ValidUntouched'
    <3>1. steps' \in Seq(Result) /\ AllUntouched(steps')
      BY <1>2, <1>5, <1>9, <2>3, OneMoreWindow DEF RunTypes
    <3> QED BY <1>2, <1>9, <2>3, <3>1, UntouchedIsAllNext DEF RunTypes
  <2>5. CASE ~r.valid
    <3>1. FinishRun(TRUE) /\ outcome' = outcome
      BY <2>2, <2>5 DEF AdvanceTrigger, Usable
    <3> QED BY <1>8, <2>1, <2>4, <3>1, NothingEarned
  <2>6. CASE r.valid
    <3>1. \/ /\ phase = "baseline"
             /\ IF r.verdict = "quiet"
                  THEN Settle("plain") /\ UNCHANGED outcome
                  ELSE outcome' = "busy-before" /\ FinishRun(FALSE)
          \/ /\ phase = "plain"
             /\ IF r.verdict = "stuck"
                  THEN outcome' = "plain" /\ FinishRun(FALSE)
                  ELSE Settle("actions") /\ UNCHANGED outcome
          \/ /\ phase = "actions"
             /\ outcome' = IF r.verdict = "stuck" THEN "actions" ELSE "none"
             /\ FinishRun(FALSE)
      BY <2>2, <2>6 DEF AdvanceTrigger, Usable
    <3>2. CASE \/ phase = "baseline" /\ r.verdict = "quiet" /\ Settle("plain")
                    /\ UNCHANGED outcome
               \/ phase = "plain" /\ r.verdict # "stuck" /\ Settle("actions")
                    /\ UNCHANGED outcome
      <4>1. RunPart'
        BY <1>1, <1>2, <1>5, <2>1, <2>3, <2>6, <3>2, SettleLeadsOn
      <4>2. settle' # 0 /\ UNCHANGED watchVars
        BY <3>2, Constants DEF Settle
      <4>3. WatchPart'
        BY <1>1, <1>2, <4>2, WatchKept DEF WorldPart
      <4> QED BY <1>6, <1>7, <4>1, <4>2, <4>3, PartsNext
    <3>3. CASE /\ FinishRun(FALSE)
               /\ \/ /\ phase = "baseline" /\ r.verdict # "quiet"
                     /\ outcome' = "busy-before"
                  \/ /\ phase = "plain" /\ r.verdict = "stuck" /\ outcome' = "plain"
                  \/ /\ phase = "actions"
                     /\ outcome' = IF r.verdict = "stuck" THEN "actions" ELSE "none"
      <4>1. Earned(steps', outcome')
        BY <1>1, <1>2, <1>5, <2>1, <2>3, <2>6, <3>3, ConclusionEarned
      <4>2. outcome' \in {"-", "busy-before", "plain", "actions", "none"}
        BY <3>3
      <4> QED BY <1>8, <2>1, <2>4, <3>3, <4>1, <4>2
    <3> QED BY <3>1, <3>2, <3>3
  <2> QED BY <1>5, <2>5, <2>6
<1> QED BY <1>10, <1>11

LEMMA SecondOverStep ==
  ASSUME IInv, phase \notin {"-", "wait"}, settle = 0, NEW against, Judging(against),
         SecondOver(against), UNCHANGED <<world, foreground, mode>>
  PROVE  IInv'
  BY WindowSecondStep, WindowEndsStep DEF SecondOver

LEMMA SecondReadsStep ==
  ASSUME IInv, ~asking, phase \notin {"-", "wait"}, settle = 0, SecondReads,
         UNCHANGED <<world, foreground, mode>>
  PROVE  IInv'
<1>1. CASE ~Against
  BY <1>1, AsksStep DEF SecondReads
<1>2. CASE Against
  <2>1. /\ prevTouch' = TouchesRead /\ checked' = Now /\ asking' = FALSE
        /\ SecondOver(TRUE) /\ t0' = t0
    BY <1>2 DEF SecondReads, SecondOver
  <2>2. WorldPart /\ WindowPart
    BY Parts
  <2>3. Judging(TRUE)
    <3>1. /\ LookOK(t0)' /\ LookOK(checked)' /\ prevTouch' \in Nat
          /\ t0'.lip = 0 => t0'.touches = 0
          /\ checked'.lip = 0 => checked'.touches = 0
      BY <2>1, <2>2, ReadsLook DEF world
    <3>2. lipsticks' = lipsticks
      BY DEF world
    <3> QED BY <2>1, <3>1, <3>2 DEF Judging, LookOK
  <2> QED BY <2>1, <2>3, SecondOverStep
<1> QED BY <1>1, <1>2

LEMMA SecondAnsweredStep ==
  ASSUME IInv, asking, SecondAnswered, UNCHANGED <<world, foreground, mode>>
  PROVE  IInv'
<1>1. WorldPart /\ WindowPart
  BY Parts
<1>2. /\ asking' = FALSE /\ UNCHANGED <<prevTouch, checked>>
      /\ phase \notin {"-", "wait"} /\ settle = 0 /\ ~invalid
  BY <1>1 DEF SecondAnswered, WindowPart, WindowOK
<1>3. PICK against \in BOOLEAN : SecondOver(against)
  BY <1>1 DEF SecondAnswered, WorldPart
<1>4. Judging(against)
  BY <1>1, <1>2 DEF Judging, WindowPart, WindowOK, LookOK
<1> QED BY <1>2, <1>3, <1>4, SecondOverStep

LEMMA RunTickStep == ASSUME IInv, RunTick PROVE IInv'
<1>1. /\ runTimer /\ UNCHANGED <<world, foreground, mode>>
      /\ \/ asking /\ SecondAnswered
         \/ /\ ~asking
            /\ \/ phase = "wait" /\ WaitSecond
               \/ phase # "wait" /\ settle > 0 /\ SettleSecond
               \/ phase # "wait" /\ settle = 0 /\ SecondReads
  BY DEF RunTick
<1>2. phase # "-"
  BY <1>1, Parts DEF RunPart, PhaseFits, busy
<1> QED
  BY <1>1, <1>2, WaitSecondStep, SettleSecondStep, SecondReadsStep, SecondAnsweredStep

LEMMA StepIInv == IInv /\ [Next]_vars => IInv'
<1> SUFFICES ASSUME IInv, [Next]_vars PROVE IInv'
  OBVIOUS
<1>1. CASE UNCHANGED vars
  <2>1. WorldPart /\ WatchPart /\ WindowPart /\ RunPart
    BY Parts
  <2>2. UNCHANGED <<world, foreground, lipstick, watchVars, runVars>>
    BY <1>1 DEF vars
  <2>3. WorldPart'
    BY <2>1, <2>2, WorldKept
  <2>4. WatchPart'
    BY <2>1, <2>2, WatchKept DEF WorldPart, world
  <2>5. WindowPart'
    BY <2>1, <2>2, WindowKept DEF WorldPart, world, runVars, windowVars, openWindow
  <2>6. RunPart'
    BY <2>1, <2>2, RunKept
  <2> QED BY <2>3, <2>4, <2>5, <2>6, PartsNext
<1> QED
  BY <1>1, WorldStep, SetWatchingStep, WatchTickStep, StartRunStep, CancelStep,
     RunTickStep DEF Next

\* The inductive invariant holds in every reachable state.
THEOREM RedrawInvariant == Spec => []IInv
  BY InitIInv, StepIInv, PTL DEF Spec

\* Every variable keeps its kind, and the run's variables fit its phase.
THEOREM RedrawTypeOK == Spec => []TypeOK
<1>1. IInv => TypeOK
  BY DEF IInv
<1> QED BY <1>1, RedrawInvariant, PTL

\* However touches, restarts of lipstick and looks interleave, a window that
\* counts as valid had no touch on its lipstick up to its last check.
THEOREM RedrawValidUntouched == Spec => []ValidUntouched
<1>1. IInv => ValidUntouched
  BY DEF IInv
<1> QED BY <1>1, RedrawInvariant, PTL

\* What a trigger test concludes follows from its windows.
THEOREM RedrawVerdictEarned == Spec => []VerdictEarned
<1>1. IInv => VerdictEarned
  BY DEF IInv
<1> QED BY <1>1, RedrawInvariant, PTL

\* A test notification whose id is known never outlives the run.
THEOREM RedrawNotificationsClosed == Spec => []TestNotificationsClosed
<1>1. IInv => TestNotificationsClosed
  BY DEF IInv
<1> QED BY <1>1, RedrawInvariant, PTL

\* A suspicion is the watch's, and not one touch on the same lipstick lies
\* between the onset it names and now, unless the comparison was started afresh.
THEOREM RedrawSuspicionEarned == Spec => SuspicionEarned
<1> DEFINE Raised == ~suspect /\ suspect' =>
                       /\ ~busy /\ ~foreground /\ display
                       /\ since'.lip = lip /\ ~rebased' => since'.touches = touches
<1>1. IInv /\ [Next]_vars => [Raised]_vars
  <2> SUFFICES ASSUME IInv, Next, ~suspect, suspect'
               PROVE  /\ ~busy /\ ~foreground /\ display
                      /\ since'.lip = lip /\ ~rebased' => since'.touches = touches
    OBVIOUS
  <2>1. WatchTick
    <3>1. (SetWatching \/ UNCHANGED suspect) => FALSE
      BY DEF SetWatching, SetWatchingTo
    <3>2. CASE RunTick
      <4>1. UNCHANGED watchVars \/ \E verdict \in BOOLEAN : FinishRun(verdict)
        BY <3>2 DEF RunTick, WaitSecond, SettleSecond, SecondReads, SecondAnswered,
                    SecondOver, WindowSecond, WindowEnds, AdvanceTrigger, Settle
      <4> QED BY <3>1, <4>1 DEF watchVars, FinishRun
    <3>3. CASE Cancel
      BY <3>1, <3>3 DEF Cancel, FinishRun
    <3>4. CASE StartMeasurement \/ StartTriggerTest
      BY <3>1, <3>4 DEF StartMeasurement, StartTriggerTest, StartRun, watchVars
    <3>5. CASE LipstickExits \/ LipstickStarts \/ Touch \/ DisplaySwitches
               \/ SetForeground
      BY <3>1, <3>5 DEF LipstickExits, LipstickStarts, Touch, DisplaySwitches,
                        SetForeground, watchVars
    <3> QED BY <3>1, <3>2, <3>3, <3>4, <3>5 DEF Next
  <2>2. WatchJudges /\ lip # 0 /\ ~busy /\ ~foreground /\ display
    BY <2>1 DEF WatchTick, WatchPauses, WatchBegins
  <2>3. WorldPart /\ WatchPart
    BY Parts
  <2>4. /\ touches = wPrev.touches
        /\ since' = IF hotWindows = 0 THEN wPrev ELSE hotSince
        /\ rebased' = (hotWindows > 0 /\ rebased)
    BY <2>2 DEF WatchJudges, Hot
  <2>5. ASSUME since'.lip = lip, ~rebased' PROVE since'.touches = touches
    <3>1. CASE hotWindows = 0
      BY <2>4, <3>1
    <3>2. CASE hotWindows # 0
      <4>1. /\ hotSince.lip <= wPrev.lip
            /\ hotSince.lip = wPrev.lip /\ ~rebased => hotSince.touches = wPrev.touches
        BY <2>3, <3>2 DEF WatchPart, OnsetOK
      <4>2. since' = hotSince /\ hotSince.lip = lip
        BY <2>4, <2>5, <3>2
      <4>3. wPrev.lip \in Nat /\ wPrev.lip <= lip /\ lip \in Nat
        BY <2>2, <2>3 DEF WorldPart, WorldOK, WatchPart, LookOK, Look
      <4>4. hotSince.lip = wPrev.lip
        BY <4>1, <4>2, <4>3
      <4>5. ~rebased
        BY <2>3, <2>4, <2>5, <3>2 DEF WatchPart
      <4> QED BY <2>4, <4>1, <4>2, <4>4, <4>5
    <3> QED BY <3>1, <3>2
  <2> QED BY <2>2, <2>5
<1> QED BY <1>1, RedrawInvariant, PTL DEF Spec, SuspicionEarned
==============================================================================
