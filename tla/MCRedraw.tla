------------------------------ MODULE MCRedraw ------------------------------
(***************************************************************************)
(* The thresholds scaled down: a suspicion after two hot windows, windows   *)
(* of two seconds, a settle phase of one, and a wait in which the app may    *)
(* come back in front once.  Two lipsticks, one touch on each.              *)
(***************************************************************************)
EXTENDS RedrawCheck

windowOpen == phase \notin {"-", "wait"} /\ settle = 0
testing == busy /\ mode = "trigger"

\* What later behaviour and the properties depend on: a value is left out
\* while nothing reads it before it is set again.  A window that is invalid stays
\* so whatever it reads.  Of results nothing goes on from the view keeps whether
\* they are what VerdictEarned and ValidUntouched say.
LiveView ==
  <<world, foreground, lipstick, watching, wPrev, hotWindows, suspect,
    IF hotWindows > 0 THEN <<hotSince, rebased>> ELSE <<>>,
    IF suspect THEN since ELSE NoLook,
    phase, runTimer, left, settle, testIds, shown,
    ValidUntouched, VerdictEarned,
    IF testing THEN <<steps, outcome, "trigger" \in message>> ELSE <<>>,
    IF busy THEN mode ELSE "-",
    IF phase = "wait" THEN waitFg ELSE 0,
    IF ~windowOpen THEN <<>> ELSE IF invalid THEN <<t0.lip>> ELSE <<openWindow, asking>> >>
==============================================================================
