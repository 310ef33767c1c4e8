------------------------------ MODULE Pipeline ------------------------------
(***************************************************************************)
(* The sampling pipeline: the switches the GUI thread keeps (sysmon.cpp,    *)
(* recorder.cpp), the queued calls that carry them to the sampler in the    *)
(* worker thread (harbour-sysmetrics.cpp), the sampler's own switches and   *)
(* its timer (sampler.cpp), and the queued samples on the way back to the   *)
(* process list (ProcModel) and to the recorder.  What the recorder makes   *)
(* of a sample is in Recording; here it is only running and fed.            *)
(***************************************************************************)
EXTENDS ProcModel, Integers, Sequences

CONSTANTS
  Interval,     \* the refresh intervals a user picks, in ms
  MaxCommands,  \* bound: queued slot calls
  MaxSamples    \* bound: queued samples

\* The slider runs from 500 to 30000.
ASSUME PipelineAssumption ==
  /\ \A ms \in Interval : ms \in Nat /\ 500 <= ms /\ ms <= 30000
  /\ 3000 \in Interval
  /\ MaxCommands \in Nat /\ MaxSamples \in Nat

VARIABLES
  guiPaused,      \* SysMon::m_paused
  foreground,     \* SysMon::m_foreground
  thermalWanted,  \* SysMon::m_thermalWanted
  guiMs,          \* SysMon::m_intervalMs
  running,        \* Recorder::m_running
  fed,            \* a sample has reached the recorder since start() (history)
  commands,       \* slot calls queued for the worker thread
  samples,        \* processesSampled emissions queued for the GUI thread
  started,        \* Sampler::m_timer exists
  paused,         \* Sampler::m_paused
  procsEnabled,   \* Sampler::m_procsEnabled
  thermalEnabled, \* Sampler::m_thermalEnabled
  intervalMs      \* Sampler::m_intervalMs

guiVars == <<guiPaused, foreground, thermalWanted, guiMs, running, fed>>
samplerVars == <<started, paused, procsEnabled, thermalEnabled, intervalMs>>
vars == <<modelVars, guiVars, commands, samples, samplerVars>>

Command == [slot : {"setPaused", "setProcessesEnabled", "setThermalEnabled"},
            arg : BOOLEAN]
           \cup [slot : {"setIntervalMs"}, arg : Interval]

Init ==
  /\ ModelInit
  /\ guiPaused = FALSE /\ foreground = TRUE /\ thermalWanted = TRUE
  /\ guiMs = 3000
  /\ running = FALSE /\ fed = FALSE
  /\ commands = <<>> /\ samples = <<>>
  /\ started = FALSE /\ paused = FALSE
  /\ procsEnabled = TRUE /\ thermalEnabled = TRUE
  /\ intervalMs = 3000

------------------------------------------------------------------------------
(* The GUI thread *)

Post(calls) ==
  /\ Len(commands) + Len(calls) <= MaxCommands
  /\ commands' = commands \o calls

Call(slot, arg) == [slot |-> slot, arg |-> arg]

\* A slip: the recorder's need for the list forgotten.
ProcSamplingForegroundOnly(fg, rec) == Call("setProcessesEnabled", fg)

\* updateProcSampling, with the values its two conditions have just got.
ProcSampling(fg, rec) == Call("setProcessesEnabled", fg \/ rec)

\* updateThermalSampling.
ThermalSampling(wanted, fg) == Call("setThermalEnabled", wanted /\ fg)

Pause ==
  /\ guiPaused' = ~guiPaused
  /\ Post(<<Call("setPaused", ~guiPaused)>>)
  /\ UNCHANGED <<modelVars, foreground, thermalWanted, guiMs, running, fed,
                 samples, samplerVars>>

\* foregroundChanged has two lambdas that post, in the order of connection.
SetForeground ==
  /\ foreground' = ~foreground
  /\ Post(<<ProcSampling(~foreground, running),
            ThermalSampling(thermalWanted, ~foreground)>>)
  /\ UNCHANGED <<modelVars, guiPaused, thermalWanted, guiMs, running, fed,
                 samples, samplerVars>>

SetThermalWanted ==
  /\ thermalWanted' = ~thermalWanted
  /\ Post(<<ThermalSampling(~thermalWanted, foreground)>>)
  /\ UNCHANGED <<modelVars, guiPaused, foreground, guiMs, running, fed,
                 samples, samplerVars>>

ChooseInterval ==
  /\ guiMs' \in Interval \ {guiMs}
  /\ Post(<<Call("setIntervalMs", guiMs')>>)
  /\ UNCHANGED <<modelVars, guiPaused, foreground, thermalWanted, running, fed,
                 samples, samplerVars>>

\* Recorder::start() and stop(), one button.  Recorder::reset() is enabled
\* while nothing is recorded: it changes no switch and posts what is there.
StartRecording ==
  /\ ~running
  /\ running' = TRUE /\ fed' = FALSE
  /\ Post(<<ProcSampling(foreground, TRUE)>>)
  /\ UNCHANGED <<modelVars, guiPaused, foreground, thermalWanted, guiMs,
                 samples, samplerVars>>

StopRecording ==
  /\ running
  /\ running' = FALSE
  /\ Post(<<ProcSampling(foreground, FALSE)>>)
  /\ UNCHANGED <<modelVars, guiPaused, foreground, thermalWanted, guiMs, fed,
                 samples, samplerVars>>

ResetRecording ==
  /\ ~running
  /\ Post(<<ProcSampling(foreground, FALSE)>>)
  /\ UNCHANGED <<modelVars, guiVars, samples, samplerVars>>

\* The touch on the list, and the search and sort controls.
UseList ==
  /\ \/ SetHeld(~held)
     \/ \E v \in View : SetView(v)
  /\ UNCHANGED <<guiVars, commands, samples, samplerVars>>

\* The model is connected before the recorder; both run on the same call.
DeliverSample ==
  /\ samples # <<>>
  /\ samples' = Tail(samples)
  /\ ModelOnProcesses(Head(samples))
  /\ fed' = (fed \/ running)
  /\ UNCHANGED <<guiPaused, foreground, thermalWanted, guiMs, running,
                 commands, samplerVars>>

------------------------------------------------------------------------------
(* The worker thread *)

\* sample(): nothing while paused, and no list is emitted while the walk is
\* switched off.  The list is any the walk can find, the empty one when /proc
\* cannot be opened.  The system half goes its own way (README).
Sample(isPaused, enabled) ==
  IF ~isPaused /\ enabled
    THEN /\ Len(samples) < MaxSamples
         /\ \E list \in SUBSET Row : samples' = Append(samples, list)
    ELSE UNCHANGED samples

\* The thread's event loop starts: start() and its first sample come before
\* any queued call that was posted since moveToThread().
WorkerStarts ==
  /\ ~started
  /\ started' = TRUE
  /\ Sample(paused, procsEnabled)
  /\ UNCHANGED <<modelVars, guiVars, commands, paused, procsEnabled,
                 thermalEnabled, intervalMs>>

WorkerTicks ==
  /\ started
  /\ Sample(paused, procsEnabled)
  /\ UNCHANGED <<modelVars, guiVars, commands, samplerVars>>

\* A slip: a cap below what the slider offers.
BoundBelowSlider(low, x, high) == IF x < low THEN low ELSE IF x > 10000 THEN 10000 ELSE x

\* qBound().
Bound(low, x, high) == IF x < low THEN low ELSE IF x > high THEN high ELSE x

\* A slip: the switch that remembers only being turned on.
SetProcessesEnabledOnly(on) ==
  IF on /\ ~procsEnabled THEN procsEnabled' = TRUE /\ Sample(paused, TRUE)
                         ELSE UNCHANGED <<procsEnabled, samples>>

\* Being switched on samples at once: the list is visible again.
SetProcessesEnabled(on) ==
  IF procsEnabled = on
    THEN UNCHANGED <<procsEnabled, samples>>
    ELSE /\ procsEnabled' = on
         /\ IF on THEN Sample(paused, TRUE) ELSE UNCHANGED samples

\* The event loop makes one queued call.
DeliverCommand ==
  /\ started
  /\ commands # <<>>
  /\ commands' = Tail(commands)
  /\ LET c == Head(commands)
     IN  \/ /\ c.slot = "setPaused"
            /\ paused' = c.arg
            /\ UNCHANGED <<samples, procsEnabled, thermalEnabled, intervalMs>>
         \/ /\ c.slot = "setProcessesEnabled"
            /\ SetProcessesEnabled(c.arg)
            /\ UNCHANGED <<paused, thermalEnabled, intervalMs>>
         \/ /\ c.slot = "setThermalEnabled"
            /\ thermalEnabled' = c.arg
            /\ UNCHANGED <<samples, paused, procsEnabled, intervalMs>>
         \/ /\ c.slot = "setIntervalMs"
            /\ intervalMs' = Bound(250, c.arg, 30000)
            /\ UNCHANGED <<samples, paused, procsEnabled, thermalEnabled>>
  /\ UNCHANGED <<modelVars, guiVars, started>>

Next ==
  \/ Pause \/ SetForeground \/ SetThermalWanted \/ ChooseInterval
  \/ StartRecording \/ StopRecording \/ ResetRecording
  \/ UseList \/ DeliverSample
  \/ WorkerStarts \/ WorkerTicks \/ DeliverCommand

\* Both event loops run, and the timer of the sampler keeps firing.  What the
\* user does carries no fairness.
Fairness ==
  /\ WF_vars(WorkerStarts) /\ WF_vars(WorkerTicks)
  /\ WF_vars(DeliverCommand) /\ WF_vars(DeliverSample)

Spec == Init /\ [][Next]_vars /\ Fairness
------------------------------------------------------------------------------
(* Properties *)

\* Every variable holds a value of its kind and the queues keep their bounds.
TypeOK ==
  /\ ModelTypeOK
  /\ guiPaused \in BOOLEAN /\ foreground \in BOOLEAN /\ thermalWanted \in BOOLEAN
  /\ guiMs \in Interval
  /\ running \in BOOLEAN /\ fed \in BOOLEAN
  /\ commands \in Seq(Command) /\ Len(commands) <= MaxCommands
  /\ samples \in Seq(SUBSET Row) /\ Len(samples) <= MaxSamples
  /\ started \in BOOLEAN /\ paused \in BOOLEAN
  /\ procsEnabled \in BOOLEAN /\ thermalEnabled \in BOOLEAN
  /\ intervalMs \in Interval

\* i is the place of the last queued call of a slot.
LastCall(i, slot) ==
  /\ i \in 1 .. Len(commands)
  /\ commands[i].slot = slot
  /\ \A j \in 1 .. Len(commands) : commands[j].slot = slot => j <= i

\* What a switch of the sampler will be once the queue has drained: the last
\* queued call's argument, or its value when none is queued.
Arrives(slot, current, wish) ==
  /\ (\A i \in 1 .. Len(commands) : commands[i].slot # slot) => current = wish
  /\ \A i \in 1 .. Len(commands) : LastCall(i, slot) => commands[i].arg = wish

\* Once the queued calls are through, the sampler walks /proc exactly when the
\* app is in front or a recording runs, reads the thermal zones exactly when the
\* app is in front and they are wanted (from the launch until the overview is
\* first opened, and from then on while the overview is active), is paused
\* exactly when the user paused it, and ticks at the interval the settings
\* show, whatever order the user pressed things in and however far the worker
\* was behind.
SwitchesArrive ==
  /\ Arrives("setPaused", paused, guiPaused)
  /\ Arrives("setProcessesEnabled", procsEnabled, foreground \/ running)
  /\ Arrives("setThermalEnabled", thermalEnabled, thermalWanted /\ foreground)
  /\ Arrives("setIntervalMs", intervalMs, guiMs)

\* While a finger is on the list its rows change only when the user changes
\* what to show; at every other time the rows are the latest sample's.
HeldStill ==
  [][/\ held /\ held' /\ view' = view => rows' = rows
     /\ ~held' => rows' = Rebuilt(all', view')]_vars

\* A recording gets samples, in front or covered, started before or after the
\* worker thread, unless it is stopped or sampling is paused.
RecordingFed ==
  (running /\ ~guiPaused) ~> (fed \/ ~running \/ guiPaused)

\* The inductive invariant: no sample means nothing to show, and a list nobody
\* holds shows the latest sample.
IInv ==
  /\ TypeOK /\ SwitchesArrive
  /\ ~haveSample => all = {} /\ rows = {}
  /\ ~held => rows = Rebuilt(all, view)
==============================================================================
