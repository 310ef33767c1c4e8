---------------------------- MODULE Pipeline_proofs ----------------------------
(***************************************************************************)
(* Proofs about Pipeline for any rows, views, intervals and bounds of the   *)
(* two queues: the switches of the sampler end up as the GUI wants them, and *)
(* a list that is held holds still.                                         *)
(***************************************************************************)
EXTENDS Pipeline, SequenceTheorems, TLAPS

Slot == {"setPaused", "setProcessesEnabled", "setThermalEnabled", "setIntervalMs"}

\* Arrives for any queue of calls.
Final(calls, slot, current, wish) ==
  /\ (\A i \in 1 .. Len(calls) : calls[i].slot # slot) => current = wish
  /\ \A i \in 1 .. Len(calls) :
       /\ calls[i].slot = slot
       /\ \A j \in 1 .. Len(calls) : calls[j].slot = slot => j <= i
       => calls[i].arg = wish

LEMMA ArrivesIsFinal ==
  ASSUME NEW slot, NEW current, NEW wish
  PROVE  Arrives(slot, current, wish) <=> Final(commands, slot, current, wish)
  BY DEF Arrives, LastCall, Final

\* A call queued behind the others decides its switch and no other one.
LEMMA AppendDecides ==
  ASSUME NEW queue \in Seq(Command), NEW c \in Command
  PROVE  /\ \A current : Final(Append(queue, c), c.slot, current, c.arg)
         /\ \A slot, current, wish :
              slot # c.slot /\ Final(queue, slot, current, wish)
                => Final(Append(queue, c), slot, current, wish)
<1> DEFINE n == Len(queue)
           longer == Append(queue, c)
<1>1. /\ n \in Nat /\ Len(longer) = n + 1
      /\ \A i \in 1 .. n : longer[i] = queue[i]
      /\ longer[n + 1] = c
  BY AppendProperties, LenProperties
<1>2. ASSUME NEW current PROVE Final(longer, c.slot, current, c.arg)
  <2>1. longer[n + 1].slot = c.slot /\ n + 1 \in 1 .. Len(longer)
    BY <1>1
  <2>2. ASSUME NEW i \in 1 .. Len(longer),
               \A j \in 1 .. Len(longer) : longer[j].slot = c.slot => j <= i
        PROVE  longer[i].arg = c.arg
    <3>1. n + 1 <= i
      BY <2>1, <2>2
    <3>2. i = n + 1
      BY <1>1, <3>1
    <3> QED BY <1>1, <3>2
  <2> HIDE DEF longer
  <2> QED BY <2>1, <2>2 DEF Final
<1>3. ASSUME NEW slot, NEW current, NEW wish, slot # c.slot,
             Final(queue, slot, current, wish)
      PROVE  Final(longer, slot, current, wish)
  <2>1. ASSUME \A i \in 1 .. Len(longer) : longer[i].slot # slot
        PROVE  current = wish
    <3>1. \A i \in 1 .. n : queue[i].slot # slot
      BY <1>1, <2>1
    <3> QED BY <1>3, <3>1 DEF Final
  <2>2. ASSUME NEW i \in 1 .. Len(longer), longer[i].slot = slot,
               \A j \in 1 .. Len(longer) : longer[j].slot = slot => j <= i
        PROVE  longer[i].arg = wish
    <3>1. i \in 1 .. n /\ queue[i] = longer[i]
      BY <1>1, <1>3, <2>2
    <3>2. \A j \in 1 .. n : queue[j].slot = slot => j <= i
      BY <1>1, <2>2
    <3> QED BY <1>3, <2>2, <3>1, <3>2 DEF Final
  <2> HIDE DEF longer
  <2> QED BY <2>1, <2>2 DEF Final
<1> QED BY <1>2, <1>3

\* The oldest call, carried out, leaves every switch on its way.
LEMMA HeadDelivers ==
  ASSUME NEW queue \in Seq(Command), queue # <<>>,
         NEW slot, NEW current, NEW wish, Final(queue, slot, current, wish)
  PROVE  Final(Tail(queue), slot,
               IF Head(queue).slot = slot THEN Head(queue).arg ELSE current, wish)
<1> DEFINE n == Len(queue)
           rest == Tail(queue)
           next == IF Head(queue).slot = slot THEN Head(queue).arg ELSE current
<1>1. /\ n \in Nat \ {0} /\ Len(rest) = n - 1 /\ Head(queue) = queue[1]
      /\ \A i \in 1 .. n - 1 : rest[i] = queue[i + 1]
  BY HeadTailProperties, LenProperties, EmptySeq
<1>2. ASSUME \A i \in 1 .. Len(rest) : rest[i].slot # slot
      PROVE  next = wish
  <2>1. \A i \in 2 .. n : queue[i].slot # slot
    <3>1. ASSUME NEW i \in 2 .. n PROVE queue[i].slot # slot
      <4>1. i - 1 \in 1 .. n - 1 /\ (i - 1) + 1 = i
        BY <1>1, <3>1
      <4>2. rest[i - 1] = queue[i]
        BY <1>1, <4>1
      <4> QED BY <1>1, <1>2, <4>1, <4>2
    <3> QED BY <3>1
  <2>2. CASE queue[1].slot = slot
    <3>1. \A j \in 1 .. n : queue[j].slot = slot => j <= 1
      BY <1>1, <2>1
    <3>2. queue[1].arg = wish
      BY <1>1, <2>2, <3>1 DEF Final
    <3> QED BY <1>1, <2>2, <3>2
  <2>3. CASE queue[1].slot # slot
    <3>1. \A i \in 1 .. n : queue[i].slot # slot
      BY <1>1, <2>1, <2>3
    <3> QED BY <1>1, <2>3, <3>1 DEF Final
  <2> QED BY <2>2, <2>3
<1>3. ASSUME NEW i \in 1 .. Len(rest), rest[i].slot = slot,
             \A j \in 1 .. Len(rest) : rest[j].slot = slot => j <= i
      PROVE  rest[i].arg = wish
  <2>1. i + 1 \in 1 .. n /\ rest[i] = queue[i + 1]
    BY <1>1
  <2>2. ASSUME NEW j \in 1 .. n, queue[j].slot = slot PROVE j <= i + 1
    <3>1. CASE j = 1
      BY <1>1, <3>1
    <3>2. CASE j # 1
      <4>1. j - 1 \in 1 .. n - 1 /\ (j - 1) + 1 = j
        BY <1>1, <3>2
      <4>2. rest[j - 1] = queue[j]
        BY <1>1, <4>1
      <4>3. rest[j - 1].slot = slot /\ j - 1 \in 1 .. Len(rest)
        BY <1>1, <2>2, <4>1, <4>2
      <4>4. j - 1 <= i
        BY <1>3, <4>3
      <4> QED BY <1>1, <4>1, <4>4
    <3> QED BY <3>1, <3>2
  <2> QED BY <1>3, <2>1, <2>2 DEF Final
<1>4. Final(rest, slot, next, wish)
  <2> HIDE DEF rest, next
  <2> QED BY <1>2, <1>3 DEF Final
<1> QED BY <1>4

LEMMA PostOne ==
  ASSUME TypeOK, NEW c \in Command, Post(<<c>>)
  PROVE  /\ commands' = Append(commands, c)
         /\ commands' \in Seq(Command) /\ Len(commands') <= MaxCommands
<1>1. commands' = commands \o <<c>> /\ Len(commands) + Len(<<c>>) <= MaxCommands
  BY DEF Post
<1>2. commands \in Seq(Command) /\ Len(commands) \in Nat /\ Len(<<c>>) = 1
  BY LenProperties DEF TypeOK
<1>3. commands' = Append(commands, c)
  BY <1>1, <1>2, AppendIsConcat
<1>4. commands' \in Seq(Command) /\ Len(commands') = Len(commands) + 1
  BY <1>2, <1>3, AppendProperties
<1> QED BY <1>1, <1>2, <1>3, <1>4

LEMMA PostTwo ==
  ASSUME TypeOK, NEW c \in Command, NEW d \in Command, Post(<<c, d>>)
  PROVE  /\ commands' = Append(Append(commands, c), d)
         /\ Append(commands, c) \in Seq(Command)
         /\ commands' \in Seq(Command) /\ Len(commands') <= MaxCommands
<1>1. commands' = commands \o <<c, d>> /\ Len(commands) + Len(<<c, d>>) <= MaxCommands
  BY DEF Post
<1>2. commands \in Seq(Command) /\ Len(commands) \in Nat /\ Len(<<c, d>>) = 2
  BY LenProperties DEF TypeOK
<1>3. /\ Append(commands, c) \in Seq(Command)
      /\ Len(Append(commands, c)) = Len(commands) + 1
  BY <1>2, AppendProperties
<1>4. commands' = Append(Append(commands, c), d)
  <2>1. <<c>> \in Seq(Command) /\ <<d>> \in Seq(Command)
    OBVIOUS
  <2>2. <<c, d>> = <<c>> \o <<d>>
    <3>1. /\ <<c, d>> \in Seq(Command) /\ Len(<<c, d>>) = 2
          /\ <<c, d>>[1] = c /\ <<c, d>>[2] = d
          /\ Len(<<c>>) = 1 /\ Len(<<d>>) = 1 /\ <<c>>[1] = c /\ <<d>>[1] = d
      OBVIOUS
    <3>2. /\ <<c>> \o <<d>> \in Seq(Command) /\ Len(<<c>> \o <<d>>) = 2
          /\ (<<c>> \o <<d>>)[1] = c /\ (<<c>> \o <<d>>)[2] = d
      BY <2>1, <3>1, ConcatProperties
    <3>3. \A i \in 1 .. 2 : <<c, d>>[i] = (<<c>> \o <<d>>)[i]
      BY <3>1, <3>2
    <3> QED BY Zenon, <3>1, <3>2, <3>3, SeqEqual
  <2>3. /\ Append(commands, c) = commands \o <<c>>
        /\ Append(Append(commands, c), d) = Append(commands, c) \o <<d>>
    BY <1>2, <1>3, AppendIsConcat
  <2>4. commands \o (<<c>> \o <<d>>) = (commands \o <<c>>) \o <<d>>
    BY <1>2, <2>1, ConcatAssociative
  <2> QED BY <1>1, <2>2, <2>3, <2>4
<1>5. commands' \in Seq(Command) /\ Len(commands') = Len(commands) + 2
  BY <1>2, <1>3, <1>4, AppendProperties
<1> QED BY <1>1, <1>2, <1>3, <1>4, <1>5

\* A sample that is queued, or is not, keeps the queue's kind and bound.
LEMMA SampleKeeps ==
  ASSUME TypeOK, NEW isPaused, NEW enabled, Sample(isPaused, enabled)
  PROVE  samples' \in Seq(SUBSET Row) /\ Len(samples') <= MaxSamples
<1>1. samples \in Seq(SUBSET Row) /\ Len(samples) <= MaxSamples /\ Len(samples) \in Nat
  BY LenProperties DEF TypeOK
<1>2. CASE ~isPaused /\ enabled
  <2>1. PICK list \in SUBSET Row : samples' = Append(samples, list)
    BY <1>2 DEF Sample
  <2>2. Len(samples) < MaxSamples /\ MaxSamples \in Nat
    BY <1>2, PipelineAssumption DEF Sample
  <2>3. samples' \in Seq(SUBSET Row) /\ Len(samples') = Len(samples) + 1
    BY <1>1, <2>1, AppendProperties
  <2> QED BY <1>1, <2>2, <2>3
<1>3. CASE ~(~isPaused /\ enabled)
  BY <1>1, <1>3 DEF Sample
<1> QED BY <1>2, <1>3

LEMMA InitIInv == Init => IInv
<1> SUFFICES ASSUME Init PROVE IInv
  OBVIOUS
<1>1. commands \in Seq(Command) /\ samples \in Seq(SUBSET Row)
  BY EmptySeq DEF Init
<1>2. Len(commands) = 0 /\ Len(samples) = 0
  BY EmptySeq DEF Init
<1>3. TypeOK
  <2>1. ModelTypeOK
    BY Zenon DEF Init, ModelInit, ModelTypeOK
  <2>2. Len(commands) <= MaxCommands /\ Len(samples) <= MaxSamples
    BY <1>2, PipelineAssumption
  <2>3. guiMs \in Interval /\ intervalMs \in Interval
    BY PipelineAssumption DEF Init
  <2>4. /\ guiPaused \in BOOLEAN /\ foreground \in BOOLEAN /\ thermalWanted \in BOOLEAN
        /\ running \in BOOLEAN /\ fed \in BOOLEAN
        /\ started \in BOOLEAN /\ paused \in BOOLEAN
        /\ procsEnabled \in BOOLEAN /\ thermalEnabled \in BOOLEAN
    BY Zenon DEF Init
  <2> QED BY Zenon, <1>1, <2>1, <2>2, <2>3, <2>4 DEF TypeOK
<1>4. SwitchesArrive
  <2>1. 1 .. Len(commands) = {}
    BY <1>2
  <2>2. \A slot, x : Arrives(slot, x, x)
    BY Zenon, <2>1 DEF Arrives
  <2>3. /\ procsEnabled = (foreground \/ running)
        /\ thermalEnabled = (thermalWanted /\ foreground)
        /\ paused = guiPaused /\ intervalMs = guiMs
    <3>1. /\ foreground = TRUE /\ running = FALSE /\ thermalWanted = TRUE
          /\ procsEnabled = TRUE /\ thermalEnabled = TRUE
          /\ paused = FALSE /\ guiPaused = FALSE
      BY Zenon DEF Init
    <3>2. intervalMs = guiMs
      BY DEF Init
    <3> QED BY <3>1, <3>2
  <2>4. /\ Arrives("setPaused", guiPaused, guiPaused)
        /\ Arrives("setProcessesEnabled", foreground \/ running, foreground \/ running)
        /\ Arrives("setThermalEnabled", thermalWanted /\ foreground, thermalWanted /\ foreground)
        /\ Arrives("setIntervalMs", guiMs, guiMs)
    BY Zenon, <2>2
  <2> QED BY Zenon, <2>3, <2>4 DEF SwitchesArrive
<1>5. rows = Rebuilt(all, view) /\ (~haveSample => all = {} /\ rows = {})
  BY DEF Init, ModelInit, Rebuilt
<1> QED BY <1>3, <1>4, <1>5 DEF IInv

\* The four switches, on their way.
Underway(queue, p, e, t, i, wp, we, wt, wi) ==
  /\ Final(queue, "setPaused", p, wp)
  /\ Final(queue, "setProcessesEnabled", e, we)
  /\ Final(queue, "setThermalEnabled", t, wt)
  /\ Final(queue, "setIntervalMs", i, wi)

LEMMA SwitchesUnderway ==
  SwitchesArrive <=>
    Underway(commands, paused, procsEnabled, thermalEnabled, intervalMs,
             guiPaused, foreground \/ running, thermalWanted /\ foreground, guiMs)
  BY ArrivesIsFinal DEF SwitchesArrive, Underway

LEMMA SwitchesUnderwayNext ==
  SwitchesArrive' <=>
    Underway(commands', paused', procsEnabled', thermalEnabled', intervalMs',
             guiPaused', foreground' \/ running', thermalWanted' /\ foreground', guiMs')
  BY DEF SwitchesArrive, Arrives, LastCall, Final, Underway

\* What an action of the GUI thread leaves to the worker.
WorkerAlone == UNCHANGED <<samples, samplerVars>>

\* The type of the state after an action of the GUI thread that queues calls.
LEMMA GuiTypeOK ==
  ASSUME TypeOK, ModelTypeOK', WorkerAlone,
         commands' \in Seq(Command), Len(commands') <= MaxCommands,
         guiPaused' \in BOOLEAN, foreground' \in BOOLEAN, thermalWanted' \in BOOLEAN,
         guiMs' \in Interval, running' \in BOOLEAN, fed' \in BOOLEAN
  PROVE  TypeOK'
  BY DEF TypeOK, WorkerAlone, samplerVars

\* A call queued for one switch decides that switch.
LEMMA OneQueued ==
  ASSUME NEW queue \in Seq(Command), NEW arg, NEW slot,
         NEW c \in Command, c = Call(slot, arg),
         NEW p, NEW e, NEW t, NEW i, NEW wp, NEW we, NEW wt, NEW wi,
         Underway(queue, p, e, t, i, wp, we, wt, wi)
  PROVE  /\ slot = "setPaused" => Underway(Append(queue, c), p, e, t, i, arg, we, wt, wi)
         /\ slot = "setProcessesEnabled" =>
              Underway(Append(queue, c), p, e, t, i, wp, arg, wt, wi)
         /\ slot = "setThermalEnabled" =>
              Underway(Append(queue, c), p, e, t, i, wp, we, arg, wi)
         /\ slot = "setIntervalMs" => Underway(Append(queue, c), p, e, t, i, wp, we, wt, arg)
<1>1. c.slot = slot /\ c.arg = arg
  BY DEF Call
<1>2. /\ \A current : Final(Append(queue, c), slot, current, arg)
      /\ \A s, current, wish :
           s # slot /\ Final(queue, s, current, wish)
             => Final(Append(queue, c), s, current, wish)
  BY <1>1, AppendDecides
<1> QED BY <1>2 DEF Underway

\* The same, for a call that switches the thermal zones.
LEMMA ZonesQueued ==
  ASSUME NEW queue \in Seq(Command), NEW arg,
         NEW c \in Command, c = Call("setThermalEnabled", arg),
         NEW p, NEW e, NEW t, NEW i, NEW wp, NEW we, NEW wt, NEW wi,
         Underway(queue, p, e, t, i, wp, we, wt, wi)
  PROVE  Underway(Append(queue, c), p, e, t, i, wp, we, arg, wi)
<1> DEFINE slot == "setThermalEnabled"
<1>1. c = Call(slot, arg)
  OBVIOUS
<1> HIDE DEF slot
<1>2. slot = "setThermalEnabled" => Underway(Append(queue, c), p, e, t, i, wp, we, arg, wi)
  BY <1>1, OneQueued
<1> QED BY <1>2 DEF slot

Wanted == foreground \/ running
Zones == thermalWanted /\ foreground

\* The actions of the GUI thread that queue calls.
LEMMA PauseStep == ASSUME IInv, Pause PROVE IInv'
<1>1. /\ Post(<<Call("setPaused", ~guiPaused)>>) /\ guiPaused' = ~guiPaused
      /\ WorkerAlone
      /\ UNCHANGED <<modelVars, foreground, thermalWanted, guiMs, running, fed>>
  BY DEF Pause, WorkerAlone
<1>2. TypeOK /\ guiPaused \in BOOLEAN
  BY DEF IInv, TypeOK
<1>3. Call("setPaused", ~guiPaused) \in Command
  BY <1>2 DEF Call, Command
<1>4. /\ commands' = Append(commands, Call("setPaused", ~guiPaused))
      /\ commands' \in Seq(Command) /\ Len(commands') <= MaxCommands
  BY <1>1, <1>2, <1>3, PostOne
<1>5. TypeOK'
  BY <1>1, <1>2, <1>4, GuiTypeOK DEF TypeOK, ModelTypeOK, modelVars
<1>6. Underway(commands', paused, procsEnabled, thermalEnabled, intervalMs,
               ~guiPaused, Wanted, Zones, guiMs)
  <2>1. Underway(commands, paused, procsEnabled, thermalEnabled, intervalMs,
                 guiPaused, Wanted, Zones, guiMs)
    BY SwitchesUnderway DEF IInv, Wanted, Zones
  <2> QED BY <1>2, <1>3, <1>4, <2>1, OneQueued DEF TypeOK
<1>7. SwitchesArrive'
  BY <1>1, <1>6, SwitchesUnderwayNext DEF WorkerAlone, samplerVars, Wanted, Zones
<1> QED BY <1>1, <1>5, <1>7 DEF IInv, modelVars

LEMMA SetThermalWantedStep == ASSUME IInv, SetThermalWanted PROVE IInv'
<1> DEFINE c == ThermalSampling(~thermalWanted, foreground)
<1>1. /\ Post(<<c>>) /\ WorkerAlone
      /\ UNCHANGED <<modelVars, guiPaused, foreground, guiMs, running, fed>>
      /\ thermalWanted' = ~thermalWanted
  BY DEF SetThermalWanted, WorkerAlone
<1>2. TypeOK /\ foreground \in BOOLEAN /\ thermalWanted \in BOOLEAN /\ running \in BOOLEAN
  BY DEF IInv, TypeOK
<1>3. c \in Command
  BY <1>1, <1>2 DEF Call, Command, ThermalSampling
<1>4. /\ commands' = Append(commands, c)
      /\ commands' \in Seq(Command) /\ Len(commands') <= MaxCommands
  BY <1>1, <1>2, <1>3, PostOne
<1>5. TypeOK'
  BY <1>1, <1>2, <1>4, GuiTypeOK DEF TypeOK, ModelTypeOK, modelVars
<1>6. Underway(commands', paused, procsEnabled, thermalEnabled, intervalMs,
               guiPaused, Wanted, ~thermalWanted /\ foreground, guiMs)
  <2>1. Underway(commands, paused, procsEnabled, thermalEnabled, intervalMs,
                 guiPaused, Wanted, Zones, guiMs)
    BY SwitchesUnderway DEF IInv, Wanted, Zones
  <2> QED BY <1>2, <1>3, <1>4, <2>1, OneQueued DEF TypeOK, ThermalSampling
<1>7. SwitchesArrive'
  BY <1>1, <1>6, SwitchesUnderwayNext DEF WorkerAlone, samplerVars, Wanted, Zones
<1> QED BY <1>1, <1>5, <1>7 DEF IInv, modelVars

LEMMA ChooseIntervalStep == ASSUME IInv, ChooseInterval PROVE IInv'
<1> DEFINE c == Call("setIntervalMs", guiMs')
<1>1. /\ Post(<<c>>) /\ WorkerAlone
      /\ UNCHANGED <<modelVars, guiPaused, foreground, thermalWanted, running, fed>>
      /\ guiMs' \in Interval
  BY DEF ChooseInterval, WorkerAlone
<1>2. TypeOK /\ foreground \in BOOLEAN /\ thermalWanted \in BOOLEAN /\ running \in BOOLEAN
  BY DEF IInv, TypeOK
<1>3. c \in Command
  BY <1>1, <1>2 DEF Call, Command
<1>4. /\ commands' = Append(commands, c)
      /\ commands' \in Seq(Command) /\ Len(commands') <= MaxCommands
  BY <1>1, <1>2, <1>3, PostOne
<1>5. TypeOK'
  BY <1>1, <1>2, <1>4, GuiTypeOK DEF TypeOK, ModelTypeOK, modelVars
<1>6. Underway(commands', paused, procsEnabled, thermalEnabled, intervalMs,
               guiPaused, Wanted, Zones, guiMs')
  <2>1. Underway(commands, paused, procsEnabled, thermalEnabled, intervalMs,
                 guiPaused, Wanted, Zones, guiMs)
    BY SwitchesUnderway DEF IInv, Wanted, Zones
  <2> QED BY <1>2, <1>3, <1>4, <2>1, OneQueued DEF TypeOK
<1>7. SwitchesArrive'
  BY <1>1, <1>6, SwitchesUnderwayNext DEF WorkerAlone, samplerVars, Wanted, Zones
<1> QED BY <1>1, <1>5, <1>7 DEF IInv, modelVars

LEMMA StartRecordingStep == ASSUME IInv, StartRecording PROVE IInv'
<1> DEFINE c == ProcSampling(foreground, TRUE)
<1>1. /\ Post(<<c>>) /\ WorkerAlone
      /\ UNCHANGED <<modelVars, guiPaused, foreground, thermalWanted, guiMs>>
      /\ running' = TRUE /\ fed' = FALSE
  BY DEF StartRecording, WorkerAlone
<1>2. TypeOK /\ foreground \in BOOLEAN /\ thermalWanted \in BOOLEAN /\ running \in BOOLEAN
  BY DEF IInv, TypeOK
<1>3. c \in Command
  BY <1>1, <1>2 DEF Call, Command, ProcSampling
<1>4. /\ commands' = Append(commands, c)
      /\ commands' \in Seq(Command) /\ Len(commands') <= MaxCommands
  BY <1>1, <1>2, <1>3, PostOne
<1>5. TypeOK'
  BY <1>1, <1>2, <1>4, GuiTypeOK DEF TypeOK, ModelTypeOK, modelVars
<1>6. Underway(commands', paused, procsEnabled, thermalEnabled, intervalMs,
               guiPaused, foreground \/ TRUE, Zones, guiMs)
  <2>1. Underway(commands, paused, procsEnabled, thermalEnabled, intervalMs,
                 guiPaused, Wanted, Zones, guiMs)
    BY SwitchesUnderway DEF IInv, Wanted, Zones
  <2> QED BY <1>2, <1>3, <1>4, <2>1, OneQueued DEF TypeOK, ProcSampling
<1>7. SwitchesArrive'
  BY <1>1, <1>6, SwitchesUnderwayNext DEF WorkerAlone, samplerVars, Wanted, Zones
<1> QED BY <1>1, <1>5, <1>7 DEF IInv, modelVars

LEMMA StopRecordingStep == ASSUME IInv, StopRecording PROVE IInv'
<1> DEFINE c == ProcSampling(foreground, FALSE)
<1>1. /\ Post(<<c>>) /\ WorkerAlone
      /\ UNCHANGED <<modelVars, guiPaused, foreground, thermalWanted, guiMs, fed>>
      /\ running' = FALSE
  BY DEF StopRecording, WorkerAlone
<1>2. TypeOK /\ foreground \in BOOLEAN /\ thermalWanted \in BOOLEAN /\ running \in BOOLEAN
  BY DEF IInv, TypeOK
<1>3. c \in Command
  BY <1>1, <1>2 DEF Call, Command, ProcSampling
<1>4. /\ commands' = Append(commands, c)
      /\ commands' \in Seq(Command) /\ Len(commands') <= MaxCommands
  BY <1>1, <1>2, <1>3, PostOne
<1>5. TypeOK'
  BY <1>1, <1>2, <1>4, GuiTypeOK DEF TypeOK, ModelTypeOK, modelVars
<1>6. Underway(commands', paused, procsEnabled, thermalEnabled, intervalMs,
               guiPaused, foreground \/ FALSE, Zones, guiMs)
  <2>1. Underway(commands, paused, procsEnabled, thermalEnabled, intervalMs,
                 guiPaused, Wanted, Zones, guiMs)
    BY SwitchesUnderway DEF IInv, Wanted, Zones
  <2> QED BY <1>2, <1>3, <1>4, <2>1, OneQueued DEF TypeOK, ProcSampling
<1>7. SwitchesArrive'
  BY <1>1, <1>6, SwitchesUnderwayNext DEF WorkerAlone, samplerVars, Wanted, Zones
<1> QED BY <1>1, <1>5, <1>7 DEF IInv, modelVars

LEMMA ResetRecordingStep == ASSUME IInv, ResetRecording PROVE IInv'
<1> DEFINE c == ProcSampling(foreground, FALSE)
<1>1. /\ Post(<<c>>) /\ WorkerAlone
      /\ UNCHANGED <<modelVars, guiPaused, foreground, thermalWanted, guiMs, running, fed>>
      /\ ~running
  BY DEF ResetRecording, WorkerAlone, guiVars
<1>2. TypeOK /\ foreground \in BOOLEAN /\ thermalWanted \in BOOLEAN /\ running \in BOOLEAN
  BY DEF IInv, TypeOK
<1>3. c \in Command
  BY <1>1, <1>2 DEF Call, Command, ProcSampling
<1>4. /\ commands' = Append(commands, c)
      /\ commands' \in Seq(Command) /\ Len(commands') <= MaxCommands
  BY <1>1, <1>2, <1>3, PostOne
<1>5. TypeOK'
  BY <1>1, <1>2, <1>4, GuiTypeOK DEF TypeOK, ModelTypeOK, modelVars
<1>6. Underway(commands', paused, procsEnabled, thermalEnabled, intervalMs,
               guiPaused, foreground \/ FALSE, Zones, guiMs)
  <2>1. Underway(commands, paused, procsEnabled, thermalEnabled, intervalMs,
                 guiPaused, Wanted, Zones, guiMs)
    BY SwitchesUnderway DEF IInv, Wanted, Zones
  <2> QED BY <1>2, <1>3, <1>4, <2>1, OneQueued DEF TypeOK, ProcSampling
<1>7. SwitchesArrive'
  BY <1>1, <1>6, SwitchesUnderwayNext DEF WorkerAlone, samplerVars, Wanted, Zones
<1> QED BY <1>1, <1>5, <1>7 DEF IInv, modelVars

LEMMA SetForegroundStep == ASSUME IInv, SetForeground PROVE IInv'
<1> DEFINE c == ProcSampling(~foreground, running)
           d == ThermalSampling(thermalWanted, ~foreground)
<1>1. /\ Post(<<c, d>>) /\ WorkerAlone
      /\ UNCHANGED <<modelVars, guiPaused, thermalWanted, guiMs, running, fed>>
      /\ foreground' = ~foreground
  BY DEF SetForeground, WorkerAlone
<1>2. TypeOK /\ foreground \in BOOLEAN /\ thermalWanted \in BOOLEAN /\ running \in BOOLEAN
  BY DEF IInv, TypeOK
<1>3. c \in Command /\ d \in Command
  BY <1>2 DEF Call, Command, ProcSampling, ThermalSampling
<1>4. /\ commands' = Append(Append(commands, c), d)
      /\ Append(commands, c) \in Seq(Command)
      /\ commands' \in Seq(Command) /\ Len(commands') <= MaxCommands
  BY <1>1, <1>2, <1>3, PostTwo
<1>5. TypeOK'
  BY <1>1, <1>2, <1>4, GuiTypeOK DEF TypeOK, ModelTypeOK, modelVars
<1>6. Underway(commands', paused, procsEnabled, thermalEnabled, intervalMs,
               guiPaused, ~foreground \/ running, thermalWanted /\ ~foreground, guiMs)
  <2>1. Underway(commands, paused, procsEnabled, thermalEnabled, intervalMs,
                 guiPaused, Wanted, Zones, guiMs)
    BY SwitchesUnderway DEF IInv, Wanted, Zones
  <2>2. Underway(Append(commands, c), paused, procsEnabled, thermalEnabled, intervalMs,
                 guiPaused, ~foreground \/ running, Zones, guiMs)
    BY <1>2, <1>3, <2>1, OneQueued DEF TypeOK, ProcSampling
  <2>3. d = Call("setThermalEnabled", thermalWanted /\ ~foreground)
    BY DEF ThermalSampling
  <2> HIDE DEF c, d
  <2>4. Underway(Append(Append(commands, c), d), paused, procsEnabled, thermalEnabled,
                 intervalMs, guiPaused, ~foreground \/ running,
                 thermalWanted /\ ~foreground, guiMs)
    BY <1>3, <1>4, <2>2, <2>3, ZonesQueued
  <2> QED BY <1>4, <2>4
<1>7. SwitchesArrive'
  BY <1>1, <1>6, SwitchesUnderwayNext DEF WorkerAlone, samplerVars, Wanted, Zones
<1> QED BY <1>1, <1>5, <1>7 DEF IInv, modelVars

\* The list: a release shows what was parked, and a new view shows at once.
LEMMA UseListStep == ASSUME IInv, UseList PROVE IInv'
<1>1. UNCHANGED <<guiPaused, foreground, thermalWanted, guiMs, running, fed, commands,
                  samples, started, paused, procsEnabled, thermalEnabled, intervalMs>>
  BY DEF UseList, guiVars, samplerVars
<1>2. SwitchesArrive'
  BY <1>1 DEF IInv, SwitchesArrive, Arrives, LastCall
<1>3. /\ ModelTypeOK
      /\ ~haveSample => all = {} /\ rows = {}
      /\ ~held => rows = Rebuilt(all, view)
  BY DEF IInv, TypeOK
<1>4. /\ ModelTypeOK'
      /\ (~haveSample => all = {} /\ rows = {})'
      /\ (~held => rows = Rebuilt(all, view))'
  <2>1. CASE SetHeld(~held)
    BY <1>3, <2>1 DEF SetHeld, ModelTypeOK, Rebuilt
  <2>2. ASSUME NEW v \in View, SetView(v)
        PROVE  /\ ModelTypeOK'
               /\ (~haveSample => all = {} /\ rows = {})'
               /\ (~held => rows = Rebuilt(all, view))'
    BY <1>3, <2>2 DEF SetView, ModelTypeOK, Rebuilt
  <2> QED BY <2>1, <2>2 DEF UseList
<1>5. TypeOK'
  BY <1>1, <1>4 DEF IInv, TypeOK
<1> QED BY <1>2, <1>4, <1>5 DEF IInv

\* A sample is parked while the list is held, and shown otherwise.
LEMMA DeliverSampleStep == ASSUME IInv, DeliverSample PROVE IInv'
<1>1. /\ samples # <<>> /\ samples' = Tail(samples)
      /\ ModelOnProcesses(Head(samples))
      /\ fed' = (fed \/ running)
      /\ UNCHANGED <<guiPaused, foreground, thermalWanted, guiMs, running, commands,
                     started, paused, procsEnabled, thermalEnabled, intervalMs>>
  BY DEF DeliverSample, samplerVars
<1>2. TypeOK /\ samples \in Seq(SUBSET Row) /\ Len(samples) <= MaxSamples
  BY DEF IInv, TypeOK
<1>3. /\ Head(samples) \in SUBSET Row /\ samples' \in Seq(SUBSET Row)
      /\ Len(samples') <= MaxSamples
  <2>1. Head(samples) \in SUBSET Row /\ samples' \in Seq(SUBSET Row)
    BY <1>1, <1>2, HeadTailProperties
  <2>2. Len(samples') = Len(samples) - 1 /\ Len(samples) \in Nat
    BY <1>1, <1>2, HeadTailProperties, LenProperties
  <2>3. MaxSamples \in Nat
    BY PipelineAssumption
  <2> QED BY <1>2, <2>1, <2>2, <2>3
<1>4. SwitchesArrive'
  BY <1>1 DEF IInv, SwitchesArrive, Arrives, LastCall
<1>5. /\ ModelTypeOK'
      /\ haveSample' /\ (~held => rows = Rebuilt(all, view))'
  BY <1>1, <1>2, <1>3 DEF IInv, TypeOK, ModelOnProcesses, ModelTypeOK, Rebuilt
<1>6. TypeOK'
  BY <1>1, <1>2, <1>3, <1>5 DEF TypeOK
<1> QED BY <1>4, <1>5, <1>6 DEF IInv

\* The worker's sampling touches none of what the GUI thread keeps.
LEMMA SamplingStep ==
  ASSUME IInv, Sample(paused, procsEnabled), started' \in BOOLEAN,
         UNCHANGED <<modelVars, guiVars, commands, paused, procsEnabled,
                     thermalEnabled, intervalMs>>
  PROVE  IInv'
<1>1. UNCHANGED <<all, rows, held, haveSample, view, guiPaused, foreground,
                  thermalWanted, guiMs, running, fed, commands, paused,
                  procsEnabled, thermalEnabled, intervalMs>>
  BY DEF modelVars, guiVars
<1>2. samples' \in Seq(SUBSET Row) /\ Len(samples') <= MaxSamples
  BY SampleKeeps DEF IInv
<1>3. TypeOK'
  BY <1>1, <1>2 DEF IInv, TypeOK, ModelTypeOK
<1>4. SwitchesArrive'
  BY <1>1 DEF IInv, SwitchesArrive, Arrives, LastCall
<1> QED BY <1>1, <1>3, <1>4 DEF IInv

\* A queued call, made: its switch holds what it was to become.
LEMMA DeliverCommandStep == ASSUME IInv, DeliverCommand PROVE IInv'
<1> DEFINE c == Head(commands)
<1>1. /\ commands # <<>> /\ commands' = Tail(commands)
      /\ UNCHANGED <<all, rows, held, haveSample, view, guiPaused, foreground,
                     thermalWanted, guiMs, running, fed, started>>
  BY DEF DeliverCommand, modelVars, guiVars
<1>2. TypeOK /\ commands \in Seq(Command) /\ Len(commands) <= MaxCommands
  BY DEF IInv, TypeOK
<1>3. c \in Command /\ commands' \in Seq(Command) /\ Len(commands') <= MaxCommands
  <2>1. c \in Command /\ commands' \in Seq(Command)
    BY <1>1, <1>2, HeadTailProperties
  <2>2. Len(commands') = Len(commands) - 1 /\ Len(commands) \in Nat
    BY <1>1, <1>2, HeadTailProperties, LenProperties
  <2>3. MaxCommands \in Nat
    BY PipelineAssumption
  <2> QED BY <1>2, <2>1, <2>2, <2>3
<1>4. /\ samples' \in Seq(SUBSET Row) /\ Len(samples') <= MaxSamples
      /\ paused' = IF c.slot = "setPaused" THEN c.arg ELSE paused
      /\ procsEnabled' = IF c.slot = "setProcessesEnabled" THEN c.arg ELSE procsEnabled
      /\ thermalEnabled' = IF c.slot = "setThermalEnabled" THEN c.arg ELSE thermalEnabled
      /\ intervalMs' = IF c.slot = "setIntervalMs" THEN c.arg ELSE intervalMs
  <2> HIDE DEF c
  <2>1. samples \in Seq(SUBSET Row) /\ Len(samples) <= MaxSamples
    BY <1>2 DEF TypeOK
  <2>2. CASE /\ c.slot = "setPaused" /\ paused' = c.arg
             /\ UNCHANGED <<samples, procsEnabled, thermalEnabled, intervalMs>>
    BY <2>1, <2>2
  <2>3. CASE /\ c.slot = "setProcessesEnabled" /\ SetProcessesEnabled(c.arg)
             /\ UNCHANGED <<paused, thermalEnabled, intervalMs>>
    <3>1. CASE procsEnabled = c.arg
      BY <2>1, <2>3, <3>1 DEF SetProcessesEnabled
    <3>2. CASE procsEnabled # c.arg
      <4>1. procsEnabled' = c.arg
        BY <2>3, <3>2 DEF SetProcessesEnabled
      <4>2. Sample(paused, TRUE) \/ UNCHANGED samples
        BY <2>3, <3>2 DEF SetProcessesEnabled
      <4>3. samples' \in Seq(SUBSET Row) /\ Len(samples') <= MaxSamples
        BY <1>2, <2>1, <4>2, SampleKeeps
      <4> QED BY <2>3, <4>1, <4>3
    <3> QED BY <3>1, <3>2
  <2>4. CASE /\ c.slot = "setThermalEnabled" /\ thermalEnabled' = c.arg
             /\ UNCHANGED <<samples, paused, procsEnabled, intervalMs>>
    BY <2>1, <2>4
  <2>5. CASE /\ c.slot = "setIntervalMs" /\ intervalMs' = Bound(250, c.arg, 30000)
             /\ UNCHANGED <<samples, paused, procsEnabled, thermalEnabled>>
    <3>1. c.arg \in Interval
      BY <1>3, <2>5 DEF Command
    <3>2. c.arg \in Nat /\ 500 <= c.arg /\ c.arg <= 30000
      BY <3>1, PipelineAssumption
    <3>3. intervalMs' = c.arg
      BY <2>5, <3>2 DEF Bound
    <3> QED BY <2>1, <2>5, <3>3
  <2> QED BY <2>2, <2>3, <2>4, <2>5 DEF DeliverCommand, c
<1>5. TypeOK'
  <2> HIDE DEF c
  <2>1. /\ paused' \in BOOLEAN /\ procsEnabled' \in BOOLEAN
        /\ thermalEnabled' \in BOOLEAN /\ intervalMs' \in Interval
    BY <1>2, <1>3, <1>4 DEF TypeOK, Command
  <2> QED BY <1>1, <1>2, <1>3, <1>4, <2>1 DEF TypeOK, ModelTypeOK
<1>6. SwitchesArrive'
  <2>1. Underway(commands, paused, procsEnabled, thermalEnabled, intervalMs,
                 guiPaused, Wanted, Zones, guiMs)
    BY SwitchesUnderway DEF IInv, Wanted, Zones
  <2>2. Underway(commands', paused', procsEnabled', thermalEnabled', intervalMs',
                 guiPaused, Wanted, Zones, guiMs)
    BY <1>1, <1>2, <1>4, <2>1, HeadDelivers DEF Underway
  <2> QED BY <1>1, <2>2, SwitchesUnderwayNext DEF Wanted, Zones
<1> QED BY <1>1, <1>5, <1>6 DEF IInv

LEMMA StepIInv == IInv /\ [Next]_vars => IInv'
<1> SUFFICES ASSUME IInv, [Next]_vars PROVE IInv'
  OBVIOUS
<1>1. CASE WorkerStarts
  BY <1>1, SamplingStep DEF WorkerStarts
<1>2. CASE WorkerTicks
  BY <1>2, SamplingStep DEF WorkerTicks, samplerVars, IInv, TypeOK
<1>3. CASE UNCHANGED vars
  <2>1. UNCHANGED <<all, rows, held, haveSample, view, guiPaused, foreground,
                    thermalWanted, guiMs, running, fed, commands, samples, started,
                    paused, procsEnabled, thermalEnabled, intervalMs>>
    BY <1>3 DEF vars, modelVars, guiVars, samplerVars
  <2>2. TypeOK'
    BY <2>1 DEF IInv, TypeOK, ModelTypeOK
  <2>3. SwitchesArrive'
    BY <2>1 DEF IInv, SwitchesArrive, Arrives, LastCall
  <2> QED BY <2>1, <2>2, <2>3 DEF IInv
<1> QED
  BY <1>1, <1>2, <1>3, PauseStep, SetForegroundStep, SetThermalWantedStep,
     ChooseIntervalStep, StartRecordingStep, StopRecordingStep, ResetRecordingStep,
     UseListStep, DeliverSampleStep, DeliverCommandStep DEF Next

\* The inductive invariant holds in every reachable state.
THEOREM PipelineInvariant == Spec => []IInv
  BY InitIInv, StepIInv, PTL DEF Spec

\* Every variable keeps its kind and both queues their bounds.
THEOREM PipelineTypeOK == Spec => []TypeOK
<1>1. IInv => TypeOK
  BY DEF IInv
<1> QED BY <1>1, PipelineInvariant, PTL

\* However many calls are queued and whatever the user presses meanwhile, what
\* is queued last for a switch, or the switch when nothing is, is what the GUI
\* wants of it.
THEOREM PipelineSwitchesArrive == Spec => []SwitchesArrive
<1>1. IInv => SwitchesArrive
  BY DEF IInv
<1> QED BY <1>1, PipelineInvariant, PTL

\* A list that is held holds still, and one that is not shows the latest sample.
THEOREM PipelineHeldStill == Spec => HeldStill
<1> DEFINE Still == /\ held /\ held' /\ view' = view => rows' = rows
                    /\ ~held' => rows' = Rebuilt(all', view')
<1>1. IInv /\ IInv' /\ [Next]_vars => [Still]_vars
  <2> SUFFICES ASSUME IInv, IInv', Next PROVE Still
    OBVIOUS
  <2>1. ~held' => rows' = Rebuilt(all', view')
    BY DEF IInv
  <2>2. ASSUME held, held', view' = view PROVE rows' = rows
    <3>1. CASE UseList
      BY <2>2, <3>1 DEF UseList, SetHeld, SetView
    <3>2. CASE DeliverSample
      BY <2>2, <3>2 DEF DeliverSample, ModelOnProcesses
    <3>3. CASE UNCHANGED modelVars
      BY <3>3 DEF modelVars
    <3> QED BY <3>1, <3>2, <3>3
            DEF Next, Pause, SetForeground, SetThermalWanted, ChooseInterval,
                StartRecording, StopRecording, ResetRecording, WorkerStarts,
                WorkerTicks, DeliverCommand
  <2> QED BY <2>1, <2>2
<1> QED BY <1>1, PipelineInvariant, PTL DEF Spec, HeldStill
==============================================================================
