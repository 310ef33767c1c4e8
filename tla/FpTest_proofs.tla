---------------------------- MODULE FpTest_proofs ----------------------------
(***************************************************************************)
(* Proofs about FpTest for any number of signals on their way: what the page *)
(* shows of the daemon is right once they are through, however they and the  *)
(* page's own reads interleave.                                              *)
(***************************************************************************)
EXTENDS FpTest, SequenceTheorems, TLAPS

IsTurn(s) == s.name = "StateChanged"

\* The last state change of a queue, if it has one, is about the client's state.
LastIsFor(queue, client) ==
  \A i \in 1 .. Len(queue) :
    /\ IsTurn(queue[i])
    /\ \A j \in 1 .. Len(queue) : IsTurn(queue[j]) => j <= i
    => queue[i].state = StateWord(client)

NoTurns(queue) == \A i \in 1 .. Len(queue) : ~IsTurn(queue[i])

LEMMA ArrivesIsLast ==
  StateArrives <=> /\ LastIsFor(signals, worksFor)
                   /\ NoTurns(signals) => ~present \/ state = StateWord(worksFor)
  BY DEF StateArrives, LastTurn, LastIsFor, NoTurns, IsTurn

\* What the types say of a signal.
LEMMA SignalFields ==
  ASSUME NEW s \in Signal
  PROVE  IsTurn(s) => s.state \in StateWords
  BY DEF Signal, IsTurn, Endings

LEMMA TurnsAreSignals ==
  ASSUME NEW client \in {"nobody", "app", "lock"}
  PROVE  /\ Turns(client) \in Signal /\ IsTurn(Turns(client))
         /\ Turns(client).state = StateWord(client)
         /\ StateWord(client) \in StateWords
<1>1. StateWord(client) \in StateWords
  BY DEF StateWord, StateWords
<1> QED BY <1>1 DEF Turns, Signal, IsTurn

LEMMA PlainSignals ==
  ASSUME NEW name \in Endings \cup {"AcquisitionInfo"}
  PROVE  [name |-> name] \in Signal /\ ~IsTurn([name |-> name])
  BY DEF Signal, IsTurn, Endings

\* A state change sent last is the last one.
LEMMA TurnSent ==
  ASSUME NEW queue \in Seq(Signal), NEW client \in {"nobody", "app", "lock"}
  PROVE  /\ LastIsFor(Append(queue, Turns(client)), client)
         /\ ~NoTurns(Append(queue, Turns(client)))
<1> DEFINE n == Len(queue)
           t == Turns(client)
           longer == Append(queue, t)
<1>1. /\ n \in Nat /\ Len(longer) = n + 1 /\ longer[n + 1] = t
      /\ IsTurn(t) /\ t.state = StateWord(client)
  BY AppendProperties, LenProperties, TurnsAreSignals
<1> HIDE DEF longer, t
<1>2. n + 1 \in 1 .. Len(longer) /\ IsTurn(longer[n + 1])
  BY <1>1
<1>3. ASSUME NEW i \in 1 .. Len(longer), IsTurn(longer[i]),
             \A j \in 1 .. Len(longer) : IsTurn(longer[j]) => j <= i
      PROVE  longer[i].state = StateWord(client)
  <2>1. n + 1 <= i
    BY <1>2, <1>3
  <2>2. i = n + 1
    BY <1>1, <2>1
  <2> QED BY <1>1, <2>2
<1> QED BY <1>2, <1>3 DEF LastIsFor, NoTurns, longer, t

\* Any other signal sent last changes nothing about that.
LEMMA OtherSent ==
  ASSUME NEW queue \in Seq(Signal), NEW s \in Signal, ~IsTurn(s), NEW client
  PROVE  /\ LastIsFor(queue, client) => LastIsFor(Append(queue, s), client)
         /\ NoTurns(Append(queue, s)) => NoTurns(queue)
<1> DEFINE n == Len(queue)
           longer == Append(queue, s)
<1>1. /\ n \in Nat /\ Len(longer) = n + 1 /\ longer[n + 1] = s
      /\ \A i \in 1 .. n : longer[i] = queue[i]
  BY AppendProperties, LenProperties
<1> HIDE DEF longer
<1>2. ASSUME LastIsFor(queue, client), NEW i \in 1 .. Len(longer), IsTurn(longer[i]),
             \A j \in 1 .. Len(longer) : IsTurn(longer[j]) => j <= i
      PROVE  longer[i].state = StateWord(client)
  <2>1. i # n + 1
    BY <1>1, <1>2
  <2>2. i \in 1 .. n /\ queue[i] = longer[i]
    BY <1>1, <2>1
  <2>3. \A j \in 1 .. n : IsTurn(queue[j]) => j <= i
    BY <1>1, <1>2
  <2> QED BY <1>2, <2>2, <2>3 DEF LastIsFor
<1>3. ASSUME NoTurns(longer) PROVE NoTurns(queue)
  BY <1>1, <1>3 DEF NoTurns
<1> QED BY <1>2, <1>3 DEF LastIsFor, longer

\* The oldest signal, taken off, leaves the last state change the last, unless
\* it was that one.
LEMMA HeadTaken ==
  ASSUME NEW queue \in Seq(Signal), queue # <<>>, NEW client, LastIsFor(queue, client)
  PROVE  /\ LastIsFor(Tail(queue), client)
         /\ NoTurns(Tail(queue)) /\ IsTurn(Head(queue))
              => Head(queue).state = StateWord(client)
         /\ NoTurns(Tail(queue)) /\ ~IsTurn(Head(queue)) => NoTurns(queue)
<1> DEFINE n == Len(queue)
           rest == Tail(queue)
<1>1. /\ n \in Nat \ {0} /\ Len(rest) = n - 1 /\ Head(queue) = queue[1]
      /\ \A i \in 1 .. n - 1 : rest[i] = queue[i + 1]
  BY HeadTailProperties, LenProperties, EmptySeq
<1> HIDE DEF rest
<1>2. ASSUME NEW i \in 2 .. n PROVE i - 1 \in 1 .. Len(rest) /\ rest[i - 1] = queue[i]
  <2>1. i - 1 \in 1 .. n - 1 /\ (i - 1) + 1 = i
    BY <1>1, <1>2
  <2> QED BY <1>1, <2>1
<1>3. ASSUME NoTurns(rest) PROVE \A i \in 2 .. n : ~IsTurn(queue[i])
  BY <1>2, <1>3 DEF NoTurns
<1>4. ASSUME NoTurns(rest), IsTurn(queue[1]) PROVE queue[1].state = StateWord(client)
  <2>1. \A j \in 1 .. n : IsTurn(queue[j]) => j <= 1
    BY <1>1, <1>3, <1>4
  <2> QED BY <1>1, <1>4, <2>1 DEF LastIsFor
<1>5. ASSUME NoTurns(rest), ~IsTurn(queue[1]) PROVE NoTurns(queue)
  BY <1>1, <1>3, <1>5 DEF NoTurns
<1>6. ASSUME NEW i \in 1 .. Len(rest), IsTurn(rest[i]),
             \A j \in 1 .. Len(rest) : IsTurn(rest[j]) => j <= i
      PROVE  rest[i].state = StateWord(client)
  <2>1. i + 1 \in 1 .. n /\ rest[i] = queue[i + 1]
    BY <1>1
  <2>2. ASSUME NEW j \in 1 .. n, IsTurn(queue[j]) PROVE j <= i + 1
    <3>1. CASE j = 1
      BY <1>1, <3>1
    <3>2. CASE j # 1
      <4>1. j \in 2 .. n
        BY <1>1, <3>2
      <4>2. j - 1 \in 1 .. Len(rest) /\ rest[j - 1] = queue[j]
        BY <1>2, <4>1
      <4>3. j - 1 <= i
        BY <1>6, <2>2, <4>2
      <4> QED BY <1>1, <4>1, <4>3
    <3> QED BY <3>1, <3>2
  <2> QED BY <1>6, <2>1, <2>2 DEF LastIsFor
<1>7. LastIsFor(rest, client)
  BY <1>6 DEF LastIsFor
<1> QED BY <1>1, <1>4, <1>5, <1>7 DEF rest

\* A read of the daemon's state, answered or not, fits what it is working for.
LEMMA ReadFits ==
  ASSUME NEW client \in {"nobody", "app", "lock"}, ReadState(client)
  PROVE  /\ present' \in BOOLEAN /\ state' \in StateWords \cup {""}
         /\ present' <=> state' # ""
         /\ ~present' \/ state' = StateWord(client)
  BY DEF ReadState, StateWord, StateWords

LEMMA TwoSent ==
  ASSUME NEW queue \in Seq(Signal), NEW s \in Signal, NEW t \in Signal
  PROVE  queue \o <<s, t>> = Append(Append(queue, s), t)
<1>1. <<s>> \in Seq(Signal) /\ <<t>> \in Seq(Signal)
  OBVIOUS
<1>2. <<s, t>> = <<s>> \o <<t>>
  <2>1. /\ <<s, t>> \in Seq(Signal) /\ Len(<<s, t>>) = 2
        /\ <<s, t>>[1] = s /\ <<s, t>>[2] = t
        /\ Len(<<s>>) = 1 /\ Len(<<t>>) = 1 /\ <<s>>[1] = s /\ <<t>>[1] = t
    OBVIOUS
  <2>2. /\ <<s>> \o <<t>> \in Seq(Signal) /\ Len(<<s>> \o <<t>>) = 2
        /\ (<<s>> \o <<t>>)[1] = s /\ (<<s>> \o <<t>>)[2] = t
    BY <1>1, <2>1, ConcatProperties
  <2>3. \A i \in 1 .. 2 : <<s, t>>[i] = (<<s>> \o <<t>>)[i]
    BY <2>1, <2>2
  <2> QED BY Zenon, <2>1, <2>2, <2>3, SeqEqual
<1>3. Append(queue, s) \in Seq(Signal)
  BY AppendProperties
<1>4. /\ Append(queue, s) = queue \o <<s>>
      /\ Append(Append(queue, s), t) = Append(queue, s) \o <<t>>
  BY <1>3, AppendIsConcat
<1>5. queue \o (<<s>> \o <<t>>) = (queue \o <<s>>) \o <<t>>
  BY <1>1, ConcatAssociative
<1> QED BY <1>2, <1>4, <1>5

\* The daemon takes up work or puts it down: its state change is the last one.
LEMMA DaemonTurns ==
  ASSUME TypeOK, NEW client \in {"nobody", "app", "lock"},
         Begins(client) \/ \E ending \in Endings : client = "nobody" /\ Ends(ending)
  PROVE  /\ worksFor' = client /\ signals' \in Seq(Signal) /\ Len(signals') <= MaxSignals
         /\ LastIsFor(signals', worksFor') /\ ~NoTurns(signals')
<1>1. signals \in Seq(Signal) /\ Len(signals) \in Nat /\ MaxSignals \in Nat
  BY LenProperties, FpAssumption DEF TypeOK
<1>2. Turns(client) \in Signal
  BY TurnsAreSignals
<1>3. CASE Begins(client)
  <2> DEFINE t == Turns(client)
  <2>1. /\ worksFor' = client /\ signals' = signals \o <<t>>
        /\ Len(signals) + Len(<<t>>) <= MaxSignals
    BY <1>3 DEF Begins, Sends
  <2>2. signals' = Append(signals, t)
    BY <1>1, <1>2, <2>1, AppendIsConcat
  <2>3. signals' \in Seq(Signal) /\ Len(signals') = Len(signals) + 1 /\ Len(<<t>>) = 1
    BY <1>1, <1>2, <2>2, AppendProperties
  <2>4. LastIsFor(signals', client) /\ ~NoTurns(signals')
    BY <1>1, <2>2, TurnSent
  <2> QED BY <1>1, <2>1, <2>3, <2>4
<1>4. ASSUME NEW ending \in Endings, client = "nobody", Ends(ending)
      PROVE  /\ worksFor' = client /\ signals' \in Seq(Signal)
             /\ Len(signals') <= MaxSignals
             /\ LastIsFor(signals', worksFor') /\ ~NoTurns(signals')
  <2> DEFINE s == [name |-> ending]
             t == Turns("nobody")
             mid == Append(signals, s)
  <2>1. /\ worksFor' = client /\ signals' = signals \o <<s, t>>
        /\ Len(signals) + Len(<<s, t>>) <= MaxSignals
    BY <1>4 DEF Ends, Sends
  <2>2. s \in Signal /\ t \in Signal
    BY <1>2, <1>4, PlainSignals
  <2> HIDE DEF s, t
  <2>3. mid \in Seq(Signal) /\ Len(mid) = Len(signals) + 1
    BY <1>1, <2>2, AppendProperties
  <2>4. signals' = Append(mid, t)
    BY <1>1, <2>1, <2>2, TwoSent
  <2>5. signals' \in Seq(Signal) /\ Len(signals') = Len(signals) + 2 /\ Len(<<s, t>>) = 2
    BY <1>1, <2>2, <2>3, <2>4, AppendProperties
  <2>6. LastIsFor(signals', client) /\ ~NoTurns(signals')
    BY <1>4, <2>3, <2>4, TurnSent DEF t
  <2> QED BY <1>1, <2>1, <2>5, <2>6
<1> QED BY <1>3, <1>4

LEMMA InitIInv == Init => IInv
<1> SUFFICES ASSUME Init PROVE IInv
  OBVIOUS
<1>1. signals = <<>> /\ signals \in Seq(Signal) /\ Len(signals) = 0
  BY EmptySeq DEF Init
<1>2. /\ worksFor \in {"nobody", "app", "lock"}
      /\ testing = FALSE /\ timer = FALSE /\ hint = FALSE /\ present = FALSE
      /\ result = "" /\ reply = "started" /\ state = ""
  BY DEF Init
<1>3. TypeOK
  <2>1. Len(signals) <= MaxSignals
    BY <1>1, FpAssumption
  <2>2. reply \in Replies
    BY <1>2 DEF Replies
  <2> QED BY <1>1, <1>2, <2>1, <2>2 DEF TypeOK
<1>4. StateArrives
  <2>1. \A i \in 1 .. Len(signals) : FALSE
    BY <1>1
  <2> QED BY <1>2, <2>1 DEF StateArrives
<1> QED BY <1>3, <1>4 DEF IInv

\* Whatever ends what the daemon does, or begins it, and whatever the app reads
\* of it in the same step.
LEMMA TurnStep ==
  ASSUME IInv, NEW client \in {"nobody", "app", "lock"},
         Begins(client) \/ \E ending \in Endings : client = "nobody" /\ Ends(ending),
         UNCHANGED <<present, state>> \/ ReadState(client),
         testing' \in BOOLEAN, timer' = testing', hint' \in BOOLEAN, reply' \in Replies,
         result' \in {"", "started", "match", "nomatch", "busy", "denied", "error"}
  PROVE  IInv'
<1>1. TypeOK
  BY DEF IInv
<1>2. /\ worksFor' = client /\ signals' \in Seq(Signal) /\ Len(signals') <= MaxSignals
      /\ LastIsFor(signals', worksFor') /\ ~NoTurns(signals')
  BY <1>1, DaemonTurns
<1>3. /\ present' \in BOOLEAN /\ state' \in StateWords \cup {""}
      /\ present' <=> state' # ""
  <2>1. CASE UNCHANGED <<present, state>>
    BY <1>1, <2>1 DEF TypeOK
  <2> QED BY <2>1, ReadFits
<1>4. TypeOK'
  BY <1>2, <1>3 DEF TypeOK
<1>5. StateArrives'
  BY <1>2 DEF StateArrives, LastTurn, LastIsFor, NoTurns, IsTurn
<1> QED BY <1>4, <1>5 DEF IInv

\* The daemon goes on as it was; the app may read its state.
LEMMA QuietStep ==
  ASSUME IInv, UNCHANGED daemonVars,
         UNCHANGED <<present, state>> \/ ReadState(worksFor),
         testing' \in BOOLEAN, timer' = testing', hint' \in BOOLEAN, reply' \in Replies,
         result' \in {"", "started", "match", "nomatch", "busy", "denied", "error"}
  PROVE  IInv'
<1>1. TypeOK /\ StateArrives /\ worksFor \in {"nobody", "app", "lock"}
  BY DEF IInv, TypeOK
<1>2. worksFor' = worksFor /\ signals' = signals
  BY DEF daemonVars
<1>3. CASE UNCHANGED <<present, state>>
  <2>1. TypeOK'
    BY <1>1, <1>2, <1>3 DEF TypeOK
  <2>2. StateArrives'
    BY <1>1, <1>2, <1>3 DEF StateArrives, LastTurn
  <2> QED BY <2>1, <2>2 DEF IInv
<1>4. CASE ReadState(worksFor)
  <2>1. /\ present' \in BOOLEAN /\ state' \in StateWords \cup {""}
        /\ present' <=> state' # ""
        /\ ~present' \/ state' = StateWord(worksFor)
    BY <1>1, <1>4, ReadFits
  <2>2. TypeOK'
    BY <1>1, <1>2, <2>1 DEF TypeOK
  <2>3. StateArrives'
    BY <1>1, <1>2, <2>1 DEF StateArrives, LastTurn
  <2> QED BY <2>2, <2>3 DEF IInv
<1> QED BY <1>3, <1>4

\* The oldest signal arrives.  What it says of the state is shown, what ends a
\* test reads the state, and either way the later ones go on deciding.
LEMMA DeliverSignalStep == ASSUME IInv, DeliverSignal PROVE IInv'
<1> DEFINE s == Head(signals)
<1>1. TypeOK /\ StateArrives /\ worksFor \in {"nobody", "app", "lock"}
      /\ signals \in Seq(Signal) /\ Len(signals) \in Nat /\ Len(signals) <= MaxSignals
      /\ MaxSignals \in Nat
  BY LenProperties, FpAssumption DEF IInv, TypeOK
<1>2. /\ signals # <<>> /\ signals' = Tail(signals) /\ worksFor' = worksFor
      /\ OnEnding(s) \/ OnAcquisitionInfo(s) \/ OnStateChanged(s)
  BY DEF DeliverSignal
<1>3. /\ s \in Signal /\ signals' \in Seq(Signal) /\ Len(signals') = Len(signals) - 1
  BY <1>1, <1>2, HeadTailProperties
<1>4. /\ LastIsFor(signals', worksFor)
      /\ NoTurns(signals') /\ IsTurn(s) => s.state = StateWord(worksFor)
      /\ NoTurns(signals') /\ ~IsTurn(s) => ~present \/ state = StateWord(worksFor)
  BY <1>1, <1>2, HeadTaken, ArrivesIsLast
<1> HIDE DEF s
<1>5. /\ present' \in BOOLEAN /\ state' \in StateWords \cup {""}
      /\ present' <=> state' # ""
      /\ NoTurns(signals') => ~present' \/ state' = StateWord(worksFor)
      /\ testing' \in BOOLEAN /\ timer' = testing' /\ hint' \in BOOLEAN
      /\ reply' = reply
      /\ result' \in {"", "started", "match", "nomatch", "busy", "denied", "error"}
  <2>1. CASE OnEnding(s)
    <3>1. /\ ~IsTurn(s) /\ reply' = reply /\ hint' = hint
      BY <2>1 DEF OnEnding, Endings, IsTurn
    <3>2. CASE testing
      <4>1. result' = ResultOf(s.name) /\ timer' = FALSE /\ testing' = FALSE
            /\ ReadState(worksFor)
        BY <2>1, <3>2 DEF OnEnding, EndTest
      <4>2. ResultOf(s.name) \in {"match", "nomatch", "error"}
        BY DEF ResultOf
      <4>3. /\ present' \in BOOLEAN /\ state' \in StateWords \cup {""}
            /\ present' <=> state' # ""
            /\ ~present' \/ state' = StateWord(worksFor)
        BY <1>1, <4>1, ReadFits
      <4> QED BY <1>1, <3>1, <4>1, <4>2, <4>3 DEF TypeOK
    <3>3. CASE ~testing
      <4>1. UNCHANGED <<result, testing, timer, present, state>>
        BY <2>1, <3>3 DEF OnEnding
      <4> QED BY <1>1, <1>4, <3>1, <4>1 DEF TypeOK
    <3> QED BY <3>2, <3>3
  <2>2. CASE OnAcquisitionInfo(s)
    <3>1. /\ ~IsTurn(s) /\ hint' = (hint \/ testing)
          /\ UNCHANGED <<testing, timer, result, reply, present, state>>
      BY <2>2 DEF OnAcquisitionInfo, IsTurn
    <3> QED BY <1>1, <1>4, <3>1 DEF TypeOK
  <2>3. CASE OnStateChanged(s)
    <3>1. /\ IsTurn(s) /\ UNCHANGED <<testing, timer, result, reply, hint>>
      BY <2>3 DEF OnStateChanged, IsTurn
    <3>2. s.state \in StateWords /\ "" \notin StateWords
      BY <1>3, <3>1, SignalFields DEF StateWords, StateWord
    <3>3. CASE state = s.state
      <4>1. UNCHANGED <<present, state>>
        BY <2>3, <3>3 DEF OnStateChanged
      <4> QED BY <1>1, <1>4, <3>1, <3>3, <4>1 DEF TypeOK
    <3>4. CASE state # s.state
      <4>1. state' = s.state /\ present' = TRUE
        BY <2>3, <3>4 DEF OnStateChanged
      <4> QED BY <1>1, <1>4, <3>1, <3>2, <4>1 DEF TypeOK
    <3> QED BY <3>3, <3>4
  <2> QED BY <1>2, <2>1, <2>2, <2>3
<1>6. TypeOK'
  <2>1. Len(signals') <= MaxSignals
    BY <1>1, <1>3
  <2>2. worksFor' \in {"nobody", "app", "lock"} /\ reply' \in Replies
    BY <1>1, <1>2, <1>5 DEF TypeOK
  <2> QED BY <1>3, <1>5, <2>1, <2>2 DEF TypeOK
<1>7. StateArrives'
  BY <1>2, <1>4, <1>5 DEF StateArrives, LastTurn, LastIsFor, NoTurns, IsTurn
<1> QED BY <1>6, <1>7 DEF IInv

\* startTest(), by what the daemon answers.
LEMMA StartTestStep == ASSUME IInv, StartTest PROVE IInv'
<1>1. TypeOK /\ ~testing /\ hint' = FALSE
  BY DEF IInv, StartTest
<1>2. CASE StartUnanswered
  <2>1. /\ reply' = "none" /\ result' = "error"
        /\ UNCHANGED <<testing, timer, present, state>>
        /\ Begins("app") \/ UNCHANGED daemonVars
    BY <1>2 DEF StartUnanswered
  <2> QED BY <1>1, <2>1, TurnStep, QuietStep DEF TypeOK, Replies
<1>3. CASE Started
  BY <1>1, <1>3, TurnStep DEF Started, Replies
<1>4. CASE NotStarted
  <2>1. /\ reply' \in Replies /\ result' \in {"busy", "denied", "error"}
        /\ UNCHANGED daemonVars /\ UNCHANGED <<testing, timer>>
        /\ ReadState(worksFor)
    BY <1>4 DEF NotStarted, Replies
  <2> QED BY <1>1, <2>1, QuietStep DEF TypeOK
<1> QED BY <1>2, <1>3, <1>4 DEF StartTest

\* stopTest(): Abort, taken or not, and the end of the test.
LEMMA StopTestStep == ASSUME IInv, StopTest PROVE IInv'
<1>1. TypeOK /\ Abort /\ UNCHANGED <<result, hint>>
      /\ timer' = FALSE /\ testing' = FALSE /\ ReadState(worksFor')
  BY DEF IInv, StopTest, EndTest
<1>2. CASE worksFor = "app" /\ Ends("Aborted") /\ reply' \in {"started", reply}
  <2>1. worksFor' = "nobody" /\ reply' \in Replies /\ "Aborted" \in Endings
    BY <1>1, <1>2 DEF Ends, TypeOK, Replies, Endings
  <2> QED BY <1>1, <1>2, <2>1, TurnStep DEF TypeOK
<1>3. CASE UNCHANGED daemonVars /\ reply' \in {reply, "denied", "other"}
  <2>1. worksFor' = worksFor /\ reply' \in Replies
    BY <1>1, <1>3 DEF daemonVars, TypeOK, Replies
  <2> QED BY <1>1, <1>3, <2>1, QuietStep DEF TypeOK
<1> QED BY <1>1, <1>2, <1>3 DEF Abort

LEMMA StepIInv == IInv /\ [Next]_vars => IInv'
<1> SUFFICES ASSUME IInv, [Next]_vars PROVE IInv'
  OBVIOUS
<1>0. TypeOK
  BY DEF IInv
<1>1. CASE LockScreenIdentifies
  <2>1. Begins("lock") /\ UNCHANGED <<testing, timer, result, reply, hint, present, state>>
    BY <1>1 DEF LockScreenIdentifies, Untouched
  <2> QED BY <1>0, <2>1, TurnStep DEF TypeOK
<1>2. CASE IdentificationEnds
  <2>1. /\ \E ending \in Endings : Ends(ending)
        /\ UNCHANGED <<testing, timer, result, reply, hint, present, state>>
    BY <1>2 DEF IdentificationEnds, Untouched
  <2> QED BY <1>0, <2>1, TurnStep DEF TypeOK
<1>3. CASE FingerMoves
  <2> DEFINE s == [name |-> "AcquisitionInfo"]
  <2>1. /\ signals' = signals \o <<s>> /\ Len(signals) + Len(<<s>>) <= MaxSignals
        /\ UNCHANGED <<worksFor, testing, timer, result, reply, hint, present, state>>
    BY <1>3 DEF FingerMoves, Sends, Untouched
  <2>2. s \in Signal /\ ~IsTurn(s)
    BY PlainSignals
  <2>3. signals \in Seq(Signal) /\ Len(signals) \in Nat
    BY <1>0, LenProperties DEF TypeOK
  <2> HIDE DEF s
  <2>4. signals' = Append(signals, s)
    BY <2>1, <2>2, <2>3, AppendIsConcat
  <2>5. signals' \in Seq(Signal) /\ Len(signals') = Len(signals) + 1 /\ Len(<<s>>) = 1
    BY <2>2, <2>3, <2>4, AppendProperties
  <2>6. TypeOK'
    BY <1>0, <2>1, <2>5 DEF TypeOK
  <2>7. /\ LastIsFor(signals', worksFor)
        /\ NoTurns(signals') => ~present \/ state = StateWord(worksFor)
    BY <2>2, <2>3, <2>4, OtherSent, ArrivesIsLast DEF IInv
  <2>8. StateArrives'
    BY <2>1, <2>7 DEF StateArrives, LastTurn, LastIsFor, NoTurns, IsTurn
  <2> QED BY <2>6, <2>8 DEF IInv
<1>4. CASE Refresh
  BY <1>0, <1>4, QuietStep DEF Refresh, TypeOK
<1>5. CASE Timeout
  <2>1. /\ timer' = FALSE /\ testing' = FALSE /\ result' = "error"
        /\ ReadState(worksFor) /\ UNCHANGED daemonVars /\ UNCHANGED <<reply, hint>>
    BY <1>5 DEF Timeout, EndTest
  <2> QED BY <1>0, <2>1, QuietStep DEF TypeOK
<1>6. CASE UNCHANGED vars
  BY <1>0, <1>6, QuietStep DEF vars, TypeOK
<1> QED
  BY <1>1, <1>2, <1>3, <1>4, <1>5, <1>6, StartTestStep, StopTestStep,
     DeliverSignalStep DEF Next

\* The inductive invariant holds in every reachable state.
THEOREM FpInvariant == Spec => []IInv
  BY InitIInv, StepIInv, PTL DEF Spec

\* Every variable keeps its kind, the timer runs exactly during a test.
THEOREM FpTypeOK == Spec => []TypeOK
<1>1. IInv => TypeOK
  BY DEF IInv
<1> QED BY <1>1, FpInvariant, PTL

\* However the daemon's signals and the page's reads overtake each other, the
\* state shown is the daemon's once the signals are through.
THEOREM FpStateArrives == Spec => []StateArrives
<1>1. IInv => StateArrives
  BY DEF IInv
<1> QED BY <1>1, FpInvariant, PTL
==============================================================================
