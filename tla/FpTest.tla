------------------------------- MODULE FpTest -------------------------------
(***************************************************************************)
(* The fingerprint test (fpmon.cpp): one Identify at a time, asked of the   *)
(* fingerprint daemon over the system bus, and whatever ends it: one of the *)
(* daemon's signals, the user, or the 30-second timer.  The daemon is not   *)
(* part of the program: it works for one client at a time, here the app or  *)
(* the lock screen, and its signals reach every client, later and in order. *)
(***************************************************************************)
EXTENDS Naturals, Sequences

CONSTANT MaxSignals   \* bound: signals on their way to the app

ASSUME FpAssumption == MaxSignals \in Nat

VARIABLES
  worksFor,  \* whom the daemon identifies for: "nobody", "app", "lock" (external)
  signals,   \* signals on their way to the app (external)
  testing,   \* m_testing
  timer,     \* m_timeout is active
  result,    \* m_result
  reply,     \* m_replyCode, by what startTest() makes of it
  hint,      \* m_hint is not empty
  present,   \* m_present
  state      \* m_state

daemonVars == <<worksFor, signals>>
vars == <<daemonVars, testing, timer, result, reply, hint, present, state>>

\* The signals that report the end of an identification; Verified ends a
\* verification, which only the lock screen asks for.
Endings == {"Identified", "Verified", "Failed", "Aborted", "ErrorInfo"}

StateWord(client) == IF client = "nobody" THEN "FPSTATE_IDLE" ELSE "FPSTATE_IDENTIFYING"
StateWords == {StateWord(c) : c \in {"nobody", "app"}}

Signal == [name : Endings \cup {"AcquisitionInfo"}]
          \cup [name : {"StateChanged"}, state : StateWords]

Replies == {"none", "started", "busy", "denied", "other"}

Init ==
  /\ worksFor \in {"nobody", "lock"}
  /\ signals = <<>>
  /\ testing = FALSE /\ timer = FALSE
  /\ result = "" /\ reply = "started" /\ hint = FALSE
  /\ present = FALSE /\ state = ""

------------------------------------------------------------------------------
(* The daemon *)

Sends(sent) ==
  /\ Len(signals) + Len(sent) <= MaxSignals
  /\ signals' = signals \o sent

Turns(client) == [name |-> "StateChanged", state |-> StateWord(client)]

\* The daemon takes up work for a client, or puts it down with a last signal.
Begins(client) == worksFor' = client /\ Sends(<<Turns(client)>>)

Ends(ending) == worksFor' = "nobody" /\ Sends(<<[name |-> ending], Turns("nobody")>>)

Untouched == UNCHANGED <<testing, timer, result, reply, hint, present, state>>

LockScreenIdentifies ==
  /\ worksFor = "nobody"
  /\ Begins("lock")
  /\ Untouched

IdentificationEnds ==
  /\ \/ worksFor = "lock" /\ \E ending \in Endings : Ends(ending)
     \/ worksFor = "app" /\ \E ending \in Endings \ {"Verified"} : Ends(ending)
  /\ Untouched

FingerMoves ==
  /\ worksFor # "nobody"
  /\ Sends(<<[name |-> "AcquisitionInfo"]>>)
  /\ UNCHANGED worksFor
  /\ Untouched

------------------------------------------------------------------------------
(* The app *)

\* The part of refresh() that asks the daemon for its state; it may not answer.
ReadState(client) ==
  \/ present' = TRUE /\ state' = StateWord(client)
  \/ present' = FALSE /\ state' = ""

\* refresh(), when the page opens.
Refresh ==
  /\ ReadState(worksFor)
  /\ UNCHANGED <<daemonVars, testing, timer, result, reply, hint>>

\* startTest() up to the answer: no answer to Identify, which the daemon may
\* have taken up all the same.
StartUnanswered ==
  /\ reply' = "none"
  /\ result' = "error"
  /\ \/ worksFor = "nobody" /\ Begins("app")
     \/ UNCHANGED daemonVars
  /\ UNCHANGED <<testing, timer, present, state>>

\* A slip: a test without its timer.
StartedUntimed ==
  /\ worksFor = "nobody"
  /\ Begins("app")
  /\ reply' = "started" /\ result' = "started"
  /\ testing' = TRUE
  /\ UNCHANGED timer
  /\ ReadState("app")

Started ==
  /\ worksFor = "nobody"
  /\ Begins("app")
  /\ reply' = "started" /\ result' = "started"
  /\ testing' = TRUE
  /\ timer' = TRUE
  /\ ReadState("app")

\* Busy while the daemon works for anyone, denied or refused at any time.
NotStarted ==
  /\ \/ worksFor # "nobody" /\ reply' = "busy" /\ result' = "busy"
     \/ reply' = "denied" /\ result' = "denied"
     \/ reply' = "other" /\ result' = "error"
  /\ UNCHANGED <<daemonVars, testing, timer>>
  /\ ReadState(worksFor)

\* startTest(): the button is there while no test runs and the daemon answers.
StartTest ==
  /\ ~testing
  /\ present
  /\ hint' = FALSE
  /\ StartUnanswered \/ Started \/ NotStarted

\* endTest(), its refresh() with it.
EndTest(client) ==
  /\ timer' = FALSE
  /\ testing' = FALSE
  /\ ReadState(client)

\* Abort, which the daemon takes only from the client it works for.  Whether it
\* is taken and whether it is answered are two things.
Abort ==
  \/ worksFor = "app" /\ Ends("Aborted") /\ reply' \in {"started", reply}
  \/ UNCHANGED <<daemonVars, reply>>
  \/ worksFor # "app" /\ UNCHANGED daemonVars /\ reply' \in {"denied", "other"}

\* stopTest(), by the button or by leaving the page.
StopTest ==
  /\ testing
  /\ Abort
  /\ EndTest(worksFor')
  /\ UNCHANGED <<result, hint>>

\* The 30 seconds are over.
Timeout ==
  /\ timer
  /\ testing
  /\ result' = "error"
  /\ EndTest(worksFor)
  /\ UNCHANGED <<daemonVars, reply, hint>>

ResultOf(ending) ==
  CASE ending \in {"Identified", "Verified"} -> "match"
    [] ending = "Failed" -> "nomatch"
    [] OTHER -> "error"

\* onIdentified(), onVerified(), onFailed(), onAborted() and onErrorInfo()
OnEnding(s) ==
  /\ s.name \in Endings
  /\ IF testing THEN result' = ResultOf(s.name) /\ EndTest(worksFor)
                ELSE UNCHANGED <<result, testing, timer, present, state>>
  /\ UNCHANGED <<reply, hint>>

OnAcquisitionInfo(s) ==
  /\ s.name = "AcquisitionInfo"
  /\ hint' = (hint \/ testing)
  /\ UNCHANGED <<testing, timer, result, reply, present, state>>

\* A slip: a signal that does not count as a sign of life.
OnStateChangedOnly(s) ==
  /\ s.name = "StateChanged"
  /\ state' = s.state
  /\ UNCHANGED <<present, testing, timer, result, reply, hint>>

\* A slip: guarded like the signals that end a test.
OnStateChangedInTest(s) ==
  /\ s.name = "StateChanged"
  /\ IF ~testing THEN UNCHANGED <<present, state>>
                 ELSE state' = s.state /\ present' = TRUE
  /\ UNCHANGED <<testing, timer, result, reply, hint>>

\* A state that is the one shown changes nothing, presence included.
OnStateChanged(s) ==
  /\ s.name = "StateChanged"
  /\ IF state = s.state THEN UNCHANGED <<present, state>>
                        ELSE state' = s.state /\ present' = TRUE
  /\ UNCHANGED <<testing, timer, result, reply, hint>>

DeliverSignal ==
  /\ signals # <<>>
  /\ signals' = Tail(signals)
  /\ UNCHANGED worksFor
  /\ LET s == Head(signals)
     IN  OnEnding(s) \/ OnAcquisitionInfo(s) \/ OnStateChanged(s)

Next ==
  \/ LockScreenIdentifies \/ IdentificationEnds \/ FingerMoves
  \/ Refresh \/ StartTest \/ StopTest \/ Timeout \/ DeliverSignal

\* The 30-second timer fires.  The daemon, the user and the bus owe nothing.
Spec == Init /\ [][Next]_vars /\ WF_vars(Timeout)
------------------------------------------------------------------------------
(* Properties *)

\* Every variable holds a value of its kind, the timer runs exactly during a
\* test, and a state is shown exactly of a daemon taken to be there.
TypeOK ==
  /\ worksFor \in {"nobody", "app", "lock"}
  /\ signals \in Seq(Signal) /\ Len(signals) <= MaxSignals
  /\ testing \in BOOLEAN /\ timer = testing
  /\ result \in {"", "started", "match", "nomatch", "busy", "denied", "error"}
  /\ reply \in Replies /\ hint \in BOOLEAN
  /\ present \in BOOLEAN /\ state \in StateWords \cup {""} /\ (present <=> state # "")

\* i is the place of the last state change on its way.
LastTurn(i) ==
  /\ i \in 1 .. Len(signals)
  /\ signals[i].name = "StateChanged"
  /\ \A j \in 1 .. Len(signals) : signals[j].name = "StateChanged" => j <= i

\* The state on the page is the daemon's, as soon as the signals are through:
\* reads that overtake older signals do not leave it wrong.
StateArrives ==
  /\ \A i \in 1 .. Len(signals) : LastTurn(i) => signals[i].state = StateWord(worksFor)
  /\ (\A i \in 1 .. Len(signals) : signals[i].name # "StateChanged")
       => ~present \/ state = StateWord(worksFor)

\* A test ends, even when neither a finger nor a signal ever comes.
TestEnds == testing ~> ~testing

\* fpmon.cpp says "A reader nobody touches would otherwise stay armed for the
\* rest of the session; the test ends itself": a test that ended by its timer
\* leaves the daemon working for nobody.
DisarmedByTimeout == [][Timeout => worksFor' # "app"]_vars

\* What every step keeps.
IInv == TypeOK /\ StateArrives
==============================================================================
