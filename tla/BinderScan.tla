------------------------------ MODULE BinderScan ------------------------------
(***************************************************************************)
(* Which process serves which binder service (bindermon.cpp): one ping per  *)
(* service, a child process each, and after it a look into the kernel's     *)
(* transaction log for the call it made.  The steps of a scan are queued    *)
(* calls on the GUI thread; the user may stop it and start it again between *)
(* any two.  The cache of the result on disk is left out.                   *)
(***************************************************************************)
EXTENDS Naturals, Sequences, FiniteSets

CONSTANTS
  Listings,   \* what binder-list may print: sequences of services, each a
              \* record of its device and its name
  Process,    \* processes that serve something
  Manager,    \* the service manager
  ServedBy,   \* service -> the process that serves it
  MaxCalls,   \* bound: calls of others logged while one ping runs
  MaxDue      \* bound: steps of stopped scans still queued when the next starts

Service == UNION {{listing[i] : i \in DOMAIN listing} : listing \in Listings}

ASSUME BinderAssumption ==
  /\ \A listing \in Listings :
       /\ listing \in Seq(Service)
       /\ \A i, j \in DOMAIN listing : listing[i] = listing[j] => i = j
  /\ <<>> \notin Service /\ "none" \notin Process
  /\ Manager \in Process /\ ServedBy \in [Service -> Process]
  /\ MaxCalls \in Nat /\ MaxDue \in Nat

VARIABLES
  scanning,  \* m_scanning
  queue,     \* m_scanQueue
  current,   \* m_scanDevice and m_scanName, <<>> before the first
  total,     \* m_scanTotal
  done,      \* m_scanDone
  registry,  \* m_registry
  guard,     \* m_pingGuard is active
  due,       \* queued calls of scanStep
  ping,      \* how far m_ping's process is: "none" runs, "started", "lookedUp", "called"
  pinged,    \* the services it pings, none or one (external)
  killed,    \* it has been sent SIGKILL
  log,       \* the calls in the transaction log past m_scanLogMark (external)
  alive      \* the processes that run (external)

scanVars == <<scanning, queue, current, total, done>>
pingVars == <<ping, pinged, killed>>
vars == <<scanVars, registry, guard, due, pingVars, log, alive>>

\* by says whose call the claim rests on (history);
\* "unanswered" is the code's "no answer".
Entry == [service : Service, pid : Process \cup {"none"},
          proof : {"ping", "unanswered", "unproven", "gone"},
          by : {"ping", "other", "nobody"}]

Call == [from : {"ping", "other"}, to : Process]

Init ==
  /\ scanning = FALSE /\ queue = <<>> /\ current = <<>> /\ total = 0 /\ done = 0
  /\ registry = <<>>
  /\ guard = FALSE /\ due = 0
  /\ ping = "none" /\ pinged = {} /\ killed = FALSE
  /\ log = <<>> /\ alive = Process

------------------------------------------------------------------------------
(* The world: the ping's process, other callers, and the services *)

Logged(from, to) == log' = Append(log, [from |-> from, to |-> to])

PingLooksUp ==
  /\ ping = "started" /\ ~killed
  /\ ping' = "lookedUp"
  /\ Logged("ping", Manager)
  /\ UNCHANGED <<scanVars, registry, guard, due, pinged, killed, alive>>

PingCalls ==
  /\ ping = "lookedUp" /\ ~killed
  /\ \E s \in pinged : ServedBy[s] \in alive /\ Logged("ping", ServedBy[s])
  /\ ping' = "called"
  /\ UNCHANGED <<scanVars, registry, guard, due, pinged, killed, alive>>

OtherCalls ==
  /\ guard /\ Cardinality({i \in DOMAIN log : log[i].from = "other"}) < MaxCalls
  /\ \E p \in alive : Logged("other", p)
  /\ UNCHANGED <<scanVars, registry, guard, due, pingVars, alive>>

ServerDies ==
  /\ \E p \in alive \ {Manager} : alive' = alive \ {p}
  /\ UNCHANGED <<scanVars, registry, guard, due, pingVars, log>>

------------------------------------------------------------------------------
(* The list *)

\* reverifyServices(): a node whose owner has gone takes the claim with it.
\* nodeOwners() may have nothing to say, and then nothing is touched.
Reverified(entries) ==
  [i \in DOMAIN entries |->
     IF entries[i].pid \in Process \ alive
       THEN [entries[i] EXCEPT !.pid = "none", !.proof = "gone"]
       ELSE entries[i]]

Publish(entries) == registry' \in {entries, Reverified(entries)}

------------------------------------------------------------------------------
(* The scan *)

\* QProcess::start() does nothing while the last process runs, and may fail.
StartPing ==
  /\ guard' = TRUE
  /\ IF ping # "none"
       THEN UNCHANGED pingVars
       ELSE \/ ping' = "started" /\ pinged' = {current'} /\ killed' = FALSE
            \/ UNCHANGED pingVars

ScanStep ==
  /\ due > 0
  /\ due' = due - 1
  /\ IF queue = <<>>
    THEN /\ scanning' = FALSE
         /\ Publish(registry)
         /\ UNCHANGED <<queue, current, guard, pingVars, log>>
    ELSE /\ queue' = Tail(queue) /\ current' = Head(queue)
         /\ log' = <<>>
         /\ StartPing
         /\ UNCHANGED <<scanning, registry>>
  /\ UNCHANGED <<total, done, alive>>

ProgressFromZero(listing) == total' = Len(listing) /\ done' = 0

IdentifyServices ==
  /\ ~scanning /\ due <= MaxDue
  /\ \E listing \in Listings :
       /\ ProgressFromZero(listing)
       /\ IF listing = <<>>
            THEN /\ Publish(<<>>)
                 /\ queue' = <<>> /\ scanning' = FALSE
                 /\ UNCHANGED <<current, guard, pingVars, log>>
            ELSE /\ scanning' = TRUE
                 /\ queue' = Tail(listing) /\ current' = Head(listing)
                 /\ registry' = <<>>
                 /\ log' = <<>>
                 /\ StartPing
  /\ UNCHANGED <<due, alive>>

Unclaimed(s, proof) == [service |-> s, pid |-> "none", proof |-> proof, by |-> "nobody"]

NotKilled == UNCHANGED killed
Killed == killed' = (ping # "none" \/ killed)

OnPingTimeout ==
  /\ guard
  /\ guard' = FALSE
  /\ registry' = Append(registry, Unclaimed(current, "unanswered"))
  /\ Killed
  /\ UNCHANGED <<scanVars, due, ping, pinged, log, alive>>

\* The process id is gone by the time the finished slot asks for it, so every
\* call past the mark counts, whoever made it, and the last one decides.
Finding ==
  LET last == log[Len(log)]
  IN  IF log = <<>>
        THEN Unclaimed(current, "unproven")
        ELSE [service |-> current, pid |-> last.to, proof |-> "ping", by |-> last.from]

RecordedNever == FALSE
\* The last entry is the timeout's, as far as its name tells.
Recorded ==
  /\ registry # <<>>
  /\ LET last == registry[Len(registry)]
     IN  last.service.name = current.name /\ last.proof = "unanswered"

WithFinding == IF Recorded THEN registry ELSE Append(registry, Finding)

\* onPingFinished(), but for the registry.
PingOver ==
  /\ guard' = FALSE
  /\ done' = done + 1
  /\ due' = due + 1
  /\ ping' = "none" /\ pinged' = {} /\ killed' = FALSE

\* A killed ping ends.  Otherwise it ends by itself: when nobody knows the
\* service any more, or when the service has answered.
OnPingFinished ==
  /\ killed \/ ping \in {"lookedUp", "called"}
  /\ PingOver
  /\ registry' = WithFinding
  /\ UNCHANGED <<scanning, queue, current, total, log, alive>>

KeepQueue == UNCHANGED queue
EmptyQueue == queue' = <<>>

\* cancelScan(): the wait for the killed ping either runs its finished slot, or
\* gives up after 300 ms and leaves that for later.
CancelScan ==
  /\ scanning
  /\ scanning' = FALSE
  /\ EmptyQueue
  /\ \/ /\ ping # "none"
        /\ PingOver
        /\ Publish(WithFinding)
     \/ /\ killed' = (ping # "none")
        /\ Publish(registry)
        /\ UNCHANGED <<done, due, guard, ping, pinged>>
  /\ UNCHANGED <<current, total, log, alive>>

Next ==
  \/ PingLooksUp \/ PingCalls \/ OtherCalls \/ ServerDies
  \/ IdentifyServices \/ CancelScan
  \/ ScanStep \/ OnPingTimeout \/ OnPingFinished

\* The GUI thread's queued calls and timers run, and what was killed ends.
Fairness ==
  /\ WF_vars(ScanStep) /\ WF_vars(OnPingTimeout)
  /\ WF_vars(OnPingFinished /\ killed)

Spec == Init /\ [][Next]_vars /\ Fairness
------------------------------------------------------------------------------
(* Properties *)

\* Every variable holds a value of its kind, and nothing is left to ping when
\* no scan runs.
TypeOK ==
  /\ scanning \in BOOLEAN /\ queue \in Seq(Service) /\ current \in Service \cup {<<>>}
  /\ total \in Nat /\ done \in Nat
  /\ registry \in Seq(Entry)
  /\ guard \in BOOLEAN /\ due \in Nat
  /\ ping \in {"none", "started", "lookedUp", "called"}
  /\ pinged \in SUBSET Service /\ Cardinality(pinged) = IF ping = "none" THEN 0 ELSE 1
  /\ killed \in BOOLEAN /\ killed => ping # "none"
  /\ log \in Seq(Call) /\ alive \in SUBSET Process
  /\ queue # <<>> => scanning

\* A scan lists no service twice, timed out, answered late or stopped.
AtMostOnce ==
  \A i, j \in DOMAIN registry :
    registry[i].service = registry[j].service => i = j

\* A scan that was stopped sends no further ping.
StoppedPingsNothing ==
  [][ping = "none" /\ ping' # "none" => scanning']_vars

Hung == ping = "none" /\ ~guard /\ due = 0

\* A scan ends whatever the services do, unless a ping could not be started.
ScanEnds == scanning ~> ~scanning \/ Hung

\* bindermon.cpp:1252: "Only entries our own ping process wrote count": a claim
\* from a ping rests on a call the ping made.
PingIsProof ==
  \A i \in DOMAIN registry :
    registry[i].proof = "ping" => registry[i].by = "ping"

\* What is left to ping is listed once, and is neither what is being pinged nor
\* in the registry.
StillToPing ==
  /\ \A i, j \in DOMAIN queue : queue[i] = queue[j] => i = j
  /\ \A i \in DOMAIN queue : /\ queue[i] # current
                             /\ \A j \in DOMAIN registry : registry[j].service # queue[i]

\* What is being pinged is in the registry only when its guard is off, and then
\* only a ping that has timed out is still to come to its end.
CurrentOnce ==
  /\ current = <<>> => ~guard /\ ping = "none"
  /\ (\E i \in DOMAIN registry : registry[i].service = current)
       => ~guard /\ (ping = "none" \/ Recorded)

\* A ping that got no answer claims nobody, so no check of the owners drops that.
NoAnswerNoClaim ==
  \A i \in DOMAIN registry : registry[i].proof = "unanswered" => registry[i].pid = "none"

\* What every step keeps.
IInv == TypeOK /\ AtMostOnce /\ StillToPing /\ CurrentOnce /\ NoAnswerNoClaim
==============================================================================
