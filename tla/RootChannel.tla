----------------------------- MODULE RootChannel -----------------------------
(***************************************************************************)
(* The root helper and the app's one connection to it (rootclient.cpp,      *)
(* roothelper.cpp, the systemd unit).  A request is a blocking round trip on *)
(* the app's GUI thread: while it lasts no timer fires and no page acts.     *)
(* The helper is single-threaded too; it serves its connections one line at  *)
(* a time and leaves by itself when it counts no client.  What a request     *)
(* asks for is left out: it is a number, and so is the reply it gets.        *)
(***************************************************************************)
EXTENDS Naturals, Sequences, FiniteSets

CONSTANTS
  Slots,        \* bound: connections the kernel knows of at one time
  MaxRequests,  \* bound: requests sent
  MaxStarts,    \* bound: times the app is started
  MaxCrashes    \* bound: times the helper dies of a failure

ASSUME RootAssumption ==
  /\ Slots \in Nat /\ MaxRequests \in Nat /\ MaxStarts \in Nat /\ MaxCrashes \in Nat
  /\ Slots > MaxRequests + MaxStarts

VARIABLES
  app,       \* the app runs
  starts,    \* times it was started
  granted,   \* cfgRootHelper: the switch in the settings
  conn,      \* the connection m_sock is connected by, 0 for none
  waiting,   \* what request() waits for: "no" request, the "header", the "payload"
  asked,     \* the latest request
  taken,     \* the request whose reply request() returned, 0 for an empty result
  probeDue,  \* the single shot that follows StartUnit is pending
  helper,    \* the unit: "down", "starting", "up" (listening)
  clients,   \* clients
  old,       \* up.elapsed() > 20000
  met,       \* the app has reached the helper since it began to listen
  crashes,   \* times the helper has died of a failure
  link       \* per slot the two ends of a connection, and what travels on it

appVars == <<app, starts, granted, conn, waiting, asked, taken, probeDue>>
helperVars == <<helper, clients, old, crashes>>
vars == <<appVars, helperVars, met, link>>

Conns == 1 .. Slots
Request == 1 .. MaxRequests

\* "OK <len>\n" says whether a payload follows; a payload follows at once or later.
Part == [req : Request, payload : {"follows", "none", "here"}]

Link == [lines : Seq(Request), replies : Seq(Part),
         client : BOOLEAN, helper : BOOLEAN, accepted : BOOLEAN]

Unused == [lines |-> <<>>, replies |-> <<>>,
           client |-> FALSE, helper |-> FALSE, accepted |-> FALSE]
Connected == [Unused EXCEPT !.client = TRUE, !.helper = TRUE]

\* One end of a connection is closed: what it would have read is lost, what it
\* wrote can still be read.
ClientCloses(l) ==
  IF l.helper THEN [l EXCEPT !.client = FALSE, !.replies = <<>>] ELSE Unused
HelperCloses(l) ==
  IF l.client THEN [l EXCEPT !.helper = FALSE, !.accepted = FALSE, !.lines = <<>>]
  ELSE Unused

Free == {c \in Conns : link[c] = Unused}
Live == conn # 0 /\ link[conn].helper

Init ==
  /\ app = FALSE /\ starts = 0 /\ granted = FALSE
  /\ conn = 0 /\ waiting = "no" /\ asked = 0 /\ taken = 0 /\ probeDue = FALSE
  /\ helper = "down" /\ clients = 0 /\ old = FALSE /\ crashes = 0
  /\ met = FALSE
  /\ link = [c \in Conns |-> Unused]

------------------------------------------------------------------------------
(* The app *)

Connect ==
  \E c \in Free :
    /\ \A d \in Free : c <= d
    /\ conn' = c /\ link' = [link EXCEPT ![c] = Connected] /\ met' = TRUE

\* connectToServer() reaches a helper that listens, accepted or not yet.
Probe ==
  IF conn = 0 /\ helper = "up" THEN Connect ELSE UNCHANGED <<conn, link, met>>

AppStarts ==
  /\ ~app /\ starts < MaxStarts
  /\ app' = TRUE /\ starts' = starts + 1 /\ granted' = FALSE
  /\ Probe
  /\ UNCHANGED <<waiting, asked, taken, probeDue, helperVars>>

\* Closed by the user, or killed: the kernel closes the socket.
AppExits ==
  /\ app
  /\ app' = FALSE /\ conn' = 0 /\ waiting' = "no" /\ taken' = 0 /\ probeDue' = FALSE
  /\ link' = IF conn = 0 THEN link ELSE [link EXCEPT ![conn] = ClientCloses(@)]
  /\ UNCHANGED <<starts, granted, asked, helperVars, met>>

\* The GUI thread is in its event loop.
Idle == app /\ waiting = "no"

\* setHelper(true) after the confirmation; systemd may refuse.
GrantRoot ==
  /\ Idle /\ ~granted
  /\ granted' = TRUE
  /\ \/ /\ helper' = IF helper = "down" THEN "starting" ELSE helper
        /\ probeDue' = TRUE
     \/ UNCHANGED <<helper, probeDue>>
  /\ UNCHANGED <<app, starts, conn, waiting, asked, taken, clients, old, crashes, met, link>>

HelperEnds(next) ==
  /\ helper' = next /\ clients' = 0 /\ old' = FALSE
  /\ link' = [c \in Conns |-> HelperCloses(link[c])]

RevokeRoot ==
  /\ Idle /\ granted
  /\ granted' = FALSE
  /\ \/ HelperEnds("down")
     \/ UNCHANGED <<helper, clients, old, link>>
  /\ UNCHANGED <<app, starts, conn, waiting, asked, taken, probeDue, crashes, met>>

ProbeAfterStart ==
  /\ Idle /\ probeDue
  /\ probeDue' = FALSE
  /\ Probe
  /\ UNCHANGED <<app, starts, granted, waiting, asked, taken, helperVars>>

\* m_retry: every 3 seconds, as long as the socket is unconnected.
RetryDueWhenGranted == conn = 0 /\ granted
RetryDue == conn = 0

Retry ==
  /\ Idle /\ RetryDue
  /\ Probe
  /\ UNCHANGED <<app, starts, granted, waiting, asked, taken, probeDue, helperVars>>

\* The socket's own notice that the other end is closed.
SeesClosed ==
  /\ Idle /\ conn # 0 /\ ~link[conn].helper
  /\ conn' = 0 /\ link' = [link EXCEPT ![conn] = ClientCloses(@)]
  /\ UNCHANGED <<app, starts, granted, waiting, asked, taken, probeDue, helperVars, met>>

\* request() up to waitForBytesWritten(), which fails only on a broken connection.
RequestSent ==
  /\ Idle /\ conn # 0 /\ asked < MaxRequests
  /\ asked' = asked + 1 /\ taken' = 0
  /\ IF link[conn].helper
       THEN /\ waiting' = "header"
            /\ link' = [link EXCEPT ![conn].lines = Append(@, asked')]
            /\ UNCHANGED conn
       ELSE /\ conn' = 0
            /\ link' = [link EXCEPT ![conn] = ClientCloses(@)]
            /\ UNCHANGED waiting
  /\ UNCHANGED <<app, starts, granted, probeDue, helperVars, met>>

\* readAll() has taken in all there is: what is not part of the reply is gone.
Returned(req) ==
  /\ waiting' = "no" /\ taken' = req
  /\ link' = [link EXCEPT ![conn].replies = <<>>]

ReadHeader ==
  /\ waiting = "header" /\ link[conn].replies # <<>>
  /\ LET header == Head(link[conn].replies)
     IN  IF header.payload = "follows"
           THEN /\ waiting' = "payload"
                /\ link' = [link EXCEPT ![conn].replies = Tail(@)]
                /\ UNCHANGED taken
           ELSE Returned(header.req)
  /\ UNCHANGED <<app, starts, granted, conn, asked, probeDue, helperVars, met>>

ReadPayload ==
  /\ waiting = "payload" /\ link[conn].replies # <<>>
  /\ Returned(Head(link[conn].replies).req)
  /\ UNCHANGED <<app, starts, granted, conn, asked, probeDue, helperVars, met>>

\* waitForReadyRead() gives up: the time is over, or the helper has closed.
\* A connection given up is closed, so that the reply of this request cannot
\* be read by the next.
GiveUpKeepingSocket == UNCHANGED <<conn, link>>
GiveUp ==
  /\ conn' = 0
  /\ link' = [link EXCEPT ![conn] = ClientCloses(@)]

TimedOut ==
  /\ waiting # "no" /\ link[conn].replies = <<>>
  /\ waiting' = "no"
  /\ GiveUp
  /\ UNCHANGED <<app, starts, granted, asked, taken, probeDue, helperVars, met>>

------------------------------------------------------------------------------
(* The helper *)

HelperListens ==
  /\ helper = "starting"
  /\ helper' = "up" /\ met' = FALSE
  /\ UNCHANGED <<appVars, clients, old, crashes, link>>

\* Restart=on-failure
HelperCrashes ==
  /\ helper = "up" /\ crashes < MaxCrashes
  /\ HelperEnds("starting")
  /\ crashes' = crashes + 1
  /\ UNCHANGED <<appVars, met>>

NewConnection(c) ==
  /\ link[c].helper /\ ~link[c].accepted
  /\ link' = [link EXCEPT ![c].accepted = TRUE]
  /\ clients' = clients + 1
  /\ UNCHANGED <<appVars, helper, old, crashes, met>>

\* A reply is written in one go, but arrives in one or two pieces; nobody
\* gets the reply of a closed connection.
ReplyTo(req) ==
  {<<[req |-> req, payload |-> "none"]>>,
   <<[req |-> req, payload |-> "follows"], [req |-> req, payload |-> "here"]>>}

Serve(c) ==
  /\ link[c].accepted /\ link[c].lines # <<>>
  /\ \E reply \in ReplyTo(Head(link[c].lines)) :
       link' = [link EXCEPT ![c].lines = Tail(@),
                            ![c].replies = IF link[c].client THEN @ \o reply ELSE @]
  /\ UNCHANGED <<appVars, helperVars, met>>

UncountedNot == UNCHANGED clients
UncountedTwice == clients' = clients - 2
Uncounted == clients' = clients - 1

Disconnected(c) ==
  /\ link[c].accepted /\ ~link[c].client /\ link[c].lines = <<>>
  /\ link' = [link EXCEPT ![c] = HelperCloses(@)]
  /\ Uncounted
  /\ UNCHANGED <<appVars, helper, old, crashes, met>>

\* 20 seconds are many periods of the retry timer, and time enough to accept.
GraceEnds ==
  /\ helper = "up" /\ ~old /\ (app => met)
  /\ \A c \in Conns : link[c].helper => link[c].accepted
  /\ old' = TRUE
  /\ UNCHANGED <<appVars, helper, clients, crashes, met, link>>

MayQuit == clients = 0 /\ old

\* A quit is a success to systemd: nothing starts the helper again.
IdleTick ==
  /\ helper = "up" /\ MayQuit
  /\ HelperEnds("down")
  /\ UNCHANGED <<appVars, crashes, met>>

------------------------------------------------------------------------------
AppNext ==
  \/ AppStarts \/ AppExits \/ GrantRoot \/ RevokeRoot
  \/ ProbeAfterStart \/ Retry \/ SeesClosed
  \/ RequestSent \/ ReadHeader \/ ReadPayload \/ TimedOut

HelperNext ==
  \/ HelperListens \/ HelperCrashes \/ GraceEnds \/ IdleTick
  \/ \E c \in Conns : NewConnection(c) \/ Serve(c) \/ Disconnected(c)

Next == AppNext \/ HelperNext

Spec == Init /\ [][Next]_vars

\* The timers of both event loops fire, a wait ends, systemd starts what it was
\* asked to start, and the helper comes round to every connection.
Fairness ==
  /\ WF_vars(Retry) /\ WF_vars(SeesClosed)
  /\ WF_vars(ReadHeader) /\ WF_vars(ReadPayload) /\ WF_vars(TimedOut)
  /\ WF_vars(HelperListens) /\ WF_vars(GraceEnds) /\ WF_vars(IdleTick)
  /\ \A c \in Conns :
       WF_vars(NewConnection(c)) /\ WF_vars(Serve(c)) /\ WF_vars(Disconnected(c))

FairSpec == Spec /\ Fairness

------------------------------------------------------------------------------
(* Properties *)

Accepted == {c \in Conns : link[c].accepted}

\* The shape of the state: a request waits on a connection the app holds, an
\* ended helper holds none, and the helper's count is that of its connections.
TypeOK ==
  /\ app \in BOOLEAN /\ starts \in 0 .. MaxStarts /\ granted \in BOOLEAN
  /\ conn \in 0 .. Slots /\ waiting \in {"no", "header", "payload"}
  /\ asked \in 0 .. MaxRequests /\ taken \in 0 .. MaxRequests
  /\ probeDue \in BOOLEAN /\ met \in BOOLEAN
  /\ helper \in {"down", "starting", "up"} /\ old \in BOOLEAN
  /\ crashes \in 0 .. MaxCrashes
  /\ link \in [Conns -> Link]
  /\ waiting # "no" => app /\ conn # 0
  /\ {c \in Conns : link[c].client} = {conn} \ {0}
  /\ helper # "up" => \A c \in Conns : ~link[c].helper
  /\ \A c \in Conns : link[c].accepted => link[c].helper
  /\ clients = Cardinality(Accepted)

\* What request() returns is the helper's answer to that very line
\* (rootclient.cpp:55-86): never what an earlier request, given up on, was
\* still owed on the same socket.
ReplyIsOwn == taken \in {0, asked}

\* The idle timer (roothelper.cpp:430-433) never takes the helper from a
\* client it has accepted and that is still there.
HelperKept ==
  [][helper = "up" /\ helper' = "down" /\ granted' = granted
       => \A c \in Conns : ~(link[c].accepted /\ link[c].client)]_vars

\* A helper that runs, or that systemd is starting, after a failure too, is found
\* by the app without the user pressing anything (rootclient.cpp:18-19), whatever
\* the last request came to.  One that was stopped, or has left by itself, is not:
\* nobody starts it again while root stays granted.
Reconnects == (app /\ helper # "down") ~> (~app \/ helper = "down" \/ Live)

\* Once the app is gone the helper stops by itself (RootConfirmDialog.qml:57,
\* roothelper.cpp:422-434), whatever the app left on the sockets.
HelperStops == ~app ~> (app \/ helper = "down")

\* The inductive invariant behind ReplyIsOwn: nothing of an earlier request is
\* left on the connection the app holds.
RepliesFit ==
  conn # 0 =>
    LET l == link[conn]
    IN  /\ waiting = "no" => l.lines = <<>> /\ l.replies = <<>>
        /\ waiting = "header" =>
             \/ l.lines = <<asked>> /\ l.replies = <<>>
             \/ l.lines = <<>> /\ l.replies \in {<<>>} \cup ReplyTo(asked)
        /\ waiting = "payload" =>
             l.lines = <<>> /\ l.replies = <<[req |-> asked, payload |-> "here"]>>

IInv == TypeOK /\ ReplyIsOwn /\ RepliesFit
==============================================================================
