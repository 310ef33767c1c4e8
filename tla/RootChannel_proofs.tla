-------------------------- MODULE RootChannel_proofs --------------------------
(***************************************************************************)
(* Proofs about RootChannel for any number of connections, requests, starts *)
(* of the app and failures of the helper: a reply belongs to the request it *)
(* is returned for, the helper's count of clients is right, and its idle    *)
(* timer takes it from nobody.                                              *)
(***************************************************************************)
EXTENDS RootChannel, FiniteSetTheorems, SequenceTheorems, TLAPS

\* TypeOK in three parts: the values, the connections, the count.
Values ==
  /\ app \in BOOLEAN /\ starts \in 0 .. MaxStarts /\ granted \in BOOLEAN
  /\ waiting \in {"no", "header", "payload"}
  /\ asked \in 0 .. MaxRequests /\ taken \in 0 .. MaxRequests
  /\ probeDue \in BOOLEAN /\ met \in BOOLEAN
  /\ helper \in {"down", "starting", "up"} /\ old \in BOOLEAN
  /\ crashes \in 0 .. MaxCrashes
  /\ waiting # "no" => app /\ conn # 0

Shape(k, n, h) ==
  /\ k \in [Conns -> Link] /\ n \in 0 .. Slots
  /\ \A c \in Conns : k[c].client <=> c = n
  /\ h # "up" => \A c \in Conns : ~k[c].helper
  /\ \A c \in Conns : k[c].accepted => k[c].helper

Counted(k, n) == n = Cardinality({c \in Conns : k[c].accepted})

LEMMA ClientSet ==
  ASSUME NEW k, NEW n \in 0 .. Slots
  PROVE  {c \in Conns : k[c].client} = {n} \ {0} <=> \A c \in Conns : k[c].client <=> c = n
<1>1. n # 0 => n \in Conns
  BY RootAssumption DEF Conns
<1>2. 0 \notin Conns
  BY RootAssumption DEF Conns
<1> QED BY <1>1, <1>2

LEMMA TypeOKParts ==
  TypeOK <=> Values /\ Shape(link, conn, helper) /\ Counted(link, clients)
  BY ClientSet DEF TypeOK, Values, Shape, Counted, Accepted

LEMMA TypeOKPartsNext ==
  TypeOK' <=> Values' /\ Shape(link', conn', helper') /\ Counted(link', clients')
<1>1. ASSUME NEW n \in 0 .. Slots
      PROVE  {c \in Conns : link'[c].client} = {n} \ {0}
               <=> \A c \in Conns : link'[c].client <=> c = n
  BY ClientSet
<1> QED BY <1>1 DEF TypeOK, Values, Shape, Counted, Accepted

LEMMA SameCount ==
  ASSUME NEW k, NEW m, \A c \in Conns : m[c].accepted = k[c].accepted,
         NEW n, Counted(k, n)
  PROVE  Counted(m, n)
<1>1. {c \in Conns : m[c].accepted} = {c \in Conns : k[c].accepted}
  OBVIOUS
<1> QED BY <1>1 DEF Counted

LEMMA ConnsFinite == IsFiniteSet(Conns)
  BY FS_Interval, RootAssumption DEF Conns

\* One connection changes.
LEMMA OneLink ==
  ASSUME NEW k \in [Conns -> Link], NEW c \in Conns, NEW l \in Link
  PROVE  /\ [k EXCEPT ![c] = l] \in [Conns -> Link]
         /\ [k EXCEPT ![c] = l][c] = l
         /\ \A d \in Conns \ {c} : [k EXCEPT ![c] = l][d] = k[d]
  OBVIOUS

\* What travels on a connection changes, and neither of its ends.
LEMMA Travels ==
  ASSUME NEW k, NEW n, NEW h, NEW count, Shape(k, n, h), Counted(k, count),
         NEW c \in Conns, NEW l \in Link,
         l.client = k[c].client, l.helper = k[c].helper, l.accepted = k[c].accepted
  PROVE  Shape([k EXCEPT ![c] = l], n, h) /\ Counted([k EXCEPT ![c] = l], count)
<1> DEFINE m == [k EXCEPT ![c] = l]
<1>1. /\ m \in [Conns -> Link] /\ m[c] = l
      /\ \A d \in Conns \ {c} : m[d] = k[d]
  BY OneLink DEF Shape
<1>2. \A d \in Conns : /\ m[d].client = k[d].client
                       /\ m[d].helper = k[d].helper
                       /\ m[d].accepted = k[d].accepted
  BY <1>1
<1> HIDE DEF m
<1>3. Shape(m, n, h)
  BY <1>1, <1>2 DEF Shape
<1>4. Counted(m, count)
  BY <1>2, SameCount
<1> QED BY <1>3, <1>4 DEF m

LEMMA EndsClosed ==
  ASSUME NEW l \in Link
  PROVE  /\ ClientCloses(l) \in Link /\ ~ClientCloses(l).client
         /\ ClientCloses(l).helper = l.helper
         /\ l.helper => ClientCloses(l).accepted = l.accepted
         /\ ~l.helper => ClientCloses(l).accepted = FALSE
         /\ HelperCloses(l) \in Link /\ ~HelperCloses(l).helper /\ ~HelperCloses(l).accepted
         /\ HelperCloses(l).client = l.client
         /\ HelperCloses(l).lines = <<>>
         /\ l.client => HelperCloses(l).replies = l.replies
<1>1. Unused \in Link
  BY EmptySeq DEF Unused, Link
<1> QED BY <1>1, EmptySeq DEF ClientCloses, HelperCloses, Unused, Link

\* The app lets go of its connection.
LEMMA ClientGone ==
  ASSUME NEW h, NEW count, Shape(link, conn, h), Counted(link, count), conn # 0
  PROVE  /\ Shape([link EXCEPT ![conn] = ClientCloses(link[conn])], 0, h)
         /\ Counted([link EXCEPT ![conn] = ClientCloses(link[conn])], count)
<1> DEFINE l == ClientCloses(link[conn])
           m == [link EXCEPT ![conn] = l]
<1>1. conn \in Conns /\ 0 \notin Conns /\ link \in [Conns -> Link]
  BY RootAssumption DEF Shape, Conns
<1>2. /\ l \in Link /\ ~l.client /\ l.helper = link[conn].helper
      /\ l.accepted = link[conn].accepted
  <2>1. link[conn] \in Link /\ (link[conn].accepted => link[conn].helper)
    BY <1>1 DEF Shape
  <2>2. ~link[conn].helper => link[conn].accepted = FALSE
    BY <2>1 DEF Link
  <2> QED BY <2>1, <2>2, EndsClosed
<1> HIDE DEF l
<1>3. /\ m \in [Conns -> Link] /\ m[conn] = l
      /\ \A d \in Conns \ {conn} : m[d] = link[d]
  BY <1>1, <1>2, OneLink
<1>4. \A d \in Conns : /\ ~m[d].client /\ m[d].helper = link[d].helper
                       /\ m[d].accepted = link[d].accepted
  BY <1>2, <1>3 DEF Shape
<1> HIDE DEF m
<1>5. Shape(m, 0, h)
  BY <1>1, <1>3, <1>4, RootAssumption DEF Shape
<1>6. Counted(m, count)
  BY <1>4, SameCount
<1> QED BY <1>5, <1>6 DEF m, l

\* The helper ends, and with it its ends of all connections.
LEMMA HelperGone ==
  ASSUME NEW n, NEW h, NEW next, Shape(link, n, h), HelperEnds(next)
  PROVE  /\ Shape(link', n, next) /\ Counted(link', clients') /\ helper' = next /\ old' = FALSE
         /\ \A c \in Conns : /\ link'[c].lines = <<>>
                             /\ link[c].client => link'[c].replies = link[c].replies
<1>1. /\ link' = [c \in Conns |-> HelperCloses(link[c])] /\ clients' = 0
      /\ helper' = next /\ old' = FALSE
  BY DEF HelperEnds
<1>2. \A c \in Conns : /\ link'[c] \in Link /\ ~link'[c].helper /\ ~link'[c].accepted
                       /\ link'[c].client = link[c].client /\ link'[c].lines = <<>>
                       /\ link[c].client => link'[c].replies = link[c].replies
  BY <1>1, EndsClosed DEF Shape
<1>3. Shape(link', n, next)
  BY <1>1, <1>2 DEF Shape
<1>4. {c \in Conns : link'[c].accepted} = {}
  BY <1>2
<1>5. Counted(link', clients')
  BY <1>1, <1>4, FS_EmptySet DEF Counted
<1> QED BY <1>1, <1>2, <1>3, <1>5

\* The app reaches a helper that listens: a fresh connection.
LEMMA Reached ==
  ASSUME Shape(link, conn, helper), Counted(link, clients), conn = 0, helper = "up", Connect
  PROVE  /\ Shape(link', conn', helper) /\ Counted(link', clients)
         /\ conn' # 0 /\ met' = TRUE
         /\ link'[conn'].lines = <<>> /\ link'[conn'].replies = <<>>
<1>1. PICK c \in Free : /\ conn' = c /\ link' = [link EXCEPT ![c] = Connected]
                        /\ met' = TRUE
  BY DEF Connect
<1>2. c \in Conns /\ link[c] = Unused /\ 0 \notin Conns /\ c \in 0 .. Slots
  BY <1>1, RootAssumption DEF Free, Conns
<1>3. /\ Connected \in Link /\ Connected.client /\ Connected.helper /\ ~Connected.accepted
      /\ Connected.lines = <<>> /\ Connected.replies = <<>> /\ ~Unused.accepted
  BY EmptySeq DEF Connected, Unused, Link
<1> HIDE DEF Connected, Unused
<1>4. /\ link' \in [Conns -> Link] /\ link'[c] = Connected
      /\ \A d \in Conns \ {c} : link'[d] = link[d]
  BY <1>1, <1>2, <1>3, OneLink DEF Shape
<1>5. Shape(link', c, helper)
  BY <1>2, <1>3, <1>4 DEF Shape
<1>6. \A d \in Conns : link'[d].accepted = link[d].accepted
  <2>1. link'[c].accepted = FALSE /\ link[c].accepted = FALSE
    BY <1>2, <1>3, <1>4 DEF Connected, Unused
  <2> QED BY <1>4, <2>1
<1>7. Counted(link', clients)
  BY <1>6, SameCount
<1> QED BY <1>1, <1>2, <1>3, <1>4, <1>5, <1>7

LEMMA ProbeKeeps ==
  ASSUME IInv, waiting = "no", Probe,
         UNCHANGED <<waiting, asked, taken, helperVars>>,
         app' \in BOOLEAN, starts' \in 0 .. MaxStarts, granted' \in BOOLEAN,
         probeDue' \in BOOLEAN
  PROVE  IInv'
<1>1. UNCHANGED <<waiting, asked, taken, helper, clients, old, crashes>>
  BY DEF helperVars
<1>2. Values /\ Shape(link, conn, helper) /\ Counted(link, clients)
  BY TypeOKParts DEF IInv
<1>3. CASE conn = 0 /\ helper = "up"
  <2>1. Connect
    BY <1>3 DEF Probe
  <2>2. /\ Shape(link', conn', helper) /\ Counted(link', clients)
        /\ conn' # 0 /\ met' = TRUE
        /\ link'[conn'].lines = <<>> /\ link'[conn'].replies = <<>>
    BY <1>2, <1>3, <2>1, Reached
  <2>3. Values'
    BY <1>1, <1>2, <2>2 DEF Values
  <2>4. RepliesFit'
    BY <1>1, <2>2 DEF RepliesFit
  <2> QED BY <1>1, <2>2, <2>3, <2>4, TypeOKPartsNext DEF IInv, ReplyIsOwn
<1>4. CASE ~(conn = 0 /\ helper = "up")
  <2>1. UNCHANGED <<conn, link, met>>
    BY <1>4 DEF Probe
  <2>2. Values' /\ Shape(link', conn', helper') /\ Counted(link', clients')
    BY <1>1, <1>2, <2>1 DEF Values
  <2> QED BY <1>1, <2>1, <2>2, TypeOKPartsNext DEF IInv, ReplyIsOwn, RepliesFit
<1> QED BY <1>3, <1>4

\* The app's steps.
LEMMA AppStartsStep == ASSUME IInv, AppStarts PROVE IInv'
<1>1. Values
  BY TypeOKParts DEF IInv
<1>2. starts \in Nat /\ MaxStarts \in Nat
  BY <1>1, RootAssumption DEF Values
<1>3. starts' \in 0 .. MaxStarts /\ app' = TRUE /\ granted' = FALSE
  BY <1>1, <1>2 DEF AppStarts, Values
<1>4. waiting = "no"
  BY <1>1 DEF AppStarts, Values
<1>5. /\ Probe /\ probeDue' \in BOOLEAN
      /\ UNCHANGED <<waiting, asked, taken, helperVars>>
  BY <1>1 DEF AppStarts, Values
<1> QED BY <1>3, <1>4, <1>5, ProbeKeeps

LEMMA ProbingSteps == ASSUME IInv, ProbeAfterStart \/ Retry PROVE IInv'
<1>1. Values
  BY TypeOKParts DEF IInv
<1>2. /\ waiting = "no" /\ Probe /\ UNCHANGED <<waiting, asked, taken, helperVars>>
      /\ app' = app /\ starts' = starts /\ granted' = granted /\ probeDue' \in BOOLEAN
  BY <1>1 DEF ProbeAfterStart, Retry, Idle, Values
<1> QED BY <1>1, <1>2, ProbeKeeps DEF Values

\* The app lets go of what it holds and waits for nothing.
LEMMA LetGo ==
  ASSUME IInv, conn # 0, conn' = 0,
         link' = [link EXCEPT ![conn] = ClientCloses(link[conn])],
         waiting' = "no", taken' \in {0, asked'},
         UNCHANGED <<starts, helper, clients, old, crashes, met>>,
         app' \in BOOLEAN, granted' \in BOOLEAN, probeDue' \in BOOLEAN,
         asked' \in 0 .. MaxRequests
  PROVE  IInv'
<1>1. Values /\ Shape(link, conn, helper) /\ Counted(link, clients)
  BY TypeOKParts DEF IInv
<1>2. Shape(link', conn', helper') /\ Counted(link', clients')
  BY <1>1, ClientGone
<1>3. taken' \in 0 .. MaxRequests
  BY RootAssumption
<1>4. Values'
  BY <1>1, <1>3 DEF Values
<1>5. TypeOK'
  BY <1>2, <1>4, TypeOKPartsNext
<1> QED BY <1>5 DEF IInv, ReplyIsOwn, RepliesFit

LEMMA AppExitsStep == ASSUME IInv, AppExits PROVE IInv'
<1>1. Values /\ Shape(link, conn, helper) /\ Counted(link, clients)
  BY TypeOKParts DEF IInv
<1>2. /\ app' = FALSE /\ conn' = 0 /\ waiting' = "no" /\ taken' = 0 /\ probeDue' = FALSE
      /\ UNCHANGED <<starts, granted, asked, helper, clients, old, crashes, met>>
  BY DEF AppExits, helperVars
<1>3. CASE conn = 0
  <2>1. link' = link
    BY <1>3 DEF AppExits
  <2>2. Values'
    <3>1. 0 \in 0 .. MaxRequests
      BY RootAssumption
    <3> QED BY <1>1, <1>2, <3>1 DEF Values
  <2>3. TypeOK'
    BY <1>1, <1>2, <1>3, <2>1, <2>2, TypeOKPartsNext
  <2> QED BY <1>2, <2>3 DEF IInv, ReplyIsOwn, RepliesFit
<1>4. CASE conn # 0
  <2>1. link' = [link EXCEPT ![conn] = ClientCloses(link[conn])]
    BY <1>4 DEF AppExits
  <2>2. app' \in BOOLEAN /\ granted' \in BOOLEAN /\ probeDue' \in BOOLEAN
        /\ asked' \in 0 .. MaxRequests
    BY <1>1, <1>2 DEF Values
  <2> QED BY <1>2, <1>4, <2>1, <2>2, LetGo
<1> QED BY <1>3, <1>4

LEMMA SeesClosedStep == ASSUME IInv, SeesClosed PROVE IInv'
<1>1. Values /\ taken \in {0, asked}
  BY TypeOKParts DEF IInv, ReplyIsOwn
<1>2. /\ conn # 0 /\ conn' = 0 /\ waiting' = "no"
      /\ link' = [link EXCEPT ![conn] = ClientCloses(link[conn])]
      /\ UNCHANGED <<app, starts, granted, asked, taken, probeDue, helper, clients, old,
                     crashes, met>>
  BY DEF SeesClosed, Idle, helperVars
<1> QED BY <1>1, <1>2, LetGo DEF Values

LEMMA TimedOutStep == ASSUME IInv, TimedOut PROVE IInv'
<1>1. Values /\ taken \in {0, asked}
  BY TypeOKParts DEF IInv, ReplyIsOwn
<1>2. /\ conn # 0 /\ conn' = 0 /\ waiting' = "no"
      /\ link' = [link EXCEPT ![conn] = ClientCloses(link[conn])]
      /\ UNCHANGED <<app, starts, granted, asked, taken, probeDue, helper, clients, old,
                     crashes, met>>
  BY <1>1 DEF TimedOut, GiveUp, helperVars, Values
<1> QED BY <1>1, <1>2, LetGo DEF Values

\* systemd may start the helper, or not: the connections stay.
LEMMA GrantRootStep == ASSUME IInv, GrantRoot PROVE IInv'
<1>1. Values /\ Shape(link, conn, helper) /\ Counted(link, clients)
  BY TypeOKParts DEF IInv
<1>2. /\ helper' \in {helper, "starting"} /\ (helper' # helper => helper = "down")
      /\ granted' = TRUE /\ probeDue' \in BOOLEAN
      /\ UNCHANGED <<app, starts, conn, waiting, asked, taken, clients, old, crashes, met, link>>
  BY <1>1 DEF GrantRoot, Values
<1>3. Shape(link, conn, helper')
  BY <1>1, <1>2 DEF Shape
<1>4. Values'
  BY <1>1, <1>2 DEF Values
<1>5. TypeOK'
  BY <1>1, <1>2, <1>3, <1>4, TypeOKPartsNext
<1> QED BY <1>2, <1>5 DEF IInv, ReplyIsOwn, RepliesFit

\* What travels on one connection changes: the rest follows from its replies
\* fitting the request that is waited for.
LEMMA TravelStep ==
  ASSUME IInv, NEW c \in Conns, NEW l \in Link,
         l.client = link[c].client, l.helper = link[c].helper,
         l.accepted = link[c].accepted,
         link' = [link EXCEPT ![c] = l],
         UNCHANGED <<app, starts, granted, conn, probeDue, helper, clients, old, crashes, met>>,
         waiting' \in {"no", "header", "payload"}, waiting' # "no" => waiting # "no" \/ (app /\ conn # 0),
         asked' \in 0 .. MaxRequests, taken' \in {0, asked'},
         RepliesFit'
  PROVE  IInv'
<1>1. Values /\ Shape(link, conn, helper) /\ Counted(link, clients)
  BY TypeOKParts DEF IInv
<1>2. Shape(link', conn', helper') /\ Counted(link', clients')
  BY <1>1, Travels
<1>3. taken' \in 0 .. MaxRequests
  BY RootAssumption
<1>4. Values'
  BY <1>1, <1>3 DEF Values
<1> QED BY <1>2, <1>4, TypeOKPartsNext DEF IInv, ReplyIsOwn

LEMMA RequestSentStep == ASSUME IInv, RequestSent PROVE IInv'
<1>1. Values /\ Shape(link, conn, helper) /\ Counted(link, clients)
  BY TypeOKParts DEF IInv
<1>2. /\ app /\ waiting = "no" /\ conn # 0 /\ conn \in Conns
      /\ asked' = asked + 1 /\ taken' = 0
      /\ UNCHANGED <<app, starts, granted, probeDue, helper, clients, old, crashes, met>>
  BY <1>1, RootAssumption DEF RequestSent, Idle, helperVars, Shape, Conns
<1>3. asked' \in 0 .. MaxRequests /\ asked' \in Request
  BY <1>1, <1>2, RootAssumption DEF RequestSent, Values, Request
<1>4. link[conn] \in Link /\ link[conn].lines = <<>> /\ link[conn].replies = <<>>
  BY <1>1, <1>2 DEF Shape, IInv, RepliesFit
<1>5. CASE link[conn].helper
  <2> DEFINE l == [link[conn] EXCEPT !.lines = <<asked'>>]
  <2>1. /\ link' = [link EXCEPT ![conn].lines = Append(@, asked')]
        /\ waiting' = "header" /\ conn' = conn
    BY <1>5 DEF RequestSent
  <2>2. Append(<<>>, asked') = <<asked'>> /\ <<asked'>> \in Seq(Request)
    BY <1>3
  <2>3. /\ l \in Link /\ l.client = link[conn].client /\ l.helper = link[conn].helper
        /\ l.accepted = link[conn].accepted
        /\ l.lines = <<asked'>> /\ l.replies = <<>>
    BY <1>4, <2>2 DEF Link
  <2>4. link' = [link EXCEPT ![conn] = l]
    BY <1>1, <1>2, <1>4, <2>1, <2>2 DEF Shape
  <2> HIDE DEF l
  <2>5. link'[conn] = l
    BY <1>1, <1>2, <2>3, <2>4, OneLink DEF Shape
  <2>6. RepliesFit'
    BY <2>1, <2>3, <2>5 DEF RepliesFit
  <2> QED BY <1>2, <1>3, <2>1, <2>3, <2>4, <2>6, TravelStep
<1>6. CASE ~link[conn].helper
  <2>1. /\ link' = [link EXCEPT ![conn] = ClientCloses(link[conn])]
        /\ waiting' = "no" /\ conn' = 0
    BY <1>2, <1>6 DEF RequestSent
  <2> QED BY <1>1, <1>2, <1>3, <2>1, LetGo DEF Values
<1> QED BY <1>5, <1>6

\* request() returns: what else is on the connection is gone with it.
LEMMA ReturnedStep ==
  ASSUME IInv, conn # 0, link[conn].lines = <<>>, Returned(asked),
         UNCHANGED <<app, starts, granted, conn, asked, probeDue, helperVars, met>>
  PROVE  IInv'
<1> DEFINE l == [link[conn] EXCEPT !.replies = <<>>]
<1>1. Values /\ Shape(link, conn, helper)
  BY TypeOKParts DEF IInv
<1>2. conn \in Conns /\ link[conn] \in Link
  BY <1>1, RootAssumption DEF Shape, Conns
<1>3. /\ l \in Link /\ l.client = link[conn].client /\ l.helper = link[conn].helper
      /\ l.accepted = link[conn].accepted /\ l.lines = <<>> /\ l.replies = <<>>
  BY <1>2, EmptySeq DEF Link
<1>4. /\ link' = [link EXCEPT ![conn] = l] /\ waiting' = "no" /\ taken' = asked
      /\ UNCHANGED <<helper, clients, old, crashes>>
  BY <1>1, <1>2 DEF Returned, Shape, helperVars
<1> HIDE DEF l
<1>5. link'[conn] = l
  BY <1>1, <1>2, <1>3, <1>4, OneLink DEF Shape
<1>6. RepliesFit'
  BY <1>3, <1>4, <1>5 DEF RepliesFit
<1>7. asked' \in 0 .. MaxRequests
  BY <1>1 DEF Values
<1> QED BY <1>2, <1>3, <1>4, <1>6, <1>7, TravelStep

LEMMA ReadPayloadStep == ASSUME IInv, ReadPayload PROVE IInv'
<1>1. Values
  BY TypeOKParts DEF IInv
<1>2. conn # 0 /\ waiting = "payload"
  BY <1>1 DEF ReadPayload, Values
<1>3. /\ link[conn].lines = <<>>
      /\ link[conn].replies = <<[req |-> asked, payload |-> "here"]>>
  BY <1>2 DEF IInv, RepliesFit
<1>4. Head(link[conn].replies).req = asked
  BY <1>3
<1> QED BY <1>2, <1>3, <1>4, ReturnedStep DEF ReadPayload

LEMMA ReadHeaderStep == ASSUME IInv, ReadHeader PROVE IInv'
<1>1. Values /\ Shape(link, conn, helper)
  BY TypeOKParts DEF IInv
<1>2. conn # 0 /\ waiting = "header" /\ conn \in Conns /\ link[conn] \in Link
  BY <1>1, RootAssumption DEF ReadHeader, Values, Shape, Conns
<1>3. link[conn].lines = <<>> /\ link[conn].replies \in ReplyTo(asked)
  BY <1>2 DEF IInv, RepliesFit, ReadHeader
<1>4. CASE link[conn].replies = <<[req |-> asked, payload |-> "none"]>>
  <2>1. Head(link[conn].replies) = [req |-> asked, payload |-> "none"]
    BY <1>4
  <2>2. Returned(asked)
    BY <2>1 DEF ReadHeader
  <2> QED BY <1>2, <1>3, <2>2, ReturnedStep DEF ReadHeader
<1>5. CASE link[conn].replies = <<[req |-> asked, payload |-> "follows"],
                                  [req |-> asked, payload |-> "here"]>>
  <2> DEFINE rest == <<[req |-> asked, payload |-> "here"]>>
             l == [link[conn] EXCEPT !.replies = rest]
  <2>1. /\ Head(link[conn].replies) = [req |-> asked, payload |-> "follows"]
        /\ Tail(link[conn].replies) = rest
    BY <1>5
  <2>2. /\ waiting' = "payload" /\ link' = [link EXCEPT ![conn].replies = Tail(@)]
        /\ UNCHANGED <<app, starts, granted, conn, asked, taken, probeDue, helper, clients,
                       old, crashes, met>>
    BY <2>1 DEF ReadHeader, helperVars
  <2>3. rest \in Seq(Part)
    <3>1. link[conn].replies \in Seq(Part) /\ link[conn].replies # <<>>
      BY <1>2 DEF Link, ReadHeader
    <3>2. Tail(link[conn].replies) \in Seq(Part)
      BY <3>1, HeadTailProperties
    <3> QED BY <2>1, <3>2
  <2>4. /\ l \in Link /\ l.client = link[conn].client /\ l.helper = link[conn].helper
        /\ l.accepted = link[conn].accepted /\ l.lines = <<>> /\ l.replies = rest
    BY <1>2, <1>3, <2>3 DEF Link
  <2>5. link' = [link EXCEPT ![conn] = l]
    BY <1>1, <1>2, <2>1, <2>2 DEF Shape
  <2> HIDE DEF l
  <2>6. link'[conn] = l
    BY <1>1, <1>2, <2>4, <2>5, OneLink DEF Shape
  <2>7. RepliesFit'
    BY <2>2, <2>4, <2>6 DEF RepliesFit
  <2>8. asked' \in 0 .. MaxRequests /\ taken' \in {0, asked'}
    BY <1>1, <2>2 DEF Values, IInv, ReplyIsOwn
  <2> QED BY <1>2, <2>2, <2>4, <2>5, <2>7, <2>8, TravelStep
<1> QED BY <1>3, <1>4, <1>5 DEF ReplyTo

\* The helper's steps.
LEMMA HelperEndsStep ==
  ASSUME IInv, NEW next \in {"down", "starting"}, HelperEnds(next),
         UNCHANGED <<app, starts, conn, waiting, asked, taken, probeDue, met>>,
         granted' \in BOOLEAN, crashes' \in 0 .. MaxCrashes
  PROVE  IInv'
<1>1. Values /\ Shape(link, conn, helper)
  BY TypeOKParts DEF IInv
<1>2. /\ Shape(link', conn', next) /\ Counted(link', clients') /\ helper' = next /\ old' = FALSE
      /\ \A c \in Conns : /\ link'[c].lines = <<>>
                          /\ link[c].client => link'[c].replies = link[c].replies
  BY <1>1, HelperGone
<1>3. Values'
  BY <1>1, <1>2 DEF Values
<1>4. TypeOK'
  BY <1>2, <1>3, TypeOKPartsNext
<1>5. CASE conn = 0
  BY <1>4, <1>5 DEF IInv, ReplyIsOwn, RepliesFit
<1>6. CASE conn # 0
  <2>1. conn \in Conns /\ link[conn].client
    BY <1>1, <1>6, RootAssumption DEF Shape, Conns
  <2>2. link'[conn].lines = <<>> /\ link'[conn].replies = link[conn].replies
    BY <1>2, <2>1
  <2>3. RepliesFit'
    BY <1>6, <2>2 DEF IInv, RepliesFit
  <2> QED BY <1>4, <2>3 DEF IInv, ReplyIsOwn
<1> QED BY <1>5, <1>6

LEMMA EndingSteps == ASSUME IInv, RevokeRoot \/ HelperCrashes \/ IdleTick PROVE IInv'
<1>1. Values /\ Shape(link, conn, helper) /\ Counted(link, clients)
  BY TypeOKParts DEF IInv
<1>2. CASE RevokeRoot
  <2>1. /\ granted' = FALSE
        /\ UNCHANGED <<app, starts, conn, waiting, asked, taken, probeDue, crashes, met>>
    BY <1>2 DEF RevokeRoot
  <2>2. CASE HelperEnds("down")
    BY <1>1, <2>1, <2>2, HelperEndsStep DEF Values
  <2>3. CASE UNCHANGED <<helper, clients, old, link>>
    <3>1. Values'
      BY <1>1, <2>1, <2>3 DEF Values
    <3>2. TypeOK'
      BY <1>1, <2>1, <2>3, <3>1, TypeOKPartsNext
    <3> QED BY <2>1, <2>3, <3>2 DEF IInv, ReplyIsOwn, RepliesFit
  <2> QED BY <1>2, <2>2, <2>3 DEF RevokeRoot
<1>3. CASE HelperCrashes
  <2>1. crashes' \in 0 .. MaxCrashes
    BY <1>1, <1>3, RootAssumption DEF HelperCrashes, Values
  <2>2. /\ HelperEnds("starting")
        /\ UNCHANGED <<app, starts, granted, conn, waiting, asked, taken, probeDue, met>>
    BY <1>3 DEF HelperCrashes, appVars
  <2> QED BY <1>1, <2>1, <2>2, HelperEndsStep DEF Values
<1>4. CASE IdleTick
  <2>1. /\ HelperEnds("down")
        /\ UNCHANGED <<app, starts, granted, conn, waiting, asked, taken, probeDue, crashes, met>>
    BY <1>4 DEF IdleTick, appVars
  <2> QED BY <1>1, <2>1, HelperEndsStep DEF Values
<1> QED BY <1>2, <1>3, <1>4

LEMMA QuietSteps == ASSUME IInv, HelperListens \/ GraceEnds PROVE IInv'
<1>1. Values /\ Shape(link, conn, helper) /\ Counted(link, clients)
  BY TypeOKParts DEF IInv
<1>2. /\ UNCHANGED <<app, starts, granted, conn, waiting, asked, taken, probeDue, link,
                     clients, crashes>>
      /\ met' \in BOOLEAN /\ old' \in BOOLEAN
      /\ helper' = helper \/ helper' = "up"
  BY <1>1 DEF HelperListens, GraceEnds, appVars, Values
<1>3. Shape(link', conn', helper')
  BY <1>1, <1>2 DEF Shape
<1>4. Values'
  BY <1>1, <1>2 DEF Values
<1>5. TypeOK'
  BY <1>1, <1>2, <1>3, <1>4, TypeOKPartsNext
<1> QED BY <1>2, <1>5 DEF IInv, ReplyIsOwn, RepliesFit

\* The helper accepts: one more is counted, because one more is there.
LEMMA NewConnectionStep == ASSUME IInv, NEW c \in Conns, NewConnection(c) PROVE IInv'
<1> DEFINE l == [link[c] EXCEPT !.accepted = TRUE]
<1>1. Values /\ Shape(link, conn, helper) /\ Counted(link, clients)
  BY TypeOKParts DEF IInv
<1>2. /\ link[c].helper /\ ~link[c].accepted
      /\ link' = [link EXCEPT ![c].accepted = TRUE] /\ clients' = clients + 1
      /\ UNCHANGED <<app, starts, granted, conn, waiting, asked, taken, probeDue, helper,
                     old, crashes, met>>
  BY DEF NewConnection, appVars
<1>3. /\ l \in Link /\ l.client = link[c].client /\ l.helper = link[c].helper /\ l.accepted
      /\ l.lines = link[c].lines /\ l.replies = link[c].replies
      /\ link' = [link EXCEPT ![c] = l]
  BY <1>1, <1>2 DEF Shape, Link
<1> HIDE DEF l
<1>4. /\ link' \in [Conns -> Link] /\ link'[c] = l
      /\ \A d \in Conns \ {c} : link'[d] = link[d]
  BY <1>1, <1>3, OneLink DEF Shape
<1>5. Shape(link', conn', helper')
  BY <1>1, <1>2, <1>3, <1>4 DEF Shape
<1>6. Counted(link', clients')
  <2> DEFINE before == {d \in Conns : link[d].accepted}
  <2>1. {d \in Conns : link'[d].accepted} = before \cup {c} /\ c \notin before
    BY <1>2, <1>3, <1>4
  <2>2. IsFiniteSet(before)
    BY ConnsFinite, FS_Subset
  <2>3. Cardinality(before \cup {c}) = Cardinality(before) + 1
    BY <2>1, <2>2, FS_AddElement
  <2> QED BY <1>1, <1>2, <2>1, <2>3 DEF Counted
<1>7. Values'
  BY <1>1, <1>2 DEF Values
<1>8. RepliesFit'
  <2>1. \A d \in Conns : link'[d].lines = link[d].lines /\ link'[d].replies = link[d].replies
    BY <1>3, <1>4
  <2>2. conn # 0 => conn \in Conns
    BY <1>1, RootAssumption DEF Shape, Conns
  <2> QED BY <1>2, <2>1, <2>2 DEF IInv, RepliesFit
<1> QED BY <1>2, <1>5, <1>6, <1>7, <1>8, TypeOKPartsNext DEF IInv, ReplyIsOwn

\* A line answered: on the app's connection it is the line that is waited for.
LEMMA ServeStep == ASSUME IInv, NEW c \in Conns, Serve(c) PROVE IInv'
<1>1. Values /\ Shape(link, conn, helper) /\ Counted(link, clients)
  BY TypeOKParts DEF IInv
<1>2. /\ link[c].lines # <<>>
      /\ UNCHANGED <<app, starts, granted, conn, waiting, asked, taken, probeDue, helper,
                     clients, old, crashes, met>>
  BY DEF Serve, appVars, helperVars
<1>3. PICK reply \in ReplyTo(Head(link[c].lines)) :
        link' = [link EXCEPT ![c].lines = Tail(@),
                             ![c].replies = IF link[c].client THEN @ \o reply ELSE @]
  BY DEF Serve
<1> DEFINE replies == IF link[c].client THEN link[c].replies \o reply ELSE link[c].replies
           l == [link[c] EXCEPT !.lines = Tail(link[c].lines), !.replies = replies]
<1>4. link[c] \in Link /\ link[c].lines \in Seq(Request) /\ link[c].replies \in Seq(Part)
  BY <1>1 DEF Shape, Link
<1>5. Head(link[c].lines) \in Request /\ Tail(link[c].lines) \in Seq(Request)
  BY <1>2, <1>4, HeadTailProperties
<1>6. reply \in Seq(Part)
  <2>1. PICK r \in Request : r = Head(link[c].lines)
    BY <1>5
  <2>2. /\ [req |-> r, payload |-> "none"] \in Part
        /\ [req |-> r, payload |-> "follows"] \in Part
        /\ [req |-> r, payload |-> "here"] \in Part
    BY DEF Part
  <2>3. /\ <<[req |-> r, payload |-> "none"]>> \in Seq(Part)
        /\ <<[req |-> r, payload |-> "follows"], [req |-> r, payload |-> "here"]>> \in Seq(Part)
    BY <2>2
  <2> QED BY <2>1, <2>3 DEF ReplyTo
<1>7. replies \in Seq(Part)
  BY <1>4, <1>6, ConcatProperties
<1>8. /\ l \in Link /\ l.client = link[c].client /\ l.helper = link[c].helper
      /\ l.accepted = link[c].accepted
      /\ l.lines = Tail(link[c].lines) /\ l.replies = replies
  BY <1>4, <1>5, <1>7 DEF Link
<1>9. link' = [link EXCEPT ![c] = l]
  BY <1>1, <1>3 DEF Shape
<1> HIDE DEF l
<1>10. link'[c] = l /\ \A d \in Conns \ {c} : link'[d] = link[d]
  BY <1>1, <1>8, <1>9, OneLink DEF Shape
<1>11. RepliesFit'
  <2>1. CASE conn # c
    <3>1. conn # 0 => conn \in Conns /\ link'[conn] = link[conn]
      BY <1>1, <1>10, <2>1, RootAssumption DEF Shape, Conns
    <3> QED BY <1>2, <3>1 DEF IInv, RepliesFit
  <2>2. CASE conn = c
    <3>1. conn # 0 /\ link[c].client
      BY <1>1, <2>2, RootAssumption DEF Shape, Conns
    <3>2. /\ waiting = "header" /\ link[c].lines = <<asked>> /\ link[c].replies = <<>>
      BY <1>1, <1>2, <2>2, <3>1 DEF IInv, RepliesFit, Values
    <3>3. Head(link[c].lines) = asked /\ Tail(link[c].lines) = <<>>
      BY <3>2
    <3>4. replies = reply
      BY <1>6, <3>1, <3>2, ConcatEmptySeq
    <3>5. l.lines = <<>> /\ l.replies \in ReplyTo(asked)
      BY <1>8, <3>3, <3>4
    <3> QED BY <1>2, <1>10, <2>2, <3>2, <3>5 DEF RepliesFit, ReplyTo
  <2> QED BY <2>1, <2>2
<1>12. asked' \in 0 .. MaxRequests /\ taken' \in {0, asked'} /\ waiting' \in {"no", "header", "payload"}
  BY <1>1, <1>2 DEF Values, IInv, ReplyIsOwn
<1> QED BY <1>2, <1>8, <1>9, <1>11, <1>12, TravelStep

\* A client that has gone is counted off.
LEMMA DisconnectedStep == ASSUME IInv, NEW c \in Conns, Disconnected(c) PROVE IInv'
<1> DEFINE l == HelperCloses(link[c])
<1>1. Values /\ Shape(link, conn, helper) /\ Counted(link, clients)
  BY TypeOKParts DEF IInv
<1>2. /\ link[c].accepted /\ ~link[c].client
      /\ link' = [link EXCEPT ![c] = l] /\ clients' = clients - 1
      /\ UNCHANGED <<app, starts, granted, conn, waiting, asked, taken, probeDue, helper,
                     old, crashes, met>>
  BY DEF Disconnected, Uncounted, appVars
<1>3. l \in Link /\ l.client = link[c].client /\ ~l.helper /\ ~l.accepted
  BY <1>1, EndsClosed DEF Shape
<1> HIDE DEF l
<1>4. /\ link' \in [Conns -> Link] /\ link'[c] = l
      /\ \A d \in Conns \ {c} : link'[d] = link[d]
  BY <1>1, <1>2, <1>3, OneLink DEF Shape
<1>5. Shape(link', conn', helper')
  BY <1>1, <1>2, <1>3, <1>4 DEF Shape
<1>6. Counted(link', clients')
  <2> DEFINE before == {d \in Conns : link[d].accepted}
  <2>1. {d \in Conns : link'[d].accepted} = before \ {c} /\ c \in before
    BY <1>2, <1>3, <1>4
  <2>2. IsFiniteSet(before)
    BY ConnsFinite, FS_Subset
  <2>3. Cardinality(before \ {c}) = Cardinality(before) - 1
    BY <2>1, <2>2, FS_RemoveElement
  <2> QED BY <1>1, <1>2, <2>1, <2>3 DEF Counted
<1>7. Values'
  BY <1>1, <1>2 DEF Values
<1>8. RepliesFit'
  <2>1. conn # 0 => conn \in Conns \ {c}
    BY <1>1, <1>2, RootAssumption DEF Shape, Conns
  <2> QED BY <1>2, <1>4, <2>1 DEF IInv, RepliesFit
<1> QED BY <1>2, <1>5, <1>6, <1>7, <1>8, TypeOKPartsNext DEF IInv, ReplyIsOwn

LEMMA InitIInv == Init => IInv
<1> SUFFICES ASSUME Init PROVE IInv
  OBVIOUS
<1>1. Unused \in Link /\ ~Unused.client /\ ~Unused.helper /\ ~Unused.accepted
  BY EmptySeq DEF Unused, Link
<1>2. link = [c \in Conns |-> Unused] /\ conn = 0 /\ clients = 0 /\ 0 \notin Conns
  BY RootAssumption DEF Init, Conns
<1>3. \A c \in Conns : link[c] = Unused
  BY <1>2
<1>4. 0 \in 0 .. Slots /\ 0 \in 0 .. MaxStarts /\ 0 \in 0 .. MaxRequests /\ 0 \in 0 .. MaxCrashes
  BY RootAssumption
<1>5. Shape(link, conn, helper)
  <2> HIDE DEF Unused
  <2>1. link \in [Conns -> Link]
    BY <1>1, <1>2
  <2> QED BY <1>1, <1>2, <1>3, <1>4, <2>1 DEF Shape
<1>6. Counted(link, clients)
  <2>1. {c \in Conns : link[c].accepted} = {}
    BY <1>1, <1>3
  <2> QED BY <1>2, <2>1, FS_EmptySet DEF Counted
<1>7. Values
  BY <1>4 DEF Init, Values
<1>8. ReplyIsOwn /\ RepliesFit
  BY DEF Init, ReplyIsOwn, RepliesFit
<1> QED BY <1>5, <1>6, <1>7, <1>8, TypeOKParts DEF IInv

LEMMA StepIInv == IInv /\ [Next]_vars => IInv'
<1> SUFFICES ASSUME IInv, [Next]_vars PROVE IInv'
  OBVIOUS
<1>1. CASE UNCHANGED vars
  <2>1. /\ UNCHANGED <<app, starts, granted, conn, waiting, asked, taken, probeDue>>
        /\ UNCHANGED <<helper, clients, old, crashes, met, link>>
    BY <1>1 DEF vars, appVars, helperVars
  <2>2. Values' /\ Shape(link', conn', helper') /\ Counted(link', clients')
    BY <2>1, TypeOKParts DEF IInv, Values
  <2> QED BY <2>1, <2>2, TypeOKPartsNext DEF IInv, ReplyIsOwn, RepliesFit
<1>2. CASE AppNext
  BY <1>2, AppStartsStep, AppExitsStep, GrantRootStep, EndingSteps, ProbingSteps,
     SeesClosedStep, RequestSentStep, ReadHeaderStep, ReadPayloadStep, TimedOutStep
     DEF AppNext
<1>3. CASE HelperNext
  BY <1>3, QuietSteps, EndingSteps, NewConnectionStep, ServeStep, DisconnectedStep
     DEF HelperNext
<1> QED BY <1>1, <1>2, <1>3 DEF Next

\* The inductive invariant holds in every reachable state.
THEOREM RootInvariant == Spec => []IInv
  BY InitIInv, StepIInv, PTL DEF Spec

\* A request waits on a connection the app holds, an ended helper holds none,
\* and the helper counts its clients right, however they come and go.
THEOREM RootTypeOK == Spec => []TypeOK
<1>1. IInv => TypeOK
  BY DEF IInv
<1> QED BY <1>1, RootInvariant, PTL

\* request() returns the answer to its own line or nothing, however many
\* requests were given up on before it and however often the helper died.
THEOREM RootReplyIsOwn == Spec => []ReplyIsOwn
<1>1. IInv => ReplyIsOwn
  BY DEF IInv
<1> QED BY <1>1, RootInvariant, PTL

\* The helper's own end never takes it from a client it has accepted.
THEOREM RootHelperKept == Spec => HelperKept
<1> DEFINE Kept == helper = "up" /\ helper' = "down" /\ granted' = granted
                     => \A c \in Conns : ~(link[c].accepted /\ link[c].client)
<1>1. IInv /\ [Next]_vars => [Kept]_vars
  <2> SUFFICES ASSUME IInv, Next, helper = "up", helper' = "down", granted' = granted,
                      NEW c \in Conns
               PROVE  ~link[c].accepted
    OBVIOUS
  <2>1. CASE IdleTick
    <3>1. clients = 0 /\ clients = Cardinality({d \in Conns : link[d].accepted})
      BY <2>1, TypeOKParts DEF IdleTick, MayQuit, IInv, Counted
    <3>2. IsFiniteSet({d \in Conns : link[d].accepted})
      BY ConnsFinite, FS_Subset
    <3>3. {d \in Conns : link[d].accepted} = {}
      BY <3>1, <3>2, FS_EmptySet
    <3> QED BY <3>3
  <2>2. CASE AppNext
    <3>1. helper' = helper \/ helper' = "starting" \/ granted' # granted
      BY <2>2 DEF AppNext, AppStarts, AppExits, GrantRoot, RevokeRoot, ProbeAfterStart,
         Retry, SeesClosed, RequestSent, ReadHeader, ReadPayload, TimedOut, helperVars
    <3> QED BY <3>1
  <2>3. CASE HelperNext /\ ~IdleTick
    <3>1. helper' = helper \/ helper' = "starting" \/ helper' = "up"
      BY <2>3 DEF HelperNext, HelperListens, HelperCrashes, HelperEnds, GraceEnds,
         NewConnection, Serve, Disconnected, helperVars
    <3> QED BY <3>1
  <2> QED BY <2>1, <2>2, <2>3 DEF Next
<1> QED BY <1>1, RootInvariant, PTL DEF Spec, HelperKept
==============================================================================
