-------------------------- MODULE BinderScan_proofs --------------------------
(***************************************************************************)
(* Proofs about BinderScan for any listings that name each service once, any *)
(* processes and any bounds.                                                 *)
(***************************************************************************)
EXTENDS BinderScan, SequenceTheorems, FiniteSetTheorems, TLAPS

\* The parts of IInv for any list of entries.
Once(entries) ==
  \A i, j \in 1 .. Len(entries) : entries[i].service = entries[j].service => i = j

Listed(entries, s) == \E i \in 1 .. Len(entries) : entries[i].service = s

NoClaims(entries) ==
  \A i \in 1 .. Len(entries) : entries[i].proof = "unanswered" => entries[i].pid = "none"

\* What is left to ping: each service once, and none of them listed.
Fresh(left, entries) ==
  /\ \A i, j \in 1 .. Len(left) : left[i] = left[j] => i = j
  /\ \A i \in 1 .. Len(left) : ~Listed(entries, left[i])

TimedOut(entries, s) ==
  /\ entries # <<>>
  /\ entries[Len(entries)].service.name = s.name
  /\ entries[Len(entries)].proof = "unanswered"

Claims ==
  /\ Once(registry) /\ NoClaims(registry) /\ Fresh(queue, registry)
  /\ \A i \in 1 .. Len(queue) : queue[i] # current
  /\ current = <<>> => ~guard /\ ping = "none"
  /\ Listed(registry, current) => ~guard /\ (ping = "none" \/ TimedOut(registry, current))

LEMMA Parts == IInv <=> TypeOK /\ Claims
<1> SUFFICES ASSUME TypeOK
             PROVE  AtMostOnce /\ StillToPing /\ CurrentOnce /\ NoAnswerNoClaim <=> Claims
  BY DEF IInv
<1>1. DOMAIN registry = 1 .. Len(registry) /\ DOMAIN queue = 1 .. Len(queue)
  BY LenProperties DEF TypeOK
<1> QED BY <1>1 DEF AtMostOnce, StillToPing, CurrentOnce, NoAnswerNoClaim, Claims, Once,
                    NoClaims, Fresh, Listed, TimedOut, Recorded

LEMMA PartsNext == IInv' <=> TypeOK' /\ Claims'
<1> SUFFICES ASSUME TypeOK'
             PROVE  (AtMostOnce /\ StillToPing /\ CurrentOnce /\ NoAnswerNoClaim)' <=> Claims'
  BY DEF IInv
<1>1. DOMAIN registry' = 1 .. Len(registry') /\ DOMAIN queue' = 1 .. Len(queue')
  BY LenProperties DEF TypeOK
<1> QED BY <1>1 DEF AtMostOnce, StillToPing, CurrentOnce, NoAnswerNoClaim, Claims, Once,
                    NoClaims, Fresh, Listed, TimedOut, Recorded

\* An entry for a service that is not listed yet.
LEMMA EntryAdded ==
  ASSUME NEW entries \in Seq(Entry), NEW e \in Entry, ~Listed(entries, e.service),
         Once(entries), NoClaims(entries), e.proof = "unanswered" => e.pid = "none"
  PROVE  /\ Append(entries, e) \in Seq(Entry)
         /\ Once(Append(entries, e)) /\ NoClaims(Append(entries, e))
         /\ \A s : Listed(Append(entries, e), s) => Listed(entries, s) \/ s = e.service
         /\ \A s : e.service.name = s.name /\ e.proof = "unanswered"
                     => TimedOut(Append(entries, e), s)
<1> DEFINE n == Len(entries)
           longer == Append(entries, e)
<1>1. /\ n \in Nat /\ longer \in Seq(Entry) /\ Len(longer) = n + 1
      /\ longer[n + 1] = e /\ \A i \in 1 .. n : longer[i] = entries[i]
      /\ longer # <<>>
  <2>1. /\ n \in Nat /\ longer \in Seq(Entry) /\ Len(longer) = n + 1
        /\ longer[n + 1] = e /\ \A i \in 1 .. n : longer[i] = entries[i]
    BY AppendProperties, LenProperties
  <2>2. longer # <<>>
    BY AppendProperties
  <2> QED BY <2>1, <2>2
<1> HIDE DEF longer
<1>2. \A i \in 1 .. Len(longer) : i = n + 1 \/ i \in 1 .. n
  <2>1. SUFFICES ASSUME NEW i \in 1 .. Len(longer), i # n + 1 PROVE i \in 1 .. n
    OBVIOUS
  <2>2. n \in Nat /\ Len(longer) = n + 1
    BY <1>1
  <2> QED BY <2>1, <2>2
<1>3. ASSUME NEW i \in 1 .. Len(longer), NEW j \in 1 .. Len(longer),
             longer[i].service = longer[j].service
      PROVE  i = j
  BY <1>1, <1>2, <1>3 DEF Once, Listed
<1>4. NoClaims(longer)
  BY <1>1, <1>2 DEF NoClaims
<1>5. \A s : Listed(longer, s) => Listed(entries, s) \/ s = e.service
  BY <1>1, <1>2 DEF Listed
<1>6. \A s : e.service.name = s.name /\ e.proof = "unanswered" => TimedOut(longer, s)
  BY <1>1 DEF TimedOut
<1> QED BY <1>1, <1>3, <1>4, <1>5, <1>6 DEF Once, longer

\* Checking the owners again changes neither which services are listed nor what
\* a timeout left.
LEMMA ReverifiedKeeps ==
  ASSUME NEW entries \in Seq(Entry)
  PROVE  /\ Reverified(entries) \in Seq(Entry)
         /\ Len(Reverified(entries)) = Len(entries)
         /\ \A i \in 1 .. Len(entries) :
              /\ Reverified(entries)[i].service = entries[i].service
              /\ \/ Reverified(entries)[i] = entries[i]
                 \/ /\ entries[i].pid \in Process
                    /\ Reverified(entries)[i].proof = "gone"
<1> DEFINE n == Len(entries)
           checked == Reverified(entries)
<1>1. n \in Nat /\ DOMAIN entries = 1 .. n /\ \A i \in 1 .. n : entries[i] \in Entry
  BY LenProperties, ElementOfSeq
<1>2. checked = [i \in 1 .. n |->
                   IF entries[i].pid \in Process \ alive
                     THEN [entries[i] EXCEPT !.pid = "none", !.proof = "gone"]
                     ELSE entries[i]]
  BY <1>1 DEF Reverified
<1>3. ASSUME NEW i \in 1 .. n
      PROVE  /\ checked[i] \in Entry /\ checked[i].service = entries[i].service
             /\ \/ checked[i] = entries[i]
                \/ entries[i].pid \in Process /\ checked[i].proof = "gone"
  <2>1. entries[i] \in Entry
    BY <1>1
  <2>2. CASE entries[i].pid \in Process \ alive
    <3>1. checked[i] = [entries[i] EXCEPT !.pid = "none", !.proof = "gone"]
      BY <1>2, <2>2
    <3>2. checked[i] = [service |-> entries[i].service, pid |-> "none",
                        proof |-> "gone", by |-> entries[i].by]
      BY <2>1, <3>1 DEF Entry
    <3>3. entries[i].service \in Service /\ entries[i].by \in {"ping", "other", "nobody"}
      BY <2>1 DEF Entry
    <3>4. checked[i] \in Entry
      BY <3>2, <3>3 DEF Entry
    <3> QED BY <2>2, <3>2, <3>4
  <2>3. CASE entries[i].pid \notin Process \ alive
    <3>1. checked[i] = entries[i]
      BY <1>2, <2>3
    <3> QED BY <2>1, <3>1
  <2> QED BY <2>2, <2>3
<1>4. checked \in Seq(Entry) /\ Len(checked) = n
  <2>1. checked \in [1 .. n -> Entry]
    <3> HIDE DEF checked
    <3>1. checked = [i \in 1 .. n |-> checked[i]]
      BY <1>2
    <3> QED BY <1>3, <3>1
  <2> QED BY <1>1, <2>1, SeqDef, LenProperties
<1> QED BY <1>3, <1>4

LEMMA Published ==
  ASSUME NEW entries \in Seq(Entry), Publish(entries)
  PROVE  /\ registry' \in Seq(Entry)
         /\ Once(entries) => Once(registry')
         /\ NoClaims(entries) => NoClaims(registry')
         /\ \A s : Listed(registry', s) <=> Listed(entries, s)
         /\ \A s : NoClaims(entries) /\ TimedOut(entries, s) => TimedOut(registry', s)
         /\ entries = <<>> => registry' = <<>>
<1>1. registry' = entries \/ registry' = Reverified(entries)
  BY DEF Publish
<1>2. /\ registry' \in Seq(Entry) /\ Len(registry') = Len(entries)
      /\ Len(entries) \in Nat
      /\ \A i \in 1 .. Len(entries) :
           /\ registry'[i].service = entries[i].service
           /\ \/ registry'[i] = entries[i]
              \/ entries[i].pid \in Process /\ registry'[i].proof = "gone"
  <2>1. CASE registry' = entries
    BY <2>1, LenProperties
  <2>2. CASE registry' = Reverified(entries)
    BY <2>2, ReverifiedKeeps, LenProperties
  <2> QED BY <1>1, <2>1, <2>2
<1>3. ASSUME NoClaims(entries) PROVE NoClaims(registry')
  BY <1>2, <1>3 DEF NoClaims
<1>4. ASSUME NEW s, NoClaims(entries), TimedOut(entries, s) PROVE TimedOut(registry', s)
  <2> DEFINE n == Len(entries)
  <2>1. n # 0 /\ n \in 1 .. n
    <3>1. entries # <<>>
      BY <1>4 DEF TimedOut
    <3>2. n # 0
      BY <3>1, EmptySeq
    <3> QED BY <1>2, <3>2
  <2>2. entries[n].proof = "unanswered" /\ entries[n].pid = "none"
    BY <1>4, <2>1 DEF TimedOut, NoClaims
  <2>3. registry'[n] = entries[n]
    BY <1>2, <2>1, <2>2, BinderAssumption
  <2>4. registry' # <<>>
    BY <1>2, <2>1, EmptySeq
  <2> QED BY <1>2, <1>4, <2>3, <2>4 DEF TimedOut
<1>5. ASSUME entries = <<>> PROVE registry' = <<>>
  BY <1>2, <1>5, EmptySeq
<1> QED BY <1>2, <1>3, <1>4, <1>5 DEF Once, Listed

(* The types by whom they are about. *)
ScanTypes ==
  /\ scanning \in BOOLEAN /\ queue \in Seq(Service) /\ current \in Service \cup {<<>>}
  /\ total \in Nat /\ done \in Nat
  /\ queue # <<>> => scanning

PingTypes ==
  /\ ping \in {"none", "started", "lookedUp", "called"}
  /\ pinged \in SUBSET Service /\ Cardinality(pinged) = IF ping = "none" THEN 0 ELSE 1
  /\ killed \in BOOLEAN /\ killed => ping # "none"

OtherTypes ==
  /\ registry \in Seq(Entry) /\ guard \in BOOLEAN /\ due \in Nat
  /\ log \in Seq(Call) /\ alive \in SUBSET Process

LEMMA Types == TypeOK <=> ScanTypes /\ PingTypes /\ OtherTypes
  BY DEF TypeOK, ScanTypes, PingTypes, OtherTypes

LEMMA TypesNext == TypeOK' <=> ScanTypes' /\ PingTypes' /\ OtherTypes'
  BY DEF TypeOK, ScanTypes, PingTypes, OtherTypes

LEMMA CallLogged ==
  ASSUME log \in Seq(Call), NEW from \in {"ping", "other"}, NEW to \in Process,
         Logged(from, to)
  PROVE  log' \in Seq(Call)
<1> DEFINE c == [from |-> from, to |-> to]
<1>1. c \in Call /\ log' = Append(log, c)
  BY DEF Call, Logged
<1> HIDE DEF c
<1> QED BY <1>1, AppendProperties

\* No ping, and one ping.
LEMMA NoPing == ASSUME ping' = "none", pinged' = {}, killed' = FALSE PROVE PingTypes'
<1>1. Cardinality({}) = 0
  BY FS_EmptySet
<1> QED BY <1>1 DEF PingTypes

LEMMA OnePing ==
  ASSUME NEW s \in Service, ping' = "started", pinged' = {s}, killed' = FALSE
  PROVE  PingTypes'
<1>1. Cardinality({s}) = 1
  BY FS_Singleton
<1> QED BY <1>1 DEF PingTypes

LEMMA InitIInv == Init => IInv
<1> SUFFICES ASSUME Init PROVE IInv
  OBVIOUS
<1>1. /\ scanning = FALSE /\ queue = <<>> /\ current = <<>> /\ total = 0 /\ done = 0
      /\ registry = <<>> /\ guard = FALSE /\ due = 0
      /\ ping = "none" /\ pinged = {} /\ killed = FALSE
      /\ log = <<>> /\ alive = Process
  BY DEF Init
<1>2. /\ queue \in Seq(Service) /\ registry \in Seq(Entry) /\ log \in Seq(Call)
      /\ Len(queue) = 0 /\ Len(registry) = 0 /\ Cardinality(pinged) = 0
  BY <1>1, EmptySeq, FS_EmptySet
<1>3. TypeOK
  <2>1. ScanTypes
    BY <1>1, <1>2 DEF ScanTypes
  <2>2. PingTypes
    BY <1>1, <1>2 DEF PingTypes
  <2>3. OtherTypes
    BY <1>1, <1>2 DEF OtherTypes
  <2> QED BY <2>1, <2>2, <2>3, Types
<1>4. Claims
  <2>1. (\A i \in 1 .. Len(registry) : FALSE) /\ (\A i \in 1 .. Len(queue) : FALSE)
    BY <1>2
  <2>2. ~guard /\ ping = "none"
    BY <1>1
  <2> QED BY <2>1, <2>2 DEF Claims, Once, NoClaims, Fresh, Listed
<1> QED BY <1>3, <1>4, Parts

\* What neither pings nor lists anything.
LEMMA ClaimsKept ==
  ASSUME Claims, UNCHANGED <<registry, queue, current>>,
         guard' => guard, ping = "none" => ping' = "none"
  PROVE  Claims'
  BY DEF Claims, Once, NoClaims, Fresh, Listed, TimedOut

\* The same for checks of the owners and an emptied queue.
LEMMA ClaimsPublished ==
  ASSUME Claims, registry \in Seq(Entry), Publish(registry), UNCHANGED current,
         queue' \in {queue, <<>>}, guard' => guard, ping = "none" => ping' = "none"
  PROVE  Claims'
<1>1. /\ Once(registry') /\ NoClaims(registry')
      /\ \A s : Listed(registry', s) <=> Listed(registry, s)
      /\ \A s : TimedOut(registry, s) => TimedOut(registry', s)
  BY Published DEF Claims
<1>2. Fresh(queue', registry') /\ \A i \in 1 .. Len(queue') : queue'[i] # current'
  <2>1. CASE queue' = queue
    BY <1>1, <2>1 DEF Claims, Fresh
  <2>2. CASE queue' = <<>>
    <3>1. \A i \in 1 .. Len(queue') : FALSE
      BY <2>2
    <3> QED BY <3>1 DEF Fresh
  <2> QED BY <2>1, <2>2
<1> QED BY <1>1, <1>2 DEF Claims

LEMMA WorldStep ==
  ASSUME IInv, PingLooksUp \/ PingCalls \/ OtherCalls \/ ServerDies
  PROVE  IInv'
<1>1. TypeOK /\ Claims /\ ScanTypes /\ PingTypes /\ OtherTypes
  BY Parts, Types
<1>2. /\ UNCHANGED <<scanVars, registry, guard, due, pinged, killed>>
      /\ log' \in Seq(Call) /\ alive' \in SUBSET Process
      /\ \/ ping' = ping
         \/ ping # "none" /\ ping' \in {"lookedUp", "called"}
  <2>1. CASE PingLooksUp
    <3>1. log' \in Seq(Call)
      BY <1>1, <2>1, CallLogged, BinderAssumption DEF PingLooksUp, OtherTypes
    <3> QED BY <1>1, <2>1, <3>1 DEF PingLooksUp, OtherTypes
  <2>2. CASE PingCalls
    <3>1. PICK s \in pinged : ServedBy[s] \in alive /\ Logged("ping", ServedBy[s])
      BY <2>2 DEF PingCalls
    <3>2. log' \in Seq(Call)
      BY <1>1, <3>1, CallLogged DEF OtherTypes
    <3> QED BY <1>1, <2>2, <3>2 DEF PingCalls, OtherTypes
  <2>3. CASE OtherCalls
    <3>1. PICK q \in alive : Logged("other", q)
      BY <2>3 DEF OtherCalls
    <3>2. log' \in Seq(Call)
      BY <1>1, <3>1, CallLogged DEF OtherTypes
    <3> QED BY <1>1, <2>3, <3>2 DEF OtherCalls, OtherTypes, pingVars
  <2>4. CASE ServerDies
    BY <1>1, <2>4 DEF ServerDies, OtherTypes, pingVars
  <2> QED BY <2>1, <2>2, <2>3, <2>4
<1>3. ScanTypes' /\ PingTypes' /\ OtherTypes'
  BY <1>1, <1>2 DEF ScanTypes, PingTypes, OtherTypes, scanVars
<1>4. Claims'
  BY <1>1, <1>2, ClaimsKept DEF scanVars
<1> QED BY <1>3, <1>4, PartsNext, TypesNext

\* The first of what is left, taken off.
LEMMA NextTaken ==
  ASSUME NEW left \in Seq(Service), left # <<>>, NEW entries, Fresh(left, entries)
  PROVE  /\ Head(left) \in Service /\ Head(left) # <<>> /\ Tail(left) \in Seq(Service)
         /\ ~Listed(entries, Head(left)) /\ Fresh(Tail(left), entries)
         /\ \A i \in 1 .. Len(Tail(left)) : Tail(left)[i] # Head(left)
<1> DEFINE n == Len(left)
           rest == Tail(left)
<1>1. /\ n \in Nat \ {0} /\ Len(rest) = n - 1 /\ Head(left) = left[1]
      /\ \A i \in 1 .. n - 1 : rest[i] = left[i + 1]
      /\ rest \in Seq(Service) /\ Head(left) \in Service
  BY HeadTailProperties, LenProperties, EmptySeq
<1> HIDE DEF rest
<1>2. ASSUME NEW i \in 1 .. Len(rest)
      PROVE  i + 1 \in 1 .. n /\ i + 1 # 1 /\ rest[i] = left[i + 1] /\ i \in Nat
  BY <1>1, <1>2
<1>3. 1 \in 1 .. n
  BY <1>1
<1>4. ASSUME NEW i \in 1 .. Len(rest) PROVE rest[i] # Head(left) /\ ~Listed(entries, rest[i])
  BY <1>1, <1>2, <1>3 DEF Fresh
<1>5. ASSUME NEW i \in 1 .. Len(rest), NEW j \in 1 .. Len(rest), rest[i] = rest[j]
      PROVE  i = j
  <2>1. left[i + 1] = left[j + 1] /\ i + 1 \in 1 .. n /\ j + 1 \in 1 .. n
    BY <1>2, <1>5
  <2>2. i + 1 = j + 1
    BY <2>1 DEF Fresh
  <2> QED BY <1>2, <2>2
<1>6. Head(left) # <<>>
  BY <1>1, BinderAssumption
<1> QED BY <1>1, <1>3, <1>4, <1>5, <1>6 DEF Fresh, rest

\* A service is pinged: the guard is on, and a ping that still runs goes on.
LEMMA StartPingStep ==
  ASSUME PingTypes, NEW left \in Seq(Service), left # <<>>, Fresh(left, registry'),
         Once(registry'), NoClaims(registry'),
         queue' = Tail(left), current' = Head(left), StartPing
  PROVE  /\ PingTypes' /\ Claims' /\ guard' = TRUE
         /\ queue' \in Seq(Service) /\ current' \in Service
<1>1. /\ current' \in Service /\ current' # <<>> /\ queue' \in Seq(Service)
      /\ ~Listed(registry', current') /\ Fresh(queue', registry')
      /\ \A i \in 1 .. Len(queue') : queue'[i] # current'
  BY NextTaken
<1>2. guard' = TRUE
  BY DEF StartPing
<1>3. Claims'
  BY <1>1 DEF Claims
<1>4. PingTypes'
  <2>1. CASE ping = "none" /\ ping' = "started" /\ pinged' = {current'} /\ killed' = FALSE
    BY <1>1, <2>1, OnePing
  <2>2. CASE UNCHANGED pingVars
    BY <2>2 DEF PingTypes, pingVars
  <2> QED BY <2>1, <2>2 DEF StartPing
<1> QED BY <1>1, <1>2, <1>3, <1>4

LEMMA ScanStepStep == ASSUME IInv, ScanStep PROVE IInv'
<1>1. TypeOK /\ Claims /\ ScanTypes /\ PingTypes /\ OtherTypes
  BY Parts, Types
<1>2. due' = due - 1 /\ due' \in Nat /\ UNCHANGED <<total, done, alive>>
  BY <1>1 DEF ScanStep, OtherTypes
<1>3. CASE queue = <<>>
  <2>1. /\ scanning' = FALSE /\ Publish(registry)
        /\ UNCHANGED <<queue, current, guard, pingVars, log>>
    BY <1>3 DEF ScanStep
  <2>2. Claims' /\ registry' \in Seq(Entry)
    BY <1>1, <2>1, ClaimsPublished, Published DEF OtherTypes, pingVars
  <2>3. ScanTypes' /\ PingTypes' /\ OtherTypes'
    BY <1>1, <1>2, <1>3, <2>1, <2>2 DEF ScanTypes, PingTypes, OtherTypes, pingVars
  <2> QED BY <2>2, <2>3, PartsNext, TypesNext
<1>4. CASE queue # <<>>
  <2>1. /\ queue' = Tail(queue) /\ current' = Head(queue) /\ log' = <<>>
        /\ StartPing /\ UNCHANGED <<scanning, registry>>
    BY <1>4 DEF ScanStep
  <2>2. /\ PingTypes' /\ Claims' /\ guard' = TRUE
        /\ queue' \in Seq(Service) /\ current' \in Service
    BY <1>1, <1>4, <2>1, StartPingStep DEF ScanTypes, Claims
  <2>3. log' \in Seq(Call)
    BY <2>1, EmptySeq
  <2>4. ScanTypes' /\ OtherTypes'
    BY <1>1, <1>2, <1>4, <2>1, <2>2, <2>3 DEF ScanTypes, OtherTypes
  <2> QED BY <2>2, <2>4, PartsNext, TypesNext
<1> QED BY <1>3, <1>4

LEMMA IdentifyServicesStep == ASSUME IInv, IdentifyServices PROVE IInv'
<1>1. TypeOK /\ Claims /\ ScanTypes /\ PingTypes /\ OtherTypes
  BY Parts, Types
<1>2. PICK listing \in Listings :
        /\ ProgressFromZero(listing)
        /\ IF listing = <<>>
             THEN /\ Publish(<<>>)
                  /\ queue' = <<>> /\ scanning' = FALSE
                  /\ UNCHANGED <<current, guard, pingVars, log>>
             ELSE /\ scanning' = TRUE
                  /\ queue' = Tail(listing) /\ current' = Head(listing)
                  /\ registry' = <<>>
                  /\ log' = <<>>
                  /\ StartPing
  BY DEF IdentifyServices
<1>3. listing \in Seq(Service) /\ DOMAIN listing = 1 .. Len(listing)
      /\ UNCHANGED <<due, alive>>
  BY BinderAssumption, LenProperties DEF IdentifyServices
<1>4. total' \in Nat /\ done' \in Nat
  BY <1>2, <1>3, LenProperties DEF ProgressFromZero
<1>5. <<>> \in Seq(Entry) /\ <<>> \in Seq(Call) /\ <<>> \in Seq(Service)
      /\ \A i \in 1 .. Len(<<>>) : FALSE
  <2>1. Len(<<>>) = 0
    BY EmptySeq
  <2> QED BY <2>1, EmptySeq
<1>6. Once(<<>>) /\ NoClaims(<<>>) /\ \A s : ~Listed(<<>>, s)
  BY <1>5 DEF Once, NoClaims, Listed
<1>7. CASE listing = <<>>
  <2>1. /\ registry' = <<>> /\ queue' = <<>> /\ scanning' = FALSE
        /\ UNCHANGED <<current, guard, pingVars, log>>
    BY <1>2, <1>5, <1>7, Published
  <2>2. Claims'
    BY <1>1, <1>5, <1>6, <2>1 DEF Claims, Fresh, pingVars
  <2>3. ScanTypes' /\ PingTypes' /\ OtherTypes'
    BY <1>1, <1>3, <1>4, <1>5, <2>1 DEF ScanTypes, PingTypes, OtherTypes, pingVars
  <2> QED BY <2>2, <2>3, PartsNext, TypesNext
<1>8. CASE listing # <<>>
  <2>1. /\ scanning' = TRUE /\ queue' = Tail(listing) /\ current' = Head(listing)
        /\ registry' = <<>> /\ log' = <<>> /\ StartPing
    BY <1>2, <1>8
  <2>2. Fresh(listing, registry') /\ Once(registry') /\ NoClaims(registry')
    BY <1>3, <1>6, <2>1, BinderAssumption DEF Fresh
  <2>3. /\ PingTypes' /\ Claims' /\ guard' = TRUE
        /\ queue' \in Seq(Service) /\ current' \in Service
    BY <1>1, <1>3, <1>8, <2>1, <2>2, StartPingStep
  <2>4. ScanTypes' /\ OtherTypes'
    BY <1>1, <1>3, <1>4, <1>5, <2>1, <2>3 DEF ScanTypes, OtherTypes
  <2> QED BY <2>3, <2>4, PartsNext, TypesNext
<1> QED BY <1>7, <1>8

LEMMA OnPingTimeoutStep == ASSUME IInv, OnPingTimeout PROVE IInv'
<1>1. TypeOK /\ Claims /\ ScanTypes /\ PingTypes /\ OtherTypes
  BY Parts, Types
<1> DEFINE e == Unclaimed(current, "unanswered")
<1>2. /\ guard /\ guard' = FALSE /\ registry' = Append(registry, e)
      /\ killed' = (ping # "none" \/ killed)
      /\ UNCHANGED <<scanVars, due, ping, pinged, log, alive>>
  BY DEF OnPingTimeout, Killed
<1>3. current \in Service /\ ~Listed(registry, current)
  BY <1>1, <1>2 DEF Claims, ScanTypes
<1>4. e \in Entry /\ e.service = current /\ e.pid = "none" /\ e.proof = "unanswered"
  BY <1>3 DEF Unclaimed, Entry
<1> HIDE DEF e
<1>5. /\ registry' \in Seq(Entry) /\ Once(registry') /\ NoClaims(registry')
      /\ \A s : Listed(registry', s) => Listed(registry, s) \/ s = current
      /\ TimedOut(registry', current)
  BY <1>1, <1>2, <1>3, <1>4, EntryAdded DEF OtherTypes, Claims
<1>6. Claims'
  BY <1>1, <1>2, <1>5 DEF Claims, Fresh, scanVars
<1>7. ScanTypes' /\ OtherTypes'
  BY <1>1, <1>2, <1>5 DEF ScanTypes, OtherTypes, scanVars
<1>8. PingTypes'
  BY <1>1, <1>2 DEF PingTypes
<1> QED BY <1>6, <1>7, <1>8, PartsNext, TypesNext

\* What a ping that ended leaves in the registry, whether its slot adds to it
\* or finds the timeout's entry there.
LEMMA FindingKept ==
  ASSUME IInv, ping # "none"
  PROVE  /\ WithFinding \in Seq(Entry) /\ Once(WithFinding) /\ NoClaims(WithFinding)
         /\ \A s : Listed(WithFinding, s) => Listed(registry, s) \/ s = current
<1>1. TypeOK /\ Claims /\ OtherTypes /\ current \in Service
  BY Parts, Types DEF Claims, ScanTypes
<1>2. Recorded <=> TimedOut(registry, current)
  BY DEF Recorded, TimedOut
<1>3. Finding \in Entry /\ Finding.service = current /\ Finding.proof # "unanswered"
  <2>1. CASE log = <<>>
    <3>1. Finding = [service |-> current, pid |-> "none", proof |-> "unproven",
                     by |-> "nobody"]
      BY <2>1 DEF Finding, Unclaimed
    <3>2. current \in Service
      BY <1>1
    <3>3. Finding \in Entry
      BY <3>1, <3>2 DEF Entry
    <3> QED BY <3>1, <3>3
  <2>2. CASE log # <<>>
    <3> DEFINE last == log[Len(log)]
    <3>1. Len(log) \in 1 .. Len(log)
      <4>1. Len(log) \in Nat \ {0}
        BY <1>1, <2>2, EmptySeq DEF OtherTypes
      <4> QED BY <4>1
    <3>2. last \in Call
      BY <1>1, <3>1, ElementOfSeq DEF OtherTypes
    <3>3. Finding = [service |-> current, pid |-> last.to, proof |-> "ping",
                     by |-> last.from]
      BY <2>2 DEF Finding
    <3> HIDE DEF last
    <3>4. last.to \in Process /\ last.from \in {"ping", "other"} /\ current \in Service
      BY <1>1, <3>2 DEF Call
    <3>5. Finding \in Entry
      BY <3>3, <3>4 DEF Entry
    <3> QED BY <3>3, <3>5
  <2> QED BY <2>1, <2>2
<1>4. CASE Recorded
  BY <1>1, <1>4 DEF WithFinding, Claims, OtherTypes
<1>5. CASE ~Recorded
  <2>1. ~Listed(registry, current)
    BY <1>1, <1>2, <1>5 DEF Claims
  <2> QED BY <1>1, <1>3, <1>5, <2>1, EntryAdded DEF WithFinding, Claims, OtherTypes
<1> QED BY <1>4, <1>5

LEMMA OnPingFinishedStep == ASSUME IInv, OnPingFinished PROVE IInv'
<1>1. TypeOK /\ Claims /\ ScanTypes /\ PingTypes /\ OtherTypes
  BY Parts, Types
<1>2. /\ ping # "none" /\ registry' = WithFinding
      /\ guard' = FALSE /\ done' = done + 1 /\ due' = due + 1
      /\ ping' = "none" /\ pinged' = {} /\ killed' = FALSE
      /\ UNCHANGED <<scanning, queue, current, total, log, alive>>
  BY <1>1 DEF OnPingFinished, PingOver, PingTypes
<1>3. /\ registry' \in Seq(Entry) /\ Once(registry') /\ NoClaims(registry')
      /\ \A s : Listed(registry', s) => Listed(registry, s) \/ s = current
  BY <1>2, FindingKept
<1>4. Claims'
  BY <1>1, <1>2, <1>3 DEF Claims, Fresh
<1>5. ScanTypes' /\ OtherTypes'
  <2>1. done' \in Nat /\ due' \in Nat
    BY <1>1, <1>2 DEF ScanTypes, OtherTypes
  <2> QED BY <1>1, <1>2, <1>3, <2>1 DEF ScanTypes, OtherTypes
<1>6. PingTypes'
  BY <1>2, NoPing
<1> QED BY <1>4, <1>5, <1>6, PartsNext, TypesNext

\* The button: the wait for the killed ping runs its slot, or gives up.
LEMMA CancelScanStep == ASSUME IInv, CancelScan PROVE IInv'
<1>1. TypeOK /\ Claims /\ ScanTypes /\ PingTypes /\ OtherTypes
  BY Parts, Types
<1>2. /\ scanning' = FALSE /\ queue' = <<>> /\ UNCHANGED <<current, total, log, alive>>
      /\ \/ /\ ping # "none"
            /\ PingOver
            /\ Publish(WithFinding)
         \/ /\ killed' = (ping # "none")
            /\ Publish(registry)
            /\ UNCHANGED <<done, due, guard, ping, pinged>>
  BY DEF CancelScan, EmptyQueue
<1>3. queue' \in Seq(Service) /\ \A i \in 1 .. Len(queue') : FALSE
  BY <1>2, EmptySeq
<1>4. CASE ping # "none" /\ PingOver /\ Publish(WithFinding)
  <2>1. /\ guard' = FALSE /\ done' = done + 1 /\ due' = due + 1
        /\ ping' = "none" /\ pinged' = {} /\ killed' = FALSE
    BY <1>4 DEF PingOver
  <2>2. registry' \in Seq(Entry) /\ Once(registry') /\ NoClaims(registry')
    BY <1>4, FindingKept, Published
  <2>3. Claims'
    BY <1>3, <2>1, <2>2 DEF Claims, Fresh
  <2>4. ScanTypes' /\ OtherTypes'
    <3>1. done' \in Nat /\ due' \in Nat
      BY <1>1, <2>1 DEF ScanTypes, OtherTypes
    <3> QED BY <1>1, <1>2, <1>3, <2>1, <2>2, <3>1 DEF ScanTypes, OtherTypes
  <2>5. PingTypes'
    BY <2>1, NoPing
  <2> QED BY <2>3, <2>4, <2>5, PartsNext, TypesNext
<1>5. CASE /\ killed' = (ping # "none")
           /\ Publish(registry)
           /\ UNCHANGED <<done, due, guard, ping, pinged>>
  <2>1. Claims' /\ registry' \in Seq(Entry)
    BY <1>1, <1>2, <1>5, ClaimsPublished, Published DEF OtherTypes
  <2>2. ScanTypes' /\ OtherTypes'
    BY <1>1, <1>2, <1>3, <1>5, <2>1 DEF ScanTypes, OtherTypes
  <2>3. PingTypes'
    BY <1>1, <1>5 DEF PingTypes
  <2> QED BY <2>1, <2>2, <2>3, PartsNext, TypesNext
<1> QED BY <1>2, <1>4, <1>5

LEMMA StepIInv == IInv /\ [Next]_vars => IInv'
<1> SUFFICES ASSUME IInv, [Next]_vars PROVE IInv'
  OBVIOUS
<1>1. CASE UNCHANGED vars
  <2>1. TypeOK /\ Claims /\ ScanTypes /\ PingTypes /\ OtherTypes
    BY Parts, Types
  <2>2. Claims'
    BY <1>1, <2>1, ClaimsKept DEF vars, scanVars, pingVars
  <2>3. ScanTypes' /\ PingTypes' /\ OtherTypes'
    BY <1>1, <2>1 DEF ScanTypes, PingTypes, OtherTypes, vars, scanVars, pingVars
  <2> QED BY <2>2, <2>3, PartsNext, TypesNext
<1> QED
  BY <1>1, WorldStep, ScanStepStep, IdentifyServicesStep, OnPingTimeoutStep,
     OnPingFinishedStep, CancelScanStep DEF Next

\* The inductive invariant holds in every reachable state.
THEOREM BinderInvariant == Spec => []IInv
  BY InitIInv, StepIInv, PTL DEF Spec

\* Every variable keeps its kind, and nothing is left to ping when no scan runs.
THEOREM BinderTypeOK == Spec => []TypeOK
<1>1. IInv => TypeOK
  BY DEF IInv
<1> QED BY <1>1, BinderInvariant, PTL

\* However timeouts, late answers, cancels and new scans interleave, no service
\* is listed twice.
THEOREM BinderAtMostOnce == Spec => []AtMostOnce
<1>1. IInv => AtMostOnce
  BY DEF IInv
<1> QED BY <1>1, BinderInvariant, PTL

\* A scan that was stopped sends no further ping, though steps of it are queued.
THEOREM BinderStopped == Spec => StoppedPingsNothing
<1> DEFINE Stopped == ping = "none" /\ ping' # "none" => scanning'
<1>1. IInv /\ [Next]_vars => [Stopped]_vars
  <2> SUFFICES ASSUME IInv, Next, ping = "none", ping' # "none" PROVE scanning'
    OBVIOUS
  <2>1. ScanTypes /\ PingTypes
    BY Parts, Types
  <2>2. CASE ScanStep
    <3>1. queue # <<>> /\ UNCHANGED scanning
      BY <2>2 DEF ScanStep, pingVars
    <3> QED BY <2>1, <3>1 DEF ScanTypes
  <2>3. CASE IdentifyServices
    BY <2>3 DEF IdentifyServices, pingVars
  <2>4. (ping' = ping \/ ping' = "none") => FALSE
    OBVIOUS
  <2>5. CASE PingLooksUp \/ PingCalls
    BY <2>5 DEF PingLooksUp, PingCalls
  <2>6. CASE OtherCalls \/ ServerDies
    BY <2>4, <2>6 DEF OtherCalls, ServerDies, pingVars
  <2>7. CASE OnPingTimeout \/ OnPingFinished \/ CancelScan
    BY <2>4, <2>7 DEF OnPingTimeout, OnPingFinished, CancelScan, PingOver
  <2> QED BY <2>2, <2>3, <2>5, <2>6, <2>7 DEF Next
<1> QED BY <1>1, BinderInvariant, PTL DEF Spec, StoppedPingsNothing
==============================================================================
