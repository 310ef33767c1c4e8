------------------------------ MODULE RateMeters ------------------------------
(***************************************************************************)
(* The figures that are differences of two readings of a counter: what      *)
(* they say when the thing that is counted goes, comes back or is replaced  *)
(* between the readings, when a reading fails, and when the clock is set    *)
(* back.  Sampler::sampleSystem has such meters for the cores, the default  *)
(* interface and the disks, DetailMon::sample for the threads and for the   *)
(* context switches and faults of one process.  They guard against it in    *)
(* three different ways.  A behaviour watches one of them; a thing is a     *)
(* core, an interface, a disk, a thread or a process accordingly.           *)
(***************************************************************************)
EXTENDS Integers, FiniteSets, Loops

CONSTANTS
  ThingCount,  \* things are numbered from 1; 0 is none of them, or all of them
  Modulus,     \* the counters are unsigned: 2^64 in the code
  MaxGrowth,   \* bound: how much is counted between two readings
  MaxCount     \* bound: how far a counter comes

ASSUME RateAssumption ==
  /\ ThingCount \in Nat /\ MaxGrowth \in Nat /\ MaxCount \in Nat
  /\ Modulus \in Nat /\ MaxCount < Modulus /\ ThingCount * MaxGrowth < Modulus

Thing == 1 .. ThingCount

Meter == {"core", "thread", "net", "disk", "process"}

VARIABLES
  meter,    \* which meter is watched
  present,  \* the things that are there
  count,    \* thing -> its counter
  route,    \* the interface of the default route, or 0
  growth,   \* thing -> what it really did since the last reading (history)
  moved,    \* the things that came or went since then (history)
  prevOf,   \* m_prevCore, m_prevTid: thing -> the counter, or -1 for no entry
  prevRoute, prevSum,  \* m_prevIface; m_prevRx, m_prevDiskRd, m_prevVctx
  started,  \* m_prevMs is set: there was a reading
  missed,   \* the last reading failed (history)
  dated,    \* the clock had gone on at the last reading (history)
  stopped,  \* DetailMon's timer is stopped
  shown     \* thing -> the figure on the screen; 0 -> the only figure

countedVars == <<present, count, route, growth, moved>>
meterVars == <<prevOf, prevRoute, prevSum, started, missed, dated, stopped, shown>>

rateVars == <<meter, countedVars, meterVars>>

\* Those with one figure per thing, and those that run on a process's page.
PerThing == meter \in {"core", "thread"}
OfProcess == meter \in {"thread", "process"}

\* A pid is one process at a time.
OneProcess(things) == meter = "process" => Cardinality(things) <= 1

RateInit ==
  /\ meter \in Meter
  /\ present \in SUBSET Thing /\ OneProcess(present)
  /\ count = [t \in Thing |-> 0] /\ route = 0
  /\ growth = [t \in Thing |-> 0] /\ moved = {}
  /\ prevOf = [t \in Thing |-> -1] /\ prevRoute = 0 /\ prevSum = 0
  /\ started = FALSE /\ missed = FALSE /\ dated = FALSE /\ stopped = FALSE
  /\ shown = [t \in Thing \cup {0} |-> 0]
------------------------------------------------------------------------------
(* What is counted *)

Grows(t) ==
  /\ t \in present /\ growth[t] < MaxGrowth /\ count[t] < MaxCount
  /\ count' = [count EXCEPT ![t] = @ + 1]
  /\ growth' = [growth EXCEPT ![t] = @ + 1]
  /\ UNCHANGED <<meter, present, route, moved, meterVars>>

\* A core is parked, a card taken out, an interface removed, a thread ends.
Goes(t) ==
  /\ t \in present
  /\ present' = present \ {t} /\ moved' = moved \cup {t}
  /\ route' = IF route = t THEN 0 ELSE route
  /\ UNCHANGED <<meter, count, growth, meterVars>>

\* It comes back with the counter it had or with a new one, or another thing
\* takes its name: a thread or a process that comes is always another one.
Comes(t) ==
  /\ t \notin present /\ OneProcess(present \cup {t})
  /\ present' = present \cup {t} /\ moved' = moved \cup {t}
  /\ count' = [count EXCEPT ![t] = 0] \/ (~OfProcess /\ count' = count)
  /\ UNCHANGED <<meter, route, growth, meterVars>>

\* The default route moves or goes; a table of routes that cannot be read is
\* taken for one without it.
RouteMoves(t) ==
  /\ meter = "net" /\ t \in present \cup {0} /\ t # route
  /\ route' = t
  /\ UNCHANGED <<meter, present, count, growth, moved, meterVars>>
------------------------------------------------------------------------------
(* The readings *)

Minus(a, b) == (a - b) % Modulus

\* A slip: the difference is taken as it comes.
MinusAnyway(now, prev) == Minus(now, prev)

\* A counter that has gone down belongs to something else.
MinusGuarded(now, prev) == IF now >= prev THEN Minus(now, prev) ELSE 0

SameRoute == route = prevRoute

\* What a reading finds; one that fails finds nothing, and sums to zero.
Counter(read, t) == IF read /\ t \in present THEN count[t] ELSE -1

Over(things, f) == Sum([t \in Thing |-> IF t \in things THEN f[t] ELSE 0])

Total(read) ==
  IF ~read THEN 0
  ELSE IF meter = "net" THEN IF route = 0 THEN 0 ELSE count[route]
  ELSE Over(present, count)

\* Cores and threads: each against its own entry.  A core that is not listed
\* loses its entry; the threads' table is replaced as a whole.
FigureOf(read, t) ==
  IF Counter(read, t) >= 0 /\ prevOf[t] >= 0
    THEN MinusGuarded(Counter(read, t), prevOf[t]) ELSE 0

\* The one figure of the others: the interface's guarded and by name, the
\* disks' and the process's as it comes.
Figure(read) ==
  IF meter = "net"
    THEN IF SameRoute THEN MinusGuarded(Total(read), prevSum) ELSE 0
    ELSE Minus(Total(read), prevSum)

\* Two slips: a thing that is not listed keeps its entry, and the baseline
\* moves only when a rate was shown.
EntryKept(read, t) == IF Counter(read, t) >= 0 THEN Counter(read, t) ELSE prevOf[t]

BaselineWhenDated(read, clockOn) == IF clockOn THEN Total(read) ELSE prevSum

\* What is remembered for the next reading.
Entry(read, t) == Counter(read, t)

Baseline(read, clockOn) == Total(read)

\* One tick.  Rates need a clock that has gone on since the last tick; the
\* sampler's share of a core needs none.
Reading(read, clockOn) ==
  /\ ~stopped
  /\ shown' = [t \in Thing \cup {0} |->
       IF ~(meter = "core" \/ (started /\ clockOn)) THEN 0
       ELSE IF PerThing THEN IF t = 0 THEN 0 ELSE FigureOf(read, t)
       ELSE IF t = 0 THEN Figure(read) ELSE 0]
  /\ prevOf' = [t \in Thing |-> IF PerThing THEN Entry(read, t) ELSE -1]
  /\ prevSum' = IF PerThing THEN 0 ELSE Baseline(read, clockOn)
  /\ prevRoute' = route
  /\ started' = TRUE /\ missed' = ~read /\ dated' = clockOn
  /\ growth' = [t \in Thing |-> 0] /\ moved' = {}
  /\ UNCHANGED <<meter, present, count, route, stopped>>

\* DetailMon stops for good when its process has gone; a failed read of stat
\* looks the same.
Stop ==
  /\ OfProcess /\ ~stopped
  /\ stopped' = TRUE
  /\ UNCHANGED <<meter, countedVars, prevOf, prevRoute, prevSum, started, missed, dated, shown>>

\* The process is there: one of its threads, or itself.
Tick ==
  /\ OfProcess => present # {}
  /\ \E clockOn \in BOOLEAN : Reading(TRUE, clockOn)

\* No descriptor was left for the file that holds the counters: of a process,
\* its status or its list of threads, its stat having been read.
TickFails ==
  /\ OfProcess => present # {}
  /\ \E clockOn \in BOOLEAN : Reading(FALSE, clockOn)

RateNext ==
  \/ \E t \in Thing : Grows(t) \/ Goes(t) \/ Comes(t)
  \/ \E t \in Thing \cup {0} : RouteMoves(t)
  \/ Tick \/ TickFails \/ Stop

RateSpec == RateInit /\ [][RateNext]_rateVars
------------------------------------------------------------------------------
(* Properties *)

\* Every variable holds a value of its kind, and an entry is kept only for a
\* thing that was there at the last reading.
RateTypeOK ==
  /\ meter \in Meter /\ present \subseteq Thing /\ prevRoute \in Thing \cup {0}
  /\ count \in [Thing -> 0 .. MaxCount] /\ growth \in [Thing -> 0 .. MaxGrowth]
  /\ prevOf \in [Thing -> -1 .. MaxCount] /\ prevSum \in Nat
  /\ moved \subseteq Thing /\ route \in present \cup {0}
  /\ started \in BOOLEAN /\ dated \in BOOLEAN /\ missed \in BOOLEAN /\ stopped \in BOOLEAN
  /\ shown \in [Thing \cup {0} -> 0 .. Modulus - 1]
  /\ PerThing => \A t \in Thing \ moved : started => (prevOf[t] >= 0 => t \in present)

\* A guarded meter never shows more than was counted since the last reading:
\* not for a core that was parked, a thread whose id was given away, an
\* interface that was replaced or lost the route.  (The interface's meter takes
\* a failed reading for a counter of zero, and is wrong at the next one.)
NeverInvented ==
  [][Tick \/ TickFails =>
       /\ \A t \in Thing : shown'[t] <= growth[t]
       /\ meter = "net" /\ ~missed /\ shown'[0] > 0 => shown'[0] <= growth[route]]_rateVars

\* While the things stay the same, all meters show what was counted, the
\* unguarded ones (disks, context switches) too.
ExactWhileTheSame ==
  [][Tick /\ started /\ dated' /\ ~missed /\ moved = {} =>
       IF PerThing THEN \A t \in present : shown'[t] = growth[t]
       ELSE IF meter = "net"
         THEN route # 0 /\ SameRoute => shown'[0] = growth[route]
         ELSE shown'[0] = Over(present, growth)]_rateVars

\* What the guarded meters remember: an entry, or the sum of the interface the
\* route was on, is behind its counter by no more than was counted since, and by
\* exactly that while the thing stayed.
EntryBehind ==
  PerThing => \A t \in Thing :
    /\ prevOf[t] >= 0 => count[t] <= prevOf[t] + growth[t]
    /\ started /\ ~missed /\ t \in present \ moved
         => prevOf[t] >= 0 /\ count[t] = prevOf[t] + growth[t]

RouteBehind ==
  meter = "net" /\ started /\ ~missed /\ prevRoute # 0 =>
    /\ count[prevRoute] <= prevSum + growth[prevRoute]
    /\ prevRoute \notin moved => count[prevRoute] = prevSum + growth[prevRoute]

\* The unguarded ones: their sum is exact while nothing came or went.
SumBehind ==
  meter \in {"disk", "process"} /\ started /\ ~missed /\ moved = {}
    => Over(present, count) = prevSum + Over(present, growth)

RateIInv ==
  /\ RateTypeOK /\ EntryBehind /\ RouteBehind /\ SumBehind
  /\ ~started => prevRoute = 0
==============================================================================
