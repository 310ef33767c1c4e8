------------------------------- MODULE KeyMon -------------------------------
(***************************************************************************)
(* The button test (keymon.cpp) and the two pages that use it:              *)
(* SensorsPage.qml lists the devices, ButtonTestPage.qml listens while it   *)
(* is in front.  Devices come and go at any time; what the test knows of    *)
(* them is what the last refresh() saw.  A tile of the page is a position   *)
(* in the list of keys, so the list must not move under the tiles.          *)
(***************************************************************************)
EXTENDS Integers, FiniteSets, Loops

CONSTANTS
  NodeCount,   \* event nodes are numbered from 1
  Device,      \* [name, codes, touch], codes in the order of the kernel's bits,
               \* and every device has one switch
  NoDevice,    \* what a node without a device holds
  MaxKeys,     \* the limit of the list of keys (400 in the code)
  Buffer,      \* bound: events the kernel keeps for one descriptor
  MaxEvents,   \* bound: presses, releases and switch moves
  MaxPlugs     \* bound: devices plugged or unplugged

ASSUME KeyMonAssumption ==
  /\ NodeCount \in Nat /\ MaxKeys \in Nat /\ MaxEvents \in Nat /\ MaxPlugs \in Nat
  /\ Buffer \in Nat \ {0}
  /\ NoDevice \notin Device /\ \A d \in Device : d.codes \in Seq(Nat)

Node == 1 .. NodeCount

CodesOf(d) == {d.codes[i] : i \in DOMAIN d.codes}
Code == UNION {CodesOf(d) : d \in Device}
Name == {d.name : d \in Device}

VARIABLES
  plugged,   \* node -> the device there
  down,      \* node -> the codes held down
  closed,    \* node -> the switch of the device is set
  events,    \* how many events there were
  plugs,     \* how often a device was plugged or unplugged
  devices,   \* m_devices: node -> the device as refresh() saw it
  keys,      \* m_keys: the checklist
  switches,  \* m_switches: node -> the state shown
  held,      \* m_held
  seenCount, \* m_seenCount
  last,      \* m_lastCode, m_lastPressed, m_lastDevice; NoLast at the start
  fds,       \* m_fds: node -> the open descriptor, or NoFd
  page,      \* "away", "sensors", "test", or "glossary" with the test below it
  tiles      \* ButtonTestPage.deviceGroups: [node, code, idx]

inputVars == <<plugged, down, closed, events, plugs>>
listVars == <<devices, keys, switches, held, seenCount>>

keyVars == <<inputVars, listVars, last, fds, page, tiles>>

StateOf(set) == IF set THEN "set" ELSE "not set"

NoFd == [open |-> FALSE]
NoLast == [code |-> 0]

\* heard says that the switch moved since the descriptor was opened, dropped
\* that its buffer ran over (both history).
NewFd(name) ==
  [open |-> TRUE, name |-> name, queue |-> <<>>, gone |-> FALSE,
   heard |-> FALSE, dropped |-> FALSE]

Event == [type : {"key", "switch"}, code : Code \cup {0}, value : BOOLEAN]
FdType == {NoFd} \cup [open : {TRUE}, name : Name, queue : Seq(Event),
                      gone : BOOLEAN, heard : BOOLEAN, dropped : BOOLEAN]
KeyType == [node : Node, name : Name, code : Code, seen : BOOLEAN, pressed : BOOLEAN]
LastType == {NoLast} \cup [code : Code \cup {0}, pressed : BOOLEAN, device : Name]

KeyInit ==
  /\ plugged \in [Node -> Device \cup {NoDevice}]
  /\ down = [n \in Node |-> {}] /\ closed = [n \in Node |-> FALSE]
  /\ events = 0 /\ plugs = 0
  /\ devices = [n \in Node |-> NoDevice] /\ keys = <<>>
  /\ switches = [n \in Node |-> "none"] /\ held = {} /\ seenCount = 0
  /\ last = NoLast /\ fds = [n \in Node |-> NoFd]
  /\ page = "away" /\ tiles = {}
------------------------------------------------------------------------------
(* The kernel *)

\* An event goes to every open descriptor of its node.  A full buffer is
\* emptied and keeps the newest event only; the mark that tells so
\* (SYN_DROPPED) is one readReady() does not look at.
Queued(fd, e) ==
  LET full == Len(fd.queue) = Buffer
  IN  [fd EXCEPT !.queue = IF full THEN <<e>> ELSE Append(@, e),
                 !.dropped = @ \/ full,
                 !.heard = @ \/ e.type = "switch"]

Reports(n, e) ==
  /\ plugged[n] # NoDevice /\ events < MaxEvents
  /\ events' = events + 1
  /\ fds' = [fds EXCEPT ![n] = IF @.open /\ ~@.gone THEN Queued(@, e) ELSE @]
  /\ UNCHANGED <<plugged, plugs, listVars, last, page, tiles>>

KeyMoves(n, c) ==
  /\ plugged[n] # NoDevice /\ c \in CodesOf(plugged[n])
  /\ down' = [down EXCEPT ![n] = IF c \in @ THEN @ \ {c} ELSE @ \cup {c}]
  /\ Reports(n, [type |-> "key", code |-> c, value |-> c \in down'[n]])
  /\ UNCHANGED closed

SwitchMoves(n) ==
  /\ closed' = [closed EXCEPT ![n] = ~@]
  /\ Reports(n, [type |-> "switch", code |-> 0, value |-> closed'[n]])
  /\ UNCHANGED down

\* The device goes; its open descriptor can only report that.
Unplug(n) ==
  /\ plugged[n] # NoDevice /\ plugs < MaxPlugs
  /\ plugs' = plugs + 1
  /\ plugged' = [plugged EXCEPT ![n] = NoDevice]
  /\ down' = [down EXCEPT ![n] = {}] /\ closed' = [closed EXCEPT ![n] = FALSE]
  /\ fds' = [fds EXCEPT ![n] = IF @.open THEN [@ EXCEPT !.gone = TRUE] ELSE @]
  /\ UNCHANGED <<events, listVars, last, page, tiles>>

\* A new device gets a free node, and may be another one than before.
Plug(n, d) ==
  /\ plugged[n] = NoDevice /\ plugs < MaxPlugs
  /\ plugs' = plugs + 1
  /\ plugged' = [plugged EXCEPT ![n] = d]
  /\ UNCHANGED <<down, closed, events, listVars, last, fds, page, tiles>>
------------------------------------------------------------------------------
(* The lists of the devices *)

\* The keys of the devices other than touchscreens, node by node, up to the
\* limit: what is over it is dropped without a trace.
Checklist(seen) ==
  LET Keys(n) ==
        IF seen[n] = NoDevice \/ seen[n].touch THEN <<>>
        ELSE [i \in DOMAIN seen[n].codes |->
                [node |-> n, name |-> seen[n].name, code |-> seen[n].codes[i],
                 seen |-> FALSE, pressed |-> FALSE]]
      all == Loop(LAMBDA list, n : list \o Keys(n), <<>>, [n \in Node |-> n])
  IN  SubSeq(all, 1, IF Len(all) < MaxKeys THEN Len(all) ELSE MaxKeys)

\* refresh(): a node that cannot be opened is not listed.  What was last
\* pressed stays as it is.
Refresh ==
  \E denied \in SUBSET Node :
    /\ devices' = [n \in Node |-> IF n \in denied THEN NoDevice ELSE plugged[n]]
    /\ keys' = Checklist(devices')
    /\ switches' = [n \in Node |-> IF devices'[n] = NoDevice THEN "none"
                                   ELSE StateOf(closed[n])]
    /\ held' = {h \in Node \X Code : devices'[h[1]] # NoDevice /\ h[2] \in down[h[1]]}
    /\ seenCount' = 0

\* start(): every listed device but the touchscreens is opened by its node,
\* under the name it had when it was listed.
Opened(listed) ==
  {f \in [Node -> {NoFd} \cup {NewFd(name) : name \in Name}] :
     \A n \in Node :
       \/ f[n] = NoFd
       \/ /\ listed[n] # NoDevice /\ ~listed[n].touch /\ plugged[n] # NoDevice
          /\ f[n] = NewFd(listed[n].name)}
------------------------------------------------------------------------------
(* readReady() *)

\* A slip: every press counts.
MarkSeenEach(s, code, value, name) ==
  LET hit == {i \in DOMAIN s.keys : s.keys[i].code = code /\ s.keys[i].name = name}
  IN  [s EXCEPT !.keys = [i \in DOMAIN @ |->
                            IF i \in hit THEN [@[i] EXCEPT !.seen = TRUE, !.pressed = value]
                                         ELSE @[i]],
                !.count = @ + Cardinality(hit)]

\* markSeen(): the keys with this code on devices with this name.
MarkSeen(s, code, value, name) ==
  LET hit == {i \in DOMAIN s.keys : s.keys[i].code = code /\ s.keys[i].name = name}
  IN  [s EXCEPT !.keys = [i \in DOMAIN @ |->
                            IF i \in hit THEN [@[i] EXCEPT !.seen = TRUE, !.pressed = value]
                                         ELSE @[i]],
                !.count = @ + Cardinality({i \in hit : ~s.keys[i].seen})]

\* A slip: the switch is looked up by its code alone.
SwitchOfCode(n, name) == devices[n] # NoDevice

SwitchOf(n, name) == devices[n] # NoDevice /\ devices[n].name = name

\* One event from a descriptor with this name.
Taken(s, e, name) ==
  LET shown == [s EXCEPT !.last = [code |-> e.code, pressed |-> e.value, device |-> name]]
  IN  IF e.type = "key" THEN MarkSeen(shown, e.code, e.value, name)
      ELSE [shown EXCEPT !.switches =
              [n \in Node |-> IF SwitchOf(n, name) THEN StateOf(e.value) ELSE @[n]]]

\* Everything the descriptor holds is read.  One whose device has gone gives
\* an error, its events are lost, and it stays ready: this action then
\* changes nothing, and is taken again until the descriptor is closed.
ReadReady(n) ==
  /\ fds[n].open
  /\ fds[n].queue # <<>> \/ fds[n].gone
  /\ IF fds[n].gone
       THEN UNCHANGED <<keys, seenCount, switches, last, fds>>
       ELSE LET before == [keys |-> keys, count |-> seenCount, switches |-> switches,
                           last |-> last]
                after == Loop(LAMBDA s, e : Taken(s, e, fds[n].name), before,
                              fds[n].queue)
            IN  /\ keys' = after.keys /\ seenCount' = after.count
                /\ switches' = after.switches /\ last' = after.last
                /\ fds' = [fds EXCEPT ![n].queue = <<>>]
  /\ UNCHANGED <<inputVars, devices, held, page, tiles>>
------------------------------------------------------------------------------
(* The pages *)

\* Both of SensorsPage's ways in: it is built, or a page above it goes.
OpenSensors ==
  /\ page = "away"
  /\ page' = "sensors"
  /\ Refresh
  /\ UNCHANGED <<inputVars, last, fds, tiles>>

LeaveSensors ==
  /\ page = "sensors"
  /\ page' = "away"
  /\ UNCHANGED <<inputVars, listVars, last, fds, tiles>>

ButtonDevices == {n \in Node : devices[n] # NoDevice /\ ~devices[n].touch}

\* buildGroups(): a tile keeps its key's place in the list.
Tiles(list) == {[node |-> list[i].node, code |-> list[i].code, idx |-> i] : i \in DOMAIN list}

\* Two slips: the list is made anew whenever the page comes back, with the
\* tiles and without them.
AnyVisit == TRUE
ListAnyTime == TRUE

FirstVisit == tiles = {}

\* start() lists the devices itself when there are none.
ListMissing == \A n \in Node : devices[n] = NoDevice

\* The page becomes active.
TestActive ==
  /\ page' = "test"
  /\ IF FirstVisit \/ ListMissing THEN Refresh ELSE UNCHANGED listVars
  /\ tiles' = IF FirstVisit THEN Tiles(keys') ELSE tiles
  /\ fds' \in Opened(devices')
  /\ UNCHANGED <<inputVars, last>>

OpenTest == page = "sensors" /\ ButtonDevices # {} /\ TestActive

FromGlossary == page = "glossary" /\ TestActive

\* The page is covered: stop().
ToGlossary ==
  /\ page = "test"
  /\ page' = "glossary"
  /\ fds' = [n \in Node |-> NoFd]
  /\ UNCHANGED <<inputVars, listVars, last, tiles>>

\* The page is left: stop(), and the page below lists the devices again.
LeaveTest ==
  /\ page = "test"
  /\ page' = "sensors" /\ tiles' = {}
  /\ fds' = [n \in Node |-> NoFd]
  /\ Refresh
  /\ UNCHANGED <<inputVars, last>>

\* "Start over": resetSeen().
StartOver ==
  /\ page = "test"
  /\ keys' = [i \in DOMAIN keys |-> [keys[i] EXCEPT !.seen = FALSE, !.pressed = FALSE]]
  /\ seenCount' = 0 /\ last' = NoLast
  /\ UNCHANGED <<inputVars, devices, switches, held, fds, page, tiles>>

KeyNext ==
  \/ \E n \in Node : \/ \E c \in Code : KeyMoves(n, c)
                     \/ SwitchMoves(n)
                     \/ Unplug(n) \/ \E d \in Device : Plug(n, d)
                     \/ ReadReady(n)
  \/ OpenSensors \/ LeaveSensors
  \/ OpenTest \/ FromGlossary \/ ToGlossary \/ LeaveTest \/ StartOver

KeySpec == KeyInit /\ [][KeyNext]_keyVars
------------------------------------------------------------------------------
(* Properties *)

\* Every variable holds a value of its kind, the list keeps its limit, and the
\* count in the header is the number of lit keys.
KeyTypeOK ==
  /\ plugged \in [Node -> Device \cup {NoDevice}] /\ closed \in [Node -> BOOLEAN]
  /\ down \in [Node -> SUBSET Code] /\ events \in Nat /\ plugs \in Nat
  /\ devices \in [Node -> Device \cup {NoDevice}] /\ held \subseteq Node \X Code
  /\ keys \in Seq(KeyType) /\ Len(keys) <= MaxKeys
  /\ switches \in [Node -> {"none", "set", "not set"}]
  /\ seenCount = Cardinality({i \in DOMAIN keys : keys[i].seen})
  /\ last \in LastType /\ fds \in [Node -> FdType]
  /\ page \in {"away", "sensors", "test", "glossary"}
  /\ page # "test" => \A n \in Node : fds[n] = NoFd

\* Each tile stands at its key's place in the list, whatever was plugged,
\* unplugged or listed since the tiles were built, so the key that is marked
\* and the tile that lights have the same node and code.  (Which key is marked
\* goes by the device's name: two devices of one name light each other's.)
TilesStand ==
  \A t \in tiles : /\ t.idx \in DOMAIN keys
                   /\ keys[t.idx].node = t.node /\ keys[t.idx].code = t.code

\* "Swiping to the glossary and back must not wipe the tiles the reader has
\* already lit": a lit tile stays lit until the reader starts over or leaves.
LitStays ==
  [][\A t \in tiles :
       keys[t.idx].seen /\ t \in tiles' /\ ~StartOver
         => t.idx \in DOMAIN keys' /\ keys'[t.idx].seen]_keyVars

\* No other listed device goes by the name of this one.
OnlyOfItsName(n) ==
  \A m \in Node \ {n} : devices[m] = NoDevice \/ devices[m].name # devices[n].name

\* A switch that moved while the test listened to its device shows its real
\* state as soon as everything is read, unless the kernel's buffer ran over or
\* a second device goes by the same name.
HeardSwitchShows ==
  \A n \in Node :
    /\ fds[n].open
    /\ devices[n] = plugged[n] /\ OnlyOfItsName(n)
    /\ fds[n].heard /\ ~fds[n].gone /\ ~fds[n].dropped /\ fds[n].queue = <<>>
    => switches[n] = StateOf(closed[n])

\* An open descriptor goes by the name its node was listed under.
FdsFit ==
  \A n \in Node : fds[n].open => devices[n] # NoDevice /\ fds[n].name = devices[n].name

\* Tiles are there only with the test page, and keys only of listed devices: so
\* the list is not missing while there are tiles.
TilesFit ==
  /\ page \in {"away", "sensors"} => tiles = {}
  /\ \A i \in DOMAIN keys : devices[keys[i].node] # NoDevice

\* Until its buffer runs over, the last switch event a descriptor holds is the
\* state of the switch; when it holds none, that state is shown.
SwitchMoved(n) ==
  {i \in DOMAIN fds[n].queue : fds[n].queue[i].type = "switch"}

SwitchKnown(n) ==
  IF SwitchMoved(n) = {} THEN switches[n] = StateOf(closed[n])
  ELSE \A i \in SwitchMoved(n) :
         (\A j \in SwitchMoved(n) : j <= i) => fds[n].queue[i].value = closed[n]

SwitchesFit ==
  \A n \in Node :
    fds[n].open /\ ~fds[n].gone /\ ~fds[n].dropped /\ fds[n].heard /\ OnlyOfItsName(n)
      => SwitchKnown(n)

KeyIInv == KeyTypeOK /\ TilesStand /\ FdsFit /\ TilesFit /\ SwitchesFit
==============================================================================
