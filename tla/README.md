# SysMetrics: TLA+ models, checks and proofs

SysMetrics is a diagnostics app for Sailfish OS (Qt 5, C++ and QML). Most of it
reads `/proc`, `/sys` and D-Bus and turns what it finds into text. This
directory models the part that can go wrong over time: sampling in a worker
thread with samples and switches crossing in queues, accounts kept by pid while
pids are reused, state machines driven by timers beside a user and a home
screen that does what it likes, devices that come and go under a running test, and
conversations with other processes (the
fingerprint daemon, the app's own root helper) that answer late, twice or never.

Paths are given as in the repository (`src/recorder.cpp`); `PROJECT.json` maps
every definition to its lines.

## 1. The system: an inventory

| Part | State it keeps | Operations | What is hard about it |
|---|---|---|---|
| **Sampler** `src/sampler.*` | cache of the previous walk by pid, switches, timer, rate baselines | `start`, `sample`, four setters; runs in a worker thread | pids reused and execs between two walks; a walk that fails; setters arrive as queued calls |
| **Recorder** `src/recorder.*` | one CPU account per pid | `start`, `stop`, `reset`, `onProcesses` | samples queued before `start()`; a process that exits and another on its pid; counters of 0 |
| **Process list** `src/procmodel.*` | latest sample, rows, hold, view | `onProcesses`, `setHeld`, view setters | a sample that arrives while a finger is on the list |
| **Wiring** `src/harbour-sysmetrics.cpp`, `src/sysmon.cpp:144-176` | what the GUI wants of the sampler | connections across two threads | two conditions (app in front, recording on) that drive one switch |
| **Redraw check** `src/redrawcheck.*` | background watch; guided run with its windows | two timers, start/cancel, watch switch | lipstick touched or restarted in mid-window; app brought to the front; a run that must end and clean up |
| **Fingerprint monitor** `src/fpmon.*` | one test, its result and timer, the daemon's state | `refresh`, `startTest`, `stopTest`, six signals | a daemon shared with the lock screen, whose signals are late; calls that go unanswered |
| **Root client and helper** `src/rootclient.*`, `src/roothelper.*`, unit file | one socket; the helper's count of clients and idle timer | blocking requests, probes, `setHelper` | deadlines missed, late replies, the helper's own end, restarts by systemd |
| **Binder monitor** `src/bindermon.*` | readings of the kernel's binder logs; a scan of services by ping | `refresh`, scan start, step, cancel | a nested event wait in the cancel; pings that never start |
| **Button test** `src/keymon.*`, `ButtonTestPage.qml`, `SensorsPage.qml` | devices, descriptors, the list of keys with what was seen, tiles of the page | `refresh`, `start`, `stop`, `resetSeen`, `readReady` | devices plugged and unplugged while the test listens; the kernel's full buffers; tiles that go by position in a list with a limit |
| **Detail monitor** `src/detailmon.*` | baselines of one process and its threads | `setPid`, tick | threads and the process come and go between two ticks; failed reads; a clock set back |
| **CVE lookup** `src/cvelookup.*`, `CvePage.qml` | the wanted reply, rows, the catalogue of exploited ones, a cache of package queries | `search`, `reset`, `onFinished`, `fetchKev`, `packageFixInfo` | superseded replies; `abort()` that re-enters; a page left and opened again while a reply is on its way |
| **Charger log and timeline** `src/chargerlog.h`, `HwInfo.js:2403-2566` | none between calls | filter, folding of repeats, cut, timeline | two foldings and two cuts one after the other, each with its own look-back |
| **Connections** `src/netmon.*`, `src/netinfo.*` | socket table, owners by inode | `refresh` | owners found in another moment than the sockets |
| **The Other Half** `src/tohmon.*` | cover attached, its memory | tick, read | cover taken off during a read |
| **Read test** `src/readtest.*`, `src/source.*` | one timed measurement | start, tick | windows and baselines |
| **System probes** `src/sysmon.cpp` and others | caches | read-only | decoding |
| **Diagnostics** `src/diagnostics.*` | none | rules from readings to findings | thresholds |
| Graph, language, pages, translations, tools | - | painting, text | - |

How they interact: the sampler emits `systemSampled` and `processesSampled`;
queued connections carry them to the GUI thread (`harbour-sysmetrics.cpp:156-163`),
to the process list and the recorder. The other way, SysMon's switches and the
recorder's `runningChanged` become queued slot calls to the sampler. Everything
else lives in the GUI thread and is driven by timers, D-Bus signals, sockets
and the pages. The root client's requests block that thread.

What makes each part correct, in short: a row names its own process; a recording
never charges time that was not used, and never takes time back; the sampler
ends up as the GUI wants it; a held list holds still; a verdict on the home
screen rests only on windows nobody disturbed, and a guided run ends and leaves
nothing behind; the page shows the fingerprint daemon's last state and a test
ends; a reply from the helper belongs to the request, and the helper is there
as long as, and only as long as, somebody uses it; a page of vulnerabilities
shows the answers to its own search; a lit key stays lit and its tile stands where its key does; a rate is what was counted, and is never made up; the excerpt of the
charger's log keeps the last plug and the newest line, and loses no count.

## 2. The modules

| Module | Models | Composes |
|---|---|---|
| `ProcTable` | the kernel's process table: fork, exec, CPU time, exit (external) | |
| `Recording` | `/proc` walk with its cache, queue of samples, recorder | EXTENDS `ProcTable` |
| `Ledger` | abstract: what a recording promises of its figures | |
| `Recording_proofs` | the proofs about `Recording`, and that it implements `Ledger` | EXTENDS `Recording` (which holds `L == INSTANCE Ledger WITH ...`), `TLAPS` |
| `ProcModel` | the process list's operations | |
| `Pipeline` | both threads, the queued calls and samples, the sampler's switches and timer | EXTENDS `ProcModel` |
| `RedrawCheck` | watch and guided run on one lipstick | |
| `FpTest` | fingerprint test and daemon | |
| `RootChannel` | root client, socket, helper, unit | |
| `BinderScan` | the scan of binder services by ping | |
| `CveLookup` | the vulnerability search and its page, the network | |
| `KeyMon` | the button test, its two pages, the kernel's event nodes | |
| `RateMeters` | the meters of the sampler and the detail monitor that are differences of counters | |
| `ChargerLog` | the filter of the kernel's ring buffer | |
| `ChargerTimeline` | the timeline on the battery page | EXTENDS `ChargerLog`, `Loops` |
| `Loops` | a loop over a sequence as a function of the position reached (used by `KeyMon`, `RateMeters`, `ChargerTimeline`) | |
| `Loops_proofs` | the proofs about `Loops` and the three parts that loop: charger log and timeline, meters, button test | EXTENDS `ChargerTimeline`, `RateMeters`, `KeyMon`, theorem modules, `TLAPS` |
| `CveLookup_proofs` | the proofs about `CveLookup` | EXTENDS `CveLookup`, `TLAPS` |
| `Pipeline_proofs`, `FpTest_proofs`, `RedrawCheck_proofs` | the proofs about these modules | EXTENDS the module, `SequenceTheorems`, `TLAPS` |
| `RootChannel_proofs`, `BinderScan_proofs` | the proofs about these modules | EXTENDS the module, `SequenceTheorems`, `FiniteSetTheorems`, `TLAPS` |
| `MC...` | instances for TLC | EXTENDS the module |

Where several modules meet in one proof module their specifications carry the
part in their names: `LogSpec`, `RateSpec`, `KeySpec` and so on; everywhere else it is
`Spec`.

### ProcTable and Recording

`table[p]` is the process on pid `p`: its start time (0 for none), its CPU
counter, its name, and as history the names it has had. `cpuTotal[p]` is all CPU
time ever used on that pid. `Walk` is `Sampler::sampleProcesses()` together with
the emission: rows for the living processes whose stat could be read (any of them may
not be, `WalkFinds`), the name from the cache if the start
time agrees (`sampler.cpp:608`), the cache replaced by this walk. `WalkFails` is
its early return when `/proc` cannot be opened. A sample waits in `samples` until
`OnProcesses` handles it in the GUI thread, one row against one account
(`Account`, `recorder.cpp:61-78`). `RecorderStart`, `Stop`, `Reset` are the slots;
the pages allow the reset only while no recording runs. `Recorded(p)` is the
figure `rebuild()` ranks by. `sight` and `latest` are history: the first and the
latest row of a pid counted in this recording.

`Ledger` is the promise without the mechanism: holders with figures, opened,
closed, cleared and charged, where a charge may bring any figure up to, never
beyond, what its holder has really used. `L` maps `running` to `open`,
`Recorded` to `figure` and `cpuTotal` to `used`; walks, queue, cache and accounts
disappear. A sample counted is a charge, CPU time is a use, everything else is a
stutter.

The walk over one pid is atomic; that the pids are read one after the other does
not matter, because accounts and cache entries of different pids never meet.

### ProcModel and Pipeline

`Pipeline` has the GUI's wishes (`guiPaused`, `foreground`, `thermalWanted`,
`guiMs`, `running`), the queue of slot calls, the sampler's own switches, and the
queue of samples. Each GUI action posts exactly the calls its connections in
`main()` make, with the argument computed at that moment; `DeliverCommand` is the
slot in the worker. `Sample` is the part of `Sampler::sample()` that decides
whether a list goes out. `DeliverSample` calls the process list and the recorder.
Order in the list, the text of a search and the system half of a sample are left
out: a view is the set of rows it accepts. `sampleNow()` has no caller.
`thermalWanted` starts TRUE, as `SysMon::m_thermalWanted` does, and only the overview
page sets it, so until that page is first opened the zones are read on the main page.

### RedrawCheck

A look (`Look`) is what `readThreads()` tells the properties apart by: which
lipstick, and how many touches it has counted. Wakeup rates are abstracted to
their class against the thresholds and chosen freely in each window. `WatchTick`
is `watchTick()` with its three ways out (paused, baseline, judged). `RunTick` is
one second of a guided run: waiting to be out of sight, settling, or inside a
window. A second inside a window takes two steps when nothing is against the window:
`SecondReads` compares the touches, and then `displayOn()` blocks the GUI thread
(`asking`) while lipstick, the screen and the display go on; `SecondAnswered` is the
rest, and of a window's last second that is `finishWindow()` plus `advance()`. The
watch's own look, which asks for the display before it reads anything it compares, is
one step. `rebased` is history: the watch took a new baseline (a render thread that
counts less than before, on whichever lipstick) since the onset of its hot windows. The
notifications it sends are tracked by id; one whose id never came back is not.
Events heard on the bus, the display interrupt, the leads and the report's text
are left out.

### FpTest

The daemon works for nobody, the app or the lock screen; its signals go into one
queue and are delivered to the app's slots in order. `StartTest` is
`Identify` with each answer the code distinguishes, including the one that never
comes although the call is carried out; the state read that follows it is part of
the step, and can overtake signals still queued.

### RootChannel

`link[c]` is a connection with its two ends and what travels on it. A request is
a number. `RequestSent`, `ReadHeader`, `ReadPayload` and `TimedOut` are the stages
of `RootClient::request()`; while `waiting` is not `"no"` no other GUI action is
enabled. `NewConnection`, `Serve` and `Disconnected` are the helper's slots,
`IdleTick` its own end, `HelperCrashes` a failure after which systemd starts it
again. `GraceEnds` is the passing of the first 20 s: it is not enabled before the
app, with six retries in that time, has reached the helper, nor while a connection
waits to be accepted. StopUnit is taken to act at once.

### BinderScan

One ping is one child process: `ping` says how far it has come, and `killed`
whether it was sent SIGKILL; `log` is the part of the kernel's transaction log
behind the mark. `ScanStep` is the queued call of `scanStep()`, which
`onPingFinished()` posts; `due` counts how many of them wait. `CancelScan` waits
300 ms for the killed ping: either its finished slot runs inside (`PingOver`,
and a step is left queued behind the cancel) or the ping outlives the wait.
`StartPing` does nothing while the last process still runs, as `QProcess::start()`
does, and may fail. `Reverified` drops the claim of a process that has gone; a node
never moves to another process, so the proof "state" does not arise. The cache of
the result on disk and the refresh of the counters are left out.

### CveLookup

`request[r]` is one `QNetworkReply`: open, stalled (its connection has gone silent),
failed (aborted, its finished signal queued) or over. `OnFinished` is `onFinished()`
for a search's reply, told from the catalogue's as the code does it, by the URL: a
search whose text holds "known_exploited" (`Lookalike`) takes the catalogue's branch, and
its reply is deleted while it is still wanted (`Dangling`). Otherwise only the
reply that is `current` counts, with the flags from the catalogue as it is known at that
moment; `CatalogueFinished` is the catalogue's own reply, which flags the rows that are
already there. `Search` is `CvePage`'s action: `packageFixInfo` for its page first,
then `search()` with the abort of the reply before, whose `finished` re-enters the
slot inside `abort()` (`Aborted`); a reply that had failed when it was handed out
has its signal queued, and no abort takes it back (`QueuedFinish`). Aborting a deleted
reply is undefined: nothing comes of it, or the program ends and is started again
(`AbortsDeleted`). `OpenPage`
brings `reset()` with it, `ClosePage` leaves the search going. What the package
manager answers, or a timeout taken for "not installed", goes into `fixCache`. A row is its id, its
flag and, as history, the search it answers.

### KeyMon

A node is `/dev/input/eventN`, a device has a name, codes and one switch. The
kernel's side is `KeyMoves`, `SwitchMoves`, `Unplug` and `Plug`; an event goes to
each open descriptor of its node and a full buffer drops what it holds.
`Refresh` is `refresh()`: the devices, the checklist with its limit, and the state
of the switches. `ReadReady` is `readReady()` of one descriptor with its loop over
everything read. A device's codes are a sequence, as the
list takes them in the order of the kernel's bits. The pages are actions: `OpenSensors` and `LeaveTest` list anew,
`TestActive` is the test page becoming active (from below or back from the
glossary) with `start()`, and its tiles are positions in the list.

### RateMeters

One behaviour watches one meter: a core, a thread, the default interface, the
disks together, or a process's context switches. `Reading` is one call of the
sampling function for that meter, read or not (`Tick`, `TickFails`), with the
clock having gone on or been set back. A table of routes that cannot be read is the
same as one without a default route (`RouteMoves` to 0 and back). A file is read or
not as a whole: that the stat of a single thread fails while those of the others do not
is left out (its entry goes, as when it ends, and comes back with the next reading). The three kinds of guard the code uses are
three branches of `FigureOf` and `Figure`: an entry per thing and no figure without
one, a `>=` and the same interface, none. Counters are unsigned, so an unguarded
difference is taken modulo `Modulus`.

### ChargerLog and ChargerTimeline

One step of `ChargerLog` is one line of the ring buffer that passed the word
lists; a state therefore stands for one content of the buffer. A line is its
`Kind` (what is left when the time stamp and numbers are taken away), and an entry
its kind and the count the filter writes behind it. `newest` and `attached` are
history: where the line read last, and the last one that names an attach, is counted.
`Kept` is the excerpt of a long list. `ChargerTimeline` is a function of the excerpt: `Rows` folds the lines'
events, `Timeline` cuts the middle out.

## 3. The runs

| Run | Shows |
|---|---|
| `recording` | `TypeOK` (with: no account's unsigned `last - base` wraps), `NeverAnotherName`, `NoOverCount`, `RecordedNeverShrinks`, `ImplementsLedger` |
| `pipeline` | `TypeOK`, `SwitchesArrive`, `HeldStill`, `RecordingFed` |
| `redraw` | `TypeOK`, `SuspicionEarned`, `ValidUntouched`, `VerdictEarned`, `TestNotificationsClosed`, `RunEnds` |
| `fptest` | `TypeOK`, `StateArrives`, `TestEnds` |
| `rootchannel` | `TypeOK` (with: the count of clients is right), `ReplyIsOwn`, `HelperKept`, `Reconnects`, `HelperStops` |
| `binderscan` | `TypeOK` (with: nothing is left to ping when no scan runs), `AtMostOnce`, `StoppedPingsNothing`, `ScanEnds` |
| `cve` | `TypeOK` (with: busy exactly while a request is held, and that one is unanswered or was taken for the catalogue), `ShownIsAsked`, `FlagsFollowCatalogue`, `SearchEnds` |
| `keys` | `KeyTypeOK` (with: the count in the header is right), `TilesStand`, `LitStays`, `HeardSwitchShows` |
| `rates` | `RateTypeOK`, `NeverInvented`, `ExactWhileTheSame` |
| `charger` | `WindowKeepsEnds`, `CountsAddUp` |

### Disagreements

Two runs show the code doing what the repository says it does not do:

| Run | The repository says | The code |
|---|---|---|
| `fptest_armed` | the timeout keeps the reader from staying armed (`fpmon.cpp:78-79`) | it never sends Abort |
| `binderscan_proof` | "Only entries our own ping process wrote count" (`bindermon.cpp:1252`) | the process id is 0 by then, and every call counts |

More of them are in the models as the code has them, without a run of their own:

- `recorder.h:44` says of an account's base "jiffies at first sight"; an account
  opened at counter 0 is opened again at the next sample (`recorder.cpp:62`,
  `Account`), which loses the time between the two. `NoOverCount` bounds the figure from above only.
- `sampler.cpp:609` says "name, cmdline and uid cannot change while it lives"; they
  do on exec, and the cache keeps the old ones (`sampler.cpp:608`).
  `NeverAnotherName` therefore promises a name the process *has had*.
- `redrawcheck.h:25-26`: the marked pid has been redrawing longer than the
  threshold; a lipstick that was restarted inherits the count of hot windows
  (`redrawcheck.cpp:364`). `SuspicionEarned` speaks of windows, not of one process, and
  excepts a restart or a new baseline since the onset.
- `RedrawPage.qml:117`: "A touch or the display going off makes the measurement
  invalid." `displayOn()` blocks for up to half a second between the window's last check
  (`redrawcheck.cpp:627`) and its last look (`redrawcheck.cpp:650`); a touch in
  between is measured and seen by no check. `ValidUntouched` ends at that check.
- `sampler.h:113-116`: "off that page they are not read at all", likewise
  `sampler.cpp:386-389`, and "Set by the one page that shows the zones live"
  (`sysmon.h:81-82`). Both switches start TRUE (`sysmon.h:242`, `sampler.h:116`) and only
  `OverviewPage.qml:24` and `:61` set them, so from the launch until the overview is first
  opened the zones are read on the main page. `SwitchesArrive` follows the code.
- `RootConfirmDialog.qml:57`: "The helper stops itself once the app is gone"; it may
  also stop under a running app, between a request given up on and the next
  retry (`roothelper.cpp:430`). Then it stays away: while root remains granted nobody
  starts it again (`rootclient.cpp:29-44` does so only when root mode is switched), and
  the app goes on without root until the user switches it off and on. `Reconnects`
  speaks of a helper that runs or that systemd brings back after a failure.
- `SettingsPage.qml:10` calls the root switch "Persisted; re-applied on launch by
  the main window"; `harbour-sysmetrics.qml:17-20` says, and does, the opposite.
- `keymon.h:25` shows switches "with the state they hold now"; while the test does
  not listen they keep the state of the last refresh. `HeardSwitchShows` is about
  the switches that moved while it did.
- `ButtonTestPage.qml:21`: "Listening costs a handful of open descriptors and
  nothing else"; a descriptor whose device was unplugged stays ready and its
  notifier fires until the page is left (`ReadReady` of a descriptor that is `gone`).
- `ButtonTestPage.qml:137`: "A tile lights up the first time that code actually arrives",
  of tiles "grouped by the device that registers it"; `markSeen()` goes by the device's name and the code
  (`keymon.cpp:956-957`), so two devices of one name light each other's tiles, and so does
  another device that took a listed one's node. `TilesStand` is about places in the list.
- `cvelookup.cpp:103-104`: "discard anything that isn't the latest request"; the replies
  are first told apart by "known_exploited" in their URL (`cvelookup.cpp:78`). A search
  for a text with that word takes the catalogue's branch: the latest request is not
  shown, the page stays busy, and the next search aborts a deleted reply (`Dangling`,
  `AbortsDeleted`).
- `chargerlog.h:105-107`: "Window starts at the last attach", and `chargerlog.h:51-53`: a
  repeat is counted on the earlier line "instead of pushing the attach out of the
  window". With a look-back of 12 and a run-up of 10 it can: attach A at place p, attach B
  at p + 11, A again is counted at p, and the window, which begins 10 lines before B,
  leaves out the line that counts the last attach. `WindowKeepsEnds` excepts it, the
  run's numbers (3 and 1) reach it, and `ChargerAttachKept` proves that a run-up of 11 would do.
- `HwInfo.js:2550`: "One line per object: the count is their number, not a repetition";
  a source whose objects are listed twice has each of them counted twice.
- `detailmon.cpp:288`: "attributed to the core the thread last ran on"; the bars go
  by position in `/proc/stat`, so a parked core shifts those behind it.
- `HwInfo.js:2556`: "Handshake at the front, current state at the back"; the cut to
  the first 17 and last 7 rows can take the attach out, when more than 17 rows
  come before it, and a newest event may be counted on a row further up.

### What the code does besides

Seen while modelling; nothing in the repository says otherwise, and no property
here covers it.

- KeyMon: when another device takes a node between the refresh and the opening,
  its events are shown under the listed name; `SYN_DROPPED` is ignored, so what a
  full buffer lost is not read again; the line "last" survives a refresh; a key
  released while the page is covered stays pressed.
- RateMeters: the interface's meter takes a failed read of `/proc/net/dev` for a
  counter of zero, and shows everything ever received at the reading after it;
  the disks' figure wraps when a card is taken out or `/proc/diskstats` cannot be read
  (the sum gets smaller and is subtracted without a guard), and shows everything ever
  counted at the reading after a failed one; so do a process's context switches
  when its `status` cannot be read. `NeverInvented` excludes them by name.
- Recorder: a sample taken before `start()` and delivered after it is counted, so a
  figure may hold CPU time used just before the button was pressed.
- Charger: the label "last" of a row the filter had folded stands at its first
  occurrence; the row in the middle counts the rows of its own cut only, not the lines
  the filter left out before.
- CveLookup: a query to the package manager that timed out is cached as "not
  installed" for as long as the app runs. No transfer timeout is set
  (`cvelookup.cpp:60`), so a search whose connection goes silent stays on "Searching" until
  the next one (`Stalls`).
- RedrawCheck: a notification whose id never came back cannot be closed.
- FpMon: the Aborted of a test that was stopped can end the test started next.

### Bounds, and why they are enough

- `recording`: one pid, two processes on it, two names, counters to 2, two queued
  samples. Rows, cache entries and accounts are kept per pid and never meet, so
  one pid shows everything; two samples in flight put a stale one before a fresh
  one; reuse needs two processes. The proofs lift every one of these bounds.
- `pipeline`: one row that is shown or hidden, two intervals, three queued calls
  (a change of foreground posts two), one queued sample.
- `cve`: two texts to search for and one that looks like the catalogue, two
  vulnerabilities of which one is exploited, three requests between two starts: a reply
  can be superseded while the one before it is still queued.
- `keys`: two nodes, three devices that share a key code (the same device may be
  plugged into both nodes), a list of two keys (so that the limit cuts keys off), buffers of two events, three events
  and two plugs: enough to unplug a device, plug another in its place and press a
  key of each.
- `rates`: two things, counters to 3 in a modulus of 16, so that a wrapped
  difference is larger than anything that was counted; each of the five meters.
  `RateAssumption` asks that all that is counted between two readings fits the
  counters' width (2^64 in the code, which counts in jiffies, bytes and switches).
- `charger`: six kinds of line (two attaches, two that mean one event, one that means
  another and one that is not read), ten lines, an excerpt of seven with a run-up
  of one and a look-back of three, so that the look-back exceeds the run-up by two as in
  the code (12 and 10), and a repeat of one attach can be counted in front of the run-up of
  another (`RunUp < HeadLines`, `Lookback <= TailLines` as in the code); rows with a
  look-back of one cut to one and one, so that the timeline's cut is reached. Symmetry
  exchanges attaches with each other, and lines that mean the same event. A longer log differs only in
  what the cuts leave out. No deadlock is looked for: the log simply ends at `MaxLines`.
- `redraw`: thresholds scaled down (two hot windows, windows of two seconds, one
  second of settling, a wait in which the app comes back once); two lipsticks with
  one touch each, so that a restart and a touch can fall anywhere, also in the half
  second of the call to MCE. A VIEW leaves
  out values nothing reads before they are set again; it only uses variables whose
  every reader is listed in `MCRedraw`.
- `fptest`: five signals on their way, which is two operations begun and ended
  before the app sees the first sign.
- `rootchannel`: three requests in two sessions with one failure of the helper,
  and as many slots as given-up connections can fill, plus one.
- `binderscan`: three services on two devices, two of them neighbours with one
  name (what `recorded` compares), or an empty list; one process besides the
  service manager; one call of somebody else during a ping; one step of a stopped
  scan still queued when the next begins (`MaxDue`).

### Fairness

`Pipeline`: both event loops and the sampler's timer run. `RedrawCheck`: the run's
one-second timer fires and the call to MCE returns (it is given up after 500 ms). `FpTest`: the 30-second timer fires; the daemon and the
bus owe nothing. `RootChannel`: retry timer, socket notices and idle timer fire, a
wait ends (every wait in `request()` has a deadline), systemd starts what it was
asked to start, and the helper's loop comes round to each connection. `BinderScan`: queued calls and the
2 s timer run, and a killed process ends; a ping that is not killed owes nothing, and
one that could not be started is the exception `ScanEnds` names (`Hung`). `CveLookup`: a request
whose connection lives ends, and the event loop delivers its queued signal; a connection
may go silent for good (`Stalls`), and `SearchEnds` excepts that and a reply taken for the
catalogue. The others have no liveness and no fairness. No user
action and no failure is fair anywhere. `rootchannel` does not check for deadlock:
the app may be closed for good and the helper with it.

## 4. The proofs

### `Recording_proofs`

For any set of pids and names and any bounds, under the assumptions named in
`ProcTable` and `Recording` only:

- `RecordingTypeOK`: `Spec => []TypeOK`
- `RecordingInvariant`: `Spec => []IInv`
- `RecordingNames`: `Spec => []NeverAnotherName`
- `RecordingNoOverCount`: `Spec => []NoOverCount`
- `RecordingGrows`: `Spec => RecordedNeverShrinks`
- `RecordingImplementsLedger`: `Spec => L!Spec` (`ImplementsLedger`)

`NoOverCount` is not inductive: an account is right because the row it was last
charged from is right, and that row was right when it was taken, perhaps before
the recording began and before the process on the pid changed. `IInv`
(`Recording.tla`) therefore says where everything stands in the pid's history:
`CacheFits` (what the cache knows of the living process was true of it),
`RowsFit` (each queued row lies on the line "counter and history move together"
of its process, and of two rows the later is not behind), `AccountsFit` (an
account stands where its pid's latest counted row stands, and has charged no more
than the history between first sight and that row), with `TypeOK` and
`NeverAnotherName`. The step proof has one case per action; `Kernel` moves the
present away from the rows, `Walk` adds a row at the present, `OnProcesses`
charges the oldest row.

The refinement uses the same invariant: `FiguresCovered` turns `AccountsFit` into
"no figure beyond the use", `DeliveryCharges` shows that handling a sample is a
`Charge`, `KernelUses` that a process's CPU time is a `Use`, and `LedgerStep` has one
case per action.

### `Loops_proofs`

The three modules whose state comes out of loops over lists.

- `ChargerInvariant`, `ChargerWindow`, `TimelineCounts`:
  `LogSpec => []LogIInv`, `[]WindowKeepsEnds`, `[]CountsAddUp`; and `ChargerAttachKept`:
  `[](attached # 0 => Keeps(attached))` for a look-back of at most the run-up plus one, which
  the code's numbers miss by one
- `RateInvariant`, `RateTypes`, `RatesNeverInvented`, `RatesExact`:
  `RateSpec => []RateIInv`, `[]RateTypeOK`, `NeverInvented`, `ExactWhileTheSame`
- `KeyInvariant`, `KeyTypes`, `KeyTilesStand`, `KeySwitchShows`, `KeyLitStays`:
  `KeySpec => []KeyIInv`, `[]KeyTypeOK`, `[]TilesStand`, `[]HeardSwitchShows`, `LitStays`

*Loops.* `Loop` is a recursive function of the position. The library's induction
theorems take the statement to be proved as an operator, which the provers cannot
fill in, so induction is written with a set: `Climb` says that a set of
positions that holds the first one and, with each, the next one, holds them all (of the
positions it would lack there is a smallest, by `WFMin`). `TurnsExist` builds
the function the recursion asks for, which makes its value at each position known;
`TurnsIn` carries a set through all turns of a loop, and `RunningTotal`, `SumAppend` and
`SumChanged` are what is needed of sums.

*The charger's log*, for any set of lines and any numbers under `ChargerAssumption`:
the run-up before the attach is shorter than the front of the excerpt, and a repeat is
counted no further back than its end reaches (10 < 60 and 12 <= 30 in the code). That
the newest line is kept is not inductive without saying where it is counted: `LogIInv`
adds that this is always within the look-back of the end, that the last attach
exists, and that no attach stands a look-back or more behind the one that counts the last
attach read. `CountsAddUp` is three sums: the entries' counts follow the lines read
(`LinesCountedStep`, an invariant of the filter), the rows' counts follow the readable
lines at each turn of the folding loop (`FoldedCounts`, `RowsCount`), and the
cut's row in the middle makes up for the rows it replaces (`TimelineCount`).

*The meters*, for any number of things, any bounds and any width of the counters under
`RateAssumption`. That a rate is not made up depends on what was remembered at the
reading before, so `RateIInv` says how far that is behind: `EntryBehind` (a
core's or thread's entry by no more than was counted since, by exactly that
while it stayed), `RouteBehind` (the same of the interface the route was on),
`SumBehind` (the sum of the disks by the sum of what they counted, while none came or
went). `OverBound` bounds that sum, which is why the unsigned difference, taken modulo the
counters' width, is the true one (`MinusIs`).

*The button test*, for any number of nodes, any devices, any limit of the list and any
length of the buffers. `TilesStand` is kept because the list is made anew only without
tiles: `TilesFit` adds that tiles are there only with the test page, and keys
only of listed devices (so that `start()` never finds the list missing while there are
tiles). `HeardSwitchShows` is about an empty buffer; `SwitchesFit` says what a
buffer that is not empty promises: its last switch event is the state of the switch,
and with none left that state is shown. `FdsFit` ties a descriptor's name to the
listed device, by which `readReady()` looks the switch up. The loop over what was read is
`ReadAll` and `ReadRuns`: keys keep their places, what is lit stays lit, the
count follows, and of the switches the last event decides.

### `CveLookup_proofs`

- `CveInvariant`: `Spec => []IInv`
- `CveTypeOK`, `CveShownIsAsked`, `CveFlags`: `TypeOK`, `ShownIsAsked`, `FlagsFollowCatalogue`

for any searches, vulnerabilities and number of requests. `ShownIsAsked` looks at the page
only; that it stays true when a reply comes needs to know what the reply is about, so
`IInv` adds that every request sent asks for something (never for the blank search),
and that an open page's package is of the search it last asked for. A reply taken for the
catalogue only flags rows, and an abort of a deleted reply either does nothing or starts
from the beginning (`RestartIInv`). `FinishKeeps` is the
one lemma both the slot called by the event loop and the one re-entered inside
`abort()` rest on.

### `Pipeline_proofs`

- `PipelineInvariant`: `Spec => []IInv`
- `PipelineTypeOK`, `PipelineSwitchesArrive`, `PipelineHeldStill`: `TypeOK`, `SwitchesArrive`, `HeldStill`

for any rows, views, intervals and lengths of the two queues. `SwitchesArrive` speaks of
the last call in the queue for a switch; `Final` says the same without choosing one,
`AppendDecides` says that a call queued behind the others decides its switch and no
other, `HeadDelivers` that delivering the oldest one leaves every decision as it was.
`IInv` adds what links the list to its samples: before the first there is nothing
to show, and a list that is not held shows the rows its view accepts of the latest.

### `RootChannel_proofs`

- `RootInvariant`: `Spec => []IInv`
- `RootTypeOK`, `RootReplyIsOwn`, `RootHelperKept`: `TypeOK`, `ReplyIsOwn`, `HelperKept`

for any number of connections, requests, sessions and crashes with
`Slots > MaxRequests + MaxStarts`. The client does not look whether a reply is the one to its
request; it is, because a connection on which a wait ran out is given up.
`RepliesFit` says so: on the connection held there is nothing when no request is
waiting, and otherwise the request asked or its reply, once. The count of clients is
proved as the cardinality of the connections accepted and not closed
(`ClientSet`, `SameCount`). `Spec` here is without fairness; `FairSpec`, which the run
uses, implies it.

### `FpTest_proofs`

- `FpInvariant`, `FpTypeOK`, `FpStateArrives`: `IInv`, `TypeOK`, `StateArrives`

for any number of signals on their way. `TypeOK` and `StateArrives` together are inductive. The argument is
about the queue: the last state change in it decides (`TurnSent`), a signal that
changes no state leaves that decision alone (`OtherSent`), and so does the delivery of
the oldest (`HeadTaken`).

### `RedrawCheck_proofs`

- `RedrawInvariant`: `Spec => []IInv`
- `RedrawTypeOK`, `RedrawSuspicionEarned`, `RedrawValidUntouched`, `RedrawVerdictEarned`,
  `RedrawNotificationsClosed`: every safety property of the run

for any thresholds and durations that `RedrawAssumption` allows and any number of
restarts and touches. What a window is worth shows only at its end, so `IInv` says what is true in
the middle: `WindowOK` (in a window that is still good and whose lipstick runs, the touch count read last is the one
it began with, and so is the one its last check saw), `OnsetOK` (the watch's last look is no older than the onset of its hot
windows, and on the same lipstick, with no baseline taken between, has the same touches), `RunOK` (a test that is in
its second or third window has earned the ones before), `WorldOK` (the
lipstick that runs is the one started last). The step proof has the four parts `WorldPart`,
`WatchPart`, `WindowPart` and `RunPart`, and a lemma that carries each through steps that leave its
variables alone.

### `BinderScan_proofs`

- `BinderInvariant`: `Spec => []IInv`
- `BinderTypeOK`, `BinderAtMostOnce`, `BinderStopped`: `TypeOK`, `AtMostOnce`, `StoppedPingsNothing`

for listings of any length, under the assumption that a listing names each service
once (a service manager's list is a map by name). A service is listed by the slot of the ping's
end or by the timeout, and a late end can follow a timeout. `IInv` keeps them
apart: `StillToPing` (what is left to ping is neither listed nor current),
`CurrentOnce` (what is current is listed only after its timeout, with the ping over
or already recorded), `NoAnswerNoClaim` (an entry without an answer names no
process, so the later check against the nodes' owners cannot make it one).

### What is only model-checked

All liveness (`RecordingFed`, `RunEnds`, `TestEnds`, `Reconnects`, `HelperStops`, `ScanEnds`,
`SearchEnds`), which is out of the prover's reach, and the two disagreements,
which a counterexample shows better than a proof. Every invariant and every
safety action property of the passing runs is a theorem. There is no `RECURSIVE`
operator anywhere.

## 5. Not modelled

- The translation catalogues (`src/translations/*.ts`) are Qt's XML, written by
  `lupdate` from the texts in the code. They are data: nothing in them runs.
- The rest of `HwInfo.js` (all but the charger timeline) lays the values of
  SysMon's probes out as rows with labels. It keeps nothing from one call to the
  next and takes no decision a property could be about beyond repeating it.
- Painting, wording and the read-only probes of `sysmon.cpp`, `deviceinfo.cpp`,
  `btinfo.cpp`, `audiopolicy.cpp` and the rules of `diagnostics.cpp`: they keep no
  state beyond caches.
- In the modelled parts: memory, frequencies and temperatures of the sampler,
  RedrawCheck's observed events and leads, the sensor's identity and the list of
  fingers, what each helper command reads, the binder counters and the parser of
  the transaction log, the detail monitor's watchers and its bars per core.
- Connections, The Other Half and the read test are planned (below).

## 6. Plan

What is left, in the order of what matters most for the program:

1. The parser of the transaction log as a pure function, and the binder monitor's
   counters from one refresh to the next.
2. `netmon` and `netinfo` (owners found in another moment than the sockets),
   `tohmon` (the cover taken off during a read), `readtest` (windows and baselines),
   the bars per core of the detail monitor.
3. Decoders and rules (`tohmon.cpp`, `sysmon.cpp`, `diagnostics.cpp`) as functions,
   checked against reference definitions over bounded inputs.
4. Proofs: a refinement from `Pipeline` to an abstract process list that shows one
   sample after another, and one from `RootChannel` to a request that is answered once
   or given up.
