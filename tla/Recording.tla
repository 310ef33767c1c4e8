------------------------------ MODULE Recording ------------------------------
(***************************************************************************)
(* A recording, from the process table to the ranking: the sampler's walk   *)
(* over /proc with its cache (Sampler::sampleProcesses), the queued signal  *)
(* processesSampled, and the session recorder that turns the cumulative     *)
(* counters of successive samples into CPU time per pid (recorder.cpp).     *)
(* The switches that decide when a walk takes place are in Pipeline; here a *)
(* walk may take place at any time.                                         *)
(***************************************************************************)
EXTENDS ProcTable, Sequences

CONSTANT MaxSamples   \* bound: samples queued and not yet delivered

ASSUME RecordingAssumption == MaxSamples \in Nat

VARIABLES
  prevProc,  \* Sampler::m_prevProc: pid -> what the last walk knew of it
  samples,   \* processesSampled emissions on their way to the GUI thread
  running,   \* Recorder::m_running
  acc,       \* Recorder::m_acc; a pid without an entry reads as NoAcc
  sight,     \* pid -> its first row counted since start(), or NoRow (history)
  latest     \* pid -> its latest row counted since start(), or NoRow (history)

recorderVars == <<running, acc, sight, latest>>

vars == <<procVars, prevProc, samples, recorderVars>>

Forgotten == [start |-> 0, name |-> NoName]

\* One ProcSample, or NoRow for a pid that /proc does not list.  total and
\* names are the process table's history at that moment, for the properties.
NoRow == [start |-> 0, jiffies |-> 0, name |-> NoName, names |-> {}, total |-> 0]

RowType == [start : Nat, jiffies : Nat, name : Name \cup {NoName},
            names : SUBSET Name, total : Nat]

\* A cache that goes by the pid alone.
KnownByPid(p) == prevProc[p].start # 0

\* The cache's entry for a pid is used while the start time is the same.
Known(p) == prevProc[p].start = table[p].start

RowOf(p) ==
  [start   |-> table[p].start,
   jiffies |-> table[p].jiffies,
   name    |-> IF Known(p) THEN prevProc[p].name ELSE table[p].name,
   names   |-> table[p].names,
   total   |-> cpuTotal[p]]

NoAcc == [start |-> 0, base |-> 0, last |-> 0, finished |-> 0]

AccType == [start : Nat, base : Nat, last : Nat, finished : Nat]

Init ==
  /\ ProcInit
  /\ prevProc = [p \in Pid |-> Forgotten]
  /\ samples = <<>>
  /\ running = FALSE
  /\ acc = [p \in Pid |-> NoAcc]
  /\ sight = [p \in Pid |-> NoRow]
  /\ latest = [p \in Pid |-> NoRow]

------------------------------------------------------------------------------
(* The worker thread *)

Living == {p \in Pid : Alive(p)}

\* Each process found becomes a row; the cache then holds exactly those.
WalkFinds(found) ==
  /\ Len(samples) < MaxSamples
  /\ samples' = Append(samples,
       [p \in Pid |-> IF p \in found THEN RowOf(p) ELSE NoRow])
  /\ prevProc' = [p \in Pid |->
       IF p \in found THEN [start |-> table[p].start, name |-> RowOf(p).name]
                      ELSE Forgotten]
  /\ UNCHANGED <<procVars, recorderVars>>

\* A process whose stat cannot be read is passed over: it has just gone, or no
\* descriptor was left for it.
Walk == \E found \in SUBSET Living : WalkFinds(found)

\* opendir("/proc") fails, the process being out of file descriptors: an empty
\* list goes out and the cache stays as it was.
WalkFails ==
  /\ Len(samples) < MaxSamples
  /\ samples' = Append(samples, [p \in Pid |-> NoRow])
  /\ UNCHANGED <<procVars, prevProc, recorderVars>>

------------------------------------------------------------------------------
(* The GUI thread *)

\* The CPU time the ranking shows for a pid (rebuild()).
Recorded(p) == acc[p].finished + acc[p].last - acc[p].base

\* start() and reset() empty the accounts, stop() keeps them.  Start and Stop
\* are one button, Reset is enabled while no recording runs.
RecorderStart ==
  /\ ~running
  /\ running' = TRUE
  /\ acc' = [p \in Pid |-> NoAcc]
  /\ sight' = [p \in Pid |-> NoRow]
  /\ latest' = [p \in Pid |-> NoRow]
  /\ UNCHANGED <<procVars, prevProc, samples>>

RecorderStop ==
  /\ running
  /\ running' = FALSE
  /\ UNCHANGED <<procVars, prevProc, samples, acc, sight, latest>>

RecorderReset ==
  /\ ~running
  /\ acc' = [p \in Pid |-> NoAcc]
  /\ sight' = [p \in Pid |-> NoRow]
  /\ latest' = [p \in Pid |-> NoRow]
  /\ UNCHANGED <<procVars, prevProc, samples, running>>

\* The slip of an account opened without its last counter.
OpenedLate(row, finished) ==
  [start |-> row.start, base |-> row.jiffies, last |-> 0, finished |-> finished]

\* A new account, or the account's next process with the same pid.
Opened(row, finished) ==
  [start |-> row.start, base |-> row.jiffies, last |-> row.jiffies,
   finished |-> finished]

Higher(x, y) == IF x >= y THEN x ELSE y

Unused(a) == a.base = 0 /\ a.last = 0

\* Two slips in Account: banking the whole counter of the process that has
\* gone, and not banking it at all.
AccountBanksAll(a, row) ==
  IF Unused(a) THEN Opened(row, a.finished)
  ELSE IF a.start # row.start THEN Opened(row, a.finished + a.last)
  ELSE [a EXCEPT !.last = Higher(@, row.jiffies)]

AccountUnbanked(a, row) ==
  IF Unused(a) \/ a.start # row.start THEN Opened(row, a.finished)
  ELSE [a EXCEPT !.last = Higher(@, row.jiffies)]

\* One row of a sample against the account of its pid.
Account(a, row) ==
  IF Unused(a) THEN Opened(row, a.finished)
  ELSE IF a.start # row.start THEN Opened(row, a.finished + (a.last - a.base))
  ELSE [a EXCEPT !.last = Higher(@, row.jiffies)]

OnProcesses ==
  /\ samples # <<>>
  /\ samples' = Tail(samples)
  /\ IF running
       THEN LET procs == Head(samples)
            IN  /\ acc' = [p \in Pid |-> IF procs[p].start # 0
                                           THEN Account(acc[p], procs[p])
                                           ELSE acc[p]]
                /\ sight' = [p \in Pid |-> IF sight[p].start = 0 THEN procs[p]
                                                                 ELSE sight[p]]
                /\ latest' = [p \in Pid |-> IF procs[p].start = 0 THEN latest[p]
                                                                 ELSE procs[p]]
       ELSE UNCHANGED <<acc, sight, latest>>
  /\ UNCHANGED <<procVars, prevProc, running>>

Kernel ==
  /\ \E p \in Pid : \/ \E n \in Name : Fork(p, n) \/ Exec(p, n)
                    \/ UseCpu(p)
                    \/ Exit(p)
  /\ UNCHANGED <<prevProc, samples, recorderVars>>

Next ==
  \/ Walk \/ WalkFails
  \/ RecorderStart \/ RecorderStop \/ RecorderReset \/ OnProcesses
  \/ Kernel

Spec == Init /\ [][Next]_vars
------------------------------------------------------------------------------
(* Properties *)

\* Every variable holds a value of its kind, the queue keeps its bound, and no
\* account's unsigned subtraction last - base can wrap.
TypeOK ==
  /\ table \in [Pid -> Process] /\ cpuTotal \in [Pid -> Nat] /\ starts \in Nat
  /\ prevProc \in [Pid -> [start : Nat, name : Name \cup {NoName}]]
  /\ samples \in Seq([Pid -> RowType]) /\ Len(samples) <= MaxSamples
  /\ running \in BOOLEAN
  /\ acc \in [Pid -> AccType] /\ \A p \in Pid : acc[p].base <= acc[p].last
  /\ sight \in [Pid -> RowType] /\ latest \in [Pid -> RowType]

\* A row carries a name its own process had at some time, never the name of
\* an earlier process with the same pid (the start time guard of the cache).
NeverAnotherName ==
  \A i \in DOMAIN samples : \A p \in Pid :
    samples[i][p].start # 0 => samples[i][p].name \in samples[i][p].names

\* The recording never shows more CPU time for a pid than its processes have
\* used since the pid was first seen in it: through pid reuse, samples taken
\* before start() and delivered after it, and walks that failed.
NoOverCount ==
  \A p \in Pid :
    IF sight[p].start = 0 THEN Recorded(p) = 0
                          ELSE Recorded(p) + sight[p].total <= cpuTotal[p]

\* While a recording runs, no pid's figure goes down: the time of a process
\* that has exited stays in the account of its pid.
RecordedNeverShrinks ==
  [][running /\ running' => \A p \in Pid : Recorded(p)' >= Recorded(p)]_vars

\* The recording is a ledger of the CPU time of its pids: it opens empty, takes
\* in no more than was used, gives nothing back while it runs, and keeps its
\* figures when it is stopped.
L == INSTANCE Ledger WITH Holder <- Pid, open <- running,
                          figure <- [p \in Pid |-> Recorded(p)], used <- cpuTotal

ImplementsLedger == L!Spec
------------------------------------------------------------------------------
(* The inductive invariant behind the properties above (proofs in          *)
(* Recording_proofs).                                                       *)

\* What the cache knows of the incarnation that lives was true of it.
CacheFits ==
  \A p \in Pid :
    /\ Alive(p) => table[p].name \in table[p].names
    /\ prevProc[p].start <= starts
    /\ Alive(p) /\ Known(p) => prevProc[p].name \in table[p].names

\* A row tells how far its pid's history had come: CPU time used by the pid
\* since then is CPU time of the same process while that one lives.
RowFits(p, r) ==
  r.start # 0 =>
    /\ r.start <= starts
    /\ r.total <= cpuTotal[p]
    /\ r.start = table[p].start => table[p].jiffies + r.total = r.jiffies + cpuTotal[p]

\* Of two rows of a pid the later one is not behind, and between two rows of
\* one process the counters have moved by as much as the history.
Later(r1, r2) ==
  r1.start # 0 /\ r2.start # 0 =>
    /\ r1.total <= r2.total
    /\ r1.start = r2.start => r2.jiffies + r1.total = r1.jiffies + r2.total

RowsFit ==
  \A p \in Pid :
    /\ table[p].start <= starts
    /\ RowFits(p, latest[p])
    /\ \A i \in DOMAIN samples : RowFits(p, samples[i][p]) /\ Later(latest[p], samples[i][p])
    /\ \A i, j \in DOMAIN samples : i < j => Later(samples[i][p], samples[j][p])

\* An account stands where the latest row of its pid stands.
AccountsFit ==
  \A p \in Pid :
    IF latest[p].start = 0
      THEN acc[p] = NoAcc /\ sight[p].start = 0
      ELSE /\ acc[p].start = latest[p].start /\ acc[p].last = latest[p].jiffies
           /\ sight[p].start # 0
           /\ Recorded(p) + sight[p].total <= latest[p].total

IInv == TypeOK /\ CacheFits /\ RowsFit /\ AccountsFit /\ NeverAnotherName
==============================================================================
