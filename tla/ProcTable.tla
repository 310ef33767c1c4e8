------------------------------ MODULE ProcTable ------------------------------
(***************************************************************************)
(* The kernel's process table as /proc shows it.  It is not part of the     *)
(* program: this is what sampler.cpp relies on when it reads                *)
(* /proc/<pid>/stat and /proc/<pid>/cmdline.  A pid may be used again; what *)
(* tells two incarnations apart is the start time.  exec() gives a living   *)
(* process another name and command line and keeps pid and start time.      *)
(***************************************************************************)
EXTENDS Naturals

CONSTANTS
  Pid,         \* the pids that occur
  Name,        \* the names a process can show
  NoName,      \* the empty name
  MaxStart,    \* bound: how many processes are ever forked
  MaxJiffies   \* bound: how much CPU time one process ever uses

ASSUME ProcAssumption == MaxStart \in Nat /\ MaxJiffies \in Nat

VARIABLES
  table,     \* pid -> the living process, or NoProc
  cpuTotal,  \* pid -> CPU time of all its incarnations so far (history)
  starts     \* the start time the latest process got

procVars == <<table, cpuTotal, starts>>

\* Start time 0 says that the pid is not in use.  names holds every name the
\* incarnation has had (history); name is the one it shows.
NoProc == [start |-> 0, jiffies |-> 0, name |-> NoName, names |-> {}]

Process == [start : Nat, jiffies : Nat, name : Name \cup {NoName}, names : SUBSET Name]

Alive(p) == table[p].start # 0

ProcInit ==
  /\ table = [p \in Pid |-> NoProc]
  /\ cpuTotal = [p \in Pid |-> 0]
  /\ starts = 0

\* A new process takes a free pid, with no CPU time used yet.
Fork(p, n) ==
  /\ ~Alive(p)
  /\ starts < MaxStart
  /\ starts' = starts + 1
  /\ table' = [table EXCEPT ![p] =
       [start |-> starts + 1, jiffies |-> 0, name |-> n, names |-> {n}]]
  /\ UNCHANGED cpuTotal

\* The process becomes another program: a booster that turns into an
\* application, a shell that calls exec.
Exec(p, n) ==
  /\ Alive(p)
  /\ table[p].name # n
  /\ table' = [table EXCEPT ![p].name = n, ![p].names = @ \cup {n}]
  /\ UNCHANGED <<cpuTotal, starts>>

UseCpu(p) ==
  /\ Alive(p)
  /\ table[p].jiffies < MaxJiffies
  /\ table' = [table EXCEPT ![p].jiffies = @ + 1]
  /\ cpuTotal' = [cpuTotal EXCEPT ![p] = @ + 1]
  /\ UNCHANGED starts

Exit(p) ==
  /\ Alive(p)
  /\ table' = [table EXCEPT ![p] = NoProc]
  /\ UNCHANGED <<cpuTotal, starts>>
==============================================================================
