--------------------------- MODULE Recording_proofs ---------------------------
(***************************************************************************)
(* Proofs about Recording: its invariants and its action property, for any  *)
(* set of pids and names and any bounds.  IInv is the inductive invariant;  *)
(* its four parts are carried through a step one after the other.           *)
(***************************************************************************)
EXTENDS Recording, SequenceTheorems, TLAPS

\* The queue's rows after a walk, and after one delivery.
LEMMA AppendRow ==
  ASSUME NEW s \in Seq([Pid -> RowType]), NEW r \in [Pid -> RowType]
  PROVE  /\ Append(s, r) \in Seq([Pid -> RowType])
         /\ Len(Append(s, r)) = Len(s) + 1
         /\ \A i \in DOMAIN s : Append(s, r)[i] = s[i]
         /\ Append(s, r)[Len(s) + 1] = r
         /\ DOMAIN s = 1 .. Len(s)
         /\ DOMAIN Append(s, r) = 1 .. Len(s) + 1
  BY AppendProperties, LenProperties

LEMMA TailRow ==
  ASSUME NEW s \in Seq([Pid -> RowType]), s # <<>>
  PROVE  /\ Head(s) \in [Pid -> RowType] /\ Head(s) = s[1]
         /\ Tail(s) \in Seq([Pid -> RowType])
         /\ Len(Tail(s)) = Len(s) - 1 /\ Len(s) \in Nat /\ Len(s) > 0
         /\ DOMAIN s = 1 .. Len(s)
         /\ DOMAIN Tail(s) = 1 .. Len(s) - 1
         /\ \A i \in 1 .. Len(s) - 1 : Tail(s)[i] = s[i + 1]
  BY HeadTailProperties, LenProperties, EmptySeq

\* What a row contributes to an account: a well-formed account stays one, and
\* the figure it shows does not go down.
LEMMA AccountGrows ==
  ASSUME NEW a \in AccType, NEW row \in RowType, a.base <= a.last
  PROVE  /\ Account(a, row) \in AccType
         /\ Account(a, row).base <= Account(a, row).last
         /\ Account(a, row).finished + Account(a, row).last - Account(a, row).base
              >= a.finished + a.last - a.base
<1> DEFINE b == Account(a, row)
<1> USE DEF AccType, RowType
<1>1. CASE Unused(a)
  <2>1. b = Opened(row, a.finished)
    BY <1>1 DEF Account
  <2> QED BY <1>1, <2>1 DEF Unused, Opened
<1>2. CASE ~Unused(a) /\ a.start # row.start
  <2>1. b = Opened(row, a.finished + (a.last - a.base))
    BY <1>2 DEF Account
  <2>2. a.finished + (a.last - a.base) \in Nat
    OBVIOUS
  <2> QED BY <2>1, <2>2 DEF Opened
<1>3. CASE ~Unused(a) /\ a.start = row.start
  <2>1. b = [a EXCEPT !.last = Higher(a.last, row.jiffies)]
    BY <1>3 DEF Account
  <2>2. Higher(a.last, row.jiffies) \in Nat /\ Higher(a.last, row.jiffies) >= a.last
    BY DEF Higher
  <2> QED BY <2>1, <2>2
<1> QED BY <1>1, <1>2, <1>3

LEMMA InitTypeOK == Init => TypeOK
<1> SUFFICES ASSUME Init PROVE TypeOK
  OBVIOUS
<1> USE DEF Init, ProcInit
<1>1. table \in [Pid -> Process] /\ cpuTotal \in [Pid -> Nat] /\ starts \in Nat
  BY DEF NoProc, Process
<1>2. prevProc \in [Pid -> [start : Nat, name : Name \cup {NoName}]]
  BY DEF Forgotten
<1>3. samples \in Seq([Pid -> RowType]) /\ Len(samples) <= MaxSamples
  BY RecordingAssumption
<1>4. acc \in [Pid -> AccType] /\ \A p \in Pid : acc[p].base <= acc[p].last
  BY DEF NoAcc, AccType
<1>5. sight \in [Pid -> RowType] /\ latest \in [Pid -> RowType]
  BY DEF NoRow, RowType
<1> QED BY <1>1, <1>2, <1>3, <1>4, <1>5 DEF TypeOK

\* What the kernel can do to one pid, the others staying as they are.
KernelDoes(q) ==
  \/ table'[q] = table[q] /\ cpuTotal'[q] = cpuTotal[q]
  \/ /\ table[q].start = 0 /\ table'[q].start = starts + 1 /\ starts' = starts + 1
     /\ table'[q].jiffies = 0 /\ table'[q].name \in table'[q].names
     /\ cpuTotal'[q] = cpuTotal[q]
  \/ /\ table'[q].start = table[q].start /\ table'[q].jiffies = table[q].jiffies
     /\ table'[q].name \in table'[q].names
     /\ table[q].names \subseteq table'[q].names
     /\ cpuTotal'[q] = cpuTotal[q]
  \/ /\ table'[q].start = table[q].start /\ table'[q].jiffies = table[q].jiffies + 1
     /\ table'[q].name = table[q].name /\ table'[q].names = table[q].names
     /\ cpuTotal'[q] = cpuTotal[q] + 1
  \/ table'[q].start = 0 /\ cpuTotal'[q] = cpuTotal[q]

LEMMA KernelSteps ==
  ASSUME TypeOK, Kernel
  PROVE  /\ table' \in [Pid -> Process] /\ cpuTotal' \in [Pid -> Nat]
         /\ starts' \in Nat /\ starts <= starts'
         /\ \A q \in Pid : KernelDoes(q)
         /\ UNCHANGED <<prevProc, samples, running, acc, sight, latest>>
<1> USE DEF TypeOK
<1> DEFINE Goal == /\ table' \in [Pid -> Process] /\ cpuTotal' \in [Pid -> Nat]
                  /\ starts' \in Nat /\ starts <= starts'
                  /\ \A q \in Pid : KernelDoes(q)
<1>1. UNCHANGED <<prevProc, samples, running, acc, sight, latest>>
  BY DEF Kernel, recorderVars
<1>2. PICK p \in Pid : \/ \E n \in Name : Fork(p, n) \/ Exec(p, n)
                       \/ UseCpu(p)
                       \/ Exit(p)
  BY DEF Kernel
<1>8. /\ table[p] \in Process /\ cpuTotal[p] \in Nat
     /\ DOMAIN table = Pid /\ DOMAIN cpuTotal = Pid
  OBVIOUS
<1>3. ASSUME NEW n \in Name, Fork(p, n) PROVE Goal
  <2> DEFINE new == [start |-> starts + 1, jiffies |-> 0, name |-> n, names |-> {n}]
  <2>1. new \in Process
    BY DEF Process
  <2>2. /\ table' = [table EXCEPT ![p] = new] /\ cpuTotal' = cpuTotal
        /\ starts' = starts + 1 /\ table[p].start = 0
    BY <1>3 DEF Fork, Alive
  <2>3. table' \in [Pid -> Process]
    BY <2>1, <2>2
  <2>4. \A q \in Pid : KernelDoes(q)
    BY <1>8, <2>2 DEF KernelDoes
  <2> QED BY <2>2, <2>3, <2>4
<1>4. ASSUME NEW n \in Name, Exec(p, n) PROVE Goal
  <2> DEFINE new == [table[p] EXCEPT !.name = n, !.names = @ \cup {n}]
  <2>1. /\ new \in Process /\ new.start = table[p].start
        /\ new.jiffies = table[p].jiffies /\ new.name = n
        /\ new.names = table[p].names \cup {n}
    BY <1>8 DEF Process
  <2>2. table' = [table EXCEPT ![p] = new] /\ cpuTotal' = cpuTotal /\ starts' = starts
    BY <1>4, <1>8 DEF Exec
  <2>3. table' \in [Pid -> Process]
    BY <2>1, <2>2
  <2>4. \A q \in Pid : KernelDoes(q)
    BY <1>8, <2>1, <2>2 DEF KernelDoes
  <2> QED BY <2>2, <2>3, <2>4
<1>5. ASSUME UseCpu(p) PROVE Goal
  <2> DEFINE new == [table[p] EXCEPT !.jiffies = @ + 1]
  <2>7. table[p].jiffies + 1 \in Nat
    BY <1>8 DEF Process
  <2>1. /\ new \in Process /\ new.start = table[p].start
        /\ new.jiffies = table[p].jiffies + 1
        /\ new.name = table[p].name /\ new.names = table[p].names
    BY <1>8, <2>7, Zenon DEF Process
  <2>5. table' = [table EXCEPT ![p].jiffies = @ + 1]
    BY <1>5 DEF UseCpu
  <2>6. [table EXCEPT ![p].jiffies = @ + 1] = [table EXCEPT ![p] = new]
    BY Zenon
  <2>2. /\ table' = [table EXCEPT ![p] = new] /\ starts' = starts
        /\ cpuTotal' = [cpuTotal EXCEPT ![p] = cpuTotal[p] + 1]
    BY <1>5, <2>5, <2>6 DEF UseCpu
  <2>3. table' \in [Pid -> Process] /\ cpuTotal' \in [Pid -> Nat]
    BY <1>8, <2>1, <2>2
  <2>4. \A q \in Pid : KernelDoes(q)
    BY <1>8, <2>1, <2>2 DEF KernelDoes
  <2> QED BY <2>2, <2>3, <2>4
<1>6. ASSUME Exit(p) PROVE Goal
  <2>1. NoProc \in Process /\ NoProc.start = 0
    BY DEF Process, NoProc
  <2>2. table' = [table EXCEPT ![p] = NoProc] /\ cpuTotal' = cpuTotal /\ starts' = starts
    BY <1>6 DEF Exit
  <2>3. table' \in [Pid -> Process]
    BY <2>1, <2>2
  <2>4. \A q \in Pid : KernelDoes(q)
    BY <1>8, <2>1, <2>2 DEF KernelDoes
  <2> QED BY <2>2, <2>3, <2>4
<1>7. Goal
  BY <1>2, <1>3, <1>4, <1>5, <1>6
<1> QED BY <1>1, <1>7

\* What a delivery does to one pid of a running recording.
LEMMA Delivered ==
  ASSUME TypeOK, OnProcesses, running
  PROVE  /\ \A p \in Pid :
              /\ samples[1][p] \in RowType
              /\ acc'[p] = IF samples[1][p].start # 0 THEN Account(acc[p], samples[1][p])
                                                     ELSE acc[p]
              /\ sight'[p] = IF sight[p].start = 0 THEN samples[1][p] ELSE sight[p]
              /\ latest'[p] = IF samples[1][p].start = 0 THEN latest[p] ELSE samples[1][p]
         /\ acc' \in [Pid -> AccType] /\ sight' \in [Pid -> RowType]
         /\ latest' \in [Pid -> RowType]
<1> USE DEF TypeOK
<1>1. Head(samples) \in [Pid -> RowType] /\ Head(samples) = samples[1]
  BY TailRow DEF OnProcesses
<1>2. /\ acc' = [p \in Pid |-> IF samples[1][p].start # 0
                                 THEN Account(acc[p], samples[1][p]) ELSE acc[p]]
      /\ sight' = [p \in Pid |-> IF sight[p].start = 0 THEN samples[1][p] ELSE sight[p]]
      /\ latest' = [p \in Pid |-> IF samples[1][p].start = 0 THEN latest[p]
                                                           ELSE samples[1][p]]
  BY <1>1 DEF OnProcesses
<1>3. \A p \in Pid : samples[1][p] \in RowType /\ Account(acc[p], samples[1][p]) \in AccType
  BY <1>1, AccountGrows
<1>4. acc' \in [Pid -> AccType]
  BY <1>2, <1>3
<1>5. sight' \in [Pid -> RowType] /\ latest' \in [Pid -> RowType]
  BY <1>2, <1>3
<1> QED BY <1>2, <1>3, <1>4, <1>5

LEMMA StepTypeOK == TypeOK /\ [Next]_vars => TypeOK'
<1> SUFFICES ASSUME TypeOK, [Next]_vars PROVE TypeOK'
  OBVIOUS
<1> USE RecordingAssumption, ProcAssumption DEF TypeOK
<1>1. \A p \in Pid : RowOf(p) \in RowType /\ NoRow \in RowType
  BY DEF Process, RowOf, RowType, NoRow
<1>2. CASE Walk
  <2> PICK found \in SUBSET Living : WalkFinds(found)
    BY <1>2 DEF Walk
  <2>1. prevProc' \in [Pid -> [start : Nat, name : Name \cup {NoName}]]
    BY DEF WalkFinds, RowOf, Process, Forgotten
  <2>2. samples' \in Seq([Pid -> RowType]) /\ Len(samples') <= MaxSamples
    <3>1. [p \in Pid |-> IF p \in found THEN RowOf(p) ELSE NoRow] \in [Pid -> RowType]
      BY <1>1
    <3> QED BY <3>1, AppendRow DEF WalkFinds
  <2> QED BY <2>1, <2>2 DEF WalkFinds, procVars, recorderVars
<1>3. CASE WalkFails
  <2>1. [p \in Pid |-> NoRow] \in [Pid -> RowType]
    BY DEF NoRow, RowType
  <2>2. samples' \in Seq([Pid -> RowType]) /\ Len(samples') <= MaxSamples
    BY <2>1, <1>3, AppendRow DEF WalkFails
  <2> QED BY <1>3, <2>2 DEF WalkFails, procVars, recorderVars
<1>4. CASE RecorderStart \/ RecorderReset
  <2>1. NoAcc \in AccType /\ NoAcc.base <= NoAcc.last /\ NoRow \in RowType
    BY DEF NoAcc, AccType, NoRow, RowType
  <2> QED BY <1>4, <2>1 DEF RecorderStart, RecorderReset, procVars
<1>5. CASE RecorderStop
  BY <1>5 DEF RecorderStop, procVars
<1>6. CASE OnProcesses
  <2>1. /\ samples' \in Seq([Pid -> RowType]) /\ Len(samples') <= MaxSamples
        /\ Head(samples) \in [Pid -> RowType]
    BY <1>6, TailRow DEF OnProcesses
  <2>2. CASE running
    <3>1. acc' \in [Pid -> AccType] /\ sight' \in [Pid -> RowType] /\ latest' \in [Pid -> RowType]
      BY <1>6, <2>2, Delivered
    <3>2. \A p \in Pid : acc'[p].base <= acc'[p].last
      BY <1>6, <2>2, Delivered, AccountGrows
    <3> QED BY <1>6, <2>1, <3>1, <3>2 DEF OnProcesses, procVars
  <2>3. CASE ~running
    BY <1>6, <2>1, <2>3 DEF OnProcesses, procVars
  <2> QED BY <2>2, <2>3
<1>7. CASE Kernel
  BY <1>7, KernelSteps
<1>8. CASE UNCHANGED vars
  BY <1>8 DEF vars, procVars, recorderVars
<1> QED BY <1>2, <1>3, <1>4, <1>5, <1>6, <1>7, <1>8 DEF Next

\* Every variable keeps its kind, the queue its bound, and no account can wrap
\* its unsigned subtraction.
THEOREM RecordingTypeOK == Spec => []TypeOK
  BY InitTypeOK, StepTypeOK, PTL DEF Spec

------------------------------------------------------------------------------
(* The cache *)

LEMMA InitIInv == Init => CacheFits /\ RowsFit /\ AccountsFit /\ NeverAnotherName
<1> SUFFICES ASSUME Init PROVE CacheFits /\ RowsFit /\ AccountsFit /\ NeverAnotherName
  OBVIOUS
<1>1. \A p \in Pid : table[p].start = 0 /\ prevProc[p].start = 0
  BY DEF Init, ProcInit, NoProc, Forgotten
<1>2. \A p \in Pid : latest[p].start = 0 /\ sight[p].start = 0 /\ acc[p] = NoAcc
  BY DEF Init, NoRow
<1>3. DOMAIN samples = {} /\ starts = 0 /\ 0 <= 0
  BY DEF Init, ProcInit
<1>4. CacheFits
  BY <1>1, <1>3 DEF CacheFits, Alive
<1>5. RowsFit
  BY <1>1, <1>2, <1>3 DEF RowsFit, RowFits
<1>6. AccountsFit
  BY <1>2 DEF AccountsFit
<1>7. NeverAnotherName
  BY <1>3 DEF NeverAnotherName
<1> QED BY <1>4, <1>5, <1>6, <1>7

LEMMA StepCacheFits ==
  ASSUME TypeOK, CacheFits, RowsFit, [Next]_vars
  PROVE  CacheFits'
<1> SUFFICES ASSUME NEW p \in Pid
             PROVE  /\ Alive(p)' => table'[p].name \in table'[p].names
                    /\ prevProc'[p].start <= starts'
                    /\ Alive(p)' /\ Known(p)' => prevProc'[p].name \in table'[p].names
  BY DEF CacheFits
<1>1. /\ table[p] \in Process /\ starts \in Nat /\ prevProc[p].start \in Nat
      /\ table[p].start \in Nat /\ table[p].start <= starts
  BY DEF TypeOK, Process, RowsFit
<1>2. /\ Alive(p) => table[p].name \in table[p].names
      /\ prevProc[p].start <= starts
      /\ Alive(p) /\ Known(p) => prevProc[p].name \in table[p].names
  BY DEF CacheFits
<1>3. CASE Walk
  <2> PICK found \in SUBSET Living : WalkFinds(found)
    BY <1>3 DEF Walk
  <2>1. UNCHANGED <<table, starts>>
    BY DEF WalkFinds, procVars
  <2>2. CASE p \in found
    <3>1. /\ prevProc'[p].start = table[p].start
          /\ prevProc'[p].name = RowOf(p).name
      BY <2>2 DEF WalkFinds
    <3>2. Alive(p) /\ RowOf(p).name \in table[p].names
      BY <1>2, <2>2 DEF RowOf, Living
    <3> QED BY <1>1, <1>2, <2>1, <3>1, <3>2 DEF Alive
  <2>3. CASE p \notin found
    <3>1. prevProc'[p].start = 0
      BY <2>3 DEF WalkFinds, Forgotten
    <3> QED BY <1>1, <1>2, <2>1, <3>1 DEF Alive, Known
  <2> QED BY <2>2, <2>3
<1>4. CASE Kernel
  <2>1. prevProc' = prevProc /\ KernelDoes(p) /\ starts <= starts' /\ starts' \in Nat
    BY <1>4, KernelSteps
  <2> QED BY <1>1, <1>2, <2>1 DEF KernelDoes, Alive, Known
<1>5. CASE UNCHANGED <<table, starts, prevProc>>
  BY <1>2, <1>5 DEF Alive, Known
<1>6. Walk \/ Kernel \/ UNCHANGED <<table, starts, prevProc>>
  BY DEF Next, vars, procVars, WalkFails, RecorderStart, RecorderStop, RecorderReset,
         OnProcesses
<1> QED BY <1>3, <1>4, <1>5, <1>6

------------------------------------------------------------------------------
(* The rows *)

\* No step of the kernel takes a row out of step with its pid's history.
LEMMA RowStaysFit ==
  ASSUME TypeOK, Kernel, NEW p \in Pid, NEW r \in RowType,
         table[p].start <= starts, RowFits(p, r)
  PROVE  /\ table'[p].start <= starts'
         /\ r.start # 0 =>
              /\ r.start <= starts'
              /\ r.total <= cpuTotal'[p]
              /\ r.start = table'[p].start
                   => table'[p].jiffies + r.total = r.jiffies + cpuTotal'[p]
<1>1. /\ table[p].start \in Nat /\ table[p].jiffies \in Nat /\ cpuTotal[p] \in Nat
      /\ starts \in Nat /\ r.start \in Nat /\ r.total \in Nat /\ r.jiffies \in Nat
  BY DEF TypeOK, Process, RowType
<1>2. KernelDoes(p) /\ starts <= starts' /\ starts' \in Nat
  BY KernelSteps
<1> QED BY <1>1, <1>2 DEF KernelDoes, RowFits

\* A row read now fits, and is later than every row that fits.
LEMMA FreshRow ==
  ASSUME TypeOK, RowsFit, NEW p \in Pid, Alive(p)
  PROVE  /\ RowFits(p, RowOf(p))
         /\ \A r \in RowType : RowFits(p, r) => Later(r, RowOf(p))
<1>1. /\ RowOf(p).start = table[p].start /\ RowOf(p).jiffies = table[p].jiffies
      /\ RowOf(p).total = cpuTotal[p]
  BY DEF RowOf
<1>2. /\ table[p].start \in Nat /\ table[p].jiffies \in Nat /\ cpuTotal[p] \in Nat
      /\ table[p].start <= starts
  BY DEF TypeOK, Process, RowsFit
<1>3. RowFits(p, RowOf(p))
  BY <1>1, <1>2 DEF RowFits
<1>4. ASSUME NEW r \in RowType, RowFits(p, r)
      PROVE  Later(r, RowOf(p))
  <2>1. r.start \in Nat /\ r.total \in Nat /\ r.jiffies \in Nat
    BY DEF RowType
  <2> QED BY <1>1, <1>2, <1>4, <2>1 DEF RowFits, Later
<1> QED BY <1>3, <1>4

LEMMA NoRowFits ==
  \A p \in Pid : /\ RowFits(p, NoRow)
                 /\ \A r \in RowType : Later(r, NoRow) /\ Later(NoRow, r)
  BY DEF RowFits, Later, NoRow

LEMMA AppendedRowsFit ==
  ASSUME TypeOK, RowsFit, NEW row \in [Pid -> RowType],
         samples' = Append(samples, row), UNCHANGED <<procVars, latest>>,
         \A p \in Pid : /\ RowFits(p, row[p])
                        /\ \A r \in RowType : RowFits(p, r) => Later(r, row[p])
  PROVE  RowsFit'
<1>1. /\ DOMAIN samples = 1 .. Len(samples) /\ Len(samples) \in Nat
      /\ DOMAIN samples' = 1 .. Len(samples) + 1
      /\ \A i \in 1 .. Len(samples) : samples'[i] = samples[i]
      /\ samples'[Len(samples) + 1] = row
  BY AppendRow, LenProperties DEF TypeOK
<1>2. \A i \in 1 .. Len(samples) : samples[i] \in [Pid -> RowType]
  BY <1>1, ElementOfSeq DEF TypeOK
<1>3. latest \in [Pid -> RowType]
  BY DEF TypeOK
<1>4. /\ table' = table /\ starts' = starts /\ cpuTotal' = cpuTotal /\ latest' = latest
  BY DEF procVars
<1> SUFFICES ASSUME NEW p \in Pid
             PROVE  /\ table'[p].start <= starts'
                    /\ RowFits(p, latest[p])'
                    /\ \A i \in DOMAIN samples' : /\ RowFits(p, samples[i][p])'
                                                 /\ Later(latest'[p], samples'[i][p])
                    /\ \A i, j \in DOMAIN samples' :
                         i < j => Later(samples'[i][p], samples'[j][p])
  BY DEF RowsFit, Later
<1>5. /\ table[p].start <= starts /\ RowFits(p, latest[p])
      /\ \A i \in 1 .. Len(samples) : /\ RowFits(p, samples[i][p])
                                      /\ Later(latest[p], samples[i][p])
      /\ \A i, j \in 1 .. Len(samples) : i < j => Later(samples[i][p], samples[j][p])
  BY <1>1 DEF RowsFit
<1>6. RowFits(p, latest[p])'
  BY <1>4, <1>5 DEF RowFits
<1>7. ASSUME NEW i \in 1 .. Len(samples) + 1
      PROVE  RowFits(p, samples[i][p])' /\ Later(latest'[p], samples'[i][p])
  <2>1. CASE i \in 1 .. Len(samples)
    <3>1. samples'[i][p] = samples[i][p]
      BY <1>1, <2>1
    <3> QED BY <1>4, <1>5, <2>1, <3>1 DEF RowFits
  <2>2. CASE i = Len(samples) + 1
    <3>1. samples'[i][p] = row[p]
      BY <1>1, <2>2
    <3>2. RowFits(p, row[p]) /\ Later(latest[p], row[p])
      BY <1>3, <1>5
    <3> QED BY <1>4, <3>1, <3>2 DEF RowFits
  <2> QED BY <1>1, <2>1, <2>2
<1>8. ASSUME NEW i \in 1 .. Len(samples) + 1, NEW j \in 1 .. Len(samples) + 1, i < j
      PROVE  Later(samples'[i][p], samples'[j][p])
  <2>1. i \in 1 .. Len(samples) /\ samples'[i] = samples[i]
    BY <1>1, <1>8
  <2>2. CASE j \in 1 .. Len(samples)
    BY <1>1, <1>5, <1>8, <2>1, <2>2
  <2>3. CASE j = Len(samples) + 1
    BY <1>1, <1>2, <1>5, <2>1, <2>3
  <2> QED BY <1>1, <2>2, <2>3
<1> QED BY <1>1, <1>4, <1>5, <1>6, <1>7, <1>8

\* A delivery takes the first row of each pid from the queue; it becomes the
\* latest one.
LEMMA ShiftedRowsFit ==
  ASSUME TypeOK, RowsFit, OnProcesses
  PROVE  RowsFit'
<1>1. /\ DOMAIN samples = 1 .. Len(samples) /\ Len(samples) \in Nat /\ Len(samples) > 0
      /\ DOMAIN samples' = 1 .. Len(samples) - 1
      /\ \A i \in 1 .. Len(samples) - 1 : samples'[i] = samples[i + 1]
  BY TailRow DEF TypeOK, OnProcesses
<1>2. table' = table /\ starts' = starts /\ cpuTotal' = cpuTotal
  BY DEF OnProcesses, procVars
<1> SUFFICES ASSUME NEW p \in Pid
             PROVE  /\ table'[p].start <= starts'
                    /\ RowFits(p, latest[p])'
                    /\ \A i \in DOMAIN samples' : /\ RowFits(p, samples[i][p])'
                                                 /\ Later(latest'[p], samples'[i][p])
                    /\ \A i, j \in DOMAIN samples' :
                         i < j => Later(samples'[i][p], samples'[j][p])
  BY DEF RowsFit, Later
<1>3. /\ table[p].start <= starts /\ RowFits(p, latest[p])
      /\ \A i \in 1 .. Len(samples) : /\ RowFits(p, samples[i][p])
                                      /\ Later(latest[p], samples[i][p])
      /\ \A i, j \in 1 .. Len(samples) : i < j => Later(samples[i][p], samples[j][p])
  BY <1>1 DEF RowsFit
<1>4. latest'[p] = latest[p] \/ latest'[p] = samples[1][p]
  <2>1. CASE running
    BY <2>1, Delivered
  <2>2. CASE ~running
    BY <2>2 DEF OnProcesses
  <2> QED BY <2>1, <2>2
<1>5. RowFits(p, latest[p])'
  BY <1>1, <1>2, <1>3, <1>4 DEF RowFits
<1>6. ASSUME NEW i \in 1 .. Len(samples) - 1
      PROVE  RowFits(p, samples[i][p])' /\ Later(latest'[p], samples'[i][p])
  <2>1. i + 1 \in 1 .. Len(samples) /\ 1 \in 1 .. Len(samples) /\ 1 < i + 1
    BY <1>1
  <2>2. samples'[i][p] = samples[i + 1][p]
    BY <1>1
  <2>3. RowFits(p, samples[i + 1][p]) /\ Later(latest'[p], samples[i + 1][p])
    BY <1>3, <1>4, <2>1
  <2> QED BY <1>2, <2>2, <2>3 DEF RowFits
<1>7. ASSUME NEW i \in 1 .. Len(samples) - 1, NEW j \in 1 .. Len(samples) - 1, i < j
      PROVE  Later(samples'[i][p], samples'[j][p])
  <2>1. i + 1 \in 1 .. Len(samples) /\ j + 1 \in 1 .. Len(samples) /\ i + 1 < j + 1
    BY <1>1, <1>7
  <2>2. samples'[i][p] = samples[i + 1][p] /\ samples'[j][p] = samples[j + 1][p]
    BY <1>1
  <2> QED BY <1>3, <2>1, <2>2
<1> QED BY <1>1, <1>2, <1>3, <1>5, <1>6, <1>7

LEMMA KernelRowsFit ==
  ASSUME TypeOK, RowsFit, Kernel
  PROVE  RowsFit'
<1>1. samples' = samples /\ latest' = latest
  BY KernelSteps
<1>2. \A i \in DOMAIN samples : samples[i] \in [Pid -> RowType]
  BY ElementOfSeq, LenProperties DEF TypeOK
<1>3. \A p \in Pid : \A r \in RowType :
        RowFits(p, r) => /\ table'[p].start <= starts'
                         /\ r.start # 0 =>
                              /\ r.start <= starts'
                              /\ r.total <= cpuTotal'[p]
                              /\ r.start = table'[p].start
                                   => table'[p].jiffies + r.total = r.jiffies + cpuTotal'[p]
  BY RowStaysFit DEF RowsFit
<1>4. \A p \in Pid : /\ table'[p].start <= starts'
                     /\ RowFits(p, latest[p])'
  BY <1>1, <1>3 DEF RowsFit, RowFits, TypeOK
<1>5. \A p \in Pid : \A i \in DOMAIN samples : RowFits(p, samples[i][p])'
  BY <1>1, <1>2, <1>3 DEF RowsFit, RowFits
<1> QED BY <1>1, <1>4, <1>5 DEF RowsFit, Later

LEMMA StepRowsFit ==
  ASSUME TypeOK, RowsFit, [Next]_vars
  PROVE  RowsFit'
<1>1. CASE Walk
  <2> PICK found \in SUBSET Living : WalkFinds(found)
    BY <1>1 DEF Walk
  <2> DEFINE row == [p \in Pid |-> IF p \in found THEN RowOf(p) ELSE NoRow]
  <2>1. row \in [Pid -> RowType]
    BY DEF TypeOK, Process, RowOf, RowType, NoRow
  <2>2. \A p \in Pid : RowFits(p, row[p]) /\ \A r \in RowType : RowFits(p, r) => Later(r, row[p])
    BY FreshRow, NoRowFits DEF Living
  <2>3. samples' = Append(samples, row) /\ UNCHANGED <<procVars, latest>>
    BY DEF WalkFinds, recorderVars
  <2> QED BY <2>1, <2>2, <2>3, AppendedRowsFit
<1>2. CASE WalkFails
  <2> DEFINE row == [p \in Pid |-> NoRow]
  <2>1. row \in [Pid -> RowType]
    BY DEF RowType, NoRow
  <2>2. \A p \in Pid : RowFits(p, row[p]) /\ \A r \in RowType : RowFits(p, r) => Later(r, row[p])
    BY NoRowFits
  <2>3. samples' = Append(samples, row) /\ UNCHANGED <<procVars, latest>>
    BY <1>2 DEF WalkFails, recorderVars
  <2> QED BY <2>1, <2>2, <2>3, AppendedRowsFit
<1>3. CASE RecorderStart \/ RecorderReset
  <2>1. UNCHANGED <<table, cpuTotal, starts, samples>> /\ \A p \in Pid : latest'[p].start = 0
    BY <1>3 DEF RecorderStart, RecorderReset, procVars, NoRow
  <2> QED BY <2>1 DEF RowsFit, RowFits, Later
<1>4. CASE OnProcesses
  BY <1>4, ShiftedRowsFit
<1>5. CASE Kernel
  BY <1>5, KernelRowsFit
<1>6. CASE RecorderStop \/ UNCHANGED vars
  <2>1. UNCHANGED <<table, cpuTotal, starts, samples, latest>>
    BY <1>6 DEF RecorderStop, vars, procVars, recorderVars
  <2> QED BY <2>1 DEF RowsFit, RowFits, Later
<1> QED BY <1>1, <1>2, <1>3, <1>4, <1>5, <1>6 DEF Next

------------------------------------------------------------------------------
(* The accounts *)

\* One row against an account that stands where the pid's latest row stands.
LEMMA AccountCharges ==
  ASSUME NEW a \in AccType, NEW old \in RowType, NEW row \in RowType,
         a.base <= a.last, row.start # 0, old.start # 0,
         a.start = old.start, a.last = old.jiffies, Later(old, row)
  PROVE  /\ Account(a, row).start = row.start
         /\ Account(a, row).last = row.jiffies
         /\ Account(a, row).finished + Account(a, row).last - Account(a, row).base + old.total
              <= a.finished + a.last - a.base + row.total
<1> DEFINE b == Account(a, row)
<1>1. /\ a.finished \in Nat /\ a.last \in Nat /\ a.base \in Nat
      /\ old.total \in Nat /\ old.jiffies \in Nat
      /\ row.total \in Nat /\ row.jiffies \in Nat
  BY DEF AccType, RowType
<1>2. /\ old.total <= row.total
      /\ old.start = row.start => row.jiffies + old.total = old.jiffies + row.total
  BY DEF Later
<1>3. CASE Unused(a)
  <2>1. b = Opened(row, a.finished)
    BY <1>3 DEF Account
  <2>2. /\ b.start = row.start /\ b.last = row.jiffies /\ b.base = row.jiffies
        /\ b.finished = a.finished
    BY <2>1 DEF Opened
  <2> QED BY <1>1, <1>2, <1>3, <2>2 DEF Unused
<1>4. CASE ~Unused(a) /\ a.start # row.start
  <2>1. b = Opened(row, a.finished + (a.last - a.base))
    BY <1>4 DEF Account
  <2>2. /\ b.start = row.start /\ b.last = row.jiffies /\ b.base = row.jiffies
        /\ b.finished = a.finished + (a.last - a.base)
    BY <2>1 DEF Opened
  <2> QED BY <1>1, <1>2, <2>2
<1>5. CASE ~Unused(a) /\ a.start = row.start
  <2>1. b = [a EXCEPT !.last = Higher(a.last, row.jiffies)]
    BY <1>5 DEF Account
  <2>2. /\ b.start = a.start /\ b.last = Higher(a.last, row.jiffies) /\ b.base = a.base
        /\ b.finished = a.finished
    BY <2>1 DEF AccType
  <2>3. row.jiffies >= a.last /\ row.jiffies + old.total = a.last + row.total
    BY <1>1, <1>2, <1>5
  <2>4. b.last = row.jiffies
    BY <1>1, <2>2, <2>3 DEF Higher
  <2>5. b.start = row.start /\ b.base = a.base /\ b.finished = a.finished
    BY <1>5, <2>2
  <2> HIDE DEF b
  <2>6. b.finished + b.last - b.base + old.total <= a.finished + a.last - a.base + row.total
    BY <1>1, <2>3, <2>4, <2>5
  <2> QED BY <2>4, <2>5, <2>6 DEF b
<1> QED BY <1>3, <1>4, <1>5

LEMMA StepAccountsFit ==
  ASSUME TypeOK, RowsFit, AccountsFit, [Next]_vars
  PROVE  AccountsFit'
<1>1. CASE RecorderStart \/ RecorderReset
  BY <1>1 DEF RecorderStart, RecorderReset, AccountsFit, NoRow
<1>2. CASE OnProcesses /\ running
  <2> SUFFICES ASSUME NEW p \in Pid
               PROVE  IF latest'[p].start = 0
                        THEN acc'[p] = NoAcc /\ sight'[p].start = 0
                        ELSE /\ acc'[p].start = latest'[p].start
                             /\ acc'[p].last = latest'[p].jiffies
                             /\ sight'[p].start # 0
                             /\ Recorded(p)' + sight'[p].total <= latest'[p].total
    BY DEF AccountsFit
  <2> DEFINE row == samples[1][p]
  <2>1. /\ row \in RowType
        /\ acc'[p] = IF row.start # 0 THEN Account(acc[p], row) ELSE acc[p]
        /\ sight'[p] = IF sight[p].start = 0 THEN row ELSE sight[p]
        /\ latest'[p] = IF row.start = 0 THEN latest[p] ELSE row
    BY <1>2, Delivered
  <2>2. /\ acc[p] \in AccType /\ acc[p].base <= acc[p].last
        /\ sight[p] \in RowType /\ latest[p] \in RowType
    BY DEF TypeOK
  <2>3. IF latest[p].start = 0
          THEN acc[p] = NoAcc /\ sight[p].start = 0
          ELSE /\ acc[p].start = latest[p].start /\ acc[p].last = latest[p].jiffies
               /\ sight[p].start # 0
               /\ Recorded(p) + sight[p].total <= latest[p].total
    BY DEF AccountsFit
  <2>4. CASE row.start = 0
    <3>1. /\ acc'[p] = acc[p] /\ latest'[p] = latest[p]
          /\ sight'[p] = IF sight[p].start = 0 THEN row ELSE sight[p]
      BY <2>1, <2>4
    <3> QED BY <2>3, <2>4, <3>1 DEF Recorded
  <2>5. CASE row.start # 0 /\ latest[p].start = 0
    <3>1. acc'[p] = Opened(row, 0)
      BY <2>1, <2>3, <2>5 DEF Account, Unused, NoAcc
    <3>2. latest'[p] = row /\ sight'[p] = row
      BY <2>1, <2>3, <2>5
    <3>3. row.jiffies \in Nat /\ row.total \in Nat
      BY <2>1 DEF RowType
    <3> QED BY <2>5, <3>1, <3>2, <3>3 DEF Opened, Recorded
  <2>6. CASE row.start # 0 /\ latest[p].start # 0
    <3>1. acc'[p] = Account(acc[p], row) /\ latest'[p] = row /\ sight'[p] = sight[p]
      BY <2>1, <2>3, <2>6
    <3>2. Later(latest[p], row)
      <4>1. 1 \in DOMAIN samples
        BY <1>2, TailRow DEF TypeOK, OnProcesses
      <4> QED BY <4>1 DEF RowsFit
    <3>3. /\ acc'[p].start = row.start /\ acc'[p].last = row.jiffies
          /\ Recorded(p)' + latest[p].total <= Recorded(p) + row.total
      BY <2>1, <2>2, <2>3, <2>6, <3>1, <3>2, AccountCharges DEF Recorded
    <3>4. /\ Recorded(p) \in Int /\ Recorded(p)' \in Int
      <4>1. acc'[p] \in AccType
        BY <1>2, Delivered
      <4> QED BY <2>2, <4>1 DEF Recorded, AccType
    <3>5. latest[p].total \in Nat /\ row.total \in Nat /\ sight[p].total \in Nat
      BY <2>1, <2>2 DEF RowType
    <3> QED BY <2>3, <2>6, <3>1, <3>3, <3>4, <3>5
  <2> QED BY <2>4, <2>5, <2>6
<1>3. CASE UNCHANGED <<acc, sight, latest>>
  BY <1>3 DEF AccountsFit, Recorded
<1>4. \/ RecorderStart \/ RecorderReset \/ (OnProcesses /\ running)
      \/ UNCHANGED <<acc, sight, latest>>
  BY DEF Next, vars, recorderVars, Walk, WalkFinds, WalkFails, RecorderStop, OnProcesses, Kernel
<1> QED BY <1>1, <1>2, <1>3, <1>4

------------------------------------------------------------------------------
(* The names *)

LEMMA StepNames ==
  ASSUME TypeOK, CacheFits, NeverAnotherName, [Next]_vars
  PROVE  NeverAnotherName'
<1>1. CASE Walk
  <2> PICK found \in SUBSET Living : WalkFinds(found)
    BY <1>1 DEF Walk
  <2> DEFINE row == [p \in Pid |-> IF p \in found THEN RowOf(p) ELSE NoRow]
  <2>1. row \in [Pid -> RowType] /\ samples' = Append(samples, row)
    BY DEF WalkFinds, TypeOK, Process, RowOf, RowType, NoRow
  <2>2. \A p \in Pid : row[p].start # 0 => row[p].name \in row[p].names
    BY DEF RowOf, NoRow, CacheFits, Living
  <2>3. \A i \in DOMAIN samples' :
          \/ i \in DOMAIN samples /\ samples'[i] = samples[i]
          \/ samples'[i] = row
    BY <2>1, AppendRow, LenProperties DEF TypeOK
  <2> QED BY <2>2, <2>3 DEF NeverAnotherName
<1>2. CASE WalkFails
  <2> DEFINE row == [p \in Pid |-> NoRow]
  <2>1. row \in [Pid -> RowType] /\ samples' = Append(samples, row)
    BY <1>2 DEF WalkFails, RowType, NoRow
  <2>2. \A p \in Pid : row[p].start = 0
    BY DEF NoRow
  <2>3. \A i \in DOMAIN samples' :
          \/ i \in DOMAIN samples /\ samples'[i] = samples[i]
          \/ samples'[i] = row
    BY <2>1, AppendRow, LenProperties DEF TypeOK
  <2> QED BY <2>2, <2>3 DEF NeverAnotherName
<1>3. CASE OnProcesses
  <2>1. \A i \in DOMAIN samples' : i + 1 \in DOMAIN samples /\ samples'[i] = samples[i + 1]
    BY <1>3, TailRow DEF TypeOK, OnProcesses
  <2> QED BY <2>1 DEF NeverAnotherName
<1>4. CASE UNCHANGED samples
  BY <1>4 DEF NeverAnotherName
<1>5. Walk \/ WalkFails \/ OnProcesses \/ UNCHANGED samples
  BY DEF Next, vars, RecorderStart, RecorderStop, RecorderReset, Kernel
<1> QED BY <1>1, <1>2, <1>3, <1>4, <1>5

------------------------------------------------------------------------------
(* The theorems *)

\* The inductive invariant: cache, queued rows and accounts stay in step with
\* the history of every pid.
THEOREM RecordingInvariant == Spec => []IInv
<1>1. Init => IInv
  BY InitTypeOK, InitIInv DEF IInv
<1>2. IInv /\ [Next]_vars => IInv'
  <2> SUFFICES ASSUME IInv, [Next]_vars PROVE IInv'
    OBVIOUS
  <2>1. TypeOK /\ CacheFits /\ RowsFit /\ AccountsFit /\ NeverAnotherName
    BY DEF IInv
  <2>2. TypeOK'
    BY <2>1, StepTypeOK
  <2>3. CacheFits' /\ RowsFit' /\ AccountsFit' /\ NeverAnotherName'
    BY <2>1, StepCacheFits, StepRowsFit, StepAccountsFit, StepNames
  <2> QED BY <2>2, <2>3 DEF IInv
<1> QED BY <1>1, <1>2, PTL DEF Spec

\* The recording never shows more CPU time for a pid than its processes used
\* since the pid was first seen in it (Recorder::onProcesses).
THEOREM RecordingNoOverCount == Spec => []NoOverCount
<1>1. IInv => NoOverCount
  <2> SUFFICES ASSUME IInv, NEW p \in Pid
               PROVE  IF sight[p].start = 0
                        THEN Recorded(p) = 0
                        ELSE Recorded(p) + sight[p].total <= cpuTotal[p]
    BY DEF NoOverCount
  <2>1. IF latest[p].start = 0
          THEN acc[p] = NoAcc /\ sight[p].start = 0
          ELSE /\ sight[p].start # 0
               /\ Recorded(p) + sight[p].total <= latest[p].total
    BY DEF IInv, AccountsFit
  <2>2. latest[p].start # 0 => latest[p].total <= cpuTotal[p]
    BY DEF IInv, RowsFit, RowFits
  <2>3. /\ cpuTotal[p] \in Nat /\ latest[p].total \in Nat /\ sight[p].total \in Nat
        /\ Recorded(p) \in Int
    BY DEF IInv, TypeOK, RowType, AccType, Recorded
  <2>4. acc[p] = NoAcc => Recorded(p) = 0
    BY DEF Recorded, NoAcc
  <2> QED BY <2>1, <2>2, <2>3, <2>4
<1> QED BY <1>1, RecordingInvariant, PTL

\* A row never carries the name of an earlier process with its pid
\* (Sampler::sampleProcesses and its cache).
THEOREM RecordingNames == Spec => []NeverAnotherName
<1>1. IInv => NeverAnotherName
  BY DEF IInv
<1> QED BY <1>1, RecordingInvariant, PTL

\* While a recording runs no pid's figure goes down (Recorder::onProcesses).
THEOREM RecordingGrows == Spec => RecordedNeverShrinks
<1>1. TypeOK /\ [Next]_vars
        => [running /\ running' => \A p \in Pid : Recorded(p)' >= Recorded(p)]_vars
  <2> SUFFICES ASSUME TypeOK, Next, running, running', NEW p \in Pid
               PROVE  Recorded(p)' >= Recorded(p)
    OBVIOUS
  <2>1. acc[p] \in AccType /\ acc[p].base <= acc[p].last /\ Recorded(p) \in Int
    BY DEF TypeOK, AccType, Recorded
  <2>2. CASE OnProcesses
    <3>1. /\ samples[1][p] \in RowType
          /\ acc'[p] = IF samples[1][p].start # 0 THEN Account(acc[p], samples[1][p])
                                                 ELSE acc[p]
      BY <2>2, Delivered
    <3>2. CASE samples[1][p].start # 0
      BY <2>1, <3>1, <3>2, AccountGrows DEF Recorded
    <3>3. CASE samples[1][p].start = 0
      BY <2>1, <3>1, <3>3 DEF Recorded
    <3> QED BY <3>2, <3>3
  <2>3. CASE UNCHANGED acc
    BY <2>1, <2>3 DEF Recorded
  <2>4. OnProcesses \/ UNCHANGED acc
    BY DEF Next, Walk, WalkFinds, WalkFails, RecorderStart, RecorderStop, RecorderReset,
           Kernel, recorderVars
  <2> QED BY <2>2, <2>3, <2>4
<1> QED BY <1>1, RecordingTypeOK, PTL DEF Spec, RecordedNeverShrinks

------------------------------------------------------------------------------
(* The refinement of Ledger *)

\* A figure is a number, within what its pid has used.
Covered == \A p \in Pid : Recorded(p) \in Nat /\ Recorded(p) <= cpuTotal[p]

LEMMA FiguresCovered == IInv => Covered
<1> SUFFICES ASSUME IInv, NEW p \in Pid
             PROVE  Recorded(p) \in Nat /\ Recorded(p) <= cpuTotal[p]
  BY DEF Covered
<1>1. /\ acc[p] \in AccType /\ acc[p].base <= acc[p].last
      /\ latest[p] \in RowType /\ sight[p] \in RowType /\ cpuTotal[p] \in Nat
  BY DEF IInv, TypeOK
<1>2. Recorded(p) \in Nat
  BY <1>1 DEF Recorded, AccType
<1>3. CASE latest[p].start = 0
  <2>1. Recorded(p) = 0
    BY <1>3 DEF IInv, AccountsFit, NoAcc, Recorded
  <2> QED BY <1>1, <2>1
<1>4. CASE latest[p].start # 0
  <2>1. Recorded(p) + sight[p].total <= latest[p].total
    BY <1>4 DEF IInv, AccountsFit
  <2>2. latest[p].total <= cpuTotal[p]
    BY <1>4 DEF IInv, RowsFit, RowFits
  <2>3. sight[p].total \in Nat /\ latest[p].total \in Nat
    BY <1>1 DEF RowType
  <2> QED BY <1>1, <1>2, <2>1, <2>2, <2>3
<1> QED BY <1>3, <1>4

LEMMA LedgerInit == Init => L!Init
<1> SUFFICES ASSUME Init PROVE L!Init
  OBVIOUS
<1>1. ASSUME NEW p \in Pid PROVE Recorded(p) = 0
  <2>1. acc[p] = NoAcc
    BY DEF Init
  <2> QED BY <2>1 DEF Recorded, NoAcc
<1> QED BY <1>1 DEF Init, ProcInit, L!Init, L!Nothing

\* Emptied accounts are an empty ledger.
LEMMA Emptied ==
  ASSUME acc' = [p \in Pid |-> NoAcc]
  PROVE  [p \in Pid |-> Recorded(p)]' = L!Nothing
<1>1. \A p \in Pid : Recorded(p)' = 0
  BY DEF Recorded, NoAcc
<1> QED BY <1>1 DEF L!Nothing

\* A delivery charges every pid with no more than it has used.
LEMMA DeliveryCharges ==
  ASSUME IInv, IInv', OnProcesses, running
  PROVE  L!Charge
<1>1. running' = running /\ cpuTotal' = cpuTotal
  BY DEF OnProcesses, procVars
<1>2. \A p \in Pid : Recorded(p)' \in Nat /\ Recorded(p)' <= cpuTotal[p]
  <2>1. Covered'
    BY FiguresCovered, PTL
  <2> QED BY <1>1, <2>1 DEF Covered
<1>3. ASSUME NEW p \in Pid PROVE Recorded(p) <= Recorded(p)'
  <2>1. acc[p] \in AccType /\ acc[p].base <= acc[p].last
    BY DEF IInv, TypeOK
  <2>2. /\ samples[1][p] \in RowType
        /\ acc'[p] = IF samples[1][p].start # 0 THEN Account(acc[p], samples[1][p])
                                               ELSE acc[p]
    BY Delivered DEF IInv
  <2>3. CASE samples[1][p].start # 0
    <3>1. /\ Account(acc[p], samples[1][p]).finished + Account(acc[p], samples[1][p]).last
               - Account(acc[p], samples[1][p]).base
             >= acc[p].finished + acc[p].last - acc[p].base
      BY <2>1, <2>2, AccountGrows
    <3>2. Recorded(p)' >= Recorded(p)
      BY <2>2, <2>3, <3>1 DEF Recorded
    <3>3. Recorded(p) \in Nat /\ Recorded(p)' \in Nat
      BY <1>2, FiguresCovered DEF Covered
    <3> QED BY <3>2, <3>3
  <2>4. CASE samples[1][p].start = 0
    BY <2>1, <2>2, <2>4 DEF Recorded, AccType
  <2> QED BY <2>3, <2>4
<1>4. [p \in Pid |-> Recorded(p)]' \in [Pid -> Nat]
  BY <1>2
<1> QED BY <1>1, <1>2, <1>3, <1>4 DEF L!Charge

\* CPU time used is the only thing the kernel does that the ledger sees.
LEMMA KernelUses ==
  ASSUME Kernel
  PROVE  (\E p \in Pid : L!Use(p)) \/ UNCHANGED <<running, acc, cpuTotal>>
<1>1. UNCHANGED <<running, acc>>
  BY DEF Kernel, recorderVars
<1>2. [p \in Pid |-> Recorded(p)]' = [p \in Pid |-> Recorded(p)]
  BY <1>1 DEF Recorded
<1>3. ASSUME NEW p \in Pid, UseCpu(p) PROVE L!Use(p)
  BY <1>1, <1>2, <1>3 DEF UseCpu, L!Use
<1>4. (\E p \in Pid : UseCpu(p)) \/ cpuTotal' = cpuTotal
  BY DEF Kernel, Fork, Exec, Exit
<1> QED BY <1>1, <1>3, <1>4

LEMMA LedgerStep == IInv /\ IInv' /\ [Next]_vars => [L!Next]_L!vars
<1> SUFFICES ASSUME IInv, IInv', [Next]_vars PROVE [L!Next]_L!vars
  OBVIOUS
<1>1. CASE RecorderStart
  <2>1. L!Open
    BY <1>1, Emptied DEF RecorderStart, procVars, L!Open
  <2> QED BY <2>1 DEF L!Next
<1>2. CASE RecorderReset
  <2>1. L!Clear
    BY <1>2, Emptied DEF RecorderReset, procVars, L!Clear
  <2> QED BY <2>1 DEF L!Next
<1>3. CASE RecorderStop
  <2>1. [p \in Pid |-> Recorded(p)]' = [p \in Pid |-> Recorded(p)]
    BY <1>3 DEF RecorderStop, Recorded
  <2>2. L!Close
    BY <1>3, <2>1 DEF RecorderStop, procVars, L!Close
  <2> QED BY <2>2 DEF L!Next
<1>4. CASE OnProcesses /\ running
  BY <1>4, DeliveryCharges DEF L!Next
<1>5. CASE UNCHANGED <<running, acc, cpuTotal>>
  <2>1. [p \in Pid |-> Recorded(p)]' = [p \in Pid |-> Recorded(p)]
    BY <1>5 DEF Recorded
  <2> QED BY <1>5, <2>1 DEF L!vars
<1>6. CASE Kernel
  BY <1>5, <1>6, KernelUses DEF L!Next
<1>7. \/ RecorderStart \/ RecorderReset \/ RecorderStop \/ (OnProcesses /\ running)
      \/ Kernel \/ UNCHANGED <<running, acc, cpuTotal>>
  BY DEF Next, vars, procVars, recorderVars, Walk, WalkFinds, WalkFails, OnProcesses
<1> QED BY <1>1, <1>2, <1>3, <1>4, <1>5, <1>6, <1>7

\* A recording implements the ledger (recorder.cpp with the sampler in front
\* of it): every step opens, closes, clears or charges it, uses CPU time, or
\* leaves it alone.
THEOREM RecordingImplementsLedger == Spec => ImplementsLedger
  BY LedgerInit, LedgerStep, RecordingInvariant, PTL DEF Spec, ImplementsLedger, L!Spec
==============================================================================
