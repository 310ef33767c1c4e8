------------------------------ MODULE ChargerLog ------------------------------
(***************************************************************************)
(* The filter in front of the charger's timeline (chargerlog.h): the lines  *)
(* of the kernel's ring buffer that speak of charging, with repeats counted *)
(* on an earlier line, and of a long list the lines around the last plug    *)
(* and the newest ones.  One step reads one line that the word lists let    *)
(* through, so every state stands for one content of the buffer; which      *)
(* words those are is left out.                                             *)
(***************************************************************************)
EXTENDS Integers, Sequences

CONSTANTS
  Kind,       \* lines that differ in more than their time stamp
  Attach,     \* those that name an attach
  Lookback,   \* how far back a repeat is counted (12 in the code)
  KeepLines,  \* how many lines are kept (90)
  RunUp,      \* lines kept before the attach (10)
  MaxLines    \* bound: lines read

\* The lines from the attach on, when not everything fits.
HeadLines == (KeepLines * 2) \div 3
TailLines == KeepLines - HeadLines

\* The numbers fit each other: the run-up leaves room for the attach itself, and
\* a repeat is counted no further back than the newest lines reach.
ASSUME ChargerAssumption ==
  /\ Lookback \in Nat \ {0} /\ KeepLines \in Nat /\ RunUp \in Nat /\ MaxLines \in Nat
  /\ HeadLines \in Nat /\ RunUp < HeadLines /\ Lookback <= TailLines
  /\ Attach \subseteq Kind

VARIABLES
  out,      \* out, norm and reps: [kind, reps]
  lines,    \* how many lines were let through (history)
  newest,   \* where the last of them is counted, 0 before the first (history)
  attached  \* where the last one that names an attach is counted, 0 before (history)

logVars == <<out, lines, newest, attached>>

EntryType == [kind : Kind, reps : Nat]

LogInit == out = <<>> /\ lines = 0 /\ newest = 0 /\ attached = 0

\* The last dozen lines.
Within(b) == b > Len(out) - Lookback

SameLine(k) == {b \in DOMAIN out : Within(b) /\ out[b].kind = k}

\* Where the line just read is counted.
CountedAt(place, k) ==
  /\ newest' = place
  /\ attached' = IF k \in Attach THEN place ELSE attached

\* The nearest line that says the same counts it.
Repeated(k) ==
  \E b \in SameLine(k) :
    /\ \A c \in SameLine(k) : c <= b
    /\ out' = [out EXCEPT ![b].reps = @ + 1]
    /\ CountedAt(b, k)

NewLine(k) ==
  /\ SameLine(k) = {}
  /\ out' = Append(out, [kind |-> k, reps |-> 1])
  /\ CountedAt(Len(out) + 1, k)

ReadLine(k) ==
  /\ lines < MaxLines
  /\ lines' = lines + 1
  /\ Repeated(k) \/ NewLine(k)

LogNext == \E k \in Kind : ReadLine(k)

LogSpec == LogInit /\ [][LogNext]_logVars
------------------------------------------------------------------------------
(* What is handed on *)

\* The last line that names an attach, or 0.
IsLastAttach(a) ==
  /\ a \in 0 .. Len(out)
  /\ a # 0 => out[a].kind \in Attach
  /\ \A i \in DOMAIN out : out[i].kind \in Attach => i <= a

\* A slip: the list is searched from its front.
FirstAttach ==
  CHOOSE a \in 0 .. Len(out) :
    /\ a = 0 <=> \A i \in DOMAIN out : out[i].kind \notin Attach
    /\ a # 0 => out[a].kind \in Attach /\ \A i \in 1 .. a - 1 : out[i].kind \notin Attach

LastAttach == CHOOSE a \in 0 .. Len(out) : IsLastAttach(a)

WindowStart == IF LastAttach > RunUp THEN LastAttach - RunUp ELSE 1

\* So many places of the list from this one on.
Places(first, howMany) == [i \in 1 .. howMany |-> first + i - 1]

\* The places of the list that are kept, in their order.
Kept ==
  IF Len(out) <= KeepLines THEN Places(1, Len(out))
  ELSE IF LastAttach = 0 \/ Len(out) - WindowStart + 1 <= KeepLines
    THEN Places(Len(out) - KeepLines + 1, KeepLines)
  ELSE Places(WindowStart, HeadLines) \o Places(Len(out) - TailLines + 1, TailLines)
------------------------------------------------------------------------------
(* Properties *)

LogTypeOK ==
  /\ out \in Seq(EntryType) /\ lines \in Nat
  /\ newest \in 0 .. Len(out) /\ (newest = 0 <=> lines = 0)
  /\ attached \in 0 .. Len(out)

Keeps(place) == LET kept == Kept IN \E i \in DOMAIN kept : kept[i] = place

\* No attach stands further behind this place than the run-up reaches.
NearLastAttach(place) ==
  \A a \in DOMAIN out : out[a].kind \in Attach => a <= place + RunUp

\* The page says of the excerpt: "the charger lines around the moment this
\* charger was attached, and the newest ones".  However the lines repeat, the
\* line that counts the newest one is kept, and so is the one that counts the
\* last attach read, unless a repeat of that attach was counted on a line that
\* the run-up before another attach does not reach back to.
WindowKeepsEnds ==
  /\ newest # 0 => Keeps(newest)
  /\ attached # 0 /\ NearLastAttach(attached) => Keeps(attached)

\* The inductive invariant behind it: a repeat is counted no further back than
\* the look-back, so no attach stands further behind the one read last.
LogIInv ==
  /\ LogTypeOK
  /\ newest # 0 => newest > Len(out) - Lookback
  /\ Len(out) # 0 => newest # 0
  /\ \E a \in 0 .. Len(out) : IsLastAttach(a)
  /\ attached # 0 => out[attached].kind \in Attach
  /\ \A a \in DOMAIN out :
       out[a].kind \in Attach => attached # 0 /\ a < attached + Lookback
==============================================================================
