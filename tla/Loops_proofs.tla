------------------------------ MODULE Loops_proofs ------------------------------
(***************************************************************************)
(* Proofs about the three components whose handlers loop over a sequence:   *)
(* the charger's log, the rate meters and the button test, for any values   *)
(* of their constants.  They share what the first part says of a loop.      *)
(***************************************************************************)
EXTENDS ChargerTimeline, RateMeters, KeyMon,
        SequenceTheorems, FiniteSetTheorems, WellFoundedInduction, TLAPS

(* Loops *)

\* A set of numbers that holds 0 and with each number the next, up to n, holds
\* all of them.  (The least number it misses would follow one it holds.)
LEMMA Climb ==
  ASSUME NEW n \in Nat, NEW T, 0 \in T, \A i \in 1 .. n : i - 1 \in T => i \in T
  PROVE  \A i \in 0 .. n : i \in T
<1> DEFINE gap == {i \in 0 .. n : i \notin T}
           R == OpToRel(<, Nat)
<1> SUFFICES ASSUME gap # {} PROVE FALSE
  OBVIOUS
<1>1. gap \subseteq Nat
  OBVIOUS
<1>2. PICK m \in gap : \A k \in gap : <<k, m>> \notin R
  <2> HIDE DEF gap, R
  <2>1. IsWellFoundedOn(R, Nat)
    BY NatLessThanWellFounded DEF R
  <2> QED BY <1>1, <2>1, WFMin
<1>3. m \in 0 .. n /\ m \notin T /\ m # 0
  BY <1>2
<1>4. m - 1 \notin gap
  <2>1. m - 1 \in Nat /\ m \in Nat /\ m - 1 < m
    BY <1>3
  <2>2. <<m - 1, m>> \in R
    BY <2>1 DEF OpToRel
  <2> QED BY <1>2, <2>2
<1>5. m - 1 \in T /\ m \in 1 .. n
  BY <1>3, <1>4
<1> QED BY <1>3, <1>5

\* What a loop leaves after each of its n turns, given its body at each turn as
\* a function on the values it keeps.
Turns(after, V, start, body, n) ==
  /\ after \in [0 .. n -> V]
  /\ after[0] = start
  /\ \A i \in 1 .. n : after[i] = body[i][after[i - 1]]

LEMMA TurnsExist ==
  ASSUME NEW n \in Nat, NEW V, NEW start \in V, NEW body \in [1 .. n -> [V -> V]]
  PROVE  \E after : Turns(after, V, start, body, n)
<1> DEFINE T == {m \in 0 .. n : \E after : Turns(after, V, start, body, m)}
<1>1. 0 \in T
  <2> DEFINE after == [i \in 0 .. 0 |-> start]
  <2>1. after[0] = start /\ after \in [0 .. 0 -> V]
    OBVIOUS
  <2>2. Turns(after, V, start, body, 0)
    BY <2>1 DEF Turns
  <2> QED BY <2>2
<1>2. ASSUME NEW m \in 1 .. n, m - 1 \in T PROVE m \in T
  <2>1. PICK before : Turns(before, V, start, body, m - 1)
    BY <1>2
  <2> DEFINE after == [i \in 0 .. m |-> IF i = m THEN body[m][before[m - 1]] ELSE before[i]]
  <2>2. m - 1 \in 0 .. m - 1 /\ before[m - 1] \in V
    BY <2>1 DEF Turns
  <2>3. body[m][before[m - 1]] \in V
    BY <2>2
  <2>4. \A i \in 0 .. m - 1 : i \in 0 .. m /\ i # m /\ before[i] \in V
    BY <2>1 DEF Turns
  <2>5. /\ \A i \in 0 .. m - 1 : after[i] = before[i]
        /\ after[m] = body[m][before[m - 1]]
    BY <2>4
  <2>6. \A i \in 0 .. m : after[i] \in V
    <3>1. \A i \in 0 .. m : i = m \/ i \in 0 .. m - 1
      OBVIOUS
    <3> HIDE DEF after
    <3> QED BY <2>3, <2>4, <2>5, <3>1
  <2>7. after[0] = start
    BY <2>1, <2>5 DEF Turns
  <2>10. after \in [0 .. m -> V]
    BY <2>6
  <2> HIDE DEF after
  <2>8. ASSUME NEW i \in 1 .. m PROVE after[i] = body[i][after[i - 1]]
    <3>1. CASE i = m
      BY <2>2, <2>5, <3>1
    <3>2. CASE i # m
      <4>1. i \in 1 .. m - 1 /\ i \in 0 .. m - 1 /\ i - 1 \in 0 .. m - 1
        BY <3>2
      <4> QED BY <2>1, <2>5, <4>1 DEF Turns
    <3> QED BY <3>1, <3>2
  <2>9. Turns(after, V, start, body, m)
    BY <2>7, <2>8, <2>10 DEF Turns
  <2> QED BY <2>9
<1> HIDE DEF T
<1>3. \A i \in 0 .. n : i \in T
  BY <1>1, <1>2, Climb
<1> QED BY <1>3 DEF T

\* Of two sequences joined, each has its part of the places.
LEMMA Joined ==
  ASSUME NEW S, NEW head \in Seq(S), NEW tail \in Seq(S)
  PROVE  /\ head \o tail \in Seq(S)
         /\ Len(head \o tail) = Len(head) + Len(tail)
         /\ DOMAIN (head \o tail) = 1 .. Len(head) + Len(tail)
         /\ \A i \in 1 .. Len(head) : (head \o tail)[i] = head[i]
         /\ \A i \in 1 .. Len(tail) : (head \o tail)[Len(head) + i] = tail[i]
<1> DEFINE both == head \o tail
<1>1. both \in Seq(S) /\ Len(both) = Len(head) + Len(tail)
  BY ConcatProperties
<1>2. \A i \in 1 .. Len(head) + Len(tail) :
        both[i] = IF i <= Len(head) THEN head[i] ELSE tail[i - Len(head)]
  BY ConcatProperties
<1>3. Len(head) \in Nat /\ Len(tail) \in Nat
  BY LenProperties
<1>4. DOMAIN both = 1 .. Len(both)
  BY <1>1, LenProperties
<1> HIDE DEF both
<1>5. \A i \in 1 .. Len(head) : both[i] = head[i]
  BY <1>2, <1>3
<1>6. ASSUME NEW i \in 1 .. Len(tail) PROVE both[Len(head) + i] = tail[i]
  <2> DEFINE j == Len(head) + i
  <2>1. j \in 1 .. Len(head) + Len(tail) /\ ~(j <= Len(head)) /\ j - Len(head) = i
    BY <1>3
  <2> HIDE DEF j
  <2>2. both[j] = tail[j - Len(head)]
    BY <1>2, <2>1
  <2> QED BY <2>1, <2>2 DEF j
<1> QED BY <1>1, <1>4, <1>5, <1>6 DEF both

\* Sums.  The sum of s is the last of any running total of s.
Running(total, s) ==
  /\ total[0] = 0
  /\ \A i \in 1 .. Len(s) : total[i] = total[i - 1] + s[i]

LEMMA RunningTotal ==
  ASSUME NEW s \in Seq(Int)
  PROVE  \E total \in [0 .. Len(s) -> Int] : Running(total, s) /\ Sum(s) = total[Len(s)]
<1> DEFINE n == Len(s)
           body == [i \in 1 .. n |-> [a \in Int |-> a + s[i]]]
           IsLoop(f) == f = [i \in 0 .. n |-> IF i = 0 THEN 0 ELSE f[i - 1] + s[i]]
           chosen == CHOOSE f : IsLoop(f)
<1>1. n \in Nat /\ \A i \in 1 .. n : s[i] \in Int
  BY LenProperties, ElementOfSeq
<1>2. body \in [1 .. n -> [Int -> Int]]
  BY <1>1
<1>3. PICK f : Turns(f, Int, 0, body, n)
  <2> HIDE DEF body, n
  <2>1. 0 \in Int
    OBVIOUS
  <2> QED BY <1>1, <1>2, <2>1, TurnsExist
<1>4. IsLoop(f)
  <2>1. \A i \in 1 .. n : i - 1 \in 0 .. n
    BY <1>1
  <2>2. \A i \in 1 .. n : f[i] = f[i - 1] + s[i]
    BY <1>3, <2>1 DEF Turns
  <2>3. f \in [0 .. n -> Int] /\ f[0] = 0
    BY <1>3 DEF Turns
  <2> QED BY <2>2, <2>3
<1>5. IsLoop(chosen)
  <2> HIDE DEF IsLoop
  <2> QED BY <1>4
<1>6. Sum(s) = chosen[n]
  BY DEF Sum, Loop
<1>7. \A i \in 0 .. n : chosen[i] = IF i = 0 THEN 0 ELSE chosen[i - 1] + s[i]
  <2> HIDE DEF chosen
  <2> QED BY <1>5 DEF IsLoop
<1> HIDE DEF chosen
<1>8. \A i \in 0 .. n : chosen[i] \in Int
  <2> DEFINE T == {i \in 0 .. n : chosen[i] \in Int}
  <2>1. 0 \in T
    BY <1>1, <1>7
  <2>2. ASSUME NEW i \in 1 .. n, i - 1 \in T PROVE i \in T
    BY <1>1, <1>7, <2>2
  <2>3. \A i \in 0 .. n : i \in T
    <3> HIDE DEF T, n
    <3> QED BY <1>1, <2>1, <2>2, Climb
  <2> QED BY <2>3
<1>9. chosen \in [0 .. n -> Int]
  <2> DEFINE g == [i \in 0 .. n |-> IF i = 0 THEN 0 ELSE chosen[i - 1] + s[i]]
  <2>1. chosen = g
    BY <1>5 DEF IsLoop
  <2>2. DOMAIN chosen = 0 .. n
    BY <2>1
  <2> QED BY <1>5, <1>8, <2>2 DEF IsLoop
<1>10. Running(chosen, s)
  BY <1>1, <1>7 DEF Running
<1> QED BY <1>6, <1>9, <1>10

LEMMA SumIs ==
  ASSUME NEW s \in Seq(Int), NEW total, Running(total, s)
  PROVE  Sum(s) = total[Len(s)]
<1> DEFINE n == Len(s)
<1>1. PICK f \in [0 .. n -> Int] : Running(f, s) /\ Sum(s) = f[n]
  BY RunningTotal
<1>2. n \in Nat
  BY LenProperties
<1> DEFINE T == {i \in 0 .. n : total[i] = f[i]}
<1>3. 0 \in T
  BY <1>1, <1>2 DEF Running
<1>4. ASSUME NEW i \in 1 .. n, i - 1 \in T PROVE i \in T
  BY <1>1, <1>2, <1>4 DEF Running
<1>5. \A i \in 0 .. n : i \in T
  <2> HIDE DEF T, n
  <2> QED BY <1>2, <1>3, <1>4, Climb
<1> QED BY <1>1, <1>2, <1>5

\* One more number at the end.
LEMMA SumAppend ==
  ASSUME NEW s \in Seq(Int), NEW t \in Seq(Int), Len(t) = Len(s) + 1,
         \A i \in 1 .. Len(s) : t[i] = s[i]
  PROVE  Sum(t) = Sum(s) + t[Len(t)]
<1> DEFINE n == Len(s)
<1>1. PICK f \in [0 .. n -> Int] : Running(f, s) /\ Sum(s) = f[n]
  BY RunningTotal
<1>2. n \in Nat /\ \A i \in 1 .. n + 1 : t[i] \in Int
  BY LenProperties, ElementOfSeq
<1> DEFINE g == [i \in 0 .. n + 1 |-> IF i = n + 1 THEN f[n] + t[n + 1] ELSE f[i]]
<1>3. g[0] = 0 /\ g[n + 1] = f[n] + t[n + 1] /\ \A i \in 0 .. n : g[i] = f[i]
  BY <1>1, <1>2 DEF Running
<1> HIDE DEF g
<1>4. ASSUME NEW i \in 1 .. n PROVE g[i] = g[i - 1] + t[i]
  <2>1. i \in 0 .. n /\ i - 1 \in 0 .. n
    BY <1>2
  <2> QED BY <1>1, <1>3, <2>1 DEF Running
<1>5. g[n + 1] = g[n] + t[n + 1]
  BY <1>2, <1>3
<1>6. Running(g, t)
  <2> HIDE DEF n
  <2>1. Len(t) = n + 1
    BY DEF n
  <2>2. ASSUME NEW i \in 1 .. n + 1 PROVE g[i] = g[i - 1] + t[i]
    <3>1. i \in 1 .. n \/ (i = n + 1 /\ i - 1 = n)
      BY <1>2
    <3> QED BY <1>4, <1>5, <3>1
  <2>3. g[0] = 0
    BY <1>3
  <2> QED BY <2>1, <2>2, <2>3 DEF Running
<1> QED BY <1>1, <1>2, <1>3, <1>6, SumIs

\* One number changed.
LEMMA SumChanged ==
  ASSUME NEW s \in Seq(Int), NEW t \in Seq(Int), Len(t) = Len(s),
         NEW b \in 1 .. Len(s), \A i \in 1 .. Len(s) : i # b => t[i] = s[i]
  PROVE  Sum(t) = Sum(s) + t[b] - s[b]
<1> DEFINE n == Len(s)
<1>1. PICK f \in [0 .. n -> Int] : Running(f, s) /\ Sum(s) = f[n]
  BY RunningTotal
<1>2. n \in Nat /\ \A i \in 1 .. n : s[i] \in Int /\ t[i] \in Int
  BY LenProperties, ElementOfSeq
<1> DEFINE g == [i \in 0 .. n |-> IF i >= b THEN f[i] + t[b] - s[b] ELSE f[i]]
<1>3. g[0] = 0 /\ \A i \in 0 .. n : g[i] = IF i >= b THEN f[i] + t[b] - s[b] ELSE f[i]
  BY <1>1, <1>2 DEF Running
<1> HIDE DEF g
<1>4. ASSUME NEW i \in 1 .. n PROVE g[i] = g[i - 1] + t[i]
  <2>1. i \in 0 .. n /\ i - 1 \in 0 .. n /\ i \in Int /\ b \in Int
    BY <1>2
  <2>2. f[i] = f[i - 1] + s[i]
    BY <1>1 DEF Running
  <2>3. f[i] \in Int /\ f[i - 1] \in Int
    BY <1>1, <2>1
  <2>4. s[i] \in Int /\ t[i] \in Int /\ s[b] \in Int /\ t[b] \in Int
    BY <1>2
  <2>5. /\ g[i] = IF i >= b THEN f[i] + t[b] - s[b] ELSE f[i]
        /\ g[i - 1] = IF i - 1 >= b THEN f[i - 1] + t[b] - s[b] ELSE f[i - 1]
    BY <1>3, <2>1
  <2>6. i # b => t[i] = s[i]
    OBVIOUS
  <2> HIDE DEF n
  <2>7. CASE i = b
    <3>1. g[i] = f[i] + t[b] - s[b] /\ g[i - 1] = f[i - 1]
      BY <2>1, <2>5, <2>7
    <3>2. f[i] = f[i - 1] + s[b] /\ t[i] = t[b]
      BY <2>2, <2>7
    <3>3. (f[i - 1] + s[b]) + t[b] - s[b] = f[i - 1] + t[b]
      <4> DEFINE y == f[i - 1]  z == s[b]  w == t[b]
      <4>1. y \in Int /\ z \in Int /\ w \in Int
        BY <2>3, <2>4
      <4> HIDE DEF y, z, w
      <4>2. (y + z) + w - z = y + w
        BY <4>1
      <4> QED BY <4>2 DEF y, z, w
    <3> QED BY <3>1, <3>2, <3>3
  <2>8. CASE i > b
    <3>1. g[i] = f[i] + t[b] - s[b] /\ g[i - 1] = f[i - 1] + t[b] - s[b] /\ t[i] = s[i]
      BY <2>1, <2>5, <2>6, <2>8
    <3>2. f[i] + t[b] - s[b] = (f[i - 1] + t[b] - s[b]) + s[i]
      <4> DEFINE y == f[i - 1]  z == s[i]  w == t[b]  v == s[b]
      <4>1. y \in Int /\ z \in Int /\ w \in Int /\ v \in Int
        BY <2>3, <2>4
      <4> HIDE DEF y, z, w, v
      <4>2. (y + z) + w - v = (y + w - v) + z
        BY <4>1
      <4> QED BY <2>2, <4>2 DEF y, z, w, v
    <3> QED BY <3>1, <3>2
  <2>9. CASE i < b
    <3>1. g[i] = f[i] /\ g[i - 1] = f[i - 1] /\ t[i] = s[i]
      BY <2>1, <2>5, <2>6, <2>9
    <3> QED BY <2>2, <2>3, <2>4, <3>1
  <2> QED BY <2>1, <2>7, <2>8, <2>9
<1>5. Running(g, t)
  <2>1. \A i \in 1 .. Len(t) : g[i] = g[i - 1] + t[i]
    BY <1>4
  <2> QED BY <1>3, <2>1 DEF Running
<1>6. Sum(t) = g[n]
  BY <1>5, SumIs
<1>7. n \in 0 .. n /\ n >= b
  BY <1>2
<1>8. g[n] = f[n] + t[b] - s[b]
  <2> HIDE DEF n
  <2> QED BY <1>3, <1>7
<1> QED BY <1>1, <1>6, <1>8

------------------------------------------------------------------------------
(* The charger's log *)

LEMMA LogInitIInv == LogInit => LogIInv
<1> SUFFICES ASSUME LogInit PROVE LogIInv
  OBVIOUS
<1>1. out = <<>> /\ lines = 0 /\ newest = 0 /\ attached = 0
  BY DEF LogInit
<1>2. out \in Seq(EntryType) /\ Len(out) = 0 /\ DOMAIN out = {}
  BY <1>1, EmptySeq
<1>3. IsLastAttach(0)
  BY <1>2 DEF IsLastAttach
<1> QED BY <1>1, <1>2, <1>3 DEF LogIInv, LogTypeOK

\* A repeat changes a count and nothing else of the list.
LEMMA RepeatedKeeps ==
  ASSUME LogIInv, NEW k \in Kind, Repeated(k)
  PROVE  /\ out' \in Seq(EntryType) /\ Len(out') = Len(out)
         /\ \A i \in DOMAIN out : out'[i].kind = out[i].kind
         /\ newest' \in DOMAIN out /\ newest' > Len(out) - Lookback
         /\ out[newest'].kind = k
         /\ attached' = IF k \in Attach THEN newest' ELSE attached
<1> USE ChargerAssumption
<1>1. PICK b \in SameLine(k) : /\ out' = [out EXCEPT ![b].reps = @ + 1] /\ newest' = b
                               /\ attached' = IF k \in Attach THEN b ELSE attached
  BY DEF Repeated, CountedAt
<1>2. b \in DOMAIN out /\ b > Len(out) - Lookback /\ out[b].kind = k
  BY <1>1 DEF SameLine, Within
<1>3. out \in Seq(EntryType) /\ DOMAIN out = 1 .. Len(out) /\ Len(out) \in Nat
  BY LenProperties DEF LogIInv, LogTypeOK
<1>4. out[b] \in EntryType
  BY <1>2, <1>3, ElementOfSeq
<1> DEFINE e == [out[b] EXCEPT !.reps = @ + 1]
<1>5. e \in EntryType /\ e.kind = out[b].kind
  BY <1>4 DEF EntryType
<1>6. out' = [out EXCEPT ![b] = e]
  BY <1>1, Zenon
<1>7. out' \in Seq(EntryType) /\ Len(out') = Len(out)
  BY <1>2, <1>3, <1>5, <1>6, ExceptSeq
<1>8. \A i \in DOMAIN out : out'[i].kind = out[i].kind
  BY <1>3, <1>5, <1>6
<1> QED BY <1>1, <1>2, <1>7, <1>8

\* A new line comes at the end.
LEMMA NewLineAppends ==
  ASSUME LogIInv, NEW k \in Kind, NewLine(k)
  PROVE  /\ out' \in Seq(EntryType) /\ Len(out') = Len(out) + 1
         /\ \A i \in DOMAIN out : out'[i] = out[i]
         /\ out'[Len(out) + 1].kind = k
         /\ newest' = Len(out) + 1
         /\ attached' = IF k \in Attach THEN Len(out) + 1 ELSE attached
<1> DEFINE e == [kind |-> k, reps |-> 1]
<1>1. e \in EntryType /\ e.kind = k
  BY DEF EntryType
<1>2. /\ out \in Seq(EntryType) /\ out' = Append(out, e) /\ newest' = Len(out) + 1
      /\ attached' = IF k \in Attach THEN Len(out) + 1 ELSE attached
  BY DEF NewLine, CountedAt, LogIInv, LogTypeOK
<1>3. /\ Append(out, e) \in Seq(EntryType) /\ Len(Append(out, e)) = Len(out) + 1
      /\ \A i \in 1 .. Len(out) : Append(out, e)[i] = out[i]
      /\ Append(out, e)[Len(out) + 1] = e
  BY <1>1, <1>2, AppendProperties
<1>4. DOMAIN out = 1 .. Len(out)
  BY <1>2, LenProperties
<1> QED BY <1>1, <1>2, <1>3, <1>4

LEMMA LogStepIInv == LogIInv /\ [LogNext]_logVars => LogIInv'
<1> SUFFICES ASSUME LogIInv, [LogNext]_logVars PROVE LogIInv'
  OBVIOUS
<1> USE ChargerAssumption
<1>1. /\ out \in Seq(EntryType) /\ lines \in Nat /\ newest \in 0 .. Len(out)
      /\ Len(out) \in Nat /\ DOMAIN out = 1 .. Len(out)
      /\ newest = 0 <=> lines = 0
      /\ attached \in 0 .. Len(out)
      /\ attached # 0 => out[attached].kind \in Attach
      /\ \A i \in DOMAIN out :
           out[i].kind \in Attach => attached # 0 /\ i < attached + Lookback
  BY LenProperties DEF LogIInv, LogTypeOK
<1>2. PICK a \in 0 .. Len(out) : IsLastAttach(a)
  BY DEF LogIInv
<1>3. ASSUME NEW k \in Kind, ReadLine(k), Repeated(k) PROVE LogIInv'
  <2>1. /\ out' \in Seq(EntryType) /\ Len(out') = Len(out)
        /\ \A i \in DOMAIN out : out'[i].kind = out[i].kind
        /\ newest' \in DOMAIN out /\ newest' > Len(out) - Lookback
        /\ out[newest'].kind = k
        /\ attached' = IF k \in Attach THEN newest' ELSE attached
    BY <1>3, RepeatedKeeps
  <2>2. lines' = lines + 1 /\ DOMAIN out' = DOMAIN out
    BY <1>1, <1>3, <2>1, LenProperties DEF ReadLine
  <2>3. IsLastAttach(a)'
    BY <1>1, <1>2, <2>1, <2>2 DEF IsLastAttach
  <2>4. LogTypeOK'
    BY <1>1, <2>1, <2>2 DEF LogTypeOK
  <2>5. attached' # 0 => out'[attached'].kind \in Attach
    BY <1>1, <2>1
  <2>6. \A i \in DOMAIN out' :
          out'[i].kind \in Attach => attached' # 0 /\ i < attached' + Lookback
    <3>1. CASE k \in Attach
      <4>1. attached' \in 1 .. Len(out) /\ attached' > Len(out) - Lookback
        BY <1>1, <2>1, <3>1
      <4> QED BY <1>1, <2>2, <4>1
    <3>2. CASE k \notin Attach
      BY <1>1, <2>1, <2>2, <3>2
    <3> QED BY <3>1, <3>2
  <2> QED BY <1>1, <2>1, <2>3, <2>4, <2>5, <2>6 DEF LogIInv
<1>4. ASSUME NEW k \in Kind, ReadLine(k), NewLine(k) PROVE LogIInv'
  <2>1. /\ out' \in Seq(EntryType) /\ Len(out') = Len(out) + 1
        /\ \A i \in DOMAIN out : out'[i] = out[i]
        /\ out'[Len(out) + 1].kind = k
        /\ newest' = Len(out) + 1
        /\ attached' = IF k \in Attach THEN Len(out) + 1 ELSE attached
    BY <1>4, NewLineAppends
  <2>2. lines' = lines + 1 /\ DOMAIN out' = 1 .. Len(out) + 1
    BY <1>1, <1>4, <2>1, LenProperties DEF ReadLine
  <2>3. PICK latest \in Nat : latest = IF k \in Attach THEN Len(out) + 1 ELSE a
    BY <1>1
  <2>4. LogTypeOK'
    BY <1>1, <2>1, <2>2 DEF LogTypeOK
  <2>5. latest \in 0 .. Len(out') /\ IsLastAttach(latest)'
    BY <1>1, <1>2, <2>1, <2>2, <2>3 DEF IsLastAttach
  <2>6. attached' # 0 => out'[attached'].kind \in Attach
    BY <1>1, <2>1
  <2>7. \A i \in DOMAIN out' :
          out'[i].kind \in Attach => attached' # 0 /\ i < attached' + Lookback
    <3>1. CASE k \in Attach
      BY <1>1, <2>1, <2>2, <3>1
    <3>2. CASE k \notin Attach
      BY <1>1, <2>1, <2>2, <3>2
    <3> QED BY <3>1, <3>2
  <2> QED BY <1>1, <2>1, <2>4, <2>5, <2>6, <2>7 DEF LogIInv
<1>5. CASE UNCHANGED logVars
  BY <1>5 DEF logVars, LogIInv, LogTypeOK, IsLastAttach
<1> QED BY <1>3, <1>4, <1>5 DEF LogNext, ReadLine

\* There is one last attach, so the choice of it is no choice.
LEMMA LastAttachIs ==
  ASSUME LogIInv
  PROVE  /\ LastAttach \in 0 .. Len(out) /\ IsLastAttach(LastAttach)
         /\ \A a \in DOMAIN out : IsLastAttach(a) => a = LastAttach
<1>1. \E a \in 0 .. Len(out) : IsLastAttach(a)
  BY DEF LogIInv
<1>2. LastAttach \in 0 .. Len(out) /\ IsLastAttach(LastAttach)
  BY <1>1 DEF LastAttach
<1>3. ASSUME NEW a \in DOMAIN out, IsLastAttach(a) PROVE a = LastAttach
  <2>1. DOMAIN out = 1 .. Len(out) /\ Len(out) \in Nat
    BY LenProperties DEF LogIInv, LogTypeOK
  <2>2. out[a].kind \in Attach
    BY <1>3, <2>1 DEF IsLastAttach
  <2>3. a <= LastAttach
    BY <1>2, <2>2 DEF IsLastAttach
  <2>4. LastAttach \in DOMAIN out /\ out[LastAttach].kind \in Attach
    BY <1>2, <2>1, <2>3 DEF IsLastAttach
  <2>5. LastAttach <= a
    BY <1>3, <2>4 DEF IsLastAttach
  <2> QED BY <1>2, <2>1, <2>3, <2>5
<1> QED BY <1>2, <1>3

\* Each place that is kept is a place of the list.
LEMMA KeptPlaces ==
  ASSUME LogIInv
  PROVE  Kept \in Seq(DOMAIN out)
<1> USE ChargerAssumption DEF TailLines
<1> DEFINE size == Len(out)
<1>1. LastAttach \in 0 .. size /\ size \in Nat /\ DOMAIN out = 1 .. size
  BY LastAttachIs, LenProperties DEF LogIInv, LogTypeOK
<1>2. WindowStart \in Nat /\ WindowStart >= 1
  BY <1>1 DEF WindowStart
<1>3. ASSUME NEW first \in Nat \ {0}, NEW howMany \in Nat, first + howMany <= size + 1
      PROVE  Places(first, howMany) \in Seq(1 .. size)
  <2>1. \A i \in 1 .. howMany : first + i - 1 \in 1 .. size
    BY <1>1, <1>3
  <2>2. [i \in 1 .. howMany |-> first + i - 1] \in Seq(1 .. size)
    <3> HIDE DEF size
    <3> QED BY <2>1, IsASeq
  <2> QED BY <2>2 DEF Places
<1>4. CASE size <= KeepLines
  <2>1. Places(1, size) \in Seq(1 .. size)
    BY <1>1, <1>3
  <2> QED BY <1>1, <1>4, <2>1 DEF Kept
<1>5. CASE size > KeepLines /\ (LastAttach = 0 \/ size - WindowStart + 1 <= KeepLines)
  <2>1. Kept = Places(size - KeepLines + 1, KeepLines)
    BY <1>1, <1>5 DEF Kept
  <2>2. size - KeepLines + 1 \in Nat \ {0} /\ size - KeepLines + 1 + KeepLines <= size + 1
    BY <1>1, <1>5
  <2>3. Places(size - KeepLines + 1, KeepLines) \in Seq(1 .. size)
    <3> HIDE DEF size
    <3> QED BY <1>3, <2>2
  <2> QED BY <1>1, <2>1, <2>3
<1>6. CASE size > KeepLines /\ LastAttach # 0 /\ size - WindowStart + 1 > KeepLines
  <2>1. Kept = Places(WindowStart, HeadLines) \o Places(size - TailLines + 1, TailLines)
    <3>1. ~(size <= KeepLines) /\ ~(LastAttach = 0 \/ size - WindowStart + 1 <= KeepLines)
      BY <1>1, <1>2, <1>6
    <3> QED BY <3>1, Zenon DEF Kept
  <2>2. TailLines \in Nat /\ HeadLines <= KeepLines
    BY DEF HeadLines
  <2>3. WindowStart \in Nat \ {0} /\ WindowStart + HeadLines <= size + 1
    BY <1>1, <1>2, <1>6, <2>2
  <2>4. size - TailLines + 1 \in Nat \ {0} /\ size - TailLines + 1 + TailLines <= size + 1
    BY <1>1, <1>6, <2>2
  <2>5. /\ Places(WindowStart, HeadLines) \in Seq(1 .. size)
        /\ Places(size - TailLines + 1, TailLines) \in Seq(1 .. size)
    <3> HIDE DEF size, TailLines
    <3> QED BY <1>3, <2>2, <2>3, <2>4
  <2> QED BY <1>1, <2>1, <2>5, ConcatProperties
<1>7. \/ size <= KeepLines
      \/ size > KeepLines /\ (LastAttach = 0 \/ size - WindowStart + 1 <= KeepLines)
      \/ size > KeepLines /\ LastAttach # 0 /\ size - WindowStart + 1 > KeepLines
  BY <1>1, <1>2
<1> QED BY <1>4, <1>5, <1>6, <1>7

\* A run of places has all of them.
LEMMA PlacesHave ==
  ASSUME NEW first \in Nat, NEW howMany \in Nat, NEW a \in first .. first + howMany - 1
  PROVE  /\ a - first + 1 \in DOMAIN Places(first, howMany)
         /\ Places(first, howMany)[a - first + 1] = a
BY DEF Places

\* The kept places hold the run-up and the attach behind it, and everything as
\* near to the end as a repeat is looked for.
LEMMA KeptEnds ==
  ASSUME LogIInv
  PROVE  /\ \A i \in 1 .. LastAttach : i + RunUp >= LastAttach => Keeps(i)
         /\ \A i \in 1 .. Len(out) : i > Len(out) - Lookback => Keeps(i)
<1> USE ChargerAssumption DEF TailLines
<1>1. LastAttach \in 0 .. Len(out) /\ Len(out) \in Nat
  BY LastAttachIs, LenProperties DEF LogIInv, LogTypeOK
<1> DEFINE end == LastAttach  size == Len(out)
<1>2. /\ WindowStart \in Nat
      /\ \A i \in 1 .. end : i + RunUp >= end => WindowStart <= i
      /\ end # 0 => end <= WindowStart + RunUp
      /\ WindowStart >= 1
  BY <1>1 DEF WindowStart
<1>3. CASE size <= KeepLines
  <2>1. Kept = Places(1, size)
    BY <1>1, <1>3 DEF Kept
  <2>2. \A i \in 1 .. size : Keeps(i)
    BY <1>1, <2>1, PlacesHave DEF Keeps
  <2> QED BY <1>1, <2>2
<1>4. CASE size > KeepLines /\ (end = 0 \/ size - WindowStart + 1 <= KeepLines)
  <2>1. Kept = Places(size - KeepLines + 1, KeepLines)
    BY <1>1, <1>4 DEF Kept
  <2>2. ASSUME NEW i \in size - KeepLines + 1 .. size PROVE Keeps(i)
    <3>1. size - KeepLines + 1 \in Nat /\ i \in size - KeepLines + 1 .. (size - KeepLines + 1) + KeepLines - 1
      BY <1>1, <1>4
    <3> HIDE DEF size
    <3> QED BY <2>1, <3>1, PlacesHave DEF Keeps
  <2>3. ASSUME NEW i \in 1 .. end, i + RunUp >= end PROVE i \in size - KeepLines + 1 .. size
    <3>1. WindowStart <= i /\ i \in Nat /\ i <= end /\ end # 0
      BY <1>1, <1>2, <2>3
    <3>2. size - WindowStart + 1 <= KeepLines
      BY <1>4, <3>1
    <3> QED BY <1>1, <1>2, <3>1, <3>2
  <2>4. \A i \in 1 .. size : i > size - Lookback => i \in size - KeepLines + 1 .. size
    BY <1>1 DEF HeadLines
  <2> QED BY <2>2, <2>3, <2>4
<1>5. CASE size > KeepLines /\ end # 0 /\ size - WindowStart + 1 > KeepLines
  <2> DEFINE head == Places(WindowStart, HeadLines)
             tail == Places(size - TailLines + 1, TailLines)
  <2>1. Kept = head \o tail
    <3>1. ~(size <= KeepLines) /\ ~(end = 0 \/ size - WindowStart + 1 <= KeepLines)
      BY <1>1, <1>2, <1>5
    <3> QED BY <3>1, Zenon DEF Kept
  <2>2. TailLines \in Nat /\ TailLines <= KeepLines
    BY DEF HeadLines
  <2>3. Len(head) = HeadLines /\ Len(tail) = TailLines
    BY <2>2 DEF Places
  <2>4. /\ DOMAIN (head \o tail) = 1 .. HeadLines + TailLines
        /\ \A i \in 1 .. HeadLines : (head \o tail)[i] = head[i]
        /\ \A i \in 1 .. TailLines : (head \o tail)[HeadLines + i] = tail[i]
    <3>1. head \in Seq(Int) /\ tail \in Seq(Int)
      BY <1>1, <1>2, <2>2 DEF Places
    <3> HIDE DEF head, tail, TailLines
    <3>2. /\ DOMAIN (head \o tail) = 1 .. Len(head) + Len(tail)
          /\ \A i \in 1 .. Len(head) : (head \o tail)[i] = head[i]
          /\ \A i \in 1 .. Len(tail) : (head \o tail)[Len(head) + i] = tail[i]
      BY <3>1, Joined
    <3> QED BY <2>3, <3>2, Zenon
  <2>5. ASSUME NEW i \in WindowStart .. WindowStart + HeadLines - 1 PROVE Keeps(i)
    <3> DEFINE j == i - WindowStart + 1
    <3>1. j \in 1 .. HeadLines
      BY <1>2
    <3>2. head[j] = i
      BY <1>2, PlacesHave
    <3> HIDE DEF head, tail, j, TailLines
    <3>3. (head \o tail)[j] = i /\ j \in 1 .. HeadLines + TailLines
      BY <2>2, <2>4, <3>1, <3>2
    <3> QED BY <2>1, <2>4, <3>3 DEF Keeps
  <2>6. ASSUME NEW i \in size - TailLines + 1 .. size PROVE Keeps(i)
    <3> DEFINE j == i - (size - TailLines + 1) + 1
    <3>1. size - TailLines + 1 \in Nat /\ j \in 1 .. TailLines
          /\ i \in size - TailLines + 1 .. (size - TailLines + 1) + TailLines - 1
      BY <1>1, <1>5, <2>2
    <3>2. tail[j] = i
      <4> HIDE DEF size, TailLines
      <4> QED BY <2>2, <3>1, PlacesHave
    <3> HIDE DEF head, tail, j
    <3>3. (head \o tail)[HeadLines + j] = i /\ HeadLines + j \in 1 .. HeadLines + TailLines
      BY <2>2, <2>4, <3>1, <3>2
    <3> QED BY <2>1, <2>4, <3>3 DEF Keeps
  <2>7. \A i \in 1 .. end : i + RunUp >= end => i \in WindowStart .. WindowStart + HeadLines - 1
    BY <1>1, <1>2, <1>5
  <2>8. \A i \in 1 .. size : i > size - Lookback => i \in size - TailLines + 1 .. size
    BY <1>1, <2>2
  <2> QED BY <2>5, <2>6, <2>7, <2>8
<1>6. \/ size <= KeepLines
      \/ size > KeepLines /\ (end = 0 \/ size - WindowStart + 1 <= KeepLines)
      \/ size > KeepLines /\ end # 0 /\ size - WindowStart + 1 > KeepLines
  BY <1>1, <1>2
<1> QED BY <1>3, <1>4, <1>5, <1>6

\* Every variable keeps its kind, a repeat is counted within the look-back, and
\* there is a last attach or none.
THEOREM ChargerInvariant == LogSpec => []LogIInv
  BY LogInitIInv, LogStepIInv, PTL DEF LogSpec

\* What is kept of a list as the invariant has it.
LEMMA WindowKept ==
  ASSUME LogIInv
  PROVE  WindowKeepsEnds
<1> USE ChargerAssumption
<1>1. /\ DOMAIN out = 1 .. Len(out) /\ Len(out) \in Nat
      /\ attached \in 0 .. Len(out)
      /\ attached # 0 => out[attached].kind \in Attach
  BY LenProperties DEF LogIInv, LogTypeOK
<1>2. newest # 0 => Keeps(newest)
  BY KeptEnds DEF LogIInv, LogTypeOK
<1>3. ASSUME attached # 0, NearLastAttach(attached) PROVE Keeps(attached)
  <2>1. LastAttach \in 0 .. Len(out) /\ IsLastAttach(LastAttach)
    BY LastAttachIs
  <2>2. attached \in DOMAIN out /\ attached <= LastAttach
    BY <1>1, <1>3, <2>1 DEF IsLastAttach
  <2>3. LastAttach \in DOMAIN out /\ out[LastAttach].kind \in Attach
    BY <1>1, <2>1, <2>2 DEF IsLastAttach
  <2>4. LastAttach <= attached + RunUp
    BY <1>3, <2>3 DEF NearLastAttach
  <2> QED BY <1>1, <2>1, <2>2, <2>4, KeptEnds
<1> QED BY <1>2, <1>3 DEF WindowKeepsEnds

\* However the lines repeat and however long the list, what chargerLogLines
\* hands on holds the line that counts the newest one, and the line that counts
\* the last attach read if no attach stands further behind it than the run-up.
THEOREM ChargerWindow == LogSpec => []WindowKeepsEnds
<1>1. LogIInv => WindowKeepsEnds
  BY WindowKept
<1> QED BY <1>1, ChargerInvariant, PTL

\* With a run-up as long as the look-back less one (the code's is one line
\* shorter) the line that counts the last attach read is always handed on.
THEOREM ChargerAttachKept ==
  ASSUME Lookback <= RunUp + 1
  PROVE  LogSpec => [](attached # 0 => Keeps(attached))
<1>1. LogIInv => (attached # 0 => Keeps(attached))
  <2> SUFFICES ASSUME LogIInv, attached # 0 PROVE Keeps(attached)
    OBVIOUS
  <2>1. NearLastAttach(attached)
    <3>1. DOMAIN out = 1 .. Len(out) /\ Len(out) \in Nat /\ attached \in Nat
      BY LenProperties DEF LogIInv, LogTypeOK
    <3>2. \A a \in DOMAIN out : out[a].kind \in Attach => a < attached + Lookback
      BY DEF LogIInv
    <3> QED BY <3>1, <3>2, ChargerAssumption DEF NearLastAttach
  <2> QED BY <2>1, WindowKept DEF WindowKeepsEnds
<1> QED BY <1>1, ChargerInvariant, PTL

------------------------------------------------------------------------------
(* The charger's timeline *)

RepsOf(list) == [i \in DOMAIN list |-> list[i].reps]

LEMMA RepsAre ==
  ASSUME NEW list \in Seq(EntryType)
  PROVE  /\ RepsOf(list) \in Seq(Int) /\ Len(RepsOf(list)) = Len(list)
         /\ DOMAIN list = 1 .. Len(list) /\ Len(list) \in Nat
         /\ \A i \in 1 .. Len(list) : RepsOf(list)[i] = list[i].reps /\ list[i].reps \in Nat
<1>1. /\ DOMAIN list = 1 .. Len(list) /\ Len(list) \in Nat
      /\ \A i \in 1 .. Len(list) : list[i] \in EntryType
  BY LenProperties, ElementOfSeq
<1>2. \A i \in 1 .. Len(list) : list[i].reps \in Nat
  BY <1>1 DEF EntryType
<1>3. RepsOf(list) = [i \in 1 .. Len(list) |-> list[i].reps]
  BY <1>1 DEF RepsOf
<1> QED BY <1>1, <1>2, <1>3

LinesCounted == Sum(RepsOf(out)) = lines

\* The counts of the lines add up to the lines read: each step adds one to both.
LEMMA LinesCountedStep ==
  ASSUME LogIInv, LogIInv', LinesCounted, [LogNext]_logVars
  PROVE  LinesCounted'
<1> USE ChargerAssumption
<1>1. out \in Seq(EntryType) /\ out' \in Seq(EntryType) /\ lines \in Nat
  BY DEF LogIInv, LogTypeOK
<1> DEFINE s == RepsOf(out)  t == RepsOf(out')
<1>2. /\ s \in Seq(Int) /\ Len(s) = Len(out) /\ t \in Seq(Int) /\ Len(t) = Len(out')
      /\ DOMAIN out = 1 .. Len(out) /\ DOMAIN out' = 1 .. Len(out') /\ Len(out) \in Nat
      /\ \A i \in 1 .. Len(out) : s[i] = out[i].reps /\ out[i].reps \in Nat
      /\ \A i \in 1 .. Len(out') : t[i] = out'[i].reps /\ out'[i].reps \in Nat
  BY <1>1, RepsAre
<1> HIDE DEF s, t
<1>3. ASSUME NEW k \in Kind, ReadLine(k), Repeated(k) PROVE Sum(t) = lines'
  <2>1. PICK b \in SameLine(k) : out' = [out EXCEPT ![b].reps = @ + 1]
    BY <1>3 DEF Repeated
  <2>2. b \in DOMAIN out /\ Len(out') = Len(out)
    BY <1>3, <2>1, RepeatedKeeps DEF SameLine
  <2>3. out[b] \in EntryType
    BY <1>1, <1>2, <2>2, ElementOfSeq
  <2>4. out'[b].reps = out[b].reps + 1
    BY <2>1, <2>2, <2>3 DEF EntryType
  <2>5. \A i \in 1 .. Len(out) : i # b => out'[i] = out[i]
    BY <1>2, <2>1
  <2>6. Sum(t) = Sum(s) + t[b] - s[b]
    <3>1. s \in Seq(Int) /\ t \in Seq(Int) /\ Len(t) = Len(s) /\ b \in 1 .. Len(s)
      BY <1>2, <2>2
    <3>2. \A i \in 1 .. Len(s) : i # b => t[i] = s[i]
      BY <1>2, <2>2, <2>5
    <3> QED BY <3>1, <3>2, SumChanged
  <2>7. t[b] = s[b] + 1 /\ s[b] \in Nat
    BY <1>2, <2>2, <2>4
  <2>8. lines' = lines + 1 /\ Sum(s) = lines
    BY <1>3 DEF ReadLine, LinesCounted, s
  <2> QED BY <1>1, <2>6, <2>7, <2>8
<1>4. ASSUME NEW k \in Kind, ReadLine(k), NewLine(k) PROVE Sum(t) = lines'
  <2>1. /\ Len(out') = Len(out) + 1 /\ \A i \in DOMAIN out : out'[i] = out[i]
    BY <1>4, NewLineAppends
  <2>2. out' = Append(out, [kind |-> k, reps |-> 1])
    BY <1>4 DEF NewLine
  <2>3. out'[Len(out')].reps = 1
    BY <1>1, <2>1, <2>2, AppendProperties
  <2>4. Sum(t) = Sum(s) + t[Len(t)]
    <3>1. s \in Seq(Int) /\ t \in Seq(Int) /\ Len(t) = Len(s) + 1
      BY <1>2, <2>1
    <3>2. ASSUME NEW i \in 1 .. Len(s) PROVE t[i] = s[i]
      <4>1. i \in DOMAIN out /\ i \in 1 .. Len(out')
        BY <1>2, <2>1
      <4> QED BY <1>2, <2>1, <4>1
    <3> QED BY <3>1, <3>2, SumAppend
  <2>5. t[Len(t)] = 1
    BY <1>2, <2>1, <2>3
  <2>6. lines' = lines + 1 /\ Sum(s) = lines
    BY <1>4 DEF ReadLine, LinesCounted, s
  <2> QED BY <2>4, <2>5, <2>6
<1>5. ASSUME UNCHANGED logVars PROVE Sum(t) = lines'
  BY <1>5 DEF logVars, LinesCounted, s, t
<1>6. Sum(t) = lines'
  BY <1>3, <1>4, <1>5 DEF LogNext, ReadLine
<1> QED BY <1>6 DEF LinesCounted, t

RowType == [key : {Meaning[k] : k \in Kind} \ {Unread}, repeat : Int]

RepeatsOf(rows) == [i \in DOMAIN rows |-> rows[i].repeat]

LEMMA RepeatsAre ==
  ASSUME NEW rows \in Seq(RowType)
  PROVE  /\ RepeatsOf(rows) \in Seq(Int) /\ Len(RepeatsOf(rows)) = Len(rows)
         /\ DOMAIN rows = 1 .. Len(rows) /\ Len(rows) \in Nat
         /\ \A i \in 1 .. Len(rows) : /\ rows[i] \in RowType
                                      /\ RepeatsOf(rows)[i] = rows[i].repeat
                                      /\ rows[i].repeat \in Int
<1>1. /\ DOMAIN rows = 1 .. Len(rows) /\ Len(rows) \in Nat
      /\ \A i \in 1 .. Len(rows) : rows[i] \in RowType
  BY LenProperties, ElementOfSeq
<1>2. \A i \in 1 .. Len(rows) : rows[i].repeat \in Int
  BY <1>1 DEF RowType
<1>3. RepeatsOf(rows) = [i \in 1 .. Len(rows) |-> rows[i].repeat]
  BY <1>1 DEF RepeatsOf
<1> QED BY <1>1, <1>2, <1>3

\* What a line of the excerpt is worth to the rows.
Worth(entry) == IF Meaning[entry.kind] = Unread THEN 0 ELSE entry.reps

\* A line adds what it is worth to the rows' counts.
LEMMA FoldedCounts ==
  ASSUME NEW rows \in Seq(RowType), NEW entry \in EntryType
  PROVE  /\ Folded(rows, entry) \in Seq(RowType)
         /\ Sum(RepeatsOf(Folded(rows, entry))) = Sum(RepeatsOf(rows)) + Worth(entry)
<1> DEFINE key == Meaning[entry.kind]
           nearest == {b \in DOMAIN rows : IsNearest(rows, key, b)}
           new == Folded(rows, entry)
           s == RepeatsOf(rows)  t == RepeatsOf(new)
<1>1. entry.kind \in Kind /\ entry.reps \in Nat
  BY DEF EntryType
<1>2. /\ s \in Seq(Int) /\ Len(s) = Len(rows)
      /\ DOMAIN rows = 1 .. Len(rows) /\ Len(rows) \in Nat
      /\ \A i \in 1 .. Len(rows) : /\ rows[i] \in RowType
                                   /\ s[i] = rows[i].repeat
                                   /\ rows[i].repeat \in Int
  BY RepeatsAre
<1>3. CASE key = Unread
  <2>1. new = rows /\ Worth(entry) = 0
    BY <1>3 DEF Folded, Worth
  <2>2. Sum(s) \in Int
    BY <1>2, RunningTotal
  <2> QED BY <2>1, <2>2
<1>4. CASE key # Unread /\ nearest = {}
  <2> DEFINE row == [key |-> key, repeat |-> entry.reps]
  <2>1. new = Append(rows, row) /\ Worth(entry) = entry.reps
    BY <1>4 DEF Folded, Worth, Weight
  <2>2. row \in RowType
    BY <1>1, <1>4 DEF RowType
  <2>3. /\ new \in Seq(RowType) /\ Len(new) = Len(rows) + 1
        /\ \A i \in 1 .. Len(rows) : new[i] = rows[i]
        /\ new[Len(rows) + 1].repeat = entry.reps
    <3> HIDE DEF new, row
    <3>1. new[Len(rows) + 1] = row
      BY <2>1, <2>2, AppendProperties
    <3>2. row.repeat = entry.reps
      BY DEF row
    <3> QED BY <2>1, <2>2, <3>1, <3>2, AppendProperties
  <2> HIDE DEF new
  <2>4. /\ t \in Seq(Int) /\ Len(t) = Len(new)
        /\ \A i \in 1 .. Len(new) : t[i] = new[i].repeat
    BY <2>3, RepeatsAre
  <2> HIDE DEF s, t
  <2>5. Sum(t) = Sum(s) + t[Len(t)]
    BY <1>2, <2>3, <2>4, SumAppend
  <2> QED BY <1>2, <2>1, <2>3, <2>4, <2>5 DEF s, t, new
<1>5. CASE key # Unread /\ nearest # {}
  <2>1. PICK b \in nearest : TRUE
    BY <1>5
  <2>2. \A i \in DOMAIN rows : i \in nearest <=> i = b
    <3>1. \A i, j \in DOMAIN rows : ~(i < j /\ IsNearest(rows, key, i) /\ IsNearest(rows, key, j))
      BY <1>2 DEF IsNearest
    <3> QED BY <1>2, <2>1, <3>1
  <2> DEFINE more == [rows[b] EXCEPT !.repeat = @ + entry.reps]
  <2>3. b \in 1 .. Len(rows) /\ rows[b] \in RowType
    BY <1>2, <2>1
  <2>4. more \in RowType /\ more.repeat = rows[b].repeat + entry.reps
    BY <1>1, <2>3 DEF RowType
  <2>5. new = [i \in DOMAIN rows |-> IF i \in nearest
                  THEN [rows[i] EXCEPT !.repeat = @ + entry.reps] ELSE rows[i]]
    BY <1>5 DEF Folded, Counted, Weight
  <2>6. new[b] = more /\ \A i \in 1 .. Len(rows) : i # b => new[i] = rows[i]
    BY <1>2, <2>2, <2>3, <2>5
  <2>7. new \in Seq(RowType) /\ Len(new) = Len(rows)
    <3>1. \A i \in 1 .. Len(rows) : new[i] \in RowType
      <4> HIDE DEF new, more
      <4> QED BY <1>2, <2>4, <2>6
    <3>2. new = [i \in 1 .. Len(rows) |-> new[i]]
      BY <1>2, <2>5
    <3> HIDE DEF new
    <3> QED BY <1>2, <3>1, <3>2, IsASeq
  <2>8. Worth(entry) = entry.reps
    BY <1>5 DEF Worth
  <2> HIDE DEF new, more
  <2>9. /\ t \in Seq(Int) /\ Len(t) = Len(new)
        /\ \A i \in 1 .. Len(new) : t[i] = new[i].repeat
    BY <2>7, RepeatsAre
  <2> HIDE DEF s, t
  <2>10. Sum(t) = Sum(s) + t[b] - s[b]
    <3>1. s \in Seq(Int) /\ t \in Seq(Int) /\ Len(t) = Len(s) /\ b \in 1 .. Len(s)
      BY <1>2, <2>3, <2>7, <2>9
    <3>2. \A i \in 1 .. Len(s) : i # b => t[i] = s[i]
      BY <1>2, <2>6, <2>7, <2>9
    <3> QED BY <3>1, <3>2, SumChanged
  <2>11. t[b] = s[b] + entry.reps /\ s[b] \in Int
    BY <1>2, <2>3, <2>4, <2>6, <2>7, <2>9
  <2>12. Sum(s) \in Int
    BY <1>2, RunningTotal
  <2>13. Sum(t) = Sum(s) + entry.reps
    BY <1>1, <2>10, <2>11, <2>12
  <2> QED BY <2>7, <2>8, <2>13 DEF s, t, new
<1> QED BY <1>3, <1>4, <1>5

\* What stays in V when each turn's body stays there: a loop's values do.
LEMMA TurnsIn ==
  ASSUME NEW n \in Nat, NEW V, NEW after, after[0] \in V,
         \A i \in 1 .. n : after[i - 1] \in V => after[i] \in V
  PROVE  \A i \in 0 .. n : after[i] \in V
<1> DEFINE T == {i \in 0 .. n : after[i] \in V}
<1>1. 0 \in T
  OBVIOUS
<1>2. ASSUME NEW i \in 1 .. n, i - 1 \in T PROVE i \in T
  BY <1>2
<1>3. \A i \in 0 .. n : i \in T
  <2> HIDE DEF T
  <2> QED BY <1>1, <1>2, Climb
<1> QED BY <1>3

\* The loop over the excerpt, position by position.
LEMMA RowsRun ==
  ASSUME NEW excerpt \in Seq(EntryType)
  PROVE  \E after : /\ after[0] = <<>> /\ Rows(excerpt) = after[Len(excerpt)]
                    /\ \A i \in 1 .. Len(excerpt) :
                         after[i] = Folded(after[i - 1], excerpt[i])
<1> DEFINE n == Len(excerpt)
           V == Seq(RowType)
           body == [i \in 1 .. n |-> [rows \in V |-> Folded(rows, excerpt[i])]]
           IsLoop(f) == f = [i \in 0 .. n |->
                               IF i = 0 THEN <<>> ELSE Folded(f[i - 1], excerpt[i])]
           chosen == CHOOSE f : IsLoop(f)
<1>1. n \in Nat /\ \A i \in 1 .. n : excerpt[i] \in EntryType
  BY LenProperties, ElementOfSeq
<1>2. body \in [1 .. n -> [V -> V]]
  <2>1. \A i \in 1 .. n : \A rows \in V : Folded(rows, excerpt[i]) \in V
    BY <1>1, FoldedCounts
  <2> HIDE DEF n, V
  <2> QED BY <2>1
<1>3. PICK f : Turns(f, V, <<>>, body, n)
  <2>1. <<>> \in V
    BY EmptySeq
  <2> HIDE DEF body, n, V
  <2> QED BY <1>1, <1>2, <2>1, TurnsExist
<1>4. IsLoop(f)
  <2>1. \A i \in 1 .. n : i - 1 \in 0 .. n
    BY <1>1
  <2>2. f \in [0 .. n -> V] /\ f[0] = <<>>
    BY <1>3 DEF Turns
  <2>3. ASSUME NEW i \in 1 .. n PROVE f[i] = Folded(f[i - 1], excerpt[i])
    <3>1. f[i] = body[i][f[i - 1]]
      BY <1>3 DEF Turns
    <3>2. f[i - 1] \in V
      BY <2>1, <2>2
    <3> HIDE DEF V, n
    <3> QED BY <3>1, <3>2
  <2> HIDE DEF V, n
  <2> QED BY <2>2, <2>3
<1>5. IsLoop(chosen)
  <2> HIDE DEF IsLoop
  <2> QED BY <1>4
<1>6. Rows(excerpt) = chosen[n]
  BY DEF Rows, Loop
<1>7. \A i \in 0 .. n : chosen[i] = IF i = 0 THEN <<>> ELSE Folded(chosen[i - 1], excerpt[i])
  <2> HIDE DEF chosen
  <2> QED BY <1>5 DEF IsLoop
<1> HIDE DEF chosen
<1>8. chosen[0] = <<>> /\ \A i \in 1 .. n : chosen[i] = Folded(chosen[i - 1], excerpt[i])
  BY <1>1, <1>7
<1> QED BY <1>6, <1>8

\* The rows' counts add up to what the lines of the excerpt are worth.
LEMMA RowsCount ==
  ASSUME NEW excerpt \in Seq(EntryType)
  PROVE  /\ Rows(excerpt) \in Seq(RowType)
         /\ Sum(RepeatsOf(Rows(excerpt)))
              = Sum([i \in DOMAIN excerpt |-> Worth(excerpt[i])])
<1> DEFINE n == Len(excerpt)
           V == Seq(RowType)
           worths == [i \in DOMAIN excerpt |-> Worth(excerpt[i])]
<1>1. n \in Nat /\ DOMAIN excerpt = 1 .. n /\ \A i \in 1 .. n : excerpt[i] \in EntryType
  BY LenProperties, ElementOfSeq
<1>2. PICK after : /\ after[0] = <<>> /\ Rows(excerpt) = after[n]
                   /\ \A i \in 1 .. n : after[i] = Folded(after[i - 1], excerpt[i])
  BY RowsRun
<1>3. \A i \in 0 .. n : after[i] \in V
  <2>1. after[0] \in V
    BY <1>2, EmptySeq
  <2>2. \A i \in 1 .. n : after[i - 1] \in V => after[i] \in V
    BY <1>1, <1>2, FoldedCounts
  <2> HIDE DEF V, n
  <2> QED BY <1>1, <2>1, <2>2, TurnsIn
<1>4. worths \in Seq(Int) /\ Len(worths) = n /\ \A i \in 1 .. n : worths[i] = Worth(excerpt[i])
  <2>1. \A i \in 1 .. n : Worth(excerpt[i]) \in Int
    BY <1>1 DEF Worth, EntryType
  <2>2. worths = [i \in 1 .. n |-> Worth(excerpt[i])]
    BY <1>1
  <2> HIDE DEF n, worths
  <2> QED BY <1>1, <2>1, <2>2, IsASeq
<1> DEFINE total == [i \in 0 .. n |-> Sum(RepeatsOf(after[i]))]
<1>5. total[0] = 0 /\ total[n] = Sum(RepeatsOf(Rows(excerpt)))
  <2>1. RepeatsOf(<<>>) = <<>>
    BY DEF RepeatsOf
  <2>2. Sum(<<>>) = 0
    <3>1. <<>> \in Seq(Int) /\ Len(<<>>) = 0
      BY EmptySeq
    <3> QED BY <3>1, RunningTotal DEF Running
  <2> QED BY <1>1, <1>2, <2>1, <2>2
<1>6. ASSUME NEW i \in 1 .. n PROVE total[i] = total[i - 1] + worths[i]
  <2>1. i - 1 \in 0 .. n /\ i \in 0 .. n
    BY <1>1
  <2>2. Sum(RepeatsOf(after[i])) = Sum(RepeatsOf(after[i - 1])) + Worth(excerpt[i])
    BY <1>1, <1>2, <1>3, <2>1, FoldedCounts
  <2> HIDE DEF n
  <2> QED BY <1>4, <2>1, <2>2
<1>7. Running(total, worths)
  BY <1>4, <1>5, <1>6 DEF Running
<1>8. Sum(worths) = total[n]
  <2> HIDE DEF n, worths, total
  <2> QED BY <1>4, <1>7, SumIs
<1>9. n \in 0 .. n
  BY <1>1
<1> QED BY <1>2, <1>3, <1>5, <1>8, <1>9

\* The rows that are shown stand for all of them.
ShownFor(row) == IF row.key = Unread THEN row.repeat ELSE 1

LEMMA TimelineCount ==
  ASSUME NEW rows \in Seq(RowType)
  PROVE  Sum([i \in DOMAIN Timeline(rows) |-> ShownFor(Timeline(rows)[i])]) = Len(rows)
<1> USE TimelineAssumption
<1> DEFINE n == Len(rows)
<1>1. n \in Nat /\ DOMAIN rows = 1 .. n /\ \A i \in 1 .. n : rows[i] \in RowType
  BY LenProperties, ElementOfSeq
<1>2. \A i \in 1 .. n : ShownFor(rows[i]) = 1
  BY <1>1 DEF ShownFor, RowType
<1>3. CASE n <= FirstRows + LastRows + 1
  <2>1. Timeline(rows) = rows
    BY <1>3 DEF Timeline
  <2> DEFINE ones == [i \in DOMAIN rows |-> ShownFor(rows[i])]
             total == [i \in 0 .. n |-> i]
  <2>2. ones = [i \in 1 .. n |-> 1]
    BY <1>1, <1>2
  <2>3. ones \in Seq(Int) /\ Len(ones) = n /\ \A i \in 1 .. n : ones[i] = 1
    <3>1. \A i \in 1 .. n : 1 \in Int
      OBVIOUS
    <3> HIDE DEF n, ones
    <3> QED BY <1>1, <2>2, <3>1, IsASeq
  <2>4. Running(total, ones)
    <3>1. total[0] = 0
      BY <1>1
    <3> HIDE DEF ones
    <3>2. \A i \in 1 .. n : total[i] = total[i - 1] + ones[i]
      BY <1>1, <2>3
    <3> QED BY <2>3, <3>1, <3>2 DEF Running
  <2>5. Sum(ones) = total[n]
    <3> HIDE DEF ones, total
    <3> QED BY <2>3, <2>4, SumIs
  <2>6. total[n] = n
    BY <1>1
  <2> HIDE DEF total
  <2> QED BY <2>1, <2>5, <2>6
<1>4. CASE n > FirstRows + LastRows + 1
  <2> DEFINE head == SubSeq(rows, 1, FirstRows)
             row == [key |-> Unread, repeat |-> n - (FirstRows + LastRows)]
             end == SubSeq(rows, n - LastRows + 1, n)
             all == head \o <<row>> \o end
             m == FirstRows + LastRows + 1
             value == [i \in 1 .. m |-> IF i = FirstRows + 1 THEN n - (FirstRows + LastRows) ELSE 1]
             total == [i \in 0 .. m |-> IF i <= FirstRows THEN i
                                        ELSE i - 1 + (n - (FirstRows + LastRows))]
  <2>1. Timeline(rows) = all
    <3>1. ~(n <= FirstRows + LastRows + 1)
      BY <1>1, <1>4
    <3> QED BY <3>1 DEF Timeline
  <2>2. /\ Len(all) = m /\ DOMAIN all = 1 .. m
        /\ \A i \in 1 .. m : ShownFor(all[i]) = value[i]
    <3>1. /\ head \in Seq(RowType) /\ Len(head) = FirstRows
          /\ \A i \in 1 .. FirstRows : ShownFor(head[i]) = 1
      <4>1. FirstRows \in Nat /\ \A i \in 1 .. FirstRows : i \in 1 .. n
        BY <1>1, <1>4
      <4>2. head \in Seq(RowType) /\ Len(head) = FirstRows
        BY <1>1, <4>1, SubSeqProperties
      <4>3. ASSUME NEW i \in 1 .. FirstRows PROVE ShownFor(head[i]) = 1
        <5>1. head[i] = rows[i] /\ i \in 1 .. n
          BY <1>1, <4>1, SubSeqProperties
        <5> QED BY <1>2, <5>1
      <4> QED BY <4>2, <4>3
    <3>2. /\ end \in Seq(RowType) /\ Len(end) = LastRows
          /\ \A i \in 1 .. LastRows : ShownFor(end[i]) = 1
      <4> DEFINE begin == n - LastRows + 1
      <4>1. begin \in 1 .. n + 1 /\ n - begin + 1 = LastRows /\ LastRows \in Nat
        BY <1>1, <1>4
      <4> HIDE DEF begin
      <4>2. SubSeq(rows, begin, n) \in Seq(RowType) /\ Len(SubSeq(rows, begin, n)) = LastRows
        <5>1. \A i \in begin .. n : rows[i] \in RowType
          BY <1>1, <4>1
        <5>2. Len(SubSeq(rows, begin, n)) = IF begin <= n THEN n - begin + 1 ELSE 0
          BY <1>1, <4>1, <5>1, SubSeqProperties
        <5>3. SubSeq(rows, begin, n) \in Seq(RowType)
          BY <1>1, <4>1, <5>1, SubSeqProperties
        <5> QED BY <1>1, <4>1, <5>2, <5>3
      <4>3. ASSUME NEW i \in 1 .. LastRows PROVE ShownFor(SubSeq(rows, begin, n)[i]) = 1
        <5>1. begin + i - 1 \in 1 .. n
          BY <1>1, <4>1
        <5>2. SubSeq(rows, begin, n)[i] = rows[begin + i - 1]
          BY <1>1, <4>1, SubSeqProperties
        <5> QED BY <1>2, <5>1, <5>2
      <4> QED BY <4>2, <4>3 DEF begin
    <3>3. ShownFor(row) = n - (FirstRows + LastRows)
      BY DEF ShownFor
    <3> DEFINE S == [key : {Meaning[k] : k \in Kind} \cup {Unread}, repeat : Int]
    <3>4. head \in Seq(S) /\ <<row>> \in Seq(S) /\ end \in Seq(S)
      <4>1. Seq(RowType) \subseteq Seq(S)
        <5>1. RowType \subseteq S
          BY DEF RowType
        <5> HIDE DEF S
        <5> QED BY <5>1, SeqMonotonic
      <4>2. row \in S
        BY <1>1
      <4> HIDE DEF head, end, row, S
      <4> QED BY <3>1, <3>2, <4>1, <4>2
    <3> DEFINE first == head \o <<row>>
    <3>5. /\ first \in Seq(S) /\ Len(first) = FirstRows + 1
          /\ \A i \in 1 .. FirstRows : first[i] = head[i]
          /\ first[FirstRows + 1] = row
      <4> HIDE DEF head, row, S
      <4>1. Len(<<row>>) = 1 /\ <<row>>[1] = row
        OBVIOUS
      <4> QED BY <3>1, <3>4, <4>1, Joined
    <3> HIDE DEF first, S
    <3>6. /\ Len(first \o end) = m /\ DOMAIN (first \o end) = 1 .. m
          /\ \A i \in 1 .. FirstRows + 1 : (first \o end)[i] = first[i]
          /\ \A i \in 1 .. LastRows : (first \o end)[FirstRows + 1 + i] = end[i]
      <4>1. /\ Len(first \o end) = Len(first) + Len(end)
            /\ DOMAIN (first \o end) = 1 .. Len(first) + Len(end)
            /\ \A i \in 1 .. Len(first) : (first \o end)[i] = first[i]
            /\ \A i \in 1 .. Len(end) : (first \o end)[Len(first) + i] = end[i]
        <5> HIDE DEF end
        <5>1. first \in Seq(S) /\ end \in Seq(S)
          BY <3>4, <3>5
        <5> QED BY <5>1, Joined
      <4>2. Len(first) + Len(end) = m
        BY <3>2, <3>5
      <4> HIDE DEF end, m
      <4> QED BY <3>2, <3>5, <4>1, <4>2
    <3>7. all = first \o end
      BY DEF first
    <3> HIDE DEF head, end, row, n, all, m
    <3>8. ASSUME NEW i \in 1 .. FirstRows
          PROVE  ShownFor((first \o end)[i]) = 1 /\ value[i] = 1
      BY <3>1, <3>5, <3>6 DEF m
    <3>9. ShownFor((first \o end)[FirstRows + 1]) = value[FirstRows + 1]
      BY <3>3, <3>5, <3>6 DEF m
    <3>10. ASSUME NEW i \in 1 .. LastRows
           PROVE  /\ ShownFor((first \o end)[FirstRows + 1 + i]) = 1
                  /\ value[FirstRows + 1 + i] = 1
      BY <3>2, <3>6 DEF m
    <3>11. ASSUME NEW i \in 1 .. m PROVE ShownFor((first \o end)[i]) = value[i]
      <4>1. \/ i \in 1 .. FirstRows
            \/ i = FirstRows + 1
            \/ \E j \in 1 .. LastRows : i = FirstRows + 1 + j
        <5>1. i > FirstRows + 1 => /\ i - (FirstRows + 1) \in 1 .. LastRows
                                   /\ i = FirstRows + 1 + (i - (FirstRows + 1))
          BY DEF m
        <5> QED BY <5>1 DEF m
      <4> HIDE DEF value
      <4> QED BY <3>8, <3>9, <3>10, <4>1
    <3> QED BY <3>6, <3>7, <3>11
  <2>3. [i \in DOMAIN all |-> ShownFor(all[i])] = value
    <3> HIDE DEF all
    <3> QED BY <2>2
  <2>4. value \in Seq(Int) /\ Len(value) = m /\ m \in Nat
    BY <1>1
  <2>5. Running(total, value)
    <3>1. total[0] = 0
      OBVIOUS
    <3>2. ASSUME NEW i \in 1 .. m PROVE total[i] = total[i - 1] + value[i]
      BY <1>1
    <3> HIDE DEF total, value
    <3> QED BY <2>4, <3>1, <3>2 DEF Running
  <2>6. Sum(value) = total[m]
    <3> HIDE DEF value, total, m
    <3> QED BY <2>4, <2>5, SumIs
  <2>7. total[m] = n
    <3>1. m \in 0 .. m /\ ~(m <= FirstRows) /\ m - 1 + (n - (FirstRows + LastRows)) = n
      <4> HIDE DEF n
      <4> QED BY <1>1
    <3> HIDE DEF m, n
    <3> QED BY <3>1
  <2>8. Sum([i \in DOMAIN all |-> ShownFor(all[i])]) = n
    <3> HIDE DEF all, value, total, m, n
    <3> QED BY <2>3, <2>6, <2>7
  <2> HIDE DEF all
  <2> QED BY <2>1, <2>8
<1> QED BY <1>1, <1>3, <1>4

\* Every event the filter let through is counted once: by the lines of the list,
\* and, of those in the excerpt that can be read, by the rows; and the rows that
\* are shown say how many there are.
THEOREM TimelineCounts == LogSpec => []CountsAddUp
<1>1. LogInit => LinesCounted
  <2> SUFFICES ASSUME LogInit PROVE LinesCounted
    OBVIOUS
  <2>1. RepsOf(<<>>) = <<>>
    BY DEF RepsOf
  <2>2. <<>> \in Seq(Int) /\ Len(<<>>) = 0
    BY EmptySeq
  <2>3. Sum(<<>>) = 0
    BY <2>2, RunningTotal DEF Running
  <2> QED BY <2>1, <2>3 DEF LogInit, LinesCounted
<1>2. LogIInv /\ LogIInv' /\ LinesCounted /\ [LogNext]_logVars => LinesCounted'
  BY LinesCountedStep
<1>3. LogIInv /\ LinesCounted => CountsAddUp
  <2> SUFFICES ASSUME LogIInv, LinesCounted PROVE CountsAddUp
    OBVIOUS
  <2>1. Excerpt \in Seq(EntryType)
    <3>1. Kept \in Seq(DOMAIN out)
      BY KeptPlaces
    <3>2. /\ DOMAIN Kept = 1 .. Len(Kept) /\ Len(Kept) \in Nat
          /\ \A i \in 1 .. Len(Kept) : Kept[i] \in DOMAIN out
      BY <3>1, LenProperties, ElementOfSeq
    <3>3. \A a \in DOMAIN out : out[a] \in EntryType
      BY LenProperties, ElementOfSeq DEF LogIInv, LogTypeOK
    <3>4. \A i \in 1 .. Len(Kept) : out[Kept[i]] \in EntryType
      BY <3>2, <3>3
    <3>5. Excerpt = [i \in 1 .. Len(Kept) |-> out[Kept[i]]]
      BY <3>2, Zenon DEF Excerpt
    <3> QED BY <3>2, <3>4, <3>5, IsASeq
  <2>2. Sum([i \in DOMAIN out |-> out[i].reps]) = lines
    BY DEF LinesCounted, RepsOf
  <2>3. Sum([i \in DOMAIN Rows(Excerpt) |-> Rows(Excerpt)[i].repeat])
          = Sum([i \in DOMAIN Excerpt |-> IF Meaning[Excerpt[i].kind] = Unread
                                            THEN 0 ELSE Excerpt[i].reps])
    BY <2>1, RowsCount, Zenon DEF RepeatsOf, Worth
  <2>4. Sum([i \in DOMAIN Timeline(Rows(Excerpt)) |->
               IF Timeline(Rows(Excerpt))[i].key = Unread
                 THEN Timeline(Rows(Excerpt))[i].repeat ELSE 1])
          = Len(Rows(Excerpt))
    BY <2>1, RowsCount, TimelineCount, Zenon DEF ShownFor
  <2> QED BY <2>2, <2>3, <2>4, Zenon DEF CountsAddUp
<1> QED BY <1>1, <1>2, <1>3, ChargerInvariant, PTL DEF LogSpec

------------------------------------------------------------------------------
(* The rate meters *)

\* The numbers that Over adds up.
Parts(s, things, f) ==
  /\ s \in Seq(Int) /\ Len(s) = ThingCount
  /\ \A t \in Thing : s[t] = IF t \in things THEN f[t] ELSE 0

LEMMA OverIs ==
  ASSUME NEW things, NEW f \in [Thing -> Int]
  PROVE  \E s : Parts(s, things, f) /\ Over(things, f) = Sum(s)
<1> USE RateAssumption DEF Thing
<1> DEFINE s == [t \in Thing |-> IF t \in things THEN f[t] ELSE 0]
<1>1. \A t \in 1 .. ThingCount : (IF t \in things THEN f[t] ELSE 0) \in Int
  OBVIOUS
<1>2. s \in Seq(Int) /\ Len(s) = ThingCount
  BY <1>1, IsASeq
<1>3. Over(things, f) = Sum(s) /\ \A t \in Thing : s[t] = IF t \in things THEN f[t] ELSE 0
  BY DEF Over
<1> HIDE DEF s, Thing
<1>4. Parts(s, things, f)
  BY <1>2, <1>3 DEF Parts
<1> QED BY <1>3, <1>4

\* What is counted is not negative, and no more than each thing can count.
LEMMA OverBound ==
  ASSUME NEW things, NEW most \in Nat, NEW f \in [Thing -> 0 .. most]
  PROVE  Over(things, f) \in 0 .. ThingCount * most
<1> USE RateAssumption
<1> DEFINE n == ThingCount
<1>1. f \in [Thing -> Int] /\ \A t \in Thing : f[t] \in 0 .. most
  OBVIOUS
<1>2. PICK s : Parts(s, things, f) /\ Over(things, f) = Sum(s)
  BY <1>1, OverIs
<1>9. s \in Seq(Int) /\ Len(s) = n
  BY <1>2 DEF Parts
<1>3. ASSUME NEW t \in 1 .. n PROVE s[t] \in 0 .. most
  <2>1. t \in Thing /\ f[t] \in 0 .. most
    BY <1>1 DEF Thing
  <2> QED BY <1>2, <2>1 DEF Parts
<1>4. PICK total \in [0 .. n -> Int] : Running(total, s) /\ Sum(s) = total[n]
  BY <1>9, RunningTotal
<1> DEFINE T == {i \in 0 .. n : total[i] >= 0 /\ total[i] <= i * most}
<1>5. 0 \in T
  <2>1. total[0] = 0 /\ 0 * most = 0
    BY <1>4 DEF Running
  <2> QED BY <2>1
<1>6. ASSUME NEW i \in 1 .. n, i - 1 \in T PROVE i \in T
  <2>1. /\ total[i - 1] \in Int /\ total[i - 1] >= 0 /\ total[i - 1] <= (i - 1) * most
        /\ total[i] = total[i - 1] + s[i]
    <3>1. i - 1 \in 0 .. n
      OBVIOUS
    <3> QED BY <1>9, <1>4, <1>6, <3>1 DEF Running
  <2>2. i * most = (i - 1) * most + most
    OBVIOUS
  <2>3. s[i] \in Int /\ s[i] >= 0 /\ s[i] <= most
    BY <1>3
  <2>4. (i - 1) * most \in Int
    OBVIOUS
  <2>5. total[i] >= 0 /\ total[i] <= (i - 1) * most + most
    <3>1. \A x, y, z \in Int : /\ x >= 0 /\ z >= 0 => x + z >= 0
                               /\ x <= y /\ z <= most => x + z <= y + most
      OBVIOUS
    <3>2. total[i - 1] + s[i] >= 0 /\ total[i - 1] + s[i] <= (i - 1) * most + most
      <4> HIDE DEF n
      <4> QED BY <2>1, <2>3, <2>4, <3>1
    <3> QED BY <2>1, <3>2
  <2> QED BY <2>2, <2>5
<1>7. \A i \in 0 .. n : i \in T
  <2> HIDE DEF T
  <2> QED BY <1>5, <1>6, Climb
<1>8. total[n] \in Int /\ total[n] >= 0 /\ total[n] <= n * most
  BY <1>7
<1> QED BY <1>2, <1>4, <1>8

\* One more is counted of a thing.
LEMMA OverGrows ==
  ASSUME NEW things \in SUBSET Thing, NEW t \in things, NEW f \in [Thing -> Int],
         NEW g \in [Thing -> Int], g = [f EXCEPT ![t] = @ + 1]
  PROVE  Over(things, g) = Over(things, f) + 1
<1> USE RateAssumption
<1>1. PICK s : Parts(s, things, f) /\ Over(things, f) = Sum(s)
  BY OverIs
<1>2. PICK w : Parts(w, things, g) /\ Over(things, g) = Sum(w)
  BY OverIs
<1>3. t \in Thing /\ t \in 1 .. ThingCount /\ f[t] \in Int /\ g[t] = f[t] + 1
  BY DEF Thing
<1>4. /\ s \in Seq(Int) /\ w \in Seq(Int) /\ Len(s) = ThingCount /\ Len(w) = ThingCount
      /\ w[t] = f[t] + 1 /\ s[t] = f[t]
  BY <1>1, <1>2, <1>3 DEF Parts
<1>5. ASSUME NEW u \in 1 .. Len(s), u # t PROVE w[u] = s[u]
  <2>1. u \in Thing /\ g[u] = f[u]
    BY <1>4, <1>5 DEF Thing
  <2> QED BY <1>1, <1>2, <2>1 DEF Parts
<1>6. Sum(w) = Sum(s) + w[t] - s[t]
  <2>1. Len(w) = Len(s) /\ t \in 1 .. Len(s)
    BY <1>3, <1>4
  <2> QED BY <1>4, <1>5, <2>1, SumChanged
<1>7. Sum(s) \in Int
  BY <1>4, RunningTotal
<1> QED BY <1>1, <1>2, <1>3, <1>4, <1>6, <1>7

LEMMA OverNothing ==
  ASSUME NEW things, NEW f \in [Thing -> Int], \A t \in Thing : f[t] = 0
  PROVE  Over(things, f) = 0
<1>1. f \in [Thing -> 0 .. 0]
  OBVIOUS
<1>2. Over(things, f) \in 0 .. ThingCount * 0
  BY <1>1, OverBound
<1> QED BY <1>2, RateAssumption

LEMMA OverNat ==
  ASSUME NEW things, NEW most \in Nat, NEW f \in [Thing -> 0 .. most]
  PROVE  Over(things, f) \in Nat
<1>1. ThingCount * most \in Nat
  BY RateAssumption
<1> QED BY <1>1, OverBound

\* A difference that is there is shown as it is, and every one fits the screen.
LEMMA MinusIs ==
  ASSUME NEW a \in Int, NEW b \in Int
  PROVE  /\ Minus(a, b) \in 0 .. Modulus - 1
         /\ a - b \in 0 .. Modulus - 1 => Minus(a, b) = a - b
BY RateAssumption DEF Minus

LEMMA MinusGuardedIs ==
  ASSUME NEW a \in Int, NEW b \in Int
  PROVE  /\ MinusGuarded(a, b) \in 0 .. Modulus - 1
         /\ 0 <= a - b /\ a - b < Modulus => MinusGuarded(a, b) = a - b
         /\ a < b => MinusGuarded(a, b) = 0
<1>1. CASE a >= b
  <2>1. MinusGuarded(a, b) = Minus(a, b) /\ a - b >= 0
    BY <1>1 DEF MinusGuarded
  <2>2. a - b < Modulus => a - b \in 0 .. Modulus - 1
    BY <2>1, RateAssumption
  <2> QED BY <1>1, <2>1, <2>2, MinusIs
<1>2. CASE a < b
  <2>1. MinusGuarded(a, b) = 0
    BY <1>2 DEF MinusGuarded
  <2> QED BY <1>2, <2>1, RateAssumption
<1> QED BY <1>1, <1>2

\* What the meters show fits the screen: a core's, a thread's and the default
\* interface's figure is guarded, the others are taken modulo.
LEMMA TotalType ==
  ASSUME RateTypeOK, NEW read \in BOOLEAN
  PROVE  Total(read) \in Nat /\ \A t \in Thing : Counter(read, t) \in -1 .. MaxCount
<1> USE RateAssumption
<1>1. count \in [Thing -> 0 .. MaxCount] /\ route \in present \cup {0} /\ present \subseteq Thing
  BY DEF RateTypeOK
<1>2. Over(present, count) \in Nat
  BY <1>1, OverNat
<1>3. route # 0 => count[route] \in Nat
  <2>1. route # 0 => route \in Thing
    BY <1>1
  <2> QED BY <1>1, <2>1
<1>4. Total(read) \in Nat
  BY <1>2, <1>3 DEF Total
<1>5. \A t \in Thing : Counter(read, t) \in -1 .. MaxCount
  BY <1>1 DEF Counter
<1> QED BY <1>4, <1>5

LEMMA FigureType ==
  ASSUME RateTypeOK, NEW read \in BOOLEAN
  PROVE  /\ Figure(read) \in 0 .. Modulus - 1
         /\ \A t \in Thing : FigureOf(read, t) \in 0 .. Modulus - 1
<1> USE RateAssumption
<1>1. 0 \in 0 .. Modulus - 1
  OBVIOUS
<1>2. /\ Total(read) \in Int /\ prevSum \in Int
      /\ \A t \in Thing : Counter(read, t) \in Int /\ prevOf[t] \in Int
  <2>1. prevSum \in Nat /\ prevOf \in [Thing -> -1 .. MaxCount]
    BY DEF RateTypeOK
  <2> QED BY <2>1, TotalType
<1>3. Figure(read) \in 0 .. Modulus - 1
  BY <1>1, <1>2, MinusIs, MinusGuardedIs DEF Figure
<1>4. \A t \in Thing : FigureOf(read, t) \in 0 .. Modulus - 1
  BY <1>1, <1>2, MinusGuardedIs DEF FigureOf
<1> QED BY <1>3, <1>4

LEMMA RateInitIInv == RateInit => RateIInv
<1> SUFFICES ASSUME RateInit PROVE RateIInv
  OBVIOUS
<1> USE RateAssumption
<1>1. RateTypeOK
  <2>1. /\ 0 \in 0 .. Modulus - 1 /\ 0 \in 0 .. MaxCount /\ 0 \in 0 .. MaxGrowth
        /\ -1 \in -1 .. MaxCount /\ 0 \in Nat
    OBVIOUS
  <2>2. /\ count \in [Thing -> 0 .. MaxCount] /\ growth \in [Thing -> 0 .. MaxGrowth]
        /\ prevOf \in [Thing -> -1 .. MaxCount]
        /\ shown \in [Thing \cup {0} -> 0 .. Modulus - 1]
    BY <2>1 DEF RateInit
  <2> QED BY <2>1, <2>2 DEF RateInit, RateTypeOK
<1>2. EntryBehind /\ RouteBehind /\ SumBehind
  BY DEF RateInit, EntryBehind, RouteBehind, SumBehind
<1> QED BY <1>1, <1>2 DEF RateInit, RateIInv

LEMMA GrowsIInv ==
  ASSUME RateIInv, NEW t \in Thing, Grows(t)
  PROVE  RateIInv'
<1> USE RateAssumption
<1>1. /\ count' = [count EXCEPT ![t] = @ + 1] /\ growth' = [growth EXCEPT ![t] = @ + 1]
      /\ t \in present /\ growth[t] < MaxGrowth /\ count[t] < MaxCount
      /\ meter' = meter /\ present' = present /\ route' = route /\ moved' = moved
      /\ prevOf' = prevOf /\ prevRoute' = prevRoute /\ prevSum' = prevSum
      /\ started' = started /\ missed' = missed /\ dated' = dated /\ stopped' = stopped
      /\ shown' = shown
  BY DEF Grows, meterVars
<1>2. /\ count \in [Thing -> 0 .. MaxCount] /\ growth \in [Thing -> 0 .. MaxGrowth]
      /\ prevOf \in [Thing -> -1 .. MaxCount] /\ prevSum \in Nat /\ present \subseteq Thing
      /\ prevRoute \in Thing \cup {0}
  BY DEF RateIInv, RateTypeOK
<1>3. /\ count' \in [Thing -> 0 .. MaxCount] /\ growth' \in [Thing -> 0 .. MaxGrowth]
      /\ \A u \in Thing : \/ count'[u] = count[u] /\ growth'[u] = growth[u]
                          \/ count'[u] = count[u] + 1 /\ growth'[u] = growth[u] + 1
  BY <1>1, <1>2
<1>4. RateTypeOK'
  BY <1>1, <1>3 DEF RateIInv, RateTypeOK, PerThing
<1>5. EntryBehind'
  <2> SUFFICES ASSUME PerThing, NEW u \in Thing
               PROVE  /\ prevOf[u] >= 0 => count'[u] <= prevOf[u] + growth'[u]
                      /\ started /\ ~missed /\ u \in present \ moved
                           => prevOf[u] >= 0 /\ count'[u] = prevOf[u] + growth'[u]
    BY <1>1 DEF EntryBehind, PerThing
  <2>1. /\ prevOf[u] >= 0 => count[u] <= prevOf[u] + growth[u]
        /\ started /\ ~missed /\ u \in present \ moved
             => prevOf[u] >= 0 /\ count[u] = prevOf[u] + growth[u]
    BY DEF RateIInv, EntryBehind
  <2>2. count[u] \in Int /\ growth[u] \in Int /\ prevOf[u] \in Int
    BY <1>2
  <2> QED BY <1>3, <2>1, <2>2
<1>6. RouteBehind'
  <2> SUFFICES ASSUME meter = "net", started, ~missed, prevRoute # 0
               PROVE  /\ count'[prevRoute] <= prevSum + growth'[prevRoute]
                      /\ prevRoute \notin moved => count'[prevRoute] = prevSum + growth'[prevRoute]
    BY <1>1 DEF RouteBehind
  <2>1. /\ count[prevRoute] <= prevSum + growth[prevRoute]
        /\ prevRoute \notin moved => count[prevRoute] = prevSum + growth[prevRoute]
    BY DEF RateIInv, RouteBehind
  <2>2. prevRoute \in Thing /\ count[prevRoute] \in Int /\ growth[prevRoute] \in Int
    BY <1>2
  <2> QED BY <1>2, <1>3, <2>1, <2>2
<1>7. SumBehind'
  <2> SUFFICES ASSUME meter \in {"disk", "process"}, started, ~missed, moved = {}
               PROVE  Over(present, count') = prevSum + Over(present, growth')
    BY <1>1 DEF SumBehind
  <2>1. Over(present, count) = prevSum + Over(present, growth)
    BY DEF RateIInv, SumBehind
  <2>2. count \in [Thing -> Int] /\ growth \in [Thing -> Int]
        /\ count' \in [Thing -> Int] /\ growth' \in [Thing -> Int]
    BY <1>2, <1>3
  <2>3. Over(present, count') = Over(present, count) + 1
    <3>1. t \in present /\ present \in SUBSET Thing /\ count' = [count EXCEPT ![t] = @ + 1]
      BY <1>1, <1>2
    <3>2. count \in [Thing -> Int] /\ count' \in [Thing -> Int]
      BY <2>2
    <3> QED BY <3>1, <3>2, OverGrows
  <2>4. Over(present, growth') = Over(present, growth) + 1
    <3>1. t \in present /\ present \in SUBSET Thing /\ growth' = [growth EXCEPT ![t] = @ + 1]
      BY <1>1, <1>2
    <3>2. growth \in [Thing -> Int] /\ growth' \in [Thing -> Int]
      BY <2>2
    <3> QED BY <3>1, <3>2, OverGrows
  <2>5. Over(present, count) \in Nat /\ Over(present, growth) \in Nat
    BY <1>2, OverNat
  <2> QED BY <1>2, <2>1, <2>3, <2>4, <2>5
<1> QED BY <1>1, <1>4, <1>5, <1>6, <1>7 DEF RateIInv

LEMMA MovesIInv ==
  ASSUME RateIInv, NEW t \in Thing, Goes(t) \/ Comes(t)
  PROVE  RateIInv'
<1> USE RateAssumption
<1>1. /\ growth' = growth /\ moved' = moved \cup {t} /\ meter' = meter
      /\ prevOf' = prevOf /\ prevRoute' = prevRoute /\ prevSum' = prevSum
      /\ started' = started /\ missed' = missed /\ dated' = dated /\ stopped' = stopped
      /\ shown' = shown
      /\ \A u \in Thing \ {t} : u \in present' <=> u \in present
  BY DEF Goes, Comes, meterVars
<1>2. /\ count \in [Thing -> 0 .. MaxCount] /\ growth \in [Thing -> 0 .. MaxGrowth]
      /\ prevOf \in [Thing -> -1 .. MaxCount] /\ prevSum \in Nat /\ present \subseteq Thing
      /\ prevRoute \in Thing \cup {0}
  BY DEF RateIInv, RateTypeOK
<1>3. /\ count' \in [Thing -> 0 .. MaxCount]
      /\ \A u \in Thing : count'[u] = count[u] \/ (u = t /\ count'[u] = 0)
  <2>1. count' = count \/ count' = [count EXCEPT ![t] = 0]
    BY DEF Goes, Comes
  <2>2. CASE count' = count
    <3>1. \A u \in Thing : count'[u] = count[u]
      BY <2>2
    <3> QED BY <1>2, <2>2, <3>1
  <2>3. CASE count' = [count EXCEPT ![t] = 0]
    <3>1. 0 \in 0 .. MaxCount
      OBVIOUS
    <3>2. count' \in [Thing -> 0 .. MaxCount]
      BY <1>2, <2>3, <3>1
    <3>3. \A u \in Thing : count'[u] = count[u] \/ (u = t /\ count'[u] = 0)
      BY <1>2, <2>3
    <3> QED BY <3>2, <3>3
  <2> QED BY <2>1, <2>2, <2>3
<1>4. RateTypeOK'
  <2>1. present' \subseteq Thing /\ route' \in present' \cup {0}
    BY DEF Goes, Comes, RateIInv, RateTypeOK
  <2> QED BY <1>1, <1>3, <2>1 DEF RateIInv, RateTypeOK, PerThing
<1>5. EntryBehind'
  <2> SUFFICES ASSUME PerThing, NEW u \in Thing
               PROVE  /\ prevOf[u] >= 0 => count'[u] <= prevOf[u] + growth[u]
                      /\ started /\ ~missed /\ u \in present' \ moved'
                           => prevOf[u] >= 0 /\ count'[u] = prevOf[u] + growth[u]
    BY <1>1 DEF EntryBehind, PerThing
  <2>1. /\ prevOf[u] >= 0 => count[u] <= prevOf[u] + growth[u]
        /\ started /\ ~missed /\ u \in present \ moved
             => prevOf[u] >= 0 /\ count[u] = prevOf[u] + growth[u]
    BY DEF RateIInv, EntryBehind
  <2>2. growth[u] \in Nat /\ prevOf[u] \in Int
    BY <1>2
  <2>3. prevOf[u] >= 0 => 0 <= prevOf[u] + growth[u]
    BY <2>2
  <2>4. u \in present' \ moved' => u # t /\ u \in present \ moved
    BY <1>1
  <2> QED BY <1>3, <2>1, <2>3, <2>4
<1>6. RouteBehind'
  <2> SUFFICES ASSUME meter = "net", started, ~missed, prevRoute # 0
               PROVE  /\ count'[prevRoute] <= prevSum + growth[prevRoute]
                      /\ prevRoute \notin moved' => count'[prevRoute] = prevSum + growth[prevRoute]
    BY <1>1 DEF RouteBehind
  <2>1. /\ count[prevRoute] <= prevSum + growth[prevRoute]
        /\ prevRoute \notin moved => count[prevRoute] = prevSum + growth[prevRoute]
    BY DEF RateIInv, RouteBehind
  <2>2. prevRoute \in Thing /\ growth[prevRoute] \in Nat /\ 0 <= prevSum + growth[prevRoute]
    BY <1>2
  <2>3. prevRoute \notin moved' => prevRoute # t /\ prevRoute \notin moved
    BY <1>1
  <2> QED BY <1>3, <2>1, <2>2, <2>3
<1>7. SumBehind'
  BY <1>1 DEF SumBehind
<1> QED BY <1>1, <1>4, <1>5, <1>6, <1>7 DEF RateIInv

LEMMA RouteMovesIInv ==
  ASSUME RateIInv, NEW t \in Thing \cup {0}, RouteMoves(t)
  PROVE  RateIInv'
<1>1. /\ growth' = growth /\ moved' = moved /\ meter' = meter /\ count' = count
      /\ prevOf' = prevOf /\ prevRoute' = prevRoute /\ prevSum' = prevSum
      /\ started' = started /\ missed' = missed /\ dated' = dated /\ stopped' = stopped
      /\ shown' = shown /\ present' = present
  BY DEF RouteMoves, meterVars
<1>2. RateTypeOK'
  BY <1>1 DEF RouteMoves, RateIInv, RateTypeOK, PerThing
<1>3. EntryBehind' /\ RouteBehind' /\ SumBehind'
  BY <1>1 DEF RateIInv, EntryBehind, RouteBehind, SumBehind, PerThing
<1> QED BY <1>1, <1>2, <1>3 DEF RateIInv

LEMMA StopIInv ==
  ASSUME RateIInv, Stop
  PROVE  RateIInv'
<1>1. /\ growth' = growth /\ moved' = moved /\ meter' = meter /\ count' = count
      /\ prevOf' = prevOf /\ prevRoute' = prevRoute /\ prevSum' = prevSum
      /\ started' = started /\ missed' = missed /\ dated' = dated /\ stopped' = TRUE
      /\ shown' = shown /\ present' = present /\ route' = route
  BY DEF Stop, countedVars
<1>2. RateTypeOK'
  BY <1>1 DEF RateIInv, RateTypeOK, PerThing
<1>3. EntryBehind' /\ RouteBehind' /\ SumBehind'
  BY <1>1 DEF RateIInv, EntryBehind, RouteBehind, SumBehind, PerThing
<1> QED BY <1>1, <1>2, <1>3 DEF RateIInv

LEMMA ReadingIInv ==
  ASSUME RateIInv, NEW read \in BOOLEAN, NEW clockOn \in BOOLEAN, Reading(read, clockOn)
  PROVE  RateIInv'
<1> USE RateAssumption
<1>1. /\ prevOf' = [t \in Thing |-> IF PerThing THEN Counter(read, t) ELSE -1]
      /\ prevSum' = (IF PerThing THEN 0 ELSE Total(read))
      /\ prevRoute' = route /\ started' = TRUE /\ missed' = ~read /\ dated' = clockOn
      /\ growth' = [t \in Thing |-> 0] /\ moved' = {}
      /\ meter' = meter /\ present' = present /\ count' = count /\ route' = route
      /\ stopped' = stopped
  BY DEF Reading, Entry, Baseline
<1>2. /\ count \in [Thing -> 0 .. MaxCount] /\ route \in present \cup {0}
      /\ present \subseteq Thing /\ RateTypeOK
  BY DEF RateIInv, RateTypeOK
<1>3. /\ prevOf' \in [Thing -> -1 .. MaxCount] /\ prevSum' \in Nat
      /\ growth' \in [Thing -> 0 .. MaxGrowth]
  <2>1. Total(read) \in Nat /\ \A t \in Thing : Counter(read, t) \in -1 .. MaxCount
    BY <1>2, TotalType
  <2> QED BY <1>1, <2>1
<1>4. shown' \in [Thing \cup {0} -> 0 .. Modulus - 1]
  <2>1. Figure(read) \in 0 .. Modulus - 1
    BY <1>2, FigureType
  <2>2. \A t \in Thing : FigureOf(read, t) \in 0 .. Modulus - 1
    BY <1>2, FigureType
  <2>3. \A t \in Thing : t # 0
    BY DEF Thing
  <2>4. 0 \in 0 .. Modulus - 1
    OBVIOUS
  <2> QED BY <2>1, <2>2, <2>3, <2>4 DEF Reading
<1>5. \A t \in Thing : PerThing => prevOf'[t] = IF read /\ t \in present THEN count[t] ELSE -1
  BY <1>1 DEF Counter
<1>6. RateTypeOK'
  <2>1. route' \in present' \cup {0} /\ prevRoute' \in Thing \cup {0}
    BY <1>1, <1>2
  <2>2. PerThing' => \A t \in Thing : prevOf'[t] >= 0 => t \in present'
    BY <1>1, <1>5 DEF PerThing
  <2> QED BY <1>1, <1>2, <1>3, <1>4, <2>1, <2>2 DEF RateTypeOK
<1>7. EntryBehind'
  <2> SUFFICES ASSUME PerThing, NEW t \in Thing
               PROVE  /\ prevOf'[t] >= 0 => count[t] <= prevOf'[t] + growth'[t]
                      /\ read /\ t \in present
                           => prevOf'[t] >= 0 /\ count[t] = prevOf'[t] + growth'[t]
    BY <1>1 DEF EntryBehind, PerThing
  <2>1. count[t] \in Nat /\ growth'[t] = 0
    BY <1>1, <1>2
  <2> QED BY <1>5, <2>1
<1>8. RouteBehind'
  <2> SUFFICES ASSUME meter = "net", read, route # 0
               PROVE  /\ count[route] <= prevSum' + growth'[route]
                      /\ count[route] = prevSum' + growth'[route]
    BY <1>1 DEF RouteBehind
  <2>1. route \in Thing /\ count[route] \in Nat /\ growth'[route] = 0
    BY <1>1, <1>2
  <2>2. prevSum' = count[route]
    BY <1>1 DEF Total, PerThing
  <2> QED BY <2>1, <2>2
<1>9. SumBehind'
  <2> SUFFICES ASSUME meter \in {"disk", "process"}, read
               PROVE  Over(present, count) = prevSum' + Over(present, growth')
    BY <1>1 DEF SumBehind
  <2>1. prevSum' = Over(present, count)
    BY <1>1 DEF Total, PerThing
  <2>2. Over(present, growth') = 0
    <3>1. growth' \in [Thing -> Int] /\ \A t \in Thing : growth'[t] = 0
      BY <1>1
    <3> QED BY <3>1, OverNothing
  <2>3. Over(present, count) \in Nat
    BY <1>2, OverNat
  <2> QED BY <2>1, <2>2, <2>3
<1> QED BY <1>1, <1>6, <1>7, <1>8, <1>9 DEF RateIInv

LEMMA RateStepIInv == RateIInv /\ [RateNext]_rateVars => RateIInv'
<1> SUFFICES ASSUME RateIInv, [RateNext]_rateVars PROVE RateIInv'
  OBVIOUS
<1>1. ASSUME NEW t \in Thing, Grows(t) \/ Goes(t) \/ Comes(t) PROVE RateIInv'
  BY <1>1, GrowsIInv, MovesIInv
<1>2. ASSUME NEW t \in Thing \cup {0}, RouteMoves(t) PROVE RateIInv'
  BY <1>2, RouteMovesIInv
<1>3. ASSUME Tick \/ TickFails PROVE RateIInv'
  BY <1>3, ReadingIInv DEF Tick, TickFails
<1>4. ASSUME Stop PROVE RateIInv'
  BY <1>4, StopIInv
<1>5. ASSUME UNCHANGED rateVars PROVE RateIInv'
  BY <1>5 DEF rateVars, countedVars, meterVars, RateIInv, RateTypeOK, EntryBehind,
              RouteBehind, SumBehind, PerThing
<1> QED BY <1>1, <1>2, <1>3, <1>4, <1>5 DEF RateNext

\* What a meter remembers is never ahead of its counter by more than the
\* modulus hides: an entry or the route's sum is behind it by at most what was
\* counted since, and by exactly that while the thing stayed.
THEOREM RateInvariant == RateSpec => []RateIInv
  BY RateInitIInv, RateStepIInv, PTL DEF RateSpec

\* Every variable of the meters keeps its kind: in particular no figure on the
\* screen is outside the counters' width.
THEOREM RateTypes == RateSpec => []RateTypeOK
<1>1. RateIInv => RateTypeOK
  BY DEF RateIInv
<1> QED BY <1>1, RateInvariant, PTL

\* What a reading shows of an entry that is behind by so much.
LEMMA FigureOfIs ==
  ASSUME RateIInv, PerThing, NEW read \in BOOLEAN, NEW t \in Thing
  PROVE  /\ FigureOf(read, t) <= growth[t]
         /\ read /\ started /\ ~missed /\ t \in present \ moved
              => FigureOf(read, t) = growth[t]
<1> USE RateAssumption
<1>1. /\ count[t] \in 0 .. MaxCount /\ growth[t] \in 0 .. MaxGrowth
      /\ prevOf[t] \in -1 .. MaxCount
  BY DEF RateIInv, RateTypeOK
<1>5. count[t] \in Int /\ growth[t] \in Int /\ prevOf[t] \in Int /\ 0 <= growth[t]
  BY <1>1
<1>2. /\ prevOf[t] >= 0 => count[t] <= prevOf[t] + growth[t]
      /\ started /\ ~missed /\ t \in present \ moved
           => prevOf[t] >= 0 /\ count[t] = prevOf[t] + growth[t]
  BY DEF RateIInv, EntryBehind
<1>3. CASE read /\ t \in present /\ prevOf[t] >= 0
  <2>1. FigureOf(read, t) = MinusGuarded(count[t], prevOf[t])
    BY <1>1, <1>3 DEF FigureOf, Counter
  <2>2. CASE count[t] >= prevOf[t]
    <3>1. 0 <= count[t] - prevOf[t] /\ count[t] - prevOf[t] < Modulus
      BY <1>1, <1>3, <2>2
    <3>2. FigureOf(read, t) = count[t] - prevOf[t]
      BY <1>5, <2>1, <3>1, MinusGuardedIs
    <3>3. \A a, b, g \in Int : /\ a <= b + g => a - b <= g
                               /\ a = b + g => a - b = g
      OBVIOUS
    <3>4. FigureOf(read, t) <= growth[t]
      <4>1. count[t] <= prevOf[t] + growth[t]
        BY <1>2, <1>3
      <4>2. count[t] - prevOf[t] <= growth[t]
        BY <1>5, <3>3, <4>1
      <4> QED BY <3>2, <4>2
    <3>5. started /\ ~missed /\ t \in present \ moved => FigureOf(read, t) = growth[t]
      BY <1>5, <1>2, <3>2, <3>3
    <3> QED BY <3>4, <3>5
  <2>3. CASE count[t] < prevOf[t]
    <3>1. FigureOf(read, t) = 0
      BY <1>5, <2>1, <2>3, MinusGuardedIs
    <3> QED BY <1>1, <1>2, <2>3, <3>1
  <2> QED BY <1>1, <2>2, <2>3
<1>4. CASE ~(read /\ t \in present /\ prevOf[t] >= 0)
  <2>1. FigureOf(read, t) = 0
    BY <1>1, <1>4 DEF FigureOf, Counter
  <2> QED BY <1>1, <1>2, <1>4, <2>1
<1> QED BY <1>3, <1>4

\* And of the interface the route is on.
LEMMA NetFigureIs ==
  ASSUME RateIInv, meter = "net", NEW read \in BOOLEAN, started, ~missed
  PROVE  /\ Figure(read) > 0 => Figure(read) <= growth[route]
         /\ read /\ route # 0 /\ SameRoute /\ moved = {} => Figure(read) = growth[route]
<1> USE RateAssumption
<1>1. /\ count \in [Thing -> 0 .. MaxCount] /\ growth \in [Thing -> 0 .. MaxGrowth]
      /\ prevSum \in Nat /\ route \in Thing \cup {0}
  BY DEF RateIInv, RateTypeOK
<1>2. CASE read /\ route # 0 /\ SameRoute
  <2>1. /\ route \in Thing /\ count[route] \in 0 .. MaxCount
        /\ growth[route] \in 0 .. MaxGrowth
    BY <1>1, <1>2
  <2>2. /\ count[route] <= prevSum + growth[route]
        /\ route \notin moved => count[route] = prevSum + growth[route]
    BY <1>2 DEF RateIInv, RouteBehind, SameRoute
  <2>3. Figure(read) = MinusGuarded(count[route], prevSum)
    BY <1>2 DEF Figure, Total
  <2>4. CASE count[route] >= prevSum
    <3>1. 0 <= count[route] - prevSum /\ count[route] - prevSum < Modulus
      BY <1>1, <2>1, <2>4
    <3>2. Figure(read) = count[route] - prevSum
      BY <1>1, <2>1, <2>3, <3>1, MinusGuardedIs
    <3> QED BY <1>1, <2>1, <2>2, <3>2
  <2>5. CASE count[route] < prevSum
    <3>1. Figure(read) = 0
      BY <1>1, <2>1, <2>3, <2>5, MinusGuardedIs
    <3> QED BY <1>1, <2>1, <2>2, <2>5, <3>1
  <2> QED BY <1>1, <2>1, <2>4, <2>5
<1>3. CASE ~(read /\ route # 0 /\ SameRoute)
  <2>1. Figure(read) = 0
    <3>1. CASE ~SameRoute
      BY <3>1 DEF Figure
    <3>2. CASE SameRoute
      <4>1. Total(read) = 0
        BY <1>3, <3>2 DEF Total
      <4>2. Figure(read) = MinusGuarded(0, prevSum)
        BY <3>2, <4>1 DEF Figure
      <4>3. prevSum = 0 \/ 0 < prevSum
        BY <1>1
      <4>4. 0 <= 0 - 0 /\ 0 - 0 < Modulus /\ 0 - 0 = 0
        OBVIOUS
      <4>5. MinusGuarded(0, prevSum) = 0
        BY <1>1, <4>3, <4>4, MinusGuardedIs
      <4> QED BY <4>2, <4>5
    <3> QED BY <3>1, <3>2
  <2> QED BY <1>3, <2>1
<1> QED BY <1>2, <1>3

\* And of the disks and of a process.
LEMMA SumFigureIs ==
  ASSUME RateIInv, meter \in {"disk", "process"}, started, ~missed, moved = {}
  PROVE  Figure(TRUE) = Over(present, growth)
<1> USE RateAssumption
<1>1. /\ count \in [Thing -> 0 .. MaxCount] /\ growth \in [Thing -> 0 .. MaxGrowth]
      /\ prevSum \in Nat
  BY DEF RateIInv, RateTypeOK
<1>2. Over(present, count) = prevSum + Over(present, growth)
  BY DEF RateIInv, SumBehind
<1>3. Over(present, growth) \in 0 .. ThingCount * MaxGrowth
  BY <1>1, OverBound
<1>4. Over(present, growth) \in 0 .. Modulus - 1
  <2>1. ThingCount * MaxGrowth \in Nat /\ ThingCount * MaxGrowth < Modulus
    OBVIOUS
  <2> QED BY <1>3, <2>1
<1>5. Figure(TRUE) = Minus(prevSum + Over(present, growth), prevSum)
  BY <1>2 DEF Figure, Total
<1>6. (prevSum + Over(present, growth)) - prevSum = Over(present, growth)
  BY <1>1, <1>4
<1>7. prevSum + Over(present, growth) \in Int
  BY <1>1, <1>4
<1>8. Minus(prevSum + Over(present, growth), prevSum) = Over(present, growth)
  <2> DEFINE total == prevSum + Over(present, growth)
  <2>1. total \in Int /\ prevSum \in Int /\ total - prevSum = Over(present, growth)
    <3>1. total \in Int
      BY <1>7
    <3>2. prevSum \in Int
      BY <1>1
    <3>3. total - prevSum = Over(present, growth)
      BY <1>6
    <3> QED BY <3>1, <3>2, <3>3
  <2> HIDE DEF total
  <2>2. Minus(total, prevSum) = total - prevSum
    BY <1>4, <2>1, MinusIs
  <2> QED BY <2>1, <2>2 DEF total
<1> QED BY <1>5, <1>8

\* What is shown after a reading.
LEMMA ShownIs ==
  ASSUME NEW read \in BOOLEAN, NEW clockOn \in BOOLEAN, Reading(read, clockOn)
  PROVE  /\ \A t \in Thing : shown'[t] = IF PerThing /\ (meter = "core" \/ (started /\ clockOn))
                                           THEN FigureOf(read, t) ELSE 0
         /\ shown'[0] = IF ~PerThing /\ started /\ clockOn THEN Figure(read) ELSE 0
<1>1. \A t \in Thing : t # 0 /\ t \in Thing \cup {0}
  BY DEF Thing
<1> QED BY <1>1 DEF Reading, PerThing

\* A guarded meter never shows more than was counted since the last reading,
\* whatever came, went or was replaced in between.
THEOREM RatesNeverInvented == RateSpec => NeverInvented
<1>1. RateIInv /\ [RateNext]_rateVars
        => [Tick \/ TickFails =>
              /\ \A t \in Thing : shown'[t] <= growth[t]
              /\ meter = "net" /\ ~missed /\ shown'[0] > 0
                   => shown'[0] <= growth[route]]_rateVars
  <2> SUFFICES ASSUME RateIInv, Tick \/ TickFails
               PROVE  /\ \A t \in Thing : shown'[t] <= growth[t]
                      /\ meter = "net" /\ ~missed /\ shown'[0] > 0
                           => shown'[0] <= growth[route]
    OBVIOUS
  <2>1. PICK read \in BOOLEAN, clockOn \in BOOLEAN : Reading(read, clockOn)
    BY DEF Tick, TickFails
  <2>2. ASSUME NEW t \in Thing PROVE shown'[t] <= growth[t]
    <3>1. growth[t] \in Nat
      BY RateAssumption DEF RateIInv, RateTypeOK
    <3>2. shown'[t] = 0 \/ (PerThing /\ shown'[t] = FigureOf(read, t))
      <4>1. shown'[t] = IF PerThing /\ (meter = "core" \/ (started /\ clockOn))
                          THEN FigureOf(read, t) ELSE 0
        BY <2>1, ShownIs
      <4>2. CASE PerThing /\ (meter = "core" \/ (started /\ clockOn))
        BY <4>1, <4>2
      <4>3. CASE ~(PerThing /\ (meter = "core" \/ (started /\ clockOn)))
        BY <4>1, <4>3
      <4> QED BY <4>2, <4>3
    <3>3. CASE shown'[t] = 0
      BY <3>1, <3>3
    <3>4. CASE PerThing /\ shown'[t] = FigureOf(read, t)
      BY <3>4, FigureOfIs
    <3> QED BY <3>2, <3>3, <3>4
  <2>3. ASSUME meter = "net", ~missed, shown'[0] > 0 PROVE shown'[0] <= growth[route]
    <3>1. started /\ shown'[0] = Figure(read)
      BY <2>1, <2>3, ShownIs
    <3> QED BY <2>3, <3>1, NetFigureIs
  <2> QED BY <2>2, <2>3
<1> QED BY <1>1, RateInvariant, PTL DEF RateSpec, NeverInvented

\* While the things stay the same, every meter shows what was counted since
\* the last reading, the unguarded ones too.
THEOREM RatesExact == RateSpec => ExactWhileTheSame
<1>1. RateIInv /\ [RateNext]_rateVars
        => [Tick /\ started /\ dated' /\ ~missed /\ moved = {} =>
              IF PerThing THEN \A t \in present : shown'[t] = growth[t]
              ELSE IF meter = "net"
                THEN route # 0 /\ SameRoute => shown'[0] = growth[route]
                ELSE shown'[0] = Over(present, growth)]_rateVars
  <2> SUFFICES ASSUME RateIInv, Tick, started, dated', ~missed, moved = {}
               PROVE  IF PerThing THEN \A t \in present : shown'[t] = growth[t]
                      ELSE IF meter = "net"
                        THEN route # 0 /\ SameRoute => shown'[0] = growth[route]
                        ELSE shown'[0] = Over(present, growth)
    OBVIOUS
  <2>1. Reading(TRUE, TRUE)
    <3>1. PICK clockOn \in BOOLEAN : Reading(TRUE, clockOn)
      BY DEF Tick
    <3>2. clockOn
      BY <3>1 DEF Reading
    <3>3. clockOn = TRUE
      BY <3>2
    <3> QED BY <3>1, <3>3
  <2>2. CASE PerThing
    <3>1. ASSUME NEW t \in present PROVE shown'[t] = growth[t]
      <4>1. t \in Thing
        BY DEF RateIInv, RateTypeOK
      <4>2. shown'[t] = FigureOf(TRUE, t)
        BY <2>1, <2>2, <4>1, ShownIs
      <4> QED BY <2>2, <4>1, <4>2, FigureOfIs
    <3> QED BY <2>2, <3>1
  <2>3. CASE ~PerThing /\ meter = "net"
    <3>1. shown'[0] = Figure(TRUE)
      BY <2>1, <2>3, ShownIs
    <3>2. route # 0 /\ SameRoute => shown'[0] = growth[route]
      BY <2>3, <3>1, NetFigureIs
    <3> QED BY <2>3, <3>2
  <2>4. CASE ~PerThing /\ meter # "net"
    <3>1. shown'[0] = Figure(TRUE)
      BY <2>1, <2>4, ShownIs
    <3>2. meter \in {"disk", "process"}
      BY <2>4 DEF RateIInv, RateTypeOK, Meter, PerThing
    <3> QED BY <2>4, <3>1, <3>2, SumFigureIs
  <2> QED BY <2>2, <2>3, <2>4
<1> QED BY <1>1, RateInvariant, PTL DEF RateSpec, ExactWhileTheSame

------------------------------------------------------------------------------
(* The button test: the lists of the devices *)

OpenFd == [open : {TRUE}, name : Name, queue : Seq(Event),
           gone : BOOLEAN, heard : BOOLEAN, dropped : BOOLEAN]

LEMMA FdIs ==
  ASSUME NEW fd \in FdType
  PROVE  IF fd.open THEN fd \in OpenFd ELSE fd = NoFd
<1>1. CASE fd = NoFd
  BY <1>1 DEF NoFd
<1>2. CASE fd \in OpenFd
  <2>1. fd.open = TRUE
    BY <1>2 DEF OpenFd
  <2> QED BY <1>2, <2>1
<1> QED BY <1>1, <1>2 DEF FdType, OpenFd

LEMMA NewFdIs ==
  ASSUME NEW name \in Name
  PROVE  /\ NewFd(name) \in FdType /\ NewFd(name) \in OpenFd
         /\ NewFd(name).name = name /\ ~NewFd(name).heard
<1>1. <<>> \in Seq(Event)
  BY EmptySeq
<1> QED BY <1>1 DEF NewFd, FdType, OpenFd

LEMMA NoFdIs == NoFd \in FdType /\ ~NoFd.open
BY DEF FdType, NoFd

\* The places of the lit keys of a list.
LitIn(list) == {i \in DOMAIN list : list[i].seen}

LEMMA LitFinite ==
  ASSUME NEW list \in Seq(KeyType)
  PROVE  /\ IsFiniteSet(LitIn(list)) /\ Cardinality(LitIn(list)) \in Nat
         /\ (\A i \in DOMAIN list : ~list[i].seen) => Cardinality(LitIn(list)) = 0
<1>1. DOMAIN list = 1 .. Len(list) /\ Len(list) \in Nat
  BY LenProperties
<1>2. IsFiniteSet(1 .. Len(list))
  BY <1>1, FS_Interval
<1>3. LitIn(list) \in SUBSET (1 .. Len(list))
  BY <1>1 DEF LitIn
<1>4. IsFiniteSet(LitIn(list))
  BY <1>2, <1>3, FS_Subset
<1>5. (\A i \in DOMAIN list : ~list[i].seen) => LitIn(list) = {}
  BY DEF LitIn
<1> QED BY <1>4, <1>5, FS_CardinalityType, FS_EmptySet

\* The keys a node adds to the checklist.
Listed(seen) == {k \in KeyType : seen[k.node] # NoDevice /\ ~k.seen}

KeysOf(seen, n) ==
  IF seen[n] = NoDevice \/ seen[n].touch THEN <<>>
  ELSE [i \in DOMAIN seen[n].codes |->
          [node |-> n, name |-> seen[n].name, code |-> seen[n].codes[i],
           seen |-> FALSE, pressed |-> FALSE]]

LEMMA KeysOfListed ==
  ASSUME NEW seen \in [Node -> Device \cup {NoDevice}], NEW n \in Node
  PROVE  KeysOf(seen, n) \in Seq(Listed(seen))
<1> USE KeyMonAssumption
<1>1. CASE seen[n] = NoDevice \/ seen[n].touch
  <2>1. KeysOf(seen, n) = <<>>
    BY <1>1 DEF KeysOf
  <2> QED BY <2>1, EmptySeq
<1>2. CASE ~(seen[n] = NoDevice \/ seen[n].touch)
  <2> DEFINE d == seen[n]
             m == Len(d.codes)
             Key(i) == [node |-> n, name |-> d.name, code |-> d.codes[i],
                        seen |-> FALSE, pressed |-> FALSE]
  <2>1. d \in Device /\ d.codes \in Seq(Nat)
    BY <1>2
  <2>2. m \in Nat /\ DOMAIN d.codes = 1 .. m
    BY <2>1, LenProperties
  <2>3. d.name \in Name
    BY <2>1 DEF Name
  <2>4. ASSUME NEW i \in 1 .. m PROVE Key(i) \in Listed(seen)
    <3>1. d.codes[i] \in Code
      BY <2>1, <2>2 DEF Code, CodesOf
    <3>2. Key(i) \in KeyType /\ Key(i).node = n /\ ~Key(i).seen
      BY <2>3, <3>1 DEF KeyType
    <3> QED BY <1>2, <3>2 DEF Listed
  <2>5. KeysOf(seen, n) = [i \in 1 .. m |-> Key(i)]
    BY <1>2, <2>2, Zenon DEF KeysOf
  <2> HIDE DEF Key, m
  <2> QED BY <2>2, <2>4, <2>5, IsASeq
<1> QED BY <1>1, <1>2

\* The list has only keys of listed devices, none of them lit.
LEMMA ChecklistListed ==
  ASSUME NEW seen \in [Node -> Device \cup {NoDevice}]
  PROVE  /\ Checklist(seen) \in Seq(Listed(seen))
         /\ Len(Checklist(seen)) <= MaxKeys
<1> USE KeyMonAssumption
<1> DEFINE V == Seq(Listed(seen))
           nodes == [n \in Node |-> n]
           n == Len(nodes)
           body == [i \in 1 .. n |-> [list \in V |-> list \o KeysOf(seen, nodes[i])]]
           IsLoop(f) == f = [i \in 0 .. n |->
                               IF i = 0 THEN <<>> ELSE f[i - 1] \o KeysOf(seen, nodes[i])]
           chosen == CHOOSE f : IsLoop(f)
<1>1. n \in Nat /\ \A i \in 1 .. n : nodes[i] \in Node
  BY DEF Node
<1>2. \A i \in 1 .. n : \A list \in V : list \o KeysOf(seen, nodes[i]) \in V
  <2> SUFFICES ASSUME NEW i \in 1 .. n, NEW list \in V
               PROVE  list \o KeysOf(seen, nodes[i]) \in V
    OBVIOUS
  <2>1. KeysOf(seen, nodes[i]) \in V
    BY <1>1, KeysOfListed
  <2> HIDE DEF nodes
  <2> QED BY <2>1, Joined
<1>3. body \in [1 .. n -> [V -> V]]
  <2> HIDE DEF n, V, nodes
  <2> QED BY <1>2
<1>4. <<>> \in V
  BY EmptySeq
<1>5. PICK f : Turns(f, V, <<>>, body, n)
  <2> HIDE DEF body, n, V
  <2> QED BY <1>1, <1>3, <1>4, TurnsExist
<1>6. IsLoop(f)
  <2>1. f \in [0 .. n -> V] /\ f[0] = <<>>
    BY <1>5 DEF Turns
  <2>2. ASSUME NEW i \in 1 .. n PROVE f[i] = f[i - 1] \o KeysOf(seen, nodes[i])
    <3>1. f[i] = body[i][f[i - 1]]
      BY <1>5 DEF Turns
    <3>2. i - 1 \in 0 .. n
      BY <1>1
    <3>3. f[i - 1] \in V
      BY <2>1, <3>2
    <3> HIDE DEF V, n, nodes
    <3> QED BY <3>1, <3>3
  <2> HIDE DEF V, n, nodes
  <2>3. ASSUME NEW i \in 0 .. n
        PROVE  f[i] = IF i = 0 THEN <<>> ELSE f[i - 1] \o KeysOf(seen, nodes[i])
    <3>1. CASE i = 0
      BY <2>1, <3>1
    <3>2. CASE i # 0
      <4>1. i \in 1 .. n
        BY <1>1, <3>2
      <4> QED BY <2>2, <3>2, <4>1, Zenon
    <3> QED BY <3>1, <3>2
  <2>4. f = [i \in 0 .. n |-> f[i]]
    BY <2>1
  <2> QED BY <2>3, <2>4, Zenon
<1>7. IsLoop(chosen)
  <2> HIDE DEF IsLoop
  <2> QED BY <1>6
<1>8. \A i \in 0 .. n : chosen[i] = IF i = 0 THEN <<>>
                                    ELSE chosen[i - 1] \o KeysOf(seen, nodes[i])
  <2> HIDE DEF chosen, n, nodes
  <2> QED BY <1>7 DEF IsLoop
<1> DEFINE all == chosen[n]
<1>9. Checklist(seen) = SubSeq(all, 1, IF Len(all) < MaxKeys THEN Len(all) ELSE MaxKeys)
  BY DEF Checklist, Loop, KeysOf
<1> HIDE DEF chosen
<1>10. all \in V
  <2>1. chosen[0] = <<>> /\ \A i \in 1 .. n : chosen[i] = chosen[i - 1] \o KeysOf(seen, nodes[i])
    <3> HIDE DEF n, nodes
    <3>1. 0 \in 0 .. n /\ \A i \in 1 .. n : i \in 0 .. n /\ i # 0
      BY <1>1
    <3> QED BY <1>8, <3>1, Zenon
  <2>2. chosen[0] \in V
    BY <1>4, <2>1
  <2>3. \A i \in 1 .. n : chosen[i - 1] \in V => chosen[i] \in V
    <3> HIDE DEF V, n, nodes
    <3> QED BY <1>2, <2>1
  <2>4. \A i \in 0 .. n : chosen[i] \in V
    <3> HIDE DEF V, n, nodes
    <3> QED BY <1>1, <2>2, <2>3, TurnsIn
  <2>5. n \in 0 .. n
    <3> HIDE DEF n
    <3> QED BY <1>1
  <2> HIDE DEF V, n
  <2> QED BY <2>4, <2>5
<1> HIDE DEF all
<1>11. Len(all) \in Nat /\ \A i \in 1 .. Len(all) : all[i] \in Listed(seen)
  BY <1>10, LenProperties, ElementOfSeq
<1> DEFINE size == IF Len(all) < MaxKeys THEN Len(all) ELSE MaxKeys
<1>12. size \in Nat /\ size <= MaxKeys /\ size <= Len(all)
  BY <1>11
<1> HIDE DEF size
<1>13. /\ SubSeq(all, 1, size) \in Seq(Listed(seen)) /\ Len(SubSeq(all, 1, size)) = size
  <2>1. \A i \in 1 .. size : all[i] \in Listed(seen)
    BY <1>11, <1>12
  <2> QED BY <1>12, <2>1, SubSeqProperties
<1> QED BY <1>9, <1>12, <1>13 DEF size

------------------------------------------------------------------------------
(* The button test: reading a descriptor *)

SwitchStates == [Node -> {"none", "set", "not set"}]
ReadState == [keys : Seq(KeyType), count : Nat, switches : SwitchStates, last : LastType]

\* The list now against the list before: the same keys, and those lit still are.
StillLit(list, now) ==
  /\ Len(now) = Len(list)
  /\ \A i \in DOMAIN list :
       /\ now[i].node = list[i].node /\ now[i].code = list[i].code
       /\ list[i].seen => now[i].seen

\* What readReady() has made of a list, at any event.
Good(s, list) ==
  /\ s \in ReadState /\ StillLit(list, s.keys)
  /\ s.count = Cardinality(LitIn(s.keys))

\* A press lights the keys with its code on the devices with its name, and
\* counts those that were not lit.
LEMMA MarkSeenGood ==
  ASSUME NEW list \in Seq(KeyType), NEW s, Good(s, list),
         NEW code, NEW value \in BOOLEAN, NEW name
  PROVE  /\ Good(MarkSeen(s, code, value, name), list)
         /\ MarkSeen(s, code, value, name).switches = s.switches
<1> DEFINE old == s.keys
           hit == {i \in DOMAIN old : old[i].code = code /\ old[i].name = name}
           new == [i \in DOMAIN old |->
                     IF i \in hit THEN [old[i] EXCEPT !.seen = TRUE, !.pressed = value]
                                  ELSE old[i]]
           fresh == {i \in hit : ~old[i].seen}
           r == MarkSeen(s, code, value, name)
<1>1. s \in ReadState /\ StillLit(list, old) /\ s.count = Cardinality(LitIn(old))
  BY DEF Good
<1>2. old \in Seq(KeyType) /\ s.count \in Nat
  BY <1>1 DEF ReadState
<1>3. /\ DOMAIN old = 1 .. Len(old) /\ Len(old) \in Nat
      /\ \A i \in 1 .. Len(old) : old[i] \in KeyType
  BY <1>2, LenProperties, ElementOfSeq
<1>4. r = [s EXCEPT !.keys = new, !.count = @ + Cardinality(fresh)]
  BY DEF MarkSeen
<1>5. ASSUME NEW i \in 1 .. Len(old)
      PROVE  /\ new[i] \in KeyType /\ new[i].node = old[i].node /\ new[i].code = old[i].code
             /\ new[i].seen <=> (old[i].seen \/ i \in hit)
  <2>1. old[i] \in KeyType /\ i \in DOMAIN old
    BY <1>3
  <2>2. new[i] = IF i \in hit THEN [old[i] EXCEPT !.seen = TRUE, !.pressed = value] ELSE old[i]
    <3> HIDE DEF hit
    <3> QED BY <2>1
  <2> HIDE DEF new, hit, old
  <2>3. CASE i \in hit
    <3> DEFINE lit == [old[i] EXCEPT !.seen = TRUE, !.pressed = value]
    <3>1. lit \in KeyType /\ lit.node = old[i].node /\ lit.code = old[i].code /\ lit.seen = TRUE
      BY <2>1 DEF KeyType
    <3>2. new[i] = lit
      BY <2>2, <2>3
    <3> HIDE DEF lit
    <3> QED BY <2>3, <3>1, <3>2
  <2>4. CASE i \notin hit
    BY <2>1, <2>2, <2>4
  <2> QED BY <2>3, <2>4
<1>6. new \in Seq(KeyType) /\ Len(new) = Len(old) /\ DOMAIN new = 1 .. Len(old)
  <2>1. new = [i \in 1 .. Len(old) |-> new[i]]
    <3> HIDE DEF hit, old
    <3> QED BY <1>3
  <2> HIDE DEF new, old
  <2> QED BY <1>3, <1>5, <2>1, IsASeq
<1> HIDE DEF new
<1>7. LitIn(new) = LitIn(old) \cup fresh /\ LitIn(old) \cap fresh = {}
  <2> HIDE DEF old
  <2>1. \A i : i \in LitIn(new) <=> i \in 1 .. Len(old) /\ (old[i].seen \/ i \in hit)
    BY <1>5, <1>6 DEF LitIn
  <2>2. \A i : i \in LitIn(old) <=> i \in 1 .. Len(old) /\ old[i].seen
    BY <1>3 DEF LitIn
  <2>3. \A i : i \in fresh <=> i \in 1 .. Len(old) /\ i \in hit /\ ~old[i].seen
    BY <1>3
  <2> HIDE DEF hit, fresh
  <2> QED BY <2>1, <2>2, <2>3
<1>8. /\ IsFiniteSet(LitIn(old)) /\ Cardinality(LitIn(old)) \in Nat
      /\ IsFiniteSet(fresh) /\ Cardinality(fresh) \in Nat
  <2>1. fresh \in SUBSET (1 .. Len(old)) /\ IsFiniteSet(1 .. Len(old))
    BY <1>3, FS_Interval
  <2>2. IsFiniteSet(fresh)
    BY <2>1, FS_Subset
  <2> HIDE DEF fresh, old
  <2> QED BY <1>2, <2>2, LitFinite, FS_CardinalityType
<1> HIDE DEF fresh, old
<1>9. Cardinality(LitIn(new)) = s.count + Cardinality(fresh)
  <2>1. Cardinality(LitIn(old) \cup fresh)
          = Cardinality(LitIn(old)) + Cardinality(fresh) - Cardinality(LitIn(old) \cap fresh)
    BY <1>8, FS_Union
  <2>2. Cardinality({}) = 0
    BY FS_EmptySet
  <2>3. Cardinality(LitIn(old) \cap fresh) = 0
    BY <1>7, <2>2
  <2>4. Cardinality(LitIn(new)) = Cardinality(LitIn(old)) + Cardinality(fresh) - 0
    BY <1>7, <2>1, <2>3
  <2> QED BY <1>1, <1>8, <2>4
<1>10. /\ r \in ReadState /\ r.keys = new /\ r.count = s.count + Cardinality(fresh)
       /\ r.switches = s.switches
  <2>1. s.count + Cardinality(fresh) \in Nat
    BY <1>2, <1>8
  <2> HIDE DEF r
  <2> QED BY <1>1, <1>4, <1>6, <2>1 DEF ReadState
<1>11. StillLit(list, new)
  <2>1. DOMAIN list = 1 .. Len(list)
    BY LenProperties
  <2> QED BY <1>1, <1>5, <1>6, <2>1 DEF StillLit
<1> HIDE DEF r
<1>12. Good(r, list)
  BY <1>9, <1>10, <1>11 DEF Good
<1> QED BY <1>10, <1>12 DEF r

\* One event: a key's leaves the switches alone, a switch's the keys.
LEMMA TakenGood ==
  ASSUME NEW list \in Seq(KeyType), NEW s, Good(s, list), NEW e \in Event, NEW name \in Name
  PROVE  /\ Good(Taken(s, e, name), list)
         /\ \A m \in Node :
              Taken(s, e, name).switches[m]
                = IF e.type = "switch" /\ SwitchOf(m, name) THEN StateOf(e.value)
                  ELSE s.switches[m]
<1> DEFINE pressed == [code |-> e.code, pressed |-> e.value, device |-> name]
           marked == [s EXCEPT !.last = pressed]
<1>1. s \in ReadState /\ StillLit(list, s.keys) /\ s.count = Cardinality(LitIn(s.keys))
  BY DEF Good
<1>2. e.type \in {"key", "switch"} /\ e.code \in Code \cup {0} /\ e.value \in BOOLEAN
  BY DEF Event
<1>3. pressed \in LastType
  BY <1>2 DEF LastType
<1> HIDE DEF pressed
<1>4. /\ marked \in ReadState /\ marked.keys = s.keys /\ marked.count = s.count
      /\ marked.switches = s.switches
  BY <1>1, <1>3 DEF ReadState
<1>5. Good(marked, list)
  <2> HIDE DEF marked
  <2> QED BY <1>1, <1>4 DEF Good
<1>6. CASE e.type = "key"
  <2>1. Taken(s, e, name) = MarkSeen(marked, e.code, e.value, name)
    BY <1>6 DEF Taken, pressed
  <2>2. /\ Good(MarkSeen(marked, e.code, e.value, name), list)
        /\ MarkSeen(marked, e.code, e.value, name).switches = marked.switches
    <3> HIDE DEF marked
    <3> QED BY <1>2, <1>5, MarkSeenGood
  <2> HIDE DEF marked
  <2> QED BY <1>4, <1>6, <2>1, <2>2
<1>7. CASE e.type = "switch"
  <2> DEFINE moves == [m \in Node |-> IF SwitchOf(m, name) THEN StateOf(e.value)
                                      ELSE marked.switches[m]]
             r == [marked EXCEPT !.switches = moves]
  <2>1. Taken(s, e, name) = r
    <3>1. e.type # "key"
      BY <1>7
    <3> QED BY <3>1 DEF Taken, pressed
  <2>2. moves \in SwitchStates
    <3>1. StateOf(e.value) \in {"none", "set", "not set"}
      BY DEF StateOf
    <3>2. s.switches \in SwitchStates
      BY <1>1 DEF ReadState
    <3> HIDE DEF marked
    <3>3. \A m \in Node : (IF SwitchOf(m, name) THEN StateOf(e.value) ELSE marked.switches[m])
                            \in {"none", "set", "not set"}
      BY <1>4, <3>1, <3>2, Zenon DEF SwitchStates
    <3> QED BY <3>3 DEF SwitchStates
  <2>3. \A m \in Node : moves[m] = IF e.type = "switch" /\ SwitchOf(m, name)
                                     THEN StateOf(e.value) ELSE s.switches[m]
    <3> HIDE DEF marked
    <3> QED BY <1>4, <1>7
  <2> HIDE DEF moves
  <2>4. /\ r \in ReadState /\ r.keys = s.keys /\ r.count = s.count /\ r.switches = moves
    <3> HIDE DEF marked
    <3> QED BY <1>4, <2>2 DEF ReadState
  <2> HIDE DEF r, marked
  <2>5. Good(r, list)
    BY <1>1, <2>4 DEF Good
  <2> QED BY <2>1, <2>3, <2>4, <2>5
<1> QED BY <1>2, <1>6, <1>7

\* readReady() at a node, event by event.
ReadRun(after, n, start) ==
  LET queue == fds[n].queue
  IN  /\ after[0] = start
      /\ \A i \in 1 .. Len(queue) : after[i] = Taken(after[i - 1], queue[i], fds[n].name)

LEMMA ReadRuns ==
  ASSUME KeyTypeOK, NEW n \in Node, fds[n].open, NEW start, Good(start, keys)
  PROVE  \E after :
           /\ ReadRun(after, n, start)
           /\ Loop(LAMBDA s, e : Taken(s, e, fds[n].name), start, fds[n].queue)
                = after[Len(fds[n].queue)]
<1> DEFINE queue == fds[n].queue
           name == fds[n].name
           size == Len(queue)
           V == {s \in ReadState : Good(s, keys)}
           body == [i \in 1 .. size |-> [s \in V |-> Taken(s, queue[i], name)]]
           IsLoop(f) == f = [i \in 0 .. size |->
                               IF i = 0 THEN start ELSE Taken(f[i - 1], queue[i], name)]
           chosen == CHOOSE f : IsLoop(f)
<1>1. keys \in Seq(KeyType)
  BY DEF KeyTypeOK
<1>2. queue \in Seq(Event) /\ name \in Name
  <2>1. fds[n] \in FdType
    BY DEF KeyTypeOK
  <2> QED BY <2>1, FdIs DEF OpenFd
<1>3. size \in Nat /\ \A i \in 1 .. size : queue[i] \in Event
  BY <1>2, LenProperties, ElementOfSeq
<1>4. \A i \in 1 .. size : \A s \in V : Taken(s, queue[i], name) \in V
  <2> SUFFICES ASSUME NEW i \in 1 .. size, NEW s \in V PROVE Taken(s, queue[i], name) \in V
    OBVIOUS
  <2>1. Good(Taken(s, queue[i], name), keys)
    <3>1. queue[i] \in Event /\ Good(s, keys)
      BY <1>3
    <3> HIDE DEF queue, name
    <3> QED BY <1>1, <1>2, <3>1, TakenGood
  <2> QED BY <2>1 DEF Good
<1>5. start \in V
  BY DEF Good
<1>6. body \in [1 .. size -> [V -> V]]
  <2> HIDE DEF size, V, queue, name
  <2> QED BY <1>4
<1>7. PICK f : Turns(f, V, start, body, size)
  <2> HIDE DEF body, size, V
  <2> QED BY <1>3, <1>5, <1>6, TurnsExist
<1>8. IsLoop(f)
  <2>1. f \in [0 .. size -> V] /\ f[0] = start
    BY <1>7 DEF Turns
  <2>2. ASSUME NEW i \in 1 .. size PROVE f[i] = Taken(f[i - 1], queue[i], name)
    <3>1. f[i] = body[i][f[i - 1]]
      BY <1>7 DEF Turns
    <3>2. i - 1 \in 0 .. size
      BY <1>3
    <3>3. f[i - 1] \in V
      BY <2>1, <3>2
    <3> HIDE DEF V, size, queue, name
    <3> QED BY <3>1, <3>3
  <2> HIDE DEF V, size, queue, name
  <2> QED BY <2>1, <2>2
<1>9. IsLoop(chosen)
  <2> HIDE DEF IsLoop
  <2> QED BY <1>8
<1>10. Loop(LAMBDA s, e : Taken(s, e, fds[n].name), start, fds[n].queue) = chosen[size]
  BY DEF Loop
<1>11. \A i \in 0 .. size : chosen[i] = IF i = 0 THEN start ELSE Taken(chosen[i - 1], queue[i], name)
  <2> HIDE DEF chosen, size, queue, name
  <2> QED BY <1>9 DEF IsLoop
<1> HIDE DEF chosen
<1>12. ReadRun(chosen, n, start)
  <2>1. chosen[0] = start /\ \A i \in 1 .. size : chosen[i] = Taken(chosen[i - 1], queue[i], name)
    <3> HIDE DEF size, queue, name
    <3> QED BY <1>3, <1>11
  <2> QED BY <2>1 DEF ReadRun
<1> QED BY <1>10, <1>12

\* The last switch event among the first of a queue.
LastMove(queue, j, i) ==
  /\ j \in 1 .. i /\ queue[j].type = "switch"
  /\ \A k \in 1 .. i : queue[k].type = "switch" => k <= j

NoMove(queue, i) == \A k \in 1 .. i : queue[k].type # "switch"

\* What a switch shows after so many events.
ShowsLast(queue, i, before, now) ==
  \/ NoMove(queue, i) /\ now = before
  \/ \E j \in 1 .. i : LastMove(queue, j, i) /\ now = StateOf(queue[j].value)

\* When everything is read, the keys that were lit are, and each switch that
\* goes by the descriptor's name shows what was last heard of it.
LEMMA ReadAll ==
  ASSUME KeyTypeOK, NEW n \in Node, fds[n].open, NEW start, Good(start, keys),
         NEW after, ReadRun(after, n, start), NEW r, r = after[Len(fds[n].queue)]
  PROVE  /\ Good(r, keys)
         /\ \A m \in Node :
              IF SwitchOf(m, fds[n].name)
                THEN ShowsLast(fds[n].queue, Len(fds[n].queue), start.switches[m], r.switches[m])
                ELSE r.switches[m] = start.switches[m]
<1> DEFINE queue == fds[n].queue
           name == fds[n].name
           size == Len(queue)
<1>1. keys \in Seq(KeyType)
  BY DEF KeyTypeOK
<1>2. queue \in Seq(Event) /\ name \in Name
  <2>1. fds[n] \in FdType
    BY DEF KeyTypeOK
  <2> QED BY <2>1, FdIs DEF OpenFd
<1>3. size \in Nat /\ \A i \in 1 .. size : queue[i] \in Event
  BY <1>2, LenProperties, ElementOfSeq
<1>4. r = after[size]
  OBVIOUS
<1>5. after[0] = start /\ \A i \in 1 .. size : after[i] = Taken(after[i - 1], queue[i], name)
  BY DEF ReadRun
<1> HIDE DEF queue, name, size
<1>6. \A i \in 0 .. size : Good(after[i], keys)
  <2> DEFINE T == {i \in 0 .. size : Good(after[i], keys)}
  <2>1. 0 \in T
    BY <1>3, <1>5
  <2>2. ASSUME NEW i \in 1 .. size, i - 1 \in T PROVE i \in T
    <3>1. Good(Taken(after[i - 1], queue[i], name), keys)
      BY <1>1, <1>2, <1>3, <2>2, TakenGood
    <3> QED BY <1>3, <1>5, <3>1
  <2>3. \A i \in 0 .. size : i \in T
    <3> HIDE DEF T
    <3> QED BY <1>3, <2>1, <2>2, Climb
  <2> QED BY <2>3
<1>7. ASSUME NEW i \in 1 .. size, NEW m \in Node
      PROVE  after[i].switches[m]
               = IF queue[i].type = "switch" /\ SwitchOf(m, name) THEN StateOf(queue[i].value)
                 ELSE after[i - 1].switches[m]
  <2>1. i - 1 \in 0 .. size /\ queue[i] \in Event
    BY <1>3
  <2>2. Good(after[i - 1], keys)
    BY <1>6, <2>1
  <2>3. Taken(after[i - 1], queue[i], name).switches[m]
          = IF queue[i].type = "switch" /\ SwitchOf(m, name) THEN StateOf(queue[i].value)
            ELSE after[i - 1].switches[m]
    BY <1>1, <1>2, <2>1, <2>2, TakenGood
  <2> QED BY <1>5, <2>3
<1>8. ASSUME NEW m \in Node, ~SwitchOf(m, name)
      PROVE  after[size].switches[m] = start.switches[m]
  <2> DEFINE T == {i \in 0 .. size : after[i].switches[m] = start.switches[m]}
  <2>1. 0 \in T
    BY <1>3, <1>5
  <2>2. ASSUME NEW i \in 1 .. size, i - 1 \in T PROVE i \in T
    BY <1>3, <1>7, <1>8, <2>2
  <2>3. \A i \in 0 .. size : i \in T
    <3> HIDE DEF T
    <3> QED BY <1>3, <2>1, <2>2, Climb
  <2> QED BY <1>3, <2>3
<1>9. ASSUME NEW m \in Node, SwitchOf(m, name)
      PROVE  ShowsLast(queue, size, start.switches[m], after[size].switches[m])
  <2> DEFINE T == {i \in 0 .. size :
                     ShowsLast(queue, i, start.switches[m], after[i].switches[m])}
  <2>1. 0 \in T
    BY <1>3, <1>5 DEF ShowsLast, NoMove
  <2>2. ASSUME NEW i \in 1 .. size, i - 1 \in T PROVE i \in T
    <3>1. ShowsLast(queue, i - 1, start.switches[m], after[i - 1].switches[m])
      BY <2>2
    <3>2. \A k \in 1 .. i : k = i \/ k \in 1 .. i - 1
      BY <1>3
    <3>3. CASE queue[i].type = "switch"
      <4>1. after[i].switches[m] = StateOf(queue[i].value)
        BY <1>7, <1>9, <3>3
      <4>2. LastMove(queue, i, i)
        BY <1>3, <3>3 DEF LastMove
      <4>3. i \in 1 .. i /\ i \in 0 .. size
        BY <1>3
      <4> QED BY <4>1, <4>2, <4>3 DEF ShowsLast
    <3>4. CASE queue[i].type # "switch"
      <4>1. after[i].switches[m] = after[i - 1].switches[m]
        BY <1>7, <3>4
      <4>2. CASE NoMove(queue, i - 1) /\ after[i - 1].switches[m] = start.switches[m]
        <5>1. NoMove(queue, i)
          BY <3>2, <3>4, <4>2 DEF NoMove
        <5> QED BY <1>3, <4>1, <4>2, <5>1 DEF ShowsLast
      <4>3. ASSUME NEW j \in 1 .. i - 1, LastMove(queue, j, i - 1),
                   after[i - 1].switches[m] = StateOf(queue[j].value)
            PROVE  i \in T
        <5>1. j \in 1 .. i /\ i \in 0 .. size
          BY <1>3
        <5>2. LastMove(queue, j, i)
          BY <3>2, <3>4, <4>3, <5>1 DEF LastMove
        <5> QED BY <4>1, <4>3, <5>1, <5>2 DEF ShowsLast
      <4> QED BY <3>1, <4>2, <4>3 DEF ShowsLast
    <3> QED BY <3>3, <3>4
  <2>3. \A i \in 0 .. size : i \in T
    <3> HIDE DEF T
    <3> QED BY <1>3, <2>1, <2>2, Climb
  <2> QED BY <1>3, <2>3
<1>10. Good(r, keys)
  BY <1>3, <1>4, <1>6
<1> QED BY <1>4, <1>8, <1>9, <1>10 DEF queue, name, size

------------------------------------------------------------------------------
(* The button test: the invariant *)

\* SwitchKnown of any queue.
MovesIn(queue) == {i \in DOMAIN queue : queue[i].type = "switch"}

Known(queue, state, set) ==
  IF MovesIn(queue) = {} THEN state = StateOf(set)
  ELSE \A i \in MovesIn(queue) :
         (\A j \in MovesIn(queue) : j <= i) => queue[i].value = set

\* The parts of the invariant that say something of one node.
FdFits(fd, device) == fd.open => device # NoDevice /\ fd.name = device.name

Hears(fd) == fd.open /\ ~fd.gone /\ ~fd.dropped /\ fd.heard

LEMMA KeyIInvIs ==
  ASSUME KeyIInv
  PROVE  /\ KeyTypeOK /\ TilesStand /\ TilesFit
         /\ \A n \in Node : FdFits(fds[n], devices[n])
         /\ \A n \in Node : Hears(fds[n]) /\ OnlyOfItsName(n)
              => Known(fds[n].queue, switches[n], closed[n])
BY DEF KeyIInv, FdsFit, FdFits, SwitchesFit, Hears, SwitchKnown, SwitchMoved, Known, MovesIn

LEMMA KeyIInvFrom ==
  ASSUME KeyTypeOK', TilesStand', TilesFit',
         \A n \in Node : FdFits(fds'[n], devices'[n]),
         \A n \in Node : Hears(fds'[n]) /\ OnlyOfItsName(n)'
           => Known(fds'[n].queue, switches'[n], closed'[n])
  PROVE  KeyIInv'
<1>1. FdsFit'
  BY DEF FdsFit, FdFits
<1>2. SwitchesFit'
  BY DEF SwitchesFit, Hears, SwitchKnown, SwitchMoved, Known, MovesIn
<1> QED BY <1>1, <1>2 DEF KeyIInv

LEMMA KeyInitIInv == KeyInit => KeyIInv
<1> SUFFICES ASSUME KeyInit PROVE KeyIInv
  OBVIOUS
<1> USE KeyMonAssumption
<1>1. keys = <<>> /\ tiles = {} /\ \A n \in Node : fds[n] = NoFd /\ ~fds[n].open
  BY NoFdIs DEF KeyInit
<1>2. keys \in Seq(KeyType) /\ Len(keys) = 0 /\ DOMAIN keys = {}
  BY <1>1, EmptySeq
<1>3. Cardinality(LitIn(keys)) = 0
  BY <1>2, LitFinite
<1>4. KeyTypeOK
  <2>1. /\ plugged \in [Node -> Device \cup {NoDevice}] /\ closed \in [Node -> BOOLEAN]
        /\ down \in [Node -> SUBSET Code] /\ events \in Nat /\ plugs \in Nat
        /\ devices \in [Node -> Device \cup {NoDevice}] /\ held \subseteq Node \X Code
        /\ switches \in [Node -> {"none", "set", "not set"}]
    BY DEF KeyInit
  <2>2. last \in LastType /\ fds \in [Node -> FdType]
    BY NoFdIs DEF KeyInit, LastType
  <2>3. seenCount = Cardinality({i \in DOMAIN keys : keys[i].seen})
    BY <1>3 DEF KeyInit, LitIn
  <2>4. page \in {"away", "sensors", "test", "glossary"}
    BY DEF KeyInit
  <2>5. Len(keys) <= MaxKeys
    BY <1>2
  <2> QED BY <1>1, <1>2, <2>1, <2>2, <2>3, <2>4, <2>5, Zenon DEF KeyTypeOK
<1>5. TilesStand /\ TilesFit
  BY <1>1, <1>2 DEF TilesStand, TilesFit
<1>6. FdsFit /\ SwitchesFit
  BY <1>1 DEF FdsFit, SwitchesFit
<1> QED BY <1>4, <1>5, <1>6 DEF KeyIInv

\* A descriptor that takes an event.
LEMMA QueuedIs ==
  ASSUME NEW fd \in OpenFd, NEW e \in Event
  PROVE  /\ Queued(fd, e) \in OpenFd
         /\ Queued(fd, e).name = fd.name
         /\ ~Queued(fd, e).dropped => ~fd.dropped /\ Queued(fd, e).queue = Append(fd.queue, e)
         /\ Queued(fd, e).heard => fd.heard \/ e.type = "switch"
<1> DEFINE full == Len(fd.queue) = Buffer
           queue == IF full THEN <<e>> ELSE Append(fd.queue, e)
           new == [fd EXCEPT !.queue = queue, !.dropped = @ \/ full,
                             !.heard = @ \/ e.type = "switch"]
<1>1. Queued(fd, e) = new
  BY DEF Queued
<1>2. fd.queue \in Seq(Event)
  BY DEF OpenFd
<1>3. queue \in Seq(Event)
  <2>1. <<e>> \in Seq(Event) /\ Append(fd.queue, e) \in Seq(Event)
    BY <1>2, AppendProperties
  <2> QED BY <2>1
<1>4. ~full => queue = Append(fd.queue, e)
  OBVIOUS
<1> HIDE DEF queue, full
<1>5. /\ new \in OpenFd /\ new.name = fd.name /\ new.queue = queue
      /\ new.dropped = (fd.dropped \/ full) /\ new.heard = (fd.heard \/ e.type = "switch")
  BY <1>3 DEF OpenFd
<1> HIDE DEF new
<1> QED BY <1>1, <1>4, <1>5

\* What is known of a switch stays known with one event more in the queue.
LEMMA KnownMore ==
  ASSUME NEW queue \in Seq(Event), NEW e \in Event, NEW state, NEW before, NEW set,
         e.type = "switch" => e.value = set,
         e.type # "switch" => set = before /\ Known(queue, state, before)
  PROVE  Known(Append(queue, e), state, set)
<1> DEFINE size == Len(queue)
           new == Append(queue, e)
<1>1. /\ DOMAIN queue = 1 .. size /\ size \in Nat /\ DOMAIN new = 1 .. size + 1
      /\ \A i \in 1 .. size : new[i] = queue[i]
      /\ new[size + 1] = e
  <2>1. Append(queue, e) \in Seq(Event) /\ Len(Append(queue, e)) = size + 1
    BY AppendProperties
  <2> QED BY <2>1, AppendProperties, LenProperties
<1> HIDE DEF new, size
<1>2. CASE e.type = "switch"
  <2>1. size + 1 \in MovesIn(new)
    BY <1>1, <1>2 DEF MovesIn
  <2>2. ASSUME NEW i \in MovesIn(new), \A j \in MovesIn(new) : j <= i PROVE new[i].value = set
    <3>1. i \in 1 .. size + 1 /\ size + 1 <= i
      BY <1>1, <2>1, <2>2 DEF MovesIn
    <3>2. i = size + 1
      BY <1>1, <3>1
    <3> QED BY <1>1, <1>2, <3>2
  <2> QED BY <2>1, <2>2 DEF Known, new
<1>3. CASE e.type # "switch"
  <2>1. MovesIn(new) = MovesIn(queue)
    <3>1. \A i \in 1 .. size + 1 : i \in 1 .. size \/ i = size + 1
      BY <1>1
    <3>2. \A i \in 1 .. size : i \in 1 .. size + 1
      BY <1>1
    <3> QED BY <1>1, <1>3, <3>1, <3>2 DEF MovesIn
  <2>2. \A i \in MovesIn(queue) : new[i] = queue[i]
    BY <1>1 DEF MovesIn
  <2> QED BY <1>3, <2>1, <2>2 DEF Known, new
<1> QED BY <1>2, <1>3

\* The kernel reports an event of a node whose keys or switch have moved.
LEMMA ReportsIInv ==
  ASSUME KeyIInv, NEW n \in Node, NEW e \in Event, Reports(n, e),
         down' \in [Node -> SUBSET Code], closed' \in [Node -> BOOLEAN],
         \A m \in Node \ {n} : closed'[m] = closed[m],
         IF e.type = "switch" THEN e.value = closed'[n] ELSE closed'[n] = closed[n]
  PROVE  KeyIInv'
<1>1. /\ KeyTypeOK /\ TilesStand /\ TilesFit
      /\ \A m \in Node : FdFits(fds[m], devices[m])
      /\ \A m \in Node : Hears(fds[m]) /\ OnlyOfItsName(m)
           => Known(fds[m].queue, switches[m], closed[m])
  BY KeyIInvIs
<1>2. /\ fds' = [fds EXCEPT ![n] = IF @.open /\ ~@.gone THEN Queued(@, e) ELSE @]
      /\ plugged' = plugged /\ plugs' = plugs /\ last' = last /\ page' = page /\ tiles' = tiles
      /\ devices' = devices /\ keys' = keys /\ switches' = switches /\ held' = held
      /\ seenCount' = seenCount
      /\ events' = events + 1
  BY DEF Reports, listVars
<1>3. fds \in [Node -> FdType] /\ events \in Nat
  BY <1>1 DEF KeyTypeOK
<1>4. \A m \in Node \ {n} : fds'[m] = fds[m]
  BY <1>2, <1>3
<1>5. ~(fds[n].open /\ ~fds[n].gone) => fds'[n] = fds[n]
  BY <1>2, <1>3
<1>6. fds[n].open /\ ~fds[n].gone =>
        /\ fds[n] \in OpenFd /\ fds'[n] \in OpenFd /\ fds'[n].name = fds[n].name
        /\ ~fds'[n].dropped => ~fds[n].dropped /\ fds'[n].queue = Append(fds[n].queue, e)
        /\ fds'[n].heard => fds[n].heard \/ e.type = "switch"
  <2> SUFFICES ASSUME fds[n].open, ~fds[n].gone
               PROVE  /\ fds[n] \in OpenFd /\ fds'[n] \in OpenFd /\ fds'[n].name = fds[n].name
                      /\ ~fds'[n].dropped => /\ ~fds[n].dropped
                                             /\ fds'[n].queue = Append(fds[n].queue, e)
                      /\ fds'[n].heard => fds[n].heard \/ e.type = "switch"
    OBVIOUS
  <2>1. fds[n] \in OpenFd
    BY <1>3, FdIs
  <2>2. fds'[n] = Queued(fds[n], e)
    BY <1>2, <1>3
  <2> QED BY <2>1, <2>2, QueuedIs
<1>7. fds' \in [Node -> FdType]
  <2>1. fds'[n] \in FdType
    BY <1>3, <1>5, <1>6 DEF FdType, OpenFd
  <2>2. \A m \in Node : fds'[m] \in FdType
    BY <1>3, <1>4, <2>1
  <2>3. DOMAIN fds' = Node /\ fds' = [m \in DOMAIN fds' |-> fds'[m]]
    BY <1>2, <1>3
  <2> QED BY <2>2, <2>3
<1>8. KeyTypeOK'
  <2>1. events' \in Nat
    BY <1>2, <1>3
  <2>2. page # "test" => \A m \in Node : fds'[m] = NoFd
    BY <1>1, <1>4, <1>5, NoFdIs DEF KeyTypeOK
  <2> QED BY <1>1, <1>2, <1>7, <2>1, <2>2 DEF KeyTypeOK
<1>9. TilesStand' /\ TilesFit'
  BY <1>1, <1>2 DEF TilesStand, TilesFit
<1>10. ASSUME NEW m \in Node PROVE FdFits(fds'[m], devices'[m])
  <2>1. FdFits(fds[m], devices[m])
    BY <1>1
  <2>2. \/ fds'[m] = fds[m]
        \/ fds[m].open /\ fds'[m].name = fds[m].name
    BY <1>4, <1>5, <1>6
  <2> QED BY <1>2, <2>1, <2>2 DEF FdFits
<1>11. ASSUME NEW m \in Node, Hears(fds'[m]), OnlyOfItsName(m)'
       PROVE  Known(fds'[m].queue, switches'[m], closed'[m])
  <2>1. OnlyOfItsName(m)
    BY <1>2, <1>11 DEF OnlyOfItsName
  <2>2. CASE m # n
    <3>1. fds'[m] = fds[m] /\ closed'[m] = closed[m]
      BY <1>4, <2>2
    <3> QED BY <1>1, <1>2, <1>11, <2>1, <3>1
  <2>3. CASE m = n
    <3>1. fds[n].open /\ ~fds[n].gone
      BY <1>5, <1>11, <2>3 DEF Hears
    <3>2. /\ ~fds[n].dropped /\ fds'[n].queue = Append(fds[n].queue, e)
          /\ fds[n].heard \/ e.type = "switch"
      BY <1>6, <1>11, <2>3, <3>1 DEF Hears
    <3>3. fds[n].queue \in Seq(Event)
      BY <1>6, <3>1 DEF OpenFd
    <3>4. e.type # "switch" => Known(fds[n].queue, switches[n], closed[n])
      BY <1>1, <2>1, <2>3, <3>1, <3>2 DEF Hears
    <3>5. Known(Append(fds[n].queue, e), switches[n], closed'[n])
      BY <3>3, <3>4, KnownMore
    <3> QED BY <1>2, <2>3, <3>2, <3>5
  <2> QED BY <2>2, <2>3
<1> QED BY <1>8, <1>9, <1>10, <1>11, KeyIInvFrom

LEMMA MovesKeyIInv ==
  ASSUME KeyIInv, NEW n \in Node,
         SwitchMoves(n) \/ \E c \in Code : KeyMoves(n, c)
  PROVE  KeyIInv'
<1>1. /\ down \in [Node -> SUBSET Code] /\ closed \in [Node -> BOOLEAN]
      /\ plugged \in [Node -> Device \cup {NoDevice}]
  BY DEF KeyIInv, KeyTypeOK
<1>2. CASE SwitchMoves(n)
  <2> DEFINE e == [type |-> "switch", code |-> 0, value |-> closed'[n]]
  <2>1. closed' = [closed EXCEPT ![n] = ~@] /\ down' = down /\ Reports(n, e)
    BY <1>2 DEF SwitchMoves
  <2>2. closed' \in [Node -> BOOLEAN] /\ \A m \in Node \ {n} : closed'[m] = closed[m]
    BY <1>1, <2>1
  <2>3. e \in Event /\ e.type = "switch" /\ e.value = closed'[n]
    BY <2>2 DEF Event
  <2> HIDE DEF e
  <2> QED BY <1>1, <2>1, <2>2, <2>3, ReportsIInv
<1>3. ASSUME NEW c \in Code, KeyMoves(n, c) PROVE KeyIInv'
  <2> DEFINE e == [type |-> "key", code |-> c, value |-> c \in down'[n]]
  <2>1. /\ down' = [down EXCEPT ![n] = IF c \in @ THEN @ \ {c} ELSE @ \cup {c}]
        /\ closed' = closed /\ Reports(n, e)
    BY <1>3 DEF KeyMoves
  <2>2. down' \in [Node -> SUBSET Code]
    BY <1>1, <2>1
  <2>3. e \in Event /\ e.type # "switch"
    BY DEF Event
  <2> HIDE DEF e
  <2> QED BY <1>1, <2>1, <2>2, <2>3, ReportsIInv
<1> QED BY <1>2, <1>3

LEMMA PlugsIInv ==
  ASSUME KeyIInv, NEW n \in Node, Unplug(n) \/ \E d \in Device : Plug(n, d)
  PROVE  KeyIInv'
<1>1. /\ KeyTypeOK /\ TilesStand /\ TilesFit
      /\ \A m \in Node : FdFits(fds[m], devices[m])
      /\ \A m \in Node : Hears(fds[m]) /\ OnlyOfItsName(m)
           => Known(fds[m].queue, switches[m], closed[m])
  BY KeyIInvIs
<1>2. /\ plugged \in [Node -> Device \cup {NoDevice}] /\ down \in [Node -> SUBSET Code]
      /\ closed \in [Node -> BOOLEAN] /\ fds \in [Node -> FdType] /\ plugs \in Nat
  BY <1>1 DEF KeyTypeOK
<1>3. CASE Unplug(n)
  <2>1. /\ plugs' = plugs + 1 /\ plugged' = [plugged EXCEPT ![n] = NoDevice]
        /\ down' = [down EXCEPT ![n] = {}] /\ closed' = [closed EXCEPT ![n] = FALSE]
        /\ fds' = [fds EXCEPT ![n] = IF @.open THEN [@ EXCEPT !.gone = TRUE] ELSE @]
        /\ events' = events /\ last' = last /\ page' = page /\ tiles' = tiles
        /\ devices' = devices /\ keys' = keys /\ switches' = switches /\ held' = held
        /\ seenCount' = seenCount
    BY <1>3 DEF Unplug, listVars
  <2>2. /\ plugs' \in Nat /\ plugged' \in [Node -> Device \cup {NoDevice}]
        /\ down' \in [Node -> SUBSET Code] /\ closed' \in [Node -> BOOLEAN]
        /\ \A m \in Node \ {n} : closed'[m] = closed[m] /\ fds'[m] = fds[m]
    BY <1>2, <2>1
  <2>3. /\ fds'[n] \in FdType
        /\ \/ fds'[n] = fds[n] /\ ~fds[n].open
           \/ fds[n].open /\ fds'[n].open /\ fds'[n].gone /\ fds'[n].name = fds[n].name
    <3>1. CASE fds[n].open
      <4> DEFINE gone == [fds[n] EXCEPT !.gone = TRUE]
      <4>1. fds[n] \in OpenFd
        BY <1>2, <3>1, FdIs
      <4>2. gone \in OpenFd /\ gone.open /\ gone.gone /\ gone.name = fds[n].name
        BY <4>1 DEF OpenFd
      <4>3. fds'[n] = gone
        BY <1>2, <2>1, <3>1
      <4> HIDE DEF gone
      <4>4. fds'[n] \in FdType
        BY <4>2, <4>3 DEF FdType, OpenFd
      <4> QED BY <3>1, <4>2, <4>3, <4>4
    <3>2. CASE ~fds[n].open
      <4>1. fds'[n] = fds[n]
        BY <1>2, <2>1, <3>2
      <4>2. fds[n] \in FdType
        BY <1>2
      <4> QED BY <3>2, <4>1, <4>2
    <3> QED BY <3>1, <3>2
  <2>4. fds' \in [Node -> FdType]
    <3>1. \A m \in Node : fds'[m] \in FdType
      BY <1>2, <2>2, <2>3
    <3>2. DOMAIN fds' = Node /\ fds' = [m \in DOMAIN fds' |-> fds'[m]]
      BY <1>2, <2>1
    <3> QED BY <3>1, <3>2
  <2>5. KeyTypeOK'
    <3>1. page # "test" => \A m \in Node : fds'[m] = NoFd
      BY <1>1, <2>2, <2>3, NoFdIs DEF KeyTypeOK
    <3> QED BY <1>1, <2>1, <2>2, <2>4, <3>1 DEF KeyTypeOK
  <2>6. TilesStand' /\ TilesFit'
    BY <1>1, <2>1 DEF TilesStand, TilesFit
  <2>7. \A m \in Node : FdFits(fds'[m], devices'[m])
    BY <1>1, <2>1, <2>2, <2>3 DEF FdFits
  <2>8. ASSUME NEW m \in Node, Hears(fds'[m]), OnlyOfItsName(m)'
        PROVE  Known(fds'[m].queue, switches'[m], closed'[m])
    <3>1. m # n
      BY <2>3, <2>8 DEF Hears
    <3>2. OnlyOfItsName(m)
      BY <2>1, <2>8 DEF OnlyOfItsName
    <3>3. fds'[m] = fds[m] /\ closed'[m] = closed[m]
      BY <2>2, <3>1
    <3> QED BY <1>1, <2>1, <2>8, <3>2, <3>3
  <2> QED BY <2>5, <2>6, <2>7, <2>8, KeyIInvFrom
<1>4. ASSUME NEW d \in Device, Plug(n, d) PROVE KeyIInv'
  <2>1. /\ plugs' = plugs + 1 /\ plugged' = [plugged EXCEPT ![n] = d]
        /\ down' = down /\ closed' = closed /\ fds' = fds
        /\ events' = events /\ last' = last /\ page' = page /\ tiles' = tiles
        /\ devices' = devices /\ keys' = keys /\ switches' = switches /\ held' = held
        /\ seenCount' = seenCount
    BY <1>4 DEF Plug, listVars
  <2>2. plugs' \in Nat /\ plugged' \in [Node -> Device \cup {NoDevice}]
    BY <1>2, <2>1
  <2>3. KeyTypeOK'
    BY <1>1, <2>1, <2>2 DEF KeyTypeOK
  <2>4. TilesStand' /\ TilesFit'
    BY <1>1, <2>1 DEF TilesStand, TilesFit
  <2>5. \A m \in Node : OnlyOfItsName(m)' <=> OnlyOfItsName(m)
    BY <2>1 DEF OnlyOfItsName
  <2>6. \A m \in Node : FdFits(fds'[m], devices'[m])
    BY <1>1, <2>1
  <2>7. \A m \in Node : Hears(fds'[m]) /\ OnlyOfItsName(m)'
          => Known(fds'[m].queue, switches'[m], closed'[m])
    BY <1>1, <2>1, <2>5
  <2> QED BY <2>3, <2>4, <2>6, <2>7, KeyIInvFrom
<1> QED BY <1>3, <1>4

\* What reading a descriptor that still has its device makes of the lists.
LEMMA ReadReadyDoes ==
  ASSUME KeyTypeOK, NEW n \in Node, ReadReady(n), ~fds[n].gone
  PROVE  /\ keys' \in Seq(KeyType) /\ StillLit(keys, keys')
         /\ seenCount' = Cardinality(LitIn(keys')) /\ switches' \in SwitchStates
         /\ last' \in LastType
         /\ fds' = [fds EXCEPT ![n].queue = <<>>]
         /\ \A m \in Node :
              IF SwitchOf(m, fds[n].name)
                THEN ShowsLast(fds[n].queue, Len(fds[n].queue), switches[m], switches'[m])
                ELSE switches'[m] = switches[m]
<1> DEFINE start == [keys |-> keys, count |-> seenCount, switches |-> switches, last |-> last]
<1>1. /\ keys \in Seq(KeyType) /\ seenCount = Cardinality(LitIn(keys))
      /\ switches \in SwitchStates /\ last \in LastType
  BY DEF KeyTypeOK, LitIn, SwitchStates
<1>2. start.keys = keys /\ start.count = seenCount /\ start.switches = switches
  OBVIOUS
<1>3. start \in ReadState
  BY <1>1, LitFinite DEF ReadState
<1>4. Good(start, keys)
  <2>1. StillLit(keys, keys)
    BY DEF StillLit
  <2> HIDE DEF start
  <2> QED BY <1>1, <1>2, <1>3, <2>1 DEF Good
<1>5. fds[n].open
  BY DEF ReadReady
<1> HIDE DEF start
<1>6. PICK after : /\ ReadRun(after, n, start)
                   /\ Loop(LAMBDA s, e : Taken(s, e, fds[n].name), start, fds[n].queue)
                        = after[Len(fds[n].queue)]
  BY <1>4, <1>5, ReadRuns
<1> DEFINE r == after[Len(fds[n].queue)]
<1>7. /\ keys' = r.keys /\ seenCount' = r.count /\ switches' = r.switches /\ last' = r.last
      /\ fds' = [fds EXCEPT ![n].queue = <<>>]
  BY <1>6 DEF ReadReady, start
<1>8. ReadRun(after, n, start)
  BY <1>6
<1> HIDE DEF r
<1>9. /\ Good(r, keys)
      /\ \A m \in Node :
           IF SwitchOf(m, fds[n].name)
             THEN ShowsLast(fds[n].queue, Len(fds[n].queue), start.switches[m], r.switches[m])
             ELSE r.switches[m] = start.switches[m]
  <2>1. r = after[Len(fds[n].queue)]
    BY DEF r
  <2> QED BY <1>4, <1>5, <1>8, <2>1, ReadAll
<1>10. r \in ReadState /\ StillLit(keys, r.keys) /\ r.count = Cardinality(LitIn(r.keys))
  BY <1>9 DEF Good
<1>11. r.keys \in Seq(KeyType) /\ r.switches \in SwitchStates /\ r.last \in LastType
  BY <1>10 DEF ReadState
<1>12. \A m \in Node :
         IF SwitchOf(m, fds[n].name)
           THEN ShowsLast(fds[n].queue, Len(fds[n].queue), switches[m], switches'[m])
           ELSE switches'[m] = switches[m]
  BY <1>2, <1>7, <1>9
<1> QED BY <1>7, <1>10, <1>11, <1>12

LEMMA ReadReadyIInv ==
  ASSUME KeyIInv, NEW n \in Node, ReadReady(n)
  PROVE  KeyIInv'
<1>1. /\ KeyTypeOK /\ TilesStand /\ TilesFit
      /\ \A m \in Node : FdFits(fds[m], devices[m])
      /\ \A m \in Node : Hears(fds[m]) /\ OnlyOfItsName(m)
           => Known(fds[m].queue, switches[m], closed[m])
  BY KeyIInvIs
<1>2. /\ plugged' = plugged /\ down' = down /\ closed' = closed /\ events' = events
      /\ plugs' = plugs /\ devices' = devices /\ held' = held /\ page' = page /\ tiles' = tiles
      /\ fds[n].open
  BY DEF ReadReady, inputVars
<1>3. \A m \in Node : OnlyOfItsName(m)' <=> OnlyOfItsName(m)
  BY <1>2 DEF OnlyOfItsName
<1>4. CASE fds[n].gone
  <2>1. /\ keys' = keys /\ seenCount' = seenCount /\ switches' = switches
        /\ last' = last /\ fds' = fds
    BY <1>4 DEF ReadReady
  <2>2. KeyTypeOK'
    BY <1>1, <1>2, <2>1 DEF KeyTypeOK
  <2>3. TilesStand' /\ TilesFit'
    BY <1>1, <1>2, <2>1 DEF TilesStand, TilesFit
  <2>4. \A m \in Node : FdFits(fds'[m], devices'[m])
    BY <1>1, <1>2, <2>1
  <2>5. \A m \in Node : Hears(fds'[m]) /\ OnlyOfItsName(m)'
          => Known(fds'[m].queue, switches'[m], closed'[m])
    BY <1>1, <1>2, <1>3, <2>1
  <2> QED BY <2>2, <2>3, <2>4, <2>5, KeyIInvFrom
<1>5. CASE ~fds[n].gone
  <2>1. /\ keys' \in Seq(KeyType) /\ StillLit(keys, keys')
        /\ seenCount' = Cardinality(LitIn(keys')) /\ switches' \in SwitchStates
        /\ last' \in LastType
        /\ fds' = [fds EXCEPT ![n].queue = <<>>]
        /\ \A m \in Node :
             IF SwitchOf(m, fds[n].name)
               THEN ShowsLast(fds[n].queue, Len(fds[n].queue), switches[m], switches'[m])
               ELSE switches'[m] = switches[m]
    BY <1>1, <1>5, ReadReadyDoes
  <2>2. fds \in [Node -> FdType] /\ fds[n] \in OpenFd
    <3>1. fds \in [Node -> FdType] /\ fds[n] \in FdType
      BY <1>1 DEF KeyTypeOK
    <3> QED BY <1>2, <3>1, FdIs
  <2> DEFINE fd == [fds[n] EXCEPT !.queue = <<>>]
  <2>3. /\ fd \in OpenFd /\ fd.queue = <<>> /\ fd.name = fds[n].name
        /\ fd.gone = fds[n].gone /\ fd.dropped = fds[n].dropped /\ fd.heard = fds[n].heard
    <3>1. <<>> \in Seq(Event)
      BY EmptySeq
    <3> QED BY <2>2, <3>1 DEF OpenFd
  <2>4. fds' = [fds EXCEPT ![n] = fd]
    BY <2>1, Zenon
  <2> HIDE DEF fd
  <2>5. /\ fds' \in [Node -> FdType] /\ fds'[n] = fd
        /\ \A m \in Node \ {n} : fds'[m] = fds[m]
    <3>1. fd \in FdType
      BY <2>3 DEF FdType, OpenFd
    <3> QED BY <2>2, <2>4, <3>1
  <2>6. /\ Len(keys') = Len(keys) /\ DOMAIN keys' = DOMAIN keys
        /\ \A i \in DOMAIN keys : keys'[i].node = keys[i].node /\ keys'[i].code = keys[i].code
    <3>1. keys \in Seq(KeyType)
      BY <1>1 DEF KeyTypeOK
    <3>2. DOMAIN keys = 1 .. Len(keys) /\ DOMAIN keys' = 1 .. Len(keys')
      BY <2>1, <3>1, LenProperties
    <3> QED BY <2>1, <3>2 DEF StillLit
  <2>7. KeyTypeOK'
    <3>1. page # "test" => \A m \in Node : fds'[m] = NoFd
      BY <1>1, <1>2, NoFdIs DEF KeyTypeOK
    <3>2. /\ plugged' \in [Node -> Device \cup {NoDevice}] /\ closed' \in [Node -> BOOLEAN]
          /\ down' \in [Node -> SUBSET Code] /\ events' \in Nat /\ plugs' \in Nat
          /\ devices' \in [Node -> Device \cup {NoDevice}] /\ held' \subseteq Node \X Code
          /\ page' \in {"away", "sensors", "test", "glossary"} /\ Len(keys') <= MaxKeys
      BY <1>1, <1>2, <2>6 DEF KeyTypeOK
    <3>3. seenCount' = Cardinality({i \in DOMAIN keys' : keys'[i].seen})
      BY <2>1 DEF LitIn
    <3> QED BY <1>2, <2>1, <2>5, <3>1, <3>2, <3>3 DEF KeyTypeOK, SwitchStates
  <2>8. TilesStand' /\ TilesFit'
    BY <1>1, <1>2, <2>6 DEF TilesStand, TilesFit
  <2>9. \A m \in Node : FdFits(fds'[m], devices'[m])
    BY <1>1, <1>2, <2>3, <2>5 DEF FdFits
  <2>10. ASSUME NEW m \in Node, Hears(fds'[m]), OnlyOfItsName(m)'
         PROVE  Known(fds'[m].queue, switches'[m], closed'[m])
    <3>1. Hears(fds[m])
      <4>1. CASE m = n
        BY <1>2, <2>3, <2>5, <2>10, <4>1 DEF Hears
      <4>2. CASE m # n
        BY <2>5, <2>10, <4>2
      <4> QED BY <4>1, <4>2
    <3>2. OnlyOfItsName(m) /\ Known(fds[m].queue, switches[m], closed[m])
      BY <1>1, <1>3, <2>10, <3>1
    <3>3. /\ devices[m] # NoDevice /\ fds[m].name = devices[m].name
          /\ devices[n] # NoDevice /\ fds[n].name = devices[n].name
      BY <1>1, <1>2, <3>1 DEF FdFits, Hears
    <3>4. CASE m # n
      <4>1. ~SwitchOf(m, fds[n].name)
        BY <3>2, <3>3, <3>4 DEF OnlyOfItsName, SwitchOf
      <4>2. switches'[m] = switches[m]
        BY <2>1, <4>1
      <4> QED BY <1>2, <2>5, <3>2, <3>4, <4>2
    <3>5. CASE m = n
      <4> DEFINE queue == fds[n].queue
      <4>1. SwitchOf(n, fds[n].name)
        BY <3>3 DEF SwitchOf
      <4>2. ShowsLast(queue, Len(queue), switches[n], switches'[n])
        BY <2>1, <4>1
      <4>3. queue \in Seq(Event)
        BY <2>2 DEF OpenFd
      <4>4. DOMAIN queue = 1 .. Len(queue)
        BY <4>3, LenProperties
      <4> HIDE DEF queue
      <4>5. Known(queue, switches[n], closed[n])
        BY <3>2, <3>5 DEF queue
      <4>6. switches'[n] = StateOf(closed[n])
        <5>1. CASE NoMove(queue, Len(queue)) /\ switches'[n] = switches[n]
          <6>1. MovesIn(queue) = {}
            BY <4>4, <5>1 DEF NoMove, MovesIn
          <6> QED BY <4>5, <5>1, <6>1 DEF Known
        <5>2. ASSUME NEW j \in 1 .. Len(queue), LastMove(queue, j, Len(queue)),
                     switches'[n] = StateOf(queue[j].value)
              PROVE  switches'[n] = StateOf(closed[n])
          <6>1. j \in MovesIn(queue) /\ \A k \in MovesIn(queue) : k <= j
            BY <4>4, <5>2 DEF LastMove, MovesIn
          <6>2. queue[j].value = closed[n]
            BY <4>5, <6>1 DEF Known
          <6> QED BY <5>2, <6>2
        <5> QED BY <4>2, <5>1, <5>2 DEF ShowsLast
      <4>7. MovesIn(<<>>) = {}
        BY DEF MovesIn
      <4> QED BY <1>2, <2>3, <2>5, <3>5, <4>6, <4>7 DEF Known
    <3> QED BY <3>4, <3>5
  <2> QED BY <2>7, <2>8, <2>9, <2>10, KeyIInvFrom
<1> QED BY <1>4, <1>5

\* A refreshed list has only listed devices' keys, none lit.
LEMMA Refreshed ==
  ASSUME KeyTypeOK, Refresh
  PROVE  /\ devices' \in [Node -> Device \cup {NoDevice}] /\ held' \subseteq Node \X Code
         /\ keys' \in Seq(KeyType) /\ Len(keys') <= MaxKeys
         /\ switches' \in SwitchStates /\ seenCount' = Cardinality(LitIn(keys'))
         /\ \A i \in DOMAIN keys' : devices'[keys'[i].node] # NoDevice
<1>1. PICK denied \in SUBSET Node :
        /\ devices' = [n \in Node |-> IF n \in denied THEN NoDevice ELSE plugged[n]]
        /\ keys' = Checklist(devices')
        /\ switches' = [n \in Node |-> IF devices'[n] = NoDevice THEN "none"
                                       ELSE StateOf(closed[n])]
        /\ held' = {h \in Node \X Code : devices'[h[1]] # NoDevice /\ h[2] \in down[h[1]]}
        /\ seenCount' = 0
  BY DEF Refresh
<1>2. devices' \in [Node -> Device \cup {NoDevice}]
  BY <1>1 DEF KeyTypeOK
<1>3. keys' \in Seq(Listed(devices')) /\ Len(keys') <= MaxKeys
  BY <1>1, <1>2, ChecklistListed
<1>4. keys' \in Seq(KeyType)
  <2>1. Listed(devices') \subseteq KeyType
    BY DEF Listed
  <2> QED BY <1>3, <2>1, SeqMonotonic
<1>5. \A i \in DOMAIN keys' : devices'[keys'[i].node] # NoDevice /\ ~keys'[i].seen
  <2>1. DOMAIN keys' = 1 .. Len(keys') /\ \A i \in 1 .. Len(keys') : keys'[i] \in Listed(devices')
    BY <1>3, LenProperties, ElementOfSeq
  <2> QED BY <2>1 DEF Listed
<1>6. Cardinality(LitIn(keys')) = 0
  BY <1>4, <1>5, LitFinite
<1>7. switches' \in SwitchStates
  BY <1>1 DEF SwitchStates, StateOf
<1>8. held' \subseteq Node \X Code
  BY <1>1
<1> QED BY <1>1, <1>2, <1>3, <1>4, <1>5, <1>6, <1>7, <1>8

\* A page comes to the front that does not listen.
LEMMA QuietPage ==
  ASSUME KeyIInv, plugged' = plugged, down' = down, closed' = closed, events' = events,
         plugs' = plugs, last' = last, tiles' = {},
         devices' \in [Node -> Device \cup {NoDevice}], held' \subseteq Node \X Code,
         keys' \in Seq(KeyType), Len(keys') <= MaxKeys, switches' \in SwitchStates,
         seenCount' = Cardinality(LitIn(keys')),
         \A i \in DOMAIN keys' : devices'[keys'[i].node] # NoDevice,
         page' \in {"away", "sensors"}, fds' = [n \in Node |-> NoFd]
  PROVE  KeyIInv'
<1>1. KeyTypeOK
  BY DEF KeyIInv
<1>2. fds' \in [Node -> FdType] /\ \A n \in Node : fds'[n] = NoFd /\ ~fds'[n].open
  BY NoFdIs
<1>3. KeyTypeOK'
  <2>1. /\ plugged' \in [Node -> Device \cup {NoDevice}] /\ closed' \in [Node -> BOOLEAN]
        /\ down' \in [Node -> SUBSET Code] /\ events' \in Nat /\ plugs' \in Nat
        /\ last' \in LastType
    BY <1>1 DEF KeyTypeOK
  <2>2. page' \in {"away", "sensors", "test", "glossary"}
    OBVIOUS
  <2> QED BY <1>2, <2>1, <2>2 DEF KeyTypeOK, LitIn, SwitchStates
<1>4. TilesStand' /\ TilesFit'
  BY DEF TilesStand, TilesFit
<1> QED BY <1>2, <1>3, <1>4, KeyIInvFrom DEF FdFits, Hears

\* The test's page comes to the front and listens.
LEMMA TestActiveIInv ==
  ASSUME KeyIInv, TestActive, page \in {"sensors", "glossary"}
  PROVE  /\ KeyIInv'
         /\ tiles = {} \/ keys' = keys
<1>1. KeyTypeOK /\ TilesStand /\ TilesFit
  BY KeyIInvIs
<1>2. /\ plugged' = plugged /\ down' = down /\ closed' = closed /\ events' = events
      /\ plugs' = plugs /\ last' = last /\ page' = "test"
      /\ fds' \in Opened(devices')
      /\ tiles' = IF tiles = {} THEN Tiles(keys') ELSE tiles
  BY DEF TestActive, inputVars, FirstVisit
<1>3. tiles # {} =>
        /\ devices' = devices /\ keys' = keys /\ switches' = switches /\ held' = held
        /\ seenCount' = seenCount
  <2> SUFFICES ASSUME tiles # {} PROVE UNCHANGED listVars
    BY DEF listVars
  <2>1. PICK t \in tiles : TRUE
    OBVIOUS
  <2>2. t.idx \in DOMAIN keys
    BY <1>1 DEF TilesStand
  <2>3. devices[keys[t.idx].node] # NoDevice
    BY <1>1, <2>2 DEF TilesFit
  <2>4. keys[t.idx].node \in Node
    <3>1. keys \in Seq(KeyType)
      BY <1>1 DEF KeyTypeOK
    <3>2. keys[t.idx] \in KeyType
      BY <2>2, <3>1, LenProperties, ElementOfSeq
    <3> QED BY <3>2 DEF KeyType
  <2>5. ~ListMissing
    BY <2>3, <2>4 DEF ListMissing
  <2> QED BY <2>5 DEF TestActive, FirstVisit
<1>4. /\ devices' \in [Node -> Device \cup {NoDevice}] /\ held' \subseteq Node \X Code
      /\ keys' \in Seq(KeyType) /\ Len(keys') <= MaxKeys
      /\ switches' \in SwitchStates /\ seenCount' = Cardinality(LitIn(keys'))
      /\ \A i \in DOMAIN keys' : devices'[keys'[i].node] # NoDevice
  <2>1. CASE Refresh
    BY <1>1, <2>1, Refreshed
  <2>2. CASE UNCHANGED listVars
    <3>1. /\ devices' = devices /\ keys' = keys /\ switches' = switches /\ held' = held
          /\ seenCount' = seenCount
      BY <2>2 DEF listVars
    <3> QED BY <1>1, <3>1 DEF KeyTypeOK, TilesFit, SwitchStates, LitIn
  <2> QED BY <2>1, <2>2 DEF TestActive
<1>5. ASSUME NEW n \in Node
      PROVE  \/ fds'[n] = NoFd
             \/ /\ devices'[n] \in Device /\ devices'[n] # NoDevice
                /\ fds'[n] = NewFd(devices'[n].name)
  <2>1. \/ fds'[n] = NoFd
        \/ /\ devices'[n] # NoDevice /\ fds'[n] = NewFd(devices'[n].name)
    BY <1>2 DEF Opened
  <2>2. devices'[n] \in Device \cup {NoDevice}
    BY <1>4
  <2> QED BY <2>1, <2>2
<1>6. ASSUME NEW n \in Node
      PROVE  fds'[n] \in FdType /\ FdFits(fds'[n], devices'[n]) /\ ~Hears(fds'[n])
  <2>1. CASE fds'[n] = NoFd
    BY <2>1, NoFdIs DEF FdFits, Hears
  <2>2. CASE devices'[n] \in Device /\ devices'[n] # NoDevice /\ fds'[n] = NewFd(devices'[n].name)
    <3>1. devices'[n].name \in Name
      BY <2>2 DEF Name
    <3> QED BY <2>2, <3>1, NewFdIs DEF FdFits, Hears
  <2> QED BY <1>5, <2>1, <2>2
<1>7. KeyTypeOK'
  <2>1. /\ plugged' \in [Node -> Device \cup {NoDevice}] /\ closed' \in [Node -> BOOLEAN]
        /\ down' \in [Node -> SUBSET Code] /\ events' \in Nat /\ plugs' \in Nat
        /\ last' \in LastType
    BY <1>1, <1>2 DEF KeyTypeOK
  <2>2. fds' \in [Node -> FdType]
    <3>1. DOMAIN fds' = Node /\ fds' = [n \in DOMAIN fds' |-> fds'[n]]
      BY <1>2 DEF Opened
    <3> QED BY <1>6, <3>1
  <2>3. page' = "test"
    BY <1>2
  <2> QED BY <1>4, <2>1, <2>2, <2>3 DEF KeyTypeOK, LitIn, SwitchStates
<1>8. TilesStand'
  <2>1. CASE tiles = {}
    <3>1. tiles' = Tiles(keys')
      BY <1>2, <2>1
    <3> QED BY <3>1 DEF TilesStand, Tiles
  <2>2. CASE tiles # {}
    <3>1. tiles' = tiles /\ keys' = keys
      BY <1>2, <1>3, <2>2
    <3> QED BY <1>1, <3>1 DEF TilesStand
  <2> QED BY <2>1, <2>2
<1>9. TilesFit'
  BY <1>2, <1>4 DEF TilesFit
<1>10. KeyIInv'
  BY <1>6, <1>7, <1>8, <1>9, KeyIInvFrom
<1> QED BY <1>3, <1>10

LEMMA StartOverIInv ==
  ASSUME KeyIInv, StartOver
  PROVE  KeyIInv'
<1>1. /\ KeyTypeOK /\ TilesStand /\ TilesFit
      /\ \A m \in Node : FdFits(fds[m], devices[m])
      /\ \A m \in Node : Hears(fds[m]) /\ OnlyOfItsName(m)
           => Known(fds[m].queue, switches[m], closed[m])
  BY KeyIInvIs
<1>2. /\ plugged' = plugged /\ down' = down /\ closed' = closed /\ events' = events
      /\ plugs' = plugs /\ devices' = devices /\ switches' = switches /\ held' = held
      /\ fds' = fds /\ page' = page /\ tiles' = tiles
      /\ keys' = [i \in DOMAIN keys |-> [keys[i] EXCEPT !.seen = FALSE, !.pressed = FALSE]]
      /\ seenCount' = 0 /\ last' = NoLast
  BY DEF StartOver, inputVars
<1>3. /\ keys \in Seq(KeyType) /\ DOMAIN keys = 1 .. Len(keys) /\ Len(keys) \in Nat
      /\ \A i \in 1 .. Len(keys) : keys[i] \in KeyType
  <2>1. keys \in Seq(KeyType)
    BY <1>1 DEF KeyTypeOK
  <2> QED BY <2>1, LenProperties, ElementOfSeq
<1>4. ASSUME NEW i \in 1 .. Len(keys)
      PROVE  /\ keys'[i] \in KeyType /\ keys'[i].node = keys[i].node
             /\ keys'[i].code = keys[i].code /\ ~keys'[i].seen
  <2> DEFINE dark == [keys[i] EXCEPT !.seen = FALSE, !.pressed = FALSE]
  <2>1. keys'[i] = dark
    BY <1>2, <1>3, Zenon
  <2>2. /\ dark \in KeyType /\ dark.node = keys[i].node /\ dark.code = keys[i].code
        /\ dark.seen = FALSE
    BY <1>3 DEF KeyType
  <2> HIDE DEF dark
  <2> QED BY <2>1, <2>2
<1>5. keys' \in Seq(KeyType) /\ Len(keys') = Len(keys) /\ DOMAIN keys' = DOMAIN keys
  <2>1. keys' = [i \in 1 .. Len(keys) |-> keys'[i]]
    BY <1>2, <1>3
  <2> QED BY <1>3, <1>4, <2>1, IsASeq
<1>6. Cardinality(LitIn(keys')) = 0
  BY <1>3, <1>4, <1>5, LitFinite
<1>7. KeyTypeOK'
  <2>1. /\ plugged' \in [Node -> Device \cup {NoDevice}] /\ closed' \in [Node -> BOOLEAN]
        /\ down' \in [Node -> SUBSET Code] /\ events' \in Nat /\ plugs' \in Nat
        /\ devices' \in [Node -> Device \cup {NoDevice}] /\ held' \subseteq Node \X Code
        /\ switches' \in [Node -> {"none", "set", "not set"}] /\ fds' \in [Node -> FdType]
        /\ page' \in {"away", "sensors", "test", "glossary"} /\ Len(keys') <= MaxKeys
        /\ page' # "test" => \A n \in Node : fds'[n] = NoFd
    BY <1>1, <1>2, <1>5 DEF KeyTypeOK
  <2>2. last' \in LastType
    BY <1>2 DEF LastType
  <2>3. seenCount' = Cardinality({i \in DOMAIN keys' : keys'[i].seen})
    BY <1>2, <1>6 DEF LitIn
  <2> QED BY <1>5, <2>1, <2>2, <2>3 DEF KeyTypeOK
<1>8. TilesStand' /\ TilesFit'
  BY <1>1, <1>2, <1>3, <1>4, <1>5 DEF TilesStand, TilesFit
<1>9. \A m \in Node : FdFits(fds'[m], devices'[m])
  BY <1>1, <1>2
<1>10. \A m \in Node : OnlyOfItsName(m)' <=> OnlyOfItsName(m)
  BY <1>2 DEF OnlyOfItsName
<1>11. \A m \in Node : Hears(fds'[m]) /\ OnlyOfItsName(m)'
         => Known(fds'[m].queue, switches'[m], closed'[m])
  BY <1>1, <1>2, <1>10
<1> QED BY <1>7, <1>8, <1>9, <1>11, KeyIInvFrom

\* The pages that do not listen: the list's and, over the test, the glossary's.
LEMMA PagesIInv ==
  ASSUME KeyIInv, OpenSensors \/ LeaveSensors \/ LeaveTest \/ ToGlossary
  PROVE  KeyIInv'
<1>1. KeyTypeOK /\ TilesStand /\ TilesFit
  BY KeyIInvIs
<1>2. page # "test" => fds = [n \in Node |-> NoFd]
  BY <1>1 DEF KeyTypeOK
<1>3. CASE OpenSensors \/ LeaveTest
  <2>1. /\ plugged' = plugged /\ down' = down /\ closed' = closed /\ events' = events
        /\ plugs' = plugs /\ last' = last /\ tiles' = {} /\ page' = "sensors"
        /\ fds' = [n \in Node |-> NoFd] /\ Refresh
    BY <1>1, <1>2, <1>3 DEF OpenSensors, LeaveTest, inputVars, TilesFit
  <2> QED BY <1>1, <2>1, Refreshed, QuietPage
<1>4. CASE LeaveSensors
  <2>1. /\ plugged' = plugged /\ down' = down /\ closed' = closed /\ events' = events
        /\ plugs' = plugs /\ last' = last /\ tiles' = {} /\ page' = "away"
        /\ fds' = [n \in Node |-> NoFd]
        /\ devices' = devices /\ keys' = keys /\ switches' = switches /\ held' = held
        /\ seenCount' = seenCount
    BY <1>1, <1>2, <1>4 DEF LeaveSensors, inputVars, listVars, TilesFit
  <2>2. /\ devices' \in [Node -> Device \cup {NoDevice}] /\ held' \subseteq Node \X Code
        /\ keys' \in Seq(KeyType) /\ Len(keys') <= MaxKeys /\ switches' \in SwitchStates
        /\ seenCount' = Cardinality(LitIn(keys'))
        /\ \A i \in DOMAIN keys' : devices'[keys'[i].node] # NoDevice
    BY <1>1, <2>1 DEF KeyTypeOK, TilesFit, SwitchStates, LitIn
  <2> QED BY <2>1, <2>2, QuietPage
<1>5. CASE ToGlossary
  <2>1. /\ plugged' = plugged /\ down' = down /\ closed' = closed /\ events' = events
        /\ plugs' = plugs /\ last' = last /\ tiles' = tiles /\ page' = "glossary"
        /\ fds' = [n \in Node |-> NoFd]
        /\ devices' = devices /\ keys' = keys /\ switches' = switches /\ held' = held
        /\ seenCount' = seenCount
    BY <1>5 DEF ToGlossary, inputVars, listVars
  <2>2. fds' \in [Node -> FdType] /\ \A n \in Node : fds'[n] = NoFd /\ ~fds'[n].open
    BY <2>1, NoFdIs
  <2>3. KeyTypeOK'
    BY <1>1, <2>1, <2>2 DEF KeyTypeOK
  <2>4. TilesStand' /\ TilesFit'
    BY <1>1, <2>1 DEF TilesStand, TilesFit
  <2> QED BY <2>2, <2>3, <2>4, KeyIInvFrom DEF FdFits, Hears
<1> QED BY <1>3, <1>4, <1>5

LEMMA KeyStepIInv == KeyIInv /\ [KeyNext]_keyVars => KeyIInv'
<1> SUFFICES ASSUME KeyIInv, [KeyNext]_keyVars PROVE KeyIInv'
  OBVIOUS
<1>1. ASSUME NEW n \in Node, SwitchMoves(n) \/ \E c \in Code : KeyMoves(n, c) PROVE KeyIInv'
  BY <1>1, MovesKeyIInv
<1>2. ASSUME NEW n \in Node, Unplug(n) \/ \E d \in Device : Plug(n, d) PROVE KeyIInv'
  BY <1>2, PlugsIInv
<1>3. ASSUME NEW n \in Node, ReadReady(n) PROVE KeyIInv'
  BY <1>3, ReadReadyIInv
<1>4. CASE OpenTest \/ FromGlossary
  BY <1>4, TestActiveIInv DEF OpenTest, FromGlossary
<1>5. CASE OpenSensors \/ LeaveSensors \/ LeaveTest \/ ToGlossary
  BY <1>5, PagesIInv
<1>6. CASE StartOver
  BY <1>6, StartOverIInv
<1>7. CASE UNCHANGED keyVars
  <2>1. /\ plugged' = plugged /\ down' = down /\ closed' = closed /\ events' = events
        /\ plugs' = plugs /\ last' = last /\ tiles' = tiles /\ page' = page /\ fds' = fds
        /\ devices' = devices /\ keys' = keys /\ switches' = switches /\ held' = held
        /\ seenCount' = seenCount
    BY <1>7 DEF keyVars, inputVars, listVars
  <2>2. /\ KeyTypeOK /\ TilesStand /\ TilesFit
        /\ \A m \in Node : FdFits(fds[m], devices[m])
        /\ \A m \in Node : Hears(fds[m]) /\ OnlyOfItsName(m)
             => Known(fds[m].queue, switches[m], closed[m])
    BY KeyIInvIs
  <2>3. KeyTypeOK'
    BY <2>1, <2>2 DEF KeyTypeOK
  <2>4. TilesStand' /\ TilesFit'
    BY <2>1, <2>2 DEF TilesStand, TilesFit
  <2>5. \A m \in Node : OnlyOfItsName(m)' <=> OnlyOfItsName(m)
    BY <2>1 DEF OnlyOfItsName
  <2>6. \A m \in Node : FdFits(fds'[m], devices'[m])
    BY <2>1, <2>2
  <2>7. \A m \in Node : Hears(fds'[m]) /\ OnlyOfItsName(m)'
          => Known(fds'[m].queue, switches'[m], closed'[m])
    BY <2>1, <2>2, <2>5
  <2> QED BY <2>3, <2>4, <2>6, <2>7, KeyIInvFrom
<1> QED BY <1>1, <1>2, <1>3, <1>4, <1>5, <1>6, <1>7 DEF KeyNext

\* The tiles stand at their keys' places, a descriptor goes by the name its node
\* was listed under, and what is not yet read of a switch is its real state.
THEOREM KeyInvariant == KeySpec => []KeyIInv
  BY KeyInitIInv, KeyStepIInv, PTL DEF KeySpec

\* Every variable of the button test keeps its kind: among them the list its
\* limit, and the count in the header the number of lit keys.
THEOREM KeyTypes == KeySpec => []KeyTypeOK
<1>1. KeyIInv => KeyTypeOK
  BY DEF KeyIInv
<1> QED BY <1>1, KeyInvariant, PTL

\* Each tile stands at the place of its own key in the list, whatever was
\* plugged, unplugged or listed since the tiles were built.
THEOREM KeyTilesStand == KeySpec => []TilesStand
<1>1. KeyIInv => TilesStand
  BY DEF KeyIInv
<1> QED BY <1>1, KeyInvariant, PTL

\* A switch that moved while the test listened shows its real state once
\* everything is read.
THEOREM KeySwitchShows == KeySpec => []HeardSwitchShows
<1>1. KeyIInv => HeardSwitchShows
  <2> SUFFICES ASSUME KeyIInv, NEW n \in Node, fds[n].open, OnlyOfItsName(n), fds[n].heard,
                      ~fds[n].gone, ~fds[n].dropped, fds[n].queue = <<>>
               PROVE  switches[n] = StateOf(closed[n])
    BY DEF HeardSwitchShows
  <2>1. Known(fds[n].queue, switches[n], closed[n])
    BY KeyIInvIs DEF Hears
  <2>2. MovesIn(fds[n].queue) = {}
    BY DEF MovesIn
  <2> QED BY <2>1, <2>2 DEF Known
<1> QED BY <1>1, KeyInvariant, PTL

\* A lit tile stays lit until the reader starts over or leaves the test.
THEOREM KeyLitStays == KeySpec => LitStays
<1>1. KeyIInv /\ [KeyNext]_keyVars
        => [\A t \in tiles :
              keys[t.idx].seen /\ t \in tiles' /\ ~StartOver
                => t.idx \in DOMAIN keys' /\ keys'[t.idx].seen]_keyVars
  <2> SUFFICES ASSUME KeyIInv, KeyNext, NEW t \in tiles, keys[t.idx].seen, t \in tiles',
                      ~StartOver
               PROVE  t.idx \in DOMAIN keys' /\ keys'[t.idx].seen
    OBVIOUS
  <2>1. KeyTypeOK /\ TilesFit /\ t.idx \in DOMAIN keys
    BY DEF KeyIInv, TilesStand
  <2>2. CASE keys' = keys
    BY <2>1, <2>2
  <2>3. ASSUME NEW n \in Node, ReadReady(n), ~fds[n].gone
        PROVE  t.idx \in DOMAIN keys' /\ keys'[t.idx].seen
    <3>1. keys' \in Seq(KeyType) /\ StillLit(keys, keys')
      BY <2>1, <2>3, ReadReadyDoes
    <3>2. DOMAIN keys = 1 .. Len(keys) /\ DOMAIN keys' = 1 .. Len(keys')
      BY <2>1, <3>1, LenProperties DEF KeyTypeOK
    <3> QED BY <2>1, <3>1, <3>2 DEF StillLit
  <2>4. ASSUME NEW n \in Node, ReadReady(n), fds[n].gone PROVE keys' = keys
    BY <2>4 DEF ReadReady
  <2>5. ASSUME NEW n \in Node,
               \/ SwitchMoves(n) \/ \E c \in Code : KeyMoves(n, c)
               \/ Unplug(n) \/ \E d \in Device : Plug(n, d)
        PROVE  keys' = keys
    BY <2>5 DEF SwitchMoves, KeyMoves, Reports, Unplug, Plug, listVars
  <2>6. CASE OpenTest \/ FromGlossary
    <3>1. keys' = keys
      BY <2>6, TestActiveIInv DEF OpenTest, FromGlossary
    <3> QED BY <2>1, <3>1
  <2>7. CASE OpenSensors \/ LeaveSensors \/ ToGlossary
    <3>1. ~OpenSensors
      BY <2>1 DEF OpenSensors, TilesFit
    <3>2. keys' = keys
      BY <2>7, <3>1 DEF LeaveSensors, ToGlossary, listVars
    <3> QED BY <2>1, <3>2
  <2>8. ~LeaveTest
    BY DEF LeaveTest
  <2> QED BY <2>2, <2>3, <2>4, <2>5, <2>6, <2>7, <2>8 DEF KeyNext
<1> QED BY <1>1, KeyInvariant, PTL DEF KeySpec, LitStays
==============================================================================
