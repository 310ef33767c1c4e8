---------------------------- MODULE ChargerTimeline ----------------------------
(***************************************************************************)
(* The timeline on the battery page (humanizeChargerLog of HwInfo.js), made *)
(* of what ChargerLog hands on: each line is read as an event, repeats of   *)
(* an event fold into the row they started, and of many rows the middle is  *)
(* replaced by one that says how many there were.                           *)
(***************************************************************************)
EXTENDS ChargerLog, Loops

CONSTANTS
  Meaning,      \* kind -> the key of its event, or Unread
  Unread,
  RowLookback,  \* how far back a row counts a repeat (6 in the code)
  FirstRows,    \* rows shown of a long list: the first (17)
  LastRows      \* and the last (7)

ASSUME TimelineAssumption ==
  /\ DOMAIN Meaning = Kind
  /\ RowLookback \in Nat /\ FirstRows \in Nat /\ LastRows \in Nat

\* A slip: the count the filter wrote on the line is not read back.
WeightOne(entry) == 1

\* The count at the end of a line, or 1.
Weight(entry) == entry.reps

Counted(repeat, weight) == repeat + weight

\* The nearest row of the last half dozen with this key.
IsNearest(rows, key, b) ==
  /\ b \in DOMAIN rows /\ b > Len(rows) - RowLookback /\ rows[b].key = key
  /\ \A c \in DOMAIN rows : c > b => rows[c].key # key

\* One line against the rows so far: the nearest one counts it.
Folded(rows, entry) ==
  LET key == Meaning[entry.kind]
      nearest == {b \in DOMAIN rows : IsNearest(rows, key, b)}
  IN  IF key = Unread THEN rows
      ELSE IF nearest = {} THEN Append(rows, [key |-> key, repeat |-> Weight(entry)])
      ELSE [i \in DOMAIN rows |->
              IF i \in nearest
                THEN [rows[i] EXCEPT !.repeat = Counted(@, Weight(entry))]
                ELSE rows[i]]

Excerpt == LET kept == Kept IN [i \in DOMAIN kept |-> out[kept[i]]]

Rows(excerpt) == Loop(Folded, <<>>, excerpt)

\* The row in the middle is the one with key Unread; it counts rows.
Timeline(rows) ==
  LET n == Len(rows)
  IN  IF n <= FirstRows + LastRows + 1 THEN rows
      ELSE SubSeq(rows, 1, FirstRows)
             \o <<[key |-> Unread, repeat |-> n - (FirstRows + LastRows)]>>
             \o SubSeq(rows, n - LastRows + 1, n)

------------------------------------------------------------------------------
(* Properties *)

\* No event is lost or counted twice by the two foldings and the cut: the
\* lines' counts add up to the lines read, the rows' counts to those of the
\* readable lines in the excerpt, and the row in the middle says how many rows
\* it replaces.
CountsAddUp ==
  LET excerpt == Excerpt
      rows == Rows(excerpt)
      timeline == Timeline(rows)
  IN  /\ Sum([i \in DOMAIN out |-> out[i].reps]) = lines
      /\ Sum([i \in DOMAIN rows |-> rows[i].repeat])
           = Sum([i \in DOMAIN excerpt |-> IF Meaning[excerpt[i].kind] = Unread
                                             THEN 0 ELSE excerpt[i].reps])
      /\ Sum([i \in DOMAIN timeline |-> IF timeline[i].key = Unread
                                           THEN timeline[i].repeat ELSE 1])
           = Len(rows)
==============================================================================
