-------------------------------- MODULE Ledger --------------------------------
(***************************************************************************)
(* What a recording promises (the ranking of recorder.h): while it is open  *)
(* every holder's figure only grows, and never beyond what the holder has   *)
(* used; while it is closed the figures stand, until they are cleared.  How *)
(* the use is observed is left open.  Recording implements it, with pids    *)
(* for holders.                                                             *)
(***************************************************************************)
EXTENDS Naturals

CONSTANT Holder

VARIABLES
  open,    \* a recording runs
  figure,  \* holder -> what the ranking shows
  used     \* holder -> what was really used

vars == <<open, figure, used>>

Nothing == [h \in Holder |-> 0]

Init == open = FALSE /\ figure = Nothing /\ used = Nothing

Open == ~open /\ open' = TRUE /\ figure' = Nothing /\ UNCHANGED used

Close == open /\ open' = FALSE /\ UNCHANGED <<figure, used>>

Clear == ~open /\ figure' = Nothing /\ UNCHANGED <<open, used>>

\* The figures take over what is known of the use by now.
Charge ==
  /\ open
  /\ figure' \in [Holder -> Nat]
  /\ \A h \in Holder : figure[h] <= figure'[h] /\ figure'[h] <= used[h]
  /\ UNCHANGED <<open, used>>

Use(h) == used' = [used EXCEPT ![h] = @ + 1] /\ UNCHANGED <<open, figure>>

Next == Open \/ Close \/ Clear \/ Charge \/ \E h \in Holder : Use(h)

Spec == Init /\ [][Next]_vars
==============================================================================
