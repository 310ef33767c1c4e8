--------------------------- MODULE MCChargerTimeline ---------------------------
(***************************************************************************)
(* ChargerTimeline with the numbers of the code made small and kept in      *)
(* their relations: the look-back of the filter two more than the run-up    *)
(* and no longer than the excerpt's tail, the run-up shorter than its head. *)
(* There are lines enough that differ to fill the list without a repeat.    *)
(* Those of a set read alike, so within it any stands for any other.        *)
(***************************************************************************)
EXTENDS ChargerTimeline, TLC

CONSTANTS Ready, Other

MCKind == Attach \cup Ready \cup Other

MCMeaning ==
  [k \in Kind |-> CASE k \in Attach -> "plugged" [] k \in Ready -> "ready"
                    [] OTHER -> Unread]

Alike == Permutations(Attach) \cup Permutations(Ready) \cup Permutations(Other)
==============================================================================
