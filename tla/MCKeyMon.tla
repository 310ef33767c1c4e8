------------------------------ MODULE MCKeyMon ------------------------------
(***************************************************************************)
(* KeyMon with two nodes and three devices: a pad with two keys, a knob     *)
(* that shares a code with it, and a touchscreen.  Two keys fit the list.   *)
(***************************************************************************)
EXTENDS KeyMon

MCDevice ==
  {[name |-> "pad", codes |-> <<1, 2>>, touch |-> FALSE],
   [name |-> "knob", codes |-> <<1>>, touch |-> FALSE],
   [name |-> "glass", codes |-> <<1>>, touch |-> TRUE]}
==============================================================================
