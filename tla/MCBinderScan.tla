---------------------------- MODULE MCBinderScan ----------------------------
(***************************************************************************)
(* Two devices, a name that both of them know, and listings in which the    *)
(* two are neighbours or not, or nothing is listed.                         *)
(***************************************************************************)
EXTENDS BinderScan

CONSTANTS manager, p1

a1 == [device |-> "binder", name |-> "a"]
b1 == [device |-> "binder", name |-> "b"]
b2 == [device |-> "hwbinder", name |-> "b"]

MCListings == {<<>>, <<a1, b1, b2>>}
MCProcess == {manager, p1}
MCServedBy == [s \in {a1, b1, b2} |-> p1]
==============================================================================
