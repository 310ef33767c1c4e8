------------------------------ MODULE MCFpTest ------------------------------
(***************************************************************************)
(* Up to five signals on their way: two operations of the daemon, begun and *)
(* ended, before the app sees the first sign of either.                     *)
(***************************************************************************)
EXTENDS FpTest
==============================================================================
