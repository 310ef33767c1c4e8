----------------------------- MODULE MCRecording -----------------------------
(***************************************************************************)
(* Recording on one pid: every row is counted against the account of its    *)
(* own pid only, so what can go wrong is the order of processes and samples *)
(* on one pid.  Two processes, two names, two samples in flight.            *)
(***************************************************************************)
EXTENDS Recording

CONSTANTS n1, n2

MCName == {n1, n2}
==============================================================================
