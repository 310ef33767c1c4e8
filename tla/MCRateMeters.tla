---------------------------- MODULE MCRateMeters ----------------------------
(***************************************************************************)
(* RateMeters with two things, so that one takes over from the other.       *)
(***************************************************************************)
EXTENDS RateMeters
==============================================================================
