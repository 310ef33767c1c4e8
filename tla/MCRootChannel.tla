---------------------------- MODULE MCRootChannel ----------------------------
(***************************************************************************)
(* Three requests can all be given up on, in two sessions of the app, with *)
(* one failure of the helper: as many connections as that can leave behind, *)
(* and one for the app to use.                                              *)
(***************************************************************************)
EXTENDS RootChannel
==============================================================================
