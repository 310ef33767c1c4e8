----------------------------- MODULE MCPipeline -----------------------------
(***************************************************************************)
(* One row that a view shows or hides, the default interval and the longest *)
(* one, three queued calls (a change of foreground posts two) and one       *)
(* queued sample.                                                           *)
(***************************************************************************)
EXTENDS Pipeline

CONSTANT r1

MCRow == {r1}

MCView == SUBSET {r1}

MCInterval == {3000, 30000}
==============================================================================
