---------------------------- MODULE MCCveLookup ----------------------------
(***************************************************************************)
(* CveLookup with two queries and one that looks like the catalogue, two    *)
(* vulnerabilities of which one is in the catalogue, and three searches     *)
(* between two starts: one that is superseded, one that takes its place,    *)
(* and one on the next page.                                                *)
(***************************************************************************)
EXTENDS CveLookup

CONSTANTS c1, c2

MCId == {c1, c2}
MCExploited == {c1}
==============================================================================
