--------------------------------- MODULE Loops ---------------------------------
(***************************************************************************)
(* A loop over a sequence as a function of the position it has reached,     *)
(* a form that can be proved about.                                         *)
(***************************************************************************)
EXTENDS Integers, Sequences

\* What a loop over s makes of start, when its body makes Body(a, e) of a at
\* the element e.
Loop(Body(_, _), start, s) ==
  LET after[i \in 0 .. Len(s)] ==
        IF i = 0 THEN start ELSE Body(after[i - 1], s[i])
  IN  after[Len(s)]

Sum(s) == Loop(LAMBDA a, e : a + e, 0, s)
================================================================================
