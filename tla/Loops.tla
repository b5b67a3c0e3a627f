------------------------------- MODULE Loops --------------------------------
(***************************************************************************)
(* `for x in seq { op }', the loop of the analyser over the statements of  *)
(* a block, the arguments of a call and the effects of a summary.          *)
(***************************************************************************)
EXTENDS Integers, Sequences

ForEach(op(_, _), base, seq) ==
  LET after[i \in 0..Len(seq)] == IF i = 0 THEN base ELSE op(after[i - 1], seq[i])
  IN after[Len(seq)]
=============================================================================
