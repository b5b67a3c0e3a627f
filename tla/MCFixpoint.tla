----------------------------- MODULE MCFixpoint -----------------------------
(***************************************************************************)
(* The engine over the real join, on every control-flow graph of three     *)
(* blocks.  One field stands for each family of joins that the transfer    *)
(* functions below can make disagree; a body gives each block a terminator *)
(* and an effect.  The effects have the shapes of the real transfer: they  *)
(* generate, kill and overwrite facts, one adds to a bound without end,    *)
(* and one (escape_local) is not monotone.                                 *)
(***************************************************************************)
EXTENDS Fixpoint, BlockState, ControlFlow

CONSTANT MaxBound    \* stands for u64::MAX, where a const_upper saturates

MCFields == {"heap", "nonzero", "lt_facts", "const_upper"}

MCKey(f) == CASE f = "heap" -> {"o"} [] OTHER -> {"x"}

MCValue(f) ==
  CASE f = "heap" -> HeapState
    [] f = "const_upper" -> 0..MaxBound
    [] OTHER -> {"y", "z"}

\* The members of StatesOver(MCFields), in a form TLC enumerates.
MCState ==
  {[f \in MCFields |-> CASE f = "heap" -> h [] f = "nonzero" -> n
                          [] f = "lt_facts" -> l [] f = "const_upper" -> u] :
     h \in FieldType("heap"), n \in FieldType("nonzero"),
     l \in FieldType("lt_facts"), u \in FieldType("const_upper")}

MCBlock == 1..3

Term(k, targets, u) == [kind |-> k, targets |-> targets, unwind |-> u]

Terminators ==
  {Term("Return", <<>>, NoCleanup)}
    \cup {Term("Goto", <<b>>, NoCleanup) : b \in MCBlock}
    \cup {Term("SwitchInt", p, NoCleanup) : p \in {<<1, 2>>, <<1, 3>>, <<2, 3>>, <<2, 2>>}}
    \cup {Term("Call", <<b>>, 2) : b \in {1, 3}} \cup {Term("Call", <<2>>, 3)}

\* The other terminators of block 1 only rename blocks 2 and 3.
StartTerminators ==
  {Term("Goto", <<2>>, NoCleanup), Term("SwitchInt", <<2, 3>>, NoCleanup),
   Term("SwitchInt", <<1, 2>>, NoCleanup), Term("Call", <<2>>, 3)}

MCBlockData == [term : Terminators, effect : {"gen", "kill", "next"}]

MCBodies == {b \in [MCBlock -> MCBlockData] : b[1].term \in StartTerminators}

MCSuccessors(d) == BlockSuccessors(d.term)

MCInitialState(b) == Default

Effect(e, s) ==
  CASE e = "gen" ->
         [s EXCEPT !["heap"]["o"] = "RawOwned", !["nonzero"] = {"x"},
                   !["lt_facts"]["x"] = "y", !["const_upper"]["x"] = 0]
    [] e = "kill" ->
         [s EXCEPT !["heap"]["o"] = IF @ = "RawOwned" THEN "Escaped" ELSE @,
                   !["nonzero"] = {}]
    [] e = "next" ->
         [s EXCEPT !["heap"]["o"] = IF @ = Absent THEN @ ELSE "Reconstituted",
                   !["lt_facts"]["x"] = "z",
                   !["const_upper"]["x"] = IF @ \in {Absent, MaxBound} THEN @ ELSE @ + 1]

MCExitState(d, s) == Effect(d.effect, s)

\* The true edge of a comparison proves what the comparison says.
MCRefine(d, s, c) ==
  IF d.term.kind = "SwitchInt" /\ c = d.term.targets[2] /\ s["lt_facts"]["x"] = "y"
  THEN [s EXCEPT !["nonzero"] = {"x"}] ELSE s
=============================================================================
