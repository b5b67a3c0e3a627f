---------------------------- MODULE ControlFlow -----------------------------
(***************************************************************************)
(* The edges of a MIR body, `block_successors' of analysis/dataflow.rs.    *)
(*                                                                         *)
(* A terminator is a record with its kind, the targets it names (in order: *)
(* of a Yield the resume block, then the drop block) and its unwind        *)
(* action, a cleanup block or NoCleanup.                                   *)
(***************************************************************************)
EXTENDS Sequences

CONSTANT NoCleanup

Ends == {"Return", "Unreachable", "CoroutineDrop", "TailCall",
         "UnwindResume", "UnwindTerminate"}

Jumps == {"Goto", "SwitchInt", "FalseEdge", "Yield"}

Unwinds == {"Call", "Drop", "Assert", "FalseUnwind", "InlineAsm"}

PushUnwind(succs, unwind) ==
  IF unwind = NoCleanup THEN succs ELSE Append(succs, unwind)

BlockSuccessors(term) ==
  CASE term.kind \in Ends    -> <<>>
    [] term.kind \in Jumps   -> term.targets
    [] term.kind \in Unwinds -> PushUnwind(term.targets, term.unwind)
=============================================================================
