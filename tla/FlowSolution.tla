---------------------------- MODULE FlowSolution ----------------------------
(***************************************************************************)
(* What the flow engine promises its users (the checkers and the summary   *)
(* computation), without a worklist: the entry states of one body only     *)
(* ever grow, a block becomes reached only through an edge from a reached  *)
(* block, and the analysis ends, for good, in a solution of the flow       *)
(* equations.  In which order the edges are looked at is left open.        *)
(***************************************************************************)
EXTENDS Naturals, Sequences, Functions

CONSTANTS Block, START, BlockData, Bodies, Successors(_), State, None,
          InitialState(_), ExitState(_, _), Refine(_, _, _), Below(_, _)

VARIABLES body, solution, finished

vars == <<body, solution, finished>>

Reached == {b \in Block : solution[b] # None}

SuccSet(b) == Range(Successors(body[b]))

Solves ==
  /\ START \in Reached
  /\ Below(InitialState(body), solution[START])
  /\ \A b \in Reached : \A c \in SuccSet(b) :
       /\ c \in Reached
       /\ Below(Refine(body[b], ExitState(body[b], solution[b]), c), solution[c])

Init ==
  /\ body \in Bodies
  /\ solution = [b \in Block |-> IF b = START THEN InitialState(body) ELSE None]
  /\ finished = FALSE

Grow ==
  /\ ~finished
  /\ \E c \in Block, t \in State :
       /\ \E b \in Reached : c \in SuccSet(b)
       /\ c \in Reached => Below(solution[c], t)
       /\ solution' = [solution EXCEPT ![c] = t]
  /\ finished' \in BOOLEAN
  /\ finished' => Solves'
  /\ UNCHANGED body

Finish ==
  /\ ~finished
  /\ Solves
  /\ finished' = TRUE
  /\ UNCHANGED <<body, solution>>

Next == Grow \/ Finish

Spec == Init /\ [][Next]_vars
=============================================================================
