-------------------------- MODULE ExecutionProofs ---------------------------
(***************************************************************************)
(* Local soundness is enough: if each block's transfer describes what the  *)
(* block does and the join only weakens, then the result of the worklist   *)
(* engine describes every execution, whatever the control-flow graph.      *)
(***************************************************************************)
EXTENDS Execution, FixpointProofs

(***************************************************************************)
(* What the transfer functions owe: the successor they are asked about is  *)
(* a real one, what they compute describes the store the block leaves, and *)
(* a state higher in the order of the join says less.                      *)
(***************************************************************************)
FollowsEdges ==
  \A d \in BlockData, m \in Stores : \A next \in Step(d, m) :
    next.to \in Range(Successors(d)) /\ next.store \in Stores

SeedDescribes ==
  \A b \in Bodies : \A m \in EntryStores(b) :
    m \in Stores /\ Describes(InitialState(b), m)

TransferDescribes ==
  \A d \in BlockData, s \in State, m \in Stores : Describes(s, m) =>
    \A next \in Step(d, m) : Describes(Refine(d, ExitState(d, s), next.to), next.store)

WeakeningDescribes ==
  \A s, t \in State, m \in Stores : Below(s, t) /\ Describes(s, m) => Describes(t, m)

LocallySound == FollowsEdges /\ SeedDescribes /\ TransferDescribes /\ WeakeningDescribes
-----------------------------------------------------------------------------
\* The execution leaves the engine alone, so the engine's invariant stays.
LEMMA EngineRuns == RunSpec => [](IInv /\ Solved)
<1>1. RunInit => IInv
  BY InitIInv DEF RunInit
<1>2. [RunNext]_allvars => [Next]_vars
  BY DEF RunNext, Analyse, Enter, Execute, Exit, Next, allvars, vars
<1>3. IInv /\ [RunNext]_allvars => IInv'
  BY <1>2, StepIInv
<1>4. QED
  BY <1>1, <1>3, IInvSolved, PTL DEF RunSpec

\* A solution describes the stores with which an execution starts.
LEMMA StartDescribed ==
  ASSUME LocallySound, TypeOK, IsSolution, NEW m \in EntryStores(body)
  PROVE  START \in Reached /\ m \in Stores /\ Describes(entry_states[START], m)
<1>1. InitialState(body) \in State /\ entry_states[START] \in State /\ START \in Reached
  BY GraphAssumption, StateAssumption DEF TypeOK, IsSolution, SeedInv, Reached
<1>2. m \in Stores /\ Describes(InitialState(body), m)
  BY DEF LocallySound, SeedDescribes, TypeOK
<1>3. Below(InitialState(body), entry_states[START])
  BY DEF IsSolution, SeedInv
<1>4. QED
  BY <1>1, <1>2, <1>3 DEF LocallySound, WeakeningDescribes

\* One block of the program keeps to a solution: the transfer describes what
\* the block leaves, and the solution is above what the transfer computes.
LEMMA BlockDescribed ==
  ASSUME LocallySound, TypeOK, IsSolution, at \in Reached, store \in Stores,
         Describes(entry_states[at], store),
         NEW next \in Step(body[at], store)
  PROVE  /\ next.to \in Reached /\ next.store \in Stores
         /\ Describes(entry_states[next.to], next.store)
<1>1. at \in Block /\ body[at] \in BlockData /\ entry_states[at] \in State
  BY GraphAssumption DEF TypeOK, Reached
<1>2. next.to \in SuccSet(at) /\ next.store \in Stores
  BY <1>1 DEF LocallySound, FollowsEdges, SuccSet
<1>3. EdgeCovered(at, next.to)
  BY <1>2 DEF IsSolution
<1>4. /\ next.to \in Reached /\ next.to \in Block /\ entry_states[next.to] \in State
  BY <1>3 DEF EdgeCovered, Reached, TypeOK
<1> DEFINE sent == Refine(body[at], ExitState(body[at], entry_states[at]), next.to)
<1>5. sent \in State
  BY <1>1, <1>4, StateAssumption
<1>6. Describes(sent, next.store)
  BY <1>1 DEF LocallySound, TransferDescribes
<1>7. Below(sent, entry_states[next.to])
  BY <1>3 DEF EdgeCovered
<1>8. QED
  BY <1>2, <1>4, <1>5, <1>6, <1>7 DEF LocallySound, WeakeningDescribes

\* Every step of the analysis and of the program keeps the description.
LEMMA StepDescribed ==
  ASSUME LocallySound, Described, IInv, Solved, [RunNext]_allvars
  PROVE  Described'
<1>1. CASE Analyse
  <2>1. ~Returned /\ at' = at
    BY <1>1 DEF Analyse, Pop, Propagate, Returned, runvars
  <2>2. QED
    BY <2>1 DEF Described
<1>2. CASE Enter \/ Execute
  <2>1. Returned /\ TypeOK /\ IsSolution /\ UNCHANGED vars
    BY <1>2 DEF Enter, Execute, Described, IInv, Solved
  <2>2. at' \in Reached /\ store' \in Stores /\ Describes(entry_states[at'], store')
    <3>1. CASE Enter
      BY <2>1, <3>1, StartDescribed DEF Enter
    <3>2. CASE Execute
      <4>1. PICK next \in Step(body[at], store) : at' = next.to /\ store' = next.store
        BY <3>2 DEF Execute
      <4>2. at \in Reached /\ store \in Stores /\ Describes(entry_states[at], store)
        BY <3>2 DEF Execute, Described
      <4>3. QED
        BY <2>1, <4>1, <4>2, BlockDescribed
    <3>3. QED
      BY <1>2, <3>1, <3>2
  <2>3. Returned' /\ Reached' = Reached /\ entry_states' = entry_states
    BY <2>1 DEF vars, Returned, Reached
  <2>4. QED
    BY <2>2, <2>3 DEF Described
<1>3. CASE UNCHANGED allvars
  BY <1>3 DEF Described, Returned, Reached, allvars, vars, runvars
<1>4. QED
  BY <1>1, <1>2, <1>3 DEF RunNext, Exit

\* If the transfer functions are locally sound, what compute_flow says at a
\* block is true of every execution that enters it: on every control-flow
\* graph, and in whatever order the worklist visits the blocks.
THEOREM SoundAnalysis == ASSUME LocallySound PROVE RunSpec => []Described
<1>1. RunInit => Described
  BY DEF RunInit, Described
<1>2. Described /\ IInv /\ Solved /\ [RunNext]_allvars => Described'
  BY StepDescribed
<1>3. QED
  BY <1>1, <1>2, EngineRuns, PTL DEF RunSpec
=============================================================================
