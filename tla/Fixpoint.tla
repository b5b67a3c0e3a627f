------------------------------ MODULE Fixpoint ------------------------------
(***************************************************************************)
(* The forward worklist engine `run_fixpoint' of analysis/dataflow.rs.     *)
(*                                                                         *)
(* The engine is generic in what flows: the state type, the block transfer *)
(* (apply_statement on each statement, then apply_terminator), the edge    *)
(* refinement (refine_switchint_edge) and the join (join_with) are         *)
(* constants.  An instance of the module gives them for one domain.        *)
(*                                                                         *)
(* One iteration of the `while let' loop is Pop followed by one Propagate  *)
(* per successor.  The exit state of the popped block is computed once, by *)
(* Pop, from the entry state the block has at that moment.                 *)
(***************************************************************************)
EXTENDS Naturals, Sequences, Functions

CONSTANTS
  Block,             \* basic blocks
  START,             \* bb0
  BlockData,         \* what a block may hold: statements and a terminator
  Bodies,            \* MIR bodies: the data of each block
  Successors(_),     \* block data: block_successors, in the code's order
  State,             \* abstract states
  None,              \* Option::None, the entry state of a block not reached yet
  InitialState(_),   \* body: the state the entry block is seeded with
  ExitState(_, _),   \* block data, entry state
  Refine(_, _, _),   \* block data, exit state, successor
  Join(_, _),        \* stored, arriving: join_with(..).0
  JoinChanges(_, _), \* stored, arriving: join_with(..).1
  Below(_, _)        \* the information order of the join

ASSUME GraphAssumption ==
  /\ START \in Block
  /\ Bodies \subseteq [Block -> BlockData]
  /\ \A d \in BlockData : Successors(d) \in Seq(Block)

ASSUME StateAssumption ==
  /\ None \notin State
  /\ \A b \in Bodies : InitialState(b) \in State
  /\ \A d \in BlockData, s \in State :
       /\ ExitState(d, s) \in State
       /\ \A c \in Block : Refine(d, s, c) \in State

\* What the engine needs of join_with: the merged state is above both, and
\* a join that reports no change had nothing to add.
ASSUME JoinAssumption ==
  \A s, t \in State :
    /\ Join(s, t) \in State
    /\ Below(s, Join(s, t))
    /\ Below(t, Join(s, t))
    /\ ~JoinChanges(s, t) => Below(t, s)

ASSUME OrderAssumption ==
  /\ \A s \in State : Below(s, s)
  /\ \A s, t, u \in State : Below(s, t) /\ Below(t, u) => Below(s, u)

VARIABLES
  body,          \* the body under analysis
  entry_states,  \* Vec<Option<BlockState>>
  worklist,      \* VecDeque<BasicBlock>
  in_worklist,   \* HashSet<BasicBlock>
  bb,            \* the block popped last
  state,         \* its exit state
  succs          \* its successors that are still to be visited

vars == <<body, entry_states, worklist, in_worklist, bb, state, succs>>

TypeOK ==
  /\ body \in Bodies
  /\ entry_states \in [Block -> State \cup {None}]
  /\ worklist \in Seq(Block)
  /\ in_worklist \subseteq Block
  /\ bb \in Block
  /\ state \in State
  /\ succs \in Seq(Block)

Init ==
  /\ body \in Bodies
  /\ entry_states = [b \in Block |-> IF b = START THEN InitialState(body) ELSE None]
  /\ worklist = <<START>>
  /\ in_worklist = {START}
  /\ bb = START
  /\ state = InitialState(body)
  /\ succs = <<>>

\* (mutant) The popped block stays in in_worklist.
PopKeepsMark ==
  /\ succs = <<>>
  /\ worklist # <<>>
  /\ bb' = Head(worklist)
  /\ state' = ExitState(body[bb'], entry_states[bb'])
  /\ succs' = Successors(body[bb'])
  /\ worklist' = Tail(worklist)
  /\ UNCHANGED <<body, entry_states, in_worklist>>

\* `None => continue': a popped block without an entry state is dropped.
Pop ==
  /\ succs = <<>>
  /\ worklist # <<>>
  /\ LET b == Head(worklist) IN
       /\ bb' = b
       /\ in_worklist' = in_worklist \ {b}
       /\ IF entry_states[b] = None
            THEN UNCHANGED <<state, succs>>
            ELSE /\ state' = ExitState(body[b], entry_states[b])
                 /\ succs' = Successors(body[b])
  /\ worklist' = Tail(worklist)
  /\ UNCHANGED <<body, entry_states>>

EdgeState(c) == Refine(body[bb], state, c)

\* (mutants) Only a first arrival counts, or only a later one.
EntryChangedOnce(c) == entry_states[c] = None

EntryChangedLater(c) ==
  entry_states[c] # None /\ JoinChanges(entry_states[c], EdgeState(c))

EntryChanged(c) ==
  entry_states[c] = None \/ JoinChanges(entry_states[c], EdgeState(c))

NewEntry(c) ==
  IF entry_states[c] = None THEN EdgeState(c)
  ELSE IF JoinChanges(entry_states[c], EdgeState(c))
       THEN Join(entry_states[c], EdgeState(c))
       ELSE entry_states[c]

\* (mutant) A loop of a block to itself is not queued.
PropagateNotToSelf ==
  /\ succs # <<>>
  /\ LET c == Head(succs)
         queued == IF EntryChanged(c) /\ c \notin in_worklist \cup {bb} THEN <<c>> ELSE <<>>
     IN /\ entry_states' = [entry_states EXCEPT ![c] = NewEntry(c)]
        /\ worklist' = worklist \o queued
        /\ in_worklist' = in_worklist \cup Range(queued)
  /\ succs' = Tail(succs)
  /\ UNCHANGED <<body, bb, state>>

Propagate ==
  /\ succs # <<>>
  /\ LET c == Head(succs) IN
       /\ entry_states' = [entry_states EXCEPT ![c] = NewEntry(c)]
       /\ IF EntryChanged(c) /\ c \notin in_worklist
            THEN /\ worklist' = Append(worklist, c)
                 /\ in_worklist' = in_worklist \cup {c}
            ELSE UNCHANGED <<worklist, in_worklist>>
  /\ succs' = Tail(succs)
  /\ UNCHANGED <<body, bb, state>>

Returned == succs = <<>> /\ worklist = <<>>

\* run_fixpoint has returned; its result is read from now on.
Done == Returned /\ UNCHANGED vars

Next == Pop \/ Propagate \/ Done

\* The loop is sequential code: nothing but its own end stops it.
Spec == Init /\ [][Next]_vars /\ WF_vars(Pop \/ Propagate)
-----------------------------------------------------------------------------
(***************************************************************************)
(* Properties.                                                             *)
(***************************************************************************)

\* `in_worklist' mirrors the queue: it holds exactly the queued blocks, no
\* block is queued twice, and each has an entry state (so the loop's
\* `None => continue' never drops a block).
QueueInv ==
  /\ in_worklist = Range(worklist)
  /\ \A i, j \in 1..Len(worklist) : worklist[i] = worklist[j] => i = j
  /\ \A b \in in_worklist : entry_states[b] # None

SuccSet(b) == Range(Successors(body[b]))

Reached == {b \in Block : entry_states[b] # None}

\* The state that leaves b for c is already accounted for at c.
EdgeCovered(b, c) ==
  /\ c \in Reached
  /\ Below(Refine(body[b], ExitState(body[b], entry_states[b]), c), entry_states[c])

\* The seed of the entry block stays in its entry state.
SeedInv ==
  START \in Reached /\ Below(InitialState(body), entry_states[START])

\* The argument of the loop: a reached block that is not queued owes its
\* successors nothing, but for the block in hand and the successors that are
\* still to be visited.
CoverInv ==
  \A b \in Reached \ in_worklist : \A c \in SuccSet(b) :
    EdgeCovered(b, c) \/ (b = bb /\ c \in Range(succs))

\* While successors are left, the exit state in hand is that of the block's
\* present entry state, unless that has grown since (a loop back to the
\* block itself), and then the block is queued again.
CurrentInv ==
  succs # <<>> =>
    /\ bb \in Reached
    /\ Range(succs) \subseteq SuccSet(bb)
    /\ bb \in in_worklist \/ state = ExitState(body[bb], entry_states[bb])

\* When run_fixpoint returns, its result is a solution of the flow equations:
\* the seed is in it, and no edge of a reached block brings anything new.
IsSolution ==
  SeedInv /\ \A b \in Reached : \A c \in SuccSet(b) : EdgeCovered(b, c)

Solved == Returned => IsSolution

ClosedUnderSucc(S) == START \in S /\ \A b \in S : SuccSet(b) \subseteq S

\* The blocks control flow can reach: the least set closed under successors.
Reachable == {b \in Block : \A S \in SUBSET Block : ClosedUnderSucc(S) => b \in S}

\* No block gets an entry state that no path reaches.
ReachInv == Reached \subseteq Reachable

\* The invariant of run_fixpoint's loop, on which its correctness rests: the
\* queue and its membership set agree, the seed stays, whatever is owed to a
\* successor is owed by a queued block or the one in hand, that one's exit
\* state is not outdated, and nothing unreachable is entered.
LoopInv == QueueInv /\ SeedInv /\ CoverInv /\ CurrentInv /\ ReachInv

\* FlowResults: "`None` means the block is unreachable" - when run_fixpoint
\* returns, exactly the blocks that no path reaches have no entry state.
NoneMeansUnreachable == Returned => Reached = Reachable

\* Facts of an entry state are never taken back: an entry state, once stored,
\* is only ever replaced by one above it.
EntriesOnlyGrow ==
  [][\A b \in Reached : b \in Reached' /\ Below(entry_states[b], entry_states'[b])]_vars

\* run_fixpoint returns: the loop has no bound of its own and relies on the
\* joins running out of changes to report.
Terminates == <>Returned

\* The engine keeps the promise of FlowSolution.
Solution == INSTANCE FlowSolution WITH solution <- entry_states, finished <- Returned

Promise == Solution!Spec
=============================================================================
