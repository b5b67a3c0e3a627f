--------------------------- MODULE FixpointProofs ---------------------------
(***************************************************************************)
(* The engine is correct for every body, every transfer and every join     *)
(* that keeps JoinAssumption.  No monotonicity of the transfer is assumed. *)
(***************************************************************************)
EXTENDS Fixpoint, QueueLemmas, TLAPS

(***************************************************************************)
(* What one Propagate step does to the entry states: the successor's entry *)
(* state is one above both the old one and the state that arrives, and a   *)
(* step that does not queue the successor changed nothing.                 *)
(***************************************************************************)
LEMMA NewEntryFacts ==
  ASSUME TypeOK, NEW c \in Block
  PROVE  /\ EdgeState(c) \in State
         /\ NewEntry(c) \in State
         /\ Below(EdgeState(c), NewEntry(c))
         /\ c \in Reached => Below(entry_states[c], NewEntry(c))
         /\ ~EntryChanged(c) => NewEntry(c) = entry_states[c]
<1>1. body[bb] \in BlockData /\ EdgeState(c) \in State
  BY GraphAssumption, StateAssumption DEF TypeOK, EdgeState
<1>2. CASE entry_states[c] = None
  BY <1>1, <1>2, OrderAssumption DEF NewEntry, EntryChanged, Reached
<1>3. CASE entry_states[c] # None
  <2>1. entry_states[c] \in State
    BY <1>3 DEF TypeOK
  <2>2. CASE JoinChanges(entry_states[c], EdgeState(c))
    BY <1>1, <1>3, <2>1, <2>2, JoinAssumption DEF NewEntry, EntryChanged
  <2>3. CASE ~JoinChanges(entry_states[c], EdgeState(c))
    BY <1>1, <1>3, <2>1, <2>3, JoinAssumption, OrderAssumption DEF NewEntry, EntryChanged
  <2>4. QED
    BY <2>2, <2>3
<1>4. QED
  BY <1>2, <1>3

\* The seeded engine has its types.
LEMMA TypeInit == Init => TypeOK
<1>1. ASSUME Init PROVE TypeOK
  <2>1. <<START>> \in Seq(Block) /\ <<>> \in Seq(Block)
    BY GraphAssumption
  <2>2. InitialState(body) \in State
    BY <1>1, StateAssumption DEF Init
  <2>3. QED
    BY <1>1, <2>1, <2>2, GraphAssumption DEF Init, TypeOK
<1>2. QED
  BY <1>1

\* Each step of run_fixpoint keeps the type of every variable.
LEMMA TypeStep == TypeOK /\ [Next]_vars => TypeOK'
<1>1. SUFFICES ASSUME TypeOK, [Next]_vars PROVE TypeOK'
  OBVIOUS
<1>2. CASE Pop
  <2>1. Head(worklist) \in Block /\ Tail(worklist) \in Seq(Block)
    BY <1>1, <1>2, PopFront DEF Pop, TypeOK
  <2>2. body[Head(worklist)] \in BlockData
    BY <1>1, <2>1, GraphAssumption DEF TypeOK
  <2>3. CASE entry_states[Head(worklist)] = None
    BY <1>1, <1>2, <2>1, <2>3 DEF Pop, TypeOK
  <2>4. CASE entry_states[Head(worklist)] # None
    <3>1. entry_states[Head(worklist)] \in State
      BY <1>1, <2>1, <2>4 DEF TypeOK
    <3>2. /\ ExitState(body[Head(worklist)], entry_states[Head(worklist)]) \in State
          /\ Successors(body[Head(worklist)]) \in Seq(Block)
      BY <2>2, <3>1, StateAssumption, GraphAssumption
    <3>3. QED
      BY <1>1, <1>2, <2>1, <2>4, <3>2 DEF Pop, TypeOK
  <2>5. QED
    BY <2>3, <2>4
<1>3. CASE Propagate
  <2>1. Head(succs) \in Block /\ Tail(succs) \in Seq(Block)
    BY <1>1, <1>3, PopFront DEF Propagate, TypeOK
  <2>2. NewEntry(Head(succs)) \in State
    BY <1>1, <2>1, NewEntryFacts
  <2>3. Append(worklist, Head(succs)) \in Seq(Block)
    BY <1>1, <2>1, PushBack DEF TypeOK
  <2>4. QED
    BY <1>1, <1>3, <2>1, <2>2, <2>3 DEF Propagate, TypeOK
<1>4. CASE UNCHANGED vars
  BY <1>1, <1>4 DEF TypeOK, vars
<1>5. QED
  BY <1>1, <1>2, <1>3, <1>4 DEF Next, Done

\* Every variable of run_fixpoint keeps its type.
THEOREM TypeCorrect == Spec => []TypeOK
  BY TypeInit, TypeStep, PTL DEF Spec

(***************************************************************************)
(* The inductive invariant.  Solved and NoneMeansUnreachable speak of the  *)
(* end of the loop only; CoverInv says how far the loop has come at any    *)
(* time, CurrentInv what the block in hand still owes, QueueInv that the   *)
(* membership set can be trusted, and ReachInv that nothing is reached     *)
(* without a path.                                                         *)
(***************************************************************************)
IInv == TypeOK /\ QueueInv /\ SeedInv /\ CoverInv /\ CurrentInv /\ ReachInv

\* The seeded engine owes nothing: its one reached block is queued.
LEMMA InitIInv == Init => IInv
<1>1. SUFFICES ASSUME Init PROVE IInv
  OBVIOUS
<1>2. TypeOK
  BY <1>1, GraphAssumption, StateAssumption DEF Init, TypeOK
<1>3. Reached = {START}
  BY <1>1, GraphAssumption, StateAssumption DEF Init, Reached
<1>4. QueueInv
  <2>1. Range(<<START>>) = {START}
    BY DEF Range
  <2>2. \A i, j \in 1..Len(worklist) : i = j
    <3>1. Len(worklist) = 1
      BY <1>1 DEF Init
    <3>2. QED
      BY <3>1
  <2>3. \A b \in in_worklist : entry_states[b] # None
    BY <1>1, <1>3 DEF Init, Reached
  <2>4. QED
    BY <1>1, <2>1, <2>2, <2>3 DEF Init, QueueInv
<1>5. SeedInv
  <2>1. entry_states[START] = InitialState(body) /\ InitialState(body) \in State
    BY <1>1, GraphAssumption, StateAssumption DEF Init
  <2>2. QED
    BY <1>3, <2>1, OrderAssumption DEF SeedInv
<1>6. CoverInv
  BY <1>1, <1>3 DEF Init, CoverInv
<1>7. CurrentInv
  BY <1>1 DEF Init, CurrentInv
<1>8. ReachInv
  BY <1>3, GraphAssumption DEF ReachInv, Reachable, ClosedUnderSucc
<1>9. QED
  BY <1>2, <1>4, <1>5, <1>6, <1>7, <1>8 DEF IInv

\* Taking a block off the queue: its successors are owed from now on.
LEMMA PopIInv == IInv /\ TypeOK' /\ Pop => IInv'
<1> SUFFICES ASSUME IInv, TypeOK', Pop PROVE IInv'
  OBVIOUS
<1> DEFINE b == Head(worklist)
<1>1. /\ b \in Block /\ Tail(worklist) \in Seq(Block)
      /\ Range(worklist) = {b} \cup Range(Tail(worklist))
      /\ Len(Tail(worklist)) = Len(worklist) - 1 /\ Len(worklist) \in Nat
      /\ \A i \in 1..Len(Tail(worklist)) : Tail(worklist)[i] = worklist[i + 1]
      /\ DOMAIN Tail(worklist) = 1..Len(Tail(worklist))
      /\ b = worklist[1] /\ Len(worklist) # 0
  BY PopFront DEF IInv, TypeOK, Pop
<1>2. entry_states[b] # None
  BY <1>1 DEF IInv, QueueInv
<1>3. /\ bb' = b /\ state' = ExitState(body[b], entry_states[b])
      /\ succs' = Successors(body[b]) /\ worklist' = Tail(worklist)
      /\ in_worklist' = in_worklist \ {b}
      /\ body' = body /\ entry_states' = entry_states /\ succs = <<>>
  BY <1>2 DEF Pop
<1>4. Reached' = Reached /\ Reachable' = Reachable /\ \A x \in Block : SuccSet(x)' = SuccSet(x)
  BY <1>3 DEF Reached, Reachable, ClosedUnderSucc, SuccSet
<1>5. QueueInv'
  <2>1. b \notin Range(Tail(worklist))
    <3>1. SUFFICES ASSUME NEW i \in 1..Len(Tail(worklist)), Tail(worklist)[i] = b
                   PROVE  FALSE
      BY <1>1 DEF Range
    <3>2. worklist[i + 1] = worklist[1] /\ i + 1 \in 1..Len(worklist) /\ 1 \in 1..Len(worklist)
      BY <1>1, <3>1
    <3>3. i + 1 = 1
      BY <3>2 DEF IInv, QueueInv
    <3>4. QED
      BY <3>3
  <2>2. in_worklist' = Range(worklist')
    BY <1>1, <1>3, <2>1 DEF IInv, QueueInv
  <2>3. ASSUME NEW i \in 1..Len(worklist'), NEW j \in 1..Len(worklist'),
               worklist'[i] = worklist'[j]
        PROVE  i = j
    <3>1. /\ worklist[i + 1] = worklist[j + 1]
          /\ i + 1 \in 1..Len(worklist) /\ j + 1 \in 1..Len(worklist)
      BY <1>1, <1>3, <2>3
    <3>2. i + 1 = j + 1
      BY <3>1 DEF IInv, QueueInv
    <3>3. QED
      BY <3>2
  <2>4. \A x \in in_worklist' : entry_states'[x] # None
    BY <1>3 DEF IInv, QueueInv
  <2>5. QED
    BY <2>2, <2>3, <2>4 DEF QueueInv
<1>6. SeedInv'
  BY <1>3, <1>4 DEF IInv, SeedInv
<1>7. CoverInv'
  <2>1. SUFFICES ASSUME NEW x \in Reached, x \notin in_worklist', NEW c \in SuccSet(x)
                 PROVE  EdgeCovered(x, c)' \/ (x = bb' /\ c \in Range(succs'))
    BY <1>3, <1>4 DEF CoverInv, Reached
  <2>2. CASE x = b
    BY <1>3, <2>2 DEF SuccSet
  <2>3. CASE x # b
    <3>1. x \notin in_worklist
      BY <1>3, <2>1, <2>3
    <3>2. EdgeCovered(x, c)
      BY <1>3, <2>1, <3>1, EmptyRange DEF IInv, CoverInv
    <3>3. QED
      BY <1>3, <1>4, <3>2 DEF EdgeCovered
  <2>4. QED
    BY <2>2, <2>3
<1>8. CurrentInv'
  BY <1>1, <1>2, <1>3, <1>4 DEF CurrentInv, SuccSet, Reached
<1>9. ReachInv'
  BY <1>4 DEF IInv, ReachInv
<1>10. QED
  BY <1>5, <1>6, <1>7, <1>8, <1>9 DEF IInv

\* Visiting one successor: the edge is covered afterwards, and whoever else
\* loses its cover is queued.
LEMMA PropagateIInv == IInv /\ TypeOK' /\ Propagate => IInv'
<1> SUFFICES ASSUME IInv, TypeOK', Propagate PROVE IInv'
  OBVIOUS
<1> DEFINE c == Head(succs)
<1>1. /\ c \in Block /\ c \in Range(succs) /\ Tail(succs) \in Seq(Block)
      /\ Range(succs) = {c} \cup Range(Tail(succs))
  BY PopFront DEF IInv, TypeOK, Propagate
<1>2. /\ entry_states' = [entry_states EXCEPT ![c] = NewEntry(c)]
      /\ succs' = Tail(succs) /\ body' = body /\ bb' = bb /\ state' = state
  BY DEF Propagate
<1>3. /\ NewEntry(c) \in State /\ NewEntry(c) # None
      /\ EdgeState(c) \in State
      /\ Below(EdgeState(c), NewEntry(c))
      /\ c \in Reached => Below(entry_states[c], NewEntry(c))
      /\ ~EntryChanged(c) => NewEntry(c) = entry_states[c]
  BY <1>1, NewEntryFacts, StateAssumption DEF IInv
<1>4. /\ entry_states'[c] = NewEntry(c)
      /\ \A x \in Block \ {c} : entry_states'[x] = entry_states[x]
      /\ Reached' = Reached \cup {c}
  BY <1>1, <1>2, <1>3 DEF IInv, TypeOK, Reached
<1>5. /\ in_worklist \subseteq in_worklist'
      /\ in_worklist' \subseteq in_worklist \cup {c}
      /\ EntryChanged(c) => c \in in_worklist'
  BY DEF Propagate
<1>6. \A x : SuccSet(x)' = SuccSet(x)
  BY <1>2 DEF SuccSet
<1>7. \A x \in Block : x \notin in_worklist' => x \notin in_worklist /\ entry_states'[x] = entry_states[x]
  BY <1>1, <1>3, <1>4, <1>5
<1>8. \A x \in Reached : Below(entry_states[x], entry_states'[x])
  <2>1. SUFFICES ASSUME NEW x \in Reached PROVE Below(entry_states[x], entry_states'[x])
    OBVIOUS
  <2>2. x \in Block /\ entry_states[x] \in State
    BY <2>1 DEF IInv, TypeOK, Reached
  <2>3. QED
    BY <1>3, <1>4, <2>1, <2>2, OrderAssumption
<1>9. QueueInv'
  <2>1. \A x \in in_worklist' : entry_states'[x] # None
    BY <1>3, <1>4, <1>5 DEF IInv, QueueInv, TypeOK
  <2>2. CASE EntryChanged(c) /\ c \notin in_worklist
    <3>1. worklist' = Append(worklist, c) /\ in_worklist' = in_worklist \cup {c}
      BY <2>2 DEF Propagate
    <3>2. /\ Range(worklist') = Range(worklist) \cup {c}
          /\ Len(worklist') = Len(worklist) + 1 /\ Len(worklist) \in Nat
          /\ \A i \in 1..Len(worklist) : worklist'[i] = worklist[i]
          /\ worklist'[Len(worklist) + 1] = c
      BY <1>1, <3>1, PushBack DEF IInv, TypeOK
    <3>3. \A i \in 1..Len(worklist) : worklist[i] # c
      <4>1. \A i \in 1..Len(worklist) : worklist[i] \in Range(worklist)
        BY DEF IInv, TypeOK, Range
      <4>2. QED
        BY <2>2, <4>1 DEF IInv, QueueInv
    <3>4. ASSUME NEW i \in 1..Len(worklist'), NEW j \in 1..Len(worklist'),
                 worklist'[i] = worklist'[j]
          PROVE  i = j
      <4>1. \A k \in 1..Len(worklist') : k \in 1..Len(worklist) \/ k = Len(worklist) + 1
        BY <3>2
      <4>2. \A k, l \in 1..Len(worklist) : worklist[k] = worklist[l] => k = l
        BY DEF IInv, QueueInv
      <4>3. QED
        BY <3>2, <3>3, <3>4, <4>1, <4>2
    <3>5. QED
      BY <2>1, <3>1, <3>2, <3>4 DEF IInv, QueueInv
  <2>3. CASE ~(EntryChanged(c) /\ c \notin in_worklist)
    <3>1. worklist' = worklist /\ in_worklist' = in_worklist
      BY <2>3 DEF Propagate
    <3>2. QED
      BY <2>1, <3>1 DEF IInv, QueueInv
  <2>4. QED
    BY <2>2, <2>3
<1>10. SeedInv'
  <2>1. START \in Reached /\ Below(InitialState(body), entry_states[START])
    BY DEF IInv, SeedInv
  <2>2. /\ InitialState(body) \in State /\ entry_states[START] \in State
        /\ entry_states'[START] \in State
    BY <1>3, <1>4, <2>1, StateAssumption, GraphAssumption DEF IInv, TypeOK, Reached
  <2>3. Below(InitialState(body), entry_states'[START])
    BY <1>8, <2>1, <2>2, OrderAssumption
  <2>4. QED
    BY <1>2, <1>4, <2>1, <2>3 DEF SeedInv
<1>11. CoverInv'
  <2>1. SUFFICES ASSUME NEW x \in Reached', x \notin in_worklist', NEW d \in SuccSet(x),
                        ~(x = bb /\ d \in Range(Tail(succs)))
                 PROVE  EdgeCovered(x, d)'
    BY <1>2, <1>6 DEF CoverInv
  <2>2. x \in Block /\ x \notin in_worklist /\ entry_states'[x] = entry_states[x] /\ x \in Reached
    BY <1>7, <2>1 DEF Reached
  <2>3. body[x] \in BlockData /\ entry_states[x] \in State
    BY <2>2, GraphAssumption DEF IInv, TypeOK, Reached
  <2>4. d \in Block
    <3>1. Successors(body[x]) \in Seq(Block)
      BY <2>3, GraphAssumption
    <3>2. QED
      BY <2>1, <3>1 DEF SuccSet, Range
  <2> DEFINE e == Refine(body[x], ExitState(body[x], entry_states[x]), d)
  <2>5. e \in State
    BY <2>3, <2>4, StateAssumption
  <2>6. CASE EdgeCovered(x, d)
    <3>1. d \in Reached /\ Below(e, entry_states[d])
      BY <2>6 DEF EdgeCovered
    <3>2. entry_states[d] \in State /\ entry_states'[d] \in State
      BY <1>3, <1>4, <2>4, <3>1 DEF IInv, TypeOK, Reached
    <3>3. Below(e, entry_states'[d])
      BY <1>8, <2>5, <3>1, <3>2, OrderAssumption
    <3>4. QED
      BY <1>2, <1>4, <2>2, <3>1, <3>3 DEF EdgeCovered
  <2>7. CASE ~EdgeCovered(x, d)
    <3>1. x = bb /\ d = c
      BY <1>1, <2>1, <2>2, <2>7 DEF IInv, CoverInv
    <3>2. state = ExitState(body[bb], entry_states[bb])
      BY <1>1, <2>2, <3>1, EmptyRange DEF IInv, CurrentInv
    <3>3. e = EdgeState(c)
      BY <3>1, <3>2 DEF EdgeState
    <3>4. QED
      BY <1>2, <1>3, <1>4, <2>2, <3>1, <3>3 DEF EdgeCovered
  <2>8. QED
    BY <2>6, <2>7
<1>12. CurrentInv'
  <2>1. /\ bb \in Reached /\ Range(succs) \subseteq SuccSet(bb)
        /\ bb \in in_worklist \/ state = ExitState(body[bb], entry_states[bb])
    BY DEF IInv, CurrentInv, Propagate
  <2>2. bb \in in_worklist' \/ state = ExitState(body[bb], entry_states'[bb])
    BY <1>5, <1>7, <2>1 DEF IInv, TypeOK
  <2>3. QED
    BY <1>1, <1>2, <1>4, <1>6, <2>1, <2>2 DEF CurrentInv
<1>13. ReachInv'
  <2>1. Reachable' = Reachable
    BY <1>6 DEF Reachable, ClosedUnderSucc
  <2>2. bb \in Reachable /\ c \in SuccSet(bb)
    BY <1>1 DEF IInv, ReachInv, CurrentInv, Propagate
  <2>3. c \in Reachable
    BY <1>1, <2>2 DEF Reachable, ClosedUnderSucc
  <2>4. QED
    BY <1>4, <2>1, <2>3 DEF IInv, ReachInv
<1>14. QED
  BY <1>9, <1>10, <1>11, <1>12, <1>13 DEF IInv

\* The step that leaves everything as it is (also Done, after the return).
LEMMA StutterIInv == IInv /\ UNCHANGED vars => IInv'
<1>1. SUFFICES ASSUME IInv, UNCHANGED vars PROVE IInv'
  OBVIOUS
<1>2. /\ Reached' = Reached /\ Reachable' = Reachable
      /\ \A x : SuccSet(x)' = SuccSet(x)
      /\ \A x, y : EdgeCovered(x, y)' = EdgeCovered(x, y)
  BY <1>1 DEF vars, Reached, Reachable, ClosedUnderSucc, SuccSet, EdgeCovered
<1>3. TypeOK' /\ QueueInv'
  BY <1>1 DEF vars, IInv, TypeOK, QueueInv
<1>4. SeedInv' /\ CurrentInv' /\ ReachInv'
  BY <1>1, <1>2 DEF vars, IInv, SeedInv, CurrentInv, ReachInv
<1>5. CoverInv'
  BY <1>1, <1>2 DEF vars, IInv, CoverInv
<1>6. QED
  BY <1>3, <1>4, <1>5 DEF IInv

\* Every step of run_fixpoint preserves the inductive invariant.
LEMMA StepIInv == IInv /\ [Next]_vars => IInv'
<1>1. IInv /\ [Next]_vars => TypeOK'
  BY TypeStep DEF IInv
<1>2. QED
  BY <1>1, PopIInv, PropagateIInv, StutterIInv DEF Next, Done

\* IInv is an invariant of run_fixpoint.
THEOREM Invariance == Spec => []IInv
  BY InitIInv, StepIInv, PTL DEF Spec

\* IInv contains a solution at the end of the loop.
LEMMA IInvSolved == IInv => Solved
<1>1. SUFFICES ASSUME IInv, Returned PROVE IsSolution
  BY DEF Solved
<1>2. in_worklist = {} /\ Range(succs) = {}
  BY <1>1, EmptyRange DEF IInv, QueueInv, Returned
<1>3. QED
  BY <1>1, <1>2 DEF IInv, CoverInv, IsSolution

\* The loop of run_fixpoint keeps its invariant on every body: queue and set
\* agree, nothing is owed but by the queue or the block in hand, whose exit
\* state is current or will be computed again.
THEOREM LoopCorrect == Spec => []LoopInv
<1>1. IInv => LoopInv
  BY DEF IInv, LoopInv
<1>2. QED
  BY <1>1, Invariance, PTL

\* run_fixpoint returns a solution of the flow equations, for every body and
\* every transfer, monotone or not.
THEOREM ReturnsSolution == Spec => []Solved
  BY IInvSolved, Invariance, PTL

\* run_fixpoint leaves None exactly at the blocks that no path reaches.
THEOREM NoneIsUnreachable == Spec => []NoneMeansUnreachable
<1>1. IInv => NoneMeansUnreachable
  <2>1. SUFFICES ASSUME IInv, Returned PROVE Reached = Reachable
    BY DEF NoneMeansUnreachable
  <2>2. IsSolution
    BY <2>1, IInvSolved DEF Solved
  <2>3. ClosedUnderSucc(Reached)
    BY <2>2 DEF IsSolution, SeedInv, EdgeCovered, ClosedUnderSucc
  <2>4. Reachable \subseteq Reached
    BY <2>3 DEF Reachable, Reached
  <2>5. QED
    BY <2>1, <2>4 DEF IInv, ReachInv
<1>2. QED
  BY <1>1, Invariance, PTL

\* A step changes at most one entry state, and only upwards.
LEMMA StepGrows ==
  ASSUME IInv, [Next]_vars
  PROVE  \A b \in Reached : b \in Reached' /\ Below(entry_states[b], entry_states'[b])
<1>1. SUFFICES ASSUME NEW b \in Reached
               PROVE  b \in Reached' /\ Below(entry_states[b], entry_states'[b])
  OBVIOUS
<1>2. b \in Block /\ entry_states[b] \in State /\ Below(entry_states[b], entry_states[b])
  BY <1>1, OrderAssumption DEF IInv, TypeOK, Reached
<1>3. CASE Propagate
  <2>1. Head(succs) \in Block
    BY <1>3, PopFront DEF IInv, TypeOK, Propagate
  <2>2. /\ NewEntry(Head(succs)) \in State
        /\ Head(succs) \in Reached => Below(entry_states[Head(succs)], NewEntry(Head(succs)))
    BY <2>1, NewEntryFacts DEF IInv
  <2>3. entry_states' = [entry_states EXCEPT ![Head(succs)] = NewEntry(Head(succs))]
    BY <1>3 DEF Propagate
  <2>4. entry_states'[b] = IF b = Head(succs) THEN NewEntry(Head(succs)) ELSE entry_states[b]
    BY <1>2, <2>3 DEF IInv, TypeOK
  <2>5. QED
    BY <1>1, <1>2, <2>2, <2>4, StateAssumption DEF Reached
<1>4. CASE ~Propagate
  <2>1. entry_states' = entry_states
    BY <1>4 DEF Next, Pop, Done, vars
  <2>2. QED
    BY <1>1, <1>2, <2>1 DEF Reached
<1>5. QED
  BY <1>3, <1>4

\* run_fixpoint never takes a fact of an entry state back.
THEOREM NothingIsTakenBack == Spec => EntriesOnlyGrow
<1>1. IInv /\ [Next]_vars =>
        [\A b \in Reached : b \in Reached' /\ Below(entry_states[b], entry_states'[b])]_vars
  BY StepGrows
<1>2. QED
  BY <1>1, Invariance, PTL DEF Spec, EntriesOnlyGrow

\* The worklist engine implements FlowSolution: every step of run_fixpoint is
\* a growing step, the finishing step or invisible.
THEOREM KeepsPromise == Spec => Promise
<1>1. Init => Solution!Init
  <2>1. <<START>> # <<>>
    OBVIOUS
  <2>2. QED
    BY <2>1 DEF Init, Solution!Init, Returned
<1>2. IInv /\ Solved' /\ [Next]_vars => [Solution!Next]_(Solution!vars)
  <2>1. SUFFICES ASSUME IInv, Solved', [Next]_vars PROVE [Solution!Next]_(Solution!vars)
    OBVIOUS
  <2>2. Returned' => Solution!Solves'
    BY <2>1 DEF Solved, IsSolution, SeedInv, EdgeCovered, Reached, SuccSet, Range,
                Solution!Solves, Solution!Reached, Solution!SuccSet, Solution!Range
  <2>3. CASE Pop
    <3>1. ~Returned /\ body' = body /\ entry_states' = entry_states
      BY <2>3 DEF Pop, Returned
    <3>2. CASE Returned'
      <4>1. Solution!Solves
        BY <2>2, <3>1, <3>2 DEF Solution!Solves, Solution!Reached, Solution!SuccSet, Solution!Range
      <4>2. Solution!Finish
        BY <3>1, <3>2, <4>1 DEF Solution!Finish
      <4>3. QED
        BY <4>2 DEF Solution!Next
    <3>3. CASE ~Returned'
      <4>1. Returned' = Returned
        BY <3>1, <3>3 DEF Returned
      <4>2. QED
        BY <3>1, <4>1 DEF Solution!vars
    <3>4. QED
      BY <3>2, <3>3
  <2>4. CASE Propagate
    <3> DEFINE c == Head(succs)
    <3>1. /\ c \in Block /\ c \in SuccSet(bb) /\ bb \in Reached
      <4>1. c \in Block /\ c \in Range(succs)
        BY <2>1, <2>4, PopFront DEF IInv, TypeOK, Propagate
      <4>2. QED
        BY <2>1, <2>4, <4>1 DEF IInv, CurrentInv, Propagate
    <3>2. /\ NewEntry(c) \in State
          /\ c \in Reached => Below(entry_states[c], NewEntry(c))
      BY <2>1, <3>1, NewEntryFacts DEF IInv
    <3>3. /\ ~Returned /\ body' = body
          /\ entry_states' = [entry_states EXCEPT ![c] = NewEntry(c)]
      BY <2>4 DEF Propagate, Returned
    <3>4. Returned' \in BOOLEAN
      BY DEF Returned
    <3>5. Solution!Grow
      BY <2>2, <3>1, <3>2, <3>3, <3>4
      DEF Solution!Grow, Solution!Reached, Solution!SuccSet, Solution!Range, Reached, SuccSet, Range
    <3>6. QED
      BY <3>5 DEF Solution!Next
  <2>5. CASE UNCHANGED vars
    BY <2>5 DEF vars, Solution!vars, Returned
  <2>6. QED
    BY <2>1, <2>3, <2>4, <2>5 DEF Next, Done
<1>3. QED
  BY <1>1, <1>2, Invariance, ReturnsSolution, PTL DEF Spec, Promise, Solution!Spec
=============================================================================
