---------------------------- MODULE MCOwnership -----------------------------
(***************************************************************************)
(* Heap facts and the ownership checker against executions: programs that  *)
(* allocate, copy, store, free and pass on raw pointers over a branch.     *)
(***************************************************************************)
EXTENDS HeapMir

CONSTANT Programs(_)     \* block: the data a program may have there

VARIABLES body, entry_states, worklist, in_worklist, bb, state, succs, at, store

P == 1
Q == 2
B == 3    \* a Box
T == 4    \* a pair of pointers
S == 5    \* a struct with a pointer field
C == 6

MCLocal == 0..6

MCTy(l) == CASE l \in {0, P, Q} -> Type("RawPtr", TRUE) [] l = C -> Type("Bool", FALSE)
             [] OTHER -> Type("Adt", FALSE)

MCFields == {"heap", "points_to", "field_owned"}

MCSites == 0..4

MCCells == {<<l, NoField>> : l \in {0, P, Q, B, T}} \cup {<<S, 0>>}

MCKey(f) == CASE f = "heap" -> MCSites [] f = "points_to" -> Local
              [] f = "field_owned" -> {S, T} \X {0}

MCValue(f) == IF f = "heap" THEN HeapState ELSE MCSites

MCIs(fn) == CASE fn = "Box::into_raw" -> {"into_raw", "into_raw_call"} [] fn = "Box::from_raw" -> {"from_raw", "box_from_raw"}
              [] fn = "realloc" -> {"raw_realloc"} [] fn = "read" -> {"ptr_read", "ptr_read_call"}
              [] fn = "as_ref" -> {"ptr_as_ref"} [] fn = "NonNull::as_ref" -> {"nonnull_deref"}
              [] OTHER -> {}

MCSummaries ==
  [fn \in {"consume", "make", "identity"} |->
     CASE fn = "consume" -> [NoSummary EXCEPT !.param_effects = <<[param |-> 1, effect |-> "Reconstituted"]>>]
       [] fn = "make" -> [NoSummary EXCEPT !.returns_raw_owned = TRUE]
       [] fn = "identity" -> [NoSummary EXCEPT !.returns_ptr_of_param = 1]]

Set(l, rv) == Assign(Plain(l), rv)

Get(l) == Copy(Plain(l))

Null(l) == Set(l, Opaque)

Call(fn, args, dest, target) ==
  [kind |-> "Call", func |-> [fn |-> fn, local |-> NoLocal], args |-> args,
   dest |-> Plain(dest), targets |-> <<target>>, unwind |-> NoCleanup]

Branch(b, c) ==
  [kind |-> "SwitchInt", discr |-> Copy(Plain(C)), values |-> <<0>>, targets |-> <<b, c>>]

Data(b, sts, t) == [bb |-> b, statements |-> sts, term |-> t]

Frees(t) == {Call("Box::from_raw", <<Get(P)>>, B, t), Call("Box::from_raw", <<Get(Q)>>, B, t),
             Call("consume", <<Get(P)>>, B, t)}

Allocates(t) == {Call("Box::into_raw", <<Get(B)>>, Q, t), Call("make", <<>>, P, t),
                 Call("realloc", <<Get(P)>>, Q, t)}

Views(t) == {Call("identity", <<Get(P)>>, Q, t)}

Uses(t) == {Call("read", <<Get(P)>>, B, t), Call("as_ref", <<Get(Q)>>, B, t),
            Call("NonNull::as_ref", <<Get(P)>>, B, t)}

Unknowns(t) == {Call("log", <<Get(Q)>>, B, t)}

Copies == {<<>>, <<Set(Q, Use(Get(P)))>>, <<Set(Q, Use(Move(Plain(P)))), Null(P)>>, <<Set(Q, Cast("PtrToPtr", Get(P)))>>,
           <<Set(Q, BinaryOp("Offset", Get(P), Const(1)))>>, <<Null(P)>>}

Fielded == {<<Assign(Place(S, 0, 0), Use(Move(Plain(P)))), Null(P)>>, <<Set(Q, Use(Copy(Place(S, 0, 0))))>>,
           <<Set(T, Aggregate("Tuple", NoField, <<Get(P), Get(Q)>>)), Set(P, Use(Copy(Place(T, 0, 0))))>>}

\* Block 0 allocates, block 1 branches to 2 and 3, block 2 goes on to 3.
BranchingBlocks(b) ==
  CASE b = 0 -> {Data(0, <<Null(Q)>>, Call("Box::into_raw", <<Get(B)>>, P, 1))}
    [] b = 1 -> {Data(1, st, Branch(2, 3)) : st \in Copies \cup Fielded}
    [] b = 2 -> {Data(2, <<>>, t) : t \in Frees(3) \cup Allocates(3) \cup Views(3)}
    [] b = 3 -> {Data(3, st, t) : st \in Copies \cup Fielded, t \in Frees(4) \cup Allocates(4)}
    [] b = 4 -> {Data(4, <<>>, t) : t \in Frees(5) \cup Unknowns(5) \cup Uses(5)}
    [] b = 5 -> {Data(5, <<Set(0, Use(Get(l)))>>, [kind |-> "Return"]) : l \in {P, Q}}

Return(b) == Data(b, <<>>, [kind |-> "Return"])

Goto(b) == [kind |-> "Goto", targets |-> <<b>>]

\* Q holds P's allocation on one branch and its own on the other; Q is freed.
AliasedBlocks(b) ==
  CASE b = 0 -> {Data(0, <<>>, Call("Box::into_raw", <<Get(B)>>, P, 1))}
    [] b = 1 -> {Data(1, <<>>, Call("Box::into_raw", <<Get(T)>>, Q, 2))}
    [] b = 2 -> {Data(2, <<>>, Branch(3, 4))}
    [] b = 3 -> {Data(3, <<Set(Q, Use(Get(P)))>>, Goto(4))}
    [] b = 4 -> {Data(4, <<>>, t) : t \in Frees(5)}
    [] b = 5 -> {Return(5)}

\* One branch shows P to unknown code, the other frees it; then P is freed.
EscapingBlocks(b) ==
  CASE b = 0 -> {Data(0, <<>>, Call("Box::into_raw", <<Get(B)>>, P, 1))}
    [] b = 1 -> {Data(1, <<>>, Branch(2, 3))}
    [] b = 2 -> {Data(2, <<>>, Call("log", <<Get(P)>>, T, 4))}
    [] b = 3 -> {Data(3, <<>>, Call("Box::from_raw", <<Get(P)>>, B, 4))}
    [] b = 4 -> {Data(4, <<>>, Call("Box::from_raw", <<Get(P)>>, B, 5))}
    [] b = 5 -> {Return(5)}

\* P is taken back on one branch only, before a return or not at all.
PartialBlocks(b) ==
  CASE b = 0 -> {Data(0, <<>>, Call("Box::into_raw", <<Get(B)>>, P, 1))}
    [] b = 1 -> {Data(1, <<>>, Branch(2, 3)), Data(1, <<>>, Goto(3))}
    [] b = 2 -> {Data(2, <<>>, Call("Box::from_raw", <<Get(P)>>, B, t)) : t \in {3, 4}}
    [] b \in 3..5 -> {Return(b)}

\* Unknown code sees a copy of P; then P is freed.
EscapedBlocks(b) ==
  CASE b = 0 -> {Data(0, <<>>, Call("Box::into_raw", <<Get(B)>>, P, 1))}
    [] b = 1 -> {Data(1, <<Set(Q, Use(Get(P)))>>, Call("log", <<Get(Q)>>, T, 2))}
    [] b = 2 -> {Data(2, <<>>, Call("Box::from_raw", <<Get(P)>>, B, 3))}
    [] b \in 3..5 -> {Return(b)}

\* P is freed, gets a new pointer from unknown code, and is freed again.
ReassignedBlocks(b) ==
  CASE b = 0 -> {Data(0, <<>>, Call("Box::into_raw", <<Get(B)>>, P, 1))}
    [] b = 1 -> {Data(1, <<>>, Call("Box::from_raw", <<Get(P)>>, B, 2))}
    [] b = 2 -> {Data(2, <<>>, Call("log", <<>>, P, 3))}
    [] b = 3 -> {Data(3, <<>>, Call("Box::from_raw", <<Get(P)>>, B, 4))}
    [] b \in 4..5 -> {Return(b)}

\* A value that holds the only pointer to an allocation is dropped.
DroppedBlocks(b) ==
  CASE b = 0 -> {Data(0, <<>>, Call("make", <<>>, T, 1))}
    [] b = 1 -> {Data(1, <<>>, [kind |-> "Drop", place |-> Plain(T), targets |-> <<2>>,
                                unwind |-> NoCleanup])}
    [] b \in 2..5 -> {Return(b)}

Blocks == 0..5

MCBodies ==
  {[b \in Blocks |-> CASE b = 0 -> d0 [] b = 1 -> d1 [] b = 2 -> d2 [] b = 3 -> d3
                       [] b = 4 -> d4 [] b = 5 -> d5] :
     d0 \in Programs(0), d1 \in Programs(1), d2 \in Programs(2),
     d3 \in Programs(3), d4 \in Programs(4), d5 \in Programs(5)}

MCSuccessors(d) == BlockSuccessors(d.term)

MCInitial(b) == FlowInitialState

MCRefine(d, s, c) == RefineSwitchIntEdge(s, d.term, c)

MCEntryStores(b) == {EmptyHeap}

INSTANCE Execution WITH
  Block <- Blocks, START <- 0, BlockData <- UNION {Programs(b) : b \in Blocks},
  Bodies <- MCBodies, Successors <- MCSuccessors, State <- StatesOver(Fields), None <- Absent,
  InitialState <- MCInitial, ExitState <- BlockExit, Refine <- MCRefine,
  Join <- Merged, JoinChanges <- Changed, Below <- Leq,
  Stores <- HeapStores, EntryStores <- MCEntryStores, Step <- RunHeapBlock,
  Describes <- HeapDescribed
-----------------------------------------------------------------------------
Reports(rules) == {f \in OwnershipFindings(body, entry_states) : f.bb = at /\ f.rule \in rules}

\* "Box::from_raw (or equivalent) called on a pointer that was already
\* reconstituted": whenever an execution is about to take back an object that
\* was taken back before, and that no unknown code has seen, the checker has
\* a finding at that call.
DoubleFreeReported ==
  at # Absent /\ body[at].term.kind = "Call" =>
    \A m \in HeapStatements(store, body[at]) :
      (\E l \in FreedLocals(entry_states[at], body[at].term) : m.ptr[Whole(l)] \cap (m.freed \ m.seen) # {})
        => Reports({"already_reconstituted", "potential_double_free"}) # {}

\* "pointer is dereferenced after its allocation was handed off": whenever an
\* execution is about to use a pointer to an object that was taken back, and
\* that no unknown code has seen, the operation's checker reports a use after
\* free, definite or potential.
UseAfterFreeReported ==
  at # Absent /\ body[at].term.kind = "Call" /\ body[at].term.func.fn \in {"read", "as_ref", "NonNull::as_ref"} =>
    \A m \in HeapStatements(store, body[at]) :
      UNION Held(m, body[at].term.args[1]) \cap (m.freed \ m.seen) # {} =>
        PointerFindings(BeforeTerminator(entry_states[at], body[at]), body[at].term)
          \cap {"use_after_free", "potential_use_after_free"} # {}

\* "never reconstituted via from_raw - memory leak": an object reported as
\* leaked, if this execution allocated it, is still owned by a raw pointer
\* that the function neither returns nor gave to anyone.
LeakIsReal ==
  at # Absent /\ body[at].term.kind = "Return" =>
    \A m \in HeapStatements(store, body[at]), f \in Reports({"ownership_leak"}) :
      \A o \in m.live : o[1] = f.about /\ Youngest(m, o) => o \notin m.freed \cup m.seen \cup m.ptr[Whole(0)]

\* "Suppress when flow proves the pointer is consumed on all return paths": an
\* object of a Box::into_raw that a function returns with, not taken back and
\* not seen by unknown code, has its call reported by into_raw.
ConsumedOnAllPaths ==
  at # Absent /\ body[at].term.kind = "Return" =>
    \A m \in HeapStatements(store, body[at]) : \A o \in m.live \ (m.freed \cup m.seen) :
      body[o[1]].term.kind = "Call" /\ PathIs(body[o[1]].term.func.fn, "into_raw")
      => \E f \in IntoRawFindings(body, entry_states) : f.about = o[1]

\* FreedKind::Definite, "every tracked object was reconstituted on all paths -
\* a definite UAF": what a pointer so classified holds was taken back.
DefiniteIsFreed ==
  at # Absent => \A l \in {P, Q} :
    FreedKind(entry_states[at], l) = "Definite" => store.ptr[Whole(l)] \subseteq store.freed

\* "called on a pointer that was already reconstituted on this path": it was.
DoubleFreeIsReal ==
  at # Absent /\ Reports({"already_reconstituted"}) # {} =>
    \A m \in HeapStatements(store, body[at]) :
      \E l \in FreedLocals(entry_states[at], body[at].term) : m.ptr[Whole(l)] \cap m.freed # {}

\* "Only fire for inter-procedural / escaped cases": a pointer that unknown code
\* has seen is reported, by box_from_raw or the ownership checker, when freed.
EscapedFreeReported ==
  at # Absent /\ body[at].term.kind = "Call" /\ PathIs(body[at].term.func.fn, "from_raw") =>
    \A m \in HeapStatements(store, body[at]) :
      m.ptr[Whole(FirstArgBaseLocal(body[at].term.args))] \cap m.seen # {} =>
        \/ PointerFindings(BeforeTerminator(entry_states[at], body[at]), body[at].term) # {}
        \/ Reports({"already_reconstituted", "potential_double_free"}) # {}

\* "RawOwned objects dropped here are leaks, and the checker needs to see them
\* at Return": an object that nobody took back, returned or gave away is
\* reported when the function returns.
DroppedLeakReported ==
  at # Absent /\ body[at].term.kind = "Return" =>
    \A o \in store.live \ (store.freed \cup store.seen \cup store.ptr[Whole(0)]) :
      \E f \in Reports({"ownership_leak"}) : f.about = o[1]
=============================================================================
