------------------------------ MODULE MCGuards ------------------------------
(***************************************************************************)
(* Value-range facts against executions: programs of three blocks over two *)
(* u64 locals (two bits wide here), a narrower one and a Boolean, analysed *)
(* by the engine and then run on every input.                              *)
(***************************************************************************)
EXTENDS IntegerMir

CONSTANT Programs(_)     \* block: the data a program may have there

VARIABLES body, entry_states, worklist, in_worklist, bb, state, succs, at, store

X == 1
Y == 2
N == 3
C == 4

MCLocal == 0..4

Uint(max) == [Type("Uint", FALSE) EXCEPT !.max = max]

MCTy(l) == CASE l \in {0, X, Y} -> Uint(MaxU64) [] l = N -> Uint(1)
             [] l = C -> [Type("Bool", FALSE) EXCEPT !.max = 1]

MCFields == RangeFacts \cup {"eq_locals", "keys_are_ne", "eq_pair_if_true", "ne_pair_if_true"}

MCKey(f) == IF f \in PairSets THEN Local \X Local ELSE Local

MCValue(f) ==
  CASE f \in BoundMaps -> 0..MaxU64
    [] f \in {"const_lt", "const_le", "const_gt", "const_ge"} -> Local \X (0..MaxU64)
    [] f \in {"eq_pair_if_true", "ne_pair_if_true"} -> Local \X Local
    [] OTHER -> Local

MCIs(fn) == {}

MCSummaries == [fn \in {} |-> NoSummary]

Set(l, rv) == Assign(Plain(l), rv)

Get(l) == Copy(Plain(l))

Moves ==
  {Set(Y, Use(Get(X))), Set(X, Use(Move(Plain(Y)))), Set(X, Opaque), Set(Y, Use(Const(2))),
   Set(Y, BinaryOp("BitAnd", Get(X), Const(1))), Set(X, BinaryOp("Rem", Get(Y), Const(2))),
   Set(Y, BinaryOp("Shr", Get(X), Const(1))), Set(X, BinaryOp("Add", Get(Y), Const(1))),
   Set(Y, BinaryOp("Mul", Get(X), Get(X))), Set(X, BinaryOp("BitOr", Get(Y), Const(1))),
   Set(Y, Cast("IntToInt", Get(N)))}

Compares ==
  {Set(C, BinaryOp("Ne", Get(X), Const(0))), Set(C, BinaryOp("Eq", Const(0), Get(Y))),
   Set(C, BinaryOp("Lt", Get(X), Const(2))), Set(C, BinaryOp("Lt", Const(0), Get(X))),
   Set(C, BinaryOp("Ge", Get(Y), Const(3))), Set(C, BinaryOp("Le", Get(X), Const(0))),
   Set(C, BinaryOp("Gt", Get(X), Const(3))), Set(C, BinaryOp("Eq", Get(X), Get(Y))),
   Set(C, BinaryOp("Ne", Get(X), Get(N)))}

Switch(zero, other) ==
  [kind |-> "SwitchInt", discr |-> Move(Plain(C)), values |-> <<0>>, targets |-> <<zero, other>>]

Goto(b) == [kind |-> "Goto", targets |-> <<b>>]

Data(b, sts, t) == [bb |-> b, statements |-> sts, term |-> t]

\* A comparison is switched on in the block that computes it, as rustc lowers
\* `if x < k': block 0 branches to 1 and 2, block 1 goes on to 2 or loops.
GuardedBlocks(b) ==
  CASE b = 0 -> {Data(0, <<m, c>>, Switch(1, 2)) : m \in Moves, c \in Compares}
    [] b = 1 -> {Data(1, <<m>>, Goto(t)) : m \in Moves, t \in {0, 2}}
                \cup {Data(1, <<m, c>>, Switch(2, 0)) : m \in {Set(X, Opaque), Set(Y, Use(Get(X)))}, c \in Compares}
    [] b = 2 -> {Data(2, <<>>, [kind |-> "Return"])}

\* The local is assigned between the comparison and the switch on it.
StaleBlocks(b) ==
  CASE b = 0 -> {Data(0, <<Set(C, BinaryOp("Ne", Get(X), Const(0))), Set(X, Opaque)>>, Switch(1, 2))}
    [] b \in 1..2 -> {Data(b, <<>>, [kind |-> "Return"])}

\* A local that is not zero is narrowed.
NarrowingBlocks(b) ==
  CASE b = 0 -> {Data(0, <<Set(X, BinaryOp("BitOr", Get(Y), Const(2))),
                           Set(N, Cast("IntToInt", Get(X)))>>, Goto(1))}
    [] b \in 1..2 -> {Data(b, <<>>, [kind |-> "Return"])}

Blocks == 0..2

MCBodies == {[b \in Blocks |-> CASE b = 0 -> d0 [] b = 1 -> d1 [] b = 2 -> d2] :
               d0 \in Programs(0), d1 \in Programs(1), d2 \in Programs(2)}

MCSuccessors(d) == BlockSuccessors(d.term)

MCInitial(b) == FlowInitialState

MCRefine(d, s, c) == RefineSwitchIntEdge(s, d.term, c)

\* X, Y and N are parameters; C is written before it is read.
MCEntryStores(b) ==
  {[l \in Local |-> CASE l = X -> x [] l = Y -> y [] l = N -> n [] OTHER -> 0] :
     x \in Values(X), y \in Values(Y), n \in Values(N)}

INSTANCE Execution WITH
  Block <- Blocks, START <- 0, BlockData <- UNION {Programs(b) : b \in Blocks},
  Bodies <- MCBodies, Successors <- MCSuccessors, State <- StatesOver(Fields), None <- Absent,
  InitialState <- MCInitial, ExitState <- BlockExit, Refine <- MCRefine,
  Join <- Merged, JoinChanges <- Changed, Below <- Leq,
  Stores <- IntegerStores, EntryStores <- MCEntryStores, Step <- RunBlock,
  Describes <- ValuesDescribed
-----------------------------------------------------------------------------
\* local_is_nonzero: a local that the analysis calls "proven # 0 on all
\* reaching paths" is not zero when an execution is there.
NonzeroIsProven ==
  at # Absent => \A l \in Local : LocalIsNonzero(entry_states[at], l) => store[l] # 0
=============================================================================
