---------------------------- MODULE MCUnchecked -----------------------------
(***************************************************************************)
(* The checkers of unchecked operations against executions: a value is     *)
(* computed, perhaps compared and perhaps overwritten on one branch, and   *)
(* then handed to an operation with a contract.                            *)
(***************************************************************************)
EXTENDS IntegerMir, Precond

CONSTANTS Programs,      \* the bodies
          DIGIT_MAX      \* 9, scaled down

VARIABLES body, entry_states, worklist, in_worklist, bb, state, succs, at, store

S == 1        \* &[T], a parameter
X == 2        \* u64, a parameter
Y == 3        \* u64
N == 4        \* an integer one bit narrower
C == 5        \* bool
L == 6        \* usize
R == 7        \* &[T]
D == 8        \* the result of an operation

MCLocal == 0..8

WidthOf(max) == CHOOSE w \in 0..3 : 2^w = max + 1

Uint(max, bits) == [Type("Uint", FALSE) EXCEPT !.max = max, !.bits = bits]

\* usize is as wide as u64, and in no table of widths.
MCTy(l) == CASE l \in {0, X, Y, D} -> Uint(MaxU64, WidthOf(MaxU64))
             [] l = N -> Uint(MaxU64 \div 2, WidthOf(MaxU64) - 1)
             [] l = L -> Uint(MaxU64, NoValue)
             [] l = C -> [Type("Bool", FALSE) EXCEPT !.max = 1]
             [] l \in {S, R} -> Type("Ref", FALSE)

IndexFields == {"bounded", "bounded_or_eq", "index_bounded_for", "index_bounded_or_eq_for",
                "lt_for", "le_for", "len_of", "ref_base"} \cup CompareFacts

MCFields == (RangeFacts \ {"finite", "finite_if_true", "nan_if_true"}) \cup {"mul_overflow"} \cup IndexFields

MCKey(f) == IF f \in PairSets THEN Local \X Local ELSE Local

MCValue(f) ==
  CASE f \in BoundMaps -> 0..MaxU64
    [] f \in {"const_lt", "const_le", "const_gt", "const_ge"} -> Local \X (0..MaxU64)
    [] f \in {"lt_for", "le_for"} -> Local \X Local
    [] OTHER -> Local

MCIs(fn) ==
  CASE fn = "len" -> {"len"}
    [] fn = "new_unchecked" -> {"new_unchecked", "nonzero_precond"}
    [] fn = "ctlz_nonzero" -> {"ctlz_nonzero", "nonzero_precond"}
    [] fn = "assert_unchecked" -> {"assert_unchecked"}
    [] fn \in {"unchecked_add", "unchecked_mul"} -> {"unchecked_int_op", "nonzero_unchecked_op", fn}
    [] fn = "unchecked_sub" -> {"unchecked_int_op", fn}
    [] fn = "unchecked_shl" -> {"unchecked_int_op", "unchecked_shift"}
    [] fn = "forward_unchecked" -> {"step_unchecked"}
    [] fn = "from_u8_unchecked" -> {"ascii_unchecked", "ascii_precond"}
    [] fn = "digit_unchecked" -> {"ascii_unchecked"}
    [] fn = "from_u32_unchecked" -> {"char_from_u32"}
    [] fn = "from_size_align_unchecked" -> {"layout_unchecked"}
    [] fn \in {"get_unchecked", "split_at_unchecked"} -> {fn}
    [] OTHER -> {}

MCSummaries == [fn \in {} |-> NoSummary]

Set(l, rv) == Assign(Plain(l), rv)

Get(l) == Copy(Plain(l))

Switch(zero, other) ==
  [kind |-> "SwitchInt", discr |-> Move(Plain(C)), values |-> <<0>>, targets |-> <<zero, other>>]

Goto(b) == [kind |-> "Goto", targets |-> <<b>>]

Return == [kind |-> "Return"]

Call(fn, args, dest, to) ==
  [kind |-> "Call", func |-> [fn |-> fn, local |-> NoLocal], args |-> args, dest |-> Plain(dest),
   targets |-> <<to>>, unwind |-> NoCleanup]

Data(b, sts, t) == [bb |-> b, statements |-> sts, term |-> t]
-----------------------------------------------------------------------------
(***************************************************************************)
(* Safe functions of a slice and a number that call an unchecked operation.*)
(***************************************************************************)
Wraps == [nonzero_of |-> "ctlz_nonzero", ascii_of |-> "from_u8_unchecked", get_at |-> "get_unchecked"]

WrappedArgs(op) == IF op = "get_unchecked" THEN <<Get(S), Get(X)>> ELSE <<Get(X)>>

Wrapper(fn) == [b \in {0} |-> Data(0, <<>>, Call(Wraps[fn], WrappedArgs(Wraps[fn]), D, 1))]

\* The one that tests its argument first: `if n != 0 { ctlz_nonzero(n) }'.
Guarded == [b \in 0..1 |->
  IF b = 0 THEN Data(0, <<Set(C, BinaryOp("Ne", Get(X), Const(0)))>>, Switch(2, 1))
  ELSE Data(1, <<>>, Call("ctlz_nonzero", <<Get(X)>>, D, 2))]

\* Its blocks are entered with nothing known, and with what the test tells.
GuardedEntry == [b \in 0..1 |->
  IF b = 0 THEN FlowInitialState
  ELSE [FlowInitialState EXCEPT !["nonzero"] = {X}, !["nonzero_if_true"][C] = X,
                                !["const_upper"][X] = MaxU64, !["const_upper"][C] = 1]]

\* That is what the analysis computes for block 1.
ASSUME GuardedEntryAssumption ==
  GuardedEntry[1] = RefineSwitchIntEdge(BlockExit(Guarded[0], FlowInitialState), Guarded[0].term, 1)

Requirement(nonzero, ascii, bounded) ==
  [nonzero_args |-> nonzero, ascii_args |-> ascii, bounded_for_args |-> bounded]

MCPreconds ==
  [nonzero_of |-> Requirement({X}, {}, {}), ascii_of |-> Requirement({}, {X}, {}),
   get_at |-> Requirement({}, {}, {<<X, S>>}), guarded |-> NoPrecond]

\* These are what the pre-pass extracts from the functions.
ASSUME PrecondsAssumption ==
  /\ MCPreconds["guarded"] = ExtractPrecondSummary(Guarded, GuardedEntry)
  /\ \A fn \in DOMAIN Wraps :
       MCPreconds[fn] = ExtractPrecondSummary(Wrapper(fn), [b \in {0} |-> FlowInitialState])
-----------------------------------------------------------------------------
(***************************************************************************)
(* Programs.  Block 0 takes the length of S, block 1 computes and compares *)
(* and branches to 3 where the guard c holds and to 2 where it does not,   *)
(* block 2 may overwrite and join 3 or return, and block 3 is the call.    *)
(***************************************************************************)
Program(m, c, w, call) ==
  [b \in 0..4 |->
     CASE b = 0 -> Data(0, <<Set(N, Opaque), Set(R, Ref(Place(S, 1, NoField)))>>,
                        Call("len", <<Get(R)>>, L, 1))
       [] b = 1 -> Data(1, <<m, c>>, IF c.rv.o \in {"Ge", "Gt", "Eq"} THEN Switch(3, 2) ELSE Switch(2, 3))
       [] b = 2 -> Data(2, w.writes, Goto(w.to))
       [] b = 3 -> Data(3, <<>>, call)
       [] b = 4 -> Data(4, <<>>, Return)]

Moves ==
  {Set(Y, rv) : rv \in {Opaque, Use(Get(X)), Use(Const(2)), Cast("IntToInt", Get(N)),
                        BinaryOp("BitAnd", Get(X), Const(1)), BinaryOp("Rem", Get(X), Const(2)),
                        BinaryOp("BitOr", Get(X), Const(1)), BinaryOp("Add", Get(N), Const(1)),
                        BinaryOp("Mul", Get(X), Get(N))}}

Compares ==
  {Set(C, BinaryOp("Ne", Get(Y), Const(0))), Set(C, BinaryOp("Lt", Get(Y), Const(2))),
   Set(C, BinaryOp("Ge", Get(Y), Const(1))), Set(C, BinaryOp("Le", Const(2), Get(X))),
   Set(C, BinaryOp("Eq", Get(X), Const(0)))}

Rejoin(writes) == [writes |-> writes, to |-> 3]

Leave == [writes |-> <<>>, to |-> 4]

Overwrites == {Leave, Rejoin(<<>>), Rejoin(<<Set(Y, Use(Const(0)))>>), Rejoin(<<Set(Y, Use(Const(1)))>>)}

ValueCalls ==
  {Call(fn, <<Get(Y)>>, D, 4) : fn \in {"new_unchecked", "ctlz_nonzero", "from_u8_unchecked", "from_u32_unchecked"}}
  \cup {Call(fn, <<Get(X), Get(Y)>>, D, 4) :
          fn \in {"unchecked_add", "unchecked_mul", "unchecked_sub", "unchecked_shl", "forward_unchecked"}}
  \cup {Call("assert_unchecked", <<Get(C)>>, D, 4),
        Call("from_size_align_unchecked", <<Get(Y), Const(2)>>, D, 4)}
  \cup {Call(fn, <<Get(S), Get(Y)>>, D, 4) : fn \in {"nonzero_of", "ascii_of", "guarded"}}

\* An index is compared with the length of the one slice there is.
IndexCompares ==
  {Set(C, BinaryOp("Lt", Get(Y), Get(L))), Set(C, BinaryOp("Le", Get(Y), Get(L))),
   Set(C, BinaryOp("Ge", Get(Y), Get(L))), Set(C, BinaryOp("Gt", Get(Y), Get(L))),
   Set(C, BinaryOp("Ne", Get(L), Const(0)))}

IndexMoves ==
  {Set(Y, rv) : rv \in {Opaque, Use(Get(X)), Cast("IntToInt", Get(N)), BinaryOp("Rem", Get(X), Const(2))}}

IndexCalls ==
  {Call(fn, <<Get(r), Get(Y)>>, D, 4) : fn \in {"get_unchecked", "split_at_unchecked", "get_at"},
                                        r \in {S, R}}
  \cup {Call(fn, <<Get(R), Const(0)>>, D, 4) : fn \in {"get_unchecked", "split_at_unchecked"}}

UncheckedPrograms ==
  {Program(m, c, w, t) : m \in Moves, c \in Compares, w \in Overwrites, t \in ValueCalls}
  \cup {Program(m, c, w, t) : m \in IndexMoves, c \in IndexCompares, w \in Overwrites, t \in IndexCalls}

\* The call with Y unknown, where the guard holds.
Where(c, call) == Program(Set(Y, Opaque), c, Leave, call)

NotZero == Set(C, BinaryOp("Ne", Get(Y), Const(0)))

\* A usize is shifted by a narrower number that may be anything.
ShiftPrograms == {Where(NotZero, Call("unchecked_shl", <<Get(L), Get(N)>>, D, 4))}

\* A digit is known to be an ASCII code.
DigitPrograms == {Where(Set(C, BinaryOp("Le", Get(Y), Const(ASCII_MAX))),
                        Call("digit_unchecked", <<Get(Y)>>, D, 4))}

\* A small layout, with an alignment of three.
AlignPrograms == {Where(Set(C, BinaryOp("Lt", Get(Y), Const(1))),
                        Call("from_size_align_unchecked", <<Get(Y), Const(3)>>, D, 4))}

\* The index is compared with a number that is not the length of the slice.
OtherBoundPrograms == {Where(Set(C, BinaryOp("Lt", Get(Y), Get(X))),
                             Call("get_unchecked", <<Get(S), Get(Y)>>, D, 4))}

\* The caller hands on its own parameter ...
ParamPrograms == {Where(NotZero, Call("nonzero_of", <<Get(S), Get(X)>>, D, 4))}

\* ... or passes the constant zero.
ConstPrograms == {Where(NotZero, Call("nonzero_of", <<Get(S), Const(0)>>, D, 4))}

Blocks == 0..4

MCSuccessors(d) == BlockSuccessors(d.term)

MCInitial(b) == FlowInitialState

MCRefine(d, s, c) == RefineSwitchIntEdge(s, d.term, c)

\* The length of S matters only to the operations that take an index.
Lengths(b) ==
  IF b[3].term.func.fn \in {"get_unchecked", "split_at_unchecked", "get_at"} THEN Values(S) ELSE {0}

\* S and X are parameters; every other local is written before it is read.
MCEntryStores(b) ==
  {[l \in Local |-> CASE l = S -> n [] l = X -> x [] OTHER -> 0] : n \in Lengths(b), x \in Values(X)}

INSTANCE Execution WITH
  Block <- Blocks, START <- 0, BlockData <- UNION {Range(p) : p \in Programs},
  Bodies <- Programs, Successors <- MCSuccessors, State <- StatesOver(Fields), None <- Absent,
  InitialState <- MCInitial, ExitState <- BlockExit, Refine <- MCRefine,
  Join <- Merged, JoinChanges <- Changed, Below <- Leq,
  Stores <- IntegerStores, EntryStores <- MCEntryStores, Step <- RunBlock,
  Describes <- ValuesDescribed
-----------------------------------------------------------------------------
(***************************************************************************)
(* What the operations require of the store they are called in.            *)
(***************************************************************************)
RoundUp(n, align) == ((n + align - 1) \div align) * align

Requires(m, fn, args) ==
  LET v(i) == Read(m, args[i]) IN
  CASE fn \in {"new_unchecked", "ctlz_nonzero", "assert_unchecked"} -> v(1) # 0
    [] fn \in {"unchecked_add", "forward_unchecked"} -> v(1) + v(2) <= MaxU64
    [] fn = "unchecked_mul" -> v(1) * v(2) <= MaxU64
    [] fn = "unchecked_sub" -> v(2) <= v(1)
    [] fn = "unchecked_shl" -> v(2) < WidthOf(Greatest(args[1].place.local))
    [] fn = "from_u8_unchecked" -> v(1) <= ASCII_MAX
    [] fn = "from_u32_unchecked" -> v(1) <= SCALAR_MAX /\ v(1) \notin SURROGATE_FIRST..SURROGATE_LAST
    [] fn = "digit_unchecked" -> v(1) <= DIGIT_MAX
    [] fn = "from_size_align_unchecked" -> IsPowerOfTwo(v(2)) /\ RoundUp(v(1), v(2)) <= MaxISize
    [] fn = "get_unchecked" -> v(2) < v(1)
    [] fn = "split_at_unchecked" -> v(2) <= v(1)
    [] OTHER -> TRUE

\* The execution is about to call one of fns.
Calling(fns) == at # Absent /\ body[at].term.kind = "Call" /\ body[at].term.func.fn \in fns

\* The rule stays silent only where the operation's requirement is met.
SilentMeansSafe(Rule(_, _)) ==
  LET t == body[at].term IN Rule(entry_states[at], t) \/ Requires(store, t.func.fn, t.args)

\* nonzero_new_unchecked, ctlz_nonzero and hint_assert_unchecked are silent
\* only where the value is not zero in any execution; unchecked_int_arith,
\* step_unchecked, ascii_unchecked, char_from_u32_unchecked and layout_unchecked
\* (with alloc_size_overflow, to which it leaves products) only where the
\* result is in range in every execution.
RangeSafe ==
  /\ Calling({"new_unchecked"}) => SilentMeansSafe(NonZeroNewUnchecked)
  /\ Calling({"ctlz_nonzero"}) => SilentMeansSafe(CtlzNonzero)
  /\ Calling({"assert_unchecked"}) => SilentMeansSafe(HintAssertUnchecked)
  /\ Calling({"unchecked_add", "unchecked_mul", "unchecked_sub", "unchecked_shl"}) =>
       SilentMeansSafe(UncheckedIntArith)
  /\ Calling({"forward_unchecked"}) => SilentMeansSafe(StepUnchecked)
  /\ Calling({"from_u8_unchecked"}) => SilentMeansSafe(AsciiUnchecked)
  /\ Calling({"from_u32_unchecked"}) => SilentMeansSafe(CharFromU32Unchecked)
  /\ Calling({"from_size_align_unchecked"}) =>
       SilentMeansSafe(LAMBDA s, t : LayoutUnchecked(s, t) \/ AllocSizeOverflow(s, t))

\* slice_get_unchecked and split_at_unchecked are silent only where the index
\* is within the slice in every execution, when indices are compared with the
\* length of that slice.
IndexSafe ==
  /\ Calling({"get_unchecked"}) => SilentMeansSafe(SliceGetUnchecked)
  /\ Calling({"split_at_unchecked"}) => SilentMeansSafe(SplitAtUnchecked)

\* precond_propagation is silent at the call of a safe function only where
\* the operation inside it gets what it requires.
PrecondSafe ==
  Calling(DOMAIN Wraps) =>
    LET t == body[at].term
        op == Wraps[t.func.fn]
        args == IF op = "get_unchecked" THEN t.args ELSE <<t.args[2]>>
    IN PrecondPropagation(entry_states[at], t) \/ Requires(store, op, args)
-----------------------------------------------------------------------------
\* "suppress when shift amount < bit width of type": an unreported shift is by
\* less than the width of the shifted type.
ShiftSafe == Calling({"unchecked_shl"}) => SilentMeansSafe(UncheckedIntArith)

\* "argument must be in 0..=9": an unreported digit is a digit.
DigitSafe == Calling({"digit_unchecked"}) => SilentMeansSafe(AsciiUnchecked)

\* "align must be a power of two and size must not overflow isize::MAX when
\* rounded to align": an unreported layout is one.
LayoutSafe == Calling({"from_size_align_unchecked"}) => SilentMeansSafe(LayoutUnchecked)

\* "index proven < THIS slice's len": an unreported index is within the slice.
ThisSliceSafe == Calling({"get_unchecked"}) => SilentMeansSafe(SliceGetUnchecked)
=============================================================================
