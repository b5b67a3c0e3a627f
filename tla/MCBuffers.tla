----------------------------- MODULE MCBuffers ------------------------------
(***************************************************************************)
(* The checkers of collections and of pointers into them, against          *)
(* executions: a collection is measured, perhaps changed, and then used by *)
(* an operation that checks nothing.                                       *)
(***************************************************************************)
EXTENDS BufferMir, SequencesExt

CONSTANT Programs      \* the bodies

VARIABLES body, entry_states, worklist, in_worklist, bb, state, succs, at, store

V == 1        \* &mut Vec<T>, a parameter
W == 2        \* a collection that is owned, a parameter
I == 3        \* usize, parameters
J == 4
R == 5        \* &mut of a collection
A == 6        \* & of a collection
N == 7        \* a length
K == 8        \* a capacity
C == 9        \* bool
P == 10       \* *mut T
Q == 11
X == 12       \* [usize; 2]
B == 13       \* Box<T>
D == 14       \* the result of an operation
F == 15       \* unsafe fn(..)

MCLocal == 0..15

MCColl == {V, W}

MCTy(l) == CASE l \in {V, R} -> Type("Ref", TRUE)
             [] l = A -> Type("Ref", FALSE)
             [] l \in {I, J, N, K} -> Type("Uint", FALSE)
             [] l = C -> Type("Bool", FALSE)
             [] l \in {P, Q} -> Type("RawPtr", TRUE)
             [] l = B -> Type("Box", FALSE)
             [] l = F -> Type("UnsafeFnPtr", FALSE)
             [] OTHER -> Type("Adt", FALSE)

MCFields == {"ref_base", "len_of", "cap_of", "spare_if_true", "spare_if_false", "has_spare",
             "full_if_true", "full_if_false", "is_full", "owner_alias", "points_to", "heap",
             "bounded", "bounded_or_eq", "ne_pair_if_true", "eq_pair_if_true", "keys_are_ne",
             "eq_locals", "array_components", "cast_origin", "buf_written"} \cup CompareFacts

MCKey(f) == CASE f \in PairSets -> Local \X Local
              [] f = "heap" -> {REALLOC_BASE + l : l \in Local}
              [] OTHER -> Local

MCValue(f) ==
  CASE f = "heap" -> {"RawOwned", "Escaped", "Reconstituted", "MaybeFreed"}
    [] f = "points_to" -> MCKey("heap")
    [] f \in {"ne_pair_if_true", "eq_pair_if_true"} -> Local \X Local
    [] f = "array_components" -> Local \X Local
    [] OTHER -> Local

MCIs(fn) ==
  CASE fn \in {"len", "capacity", "insert_no_grow", "into_inner_unchecked", "swap_unchecked", "uget",
               "uswap", "swap_remove_unchecked", "set_len", "from_buf_and_len", "unsafe_fn", "advance_mut",
               "waker_from_raw", "clone_to_uninit"} -> {fn}
    [] fn \in {"push", "reserve"} -> {"reallocating_method"}
    [] fn \in {"as_ptr", "as_mut_ptr"} -> {"owned_buffer_accessor"}
    [] fn \in {"push_unchecked", "pop_unchecked"} -> {"push_or_pop_unchecked"}
    [] fn = "push_back_unchecked" -> {"heapless_push"}
    [] fn = "get_disjoint_unchecked_mut" -> {"disjoint_unchecked_mut"}
    [] fn = "get2_unchecked_mut" -> {"key_disjoint"}
    [] fn = "sgemm" -> {"gemm"}
    [] fn = "read" -> {"ptr_read_call", "ptr_read"}
    [] fn = "write" -> {"ptr_write_call", "ptr_write_to_first_arg"}
    [] fn = "copy" -> {"ptr_copy_call", "ptr_copy_to_second_arg"}
    [] fn = "volatile_load" -> {"volatile_op"}
    [] fn \in {"slice_from_raw_parts", "ptr_arith"} -> {fn, "ptr_pure_read"}
    [] fn = "str_from_raw_parts" -> {fn}
    [] fn = "increment_strong_count" -> {"arc_from_raw"}
    [] fn = "put" -> {"buf_write"}
    [] fn = "extern_fn" -> {"foreign_item"}
    [] OTHER -> {}

MCSummaries ==
  [fn \in {"as_mut_ptr", "grow"} |->
     IF fn = "grow" THEN [NoSummary EXCEPT !.reallocs_param = 1]
     ELSE [NoSummary EXCEPT !.returns_alias_of_param = 1]]
-----------------------------------------------------------------------------
Set(l, rv) == Assign(Plain(l), rv)

Get(l) == Copy(Plain(l))

\* A borrow of a collection, in the form MIR gives it.
Borrow(l, c) == Set(l, Ref(IF c = V THEN Place(V, 1, NoField) ELSE Plain(W)))

Switch(zero, other) ==
  [kind |-> "SwitchInt", discr |-> Get(C), values |-> <<0>>, targets |-> <<zero, other>>]

Goto(b) == [kind |-> "Goto", targets |-> <<b>>]

CallOf(func, args, dest, to) ==
  [kind |-> "Call", func |-> func, args |-> args, dest |-> Plain(dest), targets |-> <<to>>,
   unwind |-> NoCleanup]

Call(fn, args, dest, to) == CallOf([fn |-> fn, local |-> NoLocal], args, dest, to)

Asm(args, to) == [kind |-> "InlineAsm", args |-> args, targets |-> <<to>>, unwind |-> NoCleanup]

\* What a block does: some statements, then a terminator.
Does(sts, t) == [statements |-> sts, term |-> t]

\* Block 7 returns.
Body(blocks) ==
  [b \in 0..7 |-> IF b = 7 THEN [bb |-> 7, statements |-> <<>>, term |-> [kind |-> "Return"]]
                  ELSE [bb |-> b, statements |-> blocks[b + 1].statements, term |-> blocks[b + 1].term]]

\* A call on a fresh borrow of collection c, into block `to'.
Shared(fn, c, dest, to) == Does(<<Borrow(A, c)>>, Call(fn, <<Get(A)>>, dest, to))

Exclusive(fn, c, to) == Does(<<Borrow(R, c)>>, Call(fn, <<Move(Plain(R))>>, D, to))

Skip(to) == Does(<<>>, Goto(to))

Changes(to) ==
  {Exclusive(fn, V, to) : fn \in {"push", "clear", "unknown"}}
    \cup {Shared(fn, V, D, to) : fn \in {"len", "log"}} \cup {Exclusive("push", W, to), Skip(to)}
-----------------------------------------------------------------------------
(***************************************************************************)
(* Room.  Blocks 0 to 2 measure and compare, block 3 may change something, *)
(* block 5 is the operation, and block 6 may go round again.               *)
(***************************************************************************)
Room(c, k, cmp, ts, change, ready, use, back) ==
  Body(<<Shared("len", c, N, 1), Shared("capacity", k, K, 2),
         Does(<<Set(C, cmp)>>, Switch(ts[1], ts[2])), change, Does(ready, Goto(5)),
         Does(<<>>, use), Skip(back)>>)

RoomCompares ==
  {BinaryOp(o, Get(N), Get(K)) : o \in {"Lt", "Ge", "Eq", "Ne"}}
    \cup {BinaryOp(o, Get(K), Get(N)) : o \in {"Gt", "Le"}}

Pushes ==
  {[ready |-> <<>>, call |-> Call(fn, <<Get(V)>>, D, 6)] : fn \in {"push_unchecked", "push_back_unchecked"}}
    \cup {[ready |-> <<Borrow(R, V)>>, call |-> Call("insert_no_grow", <<Get(R)>>, D, 6)]}

Unwraps == {[ready |-> <<>>, call |-> Call("into_inner_unchecked", <<Move(Plain(W))>>, D, 7)]}

Edges == {<<7, 3>>, <<3, 7>>, <<4, 3>>}

RoomPrograms ==
  {Room(V, V, cmp, ts, change, u.ready, u.call, 7) :
     cmp \in RoomCompares, ts \in Edges, change \in Changes(4), u \in Pushes}
  \cup {Room(c, k, cmp, ts, Skip(4), u.ready, u.call, back) :
          c \in {V}, k \in {V, W}, cmp \in RoomCompares, ts \in Edges, u \in Pushes, back \in {0, 5}}
  \cup {Room(W, W, cmp, ts, change, u.ready, u.call, 7) :
          cmp \in RoomCompares, ts \in Edges, change \in Changes(4), u \in Unwraps}

\* n = v.len(); v.push(x); if n < v.capacity() { v.push_unchecked(y) }
StalePrograms ==
  {Body(<<Shared("len", V, N, 1), Exclusive("push", V, 2), Shared("capacity", V, K, 3),
          Does(<<Set(C, BinaryOp("Lt", Get(N), Get(K)))>>, Switch(7, 4)),
          Does(<<>>, Call("push_unchecked", <<Get(V)>>, D, 7)), Skip(7), Skip(7)>>)}

\* if w.len() == w.capacity() { w = f(); w.into_inner_unchecked() }
RefilledPrograms ==
  {Room(W, W, BinaryOp("Eq", Get(N), Get(K)), <<7, 3>>,
        Does(<<>>, CallOf([fn |-> Absent, local |-> F], <<>>, W, 4)), u.ready, u.call, 7) : u \in Unwraps}
-----------------------------------------------------------------------------
(***************************************************************************)
(* Pointers.  Block 0 takes one, block 1 may copy it and branches past the *)
(* call of block 2, block 3 may take it anew, and block 4 uses it.         *)
(***************************************************************************)
Takes(to) ==
  {Does(<<Borrow(R, V)>>, Call("as_mut_ptr", <<Get(R)>>, P, to)),
   Does(<<>>, Call("as_mut_ptr", <<Get(V)>>, P, to)), Shared("as_ptr", V, P, to)}

Take(to) == Does(<<Borrow(R, V)>>, Call("as_mut_ptr", <<Get(R)>>, P, to))

Copies == {<<Set(Q, Use(Get(P)))>>, <<Set(Q, Cast("PtrToPtr", Get(P)))>>, <<Set(Q, Use(Move(Plain(P))))>>}

Pointer(take, copy, change, then, use) ==
  Body(<<take, Does(copy, Switch(2, 4)), change, then, use, Skip(7), Skip(7)>>)

Grows ==
  {Exclusive("push", V, 3), Exclusive("push", W, 3), Shared("len", V, D, 3), Shared("log", V, D, 3)}
    \cup {Does(<<>>, Call(fn, <<Get(V)>>, D, 3)) : fn \in {"reserve", "grow"}}

UseOf(l) == {Does(<<>>, Call(fn, <<Get(l)>>, D, 5)) : fn \in {"read", "write"}}

\* Every other way to use the pointer in l.
OtherUsesOf(l) ==
  {Does(<<>>, Call(fn, <<Get(l)>>, D, 5)) :
     fn \in {"volatile_load", "slice_from_raw_parts", "str_from_raw_parts", "ptr_arith", "waker_from_raw",
             "increment_strong_count"}}
  \cup {Does(<<>>, Call(fn, <<Get(I), Get(l)>>, D, 5)) : fn \in {"extern_fn", "unsafe_fn", "clone_to_uninit"}}
  \cup {Does(<<>>, Call("copy", <<Get(l), Get(P)>>, D, 5)), Does(<<>>, Call("copy", <<Get(P), Get(l)>>, D, 5)),
        Does(<<>>, CallOf([fn |-> Absent, local |-> F], <<Get(l)>>, D, 5)),
        Does(<<>>, Asm(<<Get(l)>>, 5)),
        Does(<<Set(D, Use(Copy(Place(l, 1, NoField))))>>, Goto(5)),
        Does(<<Assign(Place(l, 1, NoField), Use(Get(I)))>>, Goto(5))}

PointerPrograms ==
  {Pointer(take, <<>>, g, then, use) :
     take \in Takes(1), g \in Grows, then \in {Skip(4), Skip(1), Take(4)}, use \in UseOf(P)}
  \cup {Pointer(take, copy, g, then, use) :
          take \in Takes(1), copy \in Copies, g \in Grows, then \in {Skip(4), Take(4)}, use \in UseOf(Q)}
  \cup {Pointer(Take(1), copy, g, then, use) :
          copy \in {<<Set(Q, Use(Get(P)))>>, <<Set(Q, Cast("PtrToPtr", Get(B)))>>},
          g \in {Exclusive("push", V, 3), Shared("log", V, D, 3)},
          then \in {Skip(4), Does(<<Set(Q, Use(Get(P)))>>, Goto(4))}, use \in OtherUsesOf(Q)}

\* A buffer is filled, on one branch or on both, and advanced.
Fills(to) ==
  {Does(<<>>, Call("write", <<Get(l)>>, D, to)) : l \in {P, Q}}
    \cup {Does(<<>>, Call("put", <<Get(c)>>, D, to)) : c \in MCColl} 
    \cup {Does(<<>>, Call("copy", <<Get(Q), Get(P)>>, D, to)), Skip(to)}

FillPrograms ==
  {Body(<<Take(1), Does(copy, Switch(2, 3)), one, other, Does(<<>>, Call("advance_mut", <<Get(c)>>, D, 5)),
          Skip(7), Skip(7)>>) :
     copy \in {<<>>, <<Set(Q, Use(Get(P)))>>, <<Set(Q, Cast("PtrToPtr", Get(B)))>>},
     one \in Fills(4) \cup Fills(3), other \in Fills(4), c \in MCColl}
-----------------------------------------------------------------------------
(***************************************************************************)
(* Indices.  Block 0 measures, blocks 1 to 3 compare, block 4 may change   *)
(* an index and makes an array of both, and block 5 uses them.             *)
(***************************************************************************)
Index(measure, c1, c2, c3, change, use) ==
  Body(<<measure, c1, c2, c3, Does(change \o <<Set(X, Aggregate("Array", NoField, <<Get(I), Get(J)>>))>>, Goto(5)),
         Does(<<>>, use), Skip(7)>>)

Test(o, a, b, fails, holds) == Does(<<Set(C, BinaryOp(o, Get(a), Get(b)))>>, Switch(fails, holds))

Within(l, to) == {Test("Lt", l, N, 7, to), Test("Lt", l, N, to, to + 1), Test("Ge", l, N, to, 7)}

Reindex == {<<>>, <<Set(I, Use(Get(J)))>>, <<Set(J, Opaque)>>}

IndexUses ==
  {Call(fn, <<Get(V), Get(I), Get(J)>>, D, 6) : fn \in {"swap_unchecked", "uswap", "get2_unchecked_mut"}}
  \cup {Call(fn, <<Get(V), Get(X)>>, D, 6) : fn \in {"uget", "get_disjoint_unchecked_mut"}}
  \cup {Call("swap_remove_unchecked", <<Get(V), Get(J)>>, D, 6)}

IndexPrograms ==
  {Index(Shared("len", V, N, 1), Test("Lt", I, N, 7, 2), c2, c3, w, use) :
     c2 \in Within(J, 3), c3 \in {Test("Ne", I, J, 7, 4), Test("Eq", I, J, 4, 7), Test("Ne", I, J, 4, 7), Skip(4)},
     w \in Reindex, use \in IndexUses}

\* A length is set to a number compared with the capacity.
LengthPrograms ==
  {Index(Shared("capacity", c, K, 1), t, Skip(3), Skip(4), w, Call(fn, <<Get(c), n>>, D, 6)) :
     c \in MCColl, fn \in {"set_len", "from_buf_and_len"}, n \in {Get(I), Const(0)}, w \in Reindex,
     t \in {Test("Le", I, K, 7, 2), Test("Gt", I, K, 2, 7), Test("Lt", I, K, 2, 7), Test("Le", I, K, 2, 3)}}

\* The strides of a product are the extents, or were compared with them.
Gemm(k, n, rsa, rsb, rsc) ==
  Call("sgemm", <<Get(I), Get(k), Get(n), Const(1), Get(P), Get(rsa), Const(1), Get(P), Get(rsb), Const(1),
                  Const(0), Get(P), Get(rsc), Const(1)>>, D, 6)

GemmPrograms ==
  {Index(Skip(1), t, Skip(3), Skip(4), w, use) :
     t \in {Test("Eq", I, J, 7, 2), Test("Ne", I, J, 2, 7), Test("Eq", I, J, 2, 3)},
     w \in {<<>>, <<Set(N, Cast("IntToInt", Get(J)))>>, <<Set(N, Opaque)>>},
     use \in {Gemm(J, I, J, I, I), Gemm(I, I, J, J, J), Gemm(I, J, I, N, J), Gemm(N, J, N, J, N)}}

BufferPrograms ==
  RoomPrograms \cup PointerPrograms \cup FillPrograms \cup IndexPrograms \cup LengthPrograms \cup GemmPrograms
-----------------------------------------------------------------------------
Blocks == 0..7

MCSuccessors(d) == BlockSuccessors(d.term)

MCInitial(b) == FlowInitialState

MCRefine(d, s, c) == RefineSwitchIntEdge(s, d.term, c)

\* The indices matter only to the programs that build an array of them.
Indices(b) == IF b[4].statements # <<>> /\ Last(b[4].statements).dst = Plain(X) THEN 0..MaxCap ELSE {0}

\* A pointer program may branch either way.
Outcomes(b) == IF b[1].term.kind = "SwitchInt" /\ Indices(b) = {0} THEN {0, 1} ELSE {0}

\* The length matters where neither an index nor a written byte does.
Lengths(b, k) ==
  IF Indices(b) = {0} /\ ~(b[4].term.kind = "Call" /\ b[4].term.func.fn = "advance_mut") THEN 0..k ELSE {k}

MCEntryStores(b) ==
  UNION {{[len |-> [c \in Coll |-> IF c = V THEN n ELSE w], cap |-> [c \in Coll |-> IF c = V THEN k ELSE 1],
           val |-> [l \in Local |-> CASE l = I -> i [] l = J -> j [] l = C -> c0 [] OTHER -> 0],
           items |-> [l \in Local |-> <<>>],
           leads |-> [l \in Local |-> IF l \in Coll THEN l ELSE NoLocal], stale |-> {}, written |-> {}] :
            n \in Lengths(b, k), w \in Lengths(b, 1), i \in Indices(b), j \in Indices(b), c0 \in Outcomes(b)} :
         k \in 1..MaxCap}

INSTANCE Execution WITH
  Block <- Blocks, START <- 0, BlockData <- UNION {Range(p) : p \in Programs},
  Bodies <- Programs, Successors <- MCSuccessors, State <- StatesOver(Fields), None <- Absent,
  InitialState <- MCInitial, ExitState <- BlockExit, Refine <- MCRefine,
  Join <- Merged, JoinChanges <- Changed, Below <- Leq,
  Stores <- BufferStores, EntryStores <- MCEntryStores, Step <- BufferBlock,
  Describes <- BufferDescribed
-----------------------------------------------------------------------------
Calling(fns) == at # Absent /\ body[at].term.kind = "Call" /\ body[at].term.func.fn \in fns

Before == BeforeTerminator(entry_states[at], body[at])

Arg(n) == ValueOf(store, body[at].term.args[n])

\* push_unchecked, heapless_unchecked and hashbrown_raw pass over a push only
\* where the collection has room in every execution, and arrayvec_unchecked an
\* unwrapped array only where it is full: the proof does not outlive a push, a
\* clear or an unknown call on the collection, nor a join with a path without.
RoomSafe ==
  LET t == body[at].term IN
  /\ Calling({"push_unchecked"}) => PushUnchecked(Before, t) \/ store.len[V] < store.cap[V]
  /\ Calling({"push_back_unchecked"}) => HeaplessUnchecked(Before, t) \/ store.len[V] < store.cap[V]
  /\ Calling({"insert_no_grow"}) => HashbrownRaw(Before, t) \/ store.len[V] < store.cap[V]
  /\ Calling({"into_inner_unchecked"}) => ArrayvecUnchecked(Before, t) \/ store.len[W] = store.cap[W]

\* The pointers among the operands of the terminator, and the dereferenced ones.
Touched(d) ==
  (IF d.term.kind \in {"Call", "InlineAsm"} THEN RawPtrArgs(d.term) ELSE {})
    \cup {st.dst.local : st \in {x \in Range(d.statements) : x.dst.derefs > 0}}
    \cup {st.rv.op.place.local : st \in {x \in Range(d.statements) :
             x.rv.kind = "Use" /\ x.rv.op.kind # "Constant" /\ x.rv.op.place.derefs > 0}}

Reported(s, d) ==
  RawPtrDeref(body, s, d)
    \cup (IF d.term.kind = "InlineAsm" THEN InlineAsm(s, d.term) ELSE {})
    \cup (IF d.term.kind = "Call"
          THEN PointerFindings(s, d.term) \cup MemoryFindings(s, d.term) \cup UnsafeFnCall(s, d.term) ELSE {})

\* A pointer into a buffer that a push, a reserve or a helper summarised as
\* reallocating may have moved is reported as a (potential) use after free,
\* however it is used: "every pointer currently aliasing that owner is marked
\* stale ... so a later use is flagged as a potential use-after-free".
StaleUseReported ==
  at = 4 /\ Touched(body[at]) \cap store.stale # {} =>
    Reported(entry_states[at], body[at]) \cap {"use_after_free", "potential_use_after_free"} # {}

\* slice_swap_unchecked, ndarray_unchecked, heapless_unchecked and
\* slice_disjoint_unchecked are silent only where every index is within the
\* collection, and the ones that must differ do.
IndicesSafe ==
  LET t == body[at].term
      len == store.len[V]
      items == store.items[X]
  IN /\ Calling({"swap_unchecked"}) => SliceSwapUnchecked(Before, t) \/ (Arg(2) < len /\ Arg(3) < len)
     /\ Calling({"uswap"}) => NdarrayUnchecked(Before, t) \/ (Arg(2) < len /\ Arg(3) < len)
     /\ Calling({"uget"}) => NdarrayUnchecked(Before, t) \/ \A i \in DOMAIN items : items[i] < len
     /\ Calling({"swap_remove_unchecked"}) => HeaplessUnchecked(Before, t) \/ Arg(2) < len
     /\ Calling({"get_disjoint_unchecked_mut"}) =>
          SliceDisjointUnchecked(Before, t) \/ (items[1] # items[2] /\ \A i \in DOMAIN items : items[i] < len)
     /\ Calling({"get2_unchecked_mut"}) => SliceDisjointUnchecked(Before, t) \/ Arg(2) # Arg(3)

\* "Suppress `advance_mut` findings when bytes were demonstrably written to the
\* buffer on ALL predecessor paths": a silent advance_mut is over a buffer
\* that was written to, by a put or through a pointer into it.
AdvanceSafe ==
  Calling({"advance_mut"}) => BytesBuf(Before, body[at].term) \/ FirstArgLocal(body[at].term.args) \in store.written

\* vec_set_len and smallvec_unchecked are silent only where the new length is
\* within the capacity it was compared with, and matrixmultiply_unchecked only
\* where the row strides are the extents.
ExtentsSafe ==
  LET t == body[at].term
      cap == store.cap[FirstArgLocal(t.args)]
  IN /\ Calling({"set_len"}) => VecSetLen(Before, t) \/ Arg(2) <= cap
     /\ Calling({"from_buf_and_len"}) => SmallvecUnchecked(Before, t) \/ Arg(2) <= cap
     /\ Calling({"sgemm"}) =>
          MatrixmultiplyUnchecked(Before, t) \/ (Arg(2) = Arg(6) /\ Arg(3) = Arg(9) /\ Arg(3) = Arg(13))
-----------------------------------------------------------------------------
\* "a stale spare proof never survives a possible mutation": an unreported
\* push_unchecked is into a collection with room.
SpareProofFresh == Calling({"push_unchecked"}) => PushUnchecked(Before, body[at].term) \/ store.len[V] < store.cap[V]
=============================================================================
