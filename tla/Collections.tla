---------------------------- MODULE Collections -----------------------------
(***************************************************************************)
(* The checkers of unchecked operations on collections, which read the     *)
(* capacity facts, the bounds and the pairs of locals proved equal or      *)
(* different, and the backstop of every other unsafe function.  Each tells *)
(* whether the call t is reported, given the state s before it.            *)
(***************************************************************************)
EXTENDS MemoryUses, UncheckedOps

HasSpare(s, l) == l # NoLocal /\ Holds(s, "has_spare", l)

IsFull(s, l) == l # NoLocal /\ Holds(s, "is_full", l)

IsBounded(s, l) == l # NoLocal /\ Holds(s, "bounded", l)

IsBoundedOrEq(s, l) == l # NoLocal /\ LocalIsBoundedOrEq(s, l)

FullyBounded(s, l) == l # NoLocal /\ IndexIsFullyBounded(s, l)

\* Proved different, as they are or as what they borrow.
LocalsAreNe(s, a, b) ==
  LET ne(x, y) == Holds(s, "keys_are_ne", Canon(x, y))
      a0 == At(s, "ref_base", a)
      b0 == At(s, "ref_base", b)
  IN \/ ne(a, b)
     \/ a0 # Absent /\ ne(a0, b)
     \/ b0 # Absent /\ ne(a, b0)
     \/ a0 # Absent /\ b0 # Absent /\ ne(a0, b0)

\* Equal to each other, or one to the integer the other was cast from.  A
\* proof about b's origin counts only if a has none.
LocalsAreEq(s, a, b) ==
  LET eq(x, y) == Holds(s, "eq_locals", Canon(x, y))
      a0 == At(s, "cast_origin", a)
      b0 == At(s, "cast_origin", b)
  IN \/ a = b \/ eq(a, b) \/ a0 = b \/ b0 = a
     \/ a0 # Absent /\ (a0 = b0 \/ eq(a0, b))
     \/ a0 = Absent /\ b0 # Absent /\ eq(a, b0)
-----------------------------------------------------------------------------
(***************************************************************************)
(* Room in a collection.                                                   *)
(***************************************************************************)
\* pop_unchecked is passed over on the same proof as the pushes.
PushUnchecked(s, t) ==
  PathIs(t.func.fn, "push_or_pop_unchecked") /\ ~HasSpare(s, FirstArgLocal(t.args))

\* (mutant) A collection that is not full passes for a full one.
ArrayvecSpare(s, t) ==
  PathIs(t.func.fn, "into_inner_unchecked") /\ ~HasSpare(s, FirstArgLocal(t.args))

ArrayvecUnchecked(s, t) ==
  PathIs(t.func.fn, "into_inner_unchecked") /\ ~IsFull(s, FirstArgLocal(t.args))

HashbrownRaw(s, t) ==
  LET recv == FirstArgLocal(t.args) IN
  \/ PathIs(t.func.fn, "hashbrown_raw_op")
  \/ /\ PathIs(t.func.fn, "insert_no_grow")
     /\ ~(recv # NoLocal /\ HasSpare(s, DerefBase(s, recv)))

HeaplessUnchecked(s, t) ==
  \/ PathIs(t.func.fn, "heapless_pop")
  \/ PathIs(t.func.fn, "heapless_push") /\ ~HasSpare(s, FirstArgLocal(t.args))
  \/ PathIs(t.func.fn, "swap_remove_unchecked") /\ ~IsBounded(s, NthArgLocal(t.args, 2))

VecSetLen(s, t) ==
  /\ PathIs(t.func.fn, "set_len")
  /\ ~(Len(t.args) >= 2 /\ ConstU64(t.args[2]) = 0)
  /\ ~IsBoundedOrEq(s, NthArgLocal(t.args, 2))

SmallvecUnchecked(s, t) ==
  PathIs(t.func.fn, "from_buf_and_len") /\ ~IsBoundedOrEq(s, NthArgLocal(t.args, 2))

\* (mutant) A write to any buffer will do.
BytesBufAny(s, t) ==
  \/ PathIs(t.func.fn, "uninit_slice")
  \/ PathIs(t.func.fn, "advance_mut") /\ s["buf_written"] = {}

\* A buffer is advanced over bytes that were written on every path.
BytesBuf(s, t) ==
  LET buf == FirstArgBaseLocal(t.args) IN
  \/ PathIs(t.func.fn, "uninit_slice")
  \/ PathIs(t.func.fn, "advance_mut") /\ ~(buf # NoLocal /\ Holds(s, "buf_written", buf))
-----------------------------------------------------------------------------
(***************************************************************************)
(* Indices and keys.                                                       *)
(***************************************************************************)
\* (mutant) One bounded index is enough.
SliceSwapEither(s, t) ==
  /\ PathIs(t.func.fn, "swap_unchecked")
  /\ ~(IsBounded(s, NthArgLocal(t.args, 2)) \/ IsBounded(s, NthArgLocal(t.args, 3)))

SliceSwapUnchecked(s, t) ==
  /\ PathIs(t.func.fn, "swap_unchecked")
  /\ ~(IsBounded(s, NthArgLocal(t.args, 2)) /\ IsBounded(s, NthArgLocal(t.args, 3)))

NdarrayUnchecked(s, t) ==
  LET idx(n) == NthArgLocal(t.args, n) IN
  \/ PathIs(t.func.fn, "from_shape")
  \/ PathIs(t.func.fn, "uget") /\ ~FullyBounded(s, idx(2))
  \/ PathIs(t.func.fn, "uswap") /\ ~(FullyBounded(s, idx(2)) /\ FullyBounded(s, idx(3)))

Components(s, l) ==
  IF l = NoLocal \/ At(s, "array_components", l) = Absent THEN <<>> ELSE At(s, "array_components", l)

\* Keys of a type of their own need only differ; indices must be in bounds too.
ArrayIsDisjoint(s, comps) ==
  /\ Len(comps) > 1
  /\ \A i, j \in DOMAIN comps : j < i => LocalsAreNe(s, comps[i], comps[j])
  /\ (\E i \in DOMAIN comps : IsInteger(comps[i])) =>
       \A i \in DOMAIN comps : IndexIsFullyBounded(s, comps[i])

SliceDisjointUnchecked(s, t) ==
  LET a == NthArgLocal(t.args, 2)
      b == NthArgLocal(t.args, 3)
      keys == PathIs(t.func.fn, "key_disjoint") /\ NoLocal \notin {a, b} /\ LocalsAreNe(s, a, b)
  IN /\ PathIs(t.func.fn, "disjoint_unchecked_mut") \/ PathIs(t.func.fn, "key_disjoint")
     /\ ~(ArrayIsDisjoint(s, Components(s, a)) \/ keys)

\* (mutant) Only the strides of b are compared.
GemmStrideOfB(s, t) ==
  LET arg(i) == NthArgLocal(t.args, i) IN
  arg(3) # NoLocal /\ arg(9) # NoLocal /\ LocalsAreEq(s, arg(3), arg(9))

\* xgemm(m, k, n, alpha, a, rsa, csa, b, rsb, csb, beta, c, rsc, csc)
GemmStrideCoherent(s, t) ==
  LET arg(i) == NthArgLocal(t.args, i) IN
  /\ \A i \in {2, 3, 6, 9, 13} : arg(i) # NoLocal
  /\ LocalsAreEq(s, arg(2), arg(6)) /\ LocalsAreEq(s, arg(3), arg(9)) /\ LocalsAreEq(s, arg(3), arg(13))

MatrixmultiplyUnchecked(s, t) == PathIs(t.func.fn, "gemm") /\ ~GemmStrideCoherent(s, t)
-----------------------------------------------------------------------------
(***************************************************************************)
(* The backstop.                                                           *)
(***************************************************************************)
\* What counts as a discharged precondition, whatever the function requires.
ArgIsProven(s, l) ==
  \/ LocalIsBoundedOrEq(s, l) \/ HasSpare(s, l) \/ IsFull(s, l) \/ LocalIsNonzero(s, l)
  \/ Holds(s, "finite", l) \/ LocalIsValidScalar(s, l) \/ Holds(s, "fd_origin", l)
  \/ IndexIsFullyBounded(s, l)

UnsafeFnCall(s, t) ==
  LET args == ArgLocals(t.args)
      parts == args \cup UNION {Range(Components(s, l)) : l \in args}
      recv == FirstArgLocal(t.args)
      lifecycle == \E p \in {"from_raw", "ptr_read", "raw_realloc", "ptr_write_to_first_arg",
                             "owned_buffer_accessor"} : PathIs(t.func.fn, p)
      proven == \/ \E l \in args : ArgIsProven(s, l)
                \/ PathIs(t.func.fn, "assume_init") /\ recv # NoLocal /\ At(s, "init", recv) = "Initialized"
                \/ \E a, b \in parts : LocalsAreNe(s, a, b)
                \/ PathIs(t.func.fn, "gemm") /\ GemmStrideCoherent(s, t)
                \/ lifecycle /\ \E l \in args : ObjectsFor(s, l) # {}
  IN IF PathIs(t.func.fn, "unsafe_fn")
     THEN Escalate(s, RawPtrArgs(t), IF proven THEN {} ELSE {"unsafe_fn_call"}) ELSE {}
=============================================================================
