---------------------------- MODULE UncheckedOps ----------------------------
(***************************************************************************)
(* The checkers of unchecked operations that read the value-range and the  *)
(* bounds facts.  Each tells whether the call t that ends a block is       *)
(* reported, given the state s before it: a call whose path it picks is    *)
(* reported unless the state proves what the operation requires.  A path   *)
(* predicate is named after the operations whose paths it holds of.        *)
(***************************************************************************)
EXTENDS Terminators

CONSTANTS ASCII_MAX,         \* 127, scaled down
          SAFE_LAYOUT_SIZE,  \* isize::MAX / 2, scaled down
          SCALAR_MAX,        \* 0x10FFFF, 0xD800 and 0xDFFF, scaled down
          SURROGATE_FIRST,
          SURROGATE_LAST

LocalIsAscii(s, l) ==
  At(s, "const_upper", l) # Absent /\ At(s, "const_upper", l) <= ASCII_MAX

\* const_upper and const_lower, with the defaults `unwrap_or' gives.
UpperOr(s, l, d) == IF At(s, "const_upper", l) = Absent THEN d ELSE At(s, "const_upper", l)

LowerOr(s, l, d) == IF At(s, "const_lower", l) = Absent THEN d ELSE At(s, "const_lower", l)

\* Within the Unicode range, and on one side of the surrogates.
LocalIsValidScalar(s, l) ==
  LET upper == UpperOr(s, l, MaxU64 + 1) IN
  upper <= SCALAR_MAX /\ (upper < SURROGATE_FIRST \/ LowerOr(s, l, 0) > SURROGATE_LAST)
-----------------------------------------------------------------------------
NonZeroNewUnchecked(s, t) ==
  LET arg == FirstArgLocal(t.args) IN
  \/ PathIs(t.func.fn, "nonzero_unchecked_op")
  \/ /\ PathIs(t.func.fn, "new_unchecked")
     /\ ~(arg # NoLocal /\ (LocalIsNonzero(s, arg) \/ Holds(s, "finite", arg)))

CtlzNonzero(s, t) ==
  LET arg == FirstArgLocal(t.args) IN
  PathIs(t.func.fn, "ctlz_nonzero") /\ ~(arg # NoLocal /\ LocalIsNonzero(s, arg))

\* The condition is a Boolean, and TRUE is 1.
HintAssertUnchecked(s, t) ==
  LET arg == FirstArgLocal(t.args) IN
  PathIs(t.func.fn, "assert_unchecked") /\ ~(arg # NoLocal /\ LocalIsNonzero(s, arg))

\* (mutant) The shift amount may equal the width.
BitWidthInclusive(l) == IF Ty(l).bits = NoValue THEN MaxU64 ELSE Ty(l).bits + 1

\* The widths the checker lists; any other type counts as u64::MAX bits wide.
BitWidth(l) == IF Ty(l).bits = NoValue THEN MaxU64 ELSE Ty(l).bits

\* The bound on the result of a call fits its type.
FitsResult(t, bound) == Ty(t.dest.local).max # NoValue /\ bound <= Ty(t.dest.local).max

UncheckedIntArith(s, t) ==
  LET a == NthArgLocal(t.args, 1)
      b == NthArgLocal(t.args, 2)
      is(p) == PathIs(t.func.fn, p)
      upper(l) == {At(s, "const_upper", l)} \ {Absent}
  IN /\ is("unchecked_int_op")
     /\ ~ /\ a # NoLocal /\ b # NoLocal
          /\ \/ \E x \in upper(a), y \in upper(b) :
                  \/ is("unchecked_add") /\ FitsResult(t, x + y)
                  \/ is("unchecked_mul") /\ FitsResult(t, x * y)
             \/ is("unchecked_sub") /\ LowerOr(s, a, 0) >= UpperOr(s, b, MaxU64)
             \/ is("unchecked_shift") /\ UpperOr(s, b, MaxU64) < BitWidth(a)

StepUnchecked(s, t) ==
  LET count == NthArgLocal(t.args, 2) IN
  /\ PathIs(t.func.fn, "step_unchecked")
  /\ ~(count # NoLocal /\ At(s, "const_upper", count) = 0 /\ LowerOr(s, count, 0) = 0)

AsciiUnchecked(s, t) ==
  LET arg == FirstArgLocal(t.args) IN
  PathIs(t.func.fn, "ascii_unchecked") /\ ~(arg # NoLocal /\ LocalIsAscii(s, arg))

CharFromU32Unchecked(s, t) ==
  LET arg == FirstArgLocal(t.args) IN
  PathIs(t.func.fn, "char_from_u32") /\ ~(arg # NoLocal /\ LocalIsValidScalar(s, arg))
-----------------------------------------------------------------------------
IsPowerOfTwo(v) == v # NoValue /\ \E i \in 0..v : 2^i = v

LayoutUnchecked(s, t) ==
  LET size == NthArgLocal(t.args, 1)
      align_is_pow2 == Len(t.args) >= 2 /\ IsPowerOfTwo(ConstU64(t.args[2]))
  IN \/ PathIs(t.func.fn, "alignment_unchecked")
     \/ /\ PathIs(t.func.fn, "layout_unchecked")
        /\ IF size = NoLocal THEN ~align_is_pow2
           ELSE /\ UpperOr(s, size, MaxU64) > SAFE_LAYOUT_SIZE
                /\ ~(align_is_pow2 /\ Holds(s, "mul_overflow", size))

AllocSizeOverflow(s, t) ==
  LET arg == FirstArgLocal(t.args) IN
  /\ arg # NoLocal
  /\ \/ PathIs(t.func.fn, "layout_unchecked") /\ Holds(s, "mul_overflow", arg)
     \/ PathIs(t.func.fn, "allocator_call") /\ Holds(s, "layout_overflow", arg)
-----------------------------------------------------------------------------
\* (mutant) An index equal to the length is taken for one within it.
SliceGetInclusive(s, t) ==
  LET idx == BaseLocal(t.args[2]) IN
  PathIs(t.func.fn, "get_unchecked") /\ (idx = NoLocal \/ ~LocalIsBoundedOrEq(s, idx))

\* A receiver or an index may be any place; its local is what is looked up.
SliceGetUnchecked(s, t) ==
  LET recv == BaseLocal(t.args[1])
      idx == BaseLocal(t.args[2])
      nonempty == \E l \in Local : recv # NoLocal /\ At(s, "len_of", l) = DerefBase(s, recv)
                                   /\ Holds(s, "nonzero", l)
  IN \/ PathIs(t.func.fn, "pin_or_str_unchecked")
     \/ /\ PathIs(t.func.fn, "get_unchecked")
        /\ IF idx = NoLocal THEN ~(ConstU64(t.args[2]) = 0 /\ nonempty)
           ELSE /\ ~(recv # NoLocal /\ Holds(s, "index_bounded_for", <<idx, DerefBase(s, recv)>>))
                /\ ~Holds(s, "bounded", idx)

SplitAtUnchecked(s, t) ==
  LET recv == BaseLocal(t.args[1])
      mid == OperandLocal(t.args[2])
      pair == <<mid, DerefBase(s, recv)>>
  IN /\ PathIs(t.func.fn, "split_at_unchecked")
     /\ ~ /\ mid # NoLocal
          /\ \/ /\ recv # NoLocal
                /\ Holds(s, "index_bounded_or_eq_for", pair) \/ Holds(s, "index_bounded_for", pair)
             \/ LocalIsBoundedOrEq(s, mid)
=============================================================================
