---------------------------- MODULE PointerUses -----------------------------
(***************************************************************************)
(* The checkers of operations through a raw pointer.  Each gives the rules *)
(* reported at the call t that ends a block, given the state s before it.  *)
(* They share one classification: a pointer to freed memory is a use after *)
(* free, one that provably owns live memory is passed over, and any other  *)
(* gets the rule of the operation.                                         *)
(***************************************************************************)
EXTENDS Ownership

\* (mutant) A pointer to an object that may be live is passed over.
PointerUseDefinite(s, l, rule) ==
  IF l = NoLocal THEN {rule}
  ELSE CASE FreedKind(s, l) = "Definite" -> {"use_after_free"}
         [] FreedKind(s, l) = "Potential" -> {}
         [] FreedKind(s, l) = "NotFreed" -> IF PtrIsRawOwned(s, l) THEN {} ELSE {rule}

PointerUse(s, l, rule) ==
  IF l = NoLocal THEN {rule}
  ELSE CASE FreedKind(s, l) = "Definite" -> {"use_after_free"}
         [] FreedKind(s, l) = "Potential" -> {"potential_use_after_free"}
         [] FreedKind(s, l) = "NotFreed" -> IF PtrIsRawOwned(s, l) THEN {} ELSE {rule}

UseIn(s, t, path, rule) ==
  IF PathIs(t.func.fn, path) THEN PointerUse(s, FirstArgLocal(t.args), rule) ELSE {}

PtrRead(s, t) == UseIn(s, t, "ptr_read_call", "ptr_read")

PtrDropInPlace(s, t) == UseIn(s, t, "drop_in_place", "ptr_drop_in_place")

PtrAsRef(s, t) == UseIn(s, t, "ptr_as_ref", "ptr_as_ref")

PtrAsRefUnchecked(s, t) == UseIn(s, t, "ptr_as_ref_unchecked", "ptr_as_ref_unchecked")

AtomicFromPtr(s, t) == UseIn(s, t, "atomic_from_ptr", "atomic_from_ptr")

ArcStrongCount(s, t) == UseIn(s, t, "strong_count", "arc_strong_count")

PtrArith(s, t) == UseIn(s, t, "ptr_arith", "ptr_arith")

PtrFromRawParts(s, t) == UseIn(s, t, "ptr_from_raw_parts", "ptr_from_raw_parts")

ManuallyDropOps(s, t) == UseIn(s, t, "manually_drop", "manually_drop")

PtrSwap(s, t) == UseIn(s, t, "ptr_swap", "ptr_swap")

\* The unchecked conversions of bytes are always reported.
CStrFromPtr(s, t) ==
  UseIn(s, t, "cstr_from_ptr", "cstr_from_ptr")
    \cup IF PathIs(t.func.fn, "cstr_unchecked") THEN {"cstr_from_ptr"} ELSE {}

NonNullDeref(s, t) ==
  IF PathIs(t.func.fn, "nonnull_deref")
  THEN PointerUse(s, FirstArgBaseLocal(t.args), "nonnull_deref") ELSE {}

\* A pointer that is not null may be wrapped.
NonNullNewUnchecked(s, t) ==
  LET l == FirstArgLocal(t.args) IN
  UseIn(s, t, "nonnull_new_unchecked", "nonnull_new_unchecked")
    \ IF l # NoLocal /\ LocalIsNonzero(s, l) THEN {"nonnull_new_unchecked"} ELSE {}

\* A pointer that flow tracks is left to the ownership checker.
LeftToOwnership(s, l) ==
  l # NoLocal /\ (FreedKind(s, l) # "NotFreed" \/ ObjectsFor(s, l) # {})

BoxFromRaw(s, t) ==
  IF PathIs(t.func.fn, "box_from_raw") /\ ~LeftToOwnership(s, FirstArgLocal(t.args))
  THEN {"box_from_raw"} ELSE {}

CStringFromRaw(s, t) ==
  IF PathIs(t.func.fn, "cstring_from_raw") /\ ~LeftToOwnership(s, FirstArgLocal(t.args))
  THEN {"cstring_from_raw"} ELSE {}

PointerFindings(s, t) ==
  PtrRead(s, t) \cup PtrDropInPlace(s, t) \cup PtrAsRef(s, t) \cup PtrAsRefUnchecked(s, t)
    \cup AtomicFromPtr(s, t) \cup ArcStrongCount(s, t) \cup PtrArith(s, t)
    \cup PtrFromRawParts(s, t) \cup ManuallyDropOps(s, t) \cup PtrSwap(s, t)
    \cup CStrFromPtr(s, t) \cup NonNullDeref(s, t) \cup NonNullNewUnchecked(s, t)
    \cup BoxFromRaw(s, t) \cup CStringFromRaw(s, t)
=============================================================================
