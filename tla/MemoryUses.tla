---------------------------- MODULE MemoryUses ------------------------------
(***************************************************************************)
(* More checkers of operations on memory behind a pointer: writes, copies, *)
(* views, conversions, calls that hand pointers to other code, and plain   *)
(* dereferences.  As in PointerUses, each gives the rules reported at the  *)
(* call t, given the state s before it.  A checker that several operations *)
(* share is picked by a path predicate named after it.  Code expanded from *)
(* a macro or inlined from a callee, which some of the checkers skip, is   *)
(* left out.                                                               *)
(***************************************************************************)
EXTENDS PointerUses

\* The rule for local l, if what it points to was freed.
UseAfterFree(s, l) ==
  IF l = NoLocal \/ FreedKind(s, l) = "NotFreed" THEN {}
  ELSE IF FreedKind(s, l) = "Definite" THEN {"use_after_free"}
  ELSE {"potential_use_after_free"}

RawOwned(s, l) == l # NoLocal /\ PtrIsRawOwned(s, l)

\* (mutant) Only a pointer that is freed on every path is escalated.
EscalateDefinite(s, ls, rule) ==
  IF \E l \in ls : UseAfterFree(s, l) = {"use_after_free"} THEN {"use_after_free"} ELSE rule

\* Every freed pointer among ls is a use after free; if none is, rule stands.
Escalate(s, ls, rule) ==
  LET freed == UNION {UseAfterFree(s, l) : l \in ls} IN IF freed # {} THEN freed ELSE rule

\* A checker that escalates but is never talked out of its rule.
AuditIn(s, t, path, rule) ==
  IF PathIs(t.func.fn, path) THEN Escalate(s, {FirstArgLocal(t.args)}, {rule}) ELSE {}
-----------------------------------------------------------------------------
PtrWrite(s, t) == UseIn(s, t, "ptr_write_call", "ptr_write")

SliceFromRawParts(s, t) == UseIn(s, t, "slice_from_raw_parts", "slice_from_raw_parts")

WakerFromRaw(s, t) == UseIn(s, t, "waker_from_raw", "waker_from_raw")

CloneToUninitCall(s, t) ==
  IF PathIs(t.func.fn, "clone_to_uninit")
  THEN PointerUse(s, NthArgLocal(t.args, 2), "clone_to_uninit_call") ELSE {}

ArcGetMutUnchecked(s, t) == AuditIn(s, t, "get_mut_unchecked", "arc_get_mut_unchecked")

DowncastUnchecked(s, t) == AuditIn(s, t, "downcast_unchecked", "downcast_unchecked")

PinNewUnchecked(s, t) == AuditIn(s, t, "pin_unchecked", "pin_new_unchecked")

\* Only the forms that take a raw pointer look at it.
StrFromUtf8Unchecked(s, t) ==
  AuditIn(s, t, "str_from_raw_parts", "str_from_utf8_unchecked")
    \cup IF PathIs(t.func.fn, "str_from_utf8") THEN {"str_from_utf8_unchecked"} ELSE {}

\* src and dst, but for the NonNull forms, whose receiver may be either.
PtrCopy(s, t) ==
  LET src == NthArgLocal(t.args, 1)
      dst == IF PathIs(t.func.fn, "nonnull_copy") THEN NoLocal ELSE NthArgLocal(t.args, 2)
  IN IF PathIs(t.func.fn, "ptr_copy_call")
     THEN Escalate(s, {src, dst}, IF RawOwned(s, src) \/ RawOwned(s, dst) THEN {} ELSE {"ptr_copy"})
     ELSE {}

\* In optimised builds copy_nonoverlapping is a statement, here with operands src
\* and dst; s is the state before it, and nothing talks it out of its rule.
PtrCopyIntrinsic(s, st) == Escalate(s, {OperandLocal(st.src), OperandLocal(st.dst)}, {"ptr_copy"})

VolatileIntrinsics(s, t) ==
  LET ptr0 == NthArgLocal(t.args, 1)
      ptr1 == IF PathIs(t.func.fn, "volatile_copy") THEN NthArgLocal(t.args, 2) ELSE NoLocal
  IN IF PathIs(t.func.fn, "volatile_op")
     THEN Escalate(s, {ptr0, ptr1}, IF RawOwned(s, ptr0) THEN {} ELSE {"volatile_intrinsics"})
     ELSE {}
-----------------------------------------------------------------------------
(***************************************************************************)
(* Operations that consume the pointer: a second one is a double free,     *)
(* which the ownership checker reports.                                    *)
(***************************************************************************)
ConsumesIn(s, t, path, rule) ==
  LET l == FirstArgLocal(t.args) IN
  IF PathIs(t.func.fn, path) /\ UseAfterFree(s, l) = {} /\ ~RawOwned(s, l) THEN {rule} ELSE {}

AllocatorMethods(s, t) == ConsumesIn(s, t, "allocator_method", "allocator_methods")

RawAllocator(s, t) ==
  ConsumesIn(s, t, "dealloc_or_realloc", "raw_allocator")
    \cup IF PathIs(t.func.fn, "raw_alloc") THEN {"raw_allocator"} ELSE {}

RebuildsIn(s, t, path, rule) ==
  IF PathIs(t.func.fn, path) /\ ~LeftToOwnership(s, FirstArgLocal(t.args)) THEN {rule} ELSE {}

StringFromRawParts(s, t) == RebuildsIn(s, t, "string_from_raw_parts", "string_from_raw_parts")

VecFromRawParts(s, t) == RebuildsIn(s, t, "vec_from_raw_parts", "vec_from_raw_parts")

TriompheUnchecked(s, t) ==
  RebuildsIn(s, t, "triomphe_from_raw", "triomphe_unchecked")
    \cup IF PathIs(t.func.fn, "triomphe_assume_init") THEN {"triomphe_unchecked"} ELSE {}

\* The operations on the counts do not free: on a freed pointer they are uses.
ArcFromRaw(s, t) ==
  LET l == FirstArgLocal(t.args)
      freed == UseAfterFree(s, l)
  IN IF ~PathIs(t.func.fn, "arc_from_raw") THEN {}
     ELSE IF freed # {} THEN IF PathIs(t.func.fn, "from_raw") THEN {} ELSE freed
     ELSE IF l # NoLocal /\ ObjectsFor(s, l) # {} THEN {} ELSE {"arc_from_raw"}
-----------------------------------------------------------------------------
(***************************************************************************)
(* Pointers handed to code that is not analysed: every raw pointer among   *)
(* the arguments counts.                                                   *)
(***************************************************************************)
RawPtrArgs(t) == {l \in ArgLocals(t.args) : IsRawPtr(l)}

ForeignFn(s, t) ==
  IF PathIs(t.func.fn, "foreign_item") THEN Escalate(s, RawPtrArgs(t), {"foreign_fn"}) ELSE {}

\* A call through a pointer names no function, and the pointer is to an unsafe
\* one; an argument that wraps a tracked pointer counts as well.
UnsafeFnPtr(s, t) ==
  LET tracked == {l \in ArgLocals(t.args) : ObjectsFor(s, l) # {}} IN
  IF t.func.fn = Absent /\ t.func.local # NoLocal /\ Ty(t.func.local).kind = "UnsafeFnPtr"
  THEN Escalate(s, RawPtrArgs(t) \cup tracked, {"unsafe_fn_ptr"}) ELSE {}

\* A jump into assembly is the terminator [kind |-> "InlineAsm", args, targets].
InlineAsm(s, t) == Escalate(s, RawPtrArgs(t), {"inline_asm"})
-----------------------------------------------------------------------------
(***************************************************************************)
(* Dereferences: a place that goes through the raw pointer in its local.   *)
(* Statement i of a block is judged by the state before it.  Derefs that   *)
(* come further in are left out: Mir abstracts from their base's type.     *)
(***************************************************************************)
StateAtLocation(s, data, i) == ForEach(ApplyStatement, s, SubSeq(data.statements, 1, i - 1))

\* Where a local is assigned as a whole.
DefSites(body, l) ==
  UNION {{<<b, i>> : i \in {j \in DOMAIN body[b].statements : body[b].statements[j].dst = Plain(l)}} :
           b \in DOMAIN body}

\* (mutant) Any of several assignments is followed.
OriginOfAny(body, l) ==
  {rv.op.place.local :
     rv \in {r \in {body[d[1]].statements[d[2]].rv : d \in DefSites(body, l)} :
               r.kind \in {"Use", "Cast"} /\ r.op.kind # "Constant"}}

\* The local that a local with a single assignment was copied or cast from.
Origin(body, l) ==
  LET sites == DefSites(body, l)
      rvs == {body[d[1]].statements[d[2]].rv : d \in sites}
  IN IF Cardinality(sites) # 1 THEN {}
     ELSE {rv.op.place.local : rv \in {r \in rvs : r.kind \in {"Use", "Cast"} /\ r.op.kind # "Constant"}}

\* The pointer inside a Box, at most eight assignments away from it.
DerivesFromBox(body, l) ==
  LET hop[n \in 0..8] == IF n = 0 THEN {l} ELSE UNION {Origin(body, x) : x \in hop[n - 1]}
  IN \E n \in 1..8 : \E x \in hop[n] : Ty(x).kind = "Box"

Operands(rv) ==
  CASE rv.kind \in {"Use", "Cast", "PtrMetadata"} -> {rv.op}
    [] rv.kind = "BinaryOp" -> {rv.a, rv.b}
    [] rv.kind = "Aggregate" -> Range(rv.ops)
    [] OTHER -> {}

\* The places a statement reads, and the ones it writes or borrows mutably.
Accesses(st) ==
  LET borrowed == IF st.rv.kind \in {"Ref", "RawPtr"} THEN {st.rv.place} ELSE {}
      mutably == Ty(st.dst.local).mutable
  IN {<<p, FALSE>> : p \in {op.place : op \in {o \in Operands(st.rv) : o.kind # "Constant"}}}
     \cup {<<p, mutably>> : p \in borrowed} \cup {<<st.dst, TRUE>>}

RawPtrDeref(body, s, data) ==
  UNION {LET at_i == StateAtLocation(s, data, i) IN
         UNION {IF a[2] /\ At(at_i, "mu_raw_ptr", a[1].local) # Absent
                THEN PointerUse(at_i, a[1].local, "raw_ptr_deref") \ {"raw_ptr_deref"}
                ELSE PointerUse(at_i, a[1].local, "raw_ptr_deref") :
                a \in {x \in Accesses(data.statements[i]) :
                         /\ x[1].derefs > 0 /\ IsRawPtr(x[1].local)
                         /\ ~DerivesFromBox(body, x[1].local)}} :
         i \in DOMAIN data.statements}
-----------------------------------------------------------------------------
MemoryFindings(s, t) ==
  PtrWrite(s, t) \cup SliceFromRawParts(s, t) \cup WakerFromRaw(s, t) \cup CloneToUninitCall(s, t)
    \cup ArcGetMutUnchecked(s, t) \cup DowncastUnchecked(s, t) \cup PinNewUnchecked(s, t)
    \cup StrFromUtf8Unchecked(s, t) \cup PtrCopy(s, t) \cup VolatileIntrinsics(s, t)
    \cup AllocatorMethods(s, t) \cup RawAllocator(s, t) \cup StringFromRawParts(s, t)
    \cup VecFromRawParts(s, t) \cup TriompheUnchecked(s, t) \cup ArcFromRaw(s, t)
    \cup ForeignFn(s, t) \cup UnsafeFnPtr(s, t)
=============================================================================
