----------------------------- MODULE Statements -----------------------------
(***************************************************************************)
(* apply_statement of analysis/transfer.rs: what an assignment does to the *)
(* abstract state, with the helpers that only assignments use.             *)
(***************************************************************************)
EXTENDS Facts

CompareFacts == {"lt_facts", "ge_facts", "le_facts", "gt_facts"}

\* What every handler drops of its destination unless it says otherwise.
Basics == {"local_proto", "init", "buf_written", "bounded", "bounded_or_eq"}
          \cup CompareFacts

CollectionFacts == {"ref_base", "len_of", "cap_of", "spare_if_true", "spare_if_false",
                    "has_spare", "full_if_true", "full_if_false", "is_full"}

RangeFacts == {"nonzero", "nonzero_if_true", "nonzero_if_false", "finite",
               "finite_if_true", "nan_if_true", "const_upper", "const_lower",
               "const_lt", "const_le", "const_gt", "const_ge"}

PairFacts == {"fd_origin", "fd_consumed", "array_components", "ne_pair_if_true",
              "eq_pair_if_true", "keys_are_ne", "eq_locals", "cast_origin",
              "lt_for", "le_for", "index_bounded_for", "index_bounded_or_eq_for"}

\* Dropped when a call redefines its destination ...
Redefined == CollectionFacts \cup RangeFacts \cup PairFacts

\* ... and when an assignment does.
Reassigned == Redefined \cup {"const_ptr_cast", "mul_overflow", "layout_overflow",
                              "active_variant", "mu_raw_ptr", "mu_field_inits",
                              "field_owned"}

\* What a plain copy or move carries to its destination.
Followed == {"has_spare", "is_full", "nonzero", "finite", "fd_origin", "fd_consumed",
             "mul_overflow", "layout_overflow", "active_variant", "mu_raw_ptr",
             "mu_field_inits", "cast_origin", "array_components", "const_upper",
             "const_lower", "points_to", "const_ptr_cast"} \cup Basics
-----------------------------------------------------------------------------
SourcePlace(rv) ==
  CASE rv.kind \in {"Use", "Cast"} /\ rv.op.kind # "Constant" -> {rv.op.place}
    [] rv.kind \in {"Ref", "RawPtr"} -> {rv.place}
    [] OTHER -> {}

\* Which owners' interiors a pointer loaded from place p aliases.
PlaceOwners(s, p) ==
  IF OwnersOf(s, p.local) # {} THEN OwnersOf(s, p.local)
  ELSE IF \/ p.derefs > 0 /\ IsReferenceParam(p.local)
          \/ p.field # NoField /\ IsParam(p.local)
       THEN {p.local} ELSE {}

UpdateOwnerAlias(s, dst, rv) ==
  Put(s, "owner_alias", dst,
      IF rv.kind = "Aggregate"
      THEN UNION {OwnersOf(s, OperandLocal(rv.ops[i])) :
                    i \in {j \in DOMAIN rv.ops : OperandLocal(rv.ops[j]) # NoLocal}}
      ELSE IF IsScalar(dst) THEN {}
      ELSE UNION {PlaceOwners(s, p) : p \in SourcePlace(rv)})

UpdateFnPtrTarget(s, dst, rv) ==
  Put(s, "fn_ptr_targets", dst,
      IF rv.kind = "Cast" /\ rv.cast = "ReifyFnPointer" THEN rv.fn
      ELSE IF IsPlainUse(rv) THEN At(s, "fn_ptr_targets", RvalueLocal(rv))
      ELSE Absent)
-----------------------------------------------------------------------------
(***************************************************************************)
(* Comparisons record, under the Boolean they compute, what it would prove.*)
(***************************************************************************)
FactOf(o) == [Lt |-> "lt_facts", Ge |-> "ge_facts", Le |-> "le_facts", Gt |-> "gt_facts"][o]

\* The collection whose len() is in local l, through one borrow.
LenOf(s, l) ==
  IF At(s, "len_of", l) # Absent THEN At(s, "len_of", l)
  ELSE IF At(s, "ref_base", l) # Absent THEN At(s, "len_of", At(s, "ref_base", l))
  ELSE Absent

RecordFor(s, dst, o, a, b) ==
  IF /\ o \in {"Lt", "Le"}
     /\ a # NoLocal /\ b # NoLocal
     /\ LenOf(s, b) # Absent
  THEN Put(s, IF o = "Lt" THEN "lt_for" ELSE "le_for", dst, <<a, LenOf(s, b)>>)
  ELSE s

\* len < cap is proved when Lt, Gt hold and when Ge, Le fail.
RecordSpare(s, dst, o, a, b) ==
  LET len_l == IF o \in {"Le", "Gt"} THEN b ELSE a
      cap_l == IF o \in {"Le", "Gt"} THEN a ELSE b
  IN IF /\ a # NoLocal /\ b # NoLocal
        /\ At(s, "len_of", len_l) # Absent
        /\ At(s, "len_of", len_l) = At(s, "cap_of", cap_l)
     THEN Put(s, IF o \in {"Lt", "Gt"} THEN "spare_if_true" ELSE "spare_if_false",
              dst, At(s, "len_of", len_l))
     ELSE s

RecordFull(s, dst, o, a, b) ==
  LET both(x, y) == IF At(s, "len_of", x) = At(s, "cap_of", y)
                    THEN {At(s, "len_of", x)} \ {Absent} ELSE {}
      colls == IF NoLocal \in {a, b} THEN {}
               ELSE IF both(a, b) # {} THEN both(a, b) ELSE both(b, a)
  IN IF colls = {} THEN s
     ELSE Put(s, IF o = "Eq" THEN "full_if_true" ELSE "full_if_false",
              dst, CHOOSE c \in colls : TRUE)

\* A local compared with a constant, whichever side it is on.
RecordConst(s, dst, o, op1, op2) ==
  LET left  == [Lt |-> "const_lt", Ge |-> "const_ge", Le |-> "const_le", Gt |-> "const_gt"]
      right == [Lt |-> "const_gt", Ge |-> "const_le", Le |-> "const_ge", Gt |-> "const_lt"]
      record(t, f, l, k) ==
        IF l = NoLocal \/ k = NoValue THEN t
        ELSE LET t1 == Put(t, f, dst, <<l, k>>) IN
             IF (f = "const_gt" /\ k = 0) \/ (f = "const_ge" /\ k >= 1)
             THEN Put(t1, "nonzero_if_true", dst, l) ELSE t1
  IN record(record(s, left[o], OperandLocal(op1), ConstU64(op2)),
            right[o], OperandLocal(op2), ConstU64(op1))

Order(s, dst, o, op1, op2) ==
  LET a == OperandLocal(op1)
      b == OperandLocal(op2)
      s1 == Put(Clear(s, CompareFacts, dst), FactOf(o), dst,
                IF a = NoLocal THEN Absent ELSE a)
  IN RecordConst(RecordSpare(RecordFor(s1, dst, o, a, b), dst, o, a, b),
                 dst, o, op1, op2)

Equality(s, dst, o, op1, op2) ==
  LET a == OperandLocal(op1)
      b == OperandLocal(op2)
      zero == IF ConstU64(op2) = 0 THEN a ELSE IF ConstU64(op1) = 0 THEN b ELSE NoLocal
      s1 == RecordFull(Clear(s, CompareFacts, dst), dst, o, a, b)
      s2 == IF zero = NoLocal THEN s1
            ELSE Put(s1, IF o = "Eq" THEN "nonzero_if_false" ELSE "nonzero_if_true", dst, zero)
  IN IF NoLocal \in {a, b} THEN s2
     ELSE Put(s2, IF o = "Eq" THEN "eq_pair_if_true" ELSE "ne_pair_if_true", dst, <<a, b>>)
-----------------------------------------------------------------------------
(***************************************************************************)
(* Arithmetic.                                                             *)
(***************************************************************************)
\* The known upper bounds of an operand: none or one.
Uppers(s, op) ==
  IF ConstU64(op) # NoValue THEN {ConstU64(op)}
  ELSE IF OperandLocal(op) # NoLocal THEN {At(s, "const_upper", OperandLocal(op))} \ {Absent}
  ELSE {}

IsNonzero(s, op) ==
  \/ OperandLocal(op) # NoLocal /\ Holds(s, "nonzero", OperandLocal(op))
  \/ ConstU64(op) \notin {NoValue, 0}

\* Mul, Add and their checked forms: the bound, if the operands have one, and
\* the overflow mark.
Sized(s, dst, bounds) ==
  IF bounds = {} THEN Insert(s, "mul_overflow", dst)
  ELSE LET r == CHOOSE v \in bounds : TRUE IN
       SetTo(LowerUpper(s, dst, MinU64(r, MaxU64)), "mul_overflow", dst, r > MaxISize)

Arithmetic(s, dst, o, op1, op2) ==
  CASE o = "BitOr" ->
         SetTo(s, "nonzero", dst, IsNonzero(s, op1) \/ IsNonzero(s, op2))
    [] o = "BitAnd" ->
         LET left == IF "Constant" = op1.kind /\ ConstU64(op2) # NoValue THEN {} ELSE Uppers(s, op1)
             ubs == left \cup Uppers(s, op2) IN
         IF ubs = {} THEN s ELSE LowerUpper(s, dst, Min(ubs))
    [] o = "Rem" ->
         IF ConstU64(op2) \in {NoValue, 0} THEN s ELSE LowerUpper(s, dst, ConstU64(op2) - 1)
    [] o = "Shr" ->
         IF ConstU64(op2) = NoValue THEN s
         ELSE LET ub == IF OperandLocal(op1) = NoLocal THEN {} ELSE Uppers(s, op1) IN
              LowerUpper(s, dst, (IF ub = {} THEN MaxU64 ELSE Min(ub)) \div PowerOfTwo(ConstU64(op2)))
    [] o \in {"Mul", "MulWithOverflow"} ->
         Sized(s, dst, {p[1] * p[2] : p \in Uppers(s, op1) \X Uppers(s, op2)})
    [] o \in {"Add", "AddWithOverflow"} ->
         IF IsInteger(dst) \/ (o = "AddWithOverflow" /\ Ty(dst).kind = "CheckedInt")
         THEN Sized(s, dst, {p[1] + p[2] : p \in Uppers(s, op1) \X Uppers(s, op2)})
         ELSE s
    [] OTHER -> s

Compute(s, dst, o, op1, op2) ==
  LET objs(op) == IF OperandLocal(op) = NoLocal THEN {} ELSE ObjectsFor(s, OperandLocal(op))
      s1 == Put(s, "points_to", dst,
                IF o \notin {"Offset", "Add", "Sub"} THEN {}
                ELSE IF objs(op1) # {} THEN objs(op1) ELSE objs(op2))
      s2 == Clear(s1, Basics \ CompareFacts, dst)
  IN CASE o \in {"Lt", "Ge", "Le", "Gt"} -> Order(s2, dst, o, op1, op2)
       [] o \in {"Eq", "Ne"} -> Equality(s2, dst, o, op1, op2)
       [] o \in {"MulWithOverflow", "AddWithOverflow"} -> Arithmetic(s2, dst, o, op1, op2)
       [] OTHER -> Clear(Arithmetic(s2, dst, o, op1, op2), CompareFacts, dst)
-----------------------------------------------------------------------------
(***************************************************************************)
(* The other right-hand sides.                                             *)
(***************************************************************************)
\* dst points to objs and nothing else is known of it.
PointTo(s, dst, objs) == Clear(Put(s, "points_to", dst, objs), Basics, dst)

FieldRead(s, dst, p) ==
  LET objs == IF ObjectsFor(s, p.local) # {} THEN ObjectsFor(s, p.local)
              ELSE IF SimpleField(p) # NoField
              THEN At(s, "field_owned", <<p.local, SimpleField(p)>>) ELSE {}
  IN SetTo(PointTo(s, dst, objs), "mul_overflow", dst, Holds(s, "mul_overflow", p.local))

Construct(s, dst, rv) ==
  LET locals == [i \in DOMAIN rv.ops |-> OperandLocal(rv.ops[i])]
      known  == {locals[i] : i \in DOMAIN locals} \ {NoLocal}
      s1 == PointTo(s, dst, UNION {ObjectsFor(s, l) : l \in known})
      s2 == IF rv.active # NoField THEN Put(s1, "active_variant", dst, rv.active) ELSE s1
  IN IF /\ rv.agg \in {"Array", "Tuple"} /\ locals # <<>>
        /\ \A i \in DOMAIN locals : locals[i] # NoLocal
     THEN Put(s2, "array_components", dst, locals) ELSE s2

\* (mutant) A second cast of a pointer forgets where it came from.
PointerCastDirect(s, dst, src) ==
  LET s1 == IF IsRawPtr(dst) /\ Ty(dst).mutable /\ IsRawPtr(src) /\ ~Ty(src).mutable
            THEN Insert(s, "const_ptr_cast", dst) ELSE s
  IN PointTo(s1, dst, ObjectsFor(s, src))

PointerCast(s, dst, src) ==
  LET awayConst == /\ IsRawPtr(dst) /\ Ty(dst).mutable
                   /\ \/ IsRawPtr(src) /\ ~Ty(src).mutable
                      \/ Holds(s, "const_ptr_cast", src)
      s1 == IF awayConst THEN Insert(s, "const_ptr_cast", dst) ELSE s
  IN PointTo(s1, dst, ObjectsFor(s, src))

\* The bound and the nonzero fact follow the bits, whatever the width.
NumericCast(s, dst, src, isIntToInt) ==
  LET s1 == Put(s, "cast_origin", dst, src)
      s2 == IF Ty(dst).max = NoValue THEN s1 ELSE LowerUpper(s1, dst, Ty(dst).max)
      s3 == IF Holds(s2, "nonzero", src) THEN Insert(s2, "nonzero", dst) ELSE s2
  IN IF ~isIntToInt THEN s1
     ELSE IF At(s3, "const_upper", src) = Absent THEN s3
     ELSE LowerUpper(s3, dst, At(s3, "const_upper", src))

AssignConstant(s, dst, val) ==
  LET s1 == IF val = NoValue THEN s
            ELSE SetTo(Put(Put(s, "const_upper", dst, val), "const_lower", dst, val),
                       "nonzero", dst, val # 0)
  IN PointTo(s1, dst, {})

\* A move out of a nested place also drops what was known of its base.
Unknown(s, dst, rv) ==
  LET s1 == PointTo(s, dst, {}) IN
  IF IsMove(rv) THEN PointTo(s1, rv.op.place.local, {}) ELSE s1

Evaluate(s, dst, rv) ==
  LET src == IF rv.kind \in {"Use", "Cast"} THEN OperandLocal(rv.op) ELSE NoLocal IN
  CASE IsPlainUse(rv) -> Carry(s, Followed, src, dst, IsMove(rv))
    [] rv.kind = "Use" /\ rv.op.kind # "Constant" /\ ~IsPlainUse(rv) ->
         IF rv.op.place.derefs <= 1 THEN FieldRead(s, dst, rv.op.place)
         ELSE Unknown(s, dst, rv)
    [] rv.kind = "Use" /\ rv.op.kind = "Constant" -> AssignConstant(s, dst, rv.op.val)
    [] \/ rv.kind \in {"Ref", "RawPtr"} /\ IsPlain(rv.place)
       \/ rv.kind = "RawPtr" /\ rv.place = Place(rv.place.local, 1, NoField) ->
         PointTo(s, dst, ObjectsFor(s, rv.place.local))
    [] rv.kind = "Aggregate" -> Construct(s, dst, rv)
    [] rv.kind = "Cast" /\ rv.cast \in {"PtrToPtr", "Transmute"} /\ src # NoLocal ->
         PointerCast(s, dst, src)
    [] rv.kind = "Cast" /\ rv.cast \in {"IntToInt", "IntToFloat", "FloatToInt", "FloatToFloat"}
       /\ src # NoLocal ->
         NumericCast(s, dst, src, rv.cast = "IntToInt")
    [] rv.kind = "BinaryOp" -> Compute(s, dst, rv.o, rv.a, rv.b)
    [] OTHER -> Unknown(s, dst, rv)

\* `dst = &base', `dst = &*base' and a slice length are tied to the collection.
Attribute(s, dst, rv) ==
  IF rv.kind = "Ref" /\ rv.place.field = NoField /\ ~rv.place.index /\ rv.place.derefs <= 1
  THEN Put(s, "ref_base", dst, rv.place.local)
  ELSE IF rv.kind = "PtrMetadata" /\ OperandLocal(rv.op) # NoLocal
  THEN Put(s, "len_of", dst, DerefBase(s, OperandLocal(rv.op)))
  ELSE s

AssignLocal(s, dst, rv) ==
  LET s1 == UpdateFnPtrTarget(UpdateOwnerAlias(s, dst, rv), dst, rv)
      s2 == Attribute(Clear(s1, Reassigned, dst), dst, rv)
  IN EnforceTypeFacts(Evaluate(s2, dst, rv), dst)
-----------------------------------------------------------------------------
(***************************************************************************)
(* A store through a projection leaves everything else about the base.     *)
(***************************************************************************)
StoreOwnership(s, dst, src) ==
  IF src = NoLocal THEN s
  ELSE IF dst.local = 0 /\ dst.derefs = 0
  THEN Put(s, "points_to", 0, ObjectsFor(s, 0) \cup ObjectsFor(s, src))
  ELSE IF SimpleField(dst) = NoField THEN EscapeLocal(s, src)
  ELSE Clear(Put(s, "field_owned", <<dst.local, SimpleField(dst)>>, ObjectsFor(s, src)),
             {"points_to", "local_proto", "owner_alias"}, src)

\* A MaybeUninit is initialised once every field was written through its pointer.
StoreUninit(s, dst) ==
  LET mu == At(s, "mu_raw_ptr", dst.local)
      written == (IF At(s, "mu_field_inits", mu) = Absent THEN {}
                  ELSE At(s, "mu_field_inits", mu)) \cup {SimpleField(dst)}
      s1 == Put(s, "mu_field_inits", mu, written)
  IN IF SimpleField(dst) = NoField \/ mu = Absent \/ ~IsRawPtr(dst.local) \/ Ty(dst.local).fields = 0
     THEN s
     ELSE IF Cardinality(written) >= Ty(dst.local).fields
     THEN Put(s1, "init", mu, "Initialized") ELSE s1

StoreThrough(s, dst, rv) ==
  LET s1 == StoreOwnership(s, dst, RvalueLocal(rv))
      s2 == IF Ty(dst.local).union /\ SimpleField(dst) # NoField
            THEN Put(s1, "active_variant", dst.local, SimpleField(dst)) ELSE s1
  IN StoreUninit(s2, dst)

ApplyStatement(s, st) ==
  LET s0 == InvalidateOwner(s, st.dst.local) IN
  IF IsPlain(st.dst) THEN AssignLocal(s0, st.dst.local, st.rv)
  ELSE StoreThrough(s0, st.dst, st.rv)
=============================================================================
