-------------------------------- MODULE Mir ---------------------------------
(***************************************************************************)
(* The part of rustc's MIR that the transfer functions look at.            *)
(*                                                                         *)
(* A place is a local with a projection, of which the analysis asks three  *)
(* things: whether it is empty, whether it dereferences (and more than     *)
(* once), and the last field it names.  A call names its callee and the    *)
(* set of path predicates (is_into_raw, is_from_raw, ends_with("::len"))   *)
(* that hold of the callee's path: the strings themselves are abstracted.  *)
(***************************************************************************)
EXTENDS Integers, Sequences, ControlFlow

CONSTANTS
  Local,        \* the locals of a body, 0 (the return place) upwards
  ArgCount,     \* locals 1..ArgCount are the parameters
  Ty(_),        \* local: its declared type
  NoLocal,      \* Option::None of a local
  NoField,      \* Option::None of a field index
  NoValue       \* Option::None of a u64

ASSUME LocalAssumption ==
  /\ 0 \in Local /\ Local \subseteq Nat
  /\ ArgCount \in Nat /\ 1..ArgCount \subseteq Local
  /\ NoLocal \notin Local

(***************************************************************************)
(* Types: a kind, mutability of a pointer, and the facts the analysis      *)
(* reads off a type - the largest unsigned value (uint_type_max), the bit  *)
(* width where a checker lists it, whether it is never zero                *)
(* (ty_is_nonzero), a lock guard (is_guard_type), a user union or pointer  *)
(* to one, and the fields of the struct pointed to.                        *)
(***************************************************************************)
Type(kind, mutable) ==
  [kind |-> kind, mutable |-> mutable, max |-> NoValue, bits |-> NoValue, nonzero |-> FALSE,
   guard |-> FALSE, union |-> FALSE, fields |-> 0]

IsRawPtr(l) == Ty(l).kind = "RawPtr"

IsRef(l) == Ty(l).kind = "Ref"

IsMutableRef(l) == IsRef(l) /\ Ty(l).mutable

IsScalar(l) == Ty(l).kind \in {"Int", "Uint", "Float", "Bool", "Char"}

IsInteger(l) == Ty(l).kind \in {"Int", "Uint"}

IsParam(l) == l \in 1..ArgCount

IsReferenceParam(l) == IsParam(l) /\ IsRef(l)

(***************************************************************************)
(* Places and operands.                                                    *)
(***************************************************************************)
\* derefs: 0 for no Deref, 1 for a single leading one, 2 for one further in.
Place(l, derefs, field) ==
  [local |-> l, derefs |-> derefs, field |-> field, index |-> FALSE]

Element(l) == [local |-> l, derefs |-> 0, field |-> NoField, index |-> TRUE]

Plain(l) == Place(l, 0, NoField)

IsPlain(p) == p.derefs = 0 /\ p.field = NoField /\ ~p.index

\* last_simple_field_idx: the last field, unless a Deref comes further in.
SimpleField(p) == IF p.derefs > 1 THEN NoField ELSE p.field

Copy(p) == [kind |-> "Copy", place |-> p]

Move(p) == [kind |-> "Move", place |-> p]

Const(v) == [kind |-> "Constant", val |-> v]

OperandLocal(op) ==
  IF op.kind # "Constant" /\ IsPlain(op.place) THEN op.place.local ELSE NoLocal

BaseLocal(op) == IF op.kind # "Constant" THEN op.place.local ELSE NoLocal

ConstU64(op) == IF op.kind = "Constant" THEN op.val ELSE NoValue

NthArgLocal(args, n) == IF n \in DOMAIN args THEN OperandLocal(args[n]) ELSE NoLocal

FirstArgLocal(args) == NthArgLocal(args, 1)

FirstArgBaseLocal(args) == IF args = <<>> THEN NoLocal ELSE BaseLocal(args[1])

(***************************************************************************)
(* Statements.                                                             *)
(***************************************************************************)
Assign(dst, rv) == [dst |-> dst, rv |-> rv]

Use(op) == [kind |-> "Use", op |-> op]

Ref(p) == [kind |-> "Ref", place |-> p]

RawPtr(p) == [kind |-> "RawPtr", place |-> p]

Cast(k, op) == [kind |-> "Cast", cast |-> k, op |-> op]

Reify(fn) == [kind |-> "Cast", cast |-> "ReifyFnPointer", op |-> Const(NoValue), fn |-> fn]

BinaryOp(o, a, b) == [kind |-> "BinaryOp", o |-> o, a |-> a, b |-> b]

PtrMetadata(op) == [kind |-> "PtrMetadata", op |-> op]

\* k is "Array", "Tuple" or "Adt"; active is the field a user union is given.
Aggregate(k, active, ops) ==
  [kind |-> "Aggregate", agg |-> k, active |-> active, ops |-> ops]

Opaque == [kind |-> "Other"]

RvalueLocal(rv) == IF rv.kind = "Use" THEN OperandLocal(rv.op) ELSE NoLocal

IsPlainUse(rv) == RvalueLocal(rv) # NoLocal

IsMove(rv) == rv.kind = "Use" /\ rv.op.kind = "Move"
=============================================================================
