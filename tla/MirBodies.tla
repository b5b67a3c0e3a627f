----------------------------- MODULE MirBodies ------------------------------
(***************************************************************************)
(* All the bodies that the analysis may be given, and the declared types   *)
(* of the fields of BlockState.  The sets are infinite: no body is too     *)
(* long, and no call has too many arguments.                               *)
(***************************************************************************)
EXTENDS Terminators

CONSTANTS Blocks,      \* the basic blocks
          FnDefs,      \* DefIds of functions
          FieldIndex,  \* u32 field indices
          ObjIds       \* ObjectIds

U64 == 0..MaxU64

(***************************************************************************)
(* `pub struct BlockState': HashMap<K, V>, HashSet<K>.                     *)
(***************************************************************************)
PairMaps == {"ne_pair_if_true", "eq_pair_if_true", "lt_for", "le_for"}

ConstMaps == {"const_lt", "const_le", "const_gt", "const_ge"}

KeyType(f) ==
  CASE f \in PairSets      -> Local \X Local
    [] f = "heap"          -> ObjIds
    [] f = "typestate"     -> Blocks
    [] f = "field_owned"   -> Local \X FieldIndex
    [] OTHER               -> Local

ValueType(f) ==
  CASE f \in {"points_to", "field_owned"} -> ObjIds
    [] f = "local_proto"      -> Blocks
    [] f = "heap"             -> HeapState
    [] f = "typestate"        -> ProtocolState
    [] f = "init"             -> InitState
    [] f = "fn_ptr_targets"   -> FnDefs
    [] f = "array_components" -> Seq(Local)
    [] f \in BoundMaps        -> U64
    [] f \in ConstMaps        -> Local \X U64
    [] f \in PairMaps         -> Local \X Local
    [] f \in {"active_variant", "mu_field_inits"} -> FieldIndex
    [] OTHER                  -> Local

ASSUME DeclaredTypes == \A f \in Fields : Key(f) = KeyType(f) /\ Value(f) = ValueType(f)

\* A call site names the object it allocates, a stale pointer its own; no
\* state is None.
ASSUME IdAssumption ==
  /\ Blocks \subseteq ObjIds
  /\ \A l \in Local : REALLOC_BASE + l \in ObjIds
  /\ Absent \notin StatesOver(Fields)

\* uint_type_max fits a u64.
ASSUME TyAssumption == \A l \in Local : Ty(l).max \in U64 \cup {NoValue}

ASSUME SummariesAssumption ==
  \A fn \in DOMAIN Summaries :
    /\ Summaries[fn].param_effects \in Seq([param : Nat, effect : {"Reconstituted", "Escaped"}])
    /\ \A p \in {"returns_alias_of_param", "returns_ptr_of_param", "reallocs_param"} :
         Summaries[fn][p] \in Nat
-----------------------------------------------------------------------------
(***************************************************************************)
(* Syntax.                                                                 *)
(***************************************************************************)
Places == [local : Local, derefs : 0..2, field : FieldIndex \cup {NoField}, index : BOOLEAN]

Operands ==
  [kind : {"Copy", "Move"}, place : Places] \cup [kind : {"Constant"}, val : U64 \cup {NoValue}]

BinOps == {"Add", "AddWithOverflow", "Sub", "SubWithOverflow", "Mul", "MulWithOverflow", "Div",
           "Rem", "BitAnd", "BitOr", "BitXor", "Shl", "Shr", "Offset",
           "Eq", "Ne", "Lt", "Le", "Gt", "Ge"}

CastKinds == {"PtrToPtr", "Transmute", "IntToInt", "IntToFloat", "FloatToInt", "FloatToFloat",
              "Other"}

Rvalues ==
  [kind : {"Use", "PtrMetadata"}, op : Operands]
    \cup [kind : {"Ref", "RawPtr"}, place : Places]
    \cup [kind : {"Cast"}, cast : CastKinds, op : Operands]
    \cup [kind : {"Cast"}, cast : {"ReifyFnPointer"}, op : Operands, fn : FnDefs]
    \cup [kind : {"BinaryOp"}, o : BinOps, a : Operands, b : Operands]
    \cup [kind : {"Aggregate"}, agg : {"Array", "Tuple", "Adt"},
          active : FieldIndex \cup {NoField}, ops : Seq(Operands)]
    \cup [kind : {"Other"}]

Assignments == [dst : Places, rv : Rvalues]

Cleanups == Blocks \cup {NoCleanup}

Calls ==
  [kind : {"Call"}, func : [fn : FnDefs \cup {Absent}, local : Local \cup {NoLocal}],
   args : Seq(Operands), dest : Places, targets : Seq(Blocks), unwind : Cleanups]

Terms ==
  [kind : Ends]
    \cup [kind : Jumps \ {"SwitchInt"}, targets : Seq(Blocks)]
    \cup [kind : {"SwitchInt"}, discr : Operands, values : Seq(Nat), targets : Seq(Blocks)]
    \cup Calls
    \cup [kind : {"Drop"}, place : Places, targets : Seq(Blocks), unwind : Cleanups]
    \cup [kind : {"Assert"}, cond : Operands, expected : BOOLEAN, targets : Seq(Blocks),
          unwind : Cleanups]
    \cup [kind : Unwinds \ {"Call", "Drop", "Assert"}, targets : Seq(Blocks), unwind : Cleanups]

BasicBlocks == [bb : Blocks, statements : Seq(Assignments), term : Terms]
=============================================================================
