----------------------------- MODULE BlockState -----------------------------
(***************************************************************************)
(* The abstract state of the flow analysis and its join, `BlockState` and  *)
(* `BlockState::join_with` in crates/san/src/analysis/state.rs, with the   *)
(* two value lattices of object.rs and typestate.rs.                       *)
(*                                                                         *)
(* A state is a function from field names to field values.  The 57         *)
(* fields of the struct fall into nine families, one per way of joining    *)
(* them; a field is listed with its family and nothing else about it is    *)
(* repeated here.  `Fields' is the set of fields an instance tracks: an    *)
(* analysis of one domain keeps only the fields that domain reads.         *)
(*                                                                         *)
(* A HashMap is a total function over its possible keys, with `Absent' for *)
(* a key that is not in the map; a map to sets has {} for such a key.      *)
(***************************************************************************)
EXTENDS Integers

CONSTANTS Fields,       \* the fields of the struct that are tracked
          Key(_),       \* the possible keys of a map (or members of a set) field
          Value(_),     \* the possible values (or members of the value sets)
          Absent        \* "no entry": a value that no map stores

(***************************************************************************)
(* object.rs, typestate.rs: what is known of a heap object, of a guard and *)
(* of a MaybeUninit local.                                                 *)
(***************************************************************************)
HeapState == {"RawOwned", "Reconstituted", "MaybeFreed", "Escaped"}

ProtocolState == {"Active", "Consumed", "Forgotten", "MaybeActive"}

InitState == {"Initialized", "Unknown"}

\* (mutant) The state that is already there stays.
HeapJoinKeeps(a, b) == a

HeapJoin(a, b) ==
  IF a = b THEN a
  ELSE IF "Escaped" \in {a, b} THEN "Escaped" ELSE "MaybeFreed"

ProtocolJoin(a, b) == IF a = b THEN a ELSE "MaybeActive"

InitJoin(a, b) == IF a = b THEN a ELSE "Unknown"

(***************************************************************************)
(* The families of fields.                                                 *)
(***************************************************************************)
LatticeMaps == {"heap", "typestate", "init"}

MayMaps == {"points_to", "local_proto", "owner_alias", "field_owned"}

MaySets == {"realloced_params", "fd_consumed", "const_ptr_cast",
            "mul_overflow", "layout_overflow"}

Flags == {"untracked_forget_seen", "thread_spawned"}

MustSets == {"buf_written", "bounded", "bounded_or_eq", "has_spare",
             "is_full", "nonzero", "finite", "eq_locals", "keys_are_ne",
             "fd_origin", "index_bounded_for", "index_bounded_or_eq_for"}

FirstWinsMaps == {"lt_facts", "ge_facts", "le_facts", "gt_facts",
                  "ref_base", "len_of", "cap_of", "spare_if_true",
                  "spare_if_false", "full_if_true", "full_if_false",
                  "nonzero_if_true", "nonzero_if_false", "finite_if_true",
                  "nan_if_true", "const_lt", "const_le", "const_gt",
                  "const_ge", "cast_origin", "ne_pair_if_true",
                  "eq_pair_if_true", "array_components", "lt_for", "le_for"}

AgreeMaps == {"fn_ptr_targets", "mu_raw_ptr", "active_variant"}

BoundMaps == {"const_upper", "const_lower"}

MustMaps == {"mu_field_inits"}

AllFields == LatticeMaps \cup MayMaps \cup MaySets \cup Flags \cup MustSets
             \cup FirstWinsMaps \cup AgreeMaps \cup BoundMaps \cup MustMaps

ASSUME FieldsAssumption == Fields \subseteq AllFields

ASSUME ValueAssumption ==
  \A f \in Fields :
    /\ \A v \in Value(f) : v # Absent
    /\ f \in MustMaps => \A V \in SUBSET Value(f) : V # Absent
    /\ f = "heap" => Value(f) = HeapState
    /\ f = "typestate" => Value(f) = ProtocolState
    /\ f = "init" => Value(f) = InitState
    /\ f \in BoundMaps => Value(f) \subseteq Nat

FieldType(f) ==
  CASE f \in LatticeMaps \cup FirstWinsMaps \cup AgreeMaps \cup BoundMaps ->
         [Key(f) -> Value(f) \cup {Absent}]
    [] f \in MayMaps -> [Key(f) -> SUBSET Value(f)]
    [] f \in MustMaps -> [Key(f) -> (SUBSET Value(f)) \cup {Absent}]
    [] f \in MaySets \cup MustSets -> SUBSET Key(f)
    [] f \in Flags -> BOOLEAN

\* `BlockState::default()' is {} / Absent / FALSE everywhere.
DefaultField(f) ==
  CASE f \in LatticeMaps \cup FirstWinsMaps \cup AgreeMaps \cup BoundMaps
             \cup MustMaps -> [k \in Key(f) |-> Absent]
    [] f \in MayMaps -> [k \in Key(f) |-> {}]
    [] f \in MaySets \cup MustSets -> {}
    [] f \in Flags -> FALSE

Default == [f \in Fields |-> DefaultField(f)]

\* The states that give each field of F a value of its type.
StatesOver(F) == {s \in [F -> UNION {FieldType(f) : f \in F}] :
                    \A f \in F : s[f] \in FieldType(f)}
-----------------------------------------------------------------------------
(***************************************************************************)
(* join_with, one operator per family, and the part of the `changed' flag  *)
(* that the family contributes.  a is the value already stored, b the one  *)
(* that arrives.                                                           *)
(***************************************************************************)
LatticeJoin(f, x, y) ==
  CASE f = "heap" -> HeapJoin(x, y)
    [] f = "typestate" -> ProtocolJoin(x, y)
    [] f = "init" -> InitJoin(x, y)

\* A key of one map only keeps its value; a key of both gets the join.
JoinLatticeMap(f, a, b) ==
  [k \in Key(f) |-> IF b[k] = Absent THEN a[k]
                    ELSE IF a[k] = Absent THEN b[k]
                    ELSE LatticeJoin(f, a[k], b[k])]

ChangedLatticeMap(f, a, b) ==
  \E k \in Key(f) :
    /\ b[k] # Absent
    /\ a[k] = Absent \/ LatticeJoin(f, a[k], b[k]) # a[k]

JoinMayMap(f, a, b) == [k \in Key(f) |-> a[k] \cup b[k]]

ChangedMayMap(f, a, b) == \E k \in Key(f) : b[k] \ a[k] # {}

\* The first value that arrives for a key stays, whatever arrives later.
JoinFirstWins(f, a, b) ==
  [k \in Key(f) |-> IF a[k] = Absent THEN b[k] ELSE a[k]]

\* (mutant) A value that is turned away counts as a change.
ChangedFirstWinsAlways(f, a, b) == \E k \in Key(f) : b[k] # Absent /\ a[k] # b[k]

ChangedFirstWins(f, a, b) ==
  \E k \in Key(f) : a[k] = Absent /\ b[k] # Absent

JoinAgree(f, a, b) ==
  [k \in Key(f) |-> IF a[k] = b[k] THEN a[k] ELSE Absent]

\* The weaker bound: the larger upper bound, the smaller lower bound.
WeakerBound(f, x, y) ==
  IF f = "const_upper" THEN IF x >= y THEN x ELSE y
                       ELSE IF x <= y THEN x ELSE y

JoinBound(f, a, b) ==
  [k \in Key(f) |-> IF Absent \in {a[k], b[k]} THEN Absent
                    ELSE WeakerBound(f, a[k], b[k])]

\* (mutant) Union where intersection is meant.
JoinMustMapUnion(f, a, b) ==
  [k \in Key(f) |-> IF Absent \in {a[k], b[k]} THEN Absent ELSE a[k] \cup b[k]]

JoinMustMap(f, a, b) ==
  [k \in Key(f) |-> IF Absent \in {a[k], b[k]} THEN Absent
                    ELSE a[k] \cap b[k]]

JoinField(f, a, b) ==
  CASE f \in LatticeMaps   -> JoinLatticeMap(f, a, b)
    [] f \in MayMaps       -> JoinMayMap(f, a, b)
    [] f \in MaySets       -> a \cup b
    [] f \in Flags         -> a \/ b
    [] f \in MustSets      -> a \cap b
    [] f \in FirstWinsMaps -> JoinFirstWins(f, a, b)
    [] f \in AgreeMaps     -> JoinAgree(f, a, b)
    [] f \in BoundMaps     -> JoinBound(f, a, b)
    [] f \in MustMaps      -> JoinMustMap(f, a, b)

ChangedField(f, a, b) ==
  CASE f \in LatticeMaps   -> ChangedLatticeMap(f, a, b)
    [] f \in MayMaps       -> ChangedMayMap(f, a, b)
    [] f \in MaySets       -> b \ a # {}
    [] f \in Flags         -> b /\ ~a
    [] f \in MustSets      -> a \cap b # a
    [] f \in FirstWinsMaps -> ChangedFirstWins(f, a, b)
    [] f \in AgreeMaps     -> JoinAgree(f, a, b) # a
    [] f \in BoundMaps     -> JoinBound(f, a, b) # a
    [] f \in MustMaps      -> JoinMustMap(f, a, b) # a

\* BlockState::join_with: the merged state and the `changed' flag.
Merged(s, other) == [f \in Fields |-> JoinField(f, s[f], other[f])]

Changed(s, other) == \E f \in Fields : ChangedField(f, s[f], other[f])
-----------------------------------------------------------------------------
(***************************************************************************)
(* The information order the joins climb: from s to t, may-facts are only  *)
(* added and must-facts only dropped.  Of a first-wins map only the keys   *)
(* are ordered: the join keeps whichever value came first, so no order on  *)
(* the values is respected.                                                *)
(***************************************************************************)
LatticeLeq(f, x, y) == LatticeJoin(f, x, y) = y

LeqField(f, a, b) ==
  CASE f \in LatticeMaps ->
         \A k \in Key(f) : a[k] # Absent =>
           b[k] # Absent /\ LatticeLeq(f, a[k], b[k])
    [] f \in MayMaps -> \A k \in Key(f) : a[k] \subseteq b[k]
    [] f \in MaySets -> a \subseteq b
    [] f \in Flags -> a => b
    [] f \in MustSets -> b \subseteq a
    [] f \in FirstWinsMaps -> \A k \in Key(f) : a[k] # Absent => b[k] # Absent
    [] f \in AgreeMaps -> \A k \in Key(f) : b[k] # Absent => a[k] = b[k]
    [] f \in BoundMaps ->
         \A k \in Key(f) : b[k] # Absent =>
           a[k] # Absent /\ WeakerBound(f, a[k], b[k]) = b[k]
    [] f \in MustMaps ->
         \A k \in Key(f) : b[k] # Absent => a[k] # Absent /\ b[k] \subseteq a[k]

Leq(s, t) == \A f \in Fields : LeqField(f, s[f], t[f])
=============================================================================
