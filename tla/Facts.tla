------------------------------- MODULE Facts --------------------------------
(***************************************************************************)
(* Reading and updating a BlockState, and the helper methods of            *)
(* `impl BlockState' in analysis/state.rs.                                 *)
(*                                                                         *)
(* A field outside Fields reads as empty and ignores updates, so that the  *)
(* transfer functions can be run on the fields of one domain.  Removing an *)
(* entry and storing Absent (or {}) are the same thing.                    *)
(***************************************************************************)
EXTENDS BlockState, Mir, Loops, FiniteSetsExt, Functions

CONSTANTS MaxU64, MaxISize     \* u64::MAX and isize::MAX, scaled down

ASSUME WidthAssumption == MaxU64 \in Nat /\ MaxISize \in 0..MaxU64

\* Fields keyed by pairs of locals, and the sets among the other fields.
PairSets == {"eq_locals", "keys_are_ne", "index_bounded_for", "index_bounded_or_eq_for"}

SetFields == MaySets \cup MustSets

At(s, f, k) == IF f \in Fields THEN s[f][k] ELSE IF f \in MayMaps THEN {} ELSE Absent

Holds(s, f, x) == f \in Fields /\ x \in s[f]

Put(s, f, k, v) == IF f \in Fields THEN [s EXCEPT ![f][k] = v] ELSE s

Insert(s, f, x) == IF f \in Fields THEN [s EXCEPT ![f] = @ \cup {x}] ELSE s

SetTo(s, f, x, b) ==
  IF f \in Fields THEN [s EXCEPT ![f] = IF b THEN @ \cup {x} ELSE @ \ {x}] ELSE s

Raise(s, f) == IF f \in Fields THEN [s EXCEPT ![f] = TRUE] ELSE s

\* The value of a field without what it says about local l.
Forget(f, v, l) ==
  CASE f \in PairSets       -> {p \in v : l \notin {p[1], p[2]}}
    [] f \in SetFields \ PairSets -> v \ {l}
    [] f = "field_owned"    -> [k \in DOMAIN v |-> IF k[1] = l THEN {} ELSE v[k]]
    [] f \in MayMaps \ {"field_owned"} -> [v EXCEPT ![l] = {}]
    [] OTHER                -> [v EXCEPT ![l] = Absent]

\* (mutant) That a descriptor was given an owner does not follow a copy.
CopyToFresh(f, v, src, dst) ==
  IF f \in SetFields THEN IF src \in v /\ f # "fd_consumed" THEN v \cup {dst} ELSE v \ {dst} ELSE [v EXCEPT ![dst] = v[src]]

\* The value of a field in which dst has what src has.
CopyTo(f, v, src, dst) ==
  IF f \in SetFields THEN IF src \in v THEN v \cup {dst} ELSE v \ {dst}
  ELSE [v EXCEPT ![dst] = v[src]]

Clear(s, fs, l) ==
  [f \in DOMAIN s |-> IF f \in fs THEN Forget(f, s[f], l) ELSE s[f]]

Carry(s, fs, src, dst, moved) ==
  [f \in DOMAIN s |->
     IF f \notin fs THEN s[f]
     ELSE IF moved /\ src # dst THEN Forget(f, CopyTo(f, s[f], src, dst), src)
     ELSE CopyTo(f, s[f], src, dst)]
-----------------------------------------------------------------------------
(***************************************************************************)
(* Ownership.                                                              *)
(***************************************************************************)
\* Every alias to the owners is broken.
InvalidateOwners(s, owners) ==
  IF "owner_alias" \in Fields
  THEN [s EXCEPT !["owner_alias"] = [l \in DOMAIN @ |-> @[l] \ owners]]
  ELSE s

InvalidateOwner(s, owner) == InvalidateOwners(s, {owner})

OwnersOf(s, l) == At(s, "owner_alias", l)

ObjectsFor(s, l) == At(s, "points_to", l)

\* All of the objects go to state h, but for the ones in a state of keep.
SetHeap(s, objs, h, keep) ==
  IF "heap" \in Fields
  THEN [s EXCEPT !["heap"] =
          [o \in DOMAIN @ |-> IF o \in objs /\ @[o] \notin keep THEN h ELSE @[o]]]
  ELSE s

\* A freed object stays freed when a pointer to it escapes.
EscapeLocal(s, l) ==
  Clear(SetHeap(s, ObjectsFor(s, l), "Escaped", {"Reconstituted", "MaybeFreed"}),
        {"points_to", "local_proto", "owner_alias"}, l)

\* RawOwned -> Reconstituted; any other state stays.
Reconstitute(s, l) ==
  SetHeap(s, ObjectsFor(s, l), "Reconstituted",
          {"Reconstituted", "MaybeFreed", "Escaped", Absent})

\* A fresh allocation of call site obj; the update is strong.
Allocate(s, dest, obj) == Put(Put(s, "points_to", dest, {obj}), "heap", obj, "RawOwned")

PtrIsRawOwned(s, l) ==
  ObjectsFor(s, l) # {} /\ \A o \in ObjectsFor(s, l) : At(s, "heap", o) = "RawOwned"

FreedKind(s, l) ==
  LET states == {At(s, "heap", o) : o \in ObjectsFor(s, l)} IN
  IF states \cap {"Reconstituted", "MaybeFreed"} = {} THEN "NotFreed"
  ELSE IF states = {"Reconstituted"} THEN "Definite" ELSE "Potential"

\* (mutant) A dropped guard passes for a forgotten one.
HasForgottenOrConsumed(s) ==
  \/ "untracked_forget_seen" \in Fields /\ s["untracked_forget_seen"]
  \/ "typestate" \in Fields /\
       \E p \in DOMAIN s["typestate"] : s["typestate"][p] \in {"Forgotten", "Consumed"}

HasForgottenProtocol(s) ==
  \/ "untracked_forget_seen" \in Fields /\ s["untracked_forget_seen"]
  \/ "typestate" \in Fields /\ \E p \in DOMAIN s["typestate"] : s["typestate"][p] = "Forgotten"

\* (mutant) A guard that was dropped on one path only is no hazard.
HasConsumedProtocol(s) ==
  "typestate" \in Fields /\ \E p \in DOMAIN s["typestate"] : s["typestate"][p] = "Consumed"

HasHazardProtocol(s) ==
  "typestate" \in Fields /\
    \E p \in DOMAIN s["typestate"] : s["typestate"][p] \in {"Consumed", "MaybeActive"}
-----------------------------------------------------------------------------
(***************************************************************************)
(* Values and collections.                                                 *)
(***************************************************************************)
\* One ref_base hop.
DerefBase(s, l) == IF At(s, "ref_base", l) = Absent THEN l ELSE At(s, "ref_base", l)

MinU64(x, y) == IF x <= y THEN x ELSE y

\* `entry(l).or_insert(u64::MAX)', then the minimum (and its dual).
LowerUpper(s, l, k) ==
  Put(s, "const_upper", l,
      IF At(s, "const_upper", l) = Absent THEN k ELSE MinU64(At(s, "const_upper", l), k))

RaiseLower(s, l, k) ==
  Put(s, "const_lower", l,
      IF At(s, "const_lower", l) = Absent \/ At(s, "const_lower", l) <= k
      THEN k ELSE At(s, "const_lower", l))

LocalIsNonzero(s, l) ==
  \/ Holds(s, "nonzero", l)
  \/ At(s, "const_lower", l) # Absent /\ At(s, "const_lower", l) >= 1

LocalIsBoundedOrEq(s, l) == Holds(s, "bounded", l) \/ Holds(s, "bounded_or_eq", l)

Double(n, i) == 2 * n

PowerOfTwo(k) == ForEach(Double, 1, [i \in 1..k |-> i])

Canon(a, b) == IF a <= b THEN <<a, b>> ELSE <<b, a>>

IndexIsFullyBounded(s, l) ==
  LET comps == At(s, "array_components", l) IN
  IF comps = Absent THEN Holds(s, "bounded", l)
  ELSE comps # <<>> /\ \A i \in DOMAIN comps : Holds(s, "bounded", comps[i])

\* enforce_type_facts
EnforceTypeFacts(s, l) ==
  LET s1 == IF Ty(l).nonzero THEN Insert(s, "nonzero", l) ELSE s IN
  IF Ty(l).max = NoValue THEN s1 ELSE LowerUpper(s1, l, Ty(l).max)
=============================================================================
