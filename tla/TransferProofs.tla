--------------------------- MODULE TransferProofs ---------------------------
(***************************************************************************)
(* The transfer functions give every field of BlockState a value of its    *)
(* declared type, and each leaves alone the fields that are not its own,   *)
(* for every body.                                                         *)
(***************************************************************************)
EXTENDS MirBodies, BlockStateProofs, WellFoundedInduction

(***************************************************************************)
(* Induction.  The loops of the analyser are over statements, arguments    *)
(* and effects; LoopProofs, instantiated with what a loop does for each,   *)
(* says what the loop does.                                                *)
(***************************************************************************)
\* A nonempty set of naturals has a least element.
LEMMA LeastNatural ==
  ASSUME NEW T, T \subseteq Nat, T # {}
  PROVE  \E n \in T : \A k \in T : n <= k
<1> DEFINE R == {p \in Nat \X Nat : p[1] < p[2]}
<1>1. IsWellFoundedOn(R, Nat)
  BY NatLessThanWellFounded DEF OpToRel
<1> HIDE DEF R
<1>2. PICK n \in T : \A y \in T : ~(<<y, n>> \in R)
  BY Zenon, <1>1, WFMin
<1>3. ASSUME NEW k \in T PROVE n <= k
  <2>1. k \in Nat /\ n \in Nat /\ ~(<<k, n>> \in R)
    BY <1>2
  <2>2. QED
    BY <2>1 DEF R
<1>4. QED
  BY <1>3

\* Induction up to k, with the induction hypothesis given as a set.
LEMMA InductionUpTo ==
  \A k \in Nat : \A N : 0 \in N /\ (\A i \in 0..(k - 1) : i \in N => i + 1 \in N)
                     => \A i \in 0..k : i \in N
<1>1. SUFFICES ASSUME NEW n \in Nat, NEW N, 0 \in N, \A i \in 0..(n - 1) : i \in N => i + 1 \in N
               PROVE  \A i \in 0..n : i \in N
  OBVIOUS
<1> DEFINE B == {i \in 0..n : i \notin N}
<1>2. SUFFICES ASSUME B # {} PROVE FALSE
  OBVIOUS
<1>3. PICK k \in B : \A j \in B : k <= j
  <2>1. B \subseteq Nat
    OBVIOUS
  <2> HIDE DEF B
  <2>2. QED
    BY Zenon, <1>2, <2>1, LeastNatural
<1>4. k # 0 /\ k - 1 \in 0..(n - 1) /\ k - 1 \in N
  BY <1>1, <1>3
<1>5. QED
  BY <1>1, <1>3, <1>4
-----------------------------------------------------------------------------
\* t is a state that differs from s in the fields of F at most.
Changes(s, t, F) == t \in States /\ \A f \in Fields \ F : t[f] = s[f]

\* The maps that have one entry per local.
LocalMaps == (LatticeMaps \cup MayMaps \cup FirstWinsMaps \cup AgreeMaps \cup BoundMaps \cup MustMaps)
             \ {"heap", "typestate", "field_owned"}

EntryType(f) ==
  CASE f \in MayMaps  -> SUBSET ValueType(f)
    [] f \in MustMaps -> (SUBSET ValueType(f)) \cup {Absent}
    [] OTHER          -> ValueType(f) \cup {Absent}
-----------------------------------------------------------------------------
(***************************************************************************)
(* The types of the fields, and of the entries of the maps among them.     *)
(***************************************************************************)
\* The type of a field is given by the declaration of the struct.
LEMMA FieldTypes ==
  ASSUME NEW f \in Fields
  PROVE  /\ f \in SetFields => FieldType(f) = SUBSET KeyType(f)
         /\ f \in Flags => FieldType(f) = BOOLEAN
         /\ f \in LocalMaps => FieldType(f) = [Local -> EntryType(f)]
         /\ f = "heap" => FieldType(f) = [ObjIds -> HeapState \cup {Absent}]
         /\ f = "typestate" => FieldType(f) = [Blocks -> ProtocolState \cup {Absent}]
         /\ f = "field_owned" => FieldType(f) = [Local \X FieldIndex -> SUBSET ObjIds]
<1>1. Key(f) = KeyType(f) /\ Value(f) = ValueType(f)
  BY DeclaredTypes
<1>2. f \in SetFields => FieldType(f) = SUBSET KeyType(f)
  BY <1>1, Disjoint DEF FieldType, SetFields
<1>3. f \in Flags => FieldType(f) = BOOLEAN
  BY Disjoint DEF FieldType
<1>4. f \in LocalMaps => KeyType(f) = Local
  BY DEF LocalMaps, KeyType, PairSets, LatticeMaps, MayMaps, FirstWinsMaps, AgreeMaps, BoundMaps,
         MustMaps
<1>5. ASSUME f \in LocalMaps PROVE FieldType(f) = [Local -> EntryType(f)]
  <2>1. CASE f \in MayMaps
    BY <1>1, <1>4, <1>5, <2>1, Disjoint DEF FieldType, EntryType
  <2>2. CASE f \in MustMaps
    BY <1>1, <1>4, <1>5, <2>2, Disjoint DEF FieldType, EntryType
  <2>3. CASE f \in LatticeMaps \cup FirstWinsMaps \cup AgreeMaps \cup BoundMaps
    BY <1>1, <1>4, <1>5, <2>3, Disjoint DEF FieldType, EntryType
  <2>4. QED
    BY <1>5, <2>1, <2>2, <2>3 DEF LocalMaps
<1>a. f \in {"heap", "typestate"} => FieldType(f) = [KeyType(f) -> ValueType(f) \cup {Absent}]
  <2>1. f \in {"heap", "typestate"} => f \in LatticeMaps
    BY DEF LatticeMaps
  <2>2. QED
    BY <1>1, <2>1, Disjoint DEF FieldType
<1>6. f = "heap" => FieldType(f) = [ObjIds -> HeapState \cup {Absent}]
  <2>1. KeyType("heap") = ObjIds /\ ValueType("heap") = HeapState
    BY DEF KeyType, ValueType, PairSets, BoundMaps, ConstMaps, PairMaps
  <2>2. QED
    BY <1>a, <2>1
<1>7. f = "typestate" => FieldType(f) = [Blocks -> ProtocolState \cup {Absent}]
  <2>1. KeyType("typestate") = Blocks /\ ValueType("typestate") = ProtocolState
    BY DEF KeyType, ValueType, PairSets, BoundMaps, ConstMaps, PairMaps
  <2>2. QED
    BY <1>a, <2>1
<1>8. f = "field_owned" => FieldType(f) = [Local \X FieldIndex -> SUBSET ObjIds]
  BY <1>1, Disjoint DEF FieldType, KeyType, ValueType, MayMaps, PairSets, BoundMaps, ConstMaps,
                             PairMaps
<1>9. QED
  BY Zenon, <1>2, <1>3, <1>5, <1>6, <1>7, <1>8

\* Sets of locals and of pairs of locals.
LEMMA SetTypes ==
  /\ \A f \in PairSets : f \in SetFields /\ KeyType(f) = Local \X Local
  /\ \A f \in SetFields \ PairSets : KeyType(f) = Local
  BY DEF SetFields, PairSets, MaySets, MustSets, KeyType

\* Maps from locals to locals ...
LocalToLocal == {"lt_facts", "ge_facts", "le_facts", "gt_facts", "ref_base", "len_of", "cap_of",
                 "spare_if_true", "spare_if_false", "full_if_true", "full_if_false",
                 "nonzero_if_true", "nonzero_if_false", "finite_if_true", "nan_if_true",
                 "cast_origin", "mu_raw_ptr"}

\* ... and to the rest.
LEMMA EntryTypes ==
  /\ \A f \in LocalToLocal : f \in LocalMaps /\ EntryType(f) = Local \cup {Absent}
  /\ \A f \in PairMaps : f \in LocalMaps /\ EntryType(f) = (Local \X Local) \cup {Absent}
  /\ \A f \in ConstMaps : f \in LocalMaps /\ EntryType(f) = (Local \X U64) \cup {Absent}
  /\ \A f \in BoundMaps : f \in LocalMaps /\ EntryType(f) = U64 \cup {Absent}
  /\ "array_components" \in LocalMaps /\ EntryType("array_components") = Seq(Local) \cup {Absent}
  /\ "points_to" \in LocalMaps /\ EntryType("points_to") = SUBSET ObjIds
  /\ "owner_alias" \in LocalMaps /\ EntryType("owner_alias") = SUBSET Local
  /\ "local_proto" \in LocalMaps /\ EntryType("local_proto") = SUBSET Blocks
  /\ "init" \in LocalMaps /\ EntryType("init") = InitState \cup {Absent}
  /\ "fn_ptr_targets" \in LocalMaps /\ EntryType("fn_ptr_targets") = FnDefs \cup {Absent}
  /\ "active_variant" \in LocalMaps /\ EntryType("active_variant") = FieldIndex \cup {Absent}
  /\ "mu_field_inits" \in LocalMaps /\ EntryType("mu_field_inits") = (SUBSET FieldIndex) \cup {Absent}
<1>1. \A f \in LocalToLocal : f \in LocalMaps /\ EntryType(f) = Local \cup {Absent}
  BY DEF LocalToLocal, LocalMaps, EntryType, ValueType, LatticeMaps, MayMaps, FirstWinsMaps, AgreeMaps,
         BoundMaps, MustMaps, PairMaps, ConstMaps
<1>2. \A f \in PairMaps : f \in LocalMaps /\ EntryType(f) = (Local \X Local) \cup {Absent}
  BY DEF LocalMaps, EntryType, ValueType, LatticeMaps, MayMaps, FirstWinsMaps, BoundMaps, MustMaps,
         PairMaps, ConstMaps
<1>3. \A f \in ConstMaps : f \in LocalMaps /\ EntryType(f) = (Local \X U64) \cup {Absent}
  BY DEF LocalMaps, EntryType, ValueType, MayMaps, FirstWinsMaps, BoundMaps, MustMaps, ConstMaps,
         PairMaps
<1>4. \A f \in BoundMaps : f \in LocalMaps /\ EntryType(f) = U64 \cup {Absent}
  BY DEF LocalMaps, EntryType, ValueType, MayMaps, BoundMaps, MustMaps, ConstMaps, PairMaps
<1>5. {"array_components", "points_to", "owner_alias", "local_proto", "init", "fn_ptr_targets",
       "active_variant", "mu_field_inits"} \subseteq LocalMaps
  BY DEF LocalMaps, LatticeMaps, MayMaps, FirstWinsMaps, AgreeMaps, BoundMaps, MustMaps
<1>6. EntryType("points_to") = SUBSET ObjIds /\ EntryType("owner_alias") = SUBSET Local
      /\ EntryType("local_proto") = SUBSET Blocks
  BY DEF EntryType, ValueType, MayMaps, MustMaps, BoundMaps, PairMaps, ConstMaps
<1>7. EntryType("mu_field_inits") = (SUBSET FieldIndex) \cup {Absent}
  BY DEF EntryType, ValueType, MayMaps, MustMaps, BoundMaps, PairMaps, ConstMaps
<1>8. /\ EntryType("array_components") = Seq(Local) \cup {Absent}
      /\ EntryType("init") = InitState \cup {Absent}
      /\ EntryType("fn_ptr_targets") = FnDefs \cup {Absent}
      /\ EntryType("active_variant") = FieldIndex \cup {Absent}
  BY DEF EntryType, ValueType, MayMaps, MustMaps, BoundMaps, PairMaps, ConstMaps
<1>9. QED
  BY <1>1, <1>2, <1>3, <1>4, <1>5, <1>6, <1>7, <1>8

\* A state has a value of its type for each field, and only that.
LEMMA StateForm ==
  ASSUME NEW s \in States
  PROVE  DOMAIN s = Fields /\ \A f \in Fields : s[f] \in FieldType(f)
  BY DEF States, StatesOver

\* A function on Fields whose values have their fields' types is a BlockState.
LEMMA StateMake ==
  ASSUME NEW t, t = [f \in Fields |-> t[f]], \A f \in Fields : t[f] \in FieldType(f)
  PROVE  t \in States
<1>1. \A f \in Fields : t[f] \in UNION {FieldType(g) : g \in Fields}
  OBVIOUS
<1>2. QED
  BY <1>1 DEF States, StatesOver

\* Doing nothing changes no field: the early returns of the transfer functions.
LEMMA ChangesRefl == ASSUME NEW s \in States, NEW F PROVE Changes(s, s, F)
  BY DEF Changes

\* Two mutations that stay within some fields stay within them one after the other.
LEMMA ChangesTrans ==
  ASSUME NEW s, NEW t, NEW u, NEW F, Changes(s, t, F), Changes(t, u, F)
  PROVE  Changes(s, u, F)
  BY DEF Changes

\* A mutation that stays within some fields stays within more.
LEMMA ChangesWiden ==
  ASSUME NEW s, NEW t, NEW F, NEW G, F \subseteq G, Changes(s, t, F)
  PROVE  Changes(s, t, G)
  BY DEF Changes

\* One field gets a value of its type.
LEMMA UpdateTyped ==
  ASSUME NEW s \in States, NEW f \in Fields, NEW v \in FieldType(f)
  PROVE  Changes(s, [s EXCEPT ![f] = v], {f})
<1> DEFINE t == [s EXCEPT ![f] = v]
<1>1. DOMAIN s = Fields /\ \A g \in Fields : s[g] \in FieldType(g)
  BY StateForm
<1>2. t = [g \in Fields |-> t[g]] /\ \A g \in Fields : t[g] = IF g = f THEN v ELSE s[g]
  BY Zenon, <1>1
<1>3. \A g \in Fields : t[g] \in FieldType(g)
  BY <1>1, <1>2
<1> HIDE DEF t
<1>4. t \in States
  BY <1>2, <1>3, StateMake
<1>5. QED
  BY <1>2, <1>4 DEF Changes, t
-----------------------------------------------------------------------------
(***************************************************************************)
(* Reading and updating a state.                                           *)
(***************************************************************************)
LEMMA AtTyped ==
  ASSUME NEW s \in States, NEW f \in LocalMaps, NEW l \in Local
  PROVE  At(s, f, l) \in EntryType(f)
<1>1. CASE f \in Fields
  <2>1. s[f] \in [Local -> EntryType(f)]
    BY <1>1, StateForm, FieldTypes
  <2>2. QED
    BY <1>1, <2>1 DEF At
<1>2. CASE f \notin Fields
  BY <1>2, Disjoint DEF At, EntryType
<1>3. QED
  BY <1>1, <1>2

\* A map insert or remove keyed by a local writes its own map, with an entry of its type.
LEMMA PutTyped ==
  ASSUME NEW s \in States, NEW f \in LocalMaps, NEW l \in Local, NEW v \in EntryType(f)
  PROVE  Changes(s, Put(s, f, l, v), {f})
<1>1. CASE f \in Fields
  <2>1. FieldType(f) = [Local -> EntryType(f)] /\ DOMAIN s = Fields /\ s[f] \in FieldType(f)
    BY <1>1, StateForm, FieldTypes
  <2>2. [s[f] EXCEPT ![l] = v] \in FieldType(f)
    BY <2>1
  <2>3. Put(s, f, l, v) = [s EXCEPT ![f] = [s[f] EXCEPT ![l] = v]]
    BY <1>1, <2>1 DEF Put
  <2>4. QED
    BY Zenon, <1>1, <2>2, <2>3, UpdateTyped
<1>2. CASE f \notin Fields
  BY <1>2, ChangesRefl DEF Put
<1>3. QED
  BY <1>1, <1>2

\* A set insert writes its own set.
LEMMA InsertTyped ==
  ASSUME NEW s \in States, NEW f \in SetFields, NEW x \in KeyType(f)
  PROVE  Changes(s, Insert(s, f, x), {f})
<1>1. CASE f \in Fields
  <2>1. DOMAIN s = Fields /\ s[f] \in SUBSET KeyType(f)
    BY <1>1, StateForm, FieldTypes
  <2>2. s[f] \cup {x} \in FieldType(f)
    BY <1>1, <2>1, FieldTypes
  <2>3. Insert(s, f, x) = [s EXCEPT ![f] = s[f] \cup {x}]
    BY <1>1, <2>1 DEF Insert
  <2>4. QED
    BY Zenon, <1>1, <2>2, <2>3, UpdateTyped
<1>2. CASE f \notin Fields
  BY <1>2, ChangesRefl DEF Insert
<1>3. QED
  BY <1>1, <1>2

\* Inserting or removing, as a test decides, writes its own set.
LEMMA SetToTyped ==
  ASSUME NEW s \in States, NEW f \in SetFields, NEW x \in KeyType(f), NEW b
  PROVE  Changes(s, SetTo(s, f, x, b), {f})
<1> DEFINE v == IF b THEN s[f] \cup {x} ELSE s[f] \ {x}
<1>1. CASE f \in Fields
  <2>1. DOMAIN s = Fields /\ s[f] \in SUBSET KeyType(f)
    BY <1>1, StateForm, FieldTypes
  <2>2. v \in FieldType(f)
    BY <1>1, <2>1, FieldTypes
  <2>3. SetTo(s, f, x, b) = [s EXCEPT ![f] = v]
    BY <1>1, <2>1 DEF SetTo
  <2>4. QED
    BY Zenon, <1>1, <2>2, <2>3, UpdateTyped
<1>2. CASE f \notin Fields
  BY <1>2, ChangesRefl DEF SetTo
<1>3. QED
  BY <1>1, <1>2

\* Setting one of the path flags writes that flag.
LEMMA RaiseTyped ==
  ASSUME NEW s \in States, NEW f \in Flags
  PROVE  Changes(s, Raise(s, f), {f})
<1>1. CASE f \in Fields
  <2>1. TRUE \in FieldType(f)
    BY Zenon, <1>1, FieldTypes
  <2>2. QED
    BY Zenon, <1>1, <2>1, UpdateTyped DEF Raise
<1>2. CASE f \notin Fields
  BY <1>2, ChangesRefl DEF Raise
<1>3. QED
  BY <1>1, <1>2

\* The fields that say something about single locals.
PerLocal == SetFields \cup LocalMaps \cup {"field_owned"}

\* Removing a local from one field leaves a value of the field's type.
LEMMA ForgetTyped ==
  ASSUME NEW f \in Fields \cap PerLocal, NEW v \in FieldType(f), NEW l \in Local
  PROVE  Forget(f, v, l) \in FieldType(f)
<1>1. CASE f \in PairSets
  <2>1. Forget(f, v, l) = {p \in v : l \notin {p[1], p[2]}}
    BY <1>1 DEF Forget, PairSets, SetFields, MaySets, MustSets, MayMaps
  <2>2. QED
    BY <1>1, <2>1, FieldTypes, SetTypes
<1>2. CASE f \in SetFields \ PairSets
  <2>1. f \notin MayMaps /\ f # "field_owned"
    BY <1>2 DEF SetFields, MaySets, MustSets, MayMaps
  <2>2. Forget(f, v, l) = v \ {l}
    BY <1>2, <2>1 DEF Forget
  <2>3. QED
    BY <1>2, <2>2, FieldTypes
<1>3. CASE f = "field_owned"
  <2>1. Forget(f, v, l) = [k \in DOMAIN v |-> IF k[1] = l THEN {} ELSE v[k]]
    BY <1>3 DEF Forget, PairSets, SetFields, MaySets, MustSets
  <2>2. QED
    BY <1>3, <2>1, FieldTypes
<1>4. CASE f \in LocalMaps
  <2>1. FieldType(f) = [Local -> EntryType(f)] /\ f \notin SetFields /\ f \notin PairSets
        /\ f # "field_owned"
    BY <1>4, FieldTypes, SetTypes, Disjoint DEF LocalMaps, SetFields
  <2>2. CASE f \in MayMaps
    <3>1. Forget(f, v, l) = [v EXCEPT ![l] = {}]
      BY <2>1, <2>2 DEF Forget
    <3>2. {} \in EntryType(f)
      BY <2>2 DEF EntryType
    <3>3. QED
      BY <2>1, <3>1, <3>2
  <2>3. CASE f \notin MayMaps
    <3>1. Forget(f, v, l) = [v EXCEPT ![l] = Absent]
      BY <2>1, <2>3 DEF Forget
    <3>2. Absent \in EntryType(f)
      BY <2>3 DEF EntryType
    <3>3. QED
      BY <2>1, <3>1, <3>2
  <2>4. QED
    BY <2>2, <2>3
<1>5. QED
  BY <1>1, <1>2, <1>3, <1>4 DEF PerLocal

\* A pointwise update that keeps the types.
LEMMA RebuildTyped ==
  ASSUME NEW s \in States, NEW F, NEW t, t = [f \in DOMAIN s |-> t[f]],
         \A f \in Fields : IF f \in F THEN t[f] \in FieldType(f) ELSE t[f] = s[f]
  PROVE  Changes(s, t, F)
<1>1. DOMAIN s = Fields /\ \A f \in Fields : s[f] \in FieldType(f)
  BY StateForm
<1>2. \A f \in Fields : t[f] \in FieldType(f)
  BY <1>1
<1>3. t \in States
  BY <1>1, <1>2, StateMake
<1>4. QED
  BY <1>3 DEF Changes

\* The kill of a reassigned local writes only the fields it is killed in.
LEMMA ClearTyped ==
  ASSUME NEW s \in States, NEW F, F \subseteq PerLocal, NEW l \in Local
  PROVE  Changes(s, Clear(s, F, l), F)
<1> DEFINE t == Clear(s, F, l)
<1>1. DOMAIN s = Fields /\ \A f \in Fields : s[f] \in FieldType(f)
  BY StateForm
<1>2. t = [f \in DOMAIN s |-> t[f]]
      /\ \A f \in Fields : t[f] = IF f \in F THEN Forget(f, s[f], l) ELSE s[f]
  BY <1>1 DEF Clear
<1> HIDE DEF t
<1>3. ASSUME NEW f \in Fields PROVE IF f \in F THEN t[f] \in FieldType(f) ELSE t[f] = s[f]
  BY <1>1, <1>2, ForgetTyped
<1>4. Changes(s, t, F)
  BY <1>2, <1>3, RebuildTyped
<1>5. QED
  BY <1>4 DEF t

\* What a copy carries is known of one local at a time.
LEMMA CopyToTyped ==
  ASSUME NEW f \in Fields, f \in (SetFields \ PairSets) \cup LocalMaps, NEW v \in FieldType(f),
         NEW src \in Local, NEW dst \in Local
  PROVE  CopyTo(f, v, src, dst) \in FieldType(f)
<1>1. CASE f \in SetFields \ PairSets
  BY <1>1, FieldTypes, SetTypes DEF CopyTo
<1>2. CASE f \in LocalMaps
  <2>1. FieldType(f) = [Local -> EntryType(f)] /\ f \notin SetFields
    BY <1>2, FieldTypes, Disjoint DEF LocalMaps, SetFields
  <2>2. QED
    BY <2>1 DEF CopyTo
<1>3. QED
  BY <1>1, <1>2

\* The copy of the source's facts to the destination of an assignment writes only the fields it
\* follows.
LEMMA CarryTyped ==
  ASSUME NEW s \in States, NEW F, F \subseteq (SetFields \ PairSets) \cup LocalMaps,
         NEW src \in Local, NEW dst \in Local, NEW moved
  PROVE  Changes(s, Carry(s, F, src, dst, moved), F)
<1> DEFINE t == Carry(s, F, src, dst, moved)
<1>1. DOMAIN s = Fields /\ \A f \in Fields : s[f] \in FieldType(f)
  BY StateForm
<1>2. /\ t = [f \in DOMAIN s |-> t[f]]
      /\ \A f \in Fields \ F : t[f] = s[f]
      /\ \A f \in Fields \cap F : t[f] \in {CopyTo(f, s[f], src, dst),
                                            Forget(f, CopyTo(f, s[f], src, dst), src)}
  BY <1>1 DEF Carry
<1> HIDE DEF t
<1>3. ASSUME NEW f \in Fields \cap F PROVE t[f] \in FieldType(f)
  <2>1. CopyTo(f, s[f], src, dst) \in FieldType(f)
    BY <1>1, CopyToTyped
  <2>2. Forget(f, CopyTo(f, s[f], src, dst), src) \in FieldType(f)
    BY <2>1, ForgetTyped DEF PerLocal
  <2>3. QED
    BY <1>2, <2>1, <2>2
<1>4. Changes(s, t, F)
  BY <1>2, <1>3, RebuildTyped
<1>5. QED
  BY <1>4 DEF t
-----------------------------------------------------------------------------
(***************************************************************************)
(* The same, as the next of a series of updates that keep to the fields F. *)
(***************************************************************************)
LEMMA ThenChanges ==
  ASSUME NEW r, NEW s, NEW t, NEW F, NEW G, Changes(r, s, F), Changes(s, t, G), G \subseteq F
  PROVE  Changes(r, t, F)
  BY DEF Changes

\* A map insert after other mutations.
LEMMA ThenPut ==
  ASSUME NEW r, NEW s, NEW F, Changes(r, s, F), NEW f \in LocalMaps, f \in F, NEW l \in Local,
         NEW v \in EntryType(f)
  PROVE  Changes(r, Put(s, f, l, v), F)
<1>1. Changes(s, Put(s, f, l, v), {f})
  BY PutTyped DEF Changes
<1>2. QED
  BY <1>1, ThenChanges

\* A set insert after other mutations.
LEMMA ThenInsert ==
  ASSUME NEW r, NEW s, NEW F, Changes(r, s, F), NEW f \in SetFields, f \in F, NEW x \in KeyType(f)
  PROVE  Changes(r, Insert(s, f, x), F)
<1>1. Changes(s, Insert(s, f, x), {f})
  BY InsertTyped DEF Changes
<1>2. QED
  BY <1>1, ThenChanges

\* A decided insert or removal after other mutations.
LEMMA ThenSetTo ==
  ASSUME NEW r, NEW s, NEW F, Changes(r, s, F), NEW f \in SetFields, f \in F, NEW x \in KeyType(f),
         NEW b
  PROVE  Changes(r, SetTo(s, f, x, b), F)
<1>1. Changes(s, SetTo(s, f, x, b), {f})
  BY SetToTyped DEF Changes
<1>2. QED
  BY <1>1, ThenChanges

\* Setting a path flag after other mutations.
LEMMA ThenRaise ==
  ASSUME NEW r, NEW s, NEW F, Changes(r, s, F), NEW f \in Flags, f \in F
  PROVE  Changes(r, Raise(s, f), F)
<1>1. Changes(s, Raise(s, f), {f})
  BY RaiseTyped DEF Changes
<1>2. QED
  BY <1>1, ThenChanges

\* A kill after other mutations.
LEMMA ThenClear ==
  ASSUME NEW r, NEW s, NEW F, Changes(r, s, F), NEW G, G \subseteq PerLocal, G \subseteq F,
         NEW l \in Local
  PROVE  Changes(r, Clear(s, G, l), F)
<1>1. Changes(s, Clear(s, G, l), G)
  BY ClearTyped DEF Changes
<1>2. QED
  BY <1>1, ThenChanges
-----------------------------------------------------------------------------
(***************************************************************************)
(* The helper methods of BlockState.                                       *)
(***************************************************************************)
LEMMA OwnersTyped ==
  ASSUME NEW s \in States, NEW l \in Local PROVE OwnersOf(s, l) \subseteq Local
  BY AtTyped, EntryTypes DEF OwnersOf

\* A local points to heap objects of the body.
LEMMA ObjectsTyped ==
  ASSUME NEW s \in States, NEW l \in Local PROVE ObjectsFor(s, l) \subseteq ObjIds
  BY AtTyped, EntryTypes DEF ObjectsFor

\* The base a dereference is resolved to is a local.
LEMMA DerefBaseTyped ==
  ASSUME NEW s \in States, NEW l \in Local PROVE DerefBase(s, l) \in Local
<1>1. At(s, "ref_base", l) \in Local \cup {Absent}
  BY AtTyped, EntryTypes DEF LocalToLocal
<1>2. QED
  BY <1>1 DEF DerefBase

\* invalidate_owners only takes entries out of owner_alias.
LEMMA ThenInvalidateOwners ==
  ASSUME NEW r, NEW s, NEW F, Changes(r, s, F), "owner_alias" \in F, NEW owners
  PROVE  Changes(r, InvalidateOwners(s, owners), F)
<1>1. s \in States
  BY DEF Changes
<1>2. CASE "owner_alias" \in Fields
  <2> DEFINE v == [l \in DOMAIN s["owner_alias"] |-> s["owner_alias"][l] \ owners]
  <2>1. /\ FieldType("owner_alias") = [Local -> SUBSET Local]
        /\ DOMAIN s = Fields /\ s["owner_alias"] \in FieldType("owner_alias")
    BY <1>1, <1>2, StateForm, FieldTypes, EntryTypes
  <2>2. v \in FieldType("owner_alias")
    BY <2>1
  <2>3. InvalidateOwners(s, owners) = [s EXCEPT !["owner_alias"] = v]
    BY <1>2, <2>1 DEF InvalidateOwners
  <2> HIDE DEF v
  <2>4. Changes(s, InvalidateOwners(s, owners), {"owner_alias"})
    BY Zenon, <1>1, <1>2, <2>2, <2>3, UpdateTyped
  <2>5. QED
    BY <2>4, ThenChanges
<1>3. CASE "owner_alias" \notin Fields
  BY <1>3 DEF InvalidateOwners
<1>4. QED
  BY <1>2, <1>3

\* Moving some objects to a heap state writes only the heap map.
LEMMA ThenSetHeap ==
  ASSUME NEW r, NEW s, NEW F, Changes(r, s, F), "heap" \in F, NEW objs, NEW h \in HeapState, NEW keep
  PROVE  Changes(r, SetHeap(s, objs, h, keep), F)
<1>1. s \in States
  BY DEF Changes
<1>2. CASE "heap" \in Fields
  <2> DEFINE v == [o \in DOMAIN s["heap"] |->
                     IF o \in objs /\ s["heap"][o] \notin keep THEN h ELSE s["heap"][o]]
  <2>1. /\ FieldType("heap") = [ObjIds -> HeapState \cup {Absent}]
        /\ DOMAIN s = Fields /\ s["heap"] \in FieldType("heap")
    BY <1>1, <1>2, StateForm, FieldTypes
  <2>2. v \in FieldType("heap")
    BY <2>1
  <2>3. SetHeap(s, objs, h, keep) = [s EXCEPT !["heap"] = v]
    BY <1>2, <2>1 DEF SetHeap
  <2> HIDE DEF v
  <2>4. Changes(s, SetHeap(s, objs, h, keep), {"heap"})
    BY Zenon, <1>1, <1>2, <2>2, <2>3, UpdateTyped
  <2>5. QED
    BY <2>4, ThenChanges
<1>3. CASE "heap" \notin Fields
  BY <1>3 DEF SetHeap
<1>4. QED
  BY <1>2, <1>3

\* Moving some protocol objects to a state writes only the typestate map.
LEMMA ThenSetProtocols ==
  ASSUME NEW r, NEW s, NEW F, Changes(r, s, F), "typestate" \in F, NEW protos, NEW p \in ProtocolState
  PROVE  Changes(r, SetProtocols(s, protos, p), F)
<1>1. s \in States
  BY DEF Changes
<1>2. CASE "typestate" \in Fields
  <2> DEFINE v == [k \in DOMAIN s["typestate"] |->
                     IF k \in protos THEN p ELSE s["typestate"][k]]
  <2>1. /\ FieldType("typestate") = [Blocks -> ProtocolState \cup {Absent}]
        /\ DOMAIN s = Fields /\ s["typestate"] \in FieldType("typestate")
    BY <1>1, <1>2, StateForm, FieldTypes
  <2>2. v \in FieldType("typestate")
    BY <2>1
  <2>3. SetProtocols(s, protos, p) = [s EXCEPT !["typestate"] = v]
    BY <1>2, <2>1 DEF SetProtocols
  <2> HIDE DEF v
  <2>4. Changes(s, SetProtocols(s, protos, p), {"typestate"})
    BY Zenon, <1>1, <1>2, <2>2, <2>3, UpdateTyped
  <2>5. QED
    BY <2>4, ThenChanges
<1>3. CASE "typestate" \notin Fields
  BY <1>3 DEF SetProtocols
<1>4. QED
  BY <1>2, <1>3

\* What a redefinition clears is known of single locals.
LEMMA ClearedPerLocal ==
  /\ Basics \subseteq PerLocal /\ CompareFacts \subseteq PerLocal
  /\ Redefined \subseteq PerLocal /\ Reassigned \subseteq PerLocal
  /\ {"points_to", "local_proto", "owner_alias", "init", "buf_written"} \subseteq PerLocal
<1>1. {"points_to", "local_proto", "owner_alias", "init", "buf_written"} \subseteq PerLocal
  BY EntryTypes DEF PerLocal, SetFields, MustSets
<1>2. CompareFacts \subseteq PerLocal
  BY EntryTypes DEF CompareFacts, LocalToLocal, PerLocal
<1>3. Basics \subseteq PerLocal
  BY <1>1, <1>2 DEF Basics, PerLocal, SetFields, MustSets
<1>4. CollectionFacts \subseteq PerLocal
  BY EntryTypes DEF CollectionFacts, LocalToLocal, PerLocal, SetFields, MustSets
<1>5. RangeFacts \subseteq PerLocal
  BY EntryTypes DEF RangeFacts, LocalToLocal, PerLocal, SetFields, MustSets, BoundMaps, ConstMaps
<1>6. PairFacts \subseteq PerLocal
  BY EntryTypes DEF PairFacts, LocalToLocal, PerLocal, SetFields, MustSets, MaySets, PairMaps
<1>7. Redefined \subseteq PerLocal
  BY <1>4, <1>5, <1>6 DEF Redefined
<1>8. Reassigned \subseteq PerLocal
  BY <1>7, EntryTypes DEF Reassigned, LocalToLocal, PerLocal, SetFields, MaySets
<1>9. QED
  BY <1>1, <1>2, <1>3, <1>7, <1>8

\* escape_local writes the heap, what the local points to, its protocols and its owners.
LEMMA ThenEscapeLocal ==
  ASSUME NEW r, NEW s, NEW F, Changes(r, s, F), NEW l \in Local,
         {"heap", "points_to", "local_proto", "owner_alias"} \subseteq F
  PROVE  Changes(r, EscapeLocal(s, l), F)
<1> DEFINE s1 == SetHeap(s, ObjectsFor(s, l), "Escaped", {"Reconstituted", "MaybeFreed"})
<1>1. Changes(r, s1, F)
  BY ThenSetHeap DEF HeapState
<1> HIDE DEF s1
<1>2. Changes(r, Clear(s1, {"points_to", "local_proto", "owner_alias"}, l), F)
  BY <1>1, ThenClear, ClearedPerLocal
<1>3. QED
  BY <1>2 DEF EscapeLocal, s1

\* A reconstituted pointer's objects change state in the heap alone.
LEMMA ThenReconstitute ==
  ASSUME NEW r, NEW s, NEW F, Changes(r, s, F), NEW l \in Local, "heap" \in F
  PROVE  Changes(r, Reconstitute(s, l), F)
  BY ThenSetHeap DEF Reconstitute, HeapState

\* A fresh allocation writes the heap and what the destination points to.
LEMMA ThenAllocate ==
  ASSUME NEW r, NEW s, NEW F, Changes(r, s, F), NEW l \in Local, NEW o \in ObjIds,
         {"heap", "points_to"} \subseteq F
  PROVE  Changes(r, Allocate(s, l, o), F)
<1> DEFINE s1 == Put(s, "points_to", l, {o})
<1>1. Changes(r, s1, F)
  BY ThenPut, EntryTypes
<1> HIDE DEF s1
<1>2. s1 \in States
  BY <1>1 DEF Changes
<1>3. CASE "heap" \in Fields
  <2>1. /\ FieldType("heap") = [ObjIds -> HeapState \cup {Absent}]
        /\ DOMAIN s1 = Fields /\ s1["heap"] \in FieldType("heap")
    BY <1>2, <1>3, StateForm, FieldTypes
  <2>2. [s1["heap"] EXCEPT ![o] = "RawOwned"] \in FieldType("heap")
    BY <2>1 DEF HeapState
  <2>3. Put(s1, "heap", o, "RawOwned") =
          [s1 EXCEPT !["heap"] = [s1["heap"] EXCEPT ![o] = "RawOwned"]]
    BY <1>3, <2>1 DEF Put
  <2>4. Changes(s1, Put(s1, "heap", o, "RawOwned"), {"heap"})
    BY <1>2, <1>3, <2>2, <2>3, UpdateTyped
  <2>5. QED
    BY <1>1, <2>4, ThenChanges DEF Allocate, s1
<1>4. CASE "heap" \notin Fields
  BY <1>1, <1>4 DEF Allocate, Put, s1
<1>5. QED
  BY <1>3, <1>4

\* A new points-to set is written with the basic facts of its local killed.
LEMMA ThenPointTo ==
  ASSUME NEW r, NEW s, NEW F, Changes(r, s, F), NEW l \in Local, NEW objs \in SUBSET ObjIds,
         {"points_to"} \cup Basics \subseteq F
  PROVE  Changes(r, PointTo(s, l, objs), F)
<1>1. Changes(r, Put(s, "points_to", l, objs), F)
  BY ThenPut, EntryTypes
<1>2. QED
  BY <1>1, ThenClear, ClearedPerLocal DEF PointTo

\* A bound never leaves the range of a u64.
LEMMA ThenLowerUpper ==
  ASSUME NEW r, NEW s, NEW F, Changes(r, s, F), NEW l \in Local, NEW k \in U64, "const_upper" \in F
  PROVE  Changes(r, LowerUpper(s, l, k), F)
<1> DEFINE v == IF At(s, "const_upper", l) = Absent THEN k ELSE MinU64(At(s, "const_upper", l), k)
<1>1. "const_upper" \in LocalMaps /\ EntryType("const_upper") = U64 \cup {Absent}
  BY EntryTypes DEF BoundMaps
<1>2. At(s, "const_upper", l) \in U64 \cup {Absent}
  BY <1>1, AtTyped DEF Changes
<1>3. v \in EntryType("const_upper")
  BY <1>1, <1>2 DEF MinU64
<1> HIDE DEF v
<1>4. Changes(r, Put(s, "const_upper", l, v), F)
  BY <1>1, <1>3, ThenPut
<1>5. QED
  BY <1>4 DEF LowerUpper, v

\* Raising a lower bound leaves it a u64.
LEMMA ThenRaiseLower ==
  ASSUME NEW r, NEW s, NEW F, Changes(r, s, F), NEW l \in Local, NEW k \in U64, "const_lower" \in F
  PROVE  Changes(r, RaiseLower(s, l, k), F)
<1> DEFINE v == IF At(s, "const_lower", l) = Absent \/ At(s, "const_lower", l) <= k
                THEN k ELSE At(s, "const_lower", l)
<1>1. "const_lower" \in LocalMaps /\ EntryType("const_lower") = U64 \cup {Absent}
  BY EntryTypes DEF BoundMaps
<1>2. At(s, "const_lower", l) \in U64 \cup {Absent}
  BY <1>1, AtTyped DEF Changes
<1>3. v \in EntryType("const_lower")
  BY <1>1, <1>2
<1> HIDE DEF v
<1>4. Changes(r, Put(s, "const_lower", l, v), F)
  BY <1>1, <1>3, ThenPut
<1>5. QED
  BY <1>4 DEF RaiseLower, v

\* The facts a NonZero or bounded type gives its local are a set insert and a u64 bound.
LEMMA ThenEnforceTypeFacts ==
  ASSUME NEW r, NEW s, NEW F, Changes(r, s, F), NEW l \in Local, {"nonzero", "const_upper"} \subseteq F
  PROVE  Changes(r, EnforceTypeFacts(s, l), F)
<1> DEFINE s1 == IF Ty(l).nonzero THEN Insert(s, "nonzero", l) ELSE s
<1>1. "nonzero" \in SetFields /\ KeyType("nonzero") = Local
  BY SetTypes DEF SetFields, MustSets, PairSets
<1>2. Changes(r, s1, F)
  BY <1>1, ThenInsert
<1> HIDE DEF s1
<1>3. Ty(l).max # NoValue => Ty(l).max \in U64
  BY TyAssumption
<1>4. QED
  BY <1>2, <1>3, ThenLowerUpper DEF EnforceTypeFacts, s1
-----------------------------------------------------------------------------
(***************************************************************************)
(* The parts of statements and terminators.                                *)
(***************************************************************************)
LEMMA PlaceParts ==
  ASSUME NEW p \in Places
  PROVE  /\ p.local \in Local /\ p.derefs \in 0..2
         /\ p.field \in FieldIndex \cup {NoField} /\ SimpleField(p) \in FieldIndex \cup {NoField}
  BY DEF Places, SimpleField

\* An operand is a constant or has a place, and its local and its value are what its readers take
\* them for.
LEMMA OperandParts ==
  ASSUME NEW op \in Operands
  PROVE  /\ op.kind # "Constant" => op.place \in Places
         /\ OperandLocal(op) \in Local \cup {NoLocal} /\ BaseLocal(op) \in Local \cup {NoLocal}
         /\ ConstU64(op) \in U64 \cup {NoValue}
         /\ OperandLocal(op) # NoLocal => op.kind # "Constant" /\ op.place.local = OperandLocal(op)
<1>1. op.kind # "Constant" => op.place \in Places
  BY DEF Operands
<1>2. op.kind = "Constant" => op.val \in U64 \cup {NoValue}
  BY DEF Operands
<1>3. QED
  BY <1>1, <1>2, PlaceParts DEF OperandLocal, BaseLocal, ConstU64

\* Each kind of rvalue has the operands and places that its arm of the match reads.
LEMMA RvalueParts ==
  ASSUME NEW rv \in Rvalues
  PROVE  /\ rv.kind \in {"Use", "PtrMetadata", "Cast"} => rv.op \in Operands
         /\ rv.kind \in {"Ref", "RawPtr"} => rv.place \in Places
         /\ rv.kind = "Cast" /\ rv.cast = "ReifyFnPointer" => rv.fn \in FnDefs
         /\ rv.kind = "BinaryOp" => rv.o \in BinOps /\ rv.a \in Operands /\ rv.b \in Operands
         /\ rv.kind = "Aggregate" => rv.active \in FieldIndex \cup {NoField} /\ rv.ops \in Seq(Operands)
<1>1. rv.kind \in {"Use", "PtrMetadata", "Cast"} => rv.op \in Operands
  BY DEF Rvalues
<1>2. rv.kind \in {"Ref", "RawPtr"} => rv.place \in Places
  BY DEF Rvalues
<1>3. rv.kind = "Cast" /\ rv.cast = "ReifyFnPointer" => rv.fn \in FnDefs
  BY DEF Rvalues, CastKinds
<1>4. rv.kind = "BinaryOp" => rv.o \in BinOps /\ rv.a \in Operands /\ rv.b \in Operands
  BY DEF Rvalues
<1>5. rv.kind = "Aggregate" => rv.active \in FieldIndex \cup {NoField} /\ rv.ops \in Seq(Operands)
  BY DEF Rvalues
<1>6. QED
  BY <1>1, <1>2, <1>3, <1>4, <1>5

\* The local a plain use or a cast reads.
LEMMA SourceParts ==
  ASSUME NEW rv \in Rvalues
  PROVE  /\ RvalueLocal(rv) \in Local \cup {NoLocal} /\ SourcePlace(rv) \subseteq Places
         /\ IsMove(rv) => rv.op.place \in Places
<1>1. RvalueLocal(rv) \in Local \cup {NoLocal}
  BY RvalueParts, OperandParts DEF RvalueLocal
<1>2. SourcePlace(rv) \subseteq Places
  <2>1. CASE rv.kind \in {"Use", "Cast"} /\ rv.op.kind # "Constant"
    BY <2>1, RvalueParts, OperandParts DEF SourcePlace
  <2>2. CASE rv.kind \in {"Ref", "RawPtr"}
    BY <2>2, RvalueParts DEF SourcePlace
  <2>3. CASE ~(rv.kind \in {"Use", "Cast"} /\ rv.op.kind # "Constant")
             /\ rv.kind \notin {"Ref", "RawPtr"}
    BY <2>3 DEF SourcePlace
  <2>4. QED
    BY <2>1, <2>2, <2>3
<1>3. IsMove(rv) => rv.op.place \in Places
  BY RvalueParts, OperandParts DEF IsMove
<1>4. QED
  BY <1>1, <1>2, <1>3

\* The locals read from a call's arguments are locals of the body.
LEMMA ArgParts ==
  ASSUME NEW args \in Seq(Operands)
  PROVE  /\ \A n \in Nat : NthArgLocal(args, n) \in Local \cup {NoLocal}
         /\ FirstArgLocal(args) \in Local \cup {NoLocal}
         /\ FirstArgBaseLocal(args) \in Local \cup {NoLocal}
         /\ ArgLocals(args) \subseteq Local
<1>1. \A n \in DOMAIN args : args[n] \in Operands
  OBVIOUS
<1>2. \A n \in Nat : NthArgLocal(args, n) \in Local \cup {NoLocal}
  BY <1>1, OperandParts DEF NthArgLocal
<1>3. FirstArgBaseLocal(args) \in Local \cup {NoLocal}
  BY <1>1, OperandParts DEF FirstArgBaseLocal
<1>4. ArgLocals(args) \subseteq Local
  BY <1>1, OperandParts DEF ArgLocals
<1>5. QED
  BY <1>2, <1>3, <1>4 DEF FirstArgLocal
-----------------------------------------------------------------------------
(***************************************************************************)
(* Assignments.                                                            *)
(***************************************************************************)
LEMMA UpdateOwnerAliasTyped ==
  ASSUME NEW s \in States, NEW dst \in Local, NEW rv \in Rvalues
  PROVE  Changes(s, UpdateOwnerAlias(s, dst, rv), {"owner_alias"})
<1> DEFINE v == IF rv.kind = "Aggregate"
                THEN UNION {OwnersOf(s, OperandLocal(rv.ops[i])) :
                              i \in {j \in DOMAIN rv.ops : OperandLocal(rv.ops[j]) # NoLocal}}
                ELSE IF IsScalar(dst) THEN {}
                ELSE UNION {PlaceOwners(s, p) : p \in SourcePlace(rv)}
<1>1. \A p \in Places : PlaceOwners(s, p) \subseteq Local
  BY PlaceParts, OwnersTyped DEF PlaceOwners
<1>2. v \in SUBSET Local
  <2>1. CASE rv.kind = "Aggregate"
    <3>1. \A i \in DOMAIN rv.ops : OperandLocal(rv.ops[i]) \in Local \cup {NoLocal}
      BY <2>1, RvalueParts, OperandParts
    <3>2. \A i \in DOMAIN rv.ops : OperandLocal(rv.ops[i]) # NoLocal =>
            OwnersOf(s, OperandLocal(rv.ops[i])) \subseteq Local
      BY <3>1, OwnersTyped
    <3>3. QED
      BY <2>1, <3>2
  <2>2. CASE rv.kind # "Aggregate"
    BY <1>1, <2>2, SourceParts
  <2>3. QED
    BY <2>1, <2>2
<1> HIDE DEF v
<1>3. Changes(s, Put(s, "owner_alias", dst, v), {"owner_alias"})
  BY <1>2, PutTyped, EntryTypes
<1>4. QED
  BY <1>3 DEF UpdateOwnerAlias, v

\* The function-pointer table is all that recording a reified function writes.
LEMMA UpdateFnPtrTargetTyped ==
  ASSUME NEW s \in States, NEW dst \in Local, NEW rv \in Rvalues
  PROVE  Changes(s, UpdateFnPtrTarget(s, dst, rv), {"fn_ptr_targets"})
<1> DEFINE v == IF rv.kind = "Cast" /\ rv.cast = "ReifyFnPointer" THEN rv.fn
                ELSE IF IsPlainUse(rv) THEN At(s, "fn_ptr_targets", RvalueLocal(rv))
                ELSE Absent
<1>1. IsPlainUse(rv) => At(s, "fn_ptr_targets", RvalueLocal(rv)) \in FnDefs \cup {Absent}
  BY SourceParts, AtTyped, EntryTypes DEF IsPlainUse
<1>2. v \in FnDefs \cup {Absent}
  BY <1>1, RvalueParts
<1> HIDE DEF v
<1>3. Changes(s, Put(s, "fn_ptr_targets", dst, v), {"fn_ptr_targets"})
  BY <1>2, PutTyped, EntryTypes
<1>4. QED
  BY <1>3 DEF UpdateFnPtrTarget, v

\* What the right-hand side of an assignment may change, copies and pointer
\* casts apart.
EvalFields == (Redefined \ {"fd_origin", "fd_consumed"}) \cup Basics
              \cup {"points_to", "active_variant", "mul_overflow"}

\* The fields that evaluating an rvalue writes, by group.
LEMMA EvalHas ==
  /\ Basics \subseteq EvalFields /\ CompareFacts \subseteq EvalFields
  /\ CompareFacts \subseteq LocalToLocal
  /\ PairMaps \subseteq EvalFields /\ ConstMaps \subseteq EvalFields /\ BoundMaps \subseteq EvalFields
  /\ {"points_to", "active_variant", "mul_overflow", "array_components", "cast_origin", "nonzero",
      "spare_if_true", "spare_if_false", "full_if_true", "full_if_false", "nonzero_if_true",
      "nonzero_if_false", "ref_base", "len_of"} \subseteq EvalFields
  BY DEF EvalFields, Redefined, CollectionFacts, RangeFacts, PairFacts, Basics, CompareFacts,
         LocalToLocal, PairMaps, ConstMaps, BoundMaps

\* The entry of one local for another is a local.
LEMMA LocalEntry ==
  ASSUME NEW s \in States, NEW f \in LocalToLocal, NEW l \in Local
  PROVE  At(s, f, l) \in Local \cup {Absent}
  BY AtTyped, EntryTypes

\* A map insert whose entry is a local, after other mutations.
LEMMA ThenPutLocal ==
  ASSUME NEW r, NEW s, NEW F, Changes(r, s, F), NEW f \in LocalToLocal, f \in F, NEW l \in Local,
         NEW v \in Local \cup {Absent}
  PROVE  Changes(r, Put(s, f, l, v), F)
  BY ThenPut, EntryTypes

\* The collection a length was read from is a local or unknown.
LEMMA LenOfTyped ==
  ASSUME NEW s \in States, NEW l \in Local PROVE LenOf(s, l) \in Local \cup {Absent}
<1>1. {"len_of", "ref_base"} \subseteq LocalToLocal
  BY DEF LocalToLocal
<1>2. QED
  BY <1>1, LocalEntry DEF LenOf

\* The comparison of an index with a length is recorded for its destination.
LEMMA ThenRecordFor ==
  ASSUME NEW r, NEW s, Changes(r, s, EvalFields), NEW dst \in Local, NEW o,
         NEW a \in Local \cup {NoLocal}, NEW b \in Local \cup {NoLocal}
  PROVE  Changes(r, RecordFor(s, dst, o, a, b), EvalFields)
<1> DEFINE f == IF o = "Lt" THEN "lt_for" ELSE "le_for"
           records == /\ o \in {"Lt", "Le"}
                      /\ a # NoLocal /\ b # NoLocal
                      /\ LenOf(s, b) # Absent
<1>1. s \in States
  BY DEF Changes
<1>2. f \in LocalMaps /\ f \in EvalFields /\ EntryType(f) = (Local \X Local) \cup {Absent}
  BY EntryTypes, EvalHas DEF PairMaps
<1>3. records => <<a, LenOf(s, b)>> \in Local \X Local
  BY <1>1, LenOfTyped
<1> HIDE DEF f
<1>4. records => Changes(r, Put(s, f, dst, <<a, LenOf(s, b)>>), EvalFields)
  BY <1>2, <1>3, ThenPut
<1>5. QED
  BY <1>4 DEF RecordFor, f

\* The comparison of a length with a capacity is recorded as spare room on an edge.
LEMMA ThenRecordSpare ==
  ASSUME NEW r, NEW s, Changes(r, s, EvalFields), NEW dst \in Local, NEW o,
         NEW a \in Local \cup {NoLocal}, NEW b \in Local \cup {NoLocal}
  PROVE  Changes(r, RecordSpare(s, dst, o, a, b), EvalFields)
<1> DEFINE f == IF o \in {"Lt", "Gt"} THEN "spare_if_true" ELSE "spare_if_false"
           len_l == IF o \in {"Le", "Gt"} THEN b ELSE a
           cap_l == IF o \in {"Le", "Gt"} THEN a ELSE b
           records == /\ a # NoLocal /\ b # NoLocal
                      /\ At(s, "len_of", len_l) # Absent
                      /\ At(s, "len_of", len_l) = At(s, "cap_of", cap_l)
<1>1. s \in States
  BY DEF Changes
<1>2. f \in LocalToLocal /\ f \in EvalFields /\ "len_of" \in LocalToLocal
  BY EvalHas DEF LocalToLocal
<1>3. records => At(s, "len_of", len_l) \in Local \cup {Absent}
  BY <1>1, <1>2, LocalEntry
<1> HIDE DEF f
<1>4. records => Changes(r, Put(s, f, dst, At(s, "len_of", len_l)), EvalFields)
  BY <1>2, <1>3, ThenPutLocal
<1>5. QED
  BY <1>4 DEF RecordSpare, f

\* The comparison of a length with a capacity is recorded as fullness on an edge.
LEMMA ThenRecordFull ==
  ASSUME NEW r, NEW s, Changes(r, s, EvalFields), NEW dst \in Local, NEW o,
         NEW a \in Local \cup {NoLocal}, NEW b \in Local \cup {NoLocal}
  PROVE  Changes(r, RecordFull(s, dst, o, a, b), EvalFields)
<1> DEFINE f == IF o = "Eq" THEN "full_if_true" ELSE "full_if_false"
           both(x, y) == IF At(s, "len_of", x) = At(s, "cap_of", y)
                         THEN {At(s, "len_of", x)} \ {Absent} ELSE {}
           colls == IF NoLocal \in {a, b} THEN {}
                    ELSE IF both(a, b) # {} THEN both(a, b) ELSE both(b, a)
<1>1. s \in States
  BY DEF Changes
<1>2. f \in LocalToLocal /\ f \in EvalFields /\ "len_of" \in LocalToLocal
  BY EvalHas DEF LocalToLocal
<1>3. \A x, y \in Local : both(x, y) \subseteq Local
  BY <1>1, <1>2, LocalEntry
<1>4. colls \subseteq Local
  BY <1>3
<1>5. RecordFull(s, dst, o, a, b) =
        IF colls = {} THEN s ELSE Put(s, f, dst, CHOOSE c \in colls : TRUE)
  BY DEF RecordFull
<1> HIDE DEF f, colls
<1>6. colls # {} => (CHOOSE c \in colls : TRUE) \in Local
  BY <1>4
<1>7. colls # {} => Changes(r, Put(s, f, dst, CHOOSE c \in colls : TRUE), EvalFields)
  BY <1>2, <1>6, ThenPutLocal
<1>8. QED
  BY <1>5, <1>7

\* One side of a comparison with a constant.
LEMMA ThenRecordConst ==
  ASSUME NEW r, NEW s, Changes(r, s, EvalFields), NEW dst \in Local,
         NEW o \in {"Lt", "Ge", "Le", "Gt"}, NEW op1 \in Operands, NEW op2 \in Operands
  PROVE  Changes(r, RecordConst(s, dst, o, op1, op2), EvalFields)
<1> DEFINE left  == [Lt |-> "const_lt", Ge |-> "const_ge", Le |-> "const_le", Gt |-> "const_gt"]
           right == [Lt |-> "const_gt", Ge |-> "const_le", Le |-> "const_ge", Gt |-> "const_lt"]
           record(t, f, l, k) ==
             IF l = NoLocal \/ k = NoValue THEN t
             ELSE LET t1 == Put(t, f, dst, <<l, k>>) IN
                  IF (f = "const_gt" /\ k = 0) \/ (f = "const_ge" /\ k >= 1)
                  THEN Put(t1, "nonzero_if_true", dst, l) ELSE t1
<1>1. left[o] \in ConstMaps /\ right[o] \in ConstMaps
  BY DEF ConstMaps
<1>2. ASSUME NEW t, Changes(r, t, EvalFields), NEW f \in ConstMaps,
             NEW l \in Local \cup {NoLocal}, NEW k \in U64 \cup {NoValue}
      PROVE  Changes(r, record(t, f, l, k), EvalFields)
  <2>1. CASE l = NoLocal \/ k = NoValue
    BY <1>2, <2>1
  <2>2. CASE ~(l = NoLocal \/ k = NoValue)
    <3> DEFINE t1 == Put(t, f, dst, <<l, k>>)
    <3>1. f \in LocalMaps /\ f \in EvalFields /\ <<l, k>> \in EntryType(f)
      BY <2>2, EntryTypes, EvalHas
    <3>2. Changes(r, t1, EvalFields)
      BY <1>2, <3>1, ThenPut
    <3> HIDE DEF t1
    <3>3. Changes(r, Put(t1, "nonzero_if_true", dst, l), EvalFields)
      BY <2>2, <3>2, ThenPutLocal, EvalHas DEF LocalToLocal
    <3>4. QED
      BY <2>2, <3>2, <3>3 DEF t1
  <2>3. QED
    BY <2>1, <2>2
<1>3. RecordConst(s, dst, o, op1, op2) =
        record(record(s, left[o], OperandLocal(op1), ConstU64(op2)),
               right[o], OperandLocal(op2), ConstU64(op1))
  BY DEF RecordConst
<1> HIDE DEF record, left, right
<1>4. /\ OperandLocal(op1) \in Local \cup {NoLocal} /\ OperandLocal(op2) \in Local \cup {NoLocal}
      /\ ConstU64(op1) \in U64 \cup {NoValue} /\ ConstU64(op2) \in U64 \cup {NoValue}
  BY OperandParts
<1>5. Changes(r, record(s, left[o], OperandLocal(op1), ConstU64(op2)), EvalFields)
  BY <1>1, <1>2, <1>4
<1>6. QED
  BY Zenon, <1>1, <1>2, <1>3, <1>4, <1>5

\* Everything an ordering comparison records is of its field's type.
LEMMA ThenOrder ==
  ASSUME NEW r, NEW s, Changes(r, s, EvalFields), NEW dst \in Local,
         NEW o \in {"Lt", "Ge", "Le", "Gt"}, NEW op1 \in Operands, NEW op2 \in Operands
  PROVE  Changes(r, Order(s, dst, o, op1, op2), EvalFields)
<1> DEFINE a == OperandLocal(op1)
           b == OperandLocal(op2)
           s0 == Clear(s, CompareFacts, dst)
           s1 == Put(s0, FactOf(o), dst, IF a = NoLocal THEN Absent ELSE a)
           s2 == RecordFor(s1, dst, o, a, b)
           s3 == RecordSpare(s2, dst, o, a, b)
<1>1. a \in Local \cup {NoLocal} /\ b \in Local \cup {NoLocal}
  BY OperandParts
<1>2. FactOf(o) \in CompareFacts
  BY DEF FactOf, CompareFacts
<1>3. Order(s, dst, o, op1, op2) = RecordConst(s3, dst, o, op1, op2)
  BY DEF Order
<1> HIDE DEF a, b
<1>4. Changes(r, s0, EvalFields)
  BY ThenClear, ClearedPerLocal, EvalHas
<1> HIDE DEF s0
<1>5. Changes(r, s1, EvalFields)
  BY <1>1, <1>2, <1>4, ThenPutLocal, EvalHas
<1> HIDE DEF s1
<1>6. Changes(r, s2, EvalFields)
  BY <1>1, <1>5, ThenRecordFor
<1> HIDE DEF s2
<1>7. Changes(r, s3, EvalFields)
  BY <1>1, <1>6, ThenRecordSpare
<1> HIDE DEF s3
<1>8. QED
  BY <1>3, <1>7, ThenRecordConst

\* Everything an equality comparison records is of its field's type.
LEMMA ThenEquality ==
  ASSUME NEW r, NEW s, Changes(r, s, EvalFields), NEW dst \in Local, NEW o,
         NEW op1 \in Operands, NEW op2 \in Operands
  PROVE  Changes(r, Equality(s, dst, o, op1, op2), EvalFields)
<1> DEFINE a == OperandLocal(op1)
           b == OperandLocal(op2)
           zero == IF ConstU64(op2) = 0 THEN a ELSE IF ConstU64(op1) = 0 THEN b ELSE NoLocal
           s0 == Clear(s, CompareFacts, dst)
           s1 == RecordFull(s0, dst, o, a, b)
           f == IF o = "Eq" THEN "nonzero_if_false" ELSE "nonzero_if_true"
           s2 == IF zero = NoLocal THEN s1 ELSE Put(s1, f, dst, zero)
           g == IF o = "Eq" THEN "eq_pair_if_true" ELSE "ne_pair_if_true"
           s3 == IF NoLocal \in {a, b} THEN s2 ELSE Put(s2, g, dst, <<a, b>>)
<1>1. a \in Local \cup {NoLocal} /\ b \in Local \cup {NoLocal}
  BY OperandParts
<1>2. zero \in Local \cup {NoLocal}
  BY <1>1
<1>3. f \in LocalToLocal /\ f \in EvalFields
  BY EvalHas DEF LocalToLocal
<1>4. g \in LocalMaps /\ g \in EvalFields /\ EntryType(g) = (Local \X Local) \cup {Absent}
  BY EntryTypes, EvalHas DEF PairMaps
<1>5. Equality(s, dst, o, op1, op2) = s3
  BY DEF Equality
<1> HIDE DEF a, b, zero, f, g
<1>6. Changes(r, s0, EvalFields)
  BY ThenClear, ClearedPerLocal, EvalHas
<1> HIDE DEF s0
<1>7. Changes(r, s1, EvalFields)
  BY <1>1, <1>6, ThenRecordFull
<1> HIDE DEF s1
<1>8. Changes(r, s2, EvalFields)
  BY <1>2, <1>3, <1>7, ThenPutLocal
<1> HIDE DEF s2
<1>9. Changes(r, s3, EvalFields)
  BY <1>1, <1>4, <1>8, ThenPut
<1>10. QED
  BY <1>5, <1>9

\* The upper bounds of an operand are u64s, and a power of two divides.
LEMMA UppersTyped ==
  ASSUME NEW s \in States, NEW op \in Operands PROVE Uppers(s, op) \subseteq U64
<1>1. \A l \in Local : At(s, "const_upper", l) \in U64 \cup {Absent}
  BY AtTyped, EntryTypes DEF BoundMaps
<1>2. QED
  BY <1>1, OperandParts DEF Uppers

Doubling == INSTANCE LoopProofs WITH Op <- Double

\* Induction, for the loop over Double.
LEMMA DoublingInducts == Doubling!Induction
  BY InductionUpTo DEF Doubling!Induction

\* A shift divides by a power of two, which is never zero.
LEMMA PowerOfTwoPositive == ASSUME NEW k \in Nat PROVE PowerOfTwo(k) \in Nat \ {0}
<1> DEFINE seq == [i \in 1..k |-> i]
<1>1. seq \in Seq(Nat) /\ Len(seq) = k
  OBVIOUS
<1> HIDE DEF seq
<1> DEFINE T == Nat \ {0}
<1>2. 1 \in T /\ \A n \in T, i \in Nat : Double(n, i) \in T
  BY DEF Double
<1> HIDE DEF T
<1>3. ForEach(Double, 1, seq) \in T
  BY <1>1, <1>2, DoublingInducts, Doubling!LoopKeeps, Zenon DEF Doubling!ForEach, ForEach
<1>4. QED
  BY <1>3 DEF T, PowerOfTwo, seq

\* The least of some u64 bounds is a u64.
LEMMA MinTyped ==
  ASSUME NEW S \in SUBSET U64, S # {} PROVE Min(S) \in U64
<1>1. S \subseteq Nat
  BY WidthAssumption DEF U64
<1>2. \E n \in S : \A k \in S : n <= k
  BY Zenon, <1>1, LeastNatural
<1>3. QED
  BY <1>2 DEF Min

\* The size of an operation, if its operands bound it, is recorded saturated to a u64.
LEMMA ThenSized ==
  ASSUME NEW r, NEW s, Changes(r, s, EvalFields), NEW dst \in Local, NEW bounds \in SUBSET Nat
  PROVE  Changes(r, Sized(s, dst, bounds), EvalFields)
<1> DEFINE n == CHOOSE v \in bounds : TRUE
<1>1. "mul_overflow" \in SetFields /\ KeyType("mul_overflow") = Local
      /\ "mul_overflow" \in EvalFields /\ "const_upper" \in EvalFields
  BY SetTypes, EvalHas DEF SetFields, MaySets, PairSets, BoundMaps
<1>2. CASE bounds = {}
  BY <1>1, <1>2, ThenInsert DEF Sized
<1>3. CASE bounds # {}
  <2>1. n \in Nat
    BY Zenon, <1>3
  <2>2. Sized(s, dst, bounds) = SetTo(LowerUpper(s, dst, MinU64(n, MaxU64)), "mul_overflow", dst,
                                      n > MaxISize)
    BY Zenon, <1>3 DEF Sized
  <2> HIDE DEF n
  <2>3. MinU64(n, MaxU64) \in U64
    BY <2>1, WidthAssumption DEF MinU64, U64
  <2>4. Changes(r, LowerUpper(s, dst, MinU64(n, MaxU64)), EvalFields)
    BY <1>1, <2>3, ThenLowerUpper
  <2>5. QED
    BY <1>1, <2>2, <2>4, ThenSetTo
<1>4. QED
  BY <1>2, <1>3

\* Everything an arithmetic operation records is of its field's type.
LEMMA ThenArithmetic ==
  ASSUME NEW r, NEW s, Changes(r, s, EvalFields), NEW dst \in Local, NEW o \in BinOps,
         NEW op1 \in Operands, NEW op2 \in Operands
  PROVE  Changes(r, Arithmetic(s, dst, o, op1, op2), EvalFields)
<1>1. s \in States /\ "const_upper" \in EvalFields
  BY EvalHas DEF Changes, BoundMaps
<1>2. ConstU64(op2) \in U64 \cup {NoValue} /\ OperandLocal(op1) \in Local \cup {NoLocal}
  BY OperandParts
<1>3. Uppers(s, op1) \subseteq U64 /\ Uppers(s, op2) \subseteq U64 /\ U64 \subseteq Nat
  BY <1>1, UppersTyped, WidthAssumption DEF U64
<1>4. CASE o = "BitOr"
  <2>1. "nonzero" \in SetFields /\ KeyType("nonzero") = Local /\ "nonzero" \in EvalFields
    BY SetTypes, EvalHas DEF SetFields, MustSets, PairSets
  <2>2. Arithmetic(s, dst, o, op1, op2) =
          SetTo(s, "nonzero", dst, IsNonzero(s, op1) \/ IsNonzero(s, op2))
    BY <1>4 DEF Arithmetic
  <2>3. QED
    BY <2>1, <2>2, ThenSetTo
<1>5. CASE o = "BitAnd"
  <2> DEFINE left == IF "Constant" = op1.kind /\ ConstU64(op2) # NoValue THEN {} ELSE Uppers(s, op1)
             ubs == left \cup Uppers(s, op2)
  <2>1. Arithmetic(s, dst, o, op1, op2) = IF ubs = {} THEN s ELSE LowerUpper(s, dst, Min(ubs))
    BY <1>5 DEF Arithmetic
  <2>2. ubs \in SUBSET U64
    BY <1>3
  <2> HIDE DEF ubs
  <2>3. ubs # {} => Min(ubs) \in U64
    BY <2>2, MinTyped
  <2>4. QED
    BY <1>1, <2>1, <2>3, ThenLowerUpper
<1>6. CASE o = "Rem"
  <2>1. Arithmetic(s, dst, o, op1, op2) =
          IF ConstU64(op2) \in {NoValue, 0} THEN s ELSE LowerUpper(s, dst, ConstU64(op2) - 1)
    BY <1>6 DEF Arithmetic
  <2>2. ConstU64(op2) \notin {NoValue, 0} => ConstU64(op2) - 1 \in U64
    BY <1>2, WidthAssumption DEF U64
  <2>3. QED
    BY <1>1, <2>1, <2>2, ThenLowerUpper
<1>7. CASE o = "Shr"
  <2> DEFINE ub == IF OperandLocal(op1) = NoLocal THEN {} ELSE Uppers(s, op1)
             top == IF ub = {} THEN MaxU64 ELSE Min(ub)
             low == top \div PowerOfTwo(ConstU64(op2))
  <2>1. Arithmetic(s, dst, o, op1, op2) =
          IF ConstU64(op2) = NoValue THEN s ELSE LowerUpper(s, dst, low)
    BY <1>7 DEF Arithmetic
  <2>2. ub \in SUBSET U64
    BY <1>3
  <2> HIDE DEF ub
  <2>3. top \in U64
    BY <2>2, MinTyped, WidthAssumption DEF U64
  <2> HIDE DEF top
  <2>4. ASSUME ConstU64(op2) # NoValue PROVE low \in U64
    <3> DEFINE p == PowerOfTwo(ConstU64(op2))
    <3>1. p \in Nat \ {0}
      BY Zenon, <1>2, <1>3, <2>4, PowerOfTwoPositive
    <3> HIDE DEF p
    <3>2. top \div p \in 0..MaxU64
      BY <2>3, <3>1, WidthAssumption DEF U64
    <3>3. QED
      BY <3>2 DEF p, U64
  <2> HIDE DEF low
  <2>5. QED
    BY <1>1, <2>1, <2>4, ThenLowerUpper
<1>8. CASE o \in {"Mul", "MulWithOverflow"}
  <2> DEFINE bounds == {p[1] * p[2] : p \in Uppers(s, op1) \X Uppers(s, op2)}
  <2>1. Arithmetic(s, dst, o, op1, op2) = Sized(s, dst, bounds)
    BY <1>8 DEF Arithmetic
  <2>2. ASSUME NEW z \in bounds PROVE z \in Nat
    <3>1. PICK p \in Uppers(s, op1) \X Uppers(s, op2) : z = p[1] * p[2]
      OBVIOUS
    <3>2. p[1] \in Nat /\ p[2] \in Nat
      BY Zenon, <1>3
    <3>3. QED
      BY <3>1, <3>2
  <2> HIDE DEF bounds
  <2>3. QED
    BY <2>1, <2>2, ThenSized
<1>9. CASE o \in {"Add", "AddWithOverflow"}
  <2> DEFINE bounds == {p[1] + p[2] : p \in Uppers(s, op1) \X Uppers(s, op2)}
  <2>1. Arithmetic(s, dst, o, op1, op2) \in {s, Sized(s, dst, bounds)}
    BY <1>9 DEF Arithmetic
  <2>2. ASSUME NEW z \in bounds PROVE z \in Nat
    <3>1. PICK p \in Uppers(s, op1) \X Uppers(s, op2) : z = p[1] + p[2]
      BY Zenon
    <3>2. p[1] \in Nat /\ p[2] \in Nat
      BY Zenon, <1>3
    <3>3. QED
      BY <3>1, <3>2
  <2> HIDE DEF bounds
  <2>3. QED
    BY <2>1, <2>2, ThenSized
<1>10. CASE o \notin {"BitOr", "BitAnd", "Rem", "Shr", "Mul", "MulWithOverflow", "Add",
                      "AddWithOverflow"}
  BY <1>10 DEF Arithmetic
<1>11. QED
  BY <1>4, <1>5, <1>6, <1>7, <1>8, <1>9, <1>10

\* The BinaryOp arm of the evaluation writes only evaluation fields.
LEMMA ComputeTyped ==
  ASSUME NEW s \in States, NEW dst \in Local, NEW o \in BinOps, NEW op1 \in Operands,
         NEW op2 \in Operands
  PROVE  Changes(s, Compute(s, dst, o, op1, op2), EvalFields)
<1> DEFINE objs(op) == IF OperandLocal(op) = NoLocal THEN {} ELSE ObjectsFor(s, OperandLocal(op))
           v == IF o \notin {"Offset", "Add", "Sub"} THEN {}
                ELSE IF objs(op1) # {} THEN objs(op1) ELSE objs(op2)
           s1 == Put(s, "points_to", dst, v)
           s2 == Clear(s1, Basics \ CompareFacts, dst)
<1>1. objs(op1) \subseteq ObjIds /\ objs(op2) \subseteq ObjIds
  BY OperandParts, ObjectsTyped
<1>2. v \in EntryType("points_to") /\ "points_to" \in LocalMaps /\ "points_to" \in EvalFields
  BY <1>1, EntryTypes, EvalHas
<1>3. Changes(s, s1, EvalFields)
  BY <1>2, ChangesRefl, ThenPut
<1>4. Changes(s, s2, EvalFields)
  <2> HIDE DEF s1
  <2>1. QED
    BY <1>3, ThenClear, ClearedPerLocal, EvalHas
<1>5. CASE o \in {"Lt", "Ge", "Le", "Gt"}
  <2>1. Compute(s, dst, o, op1, op2) = Order(s2, dst, o, op1, op2)
    BY <1>5 DEF Compute
  <2> HIDE DEF s2
  <2>2. QED
    BY <1>4, <1>5, <2>1, ThenOrder
<1>6. CASE o \in {"Eq", "Ne"}
  <2>1. Compute(s, dst, o, op1, op2) = Equality(s2, dst, o, op1, op2)
    BY <1>6 DEF Compute
  <2> HIDE DEF s2
  <2>2. QED
    BY <1>4, <2>1, ThenEquality
<1>7. CASE o \in {"MulWithOverflow", "AddWithOverflow"}
  <2>1. Compute(s, dst, o, op1, op2) = Arithmetic(s2, dst, o, op1, op2)
    BY <1>7 DEF Compute
  <2> HIDE DEF s2
  <2>2. QED
    BY <1>4, <2>1, ThenArithmetic
<1>8. CASE o \notin {"Lt", "Ge", "Le", "Gt", "Eq", "Ne", "MulWithOverflow", "AddWithOverflow"}
  <2>1. Compute(s, dst, o, op1, op2) = Clear(Arithmetic(s2, dst, o, op1, op2), CompareFacts, dst)
    BY <1>8 DEF Compute
  <2> HIDE DEF s2
  <2>2. Changes(s, Arithmetic(s2, dst, o, op1, op2), EvalFields)
    BY <1>4, ThenArithmetic
  <2>3. QED
    BY <2>1, <2>2, ThenClear, ClearedPerLocal, EvalHas
<1>9. QED
  BY <1>5, <1>6, <1>7, <1>8

\* A field of an aggregate owns objects of the body.
LEMMA FieldOwnedTyped ==
  ASSUME NEW s \in States, NEW l \in Local, NEW i \in FieldIndex
  PROVE  At(s, "field_owned", <<l, i>>) \subseteq ObjIds
<1>1. CASE "field_owned" \in Fields
  <2>1. s["field_owned"] \in [Local \X FieldIndex -> SUBSET ObjIds]
    BY Zenon, <1>1, StateForm, FieldTypes
  <2>2. QED
    BY <1>1, <2>1 DEF At
<1>2. CASE "field_owned" \notin Fields
  BY <1>2 DEF At, MayMaps
<1>3. QED
  BY <1>1, <1>2

\* Reading a field of an aggregate writes only evaluation fields.
LEMMA FieldReadTyped ==
  ASSUME NEW s \in States, NEW dst \in Local, NEW p \in Places
  PROVE  Changes(s, FieldRead(s, dst, p), EvalFields)
<1> DEFINE objs == IF ObjectsFor(s, p.local) # {} THEN ObjectsFor(s, p.local)
                   ELSE IF SimpleField(p) # NoField
                   THEN At(s, "field_owned", <<p.local, SimpleField(p)>>) ELSE {}
           s1 == PointTo(s, dst, objs)
<1>1. FieldRead(s, dst, p) = SetTo(s1, "mul_overflow", dst, Holds(s, "mul_overflow", p.local))
  BY DEF FieldRead
<1>2. objs \in SUBSET ObjIds
  BY PlaceParts, ObjectsTyped, FieldOwnedTyped
<1> HIDE DEF objs
<1>3. Changes(s, s1, EvalFields)
  BY <1>2, ChangesRefl, ThenPointTo, EvalHas
<1> HIDE DEF s1
<1>4. "mul_overflow" \in SetFields /\ KeyType("mul_overflow") = Local /\ "mul_overflow" \in EvalFields
  BY SetTypes, EvalHas DEF SetFields, MaySets, PairSets
<1>5. QED
  BY <1>1, <1>3, <1>4, ThenSetTo

\* Building an aggregate writes only evaluation fields.
LEMMA ConstructTyped ==
  ASSUME NEW s \in States, NEW dst \in Local, NEW rv \in Rvalues, rv.kind = "Aggregate"
  PROVE  Changes(s, Construct(s, dst, rv), EvalFields)
<1> DEFINE locals == [i \in DOMAIN rv.ops |-> OperandLocal(rv.ops[i])]
           known  == {locals[i] : i \in DOMAIN locals} \ {NoLocal}
           objs == UNION {ObjectsFor(s, l) : l \in known}
           s1 == PointTo(s, dst, objs)
           s2 == IF rv.active # NoField THEN Put(s1, "active_variant", dst, rv.active) ELSE s1
           all == /\ rv.agg \in {"Array", "Tuple"} /\ locals # <<>>
                  /\ \A i \in DOMAIN locals : locals[i] # NoLocal
<1>1. Construct(s, dst, rv) = IF all THEN Put(s2, "array_components", dst, locals) ELSE s2
  BY DEF Construct
<1>2. rv.ops \in Seq(Operands) /\ rv.active \in FieldIndex \cup {NoField}
  BY RvalueParts
<1>3. \A i \in DOMAIN rv.ops : locals[i] \in Local \cup {NoLocal}
  BY <1>2, OperandParts
<1>4. all => locals \in Seq(Local)
  <2>1. DOMAIN rv.ops = 1..Len(rv.ops) /\ Len(rv.ops) \in Nat
    BY <1>2
  <2>2. ASSUME all PROVE locals \in [1..Len(rv.ops) -> Local]
    BY Zenon, <1>3, <2>1, <2>2
  <2> HIDE DEF locals
  <2>3. locals \in [1..Len(rv.ops) -> Local] => locals \in Seq(Local)
    BY <2>1
  <2>4. QED
    BY <2>2, <2>3
<1>5. known \subseteq Local
  BY Zenon, <1>3
<1> HIDE DEF locals, known
<1>6. objs \in SUBSET ObjIds
  BY <1>5, ObjectsTyped
<1> HIDE DEF objs
<1>7. Changes(s, s1, EvalFields)
  BY <1>6, ChangesRefl, ThenPointTo, EvalHas
<1> HIDE DEF s1
<1>8. Changes(s, s2, EvalFields)
  BY <1>2, <1>7, ThenPut, EntryTypes, EvalHas
<1> HIDE DEF s2, all
<1>9. all => Changes(s, Put(s2, "array_components", dst, locals), EvalFields)
  BY <1>4, <1>8, ThenPut, EntryTypes, EvalHas
<1>10. QED
  BY <1>1, <1>8, <1>9

\* A cast between integers keeps its bounds u64 and writes only evaluation fields.
LEMMA NumericCastTyped ==
  ASSUME NEW s \in States, NEW dst \in Local, NEW src \in Local, NEW isIntToInt
  PROVE  Changes(s, NumericCast(s, dst, src, isIntToInt), EvalFields)
<1> DEFINE s1 == Put(s, "cast_origin", dst, src)
           s2 == IF Ty(dst).max = NoValue THEN s1 ELSE LowerUpper(s1, dst, Ty(dst).max)
           s3 == IF Holds(s2, "nonzero", src) THEN Insert(s2, "nonzero", dst) ELSE s2
<1>1. NumericCast(s, dst, src, isIntToInt) =
        IF ~isIntToInt THEN s1
        ELSE IF At(s3, "const_upper", src) = Absent THEN s3
        ELSE LowerUpper(s3, dst, At(s3, "const_upper", src))
  BY DEF NumericCast
<1>2. "const_upper" \in EvalFields
  BY EvalHas DEF BoundMaps
<1>3. Changes(s, s1, EvalFields)
  BY ChangesRefl, ThenPutLocal, EvalHas DEF LocalToLocal
<1> HIDE DEF s1
<1>4. Changes(s, s2, EvalFields)
  BY <1>2, <1>3, ThenLowerUpper, TyAssumption
<1> HIDE DEF s2
<1>5. "nonzero" \in SetFields /\ KeyType("nonzero") = Local /\ "nonzero" \in EvalFields
  BY SetTypes, EvalHas DEF SetFields, MustSets, PairSets
<1>6. Changes(s, s3, EvalFields)
  BY <1>4, <1>5, ThenInsert
<1> HIDE DEF s3
<1>7. At(s3, "const_upper", src) \in U64 \cup {Absent}
  BY <1>6, AtTyped, EntryTypes DEF BoundMaps, Changes
<1>8. At(s3, "const_upper", src) # Absent =>
        Changes(s, LowerUpper(s3, dst, At(s3, "const_upper", src)), EvalFields)
  BY <1>2, <1>6, <1>7, ThenLowerUpper
<1>9. QED
  BY <1>1, <1>3, <1>6, <1>8

\* Assigning a literal records its u64 value and writes only evaluation fields.
LEMMA AssignConstantTyped ==
  ASSUME NEW s \in States, NEW dst \in Local, NEW val \in U64 \cup {NoValue}
  PROVE  Changes(s, AssignConstant(s, dst, val), EvalFields)
<1> DEFINE a1 == Put(s, "const_upper", dst, val)
           a2 == Put(a1, "const_lower", dst, val)
           a3 == SetTo(a2, "nonzero", dst, val # 0)
           s1 == IF val = NoValue THEN s ELSE a3
<1>1. AssignConstant(s, dst, val) = PointTo(s1, dst, {})
  BY DEF AssignConstant
<1>2. \A f \in BoundMaps : f \in LocalMaps /\ f \in EvalFields
        /\ EntryType(f) = U64 \cup {Absent}
  BY EntryTypes, EvalHas
<1>3. "const_upper" \in BoundMaps /\ "const_lower" \in BoundMaps
  BY DEF BoundMaps
<1>4. ASSUME val # NoValue PROVE Changes(s, a3, EvalFields)
  <2>1. Changes(s, a1, EvalFields)
    BY Zenon, <1>2, <1>3, <1>4, ChangesRefl, ThenPut
  <2> HIDE DEF a1
  <2>2. Changes(s, a2, EvalFields)
    BY <1>2, <1>3, <1>4, <2>1, ThenPut
  <2> HIDE DEF a2
  <2>3. "nonzero" \in SetFields /\ KeyType("nonzero") = Local /\ "nonzero" \in EvalFields
    BY SetTypes, EvalHas DEF SetFields, MustSets, PairSets
  <2>4. QED
    BY <2>2, <2>3, ThenSetTo
<1> HIDE DEF a3
<1>5. Changes(s, s1, EvalFields)
  BY <1>4, ChangesRefl
<1> HIDE DEF s1
<1>6. QED
  BY <1>1, <1>5, ThenPointTo, EvalHas

\* An rvalue the evaluation does not follow only kills facts.
LEMMA UnknownTyped ==
  ASSUME NEW s \in States, NEW dst \in Local, NEW rv \in Rvalues
  PROVE  Changes(s, Unknown(s, dst, rv), EvalFields)
<1> DEFINE s1 == PointTo(s, dst, {})
<1>1. Unknown(s, dst, rv) = IF IsMove(rv) THEN PointTo(s1, rv.op.place.local, {}) ELSE s1
  BY DEF Unknown
<1>2. Changes(s, s1, EvalFields)
  BY ChangesRefl, ThenPointTo, EvalHas
<1> HIDE DEF s1
<1>3. IsMove(rv) => rv.op.place.local \in Local
  BY SourceParts, PlaceParts
<1>4. QED
  BY <1>1, <1>2, <1>3, ThenPointTo, EvalHas
-----------------------------------------------------------------------------
(***************************************************************************)
(* Statements.                                                             *)
(***************************************************************************)
\* A pointer-to-pointer cast or a transmute of a local.
IsPointerCast(rv) ==
  rv.kind = "Cast" /\ rv.cast \in {"PtrToPtr", "Transmute"} /\ OperandLocal(rv.op) # NoLocal

\* Right-hand sides other than copies and pointer casts.
LEMMA EvaluateFrame ==
  ASSUME NEW s \in States, NEW dst \in Local, NEW rv \in Rvalues,
         ~IsPlainUse(rv), ~IsPointerCast(rv)
  PROVE  Changes(s, Evaluate(s, dst, rv), EvalFields)
<1> DEFINE src == IF rv.kind \in {"Use", "Cast"} THEN OperandLocal(rv.op) ELSE NoLocal
<1>1. CASE rv.kind = "Use"
  <2>1. rv.op \in Operands
    BY <1>1, RvalueParts
  <2>2. CASE rv.op.kind # "Constant"
    <3>1. Evaluate(s, dst, rv) = IF rv.op.place.derefs <= 1 THEN FieldRead(s, dst, rv.op.place)
                                 ELSE Unknown(s, dst, rv)
      BY <1>1, <2>2 DEF Evaluate
    <3>2. rv.op.place \in Places
      BY <2>1, <2>2, OperandParts
    <3>3. QED
      BY <3>1, <3>2, FieldReadTyped, UnknownTyped
  <2>3. CASE rv.op.kind = "Constant"
    <3>1. Evaluate(s, dst, rv) = AssignConstant(s, dst, rv.op.val)
      BY <1>1, <2>3 DEF Evaluate
    <3>2. rv.op.val \in U64 \cup {NoValue}
      BY <2>1, <2>3 DEF Operands
    <3>3. QED
      BY <3>1, <3>2, AssignConstantTyped
  <2>4. QED
    BY <2>2, <2>3
<1>2. CASE rv.kind \in {"Ref", "RawPtr"}
  <2>1. Evaluate(s, dst, rv) \in {PointTo(s, dst, ObjectsFor(s, rv.place.local)), Unknown(s, dst, rv)}
    BY <1>2 DEF Evaluate, IsPlainUse
  <2>2. ObjectsFor(s, rv.place.local) \in SUBSET ObjIds
    BY <1>2, RvalueParts, PlaceParts, ObjectsTyped
  <2>3. Changes(s, PointTo(s, dst, ObjectsFor(s, rv.place.local)), EvalFields)
    BY <2>2, ChangesRefl, ThenPointTo, EvalHas
  <2>4. QED
    BY <2>1, <2>3, UnknownTyped
<1>3. CASE rv.kind = "Aggregate"
  <2>1. Evaluate(s, dst, rv) = Construct(s, dst, rv)
    BY <1>3 DEF Evaluate, IsPlainUse
  <2>2. QED
    BY <1>3, <2>1, ConstructTyped
<1>4. CASE rv.kind = "Cast"
  <2>1. rv.op \in Operands
    BY <1>4, RvalueParts
  <2>2. CASE rv.cast \in {"IntToInt", "IntToFloat", "FloatToInt", "FloatToFloat"}
             /\ OperandLocal(rv.op) # NoLocal
    <3>1. Evaluate(s, dst, rv) = NumericCast(s, dst, OperandLocal(rv.op), rv.cast = "IntToInt")
      BY <1>4, <2>2 DEF Evaluate, IsPlainUse
    <3>2. QED
      BY <2>1, <2>2, <3>1, OperandParts, NumericCastTyped
  <2>3. CASE ~(rv.cast \in {"IntToInt", "IntToFloat", "FloatToInt", "FloatToFloat"}
               /\ OperandLocal(rv.op) # NoLocal)
    <3>1. Evaluate(s, dst, rv) = Unknown(s, dst, rv)
      BY <1>4, <2>3 DEF Evaluate, IsPlainUse, IsPointerCast
    <3>2. QED
      BY <3>1, UnknownTyped
  <2>4. QED
    BY <2>2, <2>3
<1>5. CASE rv.kind = "BinaryOp"
  <2>1. Evaluate(s, dst, rv) = Compute(s, dst, rv.o, rv.a, rv.b)
    BY <1>5 DEF Evaluate, IsPlainUse
  <2>2. rv.o \in BinOps /\ rv.a \in Operands /\ rv.b \in Operands
    BY <1>5, RvalueParts
  <2>3. QED
    BY <2>1, <2>2, ComputeTyped
<1>6. CASE rv.kind \notin {"Use", "Ref", "RawPtr", "Aggregate", "Cast", "BinaryOp"}
  <2>1. Evaluate(s, dst, rv) = Unknown(s, dst, rv)
    BY <1>6 DEF Evaluate, IsPlainUse
  <2>2. QED
    BY <2>1, UnknownTyped
<1>7. QED
  BY <1>1, <1>2, <1>3, <1>4, <1>5, <1>6

\* A copy or a move of a local carries what is known of it.
LEMMA EvaluateCopy ==
  ASSUME NEW s \in States, NEW dst \in Local, NEW rv \in Rvalues, IsPlainUse(rv)
  PROVE  /\ OperandLocal(rv.op) \in Local
         /\ Evaluate(s, dst, rv) = Carry(s, Followed, OperandLocal(rv.op), dst, IsMove(rv))
         /\ Changes(s, Evaluate(s, dst, rv), Followed)
<1>1. OperandLocal(rv.op) \in Local
  <2>1. rv.kind = "Use" /\ OperandLocal(rv.op) # NoLocal
    BY DEF IsPlainUse, RvalueLocal
  <2>2. QED
    BY <2>1, RvalueParts, OperandParts
<1>2. Evaluate(s, dst, rv) = Carry(s, Followed, OperandLocal(rv.op), dst, IsMove(rv))
  <2>1. rv.kind = "Use" /\ rv.op.kind # "Constant"
    BY DEF IsPlainUse, RvalueLocal, OperandLocal
  <2>2. QED
    BY <2>1 DEF Evaluate
<1>3. Followed \subseteq (SetFields \ PairSets) \cup LocalMaps
  BY DEF Followed, Basics, CompareFacts, SetFields, MaySets, MustSets, PairSets, LocalMaps,
         LatticeMaps, MayMaps, FirstWinsMaps, AgreeMaps, BoundMaps, MustMaps
<1>4. QED
  BY <1>1, <1>2, <1>3, CarryTyped

\* A pointer cast may also mark its destination as cast from *const.
LEMMA EvaluatePointerCast ==
  ASSUME NEW s \in States, NEW dst \in Local, NEW rv \in Rvalues, IsPointerCast(rv)
  PROVE  /\ OperandLocal(rv.op) \in Local
         /\ Evaluate(s, dst, rv) = PointerCast(s, dst, OperandLocal(rv.op))
         /\ Changes(s, Evaluate(s, dst, rv), EvalFields \cup {"const_ptr_cast"})
<1> DEFINE src == OperandLocal(rv.op)
           awayConst == /\ IsRawPtr(dst) /\ Ty(dst).mutable
                        /\ \/ IsRawPtr(src) /\ ~Ty(src).mutable
                           \/ Holds(s, "const_ptr_cast", src)
           s1 == IF awayConst THEN Insert(s, "const_ptr_cast", dst) ELSE s
           F == EvalFields \cup {"const_ptr_cast"}
<1>1. src \in Local
  BY RvalueParts, OperandParts DEF IsPointerCast
<1>2. Evaluate(s, dst, rv) = PointerCast(s, dst, src)
  BY DEF Evaluate, IsPlainUse, IsPointerCast
<1>3. PointerCast(s, dst, src) = PointTo(s1, dst, ObjectsFor(s, src))
  BY DEF PointerCast
<1>4. ObjectsFor(s, src) \in SUBSET ObjIds
  BY <1>1, ObjectsTyped
<1>5. "const_ptr_cast" \in SetFields /\ KeyType("const_ptr_cast") = Local
  BY SetTypes DEF SetFields, MaySets, PairSets
<1> HIDE DEF src, awayConst
<1>6. Changes(s, s1, F)
  BY <1>5, ChangesRefl, ThenInsert
<1> HIDE DEF s1
<1>7. Changes(s, PointTo(s1, dst, ObjectsFor(s, src)), F)
  BY <1>4, <1>6, ThenPointTo, EvalHas
<1>8. QED
  BY <1>1, <1>2, <1>3, <1>7 DEF src

\* The base of a reference and the origin of a length are all that attributing them writes.
LEMMA AttributeTyped ==
  ASSUME NEW s \in States, NEW dst \in Local, NEW rv \in Rvalues
  PROVE  Changes(s, Attribute(s, dst, rv), {"ref_base", "len_of"})
<1>1. {"ref_base", "len_of"} \subseteq LocalToLocal
  BY DEF LocalToLocal
<1>2. CASE rv.kind = "Ref" /\ rv.place.field = NoField /\ ~rv.place.index /\ rv.place.derefs <= 1
  <2>1. rv.place.local \in Local
    BY <1>2, RvalueParts, PlaceParts
  <2>2. Attribute(s, dst, rv) = Put(s, "ref_base", dst, rv.place.local)
    BY <1>2 DEF Attribute
  <2>3. QED
    BY <1>1, <2>1, <2>2, ChangesRefl, ThenPutLocal
<1>3. CASE rv.kind = "PtrMetadata" /\ OperandLocal(rv.op) # NoLocal
  <2>1. DerefBase(s, OperandLocal(rv.op)) \in Local
    BY <1>3, RvalueParts, OperandParts, DerefBaseTyped
  <2>2. Attribute(s, dst, rv) = Put(s, "len_of", dst, DerefBase(s, OperandLocal(rv.op)))
    BY <1>3 DEF Attribute
  <2>3. QED
    BY Zenon, <1>1, <2>1, <2>2, ChangesRefl, ThenPutLocal
<1>4. QED
  BY <1>2, <1>3, ChangesRefl DEF Attribute

\* What an assignment may change.
AssignFields == Reassigned \cup Basics \cup {"points_to", "owner_alias", "fn_ptr_targets", "heap"}

\* The fields that an assignment writes, by group.
LEMMA AssignHas ==
  /\ EvalFields \subseteq AssignFields /\ Followed \subseteq AssignFields
  /\ Reassigned \subseteq AssignFields /\ Reassigned \subseteq PerLocal
  /\ {"points_to", "owner_alias", "fn_ptr_targets", "heap", "const_ptr_cast", "ref_base", "len_of",
      "nonzero", "const_upper", "local_proto", "field_owned", "mu_field_inits", "init",
      "active_variant"} \subseteq AssignFields
<1>1. EvalFields \subseteq AssignFields
  BY DEF EvalFields, AssignFields, Reassigned
<1>2. Followed \subseteq AssignFields
  BY DEF Followed, AssignFields, Reassigned, Redefined, CollectionFacts, RangeFacts, PairFacts
<1>4. {"points_to", "owner_alias", "fn_ptr_targets", "heap", "const_ptr_cast", "ref_base", "len_of",
      "nonzero", "const_upper", "local_proto", "field_owned", "mu_field_inits", "init",
      "active_variant"} \subseteq AssignFields
  BY DEF AssignFields, Reassigned, Redefined, CollectionFacts, RangeFacts, Basics
<1>5. QED
  BY <1>1, <1>2, <1>4, ClearedPerLocal DEF AssignFields

\* Every right-hand side.
LEMMA ThenEvaluate ==
  ASSUME NEW r, NEW s, Changes(r, s, AssignFields), NEW dst \in Local, NEW rv \in Rvalues
  PROVE  Changes(r, Evaluate(s, dst, rv), AssignFields)
<1>1. s \in States
  BY DEF Changes
<1>2. CASE IsPlainUse(rv)
  BY <1>1, <1>2, EvaluateCopy, ThenChanges, AssignHas
<1>3. CASE IsPointerCast(rv)
  <2>1. Changes(s, Evaluate(s, dst, rv), EvalFields \cup {"const_ptr_cast"})
    BY Zenon, <1>1, <1>3, EvaluatePointerCast
  <2>2. EvalFields \cup {"const_ptr_cast"} \subseteq AssignFields
    BY AssignHas
  <2>3. QED
    BY <2>1, <2>2, ThenChanges
<1>4. CASE ~IsPlainUse(rv) /\ ~IsPointerCast(rv)
  BY <1>1, <1>4, EvaluateFrame, ThenChanges, AssignHas
<1>5. QED
  BY <1>2, <1>3, <1>4

\* An assignment to a local keeps the types.
LEMMA ThenAssignLocal ==
  ASSUME NEW r, NEW s, Changes(r, s, AssignFields), NEW dst \in Local, NEW rv \in Rvalues
  PROVE  Changes(r, AssignLocal(s, dst, rv), AssignFields)
<1> DEFINE s1 == UpdateOwnerAlias(s, dst, rv)
           s2 == UpdateFnPtrTarget(s1, dst, rv)
           s3 == Clear(s2, Reassigned, dst)
           s4 == Attribute(s3, dst, rv)
           s5 == Evaluate(s4, dst, rv)
<1>1. AssignLocal(s, dst, rv) = EnforceTypeFacts(s5, dst)
  BY DEF AssignLocal
<1>2. Changes(r, s1, AssignFields)
  <2>1. Changes(s, s1, {"owner_alias"})
    BY UpdateOwnerAliasTyped DEF Changes
  <2>2. QED
    BY <2>1, ThenChanges, AssignHas
<1> HIDE DEF s1
<1>3. Changes(r, s2, AssignFields)
  <2>1. Changes(s1, s2, {"fn_ptr_targets"})
    BY <1>2, UpdateFnPtrTargetTyped DEF Changes
  <2>2. QED
    BY <1>2, <2>1, ThenChanges, AssignHas
<1> HIDE DEF s2
<1>4. Changes(r, s3, AssignFields)
  BY <1>3, ThenClear, AssignHas
<1> HIDE DEF s3
<1>5. Changes(r, s4, AssignFields)
  <2>1. Changes(s3, s4, {"ref_base", "len_of"})
    BY <1>4, AttributeTyped DEF Changes
  <2>2. QED
    BY <1>4, <2>1, ThenChanges, AssignHas
<1> HIDE DEF s4
<1>6. Changes(r, s5, AssignFields)
  BY <1>5, ThenEvaluate
<1> HIDE DEF s5
<1>7. QED
  BY <1>1, <1>6, ThenEnforceTypeFacts, AssignHas

\* A store into a field that owns what it holds.
LEMMA ThenPutFieldOwned ==
  ASSUME NEW r, NEW s, NEW F, Changes(r, s, F), "field_owned" \in F, NEW l \in Local,
         NEW i \in FieldIndex, NEW objs \in SUBSET ObjIds
  PROVE  Changes(r, Put(s, "field_owned", <<l, i>>, objs), F)
<1>1. s \in States
  BY DEF Changes
<1>2. CASE "field_owned" \in Fields
  <2> DEFINE v == [s["field_owned"] EXCEPT ![<<l, i>>] = objs]
  <2>1. /\ FieldType("field_owned") = [Local \X FieldIndex -> SUBSET ObjIds]
        /\ DOMAIN s = Fields /\ s["field_owned"] \in FieldType("field_owned")
    BY Zenon, <1>1, <1>2, StateForm, FieldTypes
  <2>2. v \in FieldType("field_owned")
    BY <2>1
  <2>3. Put(s, "field_owned", <<l, i>>, objs) = [s EXCEPT !["field_owned"] = v]
    BY <1>2, <2>1 DEF Put
  <2> HIDE DEF v
  <2>4. Changes(s, [s EXCEPT !["field_owned"] = v], {"field_owned"})
    BY <1>1, <1>2, <2>2, UpdateTyped
  <2>5. QED
    BY <2>3, <2>4, ThenChanges
<1>3. CASE "field_owned" \notin Fields
  BY <1>3 DEF Put
<1>4. QED
  BY <1>2, <1>3

\* What a store through a projection may change.
StoreFields == {"points_to", "heap", "local_proto", "owner_alias", "field_owned", "active_variant",
                "mu_field_inits", "init"}

\* The fields that a store through a projection writes.
LEMMA StoreHas ==
  /\ StoreFields \subseteq AssignFields
  /\ {"points_to", "heap", "local_proto", "owner_alias", "field_owned", "active_variant",
      "mu_field_inits", "init"} \subseteq StoreFields
  /\ StoreFields \subseteq {"points_to", "heap", "local_proto", "owner_alias", "field_owned",
                            "active_variant", "mu_field_inits", "init"}
  BY AssignHas DEF StoreFields

\* A store of a pointer escapes it or gives it to the field it is stored in.
LEMMA ThenStoreOwnership ==
  ASSUME NEW r, NEW s, Changes(r, s, StoreFields), NEW dst \in Places, NEW src \in Local \cup {NoLocal}
  PROVE  Changes(r, StoreOwnership(s, dst, src), StoreFields)
<1>1. s \in States /\ dst.local \in Local /\ SimpleField(dst) \in FieldIndex \cup {NoField}
  BY PlaceParts DEF Changes
<1>2. CASE src = NoLocal
  BY <1>2 DEF StoreOwnership
<1>3. CASE src # NoLocal /\ dst.local = 0 /\ dst.derefs = 0
  <2> DEFINE objs == ObjectsFor(s, 0) \cup ObjectsFor(s, src)
  <2>1. objs \in SUBSET ObjIds /\ 0 \in Local
    BY <1>1, <1>3, ObjectsTyped
  <2>2. StoreOwnership(s, dst, src) = Put(s, "points_to", 0, objs)
    BY <1>3 DEF StoreOwnership
  <2> HIDE DEF objs
  <2>3. QED
    BY <2>1, <2>2, ThenPut, EntryTypes, StoreHas
<1>4. CASE src # NoLocal /\ ~(dst.local = 0 /\ dst.derefs = 0) /\ SimpleField(dst) = NoField
  <2>1. StoreOwnership(s, dst, src) = EscapeLocal(s, src)
    BY <1>4 DEF StoreOwnership
  <2>2. QED
    BY <1>4, <2>1, ThenEscapeLocal, StoreHas
<1>5. CASE src # NoLocal /\ ~(dst.local = 0 /\ dst.derefs = 0) /\ SimpleField(dst) # NoField
  <2> DEFINE s1 == Put(s, "field_owned", <<dst.local, SimpleField(dst)>>, ObjectsFor(s, src))
  <2>1. StoreOwnership(s, dst, src) = Clear(s1, {"points_to", "local_proto", "owner_alias"}, src)
    BY <1>5 DEF StoreOwnership
  <2>2. ObjectsFor(s, src) \in SUBSET ObjIds
    BY <1>1, <1>5, ObjectsTyped
  <2>3. Changes(r, s1, StoreFields)
    BY <1>1, <1>5, <2>2, ThenPutFieldOwned, StoreHas
  <2> HIDE DEF s1
  <2>4. QED
    BY <1>5, <2>1, <2>3, ThenClear, StoreHas, ClearedPerLocal
<1>6. QED
  BY <1>2, <1>3, <1>4, <1>5

\* A store to a field of a MaybeUninit records the field, and the whole once all are written.
LEMMA ThenStoreUninit ==
  ASSUME NEW r, NEW s, Changes(r, s, StoreFields), NEW dst \in Places
  PROVE  Changes(r, StoreUninit(s, dst), StoreFields)
<1> DEFINE mu == At(s, "mu_raw_ptr", dst.local)
           written == (IF At(s, "mu_field_inits", mu) = Absent THEN {}
                       ELSE At(s, "mu_field_inits", mu)) \cup {SimpleField(dst)}
           s1 == Put(s, "mu_field_inits", mu, written)
           skip == SimpleField(dst) = NoField \/ mu = Absent \/ ~IsRawPtr(dst.local)
                     \/ Ty(dst.local).fields = 0
<1>1. s \in States /\ dst.local \in Local /\ SimpleField(dst) \in FieldIndex \cup {NoField}
  BY PlaceParts DEF Changes
<1>2. StoreUninit(s, dst) = IF skip THEN s
                            ELSE IF Cardinality(written) >= Ty(dst.local).fields
                            THEN Put(s1, "init", mu, "Initialized") ELSE s1
  BY DEF StoreUninit
<1>3. ASSUME ~skip
      PROVE  Changes(r, s1, StoreFields) /\ Changes(r, Put(s1, "init", mu, "Initialized"), StoreFields)
  <2>1. mu \in Local
    BY <1>1, <1>3, LocalEntry DEF LocalToLocal
  <2>2. At(s, "mu_field_inits", mu) \in (SUBSET FieldIndex) \cup {Absent}
    BY <1>1, <2>1, AtTyped, EntryTypes
  <2>3. written \in SUBSET FieldIndex
    BY <1>1, <1>3, <2>2
  <2> HIDE DEF mu, written
  <2>4. Changes(r, s1, StoreFields)
    BY <2>1, <2>3, ThenPut, EntryTypes, StoreHas
  <2> HIDE DEF s1
  <2>5. "Initialized" \in InitState
    BY DEF InitState
  <2>6. QED
    BY <2>1, <2>4, <2>5, ThenPut, EntryTypes, StoreHas
<1> HIDE DEF skip, s1, mu, written
<1>4. QED
  BY <1>2, <1>3

\* A store through a projection writes only the store's fields.
LEMMA ThenStoreThrough ==
  ASSUME NEW r, NEW s, Changes(r, s, StoreFields), NEW dst \in Places, NEW rv \in Rvalues
  PROVE  Changes(r, StoreThrough(s, dst, rv), StoreFields)
<1> DEFINE s1 == StoreOwnership(s, dst, RvalueLocal(rv))
           s2 == IF Ty(dst.local).union /\ SimpleField(dst) # NoField
                 THEN Put(s1, "active_variant", dst.local, SimpleField(dst)) ELSE s1
<1>1. StoreThrough(s, dst, rv) = StoreUninit(s2, dst)
  BY DEF StoreThrough
<1>2. Changes(r, s1, StoreFields)
  BY SourceParts, ThenStoreOwnership
<1> HIDE DEF s1
<1>3. Changes(r, s2, StoreFields)
  BY <1>2, PlaceParts, ThenPut, EntryTypes, StoreHas
<1> HIDE DEF s2
<1>4. QED
  BY <1>1, <1>3, ThenStoreUninit

\* apply_statement keeps the types, and the fields that only terminators
\* change.
THEOREM StatementTyped ==
  ASSUME NEW s \in States, NEW st \in Assignments
  PROVE  Changes(s, ApplyStatement(s, st), AssignFields)
<1> DEFINE s0 == InvalidateOwner(s, st.dst.local)
<1>1. st.dst \in Places /\ st.dst.local \in Local /\ st.rv \in Rvalues
  BY PlaceParts DEF Assignments
<1>2. ApplyStatement(s, st) = IF IsPlain(st.dst) THEN AssignLocal(s0, st.dst.local, st.rv)
                              ELSE StoreThrough(s0, st.dst, st.rv)
  BY DEF ApplyStatement
<1>3. Changes(s, s0, AssignFields)
  BY ChangesRefl, ThenInvalidateOwners, AssignHas DEF InvalidateOwner
<1> HIDE DEF s0
<1>4. Changes(s, StoreThrough(s0, st.dst, st.rv), AssignFields)
  <2>1. s0 \in States
    BY <1>3 DEF Changes
  <2>2. Changes(s0, StoreThrough(s0, st.dst, st.rv), StoreFields)
    BY <1>1, <2>1, ChangesRefl, ThenStoreThrough
  <2>3. QED
    BY Zenon, <1>3, <2>2, ThenChanges, StoreHas
<1>5. QED
  BY <1>1, <1>2, <1>3, <1>4, ThenAssignLocal
-----------------------------------------------------------------------------
(***************************************************************************)
(* Calls: what every call does.                                            *)
(***************************************************************************)
\* What the handler of a callee may change ...
EffectFields == Basics \cup {"points_to", "heap", "owner_alias", "typestate",
                             "untracked_forget_seen", "mu_raw_ptr"}

\* ... a call that starts no thread ...
QuietFields == EffectFields \cup Redefined \cup {"realloced_params", "layout_overflow"}

\* ... and any call.
CallFields == QuietFields \cup {"thread_spawned"}

\* From s to t, thread_spawned is raised, if it is tracked, when b holds.
RaisesSpawned(s, t, b) ==
  "thread_spawned" \in Fields => t["thread_spawned"] = (s["thread_spawned"] \/ b)

\* The fields that a call writes, by group. Only the spawn of a thread writes thread_spawned.
LEMMA CallHas ==
  /\ EffectFields \subseteq QuietFields /\ Redefined \subseteq QuietFields
  /\ QuietFields \subseteq CallFields
  /\ "thread_spawned" \in CallFields /\ "thread_spawned" \notin QuietFields
  /\ Basics \subseteq EffectFields
  /\ {"local_proto", "init", "buf_written", "points_to", "heap", "owner_alias", "typestate",
      "untracked_forget_seen", "mu_raw_ptr"} \subseteq EffectFields
  /\ {"has_spare", "is_full", "len_of", "cap_of", "nan_if_true", "finite_if_true", "ref_base",
      "fd_origin", "fd_consumed", "ne_pair_if_true", "eq_pair_if_true", "nonzero",
      "const_upper", "const_lower"} \subseteq Redefined
  /\ {"realloced_params", "layout_overflow"} \subseteq QuietFields
<1>1. /\ EffectFields \subseteq QuietFields /\ Redefined \subseteq QuietFields
      /\ QuietFields \subseteq CallFields /\ "thread_spawned" \in CallFields
      /\ Basics \subseteq EffectFields
      /\ {"realloced_params", "layout_overflow"} \subseteq QuietFields
  BY DEF CallFields, QuietFields, EffectFields
<1>2. "thread_spawned" \notin QuietFields
  <2>1. "thread_spawned" \notin Redefined
    BY DEF Redefined, CollectionFacts, RangeFacts, PairFacts
  <2>2. "thread_spawned" \notin EffectFields
    BY DEF EffectFields, Basics, CompareFacts
  <2>3. QED
    BY <2>1, <2>2 DEF QuietFields
<1>3. {"local_proto", "init", "buf_written", "points_to", "heap", "owner_alias", "typestate",
       "untracked_forget_seen", "mu_raw_ptr"} \subseteq EffectFields
  BY DEF EffectFields, Basics
<1>4. {"has_spare", "is_full", "len_of", "cap_of", "nan_if_true", "finite_if_true", "ref_base",
       "fd_origin", "fd_consumed", "ne_pair_if_true", "eq_pair_if_true", "nonzero",
       "const_upper", "const_lower"} \subseteq Redefined
  BY DEF Redefined, CollectionFacts, RangeFacts, PairFacts, Basics
<1>5. QED
  BY <1>1, <1>2, <1>3, <1>4

\* Making the pointers into a reallocated collection stale writes the heap, what they point to and
\* realloced_params.
LEMMA ThenMarkStale ==
  ASSUME NEW r, NEW s, Changes(r, s, QuietFields), NEW recv \in Local
  PROVE  Changes(r, MarkStale(s, recv), QuietFields)
<1> DEFINE owners == IF OwnersOf(s, recv) = {} THEN {recv} ELSE OwnersOf(s, recv)
           stale  == {p \in Local : ~IsRef(p) /\ OwnersOf(s, p) \cap owners # {}}
           ids    == {REALLOC_BASE + p : p \in stale}
           t == MarkStale(s, recv)
           F == {"realloced_params", "heap", "points_to", "owner_alias"}
<1>1. s \in States /\ DOMAIN s = Fields /\ \A f \in Fields : s[f] \in FieldType(f)
  BY StateForm DEF Changes
<1>2. owners \subseteq Local /\ stale \subseteq Local
  BY <1>1, OwnersTyped
<1>3. t = [f \in Fields |->
       CASE f = "realloced_params" -> s[f] \cup {o \in owners : IsParam(o)}
         [] f = "heap" -> [o \in DOMAIN s[f] |-> IF o \in ids THEN "MaybeFreed" ELSE s[f][o]]
         [] f = "points_to" ->
              [l \in DOMAIN s[f] |-> IF l \in stale THEN {REALLOC_BASE + l} ELSE s[f][l]]
         [] f = "owner_alias" -> [l \in DOMAIN s[f] |-> IF l \in stale THEN {} ELSE s[f][l]]
         [] OTHER -> s[f]]
  BY <1>1 DEF MarkStale
<1> HIDE DEF t, owners, stale, ids
<1>4. t = [f \in DOMAIN s |-> t[f]] /\ \A f \in Fields \ F : t[f] = s[f]
  BY <1>1, <1>3
<1>5. ASSUME NEW f \in Fields, f = "realloced_params" PROVE t[f] \in FieldType(f)
  <2>1. t[f] = s[f] \cup {o \in owners : IsParam(o)}
    BY <1>3, <1>5
  <2>2. FieldType(f) = SUBSET Local
    BY <1>5, FieldTypes, SetTypes DEF SetFields, MaySets, PairSets
  <2>3. QED
    BY <1>1, <1>2, <2>1, <2>2
<1>6. ASSUME NEW f \in Fields, f = "heap" PROVE t[f] \in FieldType(f)
  <2>1. t[f] = [o \in DOMAIN s[f] |-> IF o \in ids THEN "MaybeFreed" ELSE s[f][o]]
    BY <1>3, <1>6
  <2>2. FieldType(f) = [ObjIds -> HeapState \cup {Absent}] /\ "MaybeFreed" \in HeapState
    BY <1>6, FieldTypes DEF HeapState
  <2>3. QED
    BY <1>1, <2>1, <2>2
<1>7. ASSUME NEW f \in Fields, f = "points_to" PROVE t[f] \in FieldType(f)
  <2>1. t[f] = [l \in DOMAIN s[f] |-> IF l \in stale THEN {REALLOC_BASE + l} ELSE s[f][l]]
    BY <1>3, <1>7
  <2>2. FieldType(f) = [Local -> SUBSET ObjIds]
    BY <1>7, FieldTypes, EntryTypes
  <2>3. \A l \in Local : REALLOC_BASE + l \in ObjIds
    BY IdAssumption
  <2>4. QED
    BY <1>1, <2>1, <2>2, <2>3
<1>8. ASSUME NEW f \in Fields, f = "owner_alias" PROVE t[f] \in FieldType(f)
  <2>1. t[f] = [l \in DOMAIN s[f] |-> IF l \in stale THEN {} ELSE s[f][l]]
    BY <1>3, <1>8
  <2>2. FieldType(f) = [Local -> SUBSET Local]
    BY <1>8, FieldTypes, EntryTypes
  <2>3. QED
    BY <1>1, <2>1, <2>2
<1>9. Changes(s, t, F)
  BY <1>1, <1>4, <1>5, <1>6, <1>7, <1>8, RebuildTyped
<1>10. F \subseteq QuietFields
  BY CallHas
<1>11. QED
  BY <1>9, <1>10, ThenChanges DEF t

\* The capacity facts that a mutating call kills are a call's own fields.
LEMMA ThenKillCapacity ==
  ASSUME NEW r, NEW s, Changes(r, s, QuietFields), NEW args
  PROVE  Changes(r, KillCapacity(s, args), QuietFields)
<1> DEFINE bases == {DerefBase(s, l) : l \in {m \in ArgLocals(args) :
                       (IsRef(m) \/ IsRawPtr(m)) /\ Ty(m).mutable}}
           t == KillCapacity(s, args)
           F == {"has_spare", "is_full"}
<1>1. s \in States /\ DOMAIN s = Fields /\ \A f \in Fields : s[f] \in FieldType(f)
  BY StateForm DEF Changes
<1>2. t = [f \in DOMAIN s |-> IF f \in {"has_spare", "is_full"} THEN s[f] \ bases ELSE s[f]]
  BY DEF KillCapacity
<1> HIDE DEF t, bases
<1>3. \A f \in Fields \cap F : FieldType(f) = SUBSET KeyType(f)
  BY FieldTypes DEF SetFields, MustSets
<1>4. ASSUME NEW f \in Fields PROVE IF f \in F THEN t[f] \in FieldType(f) ELSE t[f] = s[f]
  BY <1>1, <1>2, <1>3
<1>5. t = [f \in DOMAIN s |-> t[f]]
  BY <1>2
<1>6. Changes(s, t, F)
  BY <1>1, <1>4, <1>5, RebuildTyped
<1>7. F \subseteq QuietFields
  BY CallHas
<1>8. QED
  BY <1>6, <1>7, ThenChanges DEF t

\* The loop over the arguments that escape.
Escaping == INSTANCE LoopProofs WITH Op <- EscapeRawPtrArg

\* Induction, for the loop over EscapeRawPtrArg.
LEMMA EscapingInducts == Escaping!Induction
  BY InductionUpTo DEF Escaping!Induction

\* Escaping every argument of an unrecognised call writes only the fields of ownership.
LEMMA ThenEscapeRawPtrArgs ==
  ASSUME NEW r, NEW s, NEW F, Changes(r, s, F), NEW args \in Seq(Operands), EffectFields \subseteq F
  PROVE  Changes(r, EscapeRawPtrArgs(s, args), F)
<1> DEFINE T == {t \in States : Changes(r, t, F)}
<1>1. s \in T
  BY DEF Changes
<1>2. ASSUME NEW t \in T, NEW arg \in Operands PROVE EscapeRawPtrArg(t, arg) \in T
  <2>1. OperandLocal(arg) # NoLocal => Changes(r, EscapeLocal(t, OperandLocal(arg)), F)
    BY OperandParts, ThenEscapeLocal, CallHas
  <2>2. Changes(r, EscapeRawPtrArg(t, arg), F)
    BY <2>1 DEF EscapeRawPtrArg
  <2>3. QED
    BY <2>2 DEF Changes
<1> HIDE DEF T
<1>3. ForEach(EscapeRawPtrArg, s, args) \in T
  BY <1>1, <1>2, EscapingInducts, Escaping!LoopKeeps, Zenon DEF Escaping!ForEach, ForEach
<1>4. QED
  BY <1>3 DEF T, EscapeRawPtrArgs

\* A fact of the result that names the receiver, when there is one.
LEMMA ThenTie ==
  ASSUME NEW r, NEW s, NEW F, Changes(r, s, F), NEW f \in LocalToLocal, f \in F, NEW dest \in Local,
         NEW b, NEW v, b => v \in Local
  PROVE  Changes(r, IF b THEN Put(s, f, dest, v) ELSE s, F)
  BY ThenPutLocal

\* A tracked flag is a Boolean.
LEMMA FlagTyped ==
  ASSUME NEW s \in States, "thread_spawned" \in Fields
  PROVE  s["thread_spawned"] \in BOOLEAN
<1>1. FieldType("thread_spawned") = BOOLEAN
  BY DEF FieldType, Flags, LatticeMaps, MayMaps, MaySets, MustSets, FirstWinsMaps, AgreeMaps, BoundMaps, MustMaps
<1>2. QED
  BY <1>1, StateForm

\* What a call is observed to be writes only call fields, and thread_spawned is raised by a spawn
\* alone.
LEMMA ObserveTyped ==
  ASSUME NEW s \in States, NEW fn, NEW args \in Seq(Operands), NEW dest \in Local
  PROVE  /\ Changes(s, Observe(s, fn, args, dest), CallFields)
         /\ RaisesSpawned(s, Observe(s, fn, args, dest), PathIs(fn, "spawn"))
<1> DEFINE recv == FirstArgLocal(args)
           a == NthArgLocal(args, 1)
           b == NthArgLocal(args, 2)
           pair == <<DerefBase(s, a), DerefBase(s, b)>>
           t1 == IF PathIs(fn, "len") /\ recv # NoLocal THEN Put(s, "len_of", dest, DerefBase(s, recv)) ELSE s
           s1 == IF PathIs(fn, "capacity") /\ recv # NoLocal THEN Put(t1, "cap_of", dest, DerefBase(s, recv)) ELSE t1
           t2 == IF PathIs(fn, "is_nan") /\ recv # NoLocal THEN Put(s1, "nan_if_true", dest, recv) ELSE s1
           s2 == IF PathIs(fn, "is_finite") /\ recv # NoLocal THEN Put(t2, "finite_if_true", dest, recv) ELSE t2
           s3 == IF PathIs(fn, "deref") /\ recv # NoLocal THEN Put(s2, "ref_base", dest, DerefBase(s2, recv)) ELSE s2
           s4 == IF PathIs(fn, "into_raw_fd") THEN Insert(s3, "fd_origin", dest)
                 ELSE IF PathIs(fn, "from_raw_fd") /\ recv # NoLocal
                 THEN Insert(s3, "fd_consumed", recv) ELSE s3
           s5 == ThreadSpawn(s4, fn)
           compared == Len(args) = 2 /\ (PathIs(fn, "ne") \/ PathIs(fn, "eq"))
                         /\ NthArgLocal(args, 1) # NoLocal /\ NthArgLocal(args, 2) # NoLocal
           field == IF PathIs(fn, "ne") THEN "ne_pair_if_true" ELSE "eq_pair_if_true"
<1>1. Observe(s, fn, args, dest) = IF compared THEN Put(s5, field, dest, pair) ELSE s5
  BY DEF Observe
<1>2. recv \in Local \cup {NoLocal} /\ a \in Local \cup {NoLocal} /\ b \in Local \cup {NoLocal}
  BY ArgParts
<1>3. {"len_of", "cap_of", "nan_if_true", "finite_if_true", "ref_base"} \subseteq LocalToLocal \cap QuietFields
  BY CallHas DEF LocalToLocal
<1>4. \A f \in {"fd_origin", "fd_consumed"} : f \in SetFields /\ KeyType(f) = Local /\ f \in QuietFields
  BY SetTypes, CallHas DEF SetFields, MaySets, MustSets, PairSets
<1>5. compared => pair \in Local \X Local
  BY <1>2, DerefBaseTyped DEF Changes
<1>6. field \in PairMaps /\ field \in QuietFields
  BY CallHas DEF PairMaps
<1> HIDE DEF recv, compared, pair, field
<1>7. recv # NoLocal => DerefBase(s, recv) \in Local
  BY <1>2, DerefBaseTyped DEF Changes
<1>8. Changes(s, t1, QuietFields)
  BY Zenon, <1>3, <1>7, ChangesRefl, ThenTie
<1> HIDE DEF t1
<1>9. Changes(s, s1, QuietFields)
  BY <1>3, <1>7, <1>8, ThenTie
<1> HIDE DEF s1
<1>10. Changes(s, t2, QuietFields)
  BY Zenon, <1>2, <1>3, <1>9, ThenTie
<1> HIDE DEF t2
<1>11. Changes(s, s2, QuietFields)
  BY Zenon, <1>2, <1>3, <1>10, ThenTie
<1> HIDE DEF s2
<1>12. Changes(s, s3, QuietFields)
  <2>1. recv # NoLocal => DerefBase(s2, recv) \in Local
    BY <1>2, <1>11, DerefBaseTyped DEF Changes
  <2>2. QED
    BY <1>3, <1>11, <2>1, ThenTie
<1> HIDE DEF s3
<1>13. Changes(s, s4, QuietFields)
  BY <1>2, <1>4, <1>12, ThenInsert
<1> HIDE DEF s4
<1>14. Changes(s, s5, CallFields) /\ RaisesSpawned(s, s5, PathIs(fn, "spawn"))
  <2>1. Changes(s, s4, CallFields)
    BY <1>13, ChangesWiden, CallHas
  <2>2. Changes(s, s5, CallFields)
    BY <2>1, ThenRaise, CallHas DEF ThreadSpawn, Flags
  <2>3. ASSUME "thread_spawned" \in Fields
        PROVE  s5["thread_spawned"] = (s["thread_spawned"] \/ PathIs(fn, "spawn"))
    <3>1. s4["thread_spawned"] = s["thread_spawned"]
      BY <1>13, <2>3, CallHas DEF Changes
    <3>2. s["thread_spawned"] \in BOOLEAN
      BY <2>3, FlagTyped
    <3>3. PathIs(fn, "spawn") => s5["thread_spawned"] = TRUE
      BY <1>13, <2>3, StateForm DEF ThreadSpawn, Raise, Changes
    <3>4. ~PathIs(fn, "spawn") => s5 = s4
      BY DEF ThreadSpawn
    <3>5. QED
      BY Zenon, <3>1, <3>2, <3>3, <3>4
  <2>4. QED
    BY <2>2, <2>3 DEF RaisesSpawned
<1> HIDE DEF s5
<1>15. ASSUME compared
       PROVE  LET t == Put(s5, field, dest, pair) IN
              Changes(s, t, CallFields) /\ RaisesSpawned(s, t, PathIs(fn, "spawn"))
  <2>1. Changes(s5, Put(s5, field, dest, pair), QuietFields)
    BY <1>5, <1>6, <1>14, <1>15, ChangesRefl, ThenPut, EntryTypes DEF Changes
  <2>2. QED
    BY <1>14, <2>1, ThenChanges, CallHas DEF RaisesSpawned, Changes
<1>16. QED
  BY <1>1, <1>14, <1>15
-----------------------------------------------------------------------------
(***************************************************************************)
(* The handlers.                                                           *)
(***************************************************************************)
LEMMA ThenFresh ==
  ASSUME NEW r, NEW s, NEW F, Changes(r, s, F), EffectFields \subseteq F, NEW dest \in Local
  PROVE  Changes(r, Fresh(s, dest), F)
<1>1. Basics \ {"local_proto"} \subseteq PerLocal /\ Basics \ {"local_proto"} \subseteq F
  BY ClearedPerLocal, CallHas
<1>2. QED
  BY <1>1, ThenClear DEF Fresh

\* A realloc of a raw allocation writes only the fields of ownership.
LEMMA RawReallocTyped ==
  ASSUME NEW s \in States, NEW bb \in Blocks, NEW args \in Seq(Operands), NEW dest \in Local
  PROVE  Changes(s, RawRealloc(s, bb, args, dest), EffectFields)
<1> DEFINE src == FirstArgLocal(args)
           s1 == IF src = NoLocal THEN s ELSE Reconstitute(s, src)
           s2 == Allocate(s1, dest, bb)
<1>1. RawRealloc(s, bb, args, dest) = Fresh(s2, dest)
  BY DEF RawRealloc
<1>2. src \in Local \cup {NoLocal}
  BY ArgParts
<1> HIDE DEF src
<1>3. Changes(s, s1, EffectFields)
  BY Zenon, <1>2, ChangesRefl, ThenReconstitute, CallHas
<1> HIDE DEF s1
<1>4. Changes(s, s2, EffectFields)
  BY <1>3, ThenAllocate, CallHas, IdAssumption
<1> HIDE DEF s2
<1>5. QED
  BY <1>1, <1>4, ThenFresh

\* An into_raw writes only the fields of ownership.
LEMMA IntoRawTyped ==
  ASSUME NEW s \in States, NEW bb \in Blocks, NEW dest \in Local
  PROVE  Changes(s, IntoRaw(s, bb, dest), EffectFields)
<1>1. Changes(s, Allocate(s, dest, bb), EffectFields)
  BY Zenon, ChangesRefl, ThenAllocate, CallHas, IdAssumption
<1>2. QED
  BY <1>1, ThenFresh DEF IntoRaw

\* A from_raw writes only the fields of ownership.
LEMMA FromRawTyped ==
  ASSUME NEW s \in States, NEW args \in Seq(Operands), NEW dest \in Local
  PROVE  Changes(s, FromRaw(s, args, dest), EffectFields)
<1> DEFINE src == FirstArgBaseLocal(args)
           s1 == IF src = NoLocal THEN s ELSE Reconstitute(s, src)
           s2 == PointTo(s1, dest, {})
           s3 == Put(s2, "owner_alias", dest, {})
<1>1. FromRaw(s, args, dest) =
        IF src = NoLocal THEN s3 ELSE Put(s3, "owner_alias", dest, OwnersOf(s3, src))
  BY DEF FromRaw
<1>2. src \in Local \cup {NoLocal}
  BY ArgParts
<1> HIDE DEF src
<1>3. Changes(s, s1, EffectFields)
  BY Zenon, <1>2, ChangesRefl, ThenReconstitute, CallHas
<1> HIDE DEF s1
<1>4. Changes(s, s2, EffectFields)
  BY <1>3, ThenPointTo, CallHas
<1> HIDE DEF s2
<1>5. Changes(s, s3, EffectFields)
  BY <1>4, ThenPut, EntryTypes, CallHas
<1> HIDE DEF s3
<1>6. src # NoLocal => OwnersOf(s3, src) \in SUBSET Local
  BY <1>2, <1>5, OwnersTyped DEF Changes
<1>7. src # NoLocal => Changes(s, Put(s3, "owner_alias", dest, OwnersOf(s3, src)), EffectFields)
  BY <1>5, <1>6, ThenPut, EntryTypes, CallHas
<1>8. QED
  BY <1>1, <1>5, <1>7

\* A mem::forget writes only the fields of ownership and protocols.
LEMMA MemForgetTyped ==
  ASSUME NEW s \in States, NEW args \in Seq(Operands), NEW dest \in Local
  PROVE  Changes(s, MemForget(s, args, dest), EffectFields)
<1> DEFINE src == FirstArgBaseLocal(args)
           protos == At(s, "local_proto", src)
           s0 == SetHeap(s, ObjectsFor(s, src), "Escaped", {})
           s1 == SetProtocols(s0, protos, "Forgotten")
           s2 == IF protos = {} /\ Ty(src).guard THEN Raise(s1, "untracked_forget_seen") ELSE s1
           s3 == Clear(s2, {"points_to", "local_proto", "init", "buf_written"}, src)
           s4 == IF src = NoLocal THEN s ELSE s3
<1>1. MemForget(s, args, dest) = PointTo(s4, dest, {})
  BY DEF MemForget
<1>2. src \in Local \cup {NoLocal}
  BY ArgParts
<1> HIDE DEF src
<1>3. Changes(s, s0, EffectFields)
  BY Zenon, ChangesRefl, ThenSetHeap, CallHas DEF HeapState
<1> HIDE DEF s0
<1>4. Changes(s, s1, EffectFields)
  BY <1>3, ThenSetProtocols, CallHas DEF ProtocolState
<1> HIDE DEF s1
<1>5. Changes(s, s2, EffectFields)
  BY <1>4, ThenRaise, CallHas DEF Flags
<1> HIDE DEF s2
<1>6. {"points_to", "local_proto", "init", "buf_written"} \subseteq EffectFields
      /\ {"points_to", "local_proto", "init", "buf_written"} \subseteq PerLocal
  BY CallHas, ClearedPerLocal
<1>7. Changes(s, s4, EffectFields)
  BY <1>2, <1>5, <1>6, ThenClear, ChangesRefl
<1> HIDE DEF s4
<1>8. QED
  BY <1>1, <1>7, ThenPointTo, CallHas

\* The creation of a guard writes only the fields of ownership and protocols.
LEMMA GuardTyped ==
  ASSUME NEW s \in States, NEW bb \in Blocks, NEW dest \in Local
  PROVE  Changes(s, Guard(s, bb, dest), EffectFields)
<1> DEFINE v == At(s, "local_proto", dest) \cup {bb}
           s1 == Put(s, "local_proto", dest, v)
           s2 == SetProtocols(s1, {bb}, "Active")
<1>1. Guard(s, bb, dest) = Fresh(s2, dest)
  BY DEF Guard
<1>2. v \in SUBSET Blocks
  BY AtTyped, EntryTypes
<1> HIDE DEF v
<1>3. Changes(s, s1, EffectFields)
  BY Zenon, <1>2, ChangesRefl, ThenPut, EntryTypes, CallHas
<1> HIDE DEF s1
<1>4. Changes(s, s2, EffectFields)
  BY <1>3, ThenSetProtocols, CallHas DEF ProtocolState
<1> HIDE DEF s2
<1>5. QED
  BY <1>1, <1>4, ThenFresh

\* A call that hands its argument on writes what its destination points to.
LEMMA ThenThrough ==
  ASSUME NEW r, NEW s, Changes(r, s, EffectFields), NEW args \in Seq(Operands), NEW dest \in Local
  PROVE  Changes(r, Through(s, args, dest), EffectFields)
<1> DEFINE objs == IF FirstArgLocal(args) = NoLocal THEN {} ELSE ObjectsFor(s, FirstArgLocal(args))
<1>1. objs \in SUBSET ObjIds
  BY ArgParts, ObjectsTyped DEF Changes
<1>2. Through(s, args, dest) = PointTo(s, dest, objs)
  BY DEF Through
<1> HIDE DEF objs
<1>3. QED
  BY <1>1, <1>2, ThenPointTo, CallHas

\* An assume_init writes only the fields of initialisation.
LEMMA AssumeInitTyped ==
  ASSUME NEW s \in States, NEW args \in Seq(Operands), NEW dest \in Local
  PROVE  Changes(s, AssumeInit(s, args, dest), EffectFields)
<1> DEFINE src == FirstArgLocal(args)
           s1 == IF src = NoLocal THEN s ELSE Clear(s, {"init"}, src)
<1>1. AssumeInit(s, args, dest) = Through(s1, args, dest)
  BY DEF AssumeInit
<1>2. Changes(s, s1, EffectFields)
  BY Zenon, ArgParts, ChangesRefl, ThenClear, ClearedPerLocal, CallHas
<1> HIDE DEF s1
<1>3. QED
  BY <1>1, <1>2, ThenThrough

\* The creation of a MaybeUninit, a write to it and its raw pointer write only the fields of
\* initialisation.
LEMMA MaybeUninitTyped ==
  ASSUME NEW s \in States, NEW args \in Seq(Operands), NEW dest \in Local
  PROVE  /\ Changes(s, MaybeUninitInit(s, args, dest), EffectFields)
         /\ Changes(s, MaybeUninitWrite(s, args, dest), EffectFields)
         /\ Changes(s, MaybeUninitAsMutPtr(s, args, dest), EffectFields)
<1> DEFINE self_ref == FirstArgLocal(args)
           w == IF self_ref = NoLocal THEN s ELSE Put(s, "init", DerefBase(s, self_ref), "Initialized")
           m == IF self_ref = NoLocal THEN s ELSE Put(s, "mu_raw_ptr", dest, DerefBase(s, self_ref))
<1>1. "Initialized" \in EntryType("init")
  BY EntryTypes DEF InitState
<1>2. self_ref # NoLocal => self_ref \in Local /\ DerefBase(s, self_ref) \in Local
  BY ArgParts, DerefBaseTyped
<1>3. Changes(s, MaybeUninitInit(s, args, dest), EffectFields)
  <2>1. Changes(s, Through(s, args, dest), EffectFields)
    BY ChangesRefl, ThenThrough
  <2>2. QED
    BY <1>1, <2>1, ThenPut, EntryTypes, CallHas DEF MaybeUninitInit
<1>4. Changes(s, MaybeUninitWrite(s, args, dest), EffectFields)
  <2>1. MaybeUninitWrite(s, args, dest) = Clear(w, Basics, dest)
    BY DEF MaybeUninitWrite
  <2> HIDE DEF self_ref
  <2>2. Changes(s, w, EffectFields)
    BY Zenon, <1>1, <1>2, ChangesRefl, ThenPut, EntryTypes, CallHas
  <2> HIDE DEF w
  <2>3. QED
    BY <2>1, <2>2, ThenClear, ClearedPerLocal, CallHas
<1>5. Changes(s, MaybeUninitAsMutPtr(s, args, dest), EffectFields)
  <2>1. MaybeUninitAsMutPtr(s, args, dest) = Clear(m, Basics, dest)
    BY DEF MaybeUninitAsMutPtr
  <2> HIDE DEF self_ref
  <2>2. Changes(s, m, EffectFields)
    BY Zenon, <1>2, ChangesRefl, ThenPutLocal, CallHas DEF LocalToLocal
  <2> HIDE DEF m
  <2>3. QED
    BY <2>1, <2>2, ThenClear, ClearedPerLocal, CallHas
<1>6. QED
  BY <1>3, <1>4, <1>5

\* A write to a buffer marks the buffer as written.
LEMMA BufWriteTyped ==
  ASSUME NEW s \in States, NEW args \in Seq(Operands), NEW dest \in Local
  PROVE  Changes(s, BufWrite(s, args, dest), EffectFields)
<1> DEFINE buf == FirstArgLocal(args)
           s1 == IF buf = NoLocal THEN s ELSE Insert(s, "buf_written", buf)
<1>1. BufWrite(s, args, dest) = PointTo(s1, dest, {})
  BY DEF BufWrite
<1>2. "buf_written" \in SetFields /\ KeyType("buf_written") = Local
  BY SetTypes DEF SetFields, MustSets, PairSets
<1>3. Changes(s, s1, EffectFields)
  BY Zenon, <1>2, ArgParts, ChangesRefl, ThenInsert, CallHas
<1> HIDE DEF s1
<1>4. QED
  BY <1>1, <1>3, ThenPointTo, CallHas

\* The loop over the effects of a summary.
Applying == INSTANCE LoopProofs WITH Op <- ApplyEffect

\* Induction, for the loop over ApplyEffect.
LEMMA ApplyingInducts == Applying!Induction
  BY InductionUpTo DEF Applying!Induction

\* Applying a summary's parameter effects, one argument after another, writes only the fields of
\* ownership.
LEMMA ThenApplyEffects ==
  ASSUME NEW s \in States, NEW args \in Seq(Operands),
         NEW effects \in Seq([param : Nat, effect : {"Reconstituted", "Escaped"}])
  PROVE  Changes(s, ForEach(ApplyEffect, s, ArgEffects(args, effects)), EffectFields)
<1> DEFINE T == {t \in States : Changes(s, t, EffectFields)}
           E == [arg : Local \cup {NoLocal}, effect : {"Reconstituted", "Escaped"}]
           seq == ArgEffects(args, effects)
<1>1. s \in T
  BY ChangesRefl
<1>2. ASSUME NEW t \in T, NEW e \in E PROVE ApplyEffect(t, e) \in T
  <2>1. CASE e.arg = NoLocal
    BY <2>1 DEF ApplyEffect
  <2>2. CASE e.arg # NoLocal /\ e.effect = "Reconstituted"
    <3>1. ApplyEffect(t, e) = Clear(Reconstitute(t, e.arg), {"local_proto"}, e.arg)
      BY <2>2 DEF ApplyEffect
    <3>2. Changes(s, Reconstitute(t, e.arg), EffectFields)
      BY <2>2, ThenReconstitute, CallHas
    <3>3. Changes(s, Clear(Reconstitute(t, e.arg), {"local_proto"}, e.arg), EffectFields)
      BY <2>2, <3>2, ThenClear, ClearedPerLocal, CallHas
    <3>4. QED
      BY <3>1, <3>3 DEF Changes
  <2>3. CASE e.arg # NoLocal /\ e.effect = "Escaped"
    <3>1. ApplyEffect(t, e) = EscapeLocal(t, e.arg)
      BY <2>3 DEF ApplyEffect
    <3>2. Changes(s, EscapeLocal(t, e.arg), EffectFields)
      BY <2>3, ThenEscapeLocal, CallHas
    <3>3. QED
      BY <3>1, <3>2 DEF Changes
  <2>4. QED
    BY <2>1, <2>2, <2>3
<1>3. seq \in Seq(E)
  <2>1. DOMAIN effects = 1..Len(effects) /\ Len(effects) \in Nat
    OBVIOUS
  <2>2. \A i \in 1..Len(effects) :
          effects[i].param \in Nat /\ effects[i].effect \in {"Reconstituted", "Escaped"}
    <3> DEFINE R == [param : Nat, effect : {"Reconstituted", "Escaped"}]
    <3>1. effects \in Seq(R)
      OBVIOUS
    <3> HIDE DEF R
    <3>2. \A i \in 1..Len(effects) : effects[i] \in R
      BY <3>1
    <3>3. QED
      BY <3>2 DEF R
  <2>3. \A i \in 1..Len(effects) : NthArgLocal(args, effects[i].param) \in Local \cup {NoLocal}
    BY <2>2, ArgParts
  <2>4. seq \in [1..Len(effects) -> E]
    BY <2>1, <2>2, <2>3 DEF ArgEffects
  <2> HIDE DEF seq, E
  <2>5. QED
    BY <2>1, <2>4
<1> HIDE DEF T, E, seq
<1>4. ForEach(ApplyEffect, s, seq) \in T
  BY <1>1, <1>2, <1>3, ApplyingInducts, Applying!LoopKeeps, Zenon DEF Applying!ForEach, ForEach
<1>5. QED
  BY <1>4 DEF T, seq

\* Adopting the objects of the argument that a summary says is returned writes the points-to map.
LEMMA ThenAdopt ==
  ASSUME NEW r, NEW s, NEW F, Changes(r, s, F), "points_to" \in F, NEW dest \in Local, NEW arg \in Local
  PROVE  Changes(r, Adopt(s, dest, arg), F)
<1>1. ObjectsFor(s, arg) \in SUBSET ObjIds
  BY ObjectsTyped DEF Changes
<1>2. QED
  BY <1>1, ThenPut, EntryTypes DEF Adopt

\* Of a summary's parameters only the ones the call has arguments for matter.
LEMMA ApplyFnSummaryTyped ==
  ASSUME NEW s \in States, NEW bb \in Blocks, NEW args \in Seq(Operands), NEW dest \in Local,
         NEW fn \in DOMAIN Summaries
  PROVE  Changes(s, ApplyFnSummary(s, bb, args, dest, Summaries[fn]), EffectFields)
<1> DEFINE sum == Summaries[fn]
           alias == NthArgLocal(args, sum.returns_alias_of_param)
           ptr   == NthArgLocal(args, sum.returns_ptr_of_param)
           s1 == ForEach(ApplyEffect, s, ArgEffects(args, sum.param_effects))
           s2 == IF sum.returns_raw_owned THEN Allocate(s1, dest, bb)
                 ELSE Clear(s1, {"points_to", "local_proto"}, dest)
           s3 == Put(s2, "owner_alias", dest, {})
           t  == Put(s3, "owner_alias", dest, ArgOwners(s3, alias))
           s4 == IF alias = NoLocal THEN s3
                 ELSE IF IsRawPtr(dest) THEN t ELSE Adopt(t, dest, alias)
<1>1. ApplyFnSummary(s, bb, args, dest, sum) = IF ptr = NoLocal THEN s4 ELSE Adopt(s4, dest, ptr)
  BY DEF ApplyFnSummary
<1>2. /\ sum.param_effects \in Seq([param : Nat, effect : {"Reconstituted", "Escaped"}])
      /\ sum["returns_alias_of_param"] \in Nat /\ sum["returns_ptr_of_param"] \in Nat
  BY SummariesAssumption
<1>3. alias \in Local \cup {NoLocal} /\ ptr \in Local \cup {NoLocal}
  BY <1>2, ArgParts
<1>4. Changes(s, s1, EffectFields)
  BY <1>2, ThenApplyEffects
<1> HIDE DEF s1, alias, ptr
<1>5. {"points_to", "local_proto"} \subseteq EffectFields /\ {"points_to", "local_proto"} \subseteq PerLocal
  BY CallHas, ClearedPerLocal
<1>6. Changes(s, s2, EffectFields)
  BY <1>4, <1>5, ThenAllocate, ThenClear, CallHas, IdAssumption
<1> HIDE DEF s2
<1>7. Changes(s, s3, EffectFields)
  BY <1>6, ThenPut, EntryTypes, CallHas
<1> HIDE DEF s3
<1>8. alias # NoLocal => ArgOwners(s3, alias) \in SUBSET Local
  BY <1>3, <1>7, OwnersTyped DEF ArgOwners, Changes
<1>9. alias # NoLocal => Changes(s, t, EffectFields)
  BY <1>7, <1>8, ThenPut, EntryTypes, CallHas
<1> HIDE DEF t
<1>10. alias # NoLocal => Changes(s, Adopt(t, dest, alias), EffectFields)
  BY <1>3, <1>9, ThenAdopt, CallHas
<1>11. Changes(s, s4, EffectFields)
  BY <1>7, <1>9, <1>10
<1> HIDE DEF s4
<1>12. ptr # NoLocal => Changes(s, Adopt(s4, dest, ptr), EffectFields)
  BY <1>3, <1>11, ThenAdopt, CallHas
<1>13. QED
  BY <1>1, <1>11, <1>12

\* A call of a summarised function writes only the fields of ownership.
LEMMA SummarisedTyped ==
  ASSUME NEW s \in States, NEW bb \in Blocks, NEW args \in Seq(Operands), NEW dest \in Local,
         NEW fn \in DOMAIN Summaries
  PROVE  Changes(s, Summarised(s, bb, fn, args, dest), EffectFields)
<1> DEFINE s1 == ApplyFnSummary(s, bb, args, dest, Summaries[fn])
           recover == /\ PathIs(fn, "owned_buffer_accessor")
                      /\ ObjectsFor(s1, dest) = {}
                      /\ FirstArgLocal(args) # NoLocal
           s2 == IF recover THEN Adopt(s1, dest, FirstArgLocal(args)) ELSE s1
<1>1. Summarised(s, bb, fn, args, dest) = Fresh(s2, dest)
  BY DEF Summarised
<1>2. Changes(s, s1, EffectFields)
  BY ApplyFnSummaryTyped
<1> HIDE DEF s1
<1>3. Changes(s, s2, EffectFields)
  BY <1>2, ArgParts, ThenAdopt, CallHas
<1> HIDE DEF s2
<1>4. QED
  BY <1>1, <1>3, ThenFresh

\* A call that nothing is known of writes only the fields of ownership.
LEMMA UnrecognisedTyped ==
  ASSUME NEW s \in States, NEW fn, NEW args \in Seq(Operands), NEW dest \in Local
  PROVE  Changes(s, Unrecognised(s, fn, args, dest), EffectFields)
<1> DEFINE arg0 == FirstArgLocal(args)
           arg1 == NthArgLocal(args, 2)
           wrote(l) == IF l = NoLocal \/ "buf_written" \notin Fields THEN s
                       ELSE [s EXCEPT !["buf_written"] = @ \cup OwnersOf(s, l)]
           t == IF OwnersOf(s, arg0) = {} THEN s ELSE Put(s, "owner_alias", dest, OwnersOf(s, arg0))
           view == IF arg0 = NoLocal THEN s ELSE Adopt(t, dest, arg0)
           s1 == IF PathIs(fn, "owned_buffer_accessor") THEN view
                 ELSE IF PathIs(fn, "ptr_write_to_first_arg") THEN wrote(arg0)
                 ELSE IF PathIs(fn, "ptr_copy_to_second_arg") THEN wrote(arg1)
                 ELSE IF PathIs(fn, "ptr_pure_read") THEN s
                 ELSE EscapeRawPtrArgs(s, args)
<1>1. Unrecognised(s, fn, args, dest) = Clear(s1, Basics, dest)
  BY DEF Unrecognised
<1>2. arg0 \in Local \cup {NoLocal} /\ arg1 \in Local \cup {NoLocal}
  BY ArgParts
<1> HIDE DEF arg0, arg1
<1>3. Changes(s, view, EffectFields)
  <2>1. ASSUME arg0 # NoLocal PROVE Changes(s, Adopt(t, dest, arg0), EffectFields)
    <3>1. OwnersOf(s, arg0) \in SUBSET Local
      BY <1>2, <2>1, OwnersTyped
    <3>2. Changes(s, t, EffectFields)
      BY Zenon, <3>1, ChangesRefl, ThenPut, EntryTypes, CallHas
    <3> HIDE DEF t
    <3>3. QED
      BY <1>2, <2>1, <3>2, ThenAdopt, CallHas
  <2>2. QED
    BY <2>1, ChangesRefl
<1>4. ASSUME NEW l \in Local \cup {NoLocal} PROVE Changes(s, wrote(l), EffectFields)
  <2>1. CASE l # NoLocal /\ "buf_written" \in Fields
    <3> DEFINE v == s["buf_written"] \cup OwnersOf(s, l)
    <3>1. DOMAIN s = Fields /\ s["buf_written"] \in FieldType("buf_written")
      BY <2>1, StateForm
    <3>2. FieldType("buf_written") = SUBSET Local
      BY <2>1, FieldTypes, SetTypes DEF SetFields, MustSets, PairSets
    <3>3. v \in FieldType("buf_written")
      BY <2>1, <3>1, <3>2, OwnersTyped
    <3>4. wrote(l) = [s EXCEPT !["buf_written"] = v]
      BY <2>1, <3>1
    <3> HIDE DEF v
    <3>5. Changes(s, [s EXCEPT !["buf_written"] = v], {"buf_written"})
      BY Zenon, <2>1, <3>3, UpdateTyped
    <3>6. QED
      BY <3>4, <3>5, ChangesWiden, CallHas
  <2>2. CASE ~(l # NoLocal /\ "buf_written" \in Fields)
    BY <2>2, ChangesRefl
  <2>3. QED
    BY <2>1, <2>2
<1>5. Changes(s, wrote(arg0), EffectFields) /\ Changes(s, wrote(arg1), EffectFields)
  BY Zenon, <1>2, <1>4
<1>6. Changes(s, EscapeRawPtrArgs(s, args), EffectFields)
  BY ChangesRefl, ThenEscapeRawPtrArgs
<1> HIDE DEF view, wrote
<1>7. Changes(s, s1, EffectFields)
  BY <1>3, <1>5, <1>6, ChangesRefl
<1> HIDE DEF s1
<1>8. QED
  BY <1>1, <1>7, ThenClear, ClearedPerLocal, CallHas

\* Whichever handler a callee has.
LEMMA EffectTyped ==
  ASSUME NEW s \in States, NEW bb \in Blocks, NEW fn, NEW args \in Seq(Operands), NEW dest \in Local
  PROVE  Changes(s, Effect(s, bb, fn, args, dest), EffectFields)
<1> DEFINE h == Handler(fn)
           matching == {i \in DOMAIN Handlers : PathIs(fn, Handlers[i])}
<1>1. DOMAIN Handlers = 1..12
  BY DEF Handlers
<1>2. matching # {} => Min(matching) \in 1..12
  <2>1. matching \subseteq Nat /\ matching \subseteq 1..12
    BY <1>1
  <2> HIDE DEF matching
  <2>2. matching # {} => \E n \in matching : \A k \in matching : n <= k
    BY Zenon, <2>1, LeastNatural
  <2>3. QED
    BY Zenon, <2>1, <2>2 DEF Min
<1>3. \A i \in 1..12 : Handlers[i] \in
        {"raw_realloc", "into_raw", "from_raw", "mem_forget", "epoch_pin", "lock_acquire",
         "assume_init", "maybe_uninit_init", "maybe_uninit_write", "maybe_uninit_as_mut_ptr",
         "buf_write", "ptr_read"}
  BY DEF Handlers
<1>4. h = IF matching # {} THEN Handlers[Min(matching)]
          ELSE IF fn \in DOMAIN Summaries THEN "summary" ELSE "unrecognised"
  BY DEF Handler
<1> HIDE DEF h, matching
<1>5. h \in {"raw_realloc", "into_raw", "from_raw", "mem_forget", "epoch_pin", "lock_acquire",
             "assume_init", "maybe_uninit_init", "maybe_uninit_write", "maybe_uninit_as_mut_ptr",
             "buf_write", "ptr_read", "summary", "unrecognised"}
      /\ (h = "summary" => fn \in DOMAIN Summaries)
  BY <1>2, <1>3, <1>4
<1>6. CASE h \in {"raw_realloc", "into_raw", "from_raw", "mem_forget"}
  BY <1>6, RawReallocTyped, IntoRawTyped, FromRawTyped, MemForgetTyped DEF Effect, h
<1>7. CASE h \in {"epoch_pin", "lock_acquire", "assume_init"}
  BY <1>7, GuardTyped, AssumeInitTyped DEF Effect, h
<1>8. CASE h \in {"maybe_uninit_init", "maybe_uninit_write", "maybe_uninit_as_mut_ptr"}
  BY <1>8, MaybeUninitTyped DEF Effect, h
<1>9. CASE h \in {"buf_write", "ptr_read", "summary", "unrecognised"}
  BY <1>5, <1>9, BufWriteTyped, ThenThrough, ChangesRefl, SummarisedTyped, UnrecognisedTyped
     DEF Effect, h
<1>10. QED
  BY <1>5, <1>6, <1>7, <1>8, <1>9
-----------------------------------------------------------------------------
(***************************************************************************)
(* Calls, asserts and drops.                                               *)
(***************************************************************************)
LEMMA ThenResultFacts ==
  ASSUME NEW r, NEW s, Changes(r, s, QuietFields), NEW fn, NEW args, NEW dest \in Local
  PROVE  Changes(r, ResultFacts(s, fn, args, dest), QuietFields)
<1> DEFINE s1 == EnforceTypeFacts(s, dest)
           s2 == IF PathIs(fn, "returns_non_null") THEN Insert(s1, "nonzero", dest) ELSE s1
           layout == /\ PathIs(fn, "layout_unchecked") /\ FirstArgLocal(args) # NoLocal
                     /\ Holds(s2, "mul_overflow", FirstArgLocal(args))
<1>1. ResultFacts(s, fn, args, dest) = IF layout THEN Insert(s2, "layout_overflow", dest) ELSE s2
  BY DEF ResultFacts
<1>2. \A f \in {"nonzero", "layout_overflow"} : f \in SetFields /\ KeyType(f) = Local /\ f \in QuietFields
  BY SetTypes, CallHas DEF SetFields, MaySets, MustSets, PairSets
<1>3. Changes(r, s1, QuietFields)
  BY ThenEnforceTypeFacts, CallHas
<1> HIDE DEF s1
<1>4. Changes(r, s2, QuietFields)
  BY <1>2, <1>3, ThenInsert
<1> HIDE DEF s2, layout
<1>5. QED
  BY <1>1, <1>2, <1>4, ThenInsert

\* The parameters that a summary names are positions in the argument list.
LEMMA SummaryParams ==
  ASSUME NEW fn
  PROVE  SummaryOf(fn).reallocs_param \in Nat /\ SummaryOf(fn).returns_alias_of_param \in Nat
<1>1. CASE fn \in DOMAIN Summaries
  <2>1. Summaries[fn]["reallocs_param"] \in Nat /\ Summaries[fn]["returns_alias_of_param"] \in Nat
    BY <1>1, SummariesAssumption
  <2>2. QED
    BY <1>1, <2>1 DEF SummaryOf
<1>2. CASE fn \notin DOMAIN Summaries
  BY <1>2 DEF SummaryOf, NoSummary
<1>3. QED
  BY <1>1, <1>2

\* A call keeps the types, and leaves alone what only assignments know of.
LEMMA CallTyped ==
  ASSUME NEW s \in States, NEW bb \in Blocks, NEW t \in Calls
  PROVE  /\ Changes(s, ApplyCall(s, bb, t), CallFields)
         /\ RaisesSpawned(s, ApplyCall(s, bb, t),
                          /\ Callee(s, t.func) # Absent /\ IsPlain(t.dest)
                          /\ PathIs(Callee(s, t.func), "spawn"))
<1> DEFINE fn == Callee(s, t.func)
           dest == t.dest.local
           recv == ReallocReceiver(fn, t.args)
           s1 == IF recv = NoLocal THEN s ELSE MarkStale(s, recv)
           s2 == InvalidateOwnerArgs(s1, t.args, SummaryOf(fn).returns_alias_of_param)
           s2a == InvalidateOwner(s2, dest)
           s3 == Put(s2a, "owner_alias", dest, {})
           s4 == KillCapacity(s3, t.args)
           s4a == Clear(s4, Redefined, dest)
           s5 == Observe(s4a, fn, t.args, dest)
           s6 == Effect(s5, bb, fn, t.args, dest)
<1>1. ApplyCall(s, bb, t) =
        IF fn = Absent \/ ~IsPlain(t.dest) THEN EscapeRawPtrArgs(s4, t.args)
        ELSE ResultFacts(s6, fn, t.args, dest)
  BY DEF ApplyCall
<1>2. t.args \in Seq(Operands) /\ t.dest \in Places /\ dest \in Local
  BY PlaceParts DEF Calls
<1> HIDE DEF fn
<1>3. recv \in Local \cup {NoLocal}
  BY <1>2, ArgParts, SummaryParams DEF ReallocReceiver
<1> HIDE DEF recv
<1>4. Changes(s, s1, QuietFields)
  BY <1>3, ChangesRefl, ThenMarkStale
<1> HIDE DEF s1
<1>5. "owner_alias" \in QuietFields
  BY CallHas
<1>6. Changes(s, s2, QuietFields)
  BY <1>4, <1>5, ThenInvalidateOwners DEF InvalidateOwnerArgs
<1> HIDE DEF s2
<1>7. Changes(s, s2a, QuietFields)
  BY <1>5, <1>6, ThenInvalidateOwners DEF InvalidateOwner
<1> HIDE DEF s2a
<1>8. Changes(s, s3, QuietFields)
  BY <1>2, <1>5, <1>7, ThenPut, EntryTypes
<1> HIDE DEF s3
<1>9. Changes(s, s4, QuietFields)
  BY <1>8, ThenKillCapacity
<1> HIDE DEF s4
<1>10. Changes(s, s4a, QuietFields)
  BY <1>2, <1>9, ThenClear, ClearedPerLocal, CallHas
<1> HIDE DEF s4a
<1>11. Changes(s, s5, CallFields) /\ RaisesSpawned(s, s5, PathIs(fn, "spawn"))
  <2>1. Changes(s4a, s5, CallFields) /\ RaisesSpawned(s4a, s5, PathIs(fn, "spawn"))
    BY Zenon, <1>2, <1>10, ObserveTyped DEF Changes
  <2>2. QED
    BY <1>10, <2>1, ChangesWiden, ThenChanges, CallHas DEF RaisesSpawned, Changes
<1> HIDE DEF s5
<1>12. Changes(s5, s6, QuietFields)
  <2>1. s5 \in States
    BY <1>11 DEF Changes
  <2>2. Changes(s5, s6, EffectFields)
    BY <1>2, <2>1, EffectTyped
  <2>3. QED
    BY <2>2, ChangesWiden, CallHas
<1> HIDE DEF s6
<1>13. Changes(s, EscapeRawPtrArgs(s4, t.args), QuietFields)
  BY <1>2, <1>9, ThenEscapeRawPtrArgs, CallHas
<1>14. LET u == ResultFacts(s6, fn, t.args, dest) IN
         Changes(s, u, CallFields) /\ RaisesSpawned(s, u, PathIs(fn, "spawn"))
  <2>1. Changes(s5, ResultFacts(s6, fn, t.args, dest), QuietFields)
    BY <1>2, <1>12, ThenResultFacts
  <2>2. QED
    BY <1>11, <2>1, ThenChanges, CallHas DEF RaisesSpawned, Changes
<1>15. CASE fn = Absent \/ ~IsPlain(t.dest)
  <2>1. "thread_spawned" \in Fields => s["thread_spawned"] \in BOOLEAN
    BY FlagTyped
  <2>2. Changes(s, ApplyCall(s, bb, t), QuietFields)
    BY <1>1, <1>13, <1>15
  <2>3. Changes(s, ApplyCall(s, bb, t), CallFields)
    BY <2>2, ChangesWiden, CallHas
  <2>4. "thread_spawned" \in Fields => ApplyCall(s, bb, t)["thread_spawned"] = s["thread_spawned"]
    BY <2>2, CallHas DEF Changes
  <2>5. QED
    BY <1>15, <2>1, <2>3, <2>4 DEF RaisesSpawned, fn
<1>16. CASE fn # Absent /\ IsPlain(t.dest)
  <2>1. ApplyCall(s, bb, t) = ResultFacts(s6, fn, t.args, dest)
    BY <1>1, <1>16
  <2>2. QED
    BY <1>14, <1>16, <2>1 DEF fn, RaisesSpawned
<1>17. QED
  BY Zenon, <1>15, <1>16

\* The index that a bounds check is about becomes bounded by its outcome.
LEMMA ThenBounded ==
  ASSUME NEW r, NEW s, NEW F, Changes(r, s, F), {"bounded", "bounded_or_eq"} \subseteq F,
         NEW c \in Local, NEW outcome
  PROVE  Changes(r, Bounded(s, c, outcome), F)
<1> DEFINE lt == At(s, IF outcome THEN "lt_facts" ELSE "ge_facts", c)
           le == At(s, IF outcome THEN "le_facts" ELSE "gt_facts", c)
           s1 == IF lt = Absent THEN s ELSE Insert(s, "bounded", lt)
<1>1. Bounded(s, c, outcome) = IF le = Absent THEN s1 ELSE Insert(s1, "bounded_or_eq", le)
  BY DEF Bounded
<1>2. lt \in Local \cup {Absent} /\ le \in Local \cup {Absent}
  BY LocalEntry DEF LocalToLocal, Changes
<1>3. \A f \in {"bounded", "bounded_or_eq"} : f \in SetFields /\ KeyType(f) = Local
  BY SetTypes DEF SetFields, MustSets, PairSets
<1> HIDE DEF lt, le
<1>4. Changes(r, s1, F)
  BY <1>2, <1>3, ThenInsert
<1> HIDE DEF s1
<1>5. QED
  BY <1>1, <1>2, <1>3, <1>4, ThenInsert

\* A drop writes only the fields of ownership and protocols.
LEMMA DropTyped ==
  ASSUME NEW s \in States, NEW l \in Local
  PROVE  Changes(s, ApplyDrop(s, l), EffectFields)
<1> DEFINE s1 == SetProtocols(s, At(s, "local_proto", l), "Consumed")
           F == {"local_proto", "points_to", "init", "buf_written"}
<1>1. Changes(s, s1, EffectFields)
  BY ChangesRefl, ThenSetProtocols, CallHas DEF ProtocolState
<1>2. ApplyDrop(s, l) = Clear(s1, F, l)
  BY DEF ApplyDrop
<1>3. F \subseteq PerLocal /\ F \subseteq EffectFields
  BY ClearedPerLocal, CallHas
<1> HIDE DEF s1, F
<1>4. QED
  BY <1>1, <1>2, <1>3, ThenClear

\* apply_terminator keeps the types, and the fields that only assignments
\* change.
THEOREM TerminatorTyped ==
  ASSUME NEW s \in States, NEW bb \in Blocks, NEW t \in Terms
  PROVE  Changes(s, ApplyTerminator(s, bb, t), CallFields)
<1>1. CASE t.kind = "Call"
  <2>1. t \in Calls
    BY <1>1 DEF Terms, Ends, Jumps, Unwinds
  <2>2. ApplyTerminator(s, bb, t) = ApplyCall(s, bb, t)
    BY <1>1 DEF ApplyTerminator
  <2>3. QED
    BY Zenon, <2>1, <2>2, CallTyped
<1>2. CASE t.kind = "Assert" /\ OperandLocal(t.cond) # NoLocal
  <2>1. t.cond \in Operands
    BY <1>2 DEF Terms, Ends, Jumps, Unwinds, Calls
  <2>2. ApplyTerminator(s, bb, t) = Bounded(s, OperandLocal(t.cond), t.expected)
    BY <1>2 DEF ApplyTerminator
  <2>3. {"bounded", "bounded_or_eq"} \subseteq CallFields
    BY CallHas DEF Basics
  <2>4. QED
    BY <1>2, <2>1, <2>2, <2>3, OperandParts, ChangesRefl, ThenBounded
<1>3. CASE t.kind = "Drop" /\ IsPlain(t.place)
  <2>1. t.place \in Places
    BY <1>3 DEF Terms, Ends, Jumps, Unwinds, Calls
  <2>2. ApplyTerminator(s, bb, t) = ApplyDrop(s, t.place.local)
    BY <1>3 DEF ApplyTerminator
  <2>3. QED
    BY <2>1, <2>2, PlaceParts, DropTyped, ChangesWiden, CallHas
<1>4. CASE /\ t.kind # "Call" /\ ~(t.kind = "Assert" /\ OperandLocal(t.cond) # NoLocal)
           /\ ~(t.kind = "Drop" /\ IsPlain(t.place))
  BY <1>4, ChangesRefl DEF ApplyTerminator
<1>5. QED
  BY <1>1, <1>2, <1>3, <1>4
-----------------------------------------------------------------------------
(***************************************************************************)
(* The edges of a switch.                                                  *)
(***************************************************************************)
\* What the outcome of a comparison may add.
EdgeFields == {"bounded", "bounded_or_eq", "index_bounded_for", "index_bounded_or_eq_for",
               "has_spare", "is_full", "nonzero", "finite", "const_upper", "const_lower",
               "keys_are_ne", "eq_locals"}

\* The facts that an edge proves, and what each is about.
LEMMA EdgeSets ==
  /\ \A f \in {"has_spare", "is_full", "nonzero", "finite"} :
       f \in SetFields /\ KeyType(f) = Local /\ f \in EdgeFields
  /\ \A f \in {"index_bounded_for", "index_bounded_or_eq_for", "keys_are_ne", "eq_locals"} :
       f \in SetFields /\ KeyType(f) = Local \X Local /\ f \in EdgeFields
<1>1. {"has_spare", "is_full", "nonzero", "finite"} \subseteq SetFields \ PairSets
  BY DEF SetFields, MustSets, PairSets
<1>2. {"index_bounded_for", "index_bounded_or_eq_for", "keys_are_ne", "eq_locals"} \subseteq PairSets
  BY DEF PairSets
<1>3. QED
  BY <1>1, <1>2, SetTypes DEF EdgeFields

\* A condition's fact becomes a proven one on its edge, of the proven field's type.
LEMMA ThenProve ==
  ASSUME NEW r, NEW s, Changes(r, s, EdgeFields), NEW c \in Local, NEW cond \in LocalMaps,
         NEW proven \in SetFields, EntryType(cond) = KeyType(proven) \cup {Absent},
         proven \in EdgeFields
  PROVE  Changes(r, Prove(s, cond, c, proven), EdgeFields)
<1>1. At(s, cond, c) \in KeyType(proven) \cup {Absent}
  BY AtTyped DEF Changes
<1>2. QED
  BY <1>1, ThenInsert DEF Prove

\* A condition on two locals becomes a proven one on its edge.
LEMMA ThenProvePair ==
  ASSUME NEW r, NEW s, Changes(r, s, EdgeFields), NEW c \in Local, NEW cond \in PairMaps,
         NEW proven \in {"keys_are_ne", "eq_locals"}
  PROVE  Changes(r, ProvePair(s, cond, c, proven), EdgeFields)
<1> DEFINE p == At(s, cond, c)
<1>1. p \in (Local \X Local) \cup {Absent}
  BY AtTyped, EntryTypes DEF Changes
<1>2. ProvePair(s, cond, c, proven) =
        IF p = Absent THEN s ELSE Insert(s, proven, Canon(p[1], p[2]))
  BY DEF ProvePair
<1> HIDE DEF p
<1>3. p # Absent => Canon(p[1], p[2]) \in Local \X Local
  BY <1>1 DEF Canon
<1>4. p # Absent => Changes(r, Insert(s, proven, Canon(p[1], p[2])), EdgeFields)
  BY <1>3, EdgeSets, ThenInsert
<1>5. QED
  BY <1>2, <1>4

\* A constant bound proven on an edge, an off-by-one included, stays a u64.
LEMMA ThenProveBound ==
  ASSUME NEW r, NEW s, Changes(r, s, EdgeFields), NEW c \in Local, NEW cond \in ConstMaps,
         NEW delta \in {0, 1}
  PROVE  /\ Changes(r, ProveUpper(s, cond, c, delta), EdgeFields)
         /\ Changes(r, ProveLower(s, cond, c, delta), EdgeFields)
<1> DEFINE p == At(s, cond, c)
           u == IF p[2] < delta THEN 0 ELSE p[2] - delta
           l == MinU64(p[2] + delta, MaxU64)
<1>1. p \in (Local \X U64) \cup {Absent}
  BY AtTyped, EntryTypes DEF Changes
<1>2. ProveUpper(s, cond, c, delta) = IF p = Absent THEN s ELSE LowerUpper(s, p[1], u)
  BY DEF ProveUpper
<1>3. ProveLower(s, cond, c, delta) = IF p = Absent THEN s ELSE RaiseLower(s, p[1], l)
  BY DEF ProveLower
<1> HIDE DEF p
<1>4. p # Absent => p[1] \in Local /\ u \in U64 /\ l \in U64
  BY <1>1, WidthAssumption DEF U64, MinU64
<1> HIDE DEF u, l
<1>5. "const_upper" \in EdgeFields /\ "const_lower" \in EdgeFields
  BY DEF EdgeFields
<1>6. p # Absent => Changes(r, LowerUpper(s, p[1], u), EdgeFields)
  BY <1>4, <1>5, ThenLowerUpper
<1>7. p # Absent => Changes(r, RaiseLower(s, p[1], l), EdgeFields)
  BY <1>4, <1>5, ThenRaiseLower
<1>8. QED
  BY <1>2, <1>3, <1>6, <1>7

\* The comparisons' maps and what they prove have the same entries.
LEMMA Proofs ==
  /\ \A f \in {"spare_if_true", "spare_if_false", "full_if_true", "full_if_false",
               "nonzero_if_true", "nonzero_if_false", "finite_if_true", "nan_if_true"} :
       f \in LocalMaps /\ EntryType(f) = Local \cup {Absent}
  /\ \A f \in {"lt_for", "le_for", "ne_pair_if_true", "eq_pair_if_true"} :
       f \in PairMaps /\ f \in LocalMaps /\ EntryType(f) = (Local \X Local) \cup {Absent}
  /\ {"const_lt", "const_le", "const_gt", "const_ge"} \subseteq ConstMaps
  BY EntryTypes DEF LocalToLocal, PairMaps, ConstMaps

\* The true edge of a condition writes only what edges prove.
LEMMA RefineTrueTyped ==
  ASSUME NEW s \in States, NEW c \in Local
  PROVE  Changes(s, RefineTrue(s, c), EdgeFields)
<1> DEFINE s1 == Bounded(s, c, TRUE)
           t2 == Prove(s1, "lt_for", c, "index_bounded_for")
           s2 == Prove(t2, "le_for", c, "index_bounded_or_eq_for")
           t3 == Prove(s2, "spare_if_true", c, "has_spare")
           s3 == Prove(t3, "full_if_true", c, "is_full")
           t4 == Prove(s3, "nonzero_if_true", c, "nonzero")
           s4 == Prove(t4, "finite_if_true", c, "finite")
           t5 == ProveUpper(s4, "const_lt", c, 1)
           s5 == ProveUpper(t5, "const_le", c, 0)
           t6 == ProveLower(s5, "const_gt", c, 1)
           s6 == ProveLower(t6, "const_ge", c, 0)
           t7 == ProvePair(s6, "ne_pair_if_true", c, "keys_are_ne")
<1>1. RefineTrue(s, c) = ProvePair(t7, "eq_pair_if_true", c, "eq_locals")
  BY DEF RefineTrue
<1>2. Changes(s, s1, EdgeFields)
  BY Zenon, ChangesRefl, ThenBounded DEF EdgeFields
<1> HIDE DEF s1
<1>3. Changes(s, t2, EdgeFields)
  BY <1>2, ThenProve, EdgeSets, Proofs
<1> HIDE DEF t2
<1>4. Changes(s, s2, EdgeFields)
  BY <1>3, ThenProve, EdgeSets, Proofs
<1> HIDE DEF s2
<1>5. Changes(s, t3, EdgeFields)
  BY Zenon, <1>4, ThenProve, EdgeSets, Proofs
<1> HIDE DEF t3
<1>6. Changes(s, s3, EdgeFields)
  BY Zenon, <1>5, ThenProve, EdgeSets, Proofs
<1> HIDE DEF s3
<1>7. Changes(s, t4, EdgeFields)
  BY Zenon, <1>6, ThenProve, EdgeSets, Proofs
<1> HIDE DEF t4
<1>8. Changes(s, s4, EdgeFields)
  BY Zenon, <1>7, ThenProve, EdgeSets, Proofs
<1> HIDE DEF s4
<1>9. Changes(s, t5, EdgeFields)
  BY <1>8, ThenProveBound, Proofs
<1> HIDE DEF t5
<1>10. Changes(s, s5, EdgeFields)
  BY <1>9, ThenProveBound, Proofs
<1> HIDE DEF s5
<1>11. Changes(s, t6, EdgeFields)
  BY <1>10, ThenProveBound, Proofs
<1> HIDE DEF t6
<1>12. Changes(s, s6, EdgeFields)
  BY <1>11, ThenProveBound, Proofs
<1> HIDE DEF s6
<1>13. Changes(s, t7, EdgeFields)
  BY <1>12, ThenProvePair, Proofs
<1> HIDE DEF t7
<1>14. QED
  BY <1>1, <1>13, ThenProvePair, Proofs

\* The false edge of a condition writes only what edges prove.
LEMMA RefineFalseTyped ==
  ASSUME NEW s \in States, NEW c \in Local
  PROVE  Changes(s, RefineFalse(s, c), EdgeFields)
<1> DEFINE s1 == Bounded(s, c, FALSE)
           t3 == Prove(s1, "spare_if_false", c, "has_spare")
           s3 == Prove(t3, "full_if_false", c, "is_full")
           t4 == Prove(s3, "nonzero_if_false", c, "nonzero")
           s4 == Prove(t4, "nan_if_true", c, "finite")
           t5 == ProveLower(s4, "const_lt", c, 0)
           s5 == ProveLower(t5, "const_le", c, 1)
           t6 == ProveUpper(s5, "const_gt", c, 0)
           s6 == ProveUpper(t6, "const_ge", c, 1)
           t7 == ProvePair(s6, "eq_pair_if_true", c, "keys_are_ne")
<1>1. RefineFalse(s, c) = ProvePair(t7, "ne_pair_if_true", c, "eq_locals")
  BY DEF RefineFalse
<1>2. Changes(s, s1, EdgeFields)
  BY Zenon, ChangesRefl, ThenBounded DEF EdgeFields
<1> HIDE DEF s1
<1>3. Changes(s, t3, EdgeFields)
  BY Zenon, <1>2, ThenProve, EdgeSets, Proofs
<1> HIDE DEF t3
<1>4. Changes(s, s3, EdgeFields)
  BY Zenon, <1>3, ThenProve, EdgeSets, Proofs
<1> HIDE DEF s3
<1>5. Changes(s, t4, EdgeFields)
  BY Zenon, <1>4, ThenProve, EdgeSets, Proofs
<1> HIDE DEF t4
<1>6. Changes(s, s4, EdgeFields)
  BY Zenon, <1>5, ThenProve, EdgeSets, Proofs
<1> HIDE DEF s4
<1>7. Changes(s, t5, EdgeFields)
  BY <1>6, ThenProveBound, Proofs
<1> HIDE DEF t5
<1>8. Changes(s, s5, EdgeFields)
  BY <1>7, ThenProveBound, Proofs
<1> HIDE DEF s5
<1>9. Changes(s, t6, EdgeFields)
  BY <1>8, ThenProveBound, Proofs
<1> HIDE DEF t6
<1>10. Changes(s, s6, EdgeFields)
  BY <1>9, ThenProveBound, Proofs
<1> HIDE DEF s6
<1>11. Changes(s, t7, EdgeFields)
  BY <1>10, ThenProvePair, Proofs
<1> HIDE DEF t7
<1>12. QED
  BY <1>1, <1>11, ThenProvePair, Proofs

\* refine_switchint_edge keeps the types and adds proved facts only.
THEOREM EdgeTyped ==
  ASSUME NEW s \in States, NEW t \in Terms, NEW succ
  PROVE  Changes(s, RefineSwitchIntEdge(s, t, succ), EdgeFields)
<1>1. CASE t.kind # "SwitchInt" \/ OperandLocal(t.discr) = NoLocal \/ EdgeOutcome(t, succ) = {}
  BY Zenon, <1>1, ChangesRefl DEF RefineSwitchIntEdge
<1>2. CASE t.kind = "SwitchInt" /\ OperandLocal(t.discr) # NoLocal /\ EdgeOutcome(t, succ) # {}
  <2>1. t.discr \in Operands
    BY <1>2 DEF Terms, Ends, Jumps, Unwinds, Calls
  <2>2. OperandLocal(t.discr) \in Local
    BY <1>2, <2>1, OperandParts
  <2>3. RefineSwitchIntEdge(s, t, succ) \in
          {RefineTrue(s, OperandLocal(t.discr)), RefineFalse(s, OperandLocal(t.discr))}
    BY <1>2 DEF RefineSwitchIntEdge
  <2>4. QED
    BY <2>2, <2>3, RefineTrueTyped, RefineFalseTyped
<1>3. QED
  BY <1>1, <1>2
-----------------------------------------------------------------------------
(***************************************************************************)
(* Blocks and bodies.                                                      *)
(***************************************************************************)
Stepping == INSTANCE LoopProofs WITH Op <- ApplyStatement

\* Induction, for the loop over ApplyStatement.
LEMMA SteppingInducts == Stepping!Induction
  BY InductionUpTo DEF Stepping!Induction

Seeding == INSTANCE LoopProofs WITH Op <- EnforceTypeFacts

\* Induction, for the loop over EnforceTypeFacts.
LEMMA SeedingInducts == Seeding!Induction
  BY InductionUpTo DEF Seeding!Induction

\* The statements of a block, however many.
LEMMA BeforeTerminatorTyped ==
  ASSUME NEW s \in States, NEW d \in BasicBlocks
  PROVE  Changes(s, BeforeTerminator(s, d), AssignFields)
<1> DEFINE T == {t \in States : Changes(s, t, AssignFields)}
<1>1. s \in T
  BY ChangesRefl
<1>2. ASSUME NEW t \in T, NEW st \in Assignments PROVE ApplyStatement(t, st) \in T
  <2>1. Changes(t, ApplyStatement(t, st), AssignFields)
    BY StatementTyped
  <2>2. Changes(s, ApplyStatement(t, st), AssignFields)
    BY <2>1, ChangesTrans
  <2>3. QED
    BY <2>2 DEF Changes
<1>3. d.statements \in Seq(Assignments)
  BY DEF BasicBlocks
<1> HIDE DEF T
<1>4. ForEach(ApplyStatement, s, d.statements) \in T
  BY <1>1, <1>2, <1>3, SteppingInducts, Stepping!LoopKeeps, Zenon DEF Stepping!ForEach, ForEach
<1>5. QED
  BY <1>4 DEF T, BeforeTerminator

\* The transfer of a whole block gives a state, and no block changes a field
\* that neither assignments nor calls are concerned with.
THEOREM BlockTyped ==
  ASSUME NEW s \in States, NEW d \in BasicBlocks
  PROVE  Changes(s, BlockExit(d, s), AssignFields \cup CallFields)
<1> DEFINE s1 == BeforeTerminator(s, d)
<1>1. d.bb \in Blocks /\ d.term \in Terms
  BY DEF BasicBlocks
<1>2. Changes(s, s1, AssignFields)
  BY BeforeTerminatorTyped
<1>3. BlockExit(d, s) = ApplyTerminator(s1, d.bb, d.term)
  BY DEF BlockExit
<1> HIDE DEF s1
<1>4. Changes(s1, ApplyTerminator(s1, d.bb, d.term), CallFields)
  BY <1>1, <1>2, TerminatorTyped DEF Changes
<1>5. QED
  BY <1>2, <1>3, <1>4 DEF Changes

\* BlockState::default is a BlockState.
LEMMA DefaultTyped == Default \in States
<1>1. ASSUME NEW f \in Fields PROVE DefaultField(f) \in FieldType(f)
  <2>1. f \in AllFields
    BY FieldsAssumption
  <2>2. CASE f \in LatticeMaps \cup FirstWinsMaps \cup AgreeMaps \cup BoundMaps
    BY Zenon, <2>2, Disjoint DEF DefaultField, FieldType
  <2>3. CASE f \in MustMaps
    BY Zenon, <2>3, Disjoint DEF DefaultField, FieldType
  <2>4. CASE f \in MayMaps
    BY Zenon, <2>4, Disjoint DEF DefaultField, FieldType
  <2>5. CASE f \in MaySets \cup MustSets
    BY Zenon, <2>5, Disjoint DEF DefaultField, FieldType
  <2>6. CASE f \in Flags
    BY <2>6, Disjoint DEF DefaultField, FieldType
  <2>7. QED
    BY <2>1, <2>2, <2>3, <2>4, <2>5, <2>6 DEF AllFields
<1> DEFINE t == Default
<1>2. t = [f \in Fields |-> t[f]] /\ \A f \in Fields : t[f] = DefaultField(f)
  BY DEF Default
<1> HIDE DEF t
<1>3. t \in States
  BY <1>1, <1>2, StateMake
<1>4. QED
  BY <1>3 DEF t

\* compute_flow starts from the types of the parameters and nothing else.
THEOREM FlowInitialTyped == Changes(Default, FlowInitialState, {"nonzero", "const_upper"})
<1> DEFINE F == {"nonzero", "const_upper"}
           T == {t \in States : Changes(Default, t, F)}
           params == [l \in 1..ArgCount |-> l]
<1>1. Default \in T
  BY DefaultTyped, ChangesRefl
<1>2. ASSUME NEW t \in T, NEW l \in Local PROVE EnforceTypeFacts(t, l) \in T
  <2>1. Changes(Default, EnforceTypeFacts(t, l), F)
    BY ThenEnforceTypeFacts
  <2>2. QED
    BY <2>1 DEF Changes
<1>3. params \in Seq(Local)
  <2>1. params \in [1..ArgCount -> Local] /\ ArgCount \in Nat
    BY LocalAssumption
  <2> HIDE DEF params
  <2>2. QED
    BY <2>1
<1> HIDE DEF T, params
<1>4. ForEach(EnforceTypeFacts, Default, params) \in T
  BY <1>1, <1>2, <1>3, SeedingInducts, Seeding!LoopKeeps, Zenon DEF Seeding!ForEach, ForEach
<1>5. QED
  BY <1>4 DEF T, params, FlowInitialState, SeedParamTypeFacts

\* The edges a block has lead to blocks, and a run of the program takes them.
LEMMA SuccessorsTyped ==
  ASSUME NEW t \in Terms
  PROVE  /\ BlockSuccessors(t) \in Seq(Blocks)
         /\ t.kind \notin Ends => t.targets \in Seq(Blocks) /\ Range(t.targets) \subseteq Range(BlockSuccessors(t))
<1>1. CASE t.kind \in Ends
  BY <1>1 DEF BlockSuccessors, Ends, Jumps, Unwinds
<1>2. CASE t.kind \in Jumps
  <2>1. BlockSuccessors(t) = t.targets
    BY <1>2 DEF BlockSuccessors, Ends, Jumps, Unwinds
  <2>2. t.targets \in Seq(Blocks)
    BY <1>2 DEF Terms, Calls, Ends, Jumps, Unwinds
  <2>3. QED
    BY <1>2, <2>1, <2>2
<1>3. CASE t.kind \in Unwinds
  <2>1. BlockSuccessors(t) = PushUnwind(t.targets, t.unwind)
    BY <1>3 DEF BlockSuccessors, Ends, Jumps, Unwinds
  <2>2. t.targets \in Seq(Blocks) /\ t.unwind \in Blocks \cup {NoCleanup}
    BY <1>3 DEF Terms, Calls, Ends, Jumps, Unwinds, Cleanups
  <2>3. t.unwind # NoCleanup => Append(t.targets, t.unwind) \in Seq(Blocks)
                                /\ Range(t.targets) \subseteq Range(Append(t.targets, t.unwind))
    BY <2>2 DEF Range
  <2>4. QED
    BY <2>1, <2>2, <2>3 DEF PushUnwind
<1>4. t.kind \in Ends \cup Jumps \cup Unwinds
  BY DEF Terms, Calls, Jumps, Unwinds
<1>5. QED
  BY <1>1, <1>2, <1>3, <1>4
=============================================================================
