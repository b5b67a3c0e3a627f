-------------------------- MODULE BlockStateProofs --------------------------
(***************************************************************************)
(* BlockState::join_with keeps the contract that the engine relies on      *)
(* (JoinAssumption and OrderAssumption of module Fixpoint), for every set  *)
(* of fields, keys and values.                                             *)
(***************************************************************************)
EXTENDS BlockState, TLAPS

States == StatesOver(Fields)

\* No field is listed in two families.
LEMMA Disjoint ==
  /\ \A f \in LatticeMaps : f \notin MayMaps \cup MaySets \cup Flags \cup MustSets
        \cup FirstWinsMaps \cup AgreeMaps \cup BoundMaps \cup MustMaps
  /\ \A f \in MayMaps : f \notin LatticeMaps \cup MaySets \cup Flags \cup MustSets
        \cup FirstWinsMaps \cup AgreeMaps \cup BoundMaps \cup MustMaps
  /\ \A f \in MaySets : f \notin LatticeMaps \cup MayMaps \cup Flags \cup MustSets
        \cup FirstWinsMaps \cup AgreeMaps \cup BoundMaps \cup MustMaps
  /\ \A f \in Flags : f \notin LatticeMaps \cup MayMaps \cup MaySets \cup MustSets
        \cup FirstWinsMaps \cup AgreeMaps \cup BoundMaps \cup MustMaps
  /\ \A f \in MustSets : f \notin LatticeMaps \cup MayMaps \cup MaySets \cup Flags
        \cup FirstWinsMaps \cup AgreeMaps \cup BoundMaps \cup MustMaps
  /\ \A f \in FirstWinsMaps : f \notin LatticeMaps \cup MayMaps \cup MaySets \cup Flags
        \cup MustSets \cup AgreeMaps \cup BoundMaps \cup MustMaps
  /\ \A f \in AgreeMaps : f \notin LatticeMaps \cup MayMaps \cup MaySets \cup Flags
        \cup MustSets \cup FirstWinsMaps \cup BoundMaps \cup MustMaps
  /\ \A f \in BoundMaps : f \notin LatticeMaps \cup MayMaps \cup MaySets \cup Flags
        \cup MustSets \cup FirstWinsMaps \cup AgreeMaps \cup MustMaps
  /\ \A f \in MustMaps : f \notin LatticeMaps \cup MayMaps \cup MaySets \cup Flags
        \cup MustSets \cup FirstWinsMaps \cup AgreeMaps \cup BoundMaps
  BY DEF LatticeMaps, MayMaps, MaySets, Flags, MustSets, FirstWinsMaps,
         AgreeMaps, BoundMaps, MustMaps

\* What the engine needs of one field, and that `changed' is exact: it is set
\* if and only if the join differs from the stored value.
FieldContract(f) ==
  /\ \A a, b \in FieldType(f) :
       /\ JoinField(f, a, b) \in FieldType(f)
       /\ LeqField(f, a, JoinField(f, a, b))
       /\ LeqField(f, b, JoinField(f, a, b))
       /\ ~ChangedField(f, a, b) => LeqField(f, b, a)
       /\ ChangedField(f, a, b) <=> JoinField(f, a, b) # a
  /\ \A a \in FieldType(f) : LeqField(f, a, a)
  /\ \A a, b, c \in FieldType(f) :
       LeqField(f, a, b) /\ LeqField(f, b, c) => LeqField(f, a, c)

\* When a union adds something.
LEMMA UnionFacts ==
  \A a, b : /\ b \ a # {} <=> a \cup b # a
            /\ b \ a = {} <=> b \subseteq a
            /\ a \subseteq a \cup b /\ b \subseteq a \cup b
  OBVIOUS

\* When an intersection takes something away.
LEMMA InterFacts ==
  \A a, b : /\ a \cap b = a <=> a \subseteq b
            /\ a \cap b \subseteq a /\ a \cap b \subseteq b
  OBVIOUS

\* Facts that hold on some path: union.
LEMMA MaySetContract == \A f \in MaySets : FieldContract(f)
<1>1. SUFFICES ASSUME NEW f \in MaySets PROVE FieldContract(f)
  OBVIOUS
<1>2. FieldType(f) = SUBSET Key(f)
  BY Disjoint DEF FieldType
<1>3. ASSUME NEW a, NEW b PROVE JoinField(f, a, b) = a \cup b
  BY Disjoint DEF JoinField
<1>4. ASSUME NEW a, NEW b PROVE ChangedField(f, a, b) <=> b \ a # {}
  BY Zenon, Disjoint DEF ChangedField
<1>5. ASSUME NEW a, NEW b PROVE LeqField(f, a, b) <=> a \subseteq b
  BY Zenon, Disjoint DEF LeqField
<1>6. ASSUME NEW a \in FieldType(f), NEW b \in FieldType(f)
      PROVE  /\ JoinField(f, a, b) \in FieldType(f)
             /\ LeqField(f, a, JoinField(f, a, b))
             /\ LeqField(f, b, JoinField(f, a, b))
             /\ ~ChangedField(f, a, b) => LeqField(f, b, a)
             /\ ChangedField(f, a, b) <=> JoinField(f, a, b) # a
  <2>1. a \cup b \in SUBSET Key(f)
    BY <1>2
  <2>2. a \subseteq a \cup b /\ b \subseteq a \cup b
    OBVIOUS
  <2>3. (b \ a # {} <=> a \cup b # a) /\ (b \ a = {} => b \subseteq a)
    BY UnionFacts
  <2>4. LeqField(f, a, JoinField(f, a, b)) /\ LeqField(f, b, JoinField(f, a, b))
    BY <1>3, <1>5, <2>2
  <2>5. JoinField(f, a, b) \in FieldType(f)
    BY <1>2, <1>3, <2>1
  <2>6. ~ChangedField(f, a, b) => LeqField(f, b, a)
    BY <1>4, <1>5, <2>3
  <2>7. ChangedField(f, a, b) <=> JoinField(f, a, b) # a
    BY <1>3, <1>4, <2>3
  <2>8. QED
    BY Zenon, <2>4, <2>5, <2>6, <2>7
<1>7. ASSUME NEW a \in FieldType(f) PROVE LeqField(f, a, a)
  BY <1>2, <1>5
<1>8. ASSUME NEW a \in FieldType(f), NEW b \in FieldType(f), NEW c \in FieldType(f),
             LeqField(f, a, b), LeqField(f, b, c)
      PROVE  LeqField(f, a, c)
  BY <1>2, <1>5, <1>8
<1>9. QED
  BY <1>6, <1>7, <1>8 DEF FieldContract

\* Facts that hold on all paths: intersection.
LEMMA MustSetContract == \A f \in MustSets : FieldContract(f)
<1>1. SUFFICES ASSUME NEW f \in MustSets PROVE FieldContract(f)
  OBVIOUS
<1>2. FieldType(f) = SUBSET Key(f)
  BY Disjoint DEF FieldType
<1>3. ASSUME NEW a, NEW b PROVE JoinField(f, a, b) = a \cap b
  BY Disjoint DEF JoinField
<1>4. ASSUME NEW a, NEW b PROVE ChangedField(f, a, b) <=> a \cap b # a
  BY Zenon, Disjoint DEF ChangedField
<1>5. ASSUME NEW a, NEW b PROVE LeqField(f, a, b) <=> b \subseteq a
  BY Zenon, Disjoint DEF LeqField
<1>6. ASSUME NEW a \in FieldType(f), NEW b \in FieldType(f)
      PROVE  /\ JoinField(f, a, b) \in FieldType(f)
             /\ LeqField(f, a, JoinField(f, a, b))
             /\ LeqField(f, b, JoinField(f, a, b))
             /\ ~ChangedField(f, a, b) => LeqField(f, b, a)
             /\ ChangedField(f, a, b) <=> JoinField(f, a, b) # a
  <2>1. a \cap b \in SUBSET Key(f)
    BY <1>2
  <2>2. a \cap b \subseteq a /\ a \cap b \subseteq b
    OBVIOUS
  <2>3. (a \cap b # a <=> ~(a \subseteq b))
    BY InterFacts
  <2>4. LeqField(f, a, JoinField(f, a, b)) /\ LeqField(f, b, JoinField(f, a, b))
    BY <1>3, <1>5, <2>2
  <2>5. JoinField(f, a, b) \in FieldType(f)
    BY <1>2, <1>3, <2>1
  <2>6. ~ChangedField(f, a, b) => LeqField(f, b, a)
    BY <1>4, <1>5, <2>3
  <2>7. ChangedField(f, a, b) <=> JoinField(f, a, b) # a
    BY <1>3, <1>4, <2>3
  <2>8. QED
    BY Zenon, <2>4, <2>5, <2>6, <2>7
<1>7. ASSUME NEW a \in FieldType(f) PROVE LeqField(f, a, a)
  BY <1>2, <1>5
<1>8. ASSUME NEW a \in FieldType(f), NEW b \in FieldType(f), NEW c \in FieldType(f),
             LeqField(f, a, b), LeqField(f, b, c)
      PROVE  LeqField(f, a, c)
  BY <1>2, <1>5, <1>8
<1>9. QED
  BY <1>6, <1>7, <1>8 DEF FieldContract

\* Flags: or.
LEMMA FlagContract == \A f \in Flags : FieldContract(f)
<1>1. SUFFICES ASSUME NEW f \in Flags PROVE FieldContract(f)
  OBVIOUS
<1>2. FieldType(f) = BOOLEAN
  BY Disjoint DEF FieldType
<1>3. ASSUME NEW a, NEW b PROVE JoinField(f, a, b) = (a \/ b)
  BY Disjoint DEF JoinField
<1>4. ASSUME NEW a, NEW b PROVE ChangedField(f, a, b) <=> (b /\ ~a)
  BY Zenon, Disjoint DEF ChangedField
<1>5. ASSUME NEW a, NEW b PROVE LeqField(f, a, b) <=> (a => b)
  BY Zenon, Disjoint DEF LeqField
<1>6. QED
  BY <1>2, <1>3, <1>4, <1>5 DEF FieldContract

\* Maps to sets: union, key by key.
LEMMA MayMapContract == \A f \in MayMaps : FieldContract(f)
<1>1. SUFFICES ASSUME NEW f \in MayMaps PROVE FieldContract(f)
  OBVIOUS
<1>2. FieldType(f) = [Key(f) -> SUBSET Value(f)]
  BY Disjoint DEF FieldType
<1>3. ASSUME NEW a, NEW b PROVE JoinField(f, a, b) = JoinMayMap(f, a, b)
  BY Disjoint DEF JoinField
<1>4. ASSUME NEW a, NEW b PROVE ChangedField(f, a, b) <=> ChangedMayMap(f, a, b)
  BY Zenon, Disjoint DEF ChangedField
<1>5. ASSUME NEW a, NEW b PROVE LeqField(f, a, b) <=> (\A k \in Key(f) : a[k] \subseteq b[k])
  BY Zenon, Disjoint DEF LeqField
<1>6. ASSUME NEW a \in FieldType(f), NEW b \in FieldType(f)
      PROVE  /\ JoinField(f, a, b) \in FieldType(f)
             /\ LeqField(f, a, JoinField(f, a, b))
             /\ LeqField(f, b, JoinField(f, a, b))
             /\ ~ChangedField(f, a, b) => LeqField(f, b, a)
             /\ ChangedField(f, a, b) <=> JoinField(f, a, b) # a
  <2>1. JoinMayMap(f, a, b) \in [Key(f) -> SUBSET Value(f)]
    BY <1>2 DEF JoinMayMap
  <2>2. \A k \in Key(f) : a[k] \subseteq JoinMayMap(f, a, b)[k] /\ b[k] \subseteq JoinMayMap(f, a, b)[k]
    BY UnionFacts DEF JoinMayMap
  <2>3. ~ChangedMayMap(f, a, b) => \A k \in Key(f) : b[k] \subseteq a[k]
    BY UnionFacts DEF ChangedMayMap
  <2>4. ChangedMayMap(f, a, b) <=> JoinMayMap(f, a, b) # a
    <3>1. JoinMayMap(f, a, b) # a <=> \E k \in Key(f) : a[k] \cup b[k] # a[k]
      BY <1>2, <2>1 DEF JoinMayMap
    <3>2. QED
      BY <3>1, UnionFacts DEF ChangedMayMap
  <2>5. QED
    BY <1>2, <1>3, <1>4, <1>5, <2>1, <2>2, <2>3, <2>4
<1>7. ASSUME NEW a \in FieldType(f) PROVE LeqField(f, a, a)
  BY <1>2, <1>5
<1>8. ASSUME NEW a \in FieldType(f), NEW b \in FieldType(f), NEW c \in FieldType(f),
             LeqField(f, a, b), LeqField(f, b, c)
      PROVE  LeqField(f, a, c)
  BY <1>2, <1>5, <1>8
<1>9. QED
  BY <1>6, <1>7, <1>8 DEF FieldContract

\* Auxiliary maps: the first entry for a key stays.
LEMMA FirstWinsContract == \A f \in FirstWinsMaps : FieldContract(f)
<1>1. SUFFICES ASSUME NEW f \in FirstWinsMaps PROVE FieldContract(f)
  OBVIOUS
<1>2. FieldType(f) = [Key(f) -> Value(f) \cup {Absent}]
  BY Disjoint DEF FieldType
<1>3. ASSUME NEW a, NEW b PROVE JoinField(f, a, b) = JoinFirstWins(f, a, b)
  BY Disjoint DEF JoinField
<1>4. ASSUME NEW a, NEW b PROVE ChangedField(f, a, b) <=> ChangedFirstWins(f, a, b)
  BY Zenon, Disjoint DEF ChangedField
<1>5. ASSUME NEW a, NEW b PROVE LeqField(f, a, b) <=> (\A k \in Key(f) : a[k] # Absent => b[k] # Absent)
  BY Zenon, Disjoint DEF LeqField
<1>6. ASSUME NEW a \in FieldType(f), NEW b \in FieldType(f)
      PROVE  /\ JoinField(f, a, b) \in FieldType(f)
             /\ LeqField(f, a, JoinField(f, a, b))
             /\ LeqField(f, b, JoinField(f, a, b))
             /\ ~ChangedField(f, a, b) => LeqField(f, b, a)
             /\ ChangedField(f, a, b) <=> JoinField(f, a, b) # a
  BY <1>2, <1>3, <1>4, <1>5 DEF JoinFirstWins, ChangedFirstWins
<1>7. ASSUME NEW a \in FieldType(f) PROVE LeqField(f, a, a)
  BY <1>2, <1>5
<1>8. ASSUME NEW a \in FieldType(f), NEW b \in FieldType(f), NEW c \in FieldType(f),
             LeqField(f, a, b), LeqField(f, b, c)
      PROVE  LeqField(f, a, c)
  BY <1>2, <1>5, <1>8
<1>9. QED
  BY <1>6, <1>7, <1>8 DEF FieldContract

\* Maps that keep the entries on which both sides agree.
LEMMA AgreeContract == \A f \in AgreeMaps : FieldContract(f)
<1>1. SUFFICES ASSUME NEW f \in AgreeMaps PROVE FieldContract(f)
  OBVIOUS
<1>2. FieldType(f) = [Key(f) -> Value(f) \cup {Absent}]
  BY Disjoint DEF FieldType
<1>3. ASSUME NEW a, NEW b PROVE JoinField(f, a, b) = JoinAgree(f, a, b)
  BY Disjoint DEF JoinField
<1>4. ASSUME NEW a, NEW b PROVE ChangedField(f, a, b) <=> JoinAgree(f, a, b) # a
  BY Zenon, Disjoint DEF ChangedField
<1>5. ASSUME NEW a, NEW b PROVE LeqField(f, a, b) <=> (\A k \in Key(f) : b[k] # Absent => a[k] = b[k])
  BY Zenon, Disjoint DEF LeqField
<1>6. ASSUME NEW a \in FieldType(f), NEW b \in FieldType(f)
      PROVE  /\ JoinField(f, a, b) \in FieldType(f)
             /\ LeqField(f, a, JoinField(f, a, b))
             /\ LeqField(f, b, JoinField(f, a, b))
             /\ ~ChangedField(f, a, b) => LeqField(f, b, a)
             /\ ChangedField(f, a, b) <=> JoinField(f, a, b) # a
  BY <1>2, <1>3, <1>4, <1>5 DEF JoinAgree
<1>7. ASSUME NEW a \in FieldType(f) PROVE LeqField(f, a, a)
  BY <1>2, <1>5
<1>8. ASSUME NEW a \in FieldType(f), NEW b \in FieldType(f), NEW c \in FieldType(f),
             LeqField(f, a, b), LeqField(f, b, c)
      PROVE  LeqField(f, a, c)
  BY <1>2, <1>5, <1>8
<1>9. QED
  BY <1>6, <1>7, <1>8 DEF FieldContract

\* The joins of object.rs and typestate.rs are the least upper bounds of a
\* semilattice: commutative, associative and idempotent.
LEMMA HeapSemilattice ==
  \A x, y, z \in HeapState :
    /\ HeapJoin(x, y) \in HeapState
    /\ HeapJoin(x, x) = x
    /\ HeapJoin(x, y) = HeapJoin(y, x)
    /\ HeapJoin(HeapJoin(x, y), z) = HeapJoin(x, HeapJoin(y, z))
  BY DEF HeapJoin, HeapState

\* The same of ProtocolState::join ...
LEMMA ProtocolSemilattice ==
  \A x, y, z \in ProtocolState :
    /\ ProtocolJoin(x, y) \in ProtocolState
    /\ ProtocolJoin(x, x) = x
    /\ ProtocolJoin(x, y) = ProtocolJoin(y, x)
    /\ ProtocolJoin(ProtocolJoin(x, y), z) = ProtocolJoin(x, ProtocolJoin(y, z))
  BY DEF ProtocolJoin, ProtocolState

\* ... and of InitState::join ...
LEMMA InitSemilattice ==
  \A x, y, z \in InitState :
    /\ InitJoin(x, y) \in InitState
    /\ InitJoin(x, x) = x
    /\ InitJoin(x, y) = InitJoin(y, x)
    /\ InitJoin(InitJoin(x, y), z) = InitJoin(x, InitJoin(y, z))
  BY DEF InitJoin, InitState

\* ... and so of the lattice of every lattice-valued field.
LEMMA Semilattice ==
  ASSUME NEW f \in LatticeMaps \cap Fields,
         NEW x \in Value(f), NEW y \in Value(f), NEW z \in Value(f)
  PROVE  /\ LatticeJoin(f, x, y) \in Value(f)
         /\ LatticeJoin(f, x, x) = x
         /\ LatticeJoin(f, x, y) = LatticeJoin(f, y, x)
         /\ LatticeJoin(f, LatticeJoin(f, x, y), z) = LatticeJoin(f, x, LatticeJoin(f, y, z))
<1>1. f \in {"heap", "typestate", "init"}
  BY DEF LatticeMaps
<1>2. CASE f = "heap"
  BY <1>2, HeapSemilattice, ValueAssumption DEF LatticeJoin
<1>3. CASE f = "typestate"
  BY <1>3, ProtocolSemilattice, ValueAssumption DEF LatticeJoin
<1>4. CASE f = "init"
  BY <1>4, InitSemilattice, ValueAssumption DEF LatticeJoin
<1>5. QED
  BY <1>1, <1>2, <1>3, <1>4

\* The order of a semilattice, and its joins as upper bounds.
LEMMA LatticeOrder ==
  ASSUME NEW f \in LatticeMaps \cap Fields,
         NEW x \in Value(f), NEW y \in Value(f), NEW z \in Value(f)
  PROVE  /\ LatticeJoin(f, x, y) \in Value(f)
         /\ LatticeLeq(f, x, x)
         /\ LatticeLeq(f, x, LatticeJoin(f, x, y))
         /\ LatticeLeq(f, y, LatticeJoin(f, x, y))
         /\ LatticeJoin(f, x, y) = x => LatticeLeq(f, y, x)
         /\ LatticeLeq(f, x, y) /\ LatticeLeq(f, y, z) => LatticeLeq(f, x, z)
<1>1. \A u, v, w \in Value(f) :
        /\ LatticeJoin(f, u, v) \in Value(f)
        /\ LatticeJoin(f, u, u) = u
        /\ LatticeJoin(f, u, v) = LatticeJoin(f, v, u)
        /\ LatticeJoin(f, LatticeJoin(f, u, v), w) = LatticeJoin(f, u, LatticeJoin(f, v, w))
  BY Semilattice
<1>2. QED
  BY <1>1 DEF LatticeLeq

\* Maps to a lattice: the join, key by key.
LEMMA LatticeMapContract == \A f \in LatticeMaps \cap Fields : FieldContract(f)
<1>1. SUFFICES ASSUME NEW f \in LatticeMaps \cap Fields PROVE FieldContract(f)
  OBVIOUS
<1>2. FieldType(f) = [Key(f) -> Value(f) \cup {Absent}]
  BY Disjoint DEF FieldType
<1>3. ASSUME NEW a, NEW b PROVE JoinField(f, a, b) = JoinLatticeMap(f, a, b)
  BY Disjoint DEF JoinField
<1>4. ASSUME NEW a, NEW b PROVE ChangedField(f, a, b) <=> ChangedLatticeMap(f, a, b)
  BY Zenon, Disjoint DEF ChangedField
<1>5. ASSUME NEW a, NEW b
      PROVE  LeqField(f, a, b) <=>
               \A k \in Key(f) : a[k] # Absent => b[k] # Absent /\ LatticeLeq(f, a[k], b[k])
  BY Zenon, Disjoint DEF LeqField
<1>6. \A v \in Value(f) : v # Absent
  BY ValueAssumption
<1>7. ASSUME NEW a \in FieldType(f), NEW b \in FieldType(f)
      PROVE  /\ JoinField(f, a, b) \in FieldType(f)
             /\ LeqField(f, a, JoinField(f, a, b))
             /\ LeqField(f, b, JoinField(f, a, b))
             /\ ~ChangedField(f, a, b) => LeqField(f, b, a)
             /\ ChangedField(f, a, b) <=> JoinField(f, a, b) # a
  <2> DEFINE j == JoinLatticeMap(f, a, b)
  <2>1. ASSUME NEW k \in Key(f)
        PROVE  /\ j[k] = IF b[k] = Absent THEN a[k]
                         ELSE IF a[k] = Absent THEN b[k]
                         ELSE LatticeJoin(f, a[k], b[k])
               /\ a[k] \in Value(f) \cup {Absent} /\ b[k] \in Value(f) \cup {Absent}
    BY <1>2 DEF JoinLatticeMap
  <2>2. ASSUME NEW k \in Key(f)
        PROVE  /\ j[k] \in Value(f) \cup {Absent}
               /\ a[k] # Absent => j[k] # Absent /\ LatticeLeq(f, a[k], j[k])
               /\ b[k] # Absent => j[k] # Absent /\ LatticeLeq(f, b[k], j[k])
               /\ j[k] = a[k] => (b[k] # Absent => a[k] # Absent /\ LatticeLeq(f, b[k], a[k]))
               /\ j[k] # a[k] <=> /\ b[k] # Absent
                                  /\ a[k] = Absent \/ LatticeJoin(f, a[k], b[k]) # a[k]
    BY <1>6, <2>1, LatticeOrder
  <2>3. j \in [Key(f) -> Value(f) \cup {Absent}]
    BY <2>2 DEF JoinLatticeMap
  <2>4. j # a <=> \E k \in Key(f) : j[k] # a[k]
    BY <1>2, <2>3
  <2>5. ChangedLatticeMap(f, a, b) <=> \E k \in Key(f) : j[k] # a[k]
    BY <2>2 DEF ChangedLatticeMap
  <2> HIDE DEF j
  <2>6. LeqField(f, a, j) /\ LeqField(f, b, j)
    BY <1>5, <2>2
  <2>7. ~ChangedField(f, a, b) => LeqField(f, b, a)
    BY <1>4, <1>5, <2>2, <2>5
  <2>8. QED
    BY <1>2, <1>3, <1>4, <2>3, <2>4, <2>5, <2>6, <2>7 DEF j
<1>8. ASSUME NEW a \in FieldType(f) PROVE LeqField(f, a, a)
  BY <1>2, <1>5, LatticeOrder
<1>9. ASSUME NEW a \in FieldType(f), NEW b \in FieldType(f), NEW c \in FieldType(f),
             LeqField(f, a, b), LeqField(f, b, c)
      PROVE  LeqField(f, a, c)
  BY <1>2, <1>5, <1>9, LatticeOrder
<1>10. QED
  BY <1>7, <1>8, <1>9 DEF FieldContract

\* Constant bounds: the weaker of the two, if both sides have one.
LEMMA BoundContract == \A f \in BoundMaps \cap Fields : FieldContract(f)
<1>1. SUFFICES ASSUME NEW f \in BoundMaps \cap Fields PROVE FieldContract(f)
  OBVIOUS
<1>2. FieldType(f) = [Key(f) -> Value(f) \cup {Absent}]
  BY Disjoint DEF FieldType
<1>3. ASSUME NEW a, NEW b PROVE JoinField(f, a, b) = JoinBound(f, a, b)
  BY Disjoint DEF JoinField
<1>4. ASSUME NEW a, NEW b PROVE ChangedField(f, a, b) <=> JoinBound(f, a, b) # a
  BY Zenon, Disjoint DEF ChangedField
<1>5. ASSUME NEW a, NEW b
      PROVE  LeqField(f, a, b) <=>
               \A k \in Key(f) : b[k] # Absent => (a[k] # Absent /\ WeakerBound(f, a[k], b[k]) = b[k])
  BY Zenon, Disjoint DEF LeqField
<1>6. \A x, y, z \in Value(f) :
        /\ x # Absent
        /\ WeakerBound(f, x, y) \in Value(f)
        /\ WeakerBound(f, x, x) = x
        /\ WeakerBound(f, x, WeakerBound(f, x, y)) = WeakerBound(f, x, y)
        /\ WeakerBound(f, y, WeakerBound(f, x, y)) = WeakerBound(f, x, y)
        /\ WeakerBound(f, x, y) = y /\ WeakerBound(f, y, z) = z => WeakerBound(f, x, z) = z
  <2>1. Value(f) \subseteq Nat /\ \A x \in Value(f) : x # Absent
    BY ValueAssumption
  <2>2. QED
    BY <2>1 DEF WeakerBound
<1>7. ASSUME NEW a \in FieldType(f), NEW b \in FieldType(f)
      PROVE  /\ JoinField(f, a, b) \in FieldType(f)
             /\ LeqField(f, a, JoinField(f, a, b))
             /\ LeqField(f, b, JoinField(f, a, b))
             /\ ~ChangedField(f, a, b) => LeqField(f, b, a)
             /\ ChangedField(f, a, b) <=> JoinField(f, a, b) # a
  <2> DEFINE j == JoinBound(f, a, b)
  <2>1. ASSUME NEW k \in Key(f)
        PROVE  /\ j[k] = IF Absent \in {a[k], b[k]} THEN Absent ELSE WeakerBound(f, a[k], b[k])
               /\ a[k] \in Value(f) \cup {Absent} /\ b[k] \in Value(f) \cup {Absent}
    BY <1>2 DEF JoinBound
  <2>2. ASSUME NEW k \in Key(f)
        PROVE  /\ j[k] \in Value(f) \cup {Absent}
               /\ j[k] # Absent => (a[k] # Absent /\ WeakerBound(f, a[k], j[k]) = j[k])
               /\ j[k] # Absent => (b[k] # Absent /\ WeakerBound(f, b[k], j[k]) = j[k])
    BY <1>6, <2>1
  <2>3. j \in [Key(f) -> Value(f) \cup {Absent}]
    BY <2>2 DEF JoinBound
  <2> HIDE DEF j
  <2>4. LeqField(f, a, j) /\ LeqField(f, b, j)
    BY <1>5, <2>2
  <2>5. QED
    BY <1>2, <1>3, <1>4, <2>3, <2>4 DEF j
<1>8. ASSUME NEW a \in FieldType(f) PROVE LeqField(f, a, a)
  BY <1>2, <1>5, <1>6
<1>9. ASSUME NEW a \in FieldType(f), NEW b \in FieldType(f), NEW c \in FieldType(f),
             LeqField(f, a, b), LeqField(f, b, c)
      PROVE  LeqField(f, a, c)
  BY <1>2, <1>5, <1>9, <1>6
<1>10. QED
  BY <1>7, <1>8, <1>9 DEF FieldContract

\* Maps to must-sets: the intersection, if both sides have one.
LEMMA MustMapContract == \A f \in MustMaps \cap Fields : FieldContract(f)
<1>1. SUFFICES ASSUME NEW f \in MustMaps \cap Fields PROVE FieldContract(f)
  OBVIOUS
<1>2. FieldType(f) = [Key(f) -> (SUBSET Value(f)) \cup {Absent}]
  BY Disjoint DEF FieldType
<1>3. ASSUME NEW a, NEW b PROVE JoinField(f, a, b) = JoinMustMap(f, a, b)
  BY Disjoint DEF JoinField
<1>4. ASSUME NEW a, NEW b PROVE ChangedField(f, a, b) <=> JoinMustMap(f, a, b) # a
  BY Disjoint DEF ChangedField
<1>5. ASSUME NEW a, NEW b
      PROVE  LeqField(f, a, b) <=>
               \A k \in Key(f) : b[k] # Absent => (a[k] # Absent /\ b[k] \subseteq a[k])
  BY Disjoint DEF LeqField
<1>6. \A V \in SUBSET Value(f) : V # Absent
  BY ValueAssumption
<1>7. ASSUME NEW a \in FieldType(f), NEW b \in FieldType(f)
      PROVE  /\ JoinField(f, a, b) \in FieldType(f)
             /\ LeqField(f, a, JoinField(f, a, b))
             /\ LeqField(f, b, JoinField(f, a, b))
             /\ ~ChangedField(f, a, b) => LeqField(f, b, a)
             /\ ChangedField(f, a, b) <=> JoinField(f, a, b) # a
  <2> DEFINE j == JoinMustMap(f, a, b)
  <2>1. ASSUME NEW k \in Key(f)
        PROVE  /\ j[k] = IF Absent \in {a[k], b[k]} THEN Absent ELSE a[k] \cap b[k]
               /\ a[k] \in (SUBSET Value(f)) \cup {Absent} /\ b[k] \in (SUBSET Value(f)) \cup {Absent}
    BY <1>2 DEF JoinMustMap
  <2>2. ASSUME NEW k \in Key(f)
        PROVE  /\ j[k] \in (SUBSET Value(f)) \cup {Absent}
               /\ j[k] # Absent => (a[k] # Absent /\ j[k] \subseteq a[k])
               /\ j[k] # Absent => (b[k] # Absent /\ j[k] \subseteq b[k])
    BY Zenon, <1>6, <2>1
  <2>3. j \in [Key(f) -> (SUBSET Value(f)) \cup {Absent}]
    BY <2>2 DEF JoinMustMap
  <2> HIDE DEF j
  <2>4. LeqField(f, a, j) /\ LeqField(f, b, j)
    BY <1>5, <2>2
  <2>5. QED
    BY <1>2, <1>3, <1>4, <2>3, <2>4 DEF j
<1>8. ASSUME NEW a \in FieldType(f) PROVE LeqField(f, a, a)
  BY <1>2, <1>5, <1>6
<1>9. ASSUME NEW a \in FieldType(f), NEW b \in FieldType(f), NEW c \in FieldType(f),
             LeqField(f, a, b), LeqField(f, b, c)
      PROVE  LeqField(f, a, c)
  BY <1>2, <1>5, <1>9, <1>6
<1>10. QED
  BY <1>7, <1>8, <1>9 DEF FieldContract

\* Every field of BlockState keeps the contract.
THEOREM EveryField == \A f \in Fields : FieldContract(f)
  BY FieldsAssumption, MaySetContract, MustSetContract, FlagContract, MayMapContract,
     FirstWinsContract, AgreeContract, LatticeMapContract, BoundContract, MustMapContract
  DEF AllFields

\* BlockState::join_with is what run_fixpoint needs (JoinAssumption): the
\* merged state is above both states, and a join that reports no change had
\* nothing to add.
THEOREM JoinContract ==
  \A s, t \in States :
    /\ Merged(s, t) \in States
    /\ Leq(s, Merged(s, t))
    /\ Leq(t, Merged(s, t))
    /\ ~Changed(s, t) => Leq(t, s)
<1>1. SUFFICES ASSUME NEW s \in States, NEW t \in States
               PROVE  /\ Merged(s, t) \in States
                      /\ Leq(s, Merged(s, t))
                      /\ Leq(t, Merged(s, t))
                      /\ ~Changed(s, t) => Leq(t, s)
  OBVIOUS
<1>2. ASSUME NEW f \in Fields
      PROVE  /\ s[f] \in FieldType(f) /\ t[f] \in FieldType(f)
             /\ Merged(s, t)[f] = JoinField(f, s[f], t[f])
  BY DEF States, StatesOver, Merged
<1>3. ASSUME NEW f \in Fields
      PROVE  /\ JoinField(f, s[f], t[f]) \in FieldType(f)
             /\ LeqField(f, s[f], JoinField(f, s[f], t[f]))
             /\ LeqField(f, t[f], JoinField(f, s[f], t[f]))
             /\ ~ChangedField(f, s[f], t[f]) => LeqField(f, t[f], s[f])
  BY <1>2, EveryField DEF FieldContract
<1>4. Merged(s, t) \in States
  BY <1>2, <1>3 DEF States, StatesOver, Merged
<1>5. Leq(s, Merged(s, t)) /\ Leq(t, Merged(s, t))
  BY <1>2, <1>3 DEF Leq
<1>6. ~Changed(s, t) => Leq(t, s)
  BY <1>3 DEF Leq, Changed
<1>7. QED
  BY <1>4, <1>5, <1>6

\* The information order is a preorder (OrderAssumption).
THEOREM OrderContract ==
  /\ \A s \in States : Leq(s, s)
  /\ \A s, t, u \in States : Leq(s, t) /\ Leq(t, u) => Leq(s, u)
<1>1. \A s \in States, f \in Fields : s[f] \in FieldType(f)
  BY DEF States, StatesOver
<1>2. \A s \in States : Leq(s, s)
  BY <1>1, EveryField DEF Leq, FieldContract
<1>3. ASSUME NEW s \in States, NEW t \in States, NEW u \in States, Leq(s, t), Leq(t, u)
      PROVE  Leq(s, u)
  <2>1. SUFFICES ASSUME NEW f \in Fields PROVE LeqField(f, s[f], u[f])
    BY DEF Leq
  <2>2. LeqField(f, s[f], t[f]) /\ LeqField(f, t[f], u[f])
    BY <1>3 DEF Leq
  <2>3. QED
    BY <1>1, <2>2, EveryField DEF FieldContract
<1>4. QED
  BY <1>2, <1>3

\* The `changed' flag of join_with is exact: it is set if and only if the
\* merged state differs from the stored one, so run_fixpoint neither requeues
\* a block for nothing nor drops a merge that adds something.
THEOREM ChangedIsExact == \A s, t \in States : Changed(s, t) <=> Merged(s, t) # s
<1>1. SUFFICES ASSUME NEW s \in States, NEW t \in States
               PROVE  Changed(s, t) <=> Merged(s, t) # s
  OBVIOUS
<1>2. ASSUME NEW f \in Fields
      PROVE  /\ Merged(s, t)[f] = JoinField(f, s[f], t[f])
             /\ ChangedField(f, s[f], t[f]) <=> JoinField(f, s[f], t[f]) # s[f]
  BY EveryField DEF States, StatesOver, Merged, FieldContract
<1>3. Merged(s, t) # s <=> \E f \in Fields : Merged(s, t)[f] # s[f]
  BY DEF States, StatesOver, Merged
<1>4. QED
  BY <1>2, <1>3 DEF Changed
=============================================================================
