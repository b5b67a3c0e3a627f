---------------------------- MODULE ResourceProofs ---------------------------
(***************************************************************************)
(* compute_flow on every body, and what it says of pointers to constants   *)
(* and of threads in every execution.                                      *)
(***************************************************************************)
EXTENDS Resources, TransferProofs

(***************************************************************************)
(* What a program does to its store.                                       *)
(***************************************************************************)
\* A store with one local overwritten is a store.
LEMMA OverwriteTyped ==
  ASSUME NEW m \in ResourceStores, NEW dst \in Local, NEW rv
  PROVE  Overwrite(m, dst, rv) \in ResourceStores
BY Zenon DEF Overwrite, ResourceStores

\* The guards of a local that meet their fate leave the rest of the store.
LEMMA SettleTyped ==
  ASSUME NEW m \in ResourceStores, NEW l, NEW f \in {"none", "live", "dropped", "forgotten"}
  PROVE  /\ Settle(m, l, f) \in ResourceStores
         /\ Settle(m, l, f).frozen = m.frozen /\ Settle(m, l, f).spawned = m.spawned
BY DEF Settle, ResourceStores

\* An assignment to a local: the store it gives, and which locals hold a *mut
\* that comes from a *const after it.
LEMMA RunAssignTyped ==
  ASSUME NEW m \in ResourceStores, NEW dst \in Local, NEW rv \in Rvalues
  PROVE  LET n == RunResourceAssign(m, dst, rv) IN
         /\ n \in ResourceStores /\ n.spawned = m.spawned
         /\ n.frozen \subseteq (m.frozen \ {dst}) \cup (IF BecomesFrozen(m, dst, rv) THEN {dst} ELSE {})
         /\ IsMove(rv) /\ RvalueLocal(rv) # NoLocal => RvalueLocal(rv) \notin n.frozen
<1> DEFINE src == RvalueLocal(rv)
           o == Overwrite(m, dst, rv)
           n == RunResourceAssign(m, dst, rv)
<1>1. src \in Local \cup {NoLocal}
  BY SourceParts
<1>2. o \in ResourceStores
  BY OverwriteTyped
<1>3. /\ o.spawned = m.spawned
      /\ o.frozen = IF BecomesFrozen(m, dst, rv) THEN m.frozen \cup {dst} ELSE m.frozen \ {dst}
  BY DEF Overwrite, ResourceStores
<1> DEFINE D == IF BecomesFrozen(m, dst, rv) THEN {dst} ELSE {}
<1>4. o.frozen \subseteq (m.frozen \ {dst}) \cup D
  BY <1>3
<1>5. n = CASE rv.kind = "Ref" -> [o EXCEPT !.target[dst] = rv.place.local]
       [] rv.kind = "Aggregate" -> [o EXCEPT !.variant[dst] = rv.active]
       [] src # NoLocal /\ IsMove(rv) ->
            [o EXCEPT !.variant[dst] = m.variant[src], !.held = [@ EXCEPT ![dst] = m.held[src], ![src] = {}],
                      !.parts[dst] = m.parts[src], !.target[dst] = m.target[src],
                      !.frozen = @ \ {src}]
       [] src # NoLocal /\ ~IsMove(rv) ->
            [o EXCEPT !.variant[dst] = m.variant[src], !.fd[dst] = m.fd[src]]
       [] OTHER -> o
  BY DEF RunResourceAssign
<1> HIDE DEF o, n, D
<1>6. CASE rv.kind = "Ref"
  <2>1. n = [o EXCEPT !.target[dst] = rv.place.local] /\ ~IsMove(rv)
    BY <1>5, <1>6 DEF IsMove, RvalueLocal
  <2>2. rv.place.local \in Local
    BY <1>6, RvalueParts, PlaceParts
  <2>3. n \in ResourceStores /\ n.spawned = o.spawned /\ n.frozen = o.frozen
    BY Zenon, <1>2, <2>1, <2>2 DEF ResourceStores
  <2>4. QED
    BY <1>3, <1>4, <2>1, <2>3 DEF n, D
<1>7. CASE rv.kind = "Aggregate"
  <2>1. n = [o EXCEPT !.variant[dst] = rv.active] /\ ~IsMove(rv)
    BY <1>5, <1>7 DEF IsMove, RvalueLocal
  <2>2. rv.active \in FieldIndex \cup {NoField}
    BY <1>7, RvalueParts
  <2>3. n \in ResourceStores /\ n.spawned = o.spawned /\ n.frozen = o.frozen
    BY Zenon, <1>2, <2>1, <2>2 DEF ResourceStores
  <2>4. QED
    BY <1>3, <1>4, <2>1, <2>3 DEF n, D
<1>8. CASE rv.kind \notin {"Ref", "Aggregate"} /\ src # NoLocal /\ IsMove(rv)
  <2>1. n = [o EXCEPT !.variant[dst] = m.variant[src], !.held = [@ EXCEPT ![dst] = m.held[src], ![src] = {}],
                      !.parts[dst] = m.parts[src], !.target[dst] = m.target[src],
                      !.frozen = @ \ {src}]
    BY <1>5, <1>8
  <2>2. /\ m.variant[src] \in FieldIndex \cup {NoField} /\ m.held[src] \in SUBSET Blocks
        /\ m.parts[src] \in SUBSET FieldIndex /\ m.target[src] \in Local \cup {NoLocal}
    BY <1>1, <1>8 DEF ResourceStores
  <2>3. n \in ResourceStores /\ n.spawned = o.spawned /\ n.frozen = o.frozen \ {src}
    BY Zenon, <1>1, <1>2, <1>8, <2>1, <2>2 DEF ResourceStores
  <2>4. QED
    BY <1>3, <1>4, <2>3 DEF n, D
<1>9. CASE rv.kind \notin {"Ref", "Aggregate"} /\ src # NoLocal /\ ~IsMove(rv)
  <2>1. n = [o EXCEPT !.variant[dst] = m.variant[src], !.fd[dst] = m.fd[src]]
    BY <1>5, <1>9
  <2>2. m.variant[src] \in FieldIndex \cup {NoField} /\ m.fd[src] \in SUBSET Blocks
    BY <1>1, <1>9 DEF ResourceStores
  <2>3. n \in ResourceStores /\ n.spawned = o.spawned /\ n.frozen = o.frozen
    BY Zenon, <1>2, <2>1, <2>2 DEF ResourceStores
  <2>4. QED
    BY <1>3, <1>4, <1>9, <2>3 DEF n, D
<1>10. CASE rv.kind \notin {"Ref", "Aggregate"} /\ src = NoLocal
  <2>1. n = o
    BY <1>5, <1>10
  <2>2. QED
    BY <1>2, <1>3, <1>4, <1>10, <2>1 DEF n, D
<1>11. QED
  BY <1>6, <1>7, <1>8, <1>9, <1>10
-----------------------------------------------------------------------------
(***************************************************************************)
(* Pointers that come from a *const.                                       *)
(***************************************************************************)
\* const_ptr_cast is a set of locals of its own: stores, calls and edges leave
\* it alone, and so does every right-hand side but a copy and a pointer cast.
LEMMA ConstField ==
  /\ "const_ptr_cast" \in SetFields \ PairSets /\ KeyType("const_ptr_cast") = Local
  /\ "const_ptr_cast" \in MaySets /\ "const_ptr_cast" \notin MayMaps \cup {"field_owned"}
  /\ "const_ptr_cast" \in Followed /\ "const_ptr_cast" \in Reassigned
  /\ "const_ptr_cast" \notin EvalFields \cup StoreFields \cup CallFields \cup EdgeFields
<1>1. "const_ptr_cast" \in SetFields \ PairSets /\ KeyType("const_ptr_cast") = Local
  BY SetTypes DEF SetFields, MaySets, PairSets
<1>2. "const_ptr_cast" \in MaySets /\ "const_ptr_cast" \notin MayMaps \cup {"field_owned"}
  BY DEF MaySets, MayMaps
<1>3. "const_ptr_cast" \in Followed /\ "const_ptr_cast" \in Reassigned
  BY DEF Followed, Reassigned
<1>4. "const_ptr_cast" \notin Redefined \cup Basics
  BY DEF Redefined, CollectionFacts, RangeFacts, PairFacts, Basics, CompareFacts
<1>5. "const_ptr_cast" \notin StoreFields \cup EdgeFields
  BY StoreHas DEF EdgeFields
<1>6. QED
  BY <1>1, <1>2, <1>3, <1>4, <1>5 DEF EvalFields, CallFields, QuietFields, EffectFields

\* What a copy, or a move from one local to another, does to const_ptr_cast.
LEMMA CarryConst ==
  ASSUME NEW s \in States, "const_ptr_cast" \in Fields, NEW src \in Local, NEW dst \in Local, src # dst
  PROVE  /\ (IF src \in s["const_ptr_cast"] THEN s["const_ptr_cast"] \cup {dst} ELSE s["const_ptr_cast"] \ {dst})
              \ {src} \subseteq Carry(s, Followed, src, dst, TRUE)["const_ptr_cast"]
         /\ (IF src \in s["const_ptr_cast"] THEN s["const_ptr_cast"] \cup {dst} ELSE s["const_ptr_cast"] \ {dst})
              \subseteq Carry(s, Followed, src, dst, FALSE)["const_ptr_cast"]
<1> DEFINE f == "const_ptr_cast"
           copied == IF src \in s[f] THEN s[f] \cup {dst} ELSE s[f] \ {dst}
<1>1. CopyTo(f, s[f], src, dst) = copied
  BY ConstField DEF CopyTo
<1>2. Forget(f, copied, src) = copied \ {src}
  BY ConstField DEF Forget
<1>3. f \in DOMAIN s /\ f \in Followed
  BY StateForm, ConstField
<1>4. /\ Carry(s, Followed, src, dst, TRUE)[f] = Forget(f, CopyTo(f, s[f], src, dst), src)
      /\ Carry(s, Followed, src, dst, FALSE)[f] = CopyTo(f, s[f], src, dst)
  BY <1>3 DEF Carry
<1> HIDE DEF copied
<1>5. /\ copied \ {src} \subseteq Carry(s, Followed, src, dst, TRUE)[f]
      /\ copied \subseteq Carry(s, Followed, src, dst, FALSE)[f]
  BY Zenon, <1>1, <1>2, <1>4
<1>6. QED
  BY Zenon, <1>5 DEF copied

\* The right-hand side, once the destination is cleared: a copy or a cast of
\* what comes from a *const is marked, and no mark is lost but the one of a
\* local that is moved out of.
LEMMA EvaluateConst ==
  ASSUME NEW s \in States, "const_ptr_cast" \in Fields, NEW dst \in Local, NEW rv \in Rvalues,
         rv.kind \in {"Use", "Cast"} => OperandLocal(rv.op) # dst,
         NEW m \in ResourceStores, m.frozen \ {dst} \subseteq s["const_ptr_cast"]
  PROVE  RunResourceAssign(m, dst, rv).frozen \subseteq Evaluate(s, dst, rv)["const_ptr_cast"]
<1> DEFINE c == s["const_ptr_cast"]
           n == RunResourceAssign(m, dst, rv)
           u == Evaluate(s, dst, rv)
           D == IF BecomesFrozen(m, dst, rv) THEN {dst} ELSE {}
           src == OperandLocal(rv.op)
<1>1. /\ n.frozen \subseteq (m.frozen \ {dst}) \cup D
      /\ IsMove(rv) /\ RvalueLocal(rv) # NoLocal => RvalueLocal(rv) \notin n.frozen
  BY RunAssignTyped
<1>2. m.frozen \subseteq Local /\ NoLocal \notin Local
  BY LocalAssumption DEF ResourceStores
<1> HIDE DEF n
<1>3. CASE IsPlainUse(rv)
  <2>1. rv.kind = "Use" /\ RvalueLocal(rv) = src /\ src # dst /\ src # NoLocal
    BY <1>3 DEF IsPlainUse, RvalueLocal
  <2>2. u = Carry(s, Followed, src, dst, IsMove(rv)) /\ IsMove(rv) \in BOOLEAN
    BY <1>3, EvaluateCopy DEF IsMove
  <2>3. D # {} => src \in c
    <3>1. BecomesFrozen(m, dst, rv) => src \in m.frozen
      BY <2>1 DEF BecomesFrozen
    <3>2. QED
      BY <2>1, <3>1
  <2>4. src \in Local
    BY <1>3, EvaluateCopy
  <2> DEFINE copied == IF src \in c THEN c \cup {dst} ELSE c \ {dst}
  <2>5. n.frozen \subseteq copied
    BY <1>1, <2>3
  <2> HIDE DEF src
  <2>6. CASE IsMove(rv)
    <3>1. u = Carry(s, Followed, src, dst, TRUE)
      BY <2>2, <2>6, Zenon
    <3>2. copied \ {src} \subseteq u["const_ptr_cast"]
      BY Zenon, <2>1, <2>4, <3>1, CarryConst
    <3>3. QED
      BY <1>1, <2>1, <2>5, <2>6, <3>2 DEF n
  <2>7. CASE ~IsMove(rv)
    <3>1. u = Carry(s, Followed, src, dst, FALSE)
      BY <2>2, <2>7, Zenon
    <3>2. copied \subseteq u["const_ptr_cast"]
      BY Zenon, <2>1, <2>4, <3>1, CarryConst
    <3>3. QED
      BY <2>5, <3>2 DEF n
  <2>8. QED
    BY <2>6, <2>7
<1>4. CASE IsPointerCast(rv)
  <2>1. rv.kind = "Cast" /\ src # dst /\ src # NoLocal /\ rv.cast \in {"PtrToPtr", "Transmute"}
    BY <1>4 DEF IsPointerCast
  <2>2. src \in Local /\ u = PointerCast(s, dst, src)
    BY <1>4, EvaluatePointerCast
  <2> DEFINE awayConst == /\ IsRawPtr(dst) /\ Ty(dst).mutable
                          /\ \/ IsRawPtr(src) /\ ~Ty(src).mutable
                             \/ Holds(s, "const_ptr_cast", src)
             s1 == IF awayConst THEN Insert(s, "const_ptr_cast", dst) ELSE s
  <2>3. u = PointTo(s1, dst, ObjectsFor(s, src))
    BY <2>2 DEF PointerCast
  <2>4. D # {} => awayConst
    BY <1>2, <2>1, <2>2 DEF BecomesFrozen, RvalueLocal, Holds
  <2>5. s1 \in States /\ c \cup D \subseteq s1["const_ptr_cast"]
    <3>1. CASE awayConst
      <4>1. Changes(s, Insert(s, "const_ptr_cast", dst), {"const_ptr_cast"})
        BY ConstField, InsertTyped
      <4>2. Insert(s, "const_ptr_cast", dst)["const_ptr_cast"] = c \cup {dst}
        BY StateForm DEF Insert
      <4>3. QED
        BY <3>1, <4>1, <4>2 DEF Changes
    <3>2. CASE ~awayConst
      BY <3>2, <2>4
    <3>3. QED
      BY <3>1, <3>2
  <2> HIDE DEF s1, awayConst, D
  <2>6. ObjectsFor(s, src) \in SUBSET ObjIds
    BY <2>2, ObjectsTyped
  <2>7. Changes(s1, u, EvalFields)
    BY <2>3, <2>5, <2>6, ChangesRefl, ThenPointTo, EvalHas
  <2>8. u["const_ptr_cast"] = s1["const_ptr_cast"]
    BY <2>7, ConstField DEF Changes
  <2>9. QED
    BY <1>1, <2>5, <2>8 DEF n
<1>5. CASE ~IsPlainUse(rv) /\ ~IsPointerCast(rv)
  <2>1. u["const_ptr_cast"] = c
    BY <1>5, EvaluateFrame, ConstField DEF Changes
  <2>2. RvalueLocal(rv) = NoLocal
    BY <1>5 DEF IsPlainUse
  <2>3. rv.kind = "Cast" /\ rv.cast \in {"PtrToPtr", "Transmute"} => src = NoLocal
    BY <1>5 DEF IsPointerCast
  <2>4. D = {}
    BY <1>2, <2>2, <2>3 DEF BecomesFrozen
  <2>5. QED
    BY <1>1, <2>1, <2>4 DEF n
<1>6. QED
  BY <1>3, <1>4, <1>5

\* An assignment to a local.
LEMMA AssignConst ==
  ASSUME NEW s \in States, "const_ptr_cast" \in Fields, NEW dst \in Local, NEW rv \in Rvalues,
         rv.kind \in {"Use", "Cast"} => OperandLocal(rv.op) # dst,
         NEW m \in ResourceStores, m.frozen \subseteq s["const_ptr_cast"]
  PROVE  RunResourceAssign(m, dst, rv).frozen \subseteq AssignLocal(s, dst, rv)["const_ptr_cast"]
<1> DEFINE f == "const_ptr_cast"
           s1 == UpdateOwnerAlias(s, dst, rv)
           s2 == UpdateFnPtrTarget(s1, dst, rv)
           s3 == Clear(s2, Reassigned, dst)
           s4 == Attribute(s3, dst, rv)
           s5 == Evaluate(s4, dst, rv)
           s6 == EnforceTypeFacts(s5, dst)
<1>1. AssignLocal(s, dst, rv) = s6
  BY DEF AssignLocal
<1>2. s1 \in States /\ s1[f] = s[f]
  BY UpdateOwnerAliasTyped DEF Changes
<1> HIDE DEF s1
<1>3. s2 \in States /\ s2[f] = s[f]
  BY <1>2, UpdateFnPtrTargetTyped DEF Changes
<1> HIDE DEF s2
<1>4. s3 \in States /\ s3[f] = s[f] \ {dst}
  <2>1. s3 \in States
    BY Zenon, <1>3, ClearTyped, ClearedPerLocal DEF Changes
  <2>2. f \in DOMAIN s2 /\ f \in Reassigned
    BY <1>3, StateForm, ConstField
  <2>3. s3[f] = Forget(f, s2[f], dst)
    BY <2>2 DEF Clear
  <2>4. Forget(f, s2[f], dst) = s2[f] \ {dst}
    BY ConstField DEF Forget
  <2>5. QED
    BY <1>3, <2>1, <2>3, <2>4
<1> HIDE DEF s3
<1>5. s4 \in States /\ s4[f] = s[f] \ {dst}
  BY <1>4, AttributeTyped DEF Changes
<1> HIDE DEF s4
<1>6. s5 \in States
  BY <1>5, ChangesRefl, ThenEvaluate DEF Changes
<1>7. RunResourceAssign(m, dst, rv).frozen \subseteq s5[f]
  <2>1. m.frozen \ {dst} \subseteq s4[f]
    BY <1>5
  <2>2. QED
    BY <1>5, <2>1, EvaluateConst
<1> HIDE DEF s5
<1>8. s6[f] = s5[f]
  <2>1. Changes(s5, s6, {"nonzero", "const_upper"})
    BY <1>6, ChangesRefl, ThenEnforceTypeFacts
  <2>2. QED
    BY <2>1 DEF Changes
<1> HIDE DEF s6
<1>9. QED
  BY <1>1, <1>7, <1>8

\* A statement of the program: only an assignment to a local changes which
\* pointers come from a *const, and none starts a thread.
LEMMA RunStatementTyped ==
  ASSUME NEW m \in ResourceStores, NEW st \in Assignments
  PROVE  LET n == RunResourceStatement(m, st) IN
         /\ n \in ResourceStores /\ n.spawned = m.spawned
         /\ IsPlain(st.dst) => n = RunResourceAssign(m, st.dst.local, st.rv)
         /\ ~IsPlain(st.dst) => n.frozen = m.frozen
<1> DEFINE n == RunResourceStatement(m, st)
<1>1. st.dst.local \in Local /\ st.rv \in Rvalues /\ st.dst.field \in FieldIndex \cup {NoField}
  BY PlaceParts DEF Assignments
<1>2. CASE IsPlain(st.dst)
  <2>1. n = RunResourceAssign(m, st.dst.local, st.rv)
    BY <1>2 DEF RunResourceStatement, IsPlain
  <2> HIDE DEF n
  <2>2. n \in ResourceStores /\ n.spawned = m.spawned
    BY <1>1, <2>1, RunAssignTyped
  <2>3. QED
    BY <1>2, <2>1, <2>2 DEF n
<1>3. CASE ~IsPlain(st.dst) /\ st.dst.derefs = 0 /\ st.dst.field # NoField
  <2>1. n = [m EXCEPT !.variant[st.dst.local] = st.dst.field]
    BY <1>3 DEF RunResourceStatement
  <2> HIDE DEF n
  <2>2. n \in ResourceStores /\ n.spawned = m.spawned /\ n.frozen = m.frozen
    BY <1>1, <1>3, <2>1 DEF ResourceStores
  <2>3. QED
    BY <1>3, <2>2 DEF n
<1>4. CASE ~IsPlain(st.dst) /\ st.dst.derefs = 1 /\ st.dst.field # NoField
  <2>1. n = [m EXCEPT !.parts[m.target[st.dst.local]] = @ \cup {st.dst.field}]
    BY <1>4 DEF RunResourceStatement
  <2> HIDE DEF n
  <2> DEFINE parts == [m.parts EXCEPT ![m.target[st.dst.local]] = @ \cup {st.dst.field}]
  <2>2. n = [m EXCEPT !.parts = parts]
    BY <2>1
  <2>3. parts \in [Local -> SUBSET FieldIndex]
    BY Zenon, <1>1, <1>4 DEF ResourceStores
  <2> HIDE DEF parts
  <2>4. n \in ResourceStores /\ n.spawned = m.spawned /\ n.frozen = m.frozen
    BY <2>2, <2>3 DEF ResourceStores
  <2>5. QED
    BY <1>4, <2>4 DEF n
<1>5. CASE ~IsPlain(st.dst) /\ ~(st.dst.derefs \in {0, 1} /\ st.dst.field # NoField)
  <2>1. n = m
    BY <1>5 DEF RunResourceStatement
  <2>2. QED
    BY <1>5, <2>1
<1>6. QED
  BY <1>2, <1>3, <1>4, <1>5

\* A statement keeps every pointer that comes from a *const marked.
LEMMA StatementConst ==
  ASSUME NEW s \in States, "const_ptr_cast" \in Fields, NEW st \in Assignments,
         IsPlain(st.dst) /\ st.rv.kind \in {"Use", "Cast"} => OperandLocal(st.rv.op) # st.dst.local,
         NEW m \in ResourceStores, m.frozen \subseteq s["const_ptr_cast"]
  PROVE  RunResourceStatement(m, st).frozen \subseteq ApplyStatement(s, st)["const_ptr_cast"]
<1> DEFINE s0 == InvalidateOwner(s, st.dst.local)
<1>1. st.dst \in Places /\ st.dst.local \in Local /\ st.rv \in Rvalues
  BY PlaceParts DEF Assignments
<1>2. ApplyStatement(s, st) = IF IsPlain(st.dst) THEN AssignLocal(s0, st.dst.local, st.rv)
                              ELSE StoreThrough(s0, st.dst, st.rv)
  BY DEF ApplyStatement
<1>3. s0 \in States /\ s0["const_ptr_cast"] = s["const_ptr_cast"]
  <2>1. Changes(s, s0, {"owner_alias"})
    BY ChangesRefl, ThenInvalidateOwners DEF InvalidateOwner
  <2>2. QED
    BY <2>1 DEF Changes
<1> HIDE DEF s0
<1>4. CASE IsPlain(st.dst)
  <2>1. RunResourceStatement(m, st) = RunResourceAssign(m, st.dst.local, st.rv)
    BY <1>4, RunStatementTyped
  <2>2. RunResourceAssign(m, st.dst.local, st.rv).frozen
          \subseteq AssignLocal(s0, st.dst.local, st.rv)["const_ptr_cast"]
    BY <1>1, <1>3, <1>4, AssignConst
  <2>3. QED
    BY <1>2, <1>4, <2>1, <2>2
<1>5. CASE ~IsPlain(st.dst)
  <2>1. RunResourceStatement(m, st).frozen = m.frozen
    BY <1>5, RunStatementTyped
  <2>2. Changes(s0, StoreThrough(s0, st.dst, st.rv), StoreFields)
    BY <1>1, <1>3, ChangesRefl, ThenStoreThrough
  <2>3. StoreThrough(s0, st.dst, st.rv)["const_ptr_cast"] = s["const_ptr_cast"]
    BY <1>3, <2>2, ConstField DEF Changes
  <2>4. QED
    BY <1>2, <1>5, <2>1, <2>3
<1>6. QED
  BY <1>4, <1>5
-----------------------------------------------------------------------------
(***************************************************************************)
(* The statements of a block, run and analysed side by side.               *)
(***************************************************************************)
Running == INSTANCE LoopProofs WITH Op <- RunResourceStatement

\* Induction, for the loop over RunResourceStatement.
LEMMA RunningInducts == Running!Induction
  BY InductionUpTo DEF Running!Induction

\* What a statement keeps of the state and the store, the statements keep.
LEMMA StatementsTogether ==
  ASSUME NEW T, NEW S, NEW sts \in Seq(S), NEW s, NEW m, <<s, m>> \in T,
         \A p \in T, st \in S : <<ApplyStatement(p[1], st), RunResourceStatement(p[2], st)>> \in T
  PROVE  <<ForEach(ApplyStatement, s, sts), ForEach(RunResourceStatement, m, sts)>> \in T
<1>1. PICK x : Stepping!IsRun(x, s, sts) /\ ForEach(ApplyStatement, s, sts) = x[Len(sts)]
  BY SteppingInducts, Stepping!LoopRuns, Zenon DEF Stepping!ForEach, ForEach
<1>2. PICK y : Running!IsRun(y, m, sts) /\ ForEach(RunResourceStatement, m, sts) = y[Len(sts)]
  BY RunningInducts, Running!LoopRuns, Zenon DEF Running!ForEach, ForEach
<1> DEFINE N == {i \in 0..Len(sts) : <<x[i], y[i]>> \in T}
<1>3. Len(sts) \in Nat
  OBVIOUS
<1>4. 0 \in N
  BY <1>1, <1>2, <1>3 DEF Stepping!IsRun, Running!IsRun
<1>5. ASSUME NEW i \in 0..(Len(sts) - 1), i \in N PROVE i + 1 \in N
  <2>1. /\ x[i + 1] = ApplyStatement(x[i], sts[i + 1])
        /\ y[i + 1] = RunResourceStatement(y[i], sts[i + 1])
    BY <1>1, <1>2 DEF Stepping!IsRun, Running!IsRun
  <2>2. i + 1 \in 0..Len(sts) /\ sts[i + 1] \in S
    BY <1>3
  <2> DEFINE p == <<x[i], y[i]>>
  <2>3. p \in T /\ p[1] = x[i] /\ p[2] = y[i]
    BY <1>5
  <2> HIDE DEF p
  <2>4. <<ApplyStatement(p[1], sts[i + 1]), RunResourceStatement(p[2], sts[i + 1])>> \in T
    BY <2>2, <2>3
  <2>5. QED
    BY <2>1, <2>2, <2>3, <2>4
<1> HIDE DEF N
<1>6. \A i \in 0..Len(sts) : i \in N
  BY Zenon, <1>3, <1>4, <1>5, InductionUpTo
<1>7. <<x[Len(sts)], y[Len(sts)]>> \in T
  BY <1>3, <1>6 DEF N
<1>8. QED
  BY <1>1, <1>2, <1>7

\* Statements that do not assign a local to itself.
RegularStatements ==
  {st \in Assignments :
     IsPlain(st.dst) /\ st.rv.kind \in {"Use", "Cast"} => OperandLocal(st.rv.op) # st.dst.local}

\* They keep every pointer that comes from a *const marked.
LEMMA StatementsConst ==
  ASSUME NEW s \in States, "const_ptr_cast" \in Fields, NEW m \in ResourceStores,
         m.frozen \subseteq s["const_ptr_cast"], NEW sts \in Seq(RegularStatements)
  PROVE  LET u == ForEach(ApplyStatement, s, sts)
             n == ForEach(RunResourceStatement, m, sts)
         IN u \in States /\ n \in ResourceStores /\ n.frozen \subseteq u["const_ptr_cast"]
<1> DEFINE T == {p \in States \X ResourceStores : p[2].frozen \subseteq p[1]["const_ptr_cast"]}
           u == ForEach(ApplyStatement, s, sts)
           n == ForEach(RunResourceStatement, m, sts)
<1>1. <<s, m>> \in T
  OBVIOUS
<1>2. ASSUME NEW p \in T, NEW st \in RegularStatements
      PROVE  <<ApplyStatement(p[1], st), RunResourceStatement(p[2], st)>> \in T
  <2>1. p[1] \in States /\ p[2] \in ResourceStores /\ st \in Assignments
    BY DEF RegularStatements
  <2>2. ApplyStatement(p[1], st) \in States
    BY <2>1, StatementTyped DEF Changes
  <2>3. RunResourceStatement(p[2], st) \in ResourceStores
    BY <2>1, RunStatementTyped
  <2>4. RunResourceStatement(p[2], st).frozen \subseteq ApplyStatement(p[1], st)["const_ptr_cast"]
    BY <2>1, StatementConst DEF RegularStatements
  <2>5. QED
    BY <2>2, <2>3, <2>4
<1> HIDE DEF T
<1>3. <<u, n>> \in T
  BY Zenon, <1>1, <1>2, StatementsTogether
<1> HIDE DEF u, n
<1>4. QED
  BY <1>3 DEF T, u, n

\* Statements start no thread.
LEMMA StatementsSpawn ==
  ASSUME NEW m \in ResourceStores, NEW sts \in Seq(Assignments)
  PROVE  LET n == ForEach(RunResourceStatement, m, sts) IN n \in ResourceStores /\ n.spawned = m.spawned
<1> DEFINE T == {n \in ResourceStores : n.spawned = m.spawned}
<1>1. m \in T
  OBVIOUS
<1>2. \A n \in T, st \in Assignments : RunResourceStatement(n, st) \in T
  BY RunStatementTyped
<1> HIDE DEF T
<1>3. ForEach(RunResourceStatement, m, sts) \in T
  BY <1>1, <1>2, RunningInducts, Running!LoopKeeps, Zenon DEF Running!ForEach, ForEach
<1>4. QED
  BY <1>3 DEF T
-----------------------------------------------------------------------------
(***************************************************************************)
(* What a program does at the end of a block.                              *)
(***************************************************************************)
\* A called function changes no constness, and the thread it may start is
\* accounted for by the call.
LEMMA CallResourcesTyped ==
  ASSUME NEW m \in ResourceStores, NEW b \in Blocks, NEW t \in Calls
  PROVE  LET n == CallResources(m, b, t) IN
         n \in ResourceStores /\ n.frozen = m.frozen /\ n.spawned = m.spawned
<1> DEFINE dest == t.dest.local
           arg == FirstArgBaseLocal(t.args)
           T == {n \in ResourceStores : n.frozen = m.frozen /\ n.spawned = m.spawned}
           n1 == [m EXCEPT !.held[dest] = {b}, !.fate[b] = "live"]
           n2 == Settle(m, arg, "forgotten")
           n3 == Settle(m, arg, "dropped")
           n4 == [m EXCEPT !.parts[dest] = {}]
           n5 == [m EXCEPT !.parts[dest] = AllParts]
           n6 == [m EXCEPT !.parts[m.target[arg]] = AllParts]
           n7 == [m EXCEPT !.target[dest] = m.target[arg]]
           n8 == [m EXCEPT !.fd[dest] = {b}, !.owned = @ \ {b}]
           n9 == [m EXCEPT !.owned = @ \cup m.fd[arg]]
<1>1. \/ CallResources(m, b, t) \in {n1, n2, n3, n4, n5, n8, m}
      \/ arg # NoLocal /\ CallResources(m, b, t) \in {n6, n7, n9}
  <2>1. CallResources(m, b, t) =
          CASE PathIs(t.func.fn, "epoch_pin") \/ PathIs(t.func.fn, "lock_acquire") -> n1
            [] PathIs(t.func.fn, "mem_forget") -> n2
            [] PathIs(t.func.fn, "mem_drop") -> n3
            [] PathIs(t.func.fn, "uninit") -> n4
            [] PathIs(t.func.fn, "maybe_uninit_init") -> n5
            [] PathIs(t.func.fn, "maybe_uninit_write") /\ arg # NoLocal -> n6
            [] PathIs(t.func.fn, "maybe_uninit_as_mut_ptr") /\ arg # NoLocal -> n7
            [] PathIs(t.func.fn, "open") \/ PathIs(t.func.fn, "into_raw_fd") -> n8
            [] PathIs(t.func.fn, "from_raw_fd") /\ arg # NoLocal -> n9
            [] OTHER -> m
    BY DEF CallResources
  <2> HIDE DEF n1, n2, n3, n4, n5, n6, n7, n8, n9, arg
  <2>2. QED
    BY <2>1
<1>2. dest \in Local /\ arg \in Local \cup {NoLocal}
  BY ArgParts, PlaceParts DEF Calls
<1>3. n1 \in T /\ n4 \in T /\ n8 \in T /\ m \in T
  BY Zenon, <1>2 DEF ResourceStores
<1>4. n2 \in T /\ n3 \in T
  BY SettleTyped
<1>5. n5 \in T
  BY <1>2, PartsAssumption DEF ResourceStores
<1>6. ASSUME arg # NoLocal PROVE n6 \in T /\ n7 \in T /\ n9 \in T
  <2>1. m.target[arg] \in Local \cup {NoLocal} /\ m.fd[arg] \in SUBSET Blocks
    BY <1>2, <1>6 DEF ResourceStores
  <2>2. n7 \in T /\ n9 \in T
    BY Zenon, <1>2, <2>1 DEF ResourceStores
  <2> DEFINE parts == [m.parts EXCEPT ![m.target[arg]] = AllParts]
  <2>3. n6 = [m EXCEPT !.parts = parts]
    OBVIOUS
  <2>4. parts \in [Local -> SUBSET FieldIndex]
    BY Zenon, PartsAssumption DEF ResourceStores
  <2> HIDE DEF parts, n6
  <2>5. n6 \in T
    BY <2>3, <2>4 DEF ResourceStores
  <2>6. QED
    BY <2>2, <2>5
<1> HIDE DEF n1, n2, n3, n4, n5, n6, n7, n8, n9, arg, dest
<1>7. CallResources(m, b, t) \in T
  BY <1>1, <1>3, <1>4, <1>5, <1>6
<1>8. QED
  BY <1>7

\* A call: its destination no longer comes from a *const, and it starts a
\* thread if its function does.
LEMMA RunCallTyped ==
  ASSUME NEW m \in ResourceStores, NEW b \in Blocks, NEW t \in Calls
  PROVE  LET n == RunResourceCall(m, b, t) IN
         /\ n \in ResourceStores /\ n.frozen \subseteq m.frozen
         /\ n.spawned = (m.spawned \/ PathIs(t.func.fn, "spawn"))
<1> DEFINE dests == IF IsPlain(t.dest) THEN {t.dest.local} ELSE {}
           m1 == [m EXCEPT !.variant = [l \in Local |-> IF l \in dests THEN NoField ELSE m.variant[l]],
                           !.frozen = @ \ dests,
                           !.spawned = @ \/ PathIs(t.func.fn, "spawn")]
<1>1. RunResourceCall(m, b, t) = CallResources(m1, b, t)
  BY DEF RunResourceCall
<1>2. /\ m1 \in ResourceStores /\ m1.frozen \subseteq m.frozen
      /\ m1.spawned = (m.spawned \/ PathIs(t.func.fn, "spawn"))
  BY DEF ResourceStores
<1> HIDE DEF m1
<1>3. QED
  BY <1>1, <1>2, CallResourcesTyped

\* A terminator that calls has the parts of a call.
LEMMA CallKind ==
  ASSUME NEW t \in Terms, t.kind = "Call" PROVE t \in Calls
  BY DEF Terms, Ends, Jumps, Unwinds

\* A block goes on to one of its targets, with the store its statements and
\* its terminator leave.
LEMMA RunBlockTyped ==
  ASSUME NEW m \in ResourceStores, NEW d \in BasicBlocks, NEW next \in RunResourceBlock(d, m)
  PROVE  /\ d.term.kind \notin Ends /\ next.to \in Range(d.term.targets)
         /\ next.store \in ResourceStores
         /\ next.store.frozen \subseteq ResourceStatements(m, d).frozen
         /\ next.store.spawned => m.spawned \/ (d.term.kind = "Call" /\ PathIs(d.term.func.fn, "spawn"))
<1> DEFINE n == ResourceStatements(m, d)
           t == d.term
           after == CASE t.kind = "Call" -> RunResourceCall(n, d.bb, t)
                      [] t.kind = "Drop" -> Settle(n, t.place.local, "dropped")
                      [] OTHER -> n
<1>1. t.kind \notin Ends /\ next \in {[to |-> c, store |-> after] : c \in Range(t.targets)}
  BY DEF RunResourceBlock
<1>2. next.to \in Range(t.targets) /\ next.store = after
  BY <1>1
<1>3. d.bb \in Blocks /\ t \in Terms /\ d.statements \in Seq(Assignments)
  BY DEF BasicBlocks
<1>4. n \in ResourceStores /\ n.spawned = m.spawned
  BY <1>3, StatementsSpawn DEF ResourceStatements
<1> HIDE DEF n
<1>5. CASE t.kind = "Call"
  <2>1. t \in Calls /\ after = RunResourceCall(n, d.bb, t)
    BY <1>3, <1>5, CallKind
  <2> HIDE DEF after
  <2>2. /\ after \in ResourceStores /\ after.frozen \subseteq n.frozen
        /\ after.spawned = (n.spawned \/ PathIs(t.func.fn, "spawn"))
    BY <1>3, <1>4, <2>1, RunCallTyped
  <2>3. QED
    BY Zenon, <1>1, <1>2, <1>4, <1>5, <2>2 DEF n
<1>6. CASE t.kind = "Drop"
  <2>1. after = Settle(n, t.place.local, "dropped")
    BY <1>6
  <2>2. QED
    BY <1>1, <1>2, <1>4, <2>1, SettleTyped DEF n
<1>7. CASE t.kind \notin {"Call", "Drop"}
  BY <1>1, <1>2, <1>4, <1>7 DEF n
<1>8. QED
  BY <1>5, <1>6, <1>7
-----------------------------------------------------------------------------
(***************************************************************************)
(* A block and the edge it is left by, run and analysed side by side.      *)
(***************************************************************************)
\* The statements of a regular block are regular, and so are the first few.
LEMMA RegularBlock ==
  ASSUME NEW d \in BasicBlocks, SidesDiffer(d)
  PROVE  /\ d.statements \in Seq(RegularStatements)
         /\ \A i \in DOMAIN d.statements : SubSeq(d.statements, 1, i - 1) \in Seq(RegularStatements)
<1> DEFINE sts == d.statements
<1>1. sts \in Seq(Assignments)
  BY DEF BasicBlocks
<1>2. \A i \in 1..Len(sts) : sts[i] \in RegularStatements
  BY <1>1 DEF SidesDiffer, RegularStatements
<1> HIDE DEF sts
<1>3. sts \in Seq(RegularStatements)
  BY <1>1, <1>2
<1>4. \A i \in DOMAIN sts : SubSeq(sts, 1, i - 1) \in Seq(RegularStatements)
  BY <1>3
<1>5. QED
  BY <1>3, <1>4 DEF sts

\* A regular block keeps every pointer that comes from a *const marked.
LEMMA BlockConst ==
  ASSUME NEW s \in States, "const_ptr_cast" \in Fields, NEW d \in BasicBlocks, SidesDiffer(d),
         NEW m \in ResourceStores, m.frozen \subseteq s["const_ptr_cast"],
         NEW next \in RunResourceBlock(d, m)
  PROVE  next.store.frozen \subseteq FlowRefine(d, BlockExit(d, s), next.to)["const_ptr_cast"]
<1> DEFINE f == "const_ptr_cast"
           u == BeforeTerminator(s, d)
           v == BlockExit(d, s)
           w == FlowRefine(d, v, next.to)
<1>1. d.bb \in Blocks /\ d.term \in Terms
  BY DEF BasicBlocks
<1>2. u \in States /\ ResourceStatements(m, d).frozen \subseteq u[f]
  BY RegularBlock, StatementsConst DEF BeforeTerminator, ResourceStatements
<1>3. v = ApplyTerminator(u, d.bb, d.term)
  BY DEF BlockExit
<1> HIDE DEF u
<1>4. v \in States /\ v[f] = u[f]
  BY <1>1, <1>2, <1>3, TerminatorTyped, ConstField DEF Changes
<1> HIDE DEF v
<1>5. w[f] = v[f]
  BY <1>1, <1>4, EdgeTyped, ConstField DEF Changes, FlowRefine
<1> HIDE DEF w
<1>6. next.store.frozen \subseteq w[f]
  BY <1>2, <1>4, <1>5, RunBlockTyped
<1>7. QED
  BY <1>6 DEF w, v

\* thread_spawned is a flag that only calls raise.
LEMMA SpawnField ==
  /\ "thread_spawned" \in Flags
  /\ "thread_spawned" \notin AssignFields \cup QuietFields \cup EdgeFields
<1>1. "thread_spawned" \notin Redefined \cup Basics
  BY DEF Redefined, CollectionFacts, RangeFacts, PairFacts, Basics, CompareFacts
<1>2. "thread_spawned" \in Flags /\ "thread_spawned" \notin EdgeFields
  BY DEF Flags, EdgeFields
<1>3. QED
  BY <1>1, <1>2, CallHas DEF AssignFields, Reassigned

\* A terminator takes no thread back, and records the one that it starts, if
\* its result goes to a local.
LEMMA TerminatorSpawn ==
  ASSUME NEW s \in States, "thread_spawned" \in Fields, NEW b \in Blocks, NEW t \in Terms,
         \/ s["thread_spawned"]
         \/ t.kind = "Call" /\ PathIs(t.func.fn, "spawn") /\ IsPlain(t.dest)
  PROVE  ApplyTerminator(s, b, t)["thread_spawned"]
<1> DEFINE f == "thread_spawned"
           u == ApplyTerminator(s, b, t)
<1>1. CASE t.kind = "Call"
  <2>1. t \in Calls /\ u = ApplyCall(s, b, t)
    BY <1>1, CallKind DEF ApplyTerminator
  <2>2. RaisesSpawned(s, u, /\ Callee(s, t.func) # Absent /\ IsPlain(t.dest)
                            /\ PathIs(Callee(s, t.func), "spawn"))
    BY Zenon, <2>1, CallTyped
  <2>3. PathIs(t.func.fn, "spawn") => Callee(s, t.func) = t.func.fn /\ t.func.fn # Absent
    BY DEF PathIs, Callee
  <2> HIDE DEF u
  <2>4. QED
    BY Zenon, <2>2, <2>3 DEF RaisesSpawned, u
<1>2. CASE t.kind = "Assert" /\ OperandLocal(t.cond) # NoLocal
  <2>1. t.cond \in Operands
    BY <1>2 DEF Terms, Ends, Jumps, Unwinds, Calls
  <2>2. u = Bounded(s, OperandLocal(t.cond), t.expected)
    BY <1>2 DEF ApplyTerminator
  <2>3. Changes(s, u, {"bounded", "bounded_or_eq"})
    BY <1>2, <2>1, <2>2, OperandParts, ChangesRefl, ThenBounded
  <2>4. QED
    BY <1>2, <2>3 DEF Changes
<1>3. CASE t.kind = "Drop" /\ IsPlain(t.place)
  <2>1. t.place \in Places
    BY <1>3 DEF Terms, Ends, Jumps, Unwinds, Calls
  <2>2. u = ApplyDrop(s, t.place.local)
    BY <1>3 DEF ApplyTerminator
  <2>3. Changes(s, u, EffectFields)
    BY <2>1, <2>2, PlaceParts, DropTyped
  <2>4. QED
    BY <1>3, <2>3, SpawnField, CallHas DEF Changes
<1>4. CASE /\ t.kind # "Call" /\ ~(t.kind = "Assert" /\ OperandLocal(t.cond) # NoLocal)
           /\ ~(t.kind = "Drop" /\ IsPlain(t.place))
  BY <1>4 DEF ApplyTerminator
<1>5. QED
  BY <1>1, <1>2, <1>3, <1>4

\* The state before the terminator knows of every thread that was started.
LEMMA StatementsKeepSpawned ==
  ASSUME NEW s \in States, "thread_spawned" \in Fields, NEW d \in BasicBlocks
  PROVE  /\ BeforeTerminator(s, d) \in States
         /\ BeforeTerminator(s, d)["thread_spawned"] = s["thread_spawned"]
  BY BeforeTerminatorTyped, SpawnField DEF Changes

\* A block records the thread that it starts, if its result goes to a local.
LEMMA BlockSpawn ==
  ASSUME NEW s \in States, "thread_spawned" \in Fields, NEW d \in BasicBlocks, SpawnsIntoLocal(d),
         NEW m \in ResourceStores, m.spawned => s["thread_spawned"],
         NEW next \in RunResourceBlock(d, m), next.store.spawned
  PROVE  FlowRefine(d, BlockExit(d, s), next.to)["thread_spawned"]
<1> DEFINE f == "thread_spawned"
           u == BeforeTerminator(s, d)
           v == BlockExit(d, s)
           w == FlowRefine(d, v, next.to)
<1>1. d.bb \in Blocks /\ d.term \in Terms
  BY DEF BasicBlocks
<1>2. u \in States /\ u[f] = s[f]
  BY StatementsKeepSpawned
<1>3. v = ApplyTerminator(u, d.bb, d.term)
  BY DEF BlockExit
<1> HIDE DEF u
<1>4. u[f] \/ (d.term.kind = "Call" /\ PathIs(d.term.func.fn, "spawn") /\ IsPlain(d.term.dest))
  <2>1. m.spawned \/ (d.term.kind = "Call" /\ PathIs(d.term.func.fn, "spawn"))
    BY RunBlockTyped
  <2>2. QED
    BY <1>2, <2>1, Zenon DEF SpawnsIntoLocal
<1>5. v \in States
  BY <1>1, <1>2, <1>3, TerminatorTyped DEF Changes
<1>6. v[f]
  BY <1>1, <1>2, <1>3, <1>4, TerminatorSpawn
<1> HIDE DEF v
<1>7. Changes(v, w, EdgeFields)
  BY <1>1, <1>5, EdgeTyped DEF FlowRefine
<1> HIDE DEF w
<1>8. w[f] = v[f]
  BY <1>7, SpawnField DEF Changes
<1>9. w[f]
  BY <1>6, <1>8, Zenon
<1>10. QED
  BY <1>9 DEF w, v
-----------------------------------------------------------------------------
(***************************************************************************)
(* What compute_flow says of a store, where the field is tracked and the   *)
(* bodies are such that it can be known.                                   *)
(***************************************************************************)
ProgramBlocks == {b[c] : b \in Programs, c \in Blocks}

SpawnsKnown == "thread_spawned" \in Fields /\ \A d \in ProgramBlocks : SpawnsIntoLocal(d)

ConstsKnown == "const_ptr_cast" \in Fields /\ \A d \in ProgramBlocks : SidesDiffer(d)

TaintDescribed(s, m) ==
  /\ SpawnsKnown => (m.spawned => s["thread_spawned"])
  /\ ConstsKnown => m.frozen \subseteq s["const_ptr_cast"]

\* block_successors yields blocks, whatever the terminator.
LEMMA FlowGraph ==
  /\ 0 \in Blocks
  /\ Programs \subseteq [Blocks -> ProgramBlocks]
  /\ \A d \in ProgramBlocks : d \in BasicBlocks /\ FlowSuccessors(d) \in Seq(Blocks)
<1>1. ProgramBlocks \subseteq BasicBlocks /\ Programs \subseteq [Blocks -> ProgramBlocks]
  BY ProgramsAssumption DEF ProgramBlocks
<1>2. \A d \in BasicBlocks : d.term \in Terms
  BY DEF BasicBlocks
<1>3. QED
  BY <1>1, <1>2, ProgramsAssumption, SuccessorsTyped DEF FlowSuccessors

\* The seed, the transfer of a block and the refinement of an edge are states,
\* and none of them is None.
LEMMA FlowStates ==
  /\ Absent \notin StatesOver(Fields)
  /\ \A b \in Programs : FlowSeed(b) \in StatesOver(Fields)
  /\ \A d \in ProgramBlocks, s \in StatesOver(Fields) :
       /\ BlockExit(d, s) \in StatesOver(Fields)
       /\ \A c \in Blocks : FlowRefine(d, s, c) \in StatesOver(Fields)
<1>1. FlowInitialState \in States
  BY FlowInitialTyped DEF Changes
<1>2. ASSUME NEW d \in ProgramBlocks, NEW s \in States
      PROVE  BlockExit(d, s) \in States /\ \A c \in Blocks : FlowRefine(d, s, c) \in States
  <2>1. d \in BasicBlocks /\ d.term \in Terms
    BY FlowGraph DEF BasicBlocks
  <2>2. QED
    BY <2>1, BlockTyped, EdgeTyped DEF Changes, FlowRefine
<1>3. QED
  BY <1>1, <1>2, IdAssumption DEF FlowSeed, States

\* What join_with and its order owe the engine.
LEMMA FlowJoin ==
  /\ \A s, t \in StatesOver(Fields) :
       /\ Merged(s, t) \in StatesOver(Fields)
       /\ Leq(s, Merged(s, t))
       /\ Leq(t, Merged(s, t))
       /\ ~Changed(s, t) => Leq(t, s)
  /\ \A s \in StatesOver(Fields) : Leq(s, s)
  /\ \A s, t, u \in StatesOver(Fields) : Leq(s, t) /\ Leq(t, u) => Leq(s, u)
BY JoinContract, OrderContract DEF States

\* An execution leaves a block by an edge that the analysis has followed.
LEMMA ExecutionFollows ==
  ASSUME NEW d \in ProgramBlocks, NEW m \in ResourceStores, NEW next \in RunResourceBlock(d, m)
  PROVE  next.to \in Range(FlowSuccessors(d)) /\ next.store \in ResourceStores
<1>1. d \in BasicBlocks /\ d.term \in Terms
  BY FlowGraph DEF BasicBlocks
<1>2. d.term.kind \notin Ends /\ next.to \in Range(d.term.targets) /\ next.store \in ResourceStores
  BY <1>1, RunBlockTyped
<1>3. QED
  BY <1>1, <1>2, SuccessorsTyped DEF FlowSuccessors

\* A program starts with no threads and no pointers.
LEMMA ExecutionStarts ==
  NoResources \in ResourceStores /\ \A s : TaintDescribed(s, NoResources)
<1>1. NoResources \in ResourceStores
  BY DEF NoResources, ResourceStores
<1>2. NoResources.spawned = FALSE /\ NoResources.frozen = {}
  BY DEF NoResources
<1>3. QED
  BY <1>1, <1>2 DEF TaintDescribed

\* The transfer of a block and of an edge describes what the block does.
LEMMA BlockTaint ==
  ASSUME NEW d \in ProgramBlocks, NEW s \in States, NEW m \in ResourceStores, TaintDescribed(s, m),
         NEW next \in RunResourceBlock(d, m)
  PROVE  TaintDescribed(FlowRefine(d, BlockExit(d, s), next.to), next.store)
<1> DEFINE w == FlowRefine(d, BlockExit(d, s), next.to)
<1>1. d \in BasicBlocks
  BY FlowGraph
<1>2. ASSUME SpawnsKnown, next.store.spawned PROVE w["thread_spawned"]
  <2>1. "thread_spawned" \in Fields /\ SpawnsIntoLocal(d)
    BY <1>2 DEF SpawnsKnown
  <2>2. m.spawned => s["thread_spawned"]
    BY <1>2, Zenon DEF TaintDescribed
  <2>3. QED
    BY <1>1, <1>2, <2>1, <2>2, BlockSpawn
<1>3. ASSUME ConstsKnown PROVE next.store.frozen \subseteq w["const_ptr_cast"]
  <2>1. "const_ptr_cast" \in Fields /\ SidesDiffer(d)
    BY <1>3 DEF ConstsKnown
  <2>2. m.frozen \subseteq s["const_ptr_cast"]
    BY <1>3 DEF TaintDescribed
  <2>3. QED
    BY <1>1, <2>1, <2>2, BlockConst
<1> HIDE DEF w
<1>4. TaintDescribed(w, next.store)
  BY <1>2, <1>3, Zenon DEF TaintDescribed
<1>5. QED
  BY <1>4 DEF w

\* A state higher in the order of the join has more of the marks.
LEMMA WeakerTaint ==
  ASSUME NEW s \in States, NEW t \in States, NEW m, Leq(s, t), TaintDescribed(s, m)
  PROVE  TaintDescribed(t, m)
<1>1. "thread_spawned" \in Fields => (s["thread_spawned"] => t["thread_spawned"])
  <2>1. \A x, y : LeqField("thread_spawned", x, y) = (x => y)
    BY SpawnField, Disjoint, Zenon DEF LeqField
  <2>2. QED
    BY <2>1, Zenon DEF Leq
<1>2. "const_ptr_cast" \in Fields => s["const_ptr_cast"] \subseteq t["const_ptr_cast"]
  <2>1. \A x, y : LeqField("const_ptr_cast", x, y) <=> (x \subseteq y)
    BY Zenon, ConstField, Disjoint DEF LeqField
  <2>2. QED
    BY <2>1 DEF Leq
<1>3. QED
  BY <1>1, <1>2, Zenon DEF TaintDescribed, SpawnsKnown, ConstsKnown
-----------------------------------------------------------------------------
(***************************************************************************)
(* The engine with the transfer functions and the join of BlockState, and  *)
(* the executions of the bodies it is given.                               *)
(***************************************************************************)
Flow == INSTANCE ExecutionProofs WITH
  Block <- Blocks, START <- 0, BlockData <- ProgramBlocks, Bodies <- Programs,
  Successors <- FlowSuccessors, State <- StatesOver(Fields), None <- Absent,
  InitialState <- FlowSeed, ExitState <- BlockExit, Refine <- FlowRefine,
  Join <- Merged, JoinChanges <- Changed, Below <- Leq,
  Stores <- ResourceStores, EntryStores <- ResourceEntry, Step <- RunResourceBlock,
  Describes <- TaintDescribed

\* compute_flow returns a solution of the flow equations of the body it is
\* given: the seed of the arguments' types is in it, and no statement,
\* terminator or edge of a reached block brings anything new.
THEOREM FlowReturnsSolution == Flow!Spec => []Flow!Solved
BY FlowGraph, FlowStates, FlowJoin, Flow!ReturnsSolution

\* "`None` means the block is unreachable", for compute_flow on every body.
THEOREM FlowNoneIsUnreachable == Flow!Spec => []Flow!NoneMeansUnreachable
BY FlowGraph, FlowStates, FlowJoin, Flow!NoneIsUnreachable

\* compute_flow never takes back a fact of an entry state that it stored.
THEOREM FlowOnlyGrows == Flow!Spec => Flow!EntriesOnlyGrow
BY FlowGraph, FlowStates, FlowJoin, Flow!NothingIsTakenBack

\* The worklist of compute_flow implements the abstract analysis FlowSolution:
\* whatever the order in which blocks are visited, entry states grow along
\* edges and end in a solution.
THEOREM FlowKeepsPromise == Flow!Spec => Flow!Promise
BY FlowGraph, FlowStates, FlowJoin, Flow!KeepsPromise

\* The transfer functions are sound for threads and pointers to constants.
LEMMA TaintSound == Flow!LocallySound
<1>1. Flow!FollowsEdges
  BY ExecutionFollows DEF Flow!FollowsEdges, Flow!Range, Range
<1>2. Flow!SeedDescribes
  BY ExecutionStarts DEF Flow!SeedDescribes, ResourceEntry
<1>3. Flow!TransferDescribes
  BY BlockTaint DEF Flow!TransferDescribes, States
<1>4. Flow!WeakeningDescribes
  BY WeakerTaint DEF Flow!WeakeningDescribes, States
<1>5. QED
  BY <1>1, <1>2, <1>3, <1>4 DEF Flow!LocallySound

\* The executions are the ones of the specification that is model-checked,
\* which differs in what it asks of the states.
LEMMA SameExecutions == RunSpec => Flow!RunSpec
<1>1. RunInit => Flow!RunInit
  BY DEF RunInit, Init, Flow!RunInit, Flow!Init
<1>2. [RunNext]_allvars => [Flow!RunNext]_(Flow!allvars)
  BY DEF RunNext, Analyse, Enter, Execute, Exit, Pop, Propagate, Returned, EntryChanged, NewEntry, EdgeState,
         allvars, vars, runvars,
         Flow!RunNext, Flow!Analyse, Flow!Enter, Flow!Execute, Flow!Exit, Flow!Pop, Flow!Propagate,
         Flow!Returned, Flow!EntryChanged, Flow!NewEntry, Flow!EdgeState,
         Flow!allvars, Flow!vars, Flow!runvars
<1>3. QED
  BY <1>1, <1>2, PTL DEF RunSpec, Flow!RunSpec

\* What holds of every execution, wherever it is.
LEMMA ExecutionDescribed == RunSpec => [](Flow!TypeOK /\ Flow!Described)
<1>1. Flow!RunSpec => []Flow!Described
  BY FlowGraph, FlowStates, FlowJoin, TaintSound, Flow!SoundAnalysis
<1>2. Flow!RunSpec => [](Flow!IInv /\ Flow!Solved)
  BY FlowGraph, FlowStates, FlowJoin, Flow!EngineRuns
<1>3. Flow!IInv => Flow!TypeOK
  BY DEF Flow!IInv
<1>4. QED
  BY <1>1, <1>2, <1>3, SameExecutions, PTL

\* At a block, its entry state describes the store.
LEMMA AtBlock ==
  ASSUME Flow!TypeOK, Flow!Described, at # Absent
  PROVE  /\ body[at] \in ProgramBlocks /\ body[at] \in BasicBlocks
         /\ entry_states[at] \in States /\ store \in ResourceStores
         /\ TaintDescribed(entry_states[at], store)
<1>1. at \in Blocks /\ entry_states[at] # Absent /\ store \in ResourceStores
      /\ TaintDescribed(entry_states[at], store)
  BY DEF Flow!Described, Flow!Reached
<1>2. body \in Programs /\ entry_states[at] \in States
  BY <1>1 DEF Flow!TypeOK, States
<1>3. QED
  BY <1>1, <1>2, FlowGraph

\* "called before this point on any reaching path": if every call that starts
\* a thread has a local for its result, a change of the environment after the
\* execution started a thread is reported as an error, in every body.
THEOREM SpawnedChangesReported ==
  ASSUME "thread_spawned" \in Fields,
         \A b \in Programs, c \in Blocks : SpawnsIntoLocal(b[c])
  PROVE  RunSpec => []SpawnedChangeIsError
<1>1. SpawnsKnown
  BY DEF SpawnsKnown, ProgramBlocks
<1>2. ASSUME Flow!TypeOK, Flow!Described PROVE SpawnedChangeIsError
  <2>1. SUFFICES ASSUME AtCall, PathIs(body[at].term.func.fn, "env_mutation"), store.spawned
                 PROVE  EnvSetVar(Before, body[at].term) = {"env_set_var_error"}
    BY DEF SpawnedChangeIsError
  <2>2. /\ body[at] \in BasicBlocks /\ entry_states[at] \in States
        /\ TaintDescribed(entry_states[at], store)
    BY <1>2, <2>1, AtBlock DEF AtCall
  <2>3. entry_states[at]["thread_spawned"]
    BY <1>1, <2>1, <2>2, Zenon DEF TaintDescribed
  <2>4. Before["thread_spawned"] = entry_states[at]["thread_spawned"]
    BY <2>2, StatementsKeepSpawned DEF Before
  <2>5. Before["thread_spawned"]
    BY <2>3, <2>4, Zenon
  <2>6. QED
    BY <2>1, <2>5, Zenon DEF EnvSetVar
<1>3. QED
  BY <1>2, ExecutionDescribed, PTL

\* "writes through a `*mut T` obtained by casting a `*const T`": if no
\* statement assigns a local to itself, an execution's write through a pointer
\* that was cast from a *const, however it got there, is reported, in every
\* body.
THEOREM ConstWritesReported ==
  ASSUME "const_ptr_cast" \in Fields,
         \A b \in Programs, c \in Blocks : SidesDiffer(b[c])
  PROVE  RunSpec => []ConstWriteReported
<1>1. ConstsKnown
  BY DEF ConstsKnown, ProgramBlocks
<1>2. ASSUME Flow!TypeOK, Flow!Described, at # Absent
      PROVE  /\ \A sts \in Seq(RegularStatements) :
                  ForEach(RunResourceStatement, store, sts).frozen
                    \subseteq ForEach(ApplyStatement, entry_states[at], sts)["const_ptr_cast"]
             /\ body[at] \in BasicBlocks /\ SidesDiffer(body[at])
  <2>1. /\ body[at] \in ProgramBlocks /\ body[at] \in BasicBlocks
        /\ entry_states[at] \in States /\ store \in ResourceStores
        /\ TaintDescribed(entry_states[at], store)
    BY <1>2, AtBlock
  <2>2. SidesDiffer(body[at]) /\ store.frozen \subseteq entry_states[at]["const_ptr_cast"]
    BY <1>1, <2>1 DEF ConstsKnown, TaintDescribed
  <2>3. QED
    BY <2>1, <2>2, StatementsConst
<1>3. ASSUME Flow!TypeOK, Flow!Described, at # Absent, NEW x \in Steps,
             x.st.dst = Place(x.st.dst.local, 1, NoField), x.st.dst.local \in x.m.frozen
      PROVE  ConstStore(x.s, x.st)
  <2>1. PICK i \in DOMAIN body[at].statements :
          /\ x.s = ForEach(ApplyStatement, entry_states[at], SubSeq(body[at].statements, 1, i - 1))
          /\ x.m = ForEach(RunResourceStatement, store, SubSeq(body[at].statements, 1, i - 1))
    BY <1>3 DEF Steps
  <2>2. SubSeq(body[at].statements, 1, i - 1) \in Seq(RegularStatements)
    BY <1>2, <1>3, RegularBlock
  <2>3. x.m.frozen \subseteq x.s["const_ptr_cast"]
    BY Zenon, <1>2, <1>3, <2>1, <2>2
  <2>4. QED
    BY <1>3, <2>3 DEF ConstStore, Holds
<1>4. ASSUME Flow!TypeOK, Flow!Described, AtCall, PathIs(body[at].term.func.fn, "write_through_first"),
             FirstArgLocal(body[at].term.args) \in ResourceStatements(store, body[at]).frozen
      PROVE  ConstWrite(Before, body[at].term)
  <2>1. at # Absent /\ body[at].term \in Calls /\ body[at].statements \in Seq(RegularStatements)
    BY <1>2, <1>4, CallKind, RegularBlock DEF AtCall, BasicBlocks
  <2>2. ResourceStatements(store, body[at]).frozen \subseteq Before["const_ptr_cast"]
    BY <1>2, <1>4, <2>1 DEF ResourceStatements, Before, BeforeTerminator
  <2>3. ResourceStatements(store, body[at]).frozen \subseteq Local
    <3>1. store \in ResourceStores /\ body[at] \in BasicBlocks
      BY <1>4, <2>1, AtBlock
    <3>2. ResourceStatements(store, body[at]) \in ResourceStores
      BY <3>1, StatementsSpawn DEF ResourceStatements, BasicBlocks
    <3>3. QED
      BY <3>2 DEF ResourceStores
  <2>4. FirstArgLocal(body[at].term.args) # NoLocal
    BY <1>4, <2>3, LocalAssumption
  <2>5. QED
    BY <1>4, <2>2, <2>4 DEF ConstWrite, Holds
<1>5. ASSUME Flow!TypeOK, Flow!Described PROVE ConstWriteReported
  BY <1>3, <1>4, <1>5 DEF ConstWriteReported
<1>6. QED
  BY <1>5, ExecutionDescribed, PTL
=============================================================================
