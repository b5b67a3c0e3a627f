------------------------------ MODULE HeapMir -------------------------------
(***************************************************************************)
(* What programs with raw pointers do when they run, and what the heap     *)
(* facts of a BlockState say of it.                                        *)
(*                                                                         *)
(* An object is <<site, n>>, the n-th allocation of the call in block      *)
(* `site'.  A store knows, of each cell <<local, field>> (NoField for the  *)
(* local itself), the objects it holds pointers to; the objects allocated  *)
(* so far; the ones whose ownership was taken back (by from_raw or a       *)
(* helper that ends in it); and the ones unknown code has seen.            *)
(***************************************************************************)
EXTENDS PointerUses

CONSTANTS Cells,     \* the locals and the fields that hold pointers
          Sites,     \* blocks that may allocate
          MaxAllocs  \* how often one site may allocate

Objects == Sites \X (1..MaxAllocs)

HeapStores ==
  [ptr : [Cells -> SUBSET Objects], live : SUBSET Objects, freed : SUBSET Objects,
   seen : SUBSET Objects]

EmptyHeap == [ptr |-> [c \in Cells |-> {}], live |-> {}, freed |-> {}, seen |-> {}]

Whole(l) == <<l, NoField>>

Cell(p) == IF <<p.local, p.field>> \in Cells THEN <<p.local, p.field>> ELSE Whole(p.local)

\* What an operand may hold: a field of a tuple is one of its pointers.
Held(m, op) ==
  CASE op.kind = "Constant" -> {{}}
    [] op.kind # "Constant" ->
         IF op.place.field = Cell(op.place)[2] THEN {m.ptr[Cell(op.place)]}
         ELSE {{o} : o \in m.ptr[Whole(op.place.local)]}

\* The pointer sets an rvalue may produce.
Pointers(m, rv) ==
  CASE rv.kind \in {"Use", "Cast"} -> Held(m, rv.op)
    [] rv.kind = "RawPtr" -> {m.ptr[Whole(rv.place.local)]}
    [] rv.kind = "BinaryOp" -> Held(m, rv.a)
    [] rv.kind = "Aggregate" ->
         {UNION {m.ptr[Whole(rv.ops[i].place.local)] : i \in DOMAIN rv.ops}}
    [] rv.kind = "Other" -> {{}}

\* A moved-from local holds nothing that the program may still use.
MoveOut(ptr, rv) ==
  IF IsMove(rv) THEN [ptr EXCEPT ![Cell(rv.op.place)] = {}] ELSE ptr

HeapStatement(ms, st) ==
  UNION {{[m EXCEPT !.ptr = [MoveOut(m.ptr, st.rv) EXCEPT ![Cell(st.dst)] = v]] :
            v \in Pointers(m, st.rv)} : m \in ms}

HeapStatements(m, data) == ForEach(HeapStatement, {m}, data.statements)

Take(m, objs) == [m EXCEPT !.freed = @ \cup objs]

Assigned(m, t, objs) == [m EXCEPT !.ptr[Whole(t.dest.local)] = objs]

\* The next allocation of the site, if the bound allows another.
NewObject(m, b) ==
  LET used == {o \in m.live : o[1] = b} IN
  IF Cardinality(used) < MaxAllocs THEN {<<b, Cardinality(used) + 1>>} ELSE {}

NewIn(m, t, b) == {Assigned([m EXCEPT !.live = @ \cup {o}], t, {o}) : o \in NewObject(m, b)}

\* A read leaves the heap alone, a reference lets the object be seen, and an
\* unknown callee may keep, free or ignore what it is given.
RunCall(m, b, t) ==
  LET fn == t.func.fn
      arg == FirstArgBaseLocal(t.args)
      objs == IF arg = NoLocal THEN {} ELSE m.ptr[Whole(arg)]
      sum == SummaryOf(fn)
      effects == {sum.param_effects[i].effect : i \in DOMAIN sum.param_effects}
  IN CASE PathIs(fn, "into_raw") -> NewIn(m, t, b)
       [] PathIs(fn, "raw_realloc") -> NewIn(Take(m, objs), t, b)
       [] PathIs(fn, "from_raw") \/ effects = {"Reconstituted"} -> {Assigned(Take(m, objs), t, {})}
       [] sum.returns_raw_owned -> NewIn(m, t, b)
       [] PathIs(fn, "ptr_read") -> {Assigned(m, t, {})}
       [] PathIs(fn, "ptr_as_ref") \/ PathIs(fn, "nonnull_deref") ->
            {Assigned([m EXCEPT !.seen = @ \cup objs], t, {})}
       [] sum.returns_ptr_of_param # 0 -> {Assigned(m, t, objs)}
       [] OTHER -> {Assigned(n, t, {}) : n \in {[m EXCEPT !.seen = @ \cup objs],
                                                Take([m EXCEPT !.seen = @ \cup objs], objs)}}

RunHeapTerminator(m, b, t) ==
  CASE t.kind = "Call" -> {[to |-> t.targets[1], store |-> n] : n \in RunCall(m, b, t)}
    [] t.kind \in {"Goto", "SwitchInt"} -> {[to |-> c, store |-> m] : c \in Range(t.targets)}
    [] t.kind = "Drop" ->
         {[to |-> t.targets[1], store |-> [m EXCEPT !.ptr[Whole(t.place.local)] = {}]]}
    [] t.kind = "Return" -> {}

RunHeapBlock(data, m) ==
  UNION {RunHeapTerminator(n, data.bb, data.term) : n \in HeapStatements(m, data)}

\* The youngest object of its site, which the site's heap state is about.
Youngest(m, o) == o \in m.live /\ \A p \in m.live : p[1] = o[1] => p[2] <= o[2]

\* A pointer the analysis has not let go of is in points_to (or field_owned),
\* and an object that is RawOwned was not taken back.
HeapDescribed(s, m) ==
  /\ \A c \in Cells : \A o \in m.ptr[c] \ m.seen :
       o[1] \in (IF c[2] = NoField THEN ObjectsFor(s, c[1]) ELSE At(s, "field_owned", c))
  /\ \A o \in m.live \ m.seen : Youngest(m, o) =>
       /\ At(s, "heap", o[1]) # Absent
       /\ At(s, "heap", o[1]) = "RawOwned" => o \notin m.freed
=============================================================================
