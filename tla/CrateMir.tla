------------------------------ MODULE CrateMir ------------------------------
(***************************************************************************)
(* What the functions of a crate do with raw pointers when they run and    *)
(* call each other.                                                        *)
(*                                                                         *)
(* An object is <<function, block, n>>, the n-th allocation of that call.  *)
(* The heap holds the objects allocated, the ones taken back, the ones     *)
(* taken back twice, and the ones that were handed to code the analysis of *)
(* the caller knows nothing definite about (`opaque').  A call is bad when *)
(* it takes back an object that its own function got hold of, and that was *)
(* taken back before the call began.                                       *)
(***************************************************************************)
EXTENDS Mir, SequencesExt

CONSTANTS
  BodyOf(_, _),    \* crate, function: its blocks, or NoValue
  Is(_),           \* function: the path predicates that hold of its path
  MaxCallDepth     \* how deep calls may nest

CallersObject == <<"caller", 0, 1>>

EntryHeap == [live |-> {CallersObject}, freed |-> {}, twice |-> {}, seen |-> {}, bad |-> {}]

Free(h, objs) ==
  [h EXCEPT !.freed = @ \cup objs, !.twice = @ \cup ((objs \cap h.freed) \ h.seen)]

Show(h, objs) == [h EXCEPT !.seen = @ \cup objs]

Fresh(h, f, b) == <<f, b, Cardinality({o \in h.live : o[1] = f /\ o[2] = b}) + 1>>

Result(objs, h) == [ret |-> objs, heap |-> h]

AllocateIn(h, f, b) == {Result({Fresh(h, f, b)}, [h EXCEPT !.live = @ \cup {Fresh(h, f, b)}])}

\* Statements copy a pointer or null one.
RunStatement(ptr, st) ==
  [ptr EXCEPT ![st.dst.local] = IF st.rv.kind = "Use" THEN ptr[st.rv.op.place.local] ELSE {}]

RunStatements(ptr, data) == FoldLeft(RunStatement, ptr, data.statements)

RECURSIVE RunFn(_, _, _, _, _, _), RunBlock(_, _, _, _, _, _)

\* What the call that ends block b of f may return, and the heap after it.
CallResults(c, opaque, f, b, objs, h, fuel) ==
  LET fn == BodyOf(c, f)[b].term.func.fn IN
  CASE "into_raw" \in Is(fn) -> AllocateIn(h, f, b)
    [] "raw_realloc" \in Is(fn) -> AllocateIn(Free(h, objs), f, b)
    [] "from_raw" \in Is(fn) -> {Result({}, Free(h, objs))}
    [] BodyOf(c, fn) # NoValue ->
         IF fuel = 0 THEN {}
         ELSE RunFn(c, opaque, fn, objs, IF fn \in opaque THEN Show(h, objs) ELSE h, fuel - 1)
    [] OTHER -> {Result({}, Show(h, objs)), Result({}, Free(Show(h, objs), objs))}

\* fr is the frame: its pointers, what existed before it, what it got where.
AfterCall(f, b, t, fr, r) ==
  LET again == (r.heap.twice \ fr.heap.twice) \cap (fr.heap.freed \ fr.old)
  IN [fr EXCEPT !.ptr[t.dest.local] = r.ret,
                !.got = @ \cup ({b} \X (r.ret \ fr.heap.live)),
                !.heap = [r.heap EXCEPT !.bad = @ \cup {<<f, b, o>> : o \in again}]]

RunBlock(c, opaque, f, b, frame, fuel) ==
  LET data == BodyOf(c, f)[b]
      t == data.term
      fr == [frame EXCEPT !.ptr = RunStatements(@, data)]
  IN CASE t.kind = "Return" ->
            {[ret |-> fr.ptr[0], heap |-> fr.heap, got |-> fr.got, at |-> b]}
       [] t.kind \in {"Goto", "SwitchInt"} ->
            UNION {RunBlock(c, opaque, f, d, fr, fuel) : d \in Range(t.targets)}
       [] t.kind = "Call" ->
            LET objs == IF t.args = <<>> THEN {} ELSE fr.ptr[t.args[1].place.local] IN
            UNION {RunBlock(c, opaque, f, t.targets[1], AfterCall(f, b, t, fr, r), fuel) :
                     r \in CallResults(c, opaque, f, b, objs, fr.heap, fuel)}

\* Every way a call of f on a pointer to objs may end.
RunFn(c, opaque, f, objs, h, fuel) ==
  RunBlock(c, opaque, f, 0,
           [ptr |-> [l \in Local |-> IF l = 1 THEN objs ELSE {}], old |-> h.live,
            got |-> {}, heap |-> h], fuel)

\* ... on a pointer to an object of a caller outside the crate.
OutcomesWithin(c, opaque, f, fuel) == RunFn(c, opaque, f, {CallersObject}, EntryHeap, fuel)

Outcomes(c, opaque, f) == OutcomesWithin(c, opaque, f, MaxCallDepth)

\* The objects that some execution shows to code nothing definite is known of:
\* for an object of the deepest call, an execution that calls deeper still.
GivenAway(c, opaque, f) ==
  UNION {o.heap.seen : o \in OutcomesWithin(c, opaque, f, MaxCallDepth + 2)}
=============================================================================
