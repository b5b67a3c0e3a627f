----------------------------- MODULE BufferMir ------------------------------
(***************************************************************************)
(* What programs with growing collections do when they run, and what the   *)
(* capacity and alias facts of a BlockState say of it.                     *)
(*                                                                         *)
(* A store gives each collection its length and capacity, each integer and *)
(* Boolean its value, each array the values it was made of, and tells      *)
(* which collection a reference or pointer leads to, which pointers were   *)
(* left behind when that collection moved its buffer, and to which buffers *)
(* something was written.  The semantics is that of Rust's collections:    *)
(* san relies on it and implements none.                                   *)
(***************************************************************************)
EXTENDS Collections, IntegerMir

CONSTANTS Coll,      \* the locals that stand for a collection
          MaxCap     \* the largest capacity

BufferStores ==
  [len : [Coll -> 0..MaxCap], cap : [Coll -> 0..MaxCap], val : [Local -> 0..MaxCap],
   items : [Local -> Seq(0..MaxCap)], leads : [Local -> Coll \cup {NoLocal}], stale : SUBSET Local,
   written : SUBSET Coll]

\* dst gets what src holds; a moved-from local holds nothing.
Follow(m, dst, src) ==
  [m EXCEPT !.val[dst] = m.val[src], !.items[dst] = m.items[src], !.leads[dst] = m.leads[src],
            !.stale = IF src \in @ THEN @ \cup {dst} ELSE @ \ {dst}]

MovedFrom(m, op) ==
  IF op.kind = "Move" THEN [m EXCEPT !.leads[op.place.local] = NoLocal, !.stale = @ \ {op.place.local}] ELSE m

ValueOf(m, op) == IF op.kind = "Constant" THEN op.val ELSE m.val[op.place.local]

\* A store through a pointer changes elements, which no fact is about.
BufferStatement(ms, st) ==
  LET dst == st.dst.local
      rv == st.rv
  IN IF ~IsPlain(st.dst) THEN ms
     ELSE UNION {
       CASE rv.kind \in {"Use", "Cast"} /\ rv.op.kind # "Constant" ->
              {MovedFrom(Follow(m, dst, rv.op.place.local), rv.op)}
         [] rv.kind = "Ref" -> {Follow(m, dst, rv.place.local)}
         [] rv.kind = "BinaryOp" ->
              {[m EXCEPT !.val[dst] = v] : v \in Operate(rv.o, ValueOf(m, rv.a), ValueOf(m, rv.b))}
         [] rv.kind = "Aggregate" ->
              {[m EXCEPT !.items[dst] = [i \in DOMAIN rv.ops |-> ValueOf(m, rv.ops[i])]]}
         [] rv.kind = "Other" -> {[m EXCEPT !.val[dst] = v] : v \in 0..MaxCap} : m \in ms}

BufferStatements(m, data) == ForEach(BufferStatement, {m}, data.statements)

\* The buffer of c is moved to one of capacity k.
Moved(m, c, k) ==
  [m EXCEPT !.cap[c] = k, !.stale = @ \cup {l \in Local : IsRawPtr(l) /\ m.leads[l] = c}]

Grown(m, c) == {Moved(m, c, k) : k \in (m.cap[c] + 1)..MaxCap}

Longer(ms, c) == {[m EXCEPT !.len[c] = @ + 1] : m \in ms}

\* Collection c is replaced by any other.
Replaced(m, c) == UNION {{[m EXCEPT !.len[c] = n, !.cap[c] = k] : n \in 0..k} : k \in 0..MaxCap}

\* The stores a call may end in.  Beyond the largest capacity it panics, and
\* an operation whose requirement is not met has no defined outcome.
BufferCall(m, t) ==
  LET fn == t.func.fn
      c == IF OperandLocal(t.args[1]) = NoLocal THEN NoLocal ELSE m.leads[OperandLocal(t.args[1])]
      d == t.dest.local
      room == m.len[c] < m.cap[c]
  IN CASE fn = "len" -> {[m EXCEPT !.val[d] = m.len[c]]}
       [] fn = "capacity" -> {[m EXCEPT !.val[d] = m.cap[c]]}
       [] fn = "push" -> Longer(IF room THEN {m} ELSE Grown(m, c), c)
       [] fn \in {"reserve", "grow"} -> {m} \cup Grown(m, c)
       [] fn = "clear" -> {[m EXCEPT !.len[c] = 0]}
       [] fn = "unknown" -> UNION {{[n EXCEPT !.len[c] = k] : k \in 0..n.cap[c]} : n \in {m} \cup Grown(m, c)}
       [] fn \in {"push_unchecked", "insert_no_grow", "push_back_unchecked"} ->
            IF room THEN Longer({m}, c) ELSE {}
       [] fn \in {"put", "write"} -> {[m EXCEPT !.written = @ \cup ({c} \ {NoLocal})]}
       [] fn = "copy" -> {[m EXCEPT !.written = @ \cup ({m.leads[OperandLocal(t.args[2])]} \ {NoLocal})]}
       [] fn \in {"as_ptr", "as_mut_ptr"} -> {[m EXCEPT !.leads[d] = c, !.stale = @ \ {d}]}
       [] fn = Absent /\ d \in Coll -> Replaced(m, d)
       [] OTHER -> {m}

\* Handing on a pointer that was left behind has no defined outcome either.
BufferTerminator(m, t) ==
  IF t.kind \in {"Call", "InlineAsm"} /\ RawPtrArgs(t) \cap m.stale # {} THEN {}
  ELSE CASE t.kind \in {"Goto", "InlineAsm"} -> {[to |-> t.targets[1], store |-> m]}
         [] t.kind = "SwitchInt" -> {[to |-> Taken(t, m.val[t.discr.place.local]), store |-> m]}
         [] t.kind = "Call" -> {[to |-> t.targets[1], store |-> n] : n \in BufferCall(m, t)}
         [] t.kind = "Return" -> {}

BufferBlock(data, m) == UNION {BufferTerminator(n, data.term) : n \in BufferStatements(m, data)}

PairsIn(s, f) == IF f \in Fields THEN s[f] ELSE {}

\* The answers a checker may get are true of store m: room and its absence,
\* bytes written, pairs of values, and no pointer that was left behind passes for a live one.
BufferDescribed(s, m) ==
  /\ \A c \in Coll :
       /\ Holds(s, "has_spare", c) => m.len[c] < m.cap[c]
       /\ Holds(s, "is_full", c) => m.len[c] = m.cap[c]
       /\ Holds(s, "buf_written", c) => c \in m.written
  /\ \A l \in m.stale : FreedKind(s, l) # "NotFreed"
  /\ \A p \in PairsIn(s, "eq_locals") : m.val[p[1]] = m.val[p[2]]
  /\ \A p \in PairsIn(s, "keys_are_ne") : m.val[p[1]] # m.val[p[2]]
=============================================================================
