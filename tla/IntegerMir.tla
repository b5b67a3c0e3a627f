----------------------------- MODULE IntegerMir -----------------------------
(***************************************************************************)
(* What the integer part of MIR does when it runs, and what the value-range*)
(* facts of a BlockState say of it.                                        *)
(*                                                                         *)
(* A store gives each local a value of its type; the value of a slice, and *)
(* of a reference to it, is its length.  Arithmetic wraps at the width of  *)
(* the destination, and a callee other than len may return anything.  The  *)
(* semantics is rustc's, not san's: san relies on it and implements none.  *)
(***************************************************************************)
EXTENDS Terminators

\* A slice has at most isize::MAX elements.
Greatest(l) == IF Ty(l).max = NoValue THEN MaxISize ELSE Ty(l).max

Values(l) == 0..Greatest(l)

IntegerStores == {m \in [Local -> 0..MaxU64] : \A l \in Local : m[l] \in Values(l)}

Truth(b) == IF b THEN 1 ELSE 0

\* Bitwise and, or of three-bit numbers.
Bits(x) == {i \in 0..2 : (x \div 2^i) % 2 = 1}

Number(B) == MapThenSumSet(LAMBDA i : 2^i, B)

Operate(o, x, y) ==
  CASE o = "Lt" -> {Truth(x < y)}  [] o = "Le" -> {Truth(x <= y)}
    [] o = "Gt" -> {Truth(x > y)}  [] o = "Ge" -> {Truth(x >= y)}
    [] o = "Eq" -> {Truth(x = y)}  [] o = "Ne" -> {Truth(x # y)}
    [] o = "Add" -> {x + y}        [] o = "Mul" -> {x * y}
    [] o = "BitAnd" -> {Number(Bits(x) \cap Bits(y))}
    [] o = "BitOr" -> {Number(Bits(x) \cup Bits(y))}
    [] o = "Shr" -> {x \div 2^y}
    [] o = "Rem" -> IF y = 0 THEN {} ELSE {x % y}     \* panics

Read(m, op) == IF op.kind = "Constant" THEN op.val ELSE m[op.place.local]

\* The values an rvalue may have.
Results(m, dst, rv) ==
  CASE rv.kind \in {"Use", "Cast"} -> {Read(m, rv.op)}
    [] rv.kind = "BinaryOp" -> Operate(rv.o, Read(m, rv.a), Read(m, rv.b))
    [] rv.kind = "Ref" -> {m[rv.place.local]}
    [] rv.kind = "Other" -> Values(dst)

RunStatement(ms, st) ==
  LET dst == st.dst.local IN
  UNION {{[m EXCEPT ![dst] = v % (Greatest(dst) + 1)] : v \in Results(m, dst, st.rv)} : m \in ms}

RunStatements(m, data) == ForEach(RunStatement, {m}, data.statements)

\* The target a switch on value v takes.
Taken(t, v) ==
  LET hits == {i \in DOMAIN t.values : t.values[i] = v} IN
  t.targets[IF hits = {} THEN Len(t.targets) ELSE Min(hits)]

RunTerminator(m, t) ==
  CASE t.kind = "Goto" -> {[to |-> t.targets[1], store |-> m]}
    [] t.kind = "SwitchInt" -> {[to |-> Taken(t, m[t.discr.place.local]), store |-> m]}
    [] t.kind = "Call" ->
         {[to |-> t.targets[1], store |-> [m EXCEPT ![t.dest.local] = v]] :
            v \in IF PathIs(t.func.fn, "len") THEN {Read(m, t.args[1])} ELSE Values(t.dest.local)}
    [] t.kind = "Return" -> {}

RunBlock(data, m) == UNION {RunTerminator(n, data.term) : n \in RunStatements(m, data)}

\* The answers a checker may get about values are true of store m.
ValuesDescribed(s, m) ==
  /\ \A l \in Local :
       /\ LocalIsNonzero(s, l) => m[l] # 0
       /\ At(s, "const_upper", l) # Absent => m[l] <= At(s, "const_upper", l)
       /\ At(s, "const_lower", l) # Absent => m[l] >= At(s, "const_lower", l)
  /\ \A p \in Local \X Local :
       /\ Holds(s, "eq_locals", p) => m[p[1]] = m[p[2]]
       /\ Holds(s, "keys_are_ne", p) => m[p[1]] # m[p[2]]
=============================================================================
