------------------------------ MODULE Precond -------------------------------
(***************************************************************************)
(* Implicit preconditions of safe functions: extract_precond_summary of    *)
(* analysis/precond.rs finds the parameters a body hands to an unsafe      *)
(* operation unguarded, checkers/precond_propagation.rs reports the calls  *)
(* that do not meet them.  Parameters are counted from 1, as locals are.   *)
(***************************************************************************)
EXTENDS UncheckedOps

CONSTANT Preconds      \* PrecondSummaryMap: a function on the functions that have a PrecondSummary

NoPrecond == [nonzero_args |-> {}, ascii_args |-> {}, bounded_for_args |-> {}]

\* (mutant) An index equal to the length is in bounds.
InBoundsInclusive(s, idx, recv) ==
  Holds(s, "index_bounded_or_eq_for", <<idx, recv>>) \/ LocalIsBoundedOrEq(s, idx)

InBounds(s, idx, recv) == Holds(s, "index_bounded_for", <<idx, recv>>) \/ Holds(s, "bounded", idx)

\* What a call t in state s leaves to the callers of the function around it.
LeftToCallers(s, t) ==
  LET arg(n) == NthArgLocal(t.args, n)
      recv == DerefBase(s, arg(1))
      first == {l \in {arg(1)} : IsParam(l)}
  IN [nonzero_args |->
        {l \in first : PathIs(t.func.fn, "nonzero_precond") /\ ~LocalIsNonzero(s, l)},
      ascii_args |->
        {l \in first : PathIs(t.func.fn, "ascii_precond") /\ ~LocalIsAscii(s, l)},
      bounded_for_args |->
        {p \in {<<arg(2), recv>>} :
           /\ PathIs(t.func.fn, "get_unchecked") /\ arg(1) # NoLocal
           /\ IsParam(p[1]) /\ IsParam(p[2]) /\ ~InBounds(s, p[1], p[2])}]

\* entry gives each block of the body its entry state, Absent for None.
ExtractPrecondSummary(body, entry) ==
  LET calls == {b \in DOMAIN body : entry[b] # Absent /\ body[b].term.kind = "Call"}
      left == {LeftToCallers(c.before, c.term) :
                 c \in {[before |-> BeforeTerminator(entry[b], body[b]), term |-> body[b].term] : b \in calls}}
  IN [nonzero_args |-> UNION {c.nonzero_args : c \in left},
      ascii_args |-> UNION {c.ascii_args : c \in left},
      bounded_for_args |-> UNION {c.bounded_for_args : c \in left}]

\* A local that is itself a parameter is passed over.
PrecondPropagation(s, t) ==
  LET pre == IF t.func.fn \in DOMAIN Preconds THEN Preconds[t.func.fn] ELSE NoPrecond
      arg(n) == NthArgLocal(t.args, n)
      concrete(n) == arg(n) # NoLocal /\ ~IsParam(arg(n))
  IN \/ \E n \in pre.nonzero_args : concrete(n) /\ ~LocalIsNonzero(s, arg(n))
     \/ \E n \in pre.ascii_args : concrete(n) /\ ~LocalIsAscii(s, arg(n))
     \/ \E p \in pre.bounded_for_args :
          /\ concrete(p[1]) /\ arg(p[2]) # NoLocal
          /\ ~InBounds(s, arg(p[1]), DerefBase(s, arg(p[2])))
=============================================================================
