----------------------------- MODULE Ownership ------------------------------
(***************************************************************************)
(* The checker checkers/flow/ownership.rs: double frees, frees of memory   *)
(* that a live owner still holds, and leaks, read off the flow results;    *)
(* and checkers/into_raw.rs, which reports what no return has consumed.    *)
(*                                                                         *)
(* entry gives each block its entry state, Absent for None; the findings   *)
(* are records of the rule, the block and the object or local at fault.    *)
(***************************************************************************)
EXTENDS Terminators

CONSTANTS InDrop, InClosure     \* is_drop_method(body), is_closure_like(body)

Finding(rule, b, x) == [rule |-> rule, bb |-> b, about |-> x]

\* (mutant) Only a direct call of from_raw frees.
FreedLocalsDirect(s, t) ==
  (IF PathIs(Callee(s, t.func), "from_raw") THEN {FirstArgBaseLocal(t.args)} ELSE {}) \ {NoLocal}

\* The locals a call frees: from_raw's argument, or what the summary says.  The
\* summary is looked up under the function that is named at the call: where
\* that is a method of a trait, which the transfer resolves to the fn of an
\* impl, the checker finds none.
FreedLocals(s, t) ==
  LET fn == Callee(s, t.func)
      effects == IF PathIs(fn, "named_by_trait") THEN <<>> ELSE SummaryOf(fn).param_effects
  IN (IF PathIs(fn, "from_raw") THEN {FirstArgBaseLocal(t.args)}
      ELSE {NthArgLocal(t.args, effects[i].param) :
              i \in {j \in DOMAIN effects : effects[j].effect = "Reconstituted"}})
     \ {NoLocal}

\* (mutant) An object freed on one path only is passed over.
DoubleFreesDefinite(s, t, b) ==
  LET objs == UNION {ObjectsFor(s, l) : l \in FreedLocals(s, t)} IN
  {Finding("already_reconstituted", b, o) : o \in {p \in objs : At(s, "heap", p) = "Reconstituted"}}

DoubleFrees(s, t, b) ==
  LET objs == UNION {ObjectsFor(s, l) : l \in FreedLocals(s, t)} IN
  {Finding("already_reconstituted", b, o) : o \in {p \in objs : At(s, "heap", p) = "Reconstituted"}}
    \cup {Finding("potential_double_free", b, o) : o \in {p \in objs : At(s, "heap", p) = "MaybeFreed"}}

OwnerFrees(s, t, b) ==
  IF InDrop THEN {}
  ELSE {Finding("use_after_free", b, l) :
          l \in {m \in FreedLocals(s, t) : \E o \in OwnersOf(s, m) : IsReferenceParam(o)}}

\* (mutant) What is returned counts as leaked.
LeakedOrReturned(s) ==
  {o \in UNION {ObjectsFor(s, l) : l \in Local} : At(s, "heap", o) = "RawOwned"}

\* Objects that are still RawOwned at a return and are not handed out by it.
Leaked(s) ==
  {o \in (UNION {ObjectsFor(s, l) : l \in Local}) \ ObjectsFor(s, 0) : At(s, "heap", o) = "RawOwned"}

\* Each object is reported at the first return that leaks it.
OwnershipFindings(body, entry) ==
  LET blocks == {b \in DOMAIN body : entry[b] # Absent}
      before(b) == BeforeTerminator(entry[b], body[b])
      returns == {b \in blocks : body[b].term.kind = "Return" /\ ~InClosure}
      calls == {b \in blocks : body[b].term.kind = "Call"}
      leaks(b) == Leaked(before(b)) \ UNION {Leaked(before(c)) : c \in {r \in returns : r < b}}
  IN UNION {{Finding("ownership_leak", b, o) : o \in leaks(b)} : b \in returns}
     \cup UNION {DoubleFrees(before(b), body[b].term, b)
                 \cup OwnerFrees(before(b), body[b].term, b) : b \in calls}

BeforeReturns(body, entry) ==
  {BeforeTerminator(entry[b], body[b]) :
     b \in {c \in DOMAIN body : entry[c] # Absent /\ body[c].term.kind = "Return"}}

NotConsumed(b, returns) == returns = {} \/ \E s \in returns : At(s, "heap", b) = "RawOwned"

\* Calls that give up ownership, by name; those that the analysis tracks as
\* into_raw only when some return still has the object RawOwned.
IntoRawFindings(body, entry) ==
  LET returns == BeforeReturns(body, entry) IN
  {Finding("into_raw", b, b) : b \in
     {c \in DOMAIN body :
        /\ body[c].term.kind = "Call" /\ PathIs(body[c].term.func.fn, "into_raw_call")
        /\ PathIs(body[c].term.func.fn, "into_raw") => NotConsumed(c, returns)}}
=============================================================================
