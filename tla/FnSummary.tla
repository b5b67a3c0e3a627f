----------------------------- MODULE FnSummary ------------------------------
(***************************************************************************)
(* From a flow result to the summary of a function: extract_summary of     *)
(* analysis/summary.rs, and what run_checks keeps of it for a function of  *)
(* another crate.                                                          *)
(***************************************************************************)
EXTENDS Terminators, SequencesExt

CONSTANT IsLocal(_)     \* function: it belongs to the crate under analysis

\* The returns that are reached, joined in the order of the blocks.
ExitState(body, entry) ==
  LET returns == {b \in DOMAIN body : body[b].term.kind = "Return" /\ entry[b] # Absent}
      before(b) == BeforeTerminator(entry[b], body[b])
  IN IF returns = {} THEN Absent
     ELSE FoldLeft(LAMBDA s, b : Merged(s, before(b)), before(Min(returns)),
                   SetToSortSeq(returns \ {Min(returns)}, <))

\* (mutant) A parameter that is freed on some paths only counts as freed.
ParamEffectAnyPath(h) ==
  CASE h \in {"Reconstituted", "MaybeFreed"} -> "Reconstituted" [] h = "Escaped" -> "Escaped"
    [] OTHER -> Absent

ParamEffect(h) ==
  CASE h = "Reconstituted" -> "Reconstituted" [] h \in {"Escaped", "MaybeFreed"} -> "Escaped"
    [] OTHER -> Absent

\* (mutants) The ids of parameters start one later; sites are counted from 0.
ParamOfShifted(o) ==
  LET p == IF o >= SUMMARY_BASE THEN o - SUMMARY_BASE ELSE o IN IF IsParam(p) THEN p ELSE 0

ParamOfSite(o) ==
  LET p == IF o >= SUMMARY_BASE THEN o - SUMMARY_BASE + 1 ELSE o + 1 IN IF IsParam(p) THEN p ELSE 0

\* The parameter an object returned to the caller stands for, 0 if none: the
\* ids of call sites are compared with parameter locals, too.
ParamOf(o) ==
  LET p == IF o >= SUMMARY_BASE THEN o - SUMMARY_BASE + 1 ELSE o IN IF IsParam(p) THEN p ELSE 0

FirstParam(ps) == IF ps \ {0} = {} THEN 0 ELSE Min(ps \ {0})

ReadSummary(s) ==
  LET effect(i) == [param |-> i, effect |-> ParamEffect(At(s, "heap", SUMMARY_BASE + i - 1))]
      returned == ObjectsFor(s, 0)
      ofParam == {o \in returned : ParamOf(o) # 0}
      reallocated == {l \in 1..ArgCount : Holds(s, "realloced_params", l)}
  IN [param_effects |-> SelectSeq([i \in 1..ArgCount |-> effect(i)], LAMBDA e : e.effect # Absent),
      returns_raw_owned |-> \E o \in returned : o < SUMMARY_BASE /\ At(s, "heap", o) = "RawOwned",
      returns_alias_of_param |-> FirstParam(OwnersOf(s, 0) \cap 1..ArgCount),
      returns_ptr_of_param |-> IF ofParam = {} THEN 0 ELSE ParamOf(Min(ofParam)),
      reallocs_param |-> FirstParam(reallocated)]

ExtractSummary(body, entry) ==
  LET s == ExitState(body, entry) IN IF s = Absent THEN NoSummary ELSE ReadSummary(s)

\* Of a function of another crate only the aliasing effects are trusted.
TrimExternal(fn, sum) ==
  IF IsLocal(fn) THEN sum
  ELSE [sum EXCEPT !.param_effects = <<>>, !.returns_raw_owned = FALSE,
          !.returns_alias_of_param = IF PathIs(fn, "owned_buffer_accessor") THEN 1 ELSE @,
          !.returns_ptr_of_param =
             IF PathIs(fn, "ptr_cast") \/ PathIs(fn, "nonnull_wrap") THEN @ ELSE 0]
=============================================================================
