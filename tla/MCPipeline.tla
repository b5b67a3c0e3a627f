----------------------------- MODULE MCPipeline -----------------------------
(***************************************************************************)
(* run_checks on small crates: three local functions that call each other  *)
(* and three functions of dependencies, with every combination of a few    *)
(* bodies.  A body passes its parameter to its callees in turn, frees it,  *)
(* returns a view of it, or frees what it takes for it: what its recursive *)
(* call returned.  The summary of a function of a dependency is trimmed to *)
(* the view.                                                               *)
(***************************************************************************)
EXTENDS Pipeline, SequencesExt

MCFn == {"a", "b", "c", "x", "y", "z"}

MCLocalFns(c) == <<"c", "a", "b">>

IsLocal(f) == f \in {"a", "b", "c"}

SettlingCrates ==
  [a : {<<"b">>, <<"x", "b">>, <<"x", "y">>}, b : {<<"c">>, <<"x">>, <<"c", "a">>, <<"z", "y">>},
   c : {<<>>, <<"z">>}, x : {<<>>, <<"z", "y">>}, y : {<<>>, <<"z", "x">>}, z : {<<>>},
   leaf : {"passes", "frees", "views"}, pointed : {{}, {"b"}}, lib : {{"x", "y", "z"}, {"x", "z"}}]

\* c calls itself and frees the result.
TurningCrates ==
  [a : {<<"b">>, <<"x", "b">>}, b : {<<"c">>, <<"c", "a">>, <<"z", "y">>}, c : {<<"c">>},
   x : {<<>>, <<"z", "y">>}, y : {<<>>}, z : {<<>>}, leaf : {"turns"}, pointed : {{}, {"b"}}, lib : {{"x", "z"}}]

MCCrates == SettlingCrates \cup TurningCrates

MCCallsOf(c, f) == c[f]

\* A function pointer to the pointed functions is called in the body of a.
MCMentions(c, f) == Range(c[f]) \cup IF f = "a" THEN c.pointed ELSE {}

MCExported(c) == c.lib

MCSummary == {"empty", "frees", "escapes", "view"}

MCIsEmpty(s) == s = "empty"

Kind(c, f) == CASE f = "c" -> c.leaf [] f = "x" -> "views" [] OTHER -> "passes"

\* An object that was freed stays so; a callee without a summary may keep it.
Passed(m, h, g) ==
  IF h # "empty" \/ m[g] = "view" THEN h ELSE IF m[g] = None THEN "escapes" ELSE m[g]

\* While its own call is an unknown one, what it frees passes for the parameter
\* (MCCrate has such a body); with a summary, the result is known to be another.
MCDerive(c, f, m) ==
  LET s == CASE Kind(c, f) = "frees" -> "frees" [] Kind(c, f) = "views" -> "view"
             [] Kind(c, f) = "turns" -> IF m[f] = None THEN "escapes" ELSE "empty"
             [] OTHER -> FoldLeft(LAMBDA h, g : Passed(m, h, g), "empty",
                                  c[f] \o SetToSeq(MCMentions(c, f) \ Range(c[f])))
  IN IF IsLocal(f) \/ s = "view" THEN s ELSE "empty"

\* In such a crate no map solves the equation of c: only the cap ends the rounds.
ASSUME TurningAssumption ==
  \A c \in TurningCrates, s \in MCSummary \cup {None} :
    LET new == MCDerive(c, "c", [g \in MCMentions(c, "c") |-> s])
    IN s # IF MCIsEmpty(new) THEN None ELSE new

MCPrecond == {"checked index"}

MCPrecondOf(c, f, m) == IF Kind(c, f) = "views" THEN "checked index" ELSE None

\* Functions b and c come from one macro: their calls have the same spans.
MCSpan(f, i) ==
  CASE f = "a" -> [lo |-> 0, hi |-> 2 + i]
    [] OTHER -> [lo |-> 2 * i + 2, hi |-> 2 * i + 4]

At(f, i, rule) == [rule |-> rule, lo |-> MCSpan(f, i).lo, hi |-> MCSpan(f, i).hi]

MCFinding == [rule : {"double_free", "precondition", "static_mut", "unsafe_fn_call"}, lo : 0..8, hi : 0..8]

MCBodyFindings(c, f, m, p) ==
  LET found == [i \in DOMAIN c[f] |->
                  At(f, i, IF m[c[f][i]] = "frees" THEN "double_free"
                           ELSE IF p[c[f][i]] # None THEN "precondition" ELSE "unsafe_fn_call")]
  IN {found, Reverse(found)}

MCCrateFindings(c) == {<<[rule |-> "static_mut", lo |-> 4, hi |-> 6]>>}

RECURSIVE MCWithin(_, _)
MCWithin(c, k) ==
  IF k = 0 THEN Range(MCLocalFns(c))
  ELSE LET near == MCWithin(c, k - 1) IN near \cup ((UNION {Range(c[f]) : f \in near}) \cap c.lib)

\* The functions from which no chain of k summarised functions starts.
RECURSIVE RankedBelow(_, _)
RankedBelow(c, k) ==
  IF k = 0 THEN {}
  ELSE LET below == RankedBelow(c, k - 1)
           all == MCWithin(c, MAX_EXTERNAL_DEPTH)
       IN {f \in MCFn : MCMentions(c, f) \cap all \subseteq below}

MCRanked(c) == RankedBelow(c, 6)

MCRank(c, f) == CHOOSE k \in 0..5 : f \in RankedBelow(c, k + 1) \ RankedBelow(c, k)
=============================================================================
