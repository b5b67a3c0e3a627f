------------------------------ MODULE Pipeline ------------------------------
(***************************************************************************)
(* `run_checks' of lib.rs: which functions are summarised, the rounds of   *)
(* summaries, the precondition pre-pass, the checks of every body, and     *)
(* what of their findings is kept.                                         *)
(*                                                                         *)
(* The module is generic in what a summary, a precondition and a finding   *)
(* say: they come from constants that stand for the analysis of one body   *)
(* (compute_flow_for_summary and extract_summary, extract_precond_summary, *)
(* the CHECKERS).  A map of the code is a function with None for a missing *)
(* entry.  Sets of finding sequences stand for the order in which a        *)
(* checker walks its hash maps.                                            *)
(***************************************************************************)
EXTENDS Naturals, Sequences, Functions

CONSTANTS
  Fn,                  \* functions, of this crate and of its dependencies
  Crates,              \* the crates that may be analysed
  LocalFns(_),         \* crate: its functions, in the order of mir_keys
  CallsOf(_, _),       \* crate, function: the callees of its Call terminators
  Mentions(_, _),      \* crate, function: those, and the ones it points to
  Exported(_),         \* crate: functions of def kind Fn or AssocFn with MIR
  Summary, None,       \* summaries, and no entry of a map
  IsEmpty(_),          \* summary: it has no effect
  Derive(_, _, _),     \* crate, function, summaries it mentions: its summary
  Precond,             \* precondition summaries
  PrecondOf(_, _, _),  \* crate, function, summaries: its preconditions, or None
  Finding,             \* records with a rule and the bounds lo, hi of a span
  CrateFindings(_),    \* crate: what the check_crate methods may report
  BodyFindings(_, _, _, _),  \* crate, function, summaries, preconditions: check
  BACKSTOP,            \* the rule unsafe_fn_call
  MAX_EXTERNAL_DEPTH, MAX_EXTERNAL_FNS, MAX_SUMMARY_ROUNDS,
  Within(_, _), Ranked(_), Rank(_, _)   \* of the call graph: see below

\* The entries of a map that the analysis of f may look up.
View(c, f, m) == Restrict(m, Mentions(c, f))

ASSUME CrateAssumption ==
  \A c \in Crates :
    /\ LocalFns(c) \in Seq(Fn)
    /\ \A i, j \in 1..Len(LocalFns(c)) : LocalFns(c)[i] = LocalFns(c)[j] => i = j
    /\ \A f \in Fn :
         /\ CallsOf(c, f) \in Seq(Fn)
         /\ Range(CallsOf(c, f)) \subseteq Mentions(c, f)
         /\ Mentions(c, f) \subseteq Fn

ASSUME BoundAssumption ==
  MAX_EXTERNAL_DEPTH \in Nat /\ MAX_EXTERNAL_FNS \in Nat /\ MAX_SUMMARY_ROUNDS \in Nat

ASSUME AnalysisAssumption ==
  /\ None \notin Summary
  /\ \A c \in Crates, f \in Fn : \A m \in [Mentions(c, f) -> Summary \cup {None}] :
       /\ Derive(c, f, m) \in Summary
       /\ PrecondOf(c, f, m) \in Precond \cup {None}
       /\ \A p \in [Mentions(c, f) -> Precond \cup {None}] :
            BodyFindings(c, f, m, p) \subseteq Seq(Finding)
  /\ \A c \in Crates : CrateFindings(c) \subseteq Seq(Finding)

\* Functions that local code reaches over at most k calls of exported ones.
ASSUME WithinAssumption ==
  \A c \in Crates :
    /\ Within(c, 0) = Range(LocalFns(c))
    /\ \A k \in 0..MAX_EXTERNAL_DEPTH - 1 :
         Within(c, k + 1) = Within(c, k) \cup
           ((UNION {Range(CallsOf(c, f)) : f \in Within(c, k)}) \cap Exported(c))
    /\ \A j, k \in 0..MAX_EXTERNAL_DEPTH :
         /\ j <= k => Within(c, j) \subseteq Within(c, k)
         /\ j < k /\ Within(c, j + 1) = Within(c, j) => Within(c, k) = Within(c, j)

\* A rank: a function has one if each summarised function it mentions has a
\* smaller one.  The functions on, or calling into, a cycle have none.
ASSUME RankAssumption ==
  \A c \in Crates :
    /\ Ranked(c) \subseteq Fn
    /\ \A f \in Ranked(c) :
         /\ Rank(c, f) \in Nat
         /\ \A g \in Mentions(c, f) \cap Within(c, MAX_EXTERNAL_DEPTH) :
              g \in Ranked(c) /\ Rank(c, g) < Rank(c, f)

VARIABLES
  crate,         \* the crate under analysis
  pc,            \* the loop of run_checks that runs
  to_summarize,  \* Vec<DefId>
  in_set,        \* HashSet<DefId>
  frontier,      \* functions of this level whose calls are still to be read
  calls,         \* callees of the function at hand that are still to be read
  next,          \* functions found at this level
  ext_count,     \* external functions collected
  depth,         \* levels begun
  summaries,     \* SummaryMap
  snap,          \* the map the round at hand reads
  round,         \* rounds begun
  rest,          \* functions the loop at hand has still to visit
  preconds,      \* PrecondSummaryMap
  findings,      \* Vec<Finding>, everything that was reported
  looked,        \* how many of them the first `retain' has looked at
  seen,          \* HashSet of (rule_id, lo, hi)
  kept           \* positions of the findings that are retained

collectVars == <<to_summarize, in_set, frontier, calls, next, ext_count, depth>>

roundVars == <<summaries, snap, round>>

reportVars == <<findings, looked, seen, kept>>

vars == <<crate, pc, collectVars, roundVars, rest, preconds, reportVars>>

Phases == {"level", "scan", "round", "summarize", "crate", "precond", "check",
           "dedup", "backstop", "done"}

TypeOK ==
  /\ crate \in Crates
  /\ pc \in Phases
  /\ to_summarize \in Seq(Fn) /\ in_set \subseteq Fn
  /\ frontier \in Seq(Fn) /\ calls \in Seq(Fn) /\ next \in Seq(Fn)
  /\ ext_count \in Nat /\ depth \in 0..MAX_EXTERNAL_DEPTH
  /\ summaries \in [Fn -> Summary \cup {None}] /\ snap \in [Fn -> Summary \cup {None}]
  /\ round \in 0..MAX_SUMMARY_ROUNDS
  /\ rest \in Seq(Fn)
  /\ preconds \in [Fn -> Precond \cup {None}]
  /\ findings \in Seq(Finding)
  /\ looked \in 0..Len(findings)
  /\ kept \subseteq 1..looked

Init ==
  /\ crate \in Crates
  /\ pc = "level"
  /\ to_summarize = LocalFns(crate)
  /\ in_set = Range(LocalFns(crate))
  /\ frontier = LocalFns(crate)
  /\ calls = <<>>
  /\ next = <<>>
  /\ ext_count = 0
  /\ depth = 0
  /\ summaries = [f \in Fn |-> None]
  /\ snap = [f \in Fn |-> None]
  /\ round = 0
  /\ rest = <<>>
  /\ preconds = [f \in Fn |-> None]
  /\ findings = <<>>
  /\ looked = 0
  /\ seen = {}
  /\ kept = {}
-----------------------------------------------------------------------------
(***************************************************************************)
(* External callees, breadth first.                                        *)
(***************************************************************************)
\* (mutant) One level too few.
BeginLevelShort ==
  /\ pc = "level"
  /\ IF depth + 1 = MAX_EXTERNAL_DEPTH \/ ext_count >= MAX_EXTERNAL_FNS
       THEN pc' = "round" /\ UNCHANGED <<next, depth>>
       ELSE pc' = "scan" /\ next' = <<>> /\ depth' = depth + 1
  /\ UNCHANGED <<crate, to_summarize, in_set, frontier, calls, ext_count,
                 roundVars, rest, preconds, reportVars>>

BeginLevel ==
  /\ pc = "level"
  /\ IF depth = MAX_EXTERNAL_DEPTH \/ ext_count >= MAX_EXTERNAL_FNS
       THEN pc' = "round" /\ UNCHANGED <<next, depth>>
       ELSE pc' = "scan" /\ next' = <<>> /\ depth' = depth + 1
  /\ UNCHANGED <<crate, to_summarize, in_set, frontier, calls, ext_count,
                 roundVars, rest, preconds, reportVars>>

ScanFunction ==
  /\ pc = "scan"
  /\ calls = <<>>
  /\ frontier # <<>>
  /\ calls' = CallsOf(crate, Head(frontier))
  /\ frontier' = Tail(frontier)
  /\ UNCHANGED <<crate, pc, to_summarize, in_set, next, ext_count, depth,
                 roundVars, rest, preconds, reportVars>>

Wanted(callee) ==
  /\ callee \notin in_set
  /\ ext_count < MAX_EXTERNAL_FNS
  /\ callee \in Exported(crate)

\* (mutant) A function that is found is scanned at once, depth first.
VisitCallDepthFirst ==
  /\ pc = "scan"
  /\ calls # <<>>
  /\ IF Wanted(Head(calls))
       THEN /\ in_set' = in_set \cup {Head(calls)}
            /\ to_summarize' = Append(to_summarize, Head(calls))
            /\ frontier' = <<Head(calls)>> \o frontier
            /\ ext_count' = ext_count + 1
       ELSE UNCHANGED <<in_set, to_summarize, frontier, ext_count>>
  /\ calls' = Tail(calls)
  /\ UNCHANGED <<crate, pc, next, depth, roundVars, rest, preconds, reportVars>>

VisitCall ==
  /\ pc = "scan"
  /\ calls # <<>>
  /\ LET callee == Head(calls) IN
       IF Wanted(callee)
         THEN /\ in_set' = in_set \cup {callee}
              /\ to_summarize' = Append(to_summarize, callee)
              /\ next' = Append(next, callee)
              /\ ext_count' = ext_count + 1
         ELSE UNCHANGED <<in_set, to_summarize, next, ext_count>>
  /\ calls' = Tail(calls)
  /\ UNCHANGED <<crate, pc, frontier, depth, roundVars, rest, preconds, reportVars>>

EndLevel ==
  /\ pc = "scan"
  /\ calls = <<>>
  /\ frontier = <<>>
  /\ frontier' = next
  /\ pc' = IF next = <<>> THEN "round" ELSE "level"
  /\ UNCHANGED <<crate, to_summarize, in_set, calls, next, ext_count, depth,
                 roundVars, rest, preconds, reportVars>>
-----------------------------------------------------------------------------
(***************************************************************************)
(* Rounds of summaries.  A round reads only the snapshot it began with.    *)
(***************************************************************************)
\* (mutant) The rounds have no cap: only a round that changes nothing ends them.
BeginRoundUncapped ==
  /\ pc = "round"
  /\ pc' = "summarize"
  /\ snap' = summaries
  /\ round' = IF round = MAX_SUMMARY_ROUNDS THEN round ELSE round + 1
  /\ rest' = to_summarize
  /\ UNCHANGED <<crate, collectVars, summaries, preconds, reportVars>>

BeginRound ==
  /\ pc = "round"
  /\ IF round = MAX_SUMMARY_ROUNDS
       THEN pc' = "crate" /\ UNCHANGED <<snap, round, rest>>
       ELSE /\ pc' = "summarize"
            /\ snap' = summaries
            /\ round' = round + 1
            /\ rest' = to_summarize
  /\ UNCHANGED <<crate, collectVars, summaries, preconds, reportVars>>

\* (mutants) The map under construction is read; an entry is never removed.
EntryInPlace(f) ==
  LET s == Derive(crate, f, View(crate, f, summaries)) IN IF IsEmpty(s) THEN None ELSE s

EntryKept(f) ==
  LET s == Derive(crate, f, View(crate, f, snap)) IN IF IsEmpty(s) THEN summaries[f] ELSE s

\* What the map has for f after the round: an empty summary is no entry.
Entry(f) ==
  LET s == Derive(crate, f, View(crate, f, snap)) IN IF IsEmpty(s) THEN None ELSE s

Summarize ==
  /\ pc = "summarize"
  /\ rest # <<>>
  /\ summaries' = [summaries EXCEPT ![Head(rest)] = Entry(Head(rest))]
  /\ rest' = Tail(rest)
  /\ UNCHANGED <<crate, pc, collectVars, snap, round, preconds, reportVars>>

\* (mutant) The rounds stop when the map has as many entries as before.
EndRoundSameSize ==
  /\ pc = "summarize"
  /\ rest = <<>>
  /\ pc' = IF {f \in Fn : summaries[f] # None} = {f \in Fn : snap[f] # None} THEN "crate" ELSE "round"
  /\ UNCHANGED <<crate, collectVars, roundVars, rest, preconds, reportVars>>

EndRound ==
  /\ pc = "summarize"
  /\ rest = <<>>
  /\ pc' = IF summaries = snap THEN "crate" ELSE "round"
  /\ UNCHANGED <<crate, collectVars, roundVars, rest, preconds, reportVars>>
-----------------------------------------------------------------------------
(***************************************************************************)
(* The checks: of the crate, then of each body, with the preconditions of  *)
(* all bodies found first.                                                 *)
(***************************************************************************)
CheckCrate ==
  /\ pc = "crate"
  /\ findings' \in CrateFindings(crate)
  /\ pc' = "precond"
  /\ rest' = LocalFns(crate)
  /\ UNCHANGED <<crate, collectVars, roundVars, preconds, looked, seen, kept>>

NewPreconds(f) == PrecondOf(crate, f, View(crate, f, summaries))

FindPreconds ==
  /\ pc = "precond"
  /\ IF rest = <<>>
       THEN pc' = "check" /\ rest' = LocalFns(crate) /\ UNCHANGED preconds
       ELSE /\ preconds' = [preconds EXCEPT ![Head(rest)] = NewPreconds(Head(rest))]
            /\ rest' = Tail(rest)
            /\ UNCHANGED pc
  /\ UNCHANGED <<crate, collectVars, roundVars, reportVars>>

NewFindings(f) ==
  BodyFindings(crate, f, View(crate, f, summaries), View(crate, f, preconds))

CheckBody ==
  /\ pc = "check"
  /\ IF rest = <<>>
       THEN pc' = "dedup" /\ UNCHANGED <<findings, rest>>
       ELSE /\ \E found \in NewFindings(Head(rest)) : findings' = findings \o found
            /\ rest' = Tail(rest)
            /\ UNCHANGED pc
  /\ UNCHANGED <<crate, collectVars, roundVars, preconds, looked, seen, kept>>
-----------------------------------------------------------------------------
(***************************************************************************)
(* The two `retain' passes over the findings.                              *)
(***************************************************************************)
\* (mutant) The rule is left out of the key.
PlaceKey(f) == <<f.lo, f.hi>>

FindingKey(f) == <<f.rule, f.lo, f.hi>>

Deduplicate ==
  /\ pc = "dedup"
  /\ IF looked = Len(findings)
       THEN pc' = "backstop" /\ UNCHANGED <<looked, seen, kept>>
       ELSE LET i == looked + 1 IN
            /\ looked' = i
            /\ seen' = seen \cup {FindingKey(findings[i])}
            /\ kept' = IF FindingKey(findings[i]) \in seen THEN kept ELSE kept \cup {i}
            /\ UNCHANGED pc
  /\ UNCHANGED <<crate, collectVars, roundVars, rest, preconds, findings>>

Overlap(f, g) == g.lo < f.hi /\ f.lo < g.hi

\* (mutant) Only a finding with the same bounds covers.
CoveredExactly(i) ==
  \E j \in kept : findings[j].rule # BACKSTOP /\ PlaceKey(findings[i]) = PlaceKey(findings[j])

Covered(i) == \E j \in kept : findings[j].rule # BACKSTOP /\ Overlap(findings[i], findings[j])

DropCovered ==
  /\ pc = "backstop"
  /\ kept' = {i \in kept : findings[i].rule = BACKSTOP => ~Covered(i)}
  /\ pc' = "done"
  /\ UNCHANGED <<crate, collectVars, roundVars, rest, preconds, findings, looked, seen>>

\* run_checks has returned the findings in `kept'.
Done == pc = "done" /\ UNCHANGED vars

Collect == BeginLevel \/ ScanFunction \/ VisitCall \/ EndLevel

SummarizeAll == BeginRound \/ Summarize \/ EndRound

Report == CheckCrate \/ FindPreconds \/ CheckBody \/ Deduplicate \/ DropCovered

Next == Collect \/ SummarizeAll \/ Report \/ Done

\* run_checks is sequential code: nothing but its own end stops it.
Spec == Init /\ [][Next]_vars /\ WF_vars(Collect \/ SummarizeAll \/ Report)
-----------------------------------------------------------------------------
(***************************************************************************)
(* Properties.                                                             *)
(***************************************************************************)

\* `in_set' mirrors `to_summarize', which holds no function twice, the local
\* functions all, and never more external ones than the cap allows.
CollectedOnce ==
  /\ in_set = Range(to_summarize)
  /\ \A i, j \in 1..Len(to_summarize) : to_summarize[i] = to_summarize[j] => i = j
  /\ Len(to_summarize) = Len(LocalFns(crate)) + ext_count
  /\ ext_count <= MAX_EXTERNAL_FNS

\* "Bounded by breadth (depth from local code)": nothing is collected from
\* farther than the level at hand, and everything nearer is there, so the cap
\* never leaves out a function for one that is farther away.
BreadthFirst ==
  /\ in_set \subseteq Within(crate, depth)
  /\ depth > 0 => Within(crate, depth - 1) \subseteq in_set

\* When the cap was not reached, every exported function within the depth was
\* collected, also when a level that found nothing ended the search early.
CollectionComplete ==
  pc \notin {"level", "scan"} /\ ext_count < MAX_EXTERNAL_FNS =>
    in_set = Within(crate, MAX_EXTERNAL_DEPTH)

\* The summary equations hold at f: its entry is what its body gives when it
\* is analysed against the map m itself.
SolvedAt(f, m) ==
  LET s == Derive(crate, f, View(crate, f, m)) IN m[f] = IF IsEmpty(s) THEN None ELSE s

\* "chaotic iteration to a fixpoint": the rounds end with a solution of the
\* summary equations, unless the cap on rounds ended them.
FixpointOrCap ==
  pc \notin {"level", "scan", "round", "summarize"} =>
    (\A f \in in_set : SolvedAt(f, summaries)) \/ round = MAX_SUMMARY_ROUNDS

\* "effects propagate one extra call level per round: round 1 resolves leaves,
\* round 2 their callers, and so on": between rounds, the equations hold at
\* every function from which no call chain longer than the rounds so far (and
\* no recursion) starts, whatever the cycles elsewhere in the crate do.
ShallowExact ==
  pc # "summarize" =>
    \A f \in in_set \cap Ranked(crate) : Rank(crate, f) < round => SolvedAt(f, summaries)

RoundsDone == IF pc = "summarize" THEN round - 1 ELSE round

\* A summary that is exact stays: no later round changes the entry of a
\* function of smaller rank than the rounds that were completed.
ExactStays ==
  [][\A f \in Ranked(crate) \cap in_set : Rank(crate, f) < RoundsDone => summaries'[f] = summaries[f]]_vars

SameReport(f, g) == f.rule = g.rule /\ f.lo = g.lo /\ f.hi = g.hi

\* "Collapsing duplicates removes no distinct finding", and the backstop is
\* dropped only where a more specific rule has spoken: each finding of a
\* checker is kept, up to its rule and place, or is the backstop's and
\* overlaps a kept finding of another rule.
NothingSilenced ==
  pc = "done" =>
    \A i \in DOMAIN findings : \E j \in kept :
      \/ SameReport(findings[i], findings[j])
      \/ /\ findings[i].rule = BACKSTOP /\ findings[j].rule # BACKSTOP
         /\ Overlap(findings[i], findings[j])

\* unsafe_fn_call.rs: "a pure gap-filler: it fires only where nothing more
\* specific did" - and no rule speaks twice of one place.
NothingRepeated ==
  pc = "done" =>
    \A i, j \in kept : i # j =>
      /\ ~SameReport(findings[i], findings[j])
      /\ ~(findings[i].rule = BACKSTOP /\ findings[j].rule # BACKSTOP
           /\ Overlap(findings[i], findings[j]))

\* "capped to bound cost on large crates": run_checks returns, also for a crate
\* whose summaries never settle, where a function that calls itself has an
\* effect only as long as its own summary is missing.
Terminates == <>(pc = "done")

\* The rounds compute what the equations, applied to the whole map at once,
\* compute: in which order a round visits the functions cannot be seen.
Iteration == INSTANCE SummaryEquations WITH
  stage <- IF pc \in {"level", "scan"} THEN "collect"
           ELSE IF pc \in {"round", "summarize"} THEN "iterate" ELSE "stop",
  fns <- IF pc \in {"level", "scan"} THEN {} ELSE in_set,
  map <- IF pc = "summarize" THEN snap ELSE summaries,
  rounds <- RoundsDone

WholeRounds == Iteration!Spec
=============================================================================
