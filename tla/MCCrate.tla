------------------------------ MODULE MCCrate -------------------------------
(***************************************************************************)
(* run_checks with the real analysis of each body, on small crates: a      *)
(* caller a, helpers b and c, and a cast x of a dependency.  The summaries *)
(* and the findings are compared with what the functions do when they run. *)
(***************************************************************************)
EXTENDS CrateMir

CONSTANTS Absent, IsLocal(_), Fields, Key(_), Value(_), MaxU64, MaxISize, REALLOC_BASE,
          SUMMARY_BASE, InDrop, InClosure, Crates, MAX_SUMMARY_ROUNDS

VARIABLES crate, pc, to_summarize, in_set, frontier, calls, next, ext_count, depth, summaries,
          snap, round, rest, preconds, findings, looked, seen, kept

P == 1    \* the parameter, a raw pointer
Q == 2
B == 3    \* a Box
C == 4
R == 5

MCLocal == 0..5

MCTy(l) == CASE l \in {0, P, Q, R} -> Type("RawPtr", TRUE) [] l = C -> Type("Bool", FALSE)
             [] l = B -> Type("Adt", FALSE)

MCFields == {"heap", "points_to"}

Sites == 0..8

MCKey(f) == IF f = "heap" THEN Sites \cup {SUMMARY_BASE} ELSE Local

MCValue(f) == IF f = "heap" THEN {"RawOwned", "Reconstituted", "Escaped", "MaybeFreed"}
              ELSE Sites \cup {SUMMARY_BASE}

MCIs(fn) ==
  CASE fn = "Box::into_raw" -> {"into_raw"} [] fn = "Box::from_raw" -> {"from_raw", "box_from_raw"}
    [] fn = "realloc" -> {"raw_realloc"} [] fn = "x" -> {"ptr_cast"} [] OTHER -> {}

MCIsLocal(fn) == fn \in {"a", "b", "c"}

\* The analysis of bodies, for the summaries sn.
A(sn) == INSTANCE CrateFlow WITH Summaries <- sn
-----------------------------------------------------------------------------
(***************************************************************************)
(* The crates.                                                             *)
(***************************************************************************)
Get(l) == Copy(Plain(l))

Set(l, k) == Assign(Plain(l), Use(Get(k)))

Call(b, fn, arg, dest, target) ==
  [bb |-> b, statements |-> <<>>,
   term |-> [kind |-> "Call", func |-> [fn |-> fn, local |-> NoLocal], args |-> <<Get(arg)>>,
             dest |-> Plain(dest), targets |-> <<target>>, unwind |-> NoCleanup]]

Branch(b, d, e) ==
  [bb |-> b, statements |-> <<>>,
   term |-> [kind |-> "SwitchInt", discr |-> Get(C), values |-> <<0>>, targets |-> <<d, e>>]]

Goto(b, sts, d) == [bb |-> b, statements |-> sts, term |-> [kind |-> "Goto", targets |-> <<d>>]]

Return(b, l) == [bb |-> b, statements |-> <<Set(0, l)>>, term |-> [kind |-> "Return"]]

ReturnNull(b) ==
  [bb |-> b, statements |-> <<Assign(Plain(0), Opaque)>>, term |-> [kind |-> "Return"]]

Body(blocks) == [b \in 0..Len(blocks) - 1 |-> blocks[b + 1]]

Leaf(name) ==
  CASE name = "frees" -> Body(<<Call(0, "Box::from_raw", P, B, 1), ReturnNull(1)>>)
    [] name = "may free" ->
         Body(<<Branch(0, 1, 2), Call(1, "Box::from_raw", P, B, 2), ReturnNull(2)>>)
    [] name = "returns" -> Body(<<Return(0, P)>>)
    [] name = "makes" -> Body(<<Call(0, "Box::into_raw", B, Q, 1), Return(1, Q)>>)
    [] name = "replaces" -> Body(<<Call(0, "realloc", P, Q, 1), Return(1, Q)>>)
    [] name = "logs" -> Body(<<Call(0, "log", P, B, 1), ReturnNull(1)>>)
    [] name = "ignores" -> Body(<<ReturnNull(0)>>)

Helper(name) ==
  CASE name = "calls" -> Body(<<Call(0, "c", P, Q, 1), Return(1, Q)>>)
    [] name = "casts" -> Body(<<Call(0, "x", P, Q, 1), Call(1, "c", Q, R, 2), Return(2, P)>>)
    [] name = "recurs" ->
         Body(<<Branch(0, 1, 2), Goto(1, <<>>, 3), Call(2, "c", P, Q, 4), Call(3, "b", P, Q, 4),
                Return(4, Q)>>)
    [] name = "may call" ->
         Body(<<Branch(0, 1, 2), Goto(1, <<>>, 3), Call(2, "c", P, Q, 3), Return(3, Q)>>)
    [] name = "makes early" ->
         Body(<<Goto(0, <<>>, 1), Call(1, "Box::into_raw", B, Q, 2), Return(2, Q)>>)
    [] name = "returns or calls" ->
         Body(<<Branch(0, 1, 2), Goto(1, <<Set(Q, P)>>, 3), Call(2, "c", P, Q, 3), Return(3, Q)>>)
    [] name = "calls back" ->
         Body(<<Branch(0, 1, 2), Goto(1, <<>>, 3), Call(2, "c", P, Q, 4), Call(3, "a", P, Q, 4),
                Return(4, Q)>>)
    [] name = "frees its result" ->
         Body(<<Goto(0, <<Set(Q, P), Assign(Plain(R), Opaque)>>, 1), Branch(1, 2, 4), Call(2, "b", R, Q, 3),
                Call(3, "Box::from_raw", Q, B, 4), ReturnNull(4)>>)

Caller(name) ==
  CASE name = "then frees" ->
         Body(<<Call(0, "Box::into_raw", B, Q, 1), Call(1, "b", Q, R, 2),
                Call(2, "Box::from_raw", Q, B, 3), ReturnNull(3)>>)
    [] name = "frees result" ->
         Body(<<Call(0, "Box::into_raw", B, Q, 1), Call(1, "b", Q, R, 2),
                Call(2, "Box::from_raw", R, B, 3), Call(3, "b", R, Q, 4), ReturnNull(4)>>)
    [] name = "branches" ->
         Body(<<Call(0, "Box::into_raw", B, Q, 1), Branch(1, 2, 3), Call(2, "b", Q, R, 3),
                Call(3, "c", Q, R, 4), Return(4, R)>>)
    [] name = "casts" ->
         Body(<<Call(0, "Box::into_raw", B, Q, 1), Call(1, "x", Q, R, 2), Call(2, "c", R, P, 3),
                Branch(3, 4, 5), Call(4, "b", Q, R, 5), Return(5, R)>>)
    [] name = "calls twice" ->
         Body(<<Call(0, "Box::into_raw", B, Q, 1), Call(1, "b", Q, R, 2), Call(2, "b", Q, R, 3),
                Return(3, R)>>)
    [] name = "frees what it gets" ->
         Body(<<Call(0, "b", P, Q, 1), Goto(1, <<>>, 2), Call(2, "c", Q, R, 3),
                Call(3, "Box::from_raw", Q, B, 4), ReturnNull(4)>>)
    [] name = "frees either" ->
         Body(<<Call(0, "Box::into_raw", B, Q, 1), Call(1, "Box::into_raw", B, R, 2),
                Call(2, "Box::from_raw", Q, B, 3), Branch(3, 4, 5),
                Call(4, "Box::from_raw", R, B, 7), Goto(5, <<Set(R, Q)>>, 6), Goto(6, <<>>, 7),
                Call(7, "Box::from_raw", R, B, 8), ReturnNull(8)>>)

CastBody == Body(<<Return(0, P)>>)

AllCrates ==
  [a : {"then frees", "frees result", "branches", "casts", "calls twice", "frees what it gets"},
   b : {"calls", "casts", "recurs", "may call", "calls back", "returns or calls", "frees its result"},
   c : {"frees", "may free", "returns", "makes", "replaces", "logs", "ignores"}]

\* What a helper returns on some paths only is not freed by its caller.
ChainCrates ==
  {c \in AllCrates : c.a = "frees what it gets" => c.b \notin {"may call", "returns or calls"}}

\* The summary of b turns over from round to round.
TurningCrates == {c \in ChainCrates : c.b = "frees its result"}

\* One call frees an object that was freed and one that may have been.
EitherCrates == [a : {"frees either"}, b : {"calls"}, c : {"frees"}]

\* The block that allocates has the number of the parameter.
EarlyCrates == [a : {"then frees"}, b : {"makes early"}, c : {"frees"}]

MCBodyOf(c, f) ==
  CASE f = "a" -> Caller(c.a) [] f = "b" -> Helper(c.b) [] f = "c" -> Leaf(c.c)
    [] f = "x" -> CastBody [] OTHER -> NoValue

Fns == {"a", "b", "c", "x", "Box::into_raw", "Box::from_raw", "realloc", "log"}
-----------------------------------------------------------------------------
(***************************************************************************)
(* run_checks.                                                             *)
(***************************************************************************)
MCLocalFns(c) == <<"a", "b", "c">>

MCCallsOf(c, f) ==
  IF MCBodyOf(c, f) = NoValue THEN <<>>
  ELSE LET body == MCBodyOf(c, f)
           bbs == SetToSortSeq({b \in DOMAIN body : body[b].term.kind = "Call"}, <)
       IN [i \in DOMAIN bbs |-> body[bbs[i]].term.func.fn]

MCMentions(c, f) == Range(MCCallsOf(c, f))

MCExported(c) == {"x"}

Entries(m) == [g \in {h \in DOMAIN m : m[h] # Absent} |-> m[g]]

MCIsEmpty(s) == s = A(<<>>)!NoSummary

MCDerive(c, f, m) ==
  CHOOSE s \in {A(sn)!SummaryOfBody(f, body) : sn \in {Entries(m)}, body \in {MCBodyOf(c, f)}} : TRUE

\* b has an effect as long as it has no summary, and none once it has one: no
\* map solves its equation, and only the cap ends the rounds.
ASSUME TurningAssumption ==
  \A c \in TurningCrates :
    LET with(s) == [g \in MCMentions(c, "b") |-> IF g = "b" THEN s ELSE Absent]
        missing == MCDerive(c, "b", with(Absent))
    IN ~MCIsEmpty(missing) /\ MCIsEmpty(MCDerive(c, "b", with(missing)))

MCPrecondOf(c, f, m) == Absent

Lo(f, b) == b + CASE f = "a" -> 0 [] f = "b" -> 10 [] f = "c" -> 20

\* The two kinds of a double free are messages of one rule.
RuleId(rule) ==
  IF rule \in {"already_reconstituted", "potential_double_free"} THEN "ownership_double_free" ELSE rule

Reported(f, g) == [rule |-> RuleId(g.rule), lo |-> Lo(f, g.bb), hi |-> Lo(f, g.bb) + 1,
                   message |-> g.rule, about |-> g.about]

MCBodyFindings(c, f, m, p) ==
  {SetToSeq({Reported(f, g) : g \in A(sn)!OwnershipFindingsOf(body)}) :
     sn \in {Entries(m)}, body \in {MCBodyOf(c, f)}}

MCCrateFindings(c) == {<<>>}

MCWithin(c, k) == IF k = 0 THEN Range(MCLocalFns(c)) ELSE {"a", "b", "c", "x"}

MCRanked(c) == {}

MCRank(c, f) == 0

INSTANCE Pipeline WITH
  Fn <- Fns, LocalFns <- MCLocalFns, CallsOf <- MCCallsOf, Mentions <- MCMentions,
  Exported <- MCExported, Summary <- {}, None <- Absent, IsEmpty <- MCIsEmpty, Derive <- MCDerive,
  Precond <- {}, PrecondOf <- MCPrecondOf, Finding <- {}, CrateFindings <- MCCrateFindings,
  BodyFindings <- MCBodyFindings, BACKSTOP <- "unsafe_fn_call", MAX_EXTERNAL_DEPTH <- 2,
  MAX_EXTERNAL_FNS <- 3, Within <- MCWithin, Ranked <- MCRanked, Rank <- MCRank
-----------------------------------------------------------------------------
SummaryFor(f) == IF summaries[f] = Absent THEN A(<<>>)!NoSummary ELSE summaries[f]

\* The effect on the parameter.
EffectOf(f) ==
  IF SummaryFor(f).param_effects = <<>> THEN "None" ELSE SummaryFor(f).param_effects[1].effect

\* The functions a caller knows nothing definite about.
OpaqueFns == {f \in Fns : summaries[f] = Absent \/ EffectOf(f) = "Escaped"}

\* Between rounds.
Settled == pc \in {"round", "crate"}

\* ParamHeapEffect::Reconstituted: "the allocation is consumed" - after any
\* round, whatever an execution of the function does, the caller's object has
\* been taken back when it returns; and a function without an effect on its
\* parameter neither takes it back nor shows it to unknown code.
SummaryEffectsSound ==
  Settled => \A f \in {"a", "b", "c"} : \A o \in Outcomes(crate, {}, f) :
    /\ EffectOf(f) = "Reconstituted" => CallersObject \in o.heap.freed
    /\ summaries[f] # Absent /\ EffectOf(f) = "None" =>
         CallersObject \notin o.heap.freed \cup o.heap.seen

\* What a function may return is in its summary, once the rounds are over: the
\* caller's pointer, and an object of its own that nobody took back, of the
\* objects that no path hands to an opaque function.
SummaryReturnsSound ==
  pc = "crate" => \A f \in {"a", "b", "c"}, opaque \in {OpaqueFns} :
    \A away \in {GivenAway(crate, opaque, f)}, o \in Outcomes(crate, opaque, f) :
      /\ CallersObject \in o.ret \ away => SummaryFor(f).returns_ptr_of_param = P
      /\ o.ret \ ({CallersObject} \cup o.heap.freed \cup away) # {} => SummaryFor(f).returns_raw_owned

\* returns_ptr_of_param: the returned pointer "is derived from a raw-pointer
\* parameter": some execution returns the caller's pointer.
ReturnsParam ==
  Settled => \A f \in {"a", "b", "c"} : SummaryFor(f).returns_ptr_of_param = P =>
    \E o \in Outcomes(crate, {}, f) : CallersObject \in o.ret

KeptAt(f, b, rule) == {i \in kept : findings[i].rule = rule /\ findings[i].lo = Lo(f, b)}

\* "a helper function with a Reconstituted summary reconstitutes a pointer that
\* was already reconstituted - e.g. calling consume_raw(ptr) twice": a call
\* that takes back an object for the second time, directly or through any
\* chain of helpers, has a finding in the result, unless some path hands the
\* object to a function whose summary is missing or says no more than Escaped.
CrossFunctionDoubleFreeKept ==
  pc = "done" => \A f \in {"a", "b", "c"}, opaque \in {OpaqueFns} :
    \A away \in {GivenAway(crate, opaque, f)}, o \in Outcomes(crate, opaque, f) :
      \A call \in o.heap.bad :
        call[3] \in away \/ KeptAt(call[1], call[2], "ownership_double_free") # {}

\* "never reconstituted - memory leak": an object in a reported leak is not
\* taken back by any helper of the function, nor returned, nor given away.
CrossFunctionLeakIsReal ==
  pc = "done" => \A f \in {"a", "b", "c"}, opaque \in {OpaqueFns} : \A o \in Outcomes(crate, opaque, f) :
    \A i \in KeptAt(f, o.at, "ownership_leak"), g \in o.got :
      g[1] = findings[i].about => g[2] \notin o.heap.freed \cup o.heap.seen \cup o.ret

\* "Collapsing duplicates removes no distinct finding": each finding is among
\* the ones run_checks returns, with its message.
EveryMessageKept ==
  pc = "done" => \A i \in DOMAIN findings : \E j \in kept :
    SameReport(findings[i], findings[j]) /\ findings[i].message = findings[j].message
=============================================================================
