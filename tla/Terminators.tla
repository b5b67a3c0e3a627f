---------------------------- MODULE Terminators -----------------------------
(***************************************************************************)
(* apply_terminator and refine_switchint_edge of analysis/transfer.rs, and *)
(* apply_fn_summary of analysis/summary.rs.                                *)
(*                                                                         *)
(* A call is [kind |-> "Call", func, args, dest, targets, unwind]; func is *)
(* [fn, local], a function item or the local a function pointer is in.     *)
(***************************************************************************)
EXTENDS Statements

CONSTANTS
  Is(_),          \* function: the path predicates that hold of its path
  Summaries,      \* SummaryMap: a function on the summarised functions
  REALLOC_BASE,   \* object ids of stale pointers and
  SUMMARY_BASE    \*   of a summary's parameters start here

ASSUME BaseAssumption ==
  /\ REALLOC_BASE \in Nat /\ SUMMARY_BASE \in Nat
  /\ REALLOC_BASE < SUMMARY_BASE

NoSummary == [param_effects |-> <<>>, returns_raw_owned |-> FALSE,
              returns_alias_of_param |-> 0, returns_ptr_of_param |-> 0,
              reallocs_param |-> 0]

\* Parameters are counted from 1, and 0 is None.
SummaryOf(fn) == IF fn \in DOMAIN Summaries THEN Summaries[fn] ELSE NoSummary

Callee(s, func) ==
  IF func.fn # Absent THEN func.fn
  ELSE IF func.local # NoLocal THEN At(s, "fn_ptr_targets", func.local)
  ELSE Absent

PathIs(fn, p) == fn # Absent /\ p \in Is(fn)

ArgLocals(args) == {OperandLocal(args[i]) : i \in DOMAIN args} \ {NoLocal}
-----------------------------------------------------------------------------
(***************************************************************************)
(* What every call does, before it is known which function it calls.       *)
(***************************************************************************)
ReallocReceiver(fn, args) ==
  IF PathIs(fn, "reallocating_method") THEN FirstArgLocal(args)
  ELSE IF SummaryOf(fn).reallocs_param # 0
  THEN NthArgLocal(args, SummaryOf(fn).reallocs_param)
  ELSE NoLocal

\* Every handle into a reallocated buffer, references apart, goes stale.
MarkStale(s, recv) ==
  LET owners == IF OwnersOf(s, recv) = {} THEN {recv} ELSE OwnersOf(s, recv)
      stale  == {p \in Local : ~IsRef(p) /\ OwnersOf(s, p) \cap owners # {}}
      ids    == {REALLOC_BASE + p : p \in stale}
  IN [f \in DOMAIN s |->
       CASE f = "realloced_params" -> s[f] \cup {o \in owners : IsParam(o)}
         [] f = "heap" -> [o \in DOMAIN s[f] |-> IF o \in ids THEN "MaybeFreed" ELSE s[f][o]]
         [] f = "points_to" ->
              [l \in DOMAIN s[f] |-> IF l \in stale THEN {REALLOC_BASE + l} ELSE s[f][l]]
         [] f = "owner_alias" -> [l \in DOMAIN s[f] |-> IF l \in stale THEN {} ELSE s[f][l]]
         [] OTHER -> s[f]]

\* An owner passed by `&mut', or aliased by such an argument, loses its aliases.
InvalidateOwnerArgs(s, args, skip) ==
  LET live == UNION {OwnersOf(s, l) : l \in Local}
      muts == {BaseLocal(args[i]) : i \in DOMAIN args \ {skip}} \ {NoLocal}
      owners == UNION {OwnersOf(s, l) \cup ({l} \cap live) : l \in {m \in muts : IsMutableRef(m)}}
  IN InvalidateOwners(s, owners)

\* (mutant) The proof of the reference is dropped, not that of what it borrows.
KillCapacityDirect(s, args) ==
  LET muts == {m \in ArgLocals(args) : (IsRef(m) \/ IsRawPtr(m)) /\ Ty(m).mutable}
  IN [f \in DOMAIN s |-> IF f \in {"has_spare", "is_full"} THEN s[f] \ muts ELSE s[f]]

\* A collection handed out mutably may change its length.
KillCapacity(s, args) ==
  LET bases == {DerefBase(s, l) : l \in {m \in ArgLocals(args) :
                  (IsRef(m) \/ IsRawPtr(m)) /\ Ty(m).mutable}}
  IN [f \in DOMAIN s |-> IF f \in {"has_spare", "is_full"} THEN s[f] \ bases ELSE s[f]]

EscapeRawPtrArg(s, arg) ==
  LET l == OperandLocal(arg) IN
  IF l # NoLocal /\ (IsRawPtr(l) \/ ObjectsFor(s, l) # {}) THEN EscapeLocal(s, l) ELSE s

EscapeRawPtrArgs(s, args) == ForEach(EscapeRawPtrArg, s, args)
-----------------------------------------------------------------------------
\* (mutant) The flag says whether the last call started a thread.
ThreadSpawnLast(s, fn) ==
  IF "thread_spawned" \in Fields THEN [s EXCEPT !["thread_spawned"] = PathIs(fn, "spawn")] ELSE s

ThreadSpawn(s, fn) == IF PathIs(fn, "spawn") THEN Raise(s, "thread_spawned") ELSE s

(***************************************************************************)
(* Observers: calls whose result is tied to their receiver, and the calls  *)
(* that transfer a descriptor or start a thread.                           *)
(***************************************************************************)
Observe(s, fn, args, dest) ==
  LET recv == FirstArgLocal(args)
      pair == <<DerefBase(s, NthArgLocal(args, 1)), DerefBase(s, NthArgLocal(args, 2))>>
      tie(t, p, f, v) == IF PathIs(fn, p) /\ recv # NoLocal THEN Put(t, f, dest, v) ELSE t
      s1 == tie(tie(s, "len", "len_of", DerefBase(s, recv)),
                "capacity", "cap_of", DerefBase(s, recv))
      s2 == tie(tie(s1, "is_nan", "nan_if_true", recv), "is_finite", "finite_if_true", recv)
      s3 == tie(s2, "deref", "ref_base", DerefBase(s2, recv))
      s4 == IF PathIs(fn, "into_raw_fd") THEN Insert(s3, "fd_origin", dest)
            ELSE IF PathIs(fn, "from_raw_fd") /\ recv # NoLocal
            THEN Insert(s3, "fd_consumed", recv) ELSE s3
      s5 == ThreadSpawn(s4, fn)
  IN IF Len(args) = 2 /\ (PathIs(fn, "ne") \/ PathIs(fn, "eq"))
        /\ NthArgLocal(args, 1) # NoLocal /\ NthArgLocal(args, 2) # NoLocal
     THEN Put(s5, IF PathIs(fn, "ne") THEN "ne_pair_if_true" ELSE "eq_pair_if_true", dest, pair)
     ELSE s5

(***************************************************************************)
(* The handlers, in the order in which their path predicates are tried.    *)
(***************************************************************************)
Handlers == <<"raw_realloc", "into_raw", "from_raw", "mem_forget", "epoch_pin",
              "lock_acquire", "assume_init", "maybe_uninit_init", "maybe_uninit_write",
              "maybe_uninit_as_mut_ptr", "buf_write", "ptr_read">>

Handler(fn) ==
  LET matching == {i \in DOMAIN Handlers : PathIs(fn, Handlers[i])} IN
  IF matching # {} THEN Handlers[Min(matching)]
  ELSE IF fn \in DOMAIN Summaries THEN "summary" ELSE "unrecognised"

\* dest is cleared, except of the protocols it already guards.
Fresh(s, dest) == Clear(s, Basics \ {"local_proto"}, dest)

RawRealloc(s, bb, args, dest) ==
  LET src == FirstArgLocal(args)
      s1 == IF src = NoLocal THEN s ELSE Reconstitute(s, src)
  IN Fresh(Allocate(s1, dest, bb), dest)

IntoRaw(s, bb, dest) == Fresh(Allocate(s, dest, bb), dest)

\* The source keeps pointing to the object, so that a second use is seen.
FromRaw(s, args, dest) ==
  LET src == FirstArgBaseLocal(args)
      s1 == IF src = NoLocal THEN s ELSE Reconstitute(s, src)
      s2 == PointTo(s1, dest, {})
      s3 == Put(s2, "owner_alias", dest, {})
  IN IF src = NoLocal THEN s3 ELSE Put(s3, "owner_alias", dest, OwnersOf(s3, src))

SetProtocols(s, protos, p) ==
  IF "typestate" \in Fields
  THEN [s EXCEPT !["typestate"] = [k \in DOMAIN @ |-> IF k \in protos THEN p ELSE @[k]]]
  ELSE s

MemForget(s, args, dest) ==
  LET src == FirstArgBaseLocal(args)
      protos == At(s, "local_proto", src)
      s1 == SetProtocols(SetHeap(s, ObjectsFor(s, src), "Escaped", {}), protos, "Forgotten")
      s2 == IF protos = {} /\ Ty(src).guard THEN Raise(s1, "untracked_forget_seen") ELSE s1
      s3 == Clear(s2, {"points_to", "local_proto", "init", "buf_written"}, src)
  IN PointTo(IF src = NoLocal THEN s ELSE s3, dest, {})

\* An epoch pin or a lock: the call site is the protocol's id.
Guard(s, bb, dest) ==
  Fresh(SetProtocols(Put(s, "local_proto", dest, At(s, "local_proto", dest) \cup {bb}),
                     {bb}, "Active"), dest)

\* The result carries the allocations of the first argument.
Through(s, args, dest) ==
  PointTo(s, dest, IF FirstArgLocal(args) = NoLocal THEN {}
                   ELSE ObjectsFor(s, FirstArgLocal(args)))

AssumeInit(s, args, dest) ==
  LET src == FirstArgLocal(args) IN
  Through(IF src = NoLocal THEN s ELSE Clear(s, {"init"}, src), args, dest)

MaybeUninitInit(s, args, dest) == Put(Through(s, args, dest), "init", dest, "Initialized")

MaybeUninitWrite(s, args, dest) ==
  LET self_ref == FirstArgLocal(args) IN
  Clear(IF self_ref = NoLocal THEN s ELSE Put(s, "init", DerefBase(s, self_ref), "Initialized"),
        Basics, dest)

MaybeUninitAsMutPtr(s, args, dest) ==
  LET self_ref == FirstArgLocal(args) IN
  Clear(IF self_ref = NoLocal THEN s ELSE Put(s, "mu_raw_ptr", dest, DerefBase(s, self_ref)),
        Basics, dest)

BufWrite(s, args, dest) ==
  LET buf == FirstArgLocal(args) IN
  PointTo(IF buf = NoLocal THEN s ELSE Insert(s, "buf_written", buf), dest, {})

(***************************************************************************)
(* A summarised callee: apply_fn_summary.                                  *)
(***************************************************************************)
\* e is an effect on the local that is passed for a parameter.
ApplyEffect(s, e) ==
  CASE e.arg = NoLocal -> s
    [] e.arg # NoLocal /\ e.effect = "Reconstituted" ->
         Clear(Reconstitute(s, e.arg), {"local_proto"}, e.arg)
    [] e.arg # NoLocal /\ e.effect = "Escaped" -> EscapeLocal(s, e.arg)

ArgEffects(args, effects) ==
  [i \in DOMAIN effects |->
     [arg |-> NthArgLocal(args, effects[i].param), effect |-> effects[i].effect]]

\* The owners a result that points into argument arg aliases.
ArgOwners(s, arg) ==
  IF IsReferenceParam(arg) THEN {arg}
  ELSE IF IsRef(arg) \/ IsRawPtr(arg) THEN OwnersOf(s, arg) ELSE {}

\* dest points to what arg points to, if that is anything.
Adopt(s, dest, arg) ==
  IF ObjectsFor(s, arg) = {} THEN s ELSE Put(s, "points_to", dest, ObjectsFor(s, arg))

ApplyFnSummary(s, bb, args, dest, sum) ==
  LET alias == NthArgLocal(args, sum.returns_alias_of_param)
      ptr   == NthArgLocal(args, sum.returns_ptr_of_param)
      s1 == ForEach(ApplyEffect, s, ArgEffects(args, sum.param_effects))
      s2 == IF sum.returns_raw_owned THEN Allocate(s1, dest, bb)
            ELSE Clear(s1, {"points_to", "local_proto"}, dest)
      s3 == Put(s2, "owner_alias", dest, {})
      s4 == IF alias = NoLocal THEN s3
            ELSE LET t == Put(s3, "owner_alias", dest, ArgOwners(s3, alias)) IN
                 IF IsRawPtr(dest) THEN t ELSE Adopt(t, dest, alias)
  IN IF ptr = NoLocal THEN s4 ELSE Adopt(s4, dest, ptr)

Summarised(s, bb, fn, args, dest) ==
  LET s1 == ApplyFnSummary(s, bb, args, dest, Summaries[fn])
      recover == /\ PathIs(fn, "owned_buffer_accessor")
                 /\ ObjectsFor(s1, dest) = {}
                 /\ FirstArgLocal(args) # NoLocal
  IN Fresh(IF recover THEN Adopt(s1, dest, FirstArgLocal(args)) ELSE s1, dest)

\* No handler and no summary.  What dest pointed to before the call stays.
Unrecognised(s, fn, args, dest) ==
  LET arg0 == FirstArgLocal(args)
      wrote(l) == IF l = NoLocal \/ "buf_written" \notin Fields THEN s
                  ELSE [s EXCEPT !["buf_written"] = @ \cup OwnersOf(s, l)]
      view == IF arg0 = NoLocal THEN s
              ELSE LET t == IF OwnersOf(s, arg0) = {} THEN s
                            ELSE Put(s, "owner_alias", dest, OwnersOf(s, arg0))
                   IN Adopt(t, dest, arg0)
      s1 == IF PathIs(fn, "owned_buffer_accessor") THEN view
            ELSE IF PathIs(fn, "ptr_write_to_first_arg") THEN wrote(arg0)
            ELSE IF PathIs(fn, "ptr_copy_to_second_arg") THEN wrote(NthArgLocal(args, 2))
            ELSE IF PathIs(fn, "ptr_pure_read") THEN s
            ELSE EscapeRawPtrArgs(s, args)
  IN Clear(s1, Basics, dest)

Effect(s, bb, fn, args, dest) ==
  LET h == Handler(fn) IN
  CASE h = "raw_realloc" -> RawRealloc(s, bb, args, dest)
    [] h = "into_raw" -> IntoRaw(s, bb, dest)
    [] h = "from_raw" -> FromRaw(s, args, dest)
    [] h = "mem_forget" -> MemForget(s, args, dest)
    [] h \in {"epoch_pin", "lock_acquire"} -> Guard(s, bb, dest)
    [] h = "assume_init" -> AssumeInit(s, args, dest)
    [] h = "maybe_uninit_init" -> MaybeUninitInit(s, args, dest)
    [] h = "maybe_uninit_write" -> MaybeUninitWrite(s, args, dest)
    [] h = "maybe_uninit_as_mut_ptr" -> MaybeUninitAsMutPtr(s, args, dest)
    [] h = "buf_write" -> BufWrite(s, args, dest)
    [] h = "ptr_read" -> Through(s, args, dest)
    [] h = "summary" -> Summarised(s, bb, fn, args, dest)
    [] h = "unrecognised" -> Unrecognised(s, fn, args, dest)

\* What the callee's name says of the result, whatever handled the call.
ResultFacts(s, fn, args, dest) ==
  LET s1 == EnforceTypeFacts(s, dest)
      s2 == IF PathIs(fn, "returns_non_null") THEN Insert(s1, "nonzero", dest) ELSE s1
  IN IF /\ PathIs(fn, "layout_unchecked") /\ FirstArgLocal(args) # NoLocal
        /\ Holds(s2, "mul_overflow", FirstArgLocal(args))
     THEN Insert(s2, "layout_overflow", dest) ELSE s2

ApplyCall(s, bb, t) ==
  LET fn == Callee(s, t.func)
      dest == t.dest.local
      recv == ReallocReceiver(fn, t.args)
      s1 == IF recv = NoLocal THEN s ELSE MarkStale(s, recv)
      s2 == InvalidateOwnerArgs(s1, t.args, SummaryOf(fn).returns_alias_of_param)
      s3 == Put(InvalidateOwner(s2, dest), "owner_alias", dest, {})
      s4 == KillCapacity(s3, t.args)
      s5 == Observe(Clear(s4, Redefined, dest), fn, t.args, dest)
  IN IF fn = Absent \/ ~IsPlain(t.dest) THEN EscapeRawPtrArgs(s4, t.args)
     ELSE ResultFacts(Effect(s5, bb, fn, t.args, dest), fn, t.args, dest)
-----------------------------------------------------------------------------
(***************************************************************************)
(* Assert and Drop.                                                        *)
(***************************************************************************)
\* Facts that hold, when the comparison in local c has the given outcome.
Bounded(s, c, outcome) ==
  LET lt == At(s, IF outcome THEN "lt_facts" ELSE "ge_facts", c)
      le == At(s, IF outcome THEN "le_facts" ELSE "gt_facts", c)
      s1 == IF lt = Absent THEN s ELSE Insert(s, "bounded", lt)
  IN IF le = Absent THEN s1 ELSE Insert(s1, "bounded_or_eq", le)

ApplyDrop(s, l) ==
  LET s1 == SetProtocols(s, At(s, "local_proto", l), "Consumed") IN
  Clear(s1, {"local_proto", "points_to", "init", "buf_written"}, l)

ApplyTerminator(s, bb, t) ==
  CASE t.kind = "Call" -> ApplyCall(s, bb, t)
    [] t.kind = "Assert" /\ OperandLocal(t.cond) # NoLocal ->
         Bounded(s, OperandLocal(t.cond), t.expected)
    [] t.kind = "Drop" /\ IsPlain(t.place) -> ApplyDrop(s, t.place.local)
    [] OTHER -> s
-----------------------------------------------------------------------------
(***************************************************************************)
(* The edges of a switch.  t.values[i] is the value of t.targets[i]; the   *)
(* last target is `otherwise'.                                             *)
(***************************************************************************)
ZeroTarget(t) == {t.targets[i] : i \in {j \in DOMAIN t.values : t.values[j] = 0}}

\* {TRUE} on the edge where the discriminant is nonzero, {FALSE} where it is zero.
EdgeOutcome(t, succ) ==
  LET other == t.targets[Len(t.targets)] IN
  IF succ = other /\ succ \notin ZeroTarget(t) THEN {TRUE}
  ELSE IF succ \in ZeroTarget(t) /\ succ # other THEN {FALSE}
  ELSE {}

\* The fact field cond has for c becomes a member of the must-set field proven.
Prove(s, cond, c, proven) ==
  IF At(s, cond, c) = Absent THEN s ELSE Insert(s, proven, At(s, cond, c))

ProvePair(s, cond, c, proven) ==
  IF At(s, cond, c) = Absent THEN s
  ELSE Insert(s, proven, Canon(At(s, cond, c)[1], At(s, cond, c)[2]))

\* (mutant) The bound is one too strong.
ProveUpperStrict(s, cond, c, delta) ==
  IF At(s, cond, c) = Absent THEN s
  ELSE LET k == At(s, cond, c)[2] IN
       LowerUpper(s, At(s, cond, c)[1], IF k <= delta THEN 0 ELSE k - delta - 1)

\* The constant bound cond has for c, moved by delta (saturating).
ProveUpper(s, cond, c, delta) ==
  IF At(s, cond, c) = Absent THEN s
  ELSE LET k == At(s, cond, c)[2] IN
       LowerUpper(s, At(s, cond, c)[1], IF k < delta THEN 0 ELSE k - delta)

ProveLower(s, cond, c, delta) ==
  IF At(s, cond, c) = Absent THEN s
  ELSE RaiseLower(s, At(s, cond, c)[1], MinU64(At(s, cond, c)[2] + delta, MaxU64))

RefineTrue(s, c) ==
  LET s1 == Bounded(s, c, TRUE)
      s2 == Prove(Prove(s1, "lt_for", c, "index_bounded_for"), "le_for", c, "index_bounded_or_eq_for")
      s3 == Prove(Prove(s2, "spare_if_true", c, "has_spare"), "full_if_true", c, "is_full")
      s4 == Prove(Prove(s3, "nonzero_if_true", c, "nonzero"), "finite_if_true", c, "finite")
      s5 == ProveUpper(ProveUpper(s4, "const_lt", c, 1), "const_le", c, 0)
      s6 == ProveLower(ProveLower(s5, "const_gt", c, 1), "const_ge", c, 0)
  IN ProvePair(ProvePair(s6, "ne_pair_if_true", c, "keys_are_ne"), "eq_pair_if_true", c, "eq_locals")

RefineFalse(s, c) ==
  LET s1 == Bounded(s, c, FALSE)
      s3 == Prove(Prove(s1, "spare_if_false", c, "has_spare"), "full_if_false", c, "is_full")
      s4 == Prove(Prove(s3, "nonzero_if_false", c, "nonzero"), "nan_if_true", c, "finite")
      s5 == ProveLower(ProveLower(s4, "const_lt", c, 0), "const_le", c, 1)
      s6 == ProveUpper(ProveUpper(s5, "const_gt", c, 0), "const_ge", c, 1)
  IN ProvePair(ProvePair(s6, "eq_pair_if_true", c, "keys_are_ne"), "ne_pair_if_true", c, "eq_locals")

RefineSwitchIntEdge(s, t, succ) ==
  IF t.kind # "SwitchInt" \/ OperandLocal(t.discr) = NoLocal \/ EdgeOutcome(t, succ) = {} THEN s
  ELSE IF EdgeOutcome(t, succ) = {TRUE} THEN RefineTrue(s, OperandLocal(t.discr))
  ELSE RefineFalse(s, OperandLocal(t.discr))
-----------------------------------------------------------------------------
(***************************************************************************)
(* A basic block: its statements, then its terminator (run_fixpoint), and  *)
(* the two states an analysis of a body starts from.                       *)
(***************************************************************************)
BeforeTerminator(s, data) == ForEach(ApplyStatement, s, data.statements)

BlockExit(data, s) == ApplyTerminator(BeforeTerminator(s, data), data.bb, data.term)

SeedParamTypeFacts(s) == ForEach(EnforceTypeFacts, s, [l \in 1..ArgCount |-> l])

\* compute_flow and compute_flow_for_summary.
FlowInitialState == SeedParamTypeFacts(Default)

SummaryInitialState ==
  LET ptrs == {l \in 1..ArgCount : IsRawPtr(l)} IN
  FoldSet(LAMBDA l, s : Allocate(s, l, SUMMARY_BASE + l - 1), Default, ptrs)
=============================================================================
