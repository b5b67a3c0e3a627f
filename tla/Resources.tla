------------------------------ MODULE Resources -----------------------------
(***************************************************************************)
(* Executions of bodies with guards, MaybeUninit locals, descriptors,      *)
(* unions, pointers to constants and threads, against the results of       *)
(* compute_flow on those bodies: what the checkers that watch such         *)
(* resources must report.                                                  *)
(***************************************************************************)
EXTENDS ResourceMir

CONSTANT Programs     \* the bodies to analyse and run

ASSUME ProgramsAssumption == 0 \in Blocks /\ Programs \subseteq [Blocks -> BasicBlocks]

\* What some of the theorems ask of the bodies.  MIR does not copy or cast a local
\* onto itself: a cast has a fresh destination, and the validator of MIR refuses
\* an assignment of which the two sides overlap ...
SidesDiffer(d) ==
  \A i \in DOMAIN d.statements :
    LET st == d.statements[i] IN
    IsPlain(st.dst) /\ st.rv.kind \in {"Use", "Cast"} => OperandLocal(st.rv.op) # st.dst.local

\* ... and a thread is started by a call that has a local for its result.
SpawnsIntoLocal(d) ==
  d.term.kind = "Call" /\ PathIs(d.term.func.fn, "spawn") => IsPlain(d.term.dest)

VARIABLES body, entry_states, worklist, in_worklist, bb, state, succs, at, store

FlowSuccessors(d) == BlockSuccessors(d.term)

FlowSeed(b) == FlowInitialState

FlowRefine(d, s, c) == RefineSwitchIntEdge(s, d.term, c)

ResourceEntry(b) == {NoResources}

INSTANCE Execution WITH
  Block <- Blocks, START <- 0, BlockData <- BasicBlocks, Bodies <- Programs,
  Successors <- FlowSuccessors, State <- StatesOver(Fields), None <- Absent,
  InitialState <- FlowSeed, ExitState <- BlockExit, Refine <- FlowRefine,
  Join <- Merged, JoinChanges <- Changed, Below <- Leq,
  Stores <- ResourceStores, EntryStores <- ResourceEntry, Step <- RunResourceBlock,
  Describes <- ResourcesDescribed
-----------------------------------------------------------------------------
AtCall == at # Absent /\ body[at].term.kind = "Call"

Before == BeforeTerminator(entry_states[at], body[at])

\* What became of the guards that were taken by a call of the given kind.
Fates(kind) ==
  {ResourceStatements(store, body[at]).fate[b] :
     b \in {c \in Blocks : body[c].term.kind = "Call" /\ PathIs(body[c].term.func.fn, kind)}}

\* "Active -> Consumed (on drop)": when an execution dereferences a Shared
\* after some epoch guard it took was dropped, on whichever path, and not
\* taken again, epoch_guard_expired is reported there, and crossbeam_epoch is
\* not talked out of its warning.
ExpiredGuardReported ==
  AtCall /\ PathIs(body[at].term.func.fn, "shared_deref") /\ "dropped" \in Fates("epoch_pin") =>
    EpochGuardExpired(Before, body[at].term) /\ CrossbeamEpoch(Before, body[at].term)

\* "force_unlock called without a preceding lock() + mem::forget(guard)": when
\* no guard that this execution took was forgotten, that is reported, by
\* lock_api_unsafe too.
UnpairedUnlockReported ==
  AtCall /\ PathIs(body[at].term.func.fn, "force_unlock") /\ "forgotten" \notin Fates("epoch_pin") \cup Fates("lock_acquire") =>
    ForceUnlockUnpaired(Before, body[at].term) /\ LockApiUnsafe(Before, body[at].term)

\* "called without a preceding lock() + mem::forget(guard) on this path": the
\* same, when the only guards that were forgotten are not lock guards.
ForgottenLockOnly ==
  AtCall /\ PathIs(body[at].term.func.fn, "force_unlock") /\ "forgotten" \notin Fates("lock_acquire") =>
    ForceUnlockUnpaired(Before, body[at].term)

\* When an execution calls assume_init on a MaybeUninit of which some field was
\* never written, the call is reported.
UninitReported ==
  AtCall /\ PathIs(body[at].term.func.fn, "assume_init")
    /\ ResourceStatements(store, body[at]).parts[FirstArgBaseLocal(body[at].term.args)] # AllParts =>
    AssumeInitReported(Before, body[at].term)

\* "from_raw_fd(x) where x was already consumed by a prior from_raw_fd on any
\* reaching path is double-ownership (Error)": when an execution gives an
\* owner to a descriptor that has one, that error is reported.
DoubleOwnerReported ==
  AtCall /\ PathIs(body[at].term.func.fn, "from_raw_fd") =>
    LET m == ResourceStatements(store, body[at])
        arg == FirstArgBaseLocal(body[at].term.args)
    IN m.fd[arg] \cap m.owned # {} => "double_ownership" \in RawFd(Before, body[at].term)

\* The statements of the block that the execution is about to run, each with
\* the abstract state and the store before it.
Steps ==
  {[s |-> ForEach(ApplyStatement, entry_states[at], SubSeq(body[at].statements, 1, i - 1)),
    m |-> ForEach(RunResourceStatement, store, SubSeq(body[at].statements, 1, i - 1)),
    st |-> body[at].statements[i]] : i \in DOMAIN body[at].statements}

\* "Provably reading the same field that was last written", "Definite mismatch:
\* last write was to a different field": a read of a union is passed over only
\* if every execution wrote that field last, and is called a read of the wrong
\* field only if every execution wrote another one.
UnionVerdictsTrue ==
  at # Absent => \A x \in Steps : \A p \in {q \in SourcePlace(x.st.rv) : IsUnionFieldPlace(q)} :
    /\ UnionField(x.s, x.st) = {} => x.m.variant[p.local] = p.field
    /\ "union_wrong_field" \in UnionField(x.s, x.st) => x.m.variant[p.local] \notin {p.field, NoField}

\* "writes through a `*mut T` obtained by casting a `*const T`": when an
\* execution does, through whatever copies and casts, the write is reported.
ConstWriteReported ==
  /\ at # Absent => \A x \in Steps :
       x.st.dst = Place(x.st.dst.local, 1, NoField) /\ x.st.dst.local \in x.m.frozen => ConstStore(x.s, x.st)
  /\ AtCall /\ PathIs(body[at].term.func.fn, "write_through_first")
       /\ FirstArgLocal(body[at].term.args) \in ResourceStatements(store, body[at]).frozen =>
       ConstWrite(Before, body[at].term)

\* "called before this point on any reaching path": an environment that is
\* changed after a thread was started is an error.
SpawnedChangeIsError ==
  AtCall /\ PathIs(body[at].term.func.fn, "env_mutation") /\ store.spawned =>
    EnvSetVar(Before, body[at].term) = {"env_set_var_error"}
=============================================================================
