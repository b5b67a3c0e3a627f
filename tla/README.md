# A TLA+ model of san's analysis

`san` is a static analyzer for `unsafe` Rust that runs inside the compiler. It computes, for
every block of a MIR body, an abstract state of what has happened on the paths to it, and some
130 checkers report unsafe operations, many of them unless that state proves the operation safe.
This directory models the analysis: the worklist engine, the abstract state and its join, the
transfer functions, function summaries, the checkers that read the result, and the pipeline that
runs all of them. It checks them with TLC against executions of small analysed programs and
crates, and proves with TLAPS what holds of the engine, the join and the pipeline whatever the
program.

Three questions run through the project. Does the engine return a solution of the flow equations?
(Proved.) Do the rounds of summaries return a solution of theirs, and are the findings that are
reported the ones that are returned? (Proved, up to the caps the code sets.) And is what a
solution says of a block true of every execution that gets there, so that silence of a checker
means safety and a report means trouble? (Checked per domain; where the answer is no, a program
that shows it is kept.)

## 1. Inventory

| part | source | state | operations |
|---|---|---|---|
| flow engine | `analysis/dataflow.rs` | entry states, queue, membership set | pop, exit state, propagate along each edge |
| abstract state | `analysis/state.rs`, `object.rs`, `typestate.rs` | 57 fields: heap states, points-to sets, protocols, initialisation, comparison facts, ranges, bounds, aliases | `join_with` and the query methods |
| transfer | `analysis/transfer.rs` | the state of one path | `apply_statement`, `apply_terminator`, `refine_switchint_edge` |
| summaries | `analysis/summary.rs` | effect of each function on its parameters and result | seed, extract, apply at a call |
| preconditions | `analysis/precond.rs`, `checkers/precond_propagation.rs` | parameters a safe function hands to an unsafe operation | extract, report at callers |
| checkers | `checkers/` | none of their own | report or suppress, per block or per crate |
| pipeline | `lib.rs` | functions to summarise, summaries, findings | collect, iterate, check, remove duplicates |
| driver, cargo subcommand | `san-driver`, `cargo-san` | none | run rustc, print |

They interact in one direction: the pipeline computes summaries with the engine (which uses the
previous summaries at calls), then preconditions, then runs the engine once more per body and
hands the result to the checkers. Nothing is concurrent and nothing is persisted; what is hard
here is order and joining. The worklist visits blocks in an order that depends on the graph,
may come back to the block in hand, and relies on each join to say truthfully whether it changed
anything. Fields join in nine different ways, one of them (first come, first kept) dependent on the order. The
transfer is not monotone (a pointer that escapes keeps a freed state and loses a live one). A
fact is recorded in one block, proved on an edge, and used several blocks later, while its
operands, copies and aliases change. `PROJECT.json` lists these hazards at the lines where they
bite, with the properties that watch them.

## 2. Modules

| module | models | notes |
|---|---|---|
| `Fixpoint` | `run_fixpoint` | generic in state, transfer, refinement and join, which are constants with named assumptions |
| `FlowSolution` | what the engine promises | abstract: entry states grow along edges, and the analysis ends in a solution |
| `ControlFlow` | `block_successors` | |
| `BlockState` | the fields, `join_with`, its `changed` flag | a field belongs to one of nine families of joins |
| `Mir` | places, operands, statements, types | only what the transfer looks at |
| `MirBodies` | every body there is, and the declared types of the fields | infinite sets; what the theorems quantify over |
| `Loops` | `for x in seq { ... }` | |
| `Facts` | reading and updating a state, `impl BlockState` | |
| `Statements` | `apply_statement` | |
| `Terminators` | `apply_terminator`, `apply_fn_summary`, edge refinement, initial states | |
| `Ownership` | `ownership`, `into_raw` | findings of a body, from its flow result |
| `PointerUses`, `MemoryUses` | checkers of reads, writes, copies, views and hand-overs of pointers | each gives what is reported, as a function of the state before the terminator; so do the next four |
| `Protocols` | checkers of guards, MaybeUninit, descriptors, unions, const casts, environment | |
| `UncheckedOps` | checkers of unchecked operations on values and slices | |
| `Collections` | checkers of capacity, several indices, matrix extents; the backstop `unsafe_fn_call` | |
| `Precond` | implicit preconditions: extraction and report | |
| `FnSummary` | `extract_summary`, trimming of summaries of other crates | |
| `Pipeline` | `run_checks` | generic in the analysis of one body, which is a constant |
| `SummaryEquations` | what the rounds of summaries amount to | abstract: each round replaces the whole map at once |
| `CrateFlow` | the engine as a function, summary and ownership findings of a body | gives `Pipeline` its constants |
| `Execution` | engine, then an execution of the analysed body | `Described`: the entry state describes the store |
| `IntegerMir`, `HeapMir`, `ResourceMir`, `BufferMir`, `CrateMir` | meaning of MIR for values; allocations; guards, MaybeUninit, descriptors, unions; growing collections; functions that call each other | external to san: the yardstick |
| `Resources` | executions of bodies against `compute_flow` on them, and what the checkers of `Protocols` must report | composes `Execution`, `ResourceMir` and the real transfer |
| `FixpointProofs`, `BlockStateProofs`, `LoopProofs`, `TransferProofs`, `ExecutionProofs`, `ResourceProofs`, `PipelineProofs`, `QueueLemmas` | theorems | |
| `MC*` | instances | |

**State and actions of the engine.** `entry_states`, `worklist`, `in_worklist` are the variables
of the code; `bb`, `state`, `succs` are the loop's locals. `Pop` is the head of the loop up to
the exit state, `Propagate` one round of the successor loop, `Done` the return. The exit state is
computed once, in `Pop`: if the block is its own successor, its entry state may change while the
old exit state is still being sent on, and `CurrentInv` says what saves the day.

**State and actions of the pipeline.** The variables are those of `run_checks`; `pc` is the loop it
is in. `BeginLevel`, `ScanFunction`, `VisitCall`, `EndLevel` collect external callees breadth
first; `BeginRound`, `Summarize`, `EndRound` iterate the summaries, each round reading a snapshot
(`snap`) and removing empty entries; `CheckCrate`, `FindPreconds`, `CheckBody` gather findings;
`Deduplicate` and `DropCovered` are the two `retain` passes. A checker may walk a hash map
(`ownership` looks for leaks through `points_to`), so what one reports is a set of possible sequences.

**The abstract state** is a function on a set `Fields`, a constant, so that a run carries only
the fields of its domain; a field that is not carried reads as empty. Absent entries of a Rust map are `Absent`. The
57 fields are sorted into families (may-maps, must-sets, first-wins maps, ...) by how
`join_with` treats them; the order `Leq` is the one each family's join climbs.

**Callee paths** are strings in the code, matched by some sixty predicates. In the model a
function has a set of predicates that hold of it (`Is`), and the order in which the handlers are tried is
`Handlers`. `u64::MAX`, `isize::MAX`, 127 and `isize::MAX / 2` are constants, scaled down in the
runs; saturation and the order between them are kept.

**Composition.** `Execution` extends `Fixpoint` with an execution that starts when the engine
has returned: `Enter` picks arguments, `Execute` runs a block of the analysed body. A domain's MC
module (`Resources` for `MCResources`) instantiates it with the transfer of `Terminators`, the join of `BlockState`, and its
meaning of MIR. `MCCrate` instantiates `Pipeline` with `CrateFlow`: every round analyses every body
with the real transfer and the summaries of the round before, and what comes out is compared with
runs of the whole crate (`CrateMir`).

## 3. Runs

A passing run explores every program of a family, analysed by the engine and then run on every
input. The families are templates whose blocks range over sets of statements and calls. They leave
out the shapes on which a property is known to fail: those of the violation runs and those of
the second table below. A passing run therefore shows a property for its family, not for every program. All sizes are distinct states.

| run | shows | bounds |
|---|---|---|
| `MCFixpoint` (173k) | the loop invariant (queue and set agree, nothing is owed but by queued blocks and the one in hand), the result is a solution, `None` is unreachable, the engine refines `FlowSolution` (so facts are not taken back), and it ends | 3 blocks: enough for a self-loop, a loop through another block, a join, a block that is not reached and a call with cleanup; effects that generate, kill, overwrite and count; bounds saturate at `MaxBound` = 2 |
| `MCGuards` (228k) | ranges, zero tests and equalities hold in every execution | two-bit u64, two of them, a narrower integer and a Boolean; 3 blocks with a loop |
| `MCOwnership` (1.0M) | heap states and points-to sets are right; double frees and uses after free that happen are reported; reported leaks are real | 6 blocks, 2 pointers, a pair and a struct field, one allocation per call site |
| `MCResources` (14k) | guards have the protocol states the analysis says, and a struct counts as initialised only where every path filled every field; expired guards, unpaired unlocks, incomplete structs, second owners of a descriptor, writes through a cast `*const` and changes of the environment after a spawn are reported; verdicts on union reads are true both ways | an epoch guard and a lock guard, moved, dropped, forgotten, retaken over a branch or a loop; two fields, filled before, on and after a branch, in a loop, on two sides of a fork; a descriptor and a copy; a union and a copy; three pointers, one redefined by a call |
| `MCUnchecked` (340k) | thirteen unchecked operations are reported unless their requirement is met in every execution, also through a wrapper's implicit precondition | two-bit u64, a slice of length 0 to 3 |
| `MCBuffers` (179k) | pushes without a capacity check, `into_inner` of a collection that is not full, `advance_mut` past what was written, swaps and views at several indices and matrix extents are reported unless safe; each use of a pointer into a buffer that may have moved is reported | two collections of capacity up to 2; lengths, capacities and indices read before or after a change through another borrow, over a branch or a loop |
| `MCPipeline` (69k) | what is collected under the two caps; how many rounds settle which summaries, also with recursion; which findings survive; that `run_checks` ends, also when the summaries never settle; and that its rounds refine `SummaryEquations` | 3 local functions and 3 of dependencies, depth 2, at most 2 external functions, 3 rounds: each cap is reached by some crates and missed by others; in `TurningCrates` no map solves the summary equations, and only the cap ends the rounds |
| `MCCrate` (11k) | a summary says what its function does when it runs; a double free across any chain of helpers has a finding in the final result; a leak that is returned is one | a caller, a helper, a leaf and a cast of a dependency, with recursion, mutual recursion and a helper whose summary turns over in every round; calls nest up to `MaxCallDepth` |

Two or three values per type suffice for the facts in question: each relates a value to zero, to
one constant or to one other local, and two-bit integers have values below, at and above every constant used, and overflow.
Three to eight blocks suffice for one branch, one loop and their join, which is where joins and
stale facts meet.

`MCUnchecked` names the preconditions of its four wrapper functions outright; two assumptions,
evaluated by TLC before the run, say that these are what `ExtractPrecondSummary` and the transfer compute for them.
The length of the slice varies only in programs that use an index.

The crates of `MCPipeline` whose summaries never settle are not an artefact of its abstract bodies.
The helper "frees its result" of `MCCrate` copies its parameter to `q`, and on one branch sets `q` to
the result of a call of itself and frees that. A call of an unknown function leaves what `q` may point to as it was
(`transfer.rs:1704`), so without a summary the helper seems to free its parameter; with one, `q` points to
something else (`apply_fn_summary`) and the helper has no effect, which removes the summary.
`TurningAssumption`, evaluated by TLC in both modules, says so of the real analysis and of the
abstract one. Eight rounds and the four of `MCCrate` both end with the summary removed.

`Described` is the central property: what an entry state says is true of the store of any
execution that enters the block. The reporting properties (`...Reported`, `...Safe`) then relate
a checker to what the execution is about to do, and those named `...IsReal` go the other way.

Definitions marked `(mutant)` are deliberately wrong variants of the definition that follows them.
No specification uses them; put in its place, each makes the property that `PROJECT.json` names
fail, which shows that the property depends on that piece of the code.

**Fairness.** Only the two `Terminates` need any: weak fairness of `Pop \/ Propagate` in the engine
and of `Collect \/ SummarizeAll \/ Report` in the pipeline, since both are sequential code that
nothing else stops. The engine has no bound of its own and ends because joins run out of changes;
the pipeline ends because every loop has one: that of the rounds is needed for crates whose
summaries never settle. Executions have no fairness; only safety is asked of
them. Deadlock is checked in all runs (`Done` and `Exit` are explicit).

### Where code and documentation disagree

Each of these runs checks one sentence of a comment, a doc or a message, on the smallest
programs that refute it; `PROJECT.json` quotes the sentence.

| run | what happens |
|---|---|
| `MCUninitOneSided` | a MaybeUninit written on one branch counts as initialised after the join |
| `MCGuardsStale` | a comparison is switched on after its operand was overwritten, and proves something of the new value |
| `MCOwnershipPartial` | a pointer from `into_raw` that is taken back on one branch only is passed over |
| `MCCrateMessages` | a definite and a potential double free at one call share rule and span, and the message of the second, in the order of object ids, is dropped |

The passing families leave out further shapes. Their programs and the property that fails are
kept in the MC modules; to see a counterexample, take the configuration of the module's passing
run, set `Programs` (`Crates` in `MCCrate`) to the set named here and check only the property;
for `ShiftPrograms` also set `MaxU64` to 7, so that a shift can exceed the width.

| module | `Programs` | property | what happens |
|---|---|---|---|
| `MCGuards` | `NarrowingBlocks` | `NonzeroIsProven` | a truncating cast keeps `nonzero` (`transfer.rs:663`) |
| `MCOwnership` | `EscapingBlocks` | `DoubleFreeReported` | `Escaped` absorbs `Reconstituted` at a join, and the double free is silent (`object.rs:34`) |
| `MCOwnership` | `AliasedBlocks` | `DefiniteIsFreed` | freeing one of two possible objects marks both as definitely freed (`transfer.rs:1404`, against `state.rs:1000`) |
| `MCOwnership` | `ReassignedBlocks` | `DoubleFreeIsReal` | a pointer from an unknown call keeps the old pointer's objects: a false double free (`transfer.rs:1704`) |
| `MCOwnership` | `DroppedBlocks` | `DroppedLeakReported` | dropping a value removes the points-to entry through which its leak would be found (`transfer.rs:1791`) |
| `MCOwnership` | `EscapedBlocks` | `EscapedFreeReported` | two checkers each leave the free of an escaped pointer to the other (`box_from_raw.rs:68`) |
| `MCResources` | `RetakenPrograms` | `ExpiredGuardReported` | forgetting one of two possible guards marks the dropped one as forgotten (`epoch_guard.rs:13`) |
| `MCResources` | `ForgottenPinPrograms` | `ForgottenLockOnly` | a forgotten epoch guard pairs with a `force_unlock` (`lock_state.rs:58`) |
| `MCResources` | `TransferredPrograms` | `DoubleOwnerReported` | a transferred descriptor may be given two owners (`raw_fd.rs:19`) |
| `MCResources` | `DropCallPrograms` | `ExpiredGuardReported` | `mem::drop(guard)` does not consume the guard (`transfer.rs:1444`) |
| `MCResources` | `UnionCallPrograms` | `UnionVerdictsTrue` | a union that is assigned the result of a call keeps the field it had (`transfer.rs:1256`) |
| `MCResources` | `StoredHandlePrograms` | `SpawnedChangeIsError` | a spawn whose handle goes straight to a field is not recorded (`transfer.rs:1250`, against `env_set_var.rs:77`) |
| `MCUnchecked` | `DigitPrograms` | `DigitSafe` | `digit_unchecked` is silent up to 127 (`ascii_unchecked.rs:58`) |
| `MCUnchecked` | `AlignPrograms` | `LayoutSafe` | a small size hides an alignment that is no power of two (`layout_unchecked.rs:75`) |
| `MCUnchecked` | `OtherBoundPrograms` | `ThisSliceSafe` | an index compared with anything is within every slice (`state.rs:847`) |
| `MCUnchecked` | `ConstPrograms` | `PrecondSafe` | a literal argument is not checked against a precondition (`precond_propagation.rs:20`) |
| `MCUnchecked` | `ParamPrograms` | `PrecondSafe` | a precondition is not checked for the caller's own parameters (`precond_propagation.rs:71`) |
| `MCUnchecked` | `ShiftPrograms` | `ShiftSafe` | shifts of `usize`, `isize` and 128-bit integers by a bounded amount are never reported (`unchecked_int_arith.rs:196`) |
| `MCBuffers` | `StalePrograms` | `SpareProofFresh` | a length read before a push and a capacity read after it prove room (`transfer.rs:1222`) |
| `MCBuffers` | `RefilledPrograms` | `RoomSafe` | a collection found full, and then replaced by the result of a call through an unknown pointer, still counts as full (`transfer.rs:1243`) |
| `MCCrate` | `EarlyCrates` | `ReturnsParam` | an allocation in block k of a function with k parameters passes for parameter k (`summary.rs:163`) |
| `MCCrate` | `AllCrates` | `SummaryEffectsSound` | freeing what a helper returns on some paths only counts as freeing the parameter (`summary.rs:139`) |

More shapes are left out of the families without a property of their own. In each the model does
what the code does:

- A strong update through a pointer that may be null marks its object as freed on all paths, and
  writing through a pointer with several possible owners marks all of them as written.
- After a pointer was passed to unknown code its objects are not tracked. A helper that returns
  its parameter or a new object leaves its caller with one of the two.
- A protocol that is known on one side of a join only stays Active; any lock guard silences
  `crossbeam_epoch`.
- A write to a union through a pointer sets the field of the pointer's local. A place of the model
  has one field, the last; for `u.a.b` that is not the field of the union, though the comment at
  `transfer.rs:2274` says that nested projections are rejected.
- `ptr::copy` counts as a write to its first argument for `cast_away_const`.
- `unsafe_fn_call` is silent if any argument has a proved fact, and `pop_unchecked` if the
  collection is proved to have room.
- A change through a reborrow of a reborrow, or through a raw copy, does not take `has_spare`
  back. `&mut` calls that do not reallocate cut aliases; pointer arithmetic by `Offset` and
  `as_ptr` of owned collections are not aliases.
- Bounds outlive a collection that shrinks, and are not tied to the collection they are of.
- The transfer applies the summary of the impl a call of a trait's method resolves to; `ownership` looks
  for one under the trait's method and finds none (`ownership.rs:91`, `named_by_trait` in the model).
- `copy_nonoverlapping` as a statement (`PtrCopyIntrinsic`) is in no program, and the function pointers
  that are called are `unsafe` ones.
- `array_components` and `cast_origin` outlive an assignment to the component or the source.

## 4. Proofs

All proofs are for every value of the constants.

`BlockStateProofs` shows that the real join keeps the contract the engine relies on.
`FieldContract` states it for one field; `EveryField` proves it family by family, from the
semilattice laws of the three small lattices and the set facts about unions and intersections.
`JoinContract`, `OrderContract` lift it to whole states, which are the assumptions
`JoinAssumption` and `OrderAssumption` of `Fixpoint`, and `ChangedIsExact` says that the
`changed` flag neither misses a change nor reports one that was not made.

`FixpointProofs` proves the engine correct from `GraphAssumption`, `StateAssumption`,
`JoinAssumption` and `OrderAssumption`; monotonicity of the transfer is not among them.
`Solved` is not inductive. The strengthening `IInv` adds that the queue mirrors its set
(`QueueInv`), that the seed stays (`SeedInv`), that a reached block that is not queued owes its
successors nothing except those the loop still has to visit (`CoverInv`), that the exit state in
hand is current or its block is queued again (`CurrentInv`), and that only reachable blocks are
reached (`ReachInv`). `LoopInv` is their conjunction, `LoopCorrect` the theorem. `CurrentInv` is what carries a self-loop: without it `Propagate` could
discharge a debt with an outdated exit state. From `IInv` follow `ReturnsSolution`,
`NoneIsUnreachable`, `NothingIsTakenBack` and the refinement `KeepsPromise`.

`ExecutionProofs` proves `SoundAnalysis`: if the transfer is locally sound (`LocallySound`: the
seed describes the entry stores, each block's transfer describes what the block does, and a
higher state says less) then `Described` holds in every execution. This reduces soundness of a
domain to single blocks. `LocallySound` is a hypothesis; `ResourceProofs` proves it for two facts, and
the violation runs show that it fails for some domains on some programs.

`LoopProofs` has two lemmas about a loop over a sequence, with nothing of san in them: it has a run of
intermediate results (`LoopRuns`), and keeps what its body keeps (`LoopKeeps`). It is generic in the body of the loop, a
constant operator, and is instantiated once for each loop of the transfer. Its hypothesis
`Induction` is induction up to a bound, over sets of numbers; `TransferProofs` proves that from the
well-foundedness of the naturals (`InductionUpTo`) and each instance cites it.

`TransferProofs` goes through the transfer functions arm by arm, for all bodies of `MirBodies`, any
number of statements and arguments, and any set of carried fields. `Changes(s, t, F)` says that t
is a BlockState of the declared types that differs from s in the fields F at most. There is a lemma
for each helper that mutates a state, one for each arm, and `StatementTyped`, `TerminatorTyped`,
`EdgeTyped`, `BlockTyped` and `FlowInitialTyped` for the wholes. Two things depend on this. The
engine's theorems assume that transfer and refinement map states to states; that is not obvious
where bounds are added to, multiplied, shifted and decremented, and have to stay within a u64. And a
property that rests on a few fields may ignore every arm that does not write them: which fields an
arm writes is part of what is proved. The assumptions are the declared types (`DeclaredTypes`),
that call sites and stale pointers have object ids (`IdAssumption`), that a type's maximum is a
u64 (`TyAssumption`), and that summaries name parameters by position (`SummariesAssumption`).

`ResourceProofs` puts the parts together. `FlowGraph`, `FlowStates` and `FlowJoin` are the
assumptions of `Fixpoint`, now proved of `block_successors`, the transfer and the join; so
`FlowReturnsSolution`, `FlowNoneIsUnreachable`, `FlowOnlyGrows` and the refinement of `FlowSolution`
(`FlowKeepsPromise`) hold of `compute_flow` on every body, with nothing left to assume of the analyser. It then proves `LocallySound` for two facts,
which `TaintDescribed` states: an execution that started a thread is in a
state with `thread_spawned`, and a `*mut` that comes from a `*const` is in `const_ptr_cast`. Each
is carried through a statement, then through all statements of a block by running the analysis and
the execution in step (`StatementsTogether`), then through the terminator and the edge, and weakened by joins.
`SoundAnalysis` makes it an invariant of executions, and `SpawnedChangesReported` and
`ConstWritesReported` follow: for every body, the checker's report is there when the execution does
what it warns of. Each theorem has one hypothesis on bodies. `SpawnsIntoLocal` is needed, as
`StoredHandlePrograms` shows. `SidesDiffer` is a rule of MIR: without it, `p = p as *mut T` would
clear the mark of p before reading it. TLC evaluates both on the bodies of `MCResources`
(`ProgramsRegular`), where the theorems' conclusions are invariants as well.

`PipelineProofs` proves what `run_checks` guarantees for every crate and every value of the three
caps. Of the analysis of one body nothing is assumed but types and that it reads only entries of
functions the body mentions; it need not be monotone. `WithinAssumption` and `RankAssumption` say
what the constants `Within` (functions within k calls) and `Rank` (length of the longest call
chain, where there is no recursion) stand for. The inductive invariant has three parts.
`CollectInv` relates the set collected to `Within`: while a level is scanned, each callee of a
function already scanned is in the set, unless the cap was reached. From it follow
`CollectionBounded`, `CollectionNearestFirst` and `CollectionFindsAll`. `RoundInv` says that the
functions a round has visited hold what their bodies give against the snapshot, that the others
still hold the snapshot, and that functions of rank below the number of completed rounds solve
their equations. The last is what makes the cap harmless for shallow call chains
(`OneLevelPerRound`, `SettledForGood`, `SummariesSolve`), and the first two give the refinement of
`SummaryEquations` (`RoundsAreWhole`): the order in which a round visits functions cannot be seen.
`RetainInv` relates `seen` and `kept` to the findings looked at (`FindingsSurvive`, `FindingsOnce`).
`CollectionBounded`, `SettledForGood` and `NothingIsTakenBack` have no run of their own.
`QueueLemmas` has the facts about sequences that both proofs use.

Only model-checked:

- Termination of the engine and of the pipeline: liveness under fairness is beyond the prover.
- `Described` of `MCGuards`, `MCOwnership`, `MCResources` and `MCBuffers`, and the properties of
  the other checkers. None of them holds for every body: the tables of section 3 give a body for
  each domain. A theorem needs a hypothesis on bodies that is weak enough to be of use, and a proof
  that each arm of the transfer keeps the field; `TransferProofs` leaves only the arms that write it.
- `UnionVerdictsTrue`: the field that was written last is known only if no call assigns the union
  and no pointer writes to it.
- The properties of `MCCrate`. `CrateFlow` (the engine as a function) and `CrateMir` (calls that
  nest) use recursive operators, which the prover cannot handle; the modules with theorems reach none.

## 5. Not modelled

- Checkers that match a name or a type and report each match: they keep no state and read none.
- The driver and the cargo subcommand: process plumbing.
- Wording of findings, severities, spans of statements; generic parameters; the exemption of code
  that comes from a macro or was inlined.
- Unwinding of the analysed program: the engine follows unwind edges, the executions do not. The
  exit state of a call, its result included, flows along the unwind edge as in the code.
- Known targets of function pointers are in the transfer (`Terminators`) and in no execution.
- `returns_alias_of_param` and `reallocs_param` are extracted and applied, and the crates of
  `MCCrate` have raw-pointer parameters only; `MCBuffers` runs calls with a given `reallocs_param`.

## 6. Plan

1. Executions that unwind, and calls through known function pointers.
2. Crates with reference parameters in `MCCrate`, so that reallocation is followed across
   functions, and crates with preconditions.
3. Proofs: `LocallySound` for the range facts (constant bounds first, then comparisons that are
   not stale), with what `MCUnchecked` checks as the result; exactness of `FreedKind`.
