----------------------------- MODULE CrateFlow ------------------------------
(***************************************************************************)
(* What run_checks asks of the analysis of one body, for the summaries it  *)
(* has so far: run_fixpoint as a function (Fixpoint is its loop, step by   *)
(* step), the summary, and the findings of the ownership checker.          *)
(***************************************************************************)
EXTENDS FnSummary, Ownership

\* What an exit state brings to each successor.
Arrivals(d, exit) ==
  LET succs == BlockSuccessors(d.term)
  IN [i \in DOMAIN succs |->
        [to |-> succs[i], state |-> RefineSwitchIntEdge(exit, d.term, succs[i])]]

\* One arrival: join, and queue the block when its entry state changed.
Deliver(st, a) ==
  LET old == st.entry[a.to]
      changed == IF old = Absent THEN TRUE ELSE Changed(old, a.state)
      new == IF old = Absent THEN a.state ELSE Merged(old, a.state)
  IN IF ~changed THEN st
     ELSE [entry |-> [st.entry EXCEPT ![a.to] = new],
           queue |-> IF a.to \in Range(st.queue) THEN st.queue ELSE Append(st.queue, a.to)]

\* One iteration of the loop: d is the block in front of the queue, exit its
\* exit state.  (Bound in sets of one element, they are evaluated once.)
Visit(body, st) ==
  CHOOSE next \in UNION {{FoldLeft(Deliver, [st EXCEPT !.queue = Tail(@)], Arrivals(d, exit)) :
                            exit \in {BlockExit(d, st.entry[d.bb])}} : d \in {body[Head(st.queue)]}} :
    TRUE

RECURSIVE RunFixpoint(_, _)
RunFixpoint(body, st) ==
  IF st.queue = <<>> THEN st.entry ELSE RunFixpoint(body, Visit(body, st))

Seeded(body, s) ==
  [entry |-> [b \in DOMAIN body |-> IF b = 0 THEN s ELSE Absent], queue |-> <<0>>]

ComputeFlow(body) == RunFixpoint(body, Seeded(body, FlowInitialState))

ComputeFlowForSummary(body) == RunFixpoint(body, Seeded(body, SummaryInitialState))

SummaryOfBody(fn, body) ==
  TrimExternal(fn, ExtractSummary(body, ComputeFlowForSummary(body)))

OwnershipFindingsOf(body) == UNION {OwnershipFindings(body, entry) : entry \in {ComputeFlow(body)}}
=============================================================================
