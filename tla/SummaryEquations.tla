-------------------------- MODULE SummaryEquations --------------------------
(***************************************************************************)
(* What the rounds of summaries in run_checks amount to: once the set of   *)
(* functions is fixed, each round replaces the whole map at once by what   *)
(* the bodies give against it, until a round changes nothing or the cap on *)
(* rounds is reached.                                                      *)
(***************************************************************************)
EXTENDS Naturals, Sequences, Functions

CONSTANTS Fn, Crates, LocalFns(_), Mentions(_, _), None, IsEmpty(_), Derive(_, _, _),
          MAX_SUMMARY_ROUNDS

VARIABLES crate, fns, map, rounds, stage

vars == <<crate, fns, map, rounds, stage>>

Init ==
  /\ crate \in Crates
  /\ fns = {}
  /\ map = [f \in Fn |-> None]
  /\ rounds = 0
  /\ stage = "collect"

Begin ==
  /\ stage = "collect"
  /\ stage' = "iterate"
  /\ fns' \in SUBSET Fn
  /\ Range(LocalFns(crate)) \subseteq fns'
  /\ UNCHANGED <<crate, map, rounds>>

Entry(f) ==
  LET s == Derive(crate, f, Restrict(map, Mentions(crate, f))) IN IF IsEmpty(s) THEN None ELSE s

Round ==
  /\ stage = "iterate"
  /\ rounds < MAX_SUMMARY_ROUNDS
  /\ map' = [f \in Fn |-> IF f \in fns THEN Entry(f) ELSE map[f]]
  /\ rounds' = rounds + 1
  /\ stage' = IF map' = map THEN "stop" ELSE "iterate"
  /\ UNCHANGED <<crate, fns>>

GiveUp ==
  /\ stage = "iterate"
  /\ rounds = MAX_SUMMARY_ROUNDS
  /\ stage' = "stop"
  /\ UNCHANGED <<crate, fns, map, rounds>>

Next == Begin \/ Round \/ GiveUp

Spec == Init /\ [][Next]_vars
=============================================================================
