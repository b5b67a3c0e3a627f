----------------------------- MODULE Execution ------------------------------
(***************************************************************************)
(* The analysed program itself, run against the result of its analysis.    *)
(*                                                                         *)
(* A checker asks FlowResults what holds at a block and stays silent when  *)
(* the answer proves the operation safe.  That silence is justified when   *)
(* the answer describes every store with which an execution can enter the  *)
(* block.  The executions are the MIR semantics, given by Step; what an    *)
(* abstract state says of a store is given by Describes.                   *)
(***************************************************************************)
EXTENDS Fixpoint

CONSTANTS
  Stores,            \* the stores an execution may have
  EntryStores(_),    \* body: the stores it may be called with
  Step(_, _),        \* block data, store: the [to, store] it may continue with
  Describes(_, _)    \* abstract state, store

VARIABLES at, store  \* the block the execution enters, and its store, or None

runvars == <<at, store>>

allvars == <<vars, runvars>>

RunInit == Init /\ at = None /\ store = None

Analyse == (Pop \/ Propagate) /\ UNCHANGED runvars

\* The analysed program is called with some store ...
Enter ==
  /\ Returned
  /\ at = None
  /\ at' = START
  /\ store' \in EntryStores(body)
  /\ UNCHANGED vars

\* ... and each step executes one block.
Execute ==
  /\ at # None
  /\ \E next \in Step(body[at], store) : at' = next.to /\ store' = next.store
  /\ UNCHANGED vars

\* The execution has returned or panicked.
Exit == at # None /\ Step(body[at], store) = {} /\ UNCHANGED allvars

RunNext == Analyse \/ Enter \/ Execute \/ Exit

RunSpec == RunInit /\ [][RunNext]_allvars
-----------------------------------------------------------------------------
\* What the analysis says of a block is true whenever an execution enters it.
Described ==
  at # None =>
    /\ Returned /\ store \in Stores
    /\ at \in Reached /\ Describes(entry_states[at], store)
=============================================================================
