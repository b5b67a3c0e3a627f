----------------------------- MODULE Protocols ------------------------------
(***************************************************************************)
(* The checkers that read the guard, initialisation, descriptor, thread,   *)
(* union and constness domains: epoch_guard.rs and lock_state.rs of        *)
(* checkers/flow, and crossbeam_epoch.rs, lock_api_unsafe.rs,              *)
(* assume_init.rs, raw_fd.rs, env_set_var.rs, union_field.rs and           *)
(* cast_away_const.rs of checkers.  Each tells whether (or as what) a call *)
(* or a statement is reported, given the state before it.  Calls expanded  *)
(* from a macro, which raw_fd skips, are left out.                         *)
(***************************************************************************)
EXTENDS Terminators

EpochGuardExpired(s, t) ==
  /\ PathIs(t.func.fn, "shared_deref") \/ PathIs(t.func.fn, "defer_destroy")
  /\ HasHazardProtocol(s)

ForceUnlockUnpaired(s, t) ==
  PathIs(t.func.fn, "force_unlock") /\ ~HasForgottenProtocol(s)

\* "Flow sees active guards and none are in hazard state".
NoGuardExpired(s) ==
  /\ ~HasHazardProtocol(s)
  /\ "typestate" \in Fields /\ \E p \in DOMAIN s["typestate"] : s["typestate"][p] # Absent

CrossbeamEpoch(s, t) ==
  \/ PathIs(t.func.fn, "crossbeam_op")
  \/ /\ PathIs(t.func.fn, "shared_deref") \/ PathIs(t.func.fn, "defer_destroy")
     /\ ~NoGuardExpired(s)

LockApiUnsafe(s, t) ==
  \/ PathIs(t.func.fn, "guard_unchecked")
  \/ PathIs(t.func.fn, "force_unlock") /\ ~HasForgottenProtocol(s)

\* (mutant) One written field passes for all of them.
AssumeInitUnlessPartial(s, t) ==
  LET recv == FirstArgBaseLocal(t.args) IN
  /\ PathIs(t.func.fn, "assume_init_call")
  /\ recv = NoLocal \/ At(s, "mu_field_inits", recv) = Absent

\* Only MaybeUninit's own assume_init methods can be proved harmless.
AssumeInitReported(s, t) ==
  LET recv == FirstArgBaseLocal(t.args) IN
  /\ PathIs(t.func.fn, "assume_init_call")
  /\ ~ (/\ PathIs(t.func.fn, "assume_init")
        /\ recv # NoLocal
        /\ At(s, "init", recv) = "Initialized")

\* A transfer is passed over, a second owner is an error.
RawFd(s, t) ==
  LET fd == FirstArgLocal(t.args) IN
  IF PathIs(t.func.fn, "from_raw_fd")
  THEN IF fd # NoLocal /\ Holds(s, "fd_origin", fd) THEN {}
       ELSE IF fd # NoLocal /\ Holds(s, "fd_consumed", fd) THEN {"double_ownership"}
       ELSE {"raw_fd"}
  ELSE IF PathIs(t.func.fn, "into_raw_fd") THEN {"raw_fd"} ELSE {}

\* A change of the environment is always reported, after a spawn as an error.
EnvSetVar(s, t) ==
  IF ~PathIs(t.func.fn, "env_mutation") THEN {}
  ELSE IF "thread_spawned" \in Fields /\ s["thread_spawned"] THEN {"env_set_var_error"} ELSE {"env_set_var"}
-----------------------------------------------------------------------------
(***************************************************************************)
(* Statements: s is the state before statement st.  The fields of unions   *)
(* inside structs, which count as union fields too, are left out.          *)
(***************************************************************************)
IsUnionFieldPlace(p) == Ty(p.local).union /\ p.field # NoField

\* (mutant) A mismatch is no reason to speak of the wrong field.
UnionReadAnyField(s, p) == IF At(s, "active_variant", p.local) # Absent THEN {} ELSE {"union_field"}

\* A read of the field written last is passed over.
UnionRead(s, p) ==
  LET active == IF SimpleField(p) = NoField THEN Absent ELSE At(s, "active_variant", p.local) IN
  IF active = Absent THEN {"union_field"}
  ELSE IF active = SimpleField(p) THEN {} ELSE {"union_wrong_field"}

UnionField(s, st) ==
  (IF IsUnionFieldPlace(st.dst) THEN {"union_field"} ELSE {})
    \cup UNION {UnionRead(s, p) : p \in {q \in SourcePlace(st.rv) : st.rv.kind # "Cast" /\ IsUnionFieldPlace(q)}}

ConstStore(s, st) == st.dst = Place(st.dst.local, 1, NoField) /\ Holds(s, "const_ptr_cast", st.dst.local)

\* The first argument counts as the target of every listed call.
ConstWrite(s, t) ==
  LET ptr == FirstArgLocal(t.args) IN
  PathIs(t.func.fn, "write_through_first") /\ ptr # NoLocal /\ Holds(s, "const_ptr_cast", ptr)
=============================================================================
