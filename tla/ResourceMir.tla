---------------------------- MODULE ResourceMir -----------------------------
(***************************************************************************)
(* What programs with guards, MaybeUninit locals and file descriptors do   *)
(* when they run, and what the facts of a BlockState say of them.          *)
(*                                                                         *)
(* A guard is known by the call site that made it.  A store knows which    *)
(* guards each local holds and the fate of the youngest guard of a site;   *)
(* of each local the fields that are initialised; where a reference or     *)
(* pointer to a MaybeUninit points; the descriptor in each local, known by *)
(* the site that opened it, and the descriptors that have an owner; the    *)
(* field of a union that was written last; the pointers that were made     *)
(* from a *const; and whether a thread was started.                        *)
(***************************************************************************)
EXTENDS Protocols, MirBodies

CONSTANT FieldCount   \* fields of the struct inside a MaybeUninit

AllParts == 0..(FieldCount - 1)

ASSUME PartsAssumption == FieldCount \in Nat /\ AllParts \subseteq FieldIndex

ResourceStores ==
  [held : [Local -> SUBSET Blocks], fate : [Blocks -> {"none", "live", "dropped", "forgotten"}],
   parts : [Local -> SUBSET FieldIndex], target : [Local -> Local \cup {NoLocal}],
   fd : [Local -> SUBSET Blocks], owned : SUBSET Blocks,
   variant : [Local -> FieldIndex \cup {NoField}], frozen : SUBSET Local, spawned : BOOLEAN]

NoResources ==
  [held |-> [l \in Local |-> {}], fate |-> [b \in Blocks |-> "none"],
   parts |-> [l \in Local |-> {}], target |-> [l \in Local |-> NoLocal],
   fd |-> [l \in Local |-> {}], owned |-> {},
   variant |-> [l \in Local |-> NoField], frozen |-> {}, spawned |-> FALSE]

\* The guards in local l meet their fate.
Settle(m, l, f) ==
  [m EXCEPT !.fate = [b \in Blocks |-> IF b \in m.held[l] THEN f ELSE m.fate[b]],
            !.held[l] = {}]

\* An assignment to local dst makes it a `*mut T' that comes from a `*const T':
\* by a cast of one, or by a copy or a cast of such a `*mut T'.
BecomesFrozen(m, dst, rv) ==
  /\ IsRawPtr(dst) /\ Ty(dst).mutable
  /\ \/ RvalueLocal(rv) \in m.frozen
     \/ /\ rv.kind = "Cast" /\ rv.cast \in {"PtrToPtr", "Transmute"}
        /\ LET src == OperandLocal(rv.op) IN
             src \in m.frozen \/ (src \in Local /\ IsRawPtr(src) /\ ~Ty(src).mutable)

\* The constness of local dst is that of what it is assigned, and nothing is
\* known of the other things it holds.
Overwrite(m, dst, rv) ==
  [m EXCEPT !.variant[dst] = NoField,
            !.frozen = IF BecomesFrozen(m, dst, rv) THEN @ \cup {dst} ELSE @ \ {dst}]

RunResourceAssign(m, dst, rv) ==
  LET src == RvalueLocal(rv)
      n == Overwrite(m, dst, rv)
  IN CASE rv.kind = "Ref" -> [n EXCEPT !.target[dst] = rv.place.local]
       [] rv.kind = "Aggregate" -> [n EXCEPT !.variant[dst] = rv.active]
       [] src # NoLocal /\ IsMove(rv) ->
            [n EXCEPT !.variant[dst] = m.variant[src], !.held = [@ EXCEPT ![dst] = m.held[src], ![src] = {}],
                      !.parts[dst] = m.parts[src], !.target[dst] = m.target[src],
                      !.frozen = @ \ {src}]
       [] src # NoLocal /\ ~IsMove(rv) ->
            [n EXCEPT !.variant[dst] = m.variant[src], !.fd[dst] = m.fd[src]]
       [] OTHER -> n

RunResourceStatement(m, st) ==
  CASE IsPlain(st.dst) -> RunResourceAssign(m, st.dst.local, st.rv)
    [] st.dst.derefs = 0 /\ st.dst.field # NoField -> [m EXCEPT !.variant[st.dst.local] = st.dst.field]
    [] st.dst.derefs = 1 /\ st.dst.field # NoField -> [m EXCEPT !.parts[m.target[st.dst.local]] = @ \cup {st.dst.field}]
    [] OTHER -> m

ResourceStatements(m, data) == ForEach(RunResourceStatement, m, data.statements)

\* What the called function does with guards, MaybeUninits and descriptors.
CallResources(m, b, t) ==
  LET fn == t.func.fn
      dest == t.dest.local
      arg == FirstArgBaseLocal(t.args)
  IN CASE PathIs(fn, "epoch_pin") \/ PathIs(fn, "lock_acquire") ->
            [m EXCEPT !.held[dest] = {b}, !.fate[b] = "live"]
       [] PathIs(fn, "mem_forget") -> Settle(m, arg, "forgotten")
       [] PathIs(fn, "mem_drop") -> Settle(m, arg, "dropped")
       [] PathIs(fn, "uninit") -> [m EXCEPT !.parts[dest] = {}]
       [] PathIs(fn, "maybe_uninit_init") -> [m EXCEPT !.parts[dest] = AllParts]
       [] PathIs(fn, "maybe_uninit_write") /\ arg # NoLocal -> [m EXCEPT !.parts[m.target[arg]] = AllParts]
       [] PathIs(fn, "maybe_uninit_as_mut_ptr") /\ arg # NoLocal -> [m EXCEPT !.target[dest] = m.target[arg]]
       [] PathIs(fn, "open") \/ PathIs(fn, "into_raw_fd") ->
            [m EXCEPT !.fd[dest] = {b}, !.owned = @ \ {b}]
       [] PathIs(fn, "from_raw_fd") /\ arg # NoLocal -> [m EXCEPT !.owned = @ \cup m.fd[arg]]
       [] OTHER -> m

\* A call may start a thread, and its destination, if that is a local, holds a
\* value that nothing is known of.
RunResourceCall(m, b, t) ==
  LET dests == IF IsPlain(t.dest) THEN {t.dest.local} ELSE {} IN
  CallResources([m EXCEPT !.variant = [l \in Local |-> IF l \in dests THEN NoField ELSE m.variant[l]],
                          !.frozen = @ \ dests,
                          !.spawned = @ \/ PathIs(t.func.fn, "spawn")], b, t)

RunResourceBlock(data, m) ==
  LET n == ResourceStatements(m, data)
      t == data.term
      next == CASE t.kind = "Call" -> RunResourceCall(n, data.bb, t)
                [] t.kind = "Drop" -> Settle(n, t.place.local, "dropped")
                [] OTHER -> n
  IN IF t.kind \in Ends THEN {} ELSE {[to |-> c, store |-> next] : c \in Range(t.targets)}

\* The guards a local holds are among its protocols, and a guard that is
\* Active is alive.
GuardsDescribed(s, m) ==
  /\ \A l \in Local : m.held[l] \subseteq At(s, "local_proto", l)
  /\ \A b \in Blocks : m.fate[b] # "none" =>
       /\ At(s, "typestate", b) # Absent
       /\ At(s, "typestate", b) = "Active" => m.fate[b] = "live"

\* "Provably fully initialized on all reaching paths": every field is.
InitDescribed(s, m) ==
  \A l \in Local : At(s, "init", l) = "Initialized" => m.parts[l] = AllParts

ResourcesDescribed(s, m) == GuardsDescribed(s, m) /\ InitDescribed(s, m)
=============================================================================
