---------------------------- MODULE MCResources -----------------------------
(***************************************************************************)
(* Guards, MaybeUninit locals and descriptors against executions: programs *)
(* that take, move, drop and forget guards, initialise a two-field struct  *)
(* field by field, or give descriptors to owners, over a branch.           *)
(***************************************************************************)
EXTENDS Resources, SequencesExt

G == 1    \* guards
H == 2
U == 3    \* a MaybeUninit, a reference to it and a pointer into it
R == 4
P == 5
C == 6
K == 7    \* where a guard may be moved to
F == 8    \* descriptors
E == 9
Z == 10   \* unions
Y == 11
L == 12   \* *const T
M == 13   \* *mut T
O == 14

MCLocal == 0..14

MCTy(l) == CASE l \in {G, H, K} -> [Type("Adt", FALSE) EXCEPT !.guard = TRUE]
             [] l = R -> Type("Ref", TRUE) [] l = P -> [Type("RawPtr", TRUE) EXCEPT !.fields = FieldCount]
             [] l \in {F, E} -> Type("Int", FALSE)
             [] l \in {Z, Y} -> [Type("Adt", FALSE) EXCEPT !.union = TRUE]
             [] l = L -> Type("RawPtr", FALSE) [] l \in {M, O} -> Type("RawPtr", TRUE)
             [] OTHER -> Type("Adt", FALSE)

MCFields == {"typestate", "local_proto", "untracked_forget_seen", "init", "mu_raw_ptr",
             "mu_field_inits", "ref_base", "fd_origin", "fd_consumed",
             "active_variant", "const_ptr_cast", "thread_spawned"}

MCBlocks == 0..7

MCFnDefs == {"pin", "lock", "forget", "drop", "Shared::deref", "force_unlock", "uninit", "zeroed",
             "write", "as_mut_ptr", "assume_init", "open", "into_raw_fd", "from_raw_fd", "spawn",
             "set_var", "ptr_write", "fresh"}

MCObjIds == MCBlocks \cup {REALLOC_BASE + l : l \in MCLocal}

MCIs(fn) == CASE fn = "pin" -> {"epoch_pin"} [] fn = "lock" -> {"lock_acquire"}
              [] fn = "forget" -> {"mem_forget"} [] fn = "Shared::deref" -> {"shared_deref", "deref"}
              [] fn = "force_unlock" -> {"force_unlock"} [] fn = "uninit" -> {"uninit"}
              [] fn = "zeroed" -> {"maybe_uninit_init"} [] fn = "write" -> {"maybe_uninit_write"}
              [] fn = "as_mut_ptr" -> {"maybe_uninit_as_mut_ptr"} [] fn = "drop" -> {"mem_drop"}
              [] fn = "assume_init" -> {"assume_init", "assume_init_call"} [] fn = "open" -> {"open"}
              [] fn = "into_raw_fd" -> {"into_raw_fd"} [] fn = "from_raw_fd" -> {"from_raw_fd"}
              [] fn = "spawn" -> {"spawn"} [] fn = "set_var" -> {"env_mutation"}
              [] fn = "ptr_write" -> {"ptr_write_to_first_arg", "write_through_first"} [] fn = "fresh" -> {}

MCSummaries == [fn \in {} |-> NoSummary]

Set(l, rv) == Assign(Plain(l), rv)

Call(fn, args, dest, target) ==
  [kind |-> "Call", func |-> [fn |-> fn, local |-> NoLocal], args |-> args,
   dest |-> Plain(dest), targets |-> <<target>>, unwind |-> NoCleanup]

Branch(b, c) ==
  [kind |-> "SwitchInt", discr |-> Copy(Plain(C)), values |-> <<0>>, targets |-> <<b, c>>]

Drop(l, target) ==
  [kind |-> "Drop", place |-> Plain(l), targets |-> <<target>>, unwind |-> NoCleanup]

Goto(b) == [kind |-> "Goto", targets |-> <<b>>]

Data(b, sts, t) == [bb |-> b, statements |-> sts, term |-> t]

Return(b) == Data(b, <<>>, [kind |-> "Return"])

\* A body from its first blocks; the others return.
Body(ds) == [b \in Blocks |-> IF b + 1 \in DOMAIN ds THEN ds[b + 1] ELSE Return(b)]

Take(l, t) == IF l = G THEN Call("pin", <<>>, G, t) ELSE Call("lock", <<>>, H, t)

Settling(l, t) == {Drop(l, t), Call("forget", <<Move(Plain(l))>>, 0, t)}

Uses(t) == {Call("Shared::deref", <<>>, 0, t), Call("force_unlock", <<>>, 0, t)}

GuardBody(sts, settle, again, last, use) ==
  Body(<<Data(0, <<>>, Take(G, 1)), Data(1, <<>>, Take(H, 2)), Data(2, sts, Branch(3, 5)),
         Data(3, <<>>, settle), Data(4, <<>>, again), Data(5, <<>>, last), Data(6, <<>>, use)>>)

\* Both guards are taken, and one is perhaps moved.  On a branch, a guard is
\* dropped or forgotten and taken again or not, perhaps in a loop; after it,
\* a guard that is held on either path is dropped or forgotten; then the
\* guards are relied on.
GuardPrograms ==
  {GuardBody(<<>>, settle, again, last, use) :
     settle \in Settling(G, 4), again \in {Goto(5), Take(G, 2), Take(G, 5)},
     last \in {Goto(6)} \cup Settling(H, 6), use \in Uses(7)}
    \cup {GuardBody(<<Set(K, Use(Move(Plain(G))))>>, settle, again, last, use) :
            settle \in Settling(K, 4), again \in {Goto(5), Take(G, 2)},
            last \in {Goto(6)} \cup Settling(H, 6), use \in Uses(7)}
    \cup {GuardBody(sts, settle, again, last, use) :
            sts \in {<<>>, <<Set(K, Use(Move(Plain(G)))), Set(G, Use(Move(Plain(K))))>>},
            settle \in Settling(H, 4), again \in {Take(H, 2), Take(H, 5)},
            last \in {Goto(6)} \cup Settling(G, 6) \cup Settling(H, 6), use \in Uses(7)}

\* G is dropped and taken anew on the branch, and forgotten after it.
RetakenPrograms ==
  {GuardBody(<<>>, Drop(G, 4), Take(G, 5), Call("forget", <<Move(Plain(G))>>, 0, 6),
             Call("Shared::deref", <<>>, 0, 7))}

\* An epoch guard is forgotten, and no lock guard is.
ForgottenPinPrograms ==
  {Body(<<Data(0, <<>>, Take(G, 1)), Data(1, <<>>, Take(H, 2)),
          Data(2, <<>>, Call("forget", <<Move(Plain(G))>>, 0, 3)),
          Data(3, <<>>, Call("force_unlock", <<>>, 0, 4))>>)}

Fill(f) == Assign(Place(P, 1, f), Use(Const(1)))

Filling(parts) == SetToSeq({Fill(f) : f \in parts})

FillBody(before, branch, after, back) ==
  Body(<<Data(0, <<>>, Call("uninit", <<>>, U, 1)),
         Data(1, <<Set(R, Ref(Plain(U)))>>, Call("as_mut_ptr", <<Move(Plain(R))>>, P, 2)),
         Data(2, Filling(before), Branch(3, 4)), Data(3, Filling(branch), Goto(back)),
         Data(4, Filling(after), Goto(5)), Data(5, <<>>, Call("assume_init", <<Move(Plain(U))>>, 0, 6))>>)

\* The two sides of the branch fill fields of their own.
ForkBody(left, right, after) ==
  Body(<<Data(0, <<>>, Call("uninit", <<>>, U, 1)),
         Data(1, <<Set(R, Ref(Plain(U)))>>, Call("as_mut_ptr", <<Move(Plain(R))>>, P, 2)),
         Data(2, <<>>, Branch(3, 6)), Data(3, Filling(left), Goto(4)),
         Data(4, Filling(after), Goto(5)), Data(5, <<>>, Call("assume_init", <<Move(Plain(U))>>, 0, 7)),
         Data(6, Filling(right), Goto(4))>>)

\* U starts uninitialised and is filled through a pointer before, on and after
\* a branch, but is not complete on one side only of where paths meet.
FillPrograms ==
  {FillBody(before, branch, after, 2) :
     before \in {{}, {0}}, branch \in {{}, {0}}, after \in SUBSET AllParts}
    \cup {FillBody(before, branch, after, 4) :
            before \in {{}, {1}}, branch \in {{}, {1}}, after \in SUBSET AllParts}
    \cup {FillBody({}, {f}, after, back) :
            f \in AllParts, after \in SUBSET AllParts, back \in {2, 4}}
    \cup {FillBody(AllParts, branch, after, 4) :
            branch \in SUBSET AllParts, after \in SUBSET AllParts}
    \cup {ForkBody(left, right, after) :
            left \in {{0}, {1}}, right \in {{0}, {1}}, after \in SUBSET AllParts}

Own(l, t) == Call("from_raw_fd", <<Copy(Plain(l))>>, G, t)

FdBody(fn, first, copy, second) ==
  Body(<<Data(0, <<>>, Call(fn, <<>>, F, 1)), Data(1, <<>>, Branch(2, 4)),
         Data(2, <<>>, first), Data(3, <<>>, Goto(4)), Data(4, copy, second),
         Data(5, <<>>, Own(F, 6))>>)

CopyFd == <<Set(E, Use(Copy(Plain(F))))>>

\* A descriptor gets an owner on a branch, perhaps in a loop or opened anew,
\* is perhaps copied, and gets an owner after it.
FdPrograms ==
  {FdBody("open", first, copy, second) :
     first \in {Own(F, 3), Own(F, 1), Call("open", <<>>, F, 3), Goto(3)}, copy \in {<<>>, CopyFd},
     second \in {Own(F, 5), Own(E, 7), Goto(5), Branch(5, 6)}}

Variant(l, f) == Assign(Place(l, 0, f), Use(Const(1)))

ReadField(l, f) == {Set(C, Use(Copy(Place(l, 0, f)))), Set(R, Ref(Place(l, 0, f)))}

\* A union is built, written on a branch, perhaps copied and written again,
\* and then one field of it or of the copy is read.
UnionPrograms ==
  {Body(<<Data(0, <<Set(Z, Aggregate("Adt", 0, <<Const(1)>>))>>, Branch(1, 2)),
          Data(1, <<Variant(Z, f)>>, Goto(back)), Data(2, copy, Goto(3)),
          Data(3, <<read>>, Goto(4))>>) :
     f \in AllParts, back \in {0, 2},
     copy \in {<<>>, <<Set(Y, Use(Copy(Plain(Z))))>>, <<Set(Y, Use(Copy(Plain(Z)))), Variant(Z, 1)>>,
              <<Variant(Z, 1), Set(Y, Use(Move(Plain(Z))))>>},
     read \in UNION {ReadField(l, g) : l \in {Z, Y}, g \in AllParts}}

\* A union that was built, and then assigned the result of a call, is read.
UnionCallPrograms ==
  {Body(<<Data(0, <<Set(Z, Aggregate("Adt", 0, <<Const(1)>>))>>, Call("fresh", <<>>, Z, 1)),
          Data(1, <<read>>, Goto(4))>>) : read \in UNION {ReadField(Z, g) : g \in AllParts}}

\* A pointer to mutable memory comes from a *const on some paths, directly or
\* through copies and casts, and is written through.
ConstPrograms ==
  {Body(<<Data(0, <<first>>, Branch(1, 2)), Data(1, <<other>>, on), Data(2, then, Goto(3)),
          Data(3, use.statements, use.term)>>) :
     first \in {Set(M, Cast("PtrToPtr", Copy(Plain(L)))), Set(M, Use(Copy(Plain(O))))},
     other \in {Set(M, Use(Copy(Plain(O)))), Set(M, Cast("PtrToPtr", Copy(Plain(L)))), Set(O, Use(Copy(Plain(M))))},
     on \in {Goto(0), Goto(2), Call("fresh", <<>>, M, 2)},
     then \in {<<>>, <<Set(O, Cast("PtrToPtr", Copy(Plain(M))))>>, <<Set(O, Use(Move(Plain(M))))>>},
     use \in {[statements |-> <<Assign(Place(l, 1, NoField), Use(Const(1)))>>, term |-> Goto(4)] : l \in {M, O}}
             \cup {[statements |-> <<>>, term |-> Call("ptr_write", <<Copy(Plain(l))>>, C, 4)] : l \in {M, O}}}

\* Threads are started and the environment is changed over a branch and a loop.
SpawnPrograms ==
  {Body(<<Data(0, <<>>, a), Data(1, <<>>, Branch(2, 3)), Data(2, <<>>, b), Data(3, <<>>, c),
          Data(4, <<>>, Branch(1, 5)), Data(5, <<>>, Call("set_var", <<>>, C, 6))>>) :
     a \in {Call("set_var", <<>>, C, 1), Call("spawn", <<>>, C, 1)},
     b \in {Goto(3), Call("spawn", <<>>, C, 3), Call("spawn", <<>>, C, 4), Call("set_var", <<>>, C, 4)},
     c \in {Call("set_var", <<>>, C, 4), Call("spawn", <<>>, C, 5)}}

\* The programs with guards, with a MaybeUninit, with descriptors, with unions,
\* with pointers to constants and with threads.
ResourcePrograms ==
  GuardPrograms \cup FillPrograms \cup FdPrograms \cup UnionPrograms \cup ConstPrograms \cup SpawnPrograms

\* These programs are what the theorems of ResourceProofs are about.
ASSUME ProgramsRegular ==
  \A b \in ResourcePrograms, c \in Blocks : SidesDiffer(b[c]) /\ SpawnsIntoLocal(b[c])

\* The descriptor was released by its owner, and gets two.
TransferredPrograms == {FdBody("into_raw_fd", Own(F, 3), <<>>, Goto(5))}

\* U is written on one branch only.
OneSidedPrograms ==
  {Body(<<Data(0, <<>>, Call("uninit", <<>>, U, 1)), Data(1, <<>>, Branch(2, 3)),
          Data(2, <<Set(R, Ref(Plain(U)))>>, Call("write", <<Move(Plain(R))>>, P, 3))>>)}

\* The guard is handed to mem::drop, and then relied on.
DropCallPrograms ==
  {Body(<<Data(0, <<>>, Take(G, 1)), Data(1, <<>>, Call("drop", <<Move(Plain(G))>>, 0, 2)),
          Data(2, <<>>, Call("Shared::deref", <<>>, 0, 3))>>)}

\* The handle of the thread is stored in a field.
StoredHandlePrograms ==
  {Body(<<Data(0, <<>>, [Call("spawn", <<>>, C, 1) EXCEPT !.dest = Place(C, 0, 0)]),
          Data(1, <<>>, Call("set_var", <<>>, C, 2))>>)}
=============================================================================
