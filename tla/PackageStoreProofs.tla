------------------------- MODULE PackageStoreProofs -------------------------
(***************************************************************************)
(* Theorems about PackageStore, for any packages, versions, contents and   *)
(* processes.  No failure and no crash loses the last whole copy of a      *)
(* selected version (ActiveSurvives): StoreInv, the inductive invariant,   *)
(* says what the holder of the lock guarantees at each of its steps.  Then *)
(* the published index: closed under requirements, each selected package   *)
(* with an order of its own, and changed only by the atomic commits of     *)
(* PackageSelection (TraceInv).  Last the rollback: what it has to undo is *)
(* in its records (RevertInv).                                             *)
(***************************************************************************)
EXTENDS PackageStore, FiniteSetTheorems, WellFoundedInduction, TLAPS

-----------------------------------------------------------------------------
(* Registration orders: the maximum of a finite set of numbers. *)

\* A non-empty finite set of integers has a greatest element, which Max picks.
LEMMA MaxOfFinite ==
  ASSUME NEW S, S \subseteq Int, S # {}, IsFiniteSet(S)
  PROVE  Max(S) \in S /\ \A x \in S : x <= Max(S)
<1> DEFINE HasMax(U) == \E m \in U : \A x \in U : x <= m
           Bad == {U \in SUBSET S : U # {} /\ ~HasMax(U)}
<1>1. Bad = {}
  <2> SUFFICES ASSUME Bad # {} PROVE FALSE
    OBVIOUS
  <2>1. IsWellFoundedOn(StrictSubsetOrdering(S), SUBSET S)
    BY FS_StrictSubsetOrderingWellFounded, FS_FiniteSubsetsOfFinite
  <2>2. PICK U \in Bad : \A V \in Bad : ~(<<V, U>> \in StrictSubsetOrdering(S))
    <3>1. Bad \subseteq SUBSET S
      OBVIOUS
    <3> HIDE DEF Bad
    <3> QED BY <2>1, <3>1, WFMin
  <2>3. PICK y \in U : TRUE
    OBVIOUS
  <2>4. U \ {y} \notin Bad
    BY <2>2, <2>3 DEF StrictSubsetOrdering
  <2>5. CASE U \ {y} = {}
    <3>1. \A x \in U : x <= y
      BY <2>5, <2>3
    <3> QED BY <3>1, <2>3
  <2>6. CASE HasMax(U \ {y})
    <3>1. PICK m \in U \ {y} : \A x \in U \ {y} : x <= m
      BY <2>6
    <3>2. m \in Int /\ y \in Int /\ U \subseteq Int
      BY <2>3
    <3>3. CASE y <= m
      <4>1. \A x \in U : x <= m
        BY <3>1, <3>3
      <4> QED BY <4>1, <3>1
    <3>4. CASE ~(y <= m)
      <4>1. \A x \in U : x <= y
        BY <3>1, <3>2, <3>4
      <4> QED BY <4>1, <2>3
    <3> QED BY <3>3, <3>4
  <2> QED BY <2>4, <2>5, <2>6
<1>2. HasMax(S)
  BY <1>1
<1>3. \E m \in S : \A x \in S : m >= x
  BY <1>2
<1> QED BY <1>3 DEF Max

\* The orders of a selection and the sidecars in sight form a finite set.
LEMMA FiniteImage ==
  ASSUME NEW S, IsFiniteSet(S), NEW f, NEW T \in SUBSET S
  PROVE  IsFiniteSet({f[x] : x \in T})
<1> DEFINE R == {f[x] : x \in T}
           g == [x \in T |-> f[x]]
<1>1. g \in Surjection(T, R)
  BY DEF Surjection
<1>2. IsFiniteSet(T)
  BY FS_Subset
<1> QED BY <1>1, <1>2, FS_Surjection

LEMMA SlotFinite == IsFiniteSet(Slot)
BY FS_Product, PkgAssumption, VerAssumption DEF Slot

LEMMA RetainedType ==
  ASSUME NEW o \in Operation, prov \in [Slot -> Nat]
  PROVE  Retained(o) \in Nat
<1> DEFINE T == {t \in Slot : tree[t] # Absent}
           S == {0} \cup {prov[s] : s \in T}
<1>1. o.retained \in Int
  BY DEF Operation
<1>2. IsFiniteSet({prov[s] : s \in T})
  BY SlotFinite, FiniteImage, T \in SUBSET Slot
<1>3. IsFiniteSet(S)
  BY <1>2, FS_Singleton, FS_Union
<1>4. S \subseteq Nat /\ S # {}
  OBVIOUS
<1>5. Max(S) \in S
  BY <1>3, <1>4, MaxOfFinite
<1> QED BY <1>1, <1>4, <1>5 DEF Retained

\* A new registration order exceeds every order of the private selection.
LEMMA NextOrderAbove ==
  ASSUME NEW o \in Operation, prov \in [Slot -> Nat]
  PROVE  NextOrder(o) \in Nat /\ \A q \in Pkg : o.idx[q].order < NextOrder(o)
<1> DEFINE f == [q \in Pkg |-> o.idx[q].order]
           S == {Retained(o)} \cup {o.idx[q].order : q \in Pkg}
<1>1. o.idx \in [Pkg -> Selection]
  BY DEF Operation
<1>2. \A q \in Pkg : o.idx[q].order \in Nat
  BY <1>1 DEF Selection, NoSel
<1>3. {f[q] : q \in Pkg} = {o.idx[q].order : q \in Pkg}
  OBVIOUS
<1>4. IsFiniteSet({f[q] : q \in Pkg})
  BY FiniteImage, PkgAssumption
<1>5. IsFiniteSet(S)
  BY <1>3, <1>4, FS_Singleton, FS_Union
<1>6. S \subseteq Nat /\ S # {}
  BY <1>2, RetainedType
<1>7. NextOrder(o) = Max(S) + 1
  BY DEF NextOrder
<1>8. \A q \in Pkg : o.idx[q].order \in S
  OBVIOUS
<1> HIDE DEF S
<1>9. Max(S) \in Nat /\ \A x \in S : x <= Max(S)
  <2>1. S \subseteq Int
    BY <1>6
  <2>2. Max(S) \in S /\ \A x \in S : x <= Max(S)
    BY <1>5, <1>6, <2>1, MaxOfFinite
  <2> QED BY <1>6, <2>2
<1> QED BY <1>2, <1>7, <1>8, <1>9

-----------------------------------------------------------------------------
(* Type correctness. *)

LEMMA IdleType == Idle \in Operation
<1>0. \E s \in Slot : TRUE
  <2>1. PICK q \in Pkg, v \in Ver : TRUE
    BY PkgAssumption, VerAssumption
  <2>2. <<q, v>> \in Slot
    BY DEF Slot
  <2> QED BY <2>2
<1>1. SomeSlot \in Slot
  BY <1>0 DEF SomeSlot
<1>2. <<SomeSlot[1], 0>> \in TombKey
  BY <1>1 DEF Slot, TombKey
<1>3. Blank.index \in [Pkg -> Selection] /\ Blank.prov \in [Slot -> Nat]
      /\ Blank.tree \in [Slot -> Tree]
  BY DEF Blank, NoSel, Selection, Tree
<1>4. <<>> \in Seq(Frame)
  OBVIOUS
<1> QED BY <1>1, <1>2, <1>3, <1>4 DEF Idle, Operation, Pcs, Kinds, Tree, Blank

LEMMA AdoptType ==
  ASSUME NEW o \in Operation, prov \in [Slot -> Nat], NEW s \in Slot, NEW e \in BOOLEAN
  PROVE  Adopt(o, s, e) \in Operation
<1>1. NextOrder(o) \in Nat /\ Retained(o) \in Int
  BY NextOrderAbove, RetainedType
<1>2. s[1] \in Pkg /\ s[2] \in Ver
  BY DEF Slot
<1>3. [o.idx EXCEPT ![s[1]] = [ver |-> s[2], edit |-> e, order |-> NextOrder(o)]]
        \in [Pkg -> Selection]
  BY <1>1, <1>2 DEF Operation, Selection
<1> QED BY <1>1, <1>3 DEF Adopt, Operation

LEMMA TopType ==
  ASSUME NEW o \in Operation, o.frames # <<>>
  PROVE  /\ Top(o) \in Frame
         /\ Len(o.frames) \in Nat \ {0}
         /\ \A i \in 1..Len(o.frames) : o.frames[i] \in Frame
BY DEF Operation, Top

Walking == {"resolve", "swap", "record", "activate"}

\* Replacing one process's memory by a well-typed one keeps all of it well-typed.
LEMMA MemoryUpdate ==
  ASSUME MemoryOK, NEW p \in Proc, NEW n \in Operation, op' = [op EXCEPT ![p] = n],
         n.pc \in Walking => n.frames # <<>>
  PROVE  MemoryOK'
BY DEF MemoryOK, Walking

LEMMA ReleaseType ==
  ASSUME MemoryOK, NEW p \in Proc, Release(p)
  PROVE  lock' = NoProc /\ MemoryOK'
<1>1. Idle.pc \notin Walking
  BY DEF Idle, Walking
<1> QED BY <1>1, IdleType, MemoryUpdate DEF Release

LEMMA InitType == Init => TypeOK
<1> SUFFICES ASSUME Init PROVE TypeOK
  OBVIOUS
<1>1. Blank.index \in [Pkg -> Selection] /\ Blank.prov \in [Slot -> Nat]
      /\ Blank.tree \in [Slot -> Tree]
  BY DEF Blank, NoSel, Selection, Tree
<1>2. NoTomb \in Tomb
  BY DEF NoTomb, Tomb, Tree
<1>3. Idle.pc = "idle"
  BY DEF Idle
<1> QED BY <1>1, <1>2, <1>3, IdleType DEF Init, TypeOK, MemoryOK

LEMMA BeginType ==
  ASSUME TypeOK, NEW p \in Proc, NEW o \in Operation, Begin(p, o)
  PROVE  TypeOK'
<1> DEFINE n == [o EXCEPT !.pc = "load"]
<1>1. n \in Operation /\ n.pc \notin Walking
  BY ZenonT(60) DEF Operation, Pcs, Walking
<1>2. MemoryOK'
  BY <1>1, MemoryUpdate DEF Begin, TypeOK
<1> QED BY <1>2 DEF TypeOK, Begin, disk

LEMMA StartType ==
  ASSUME TypeOK, NEW p \in Proc, Start(p)
  PROVE  TypeOK'
<1>1. CASE BeginInstall(p)
  <2>1. PICK s \in Offered, r \in Rev, edit, reinstall \in BOOLEAN :
          Begin(p, [Idle EXCEPT !.kind = "install", !.slot = s, !.rev = r, !.edit = edit,
                                !.reinstall = reinstall])
    BY <1>1 DEF BeginInstall
  <2>2. [Idle EXCEPT !.kind = "install", !.slot = s, !.rev = r, !.edit = edit,
                     !.reinstall = reinstall] \in Operation
    BY IdleType, OfferedAssumption DEF Operation, Kinds
  <2> QED BY <2>1, <2>2, BeginType
<1>2. CASE BeginSwitch(p)
  <2>1. PICK s \in Offered : Begin(p, [Idle EXCEPT !.kind = "switch", !.slot = s])
    BY <1>2 DEF BeginSwitch
  <2>2. [Idle EXCEPT !.kind = "switch", !.slot = s] \in Operation
    BY IdleType, OfferedAssumption DEF Operation, Kinds
  <2> QED BY <2>1, <2>2, BeginType
<1>3. CASE BeginUninstall(p)
  <2> DEFINE target(s, exact) == IF exact \/ index[s[1]].ver = 0 THEN s ELSE SlotOf(index, s[1])
  <2>1. PICK s \in Offered, exact \in BOOLEAN :
          Begin(p, [Idle EXCEPT !.kind = "uninstall", !.slot = target(s, exact), !.exact = exact])
    BY <1>3 DEF BeginUninstall
  <2>2. target(s, exact) \in Slot
    BY OfferedAssumption DEF TypeOK, Slot, SlotOf, Selection, NoSel
  <2>3. [Idle EXCEPT !.kind = "uninstall", !.slot = target(s, exact), !.exact = exact]
          \in Operation
    BY ZenonT(60), IdleType, <2>2 DEF Operation, Kinds
  <2> QED BY <2>1, <2>3, BeginType
<1> QED BY <1>1, <1>2, <1>3 DEF Start

\* The steps of an install or a switch up to its last rename.
LEMMA ResolveType ==
  ASSUME TypeOK, NEW p \in Proc,
         \/ LoadInstall(p) \/ LoadSwitch(p) \/ Satisfy(p) \/ Activate(p)
         \/ \E q \in Pkg : Need(p, q)
  PROVE  TypeOK'
<1> DEFINE o == op[p]
<1>0. o \in Operation /\ (o.pc \in Walking => o.frames # <<>>)
  BY DEF TypeOK, MemoryOK, Walking
<1> SUFFICES MemoryOK' /\ UNCHANGED <<disk, lock>>
  BY DEF TypeOK, disk
<1>1. CASE LoadInstall(p)
  <2> DEFINE f == [slot |-> o.slot, edit |-> o.edit, fresh |-> TRUE, todo |-> Requires(o.slot)]
             n == [Loaded(o) EXCEPT !.pc = "resolve", !.frames = <<f>>]
  <2>1. f \in Frame
    BY <1>0 DEF Frame, Operation, Requires
  <2>2. <<f>> \in Seq(Frame) /\ <<f>> # <<>>
    BY <2>1
  <2> HIDE DEF f
  <2>3. n \in Operation /\ n.frames # <<>>
    BY ZenonT(60), <1>0, <2>2 DEF Loaded, Operation, Pcs, TypeOK
  <2>4. op' = [op EXCEPT ![p] = n]
    BY <1>1 DEF LoadInstall, f
  <2> QED BY <1>1, <2>3, <2>4, MemoryUpdate DEF LoadInstall, TypeOK
<1>2. CASE LoadSwitch(p)
  <2> DEFINE n == [Adopt(Loaded(o), o.slot, FALSE) EXCEPT !.pc = "prepare"]
  <2>1. Loaded(o) \in Operation
    BY <1>0 DEF Loaded, Operation, TypeOK
  <2>2. Adopt(Loaded(o), o.slot, FALSE) \in Operation
    BY <1>0, <2>1, AdoptType DEF TypeOK, Operation
  <2>3. n \in Operation /\ n.pc \notin Walking
    BY ZenonT(60), <2>2 DEF Operation, Pcs, Walking
  <2>4. op' = [op EXCEPT ![p] = n]
    BY <1>2 DEF LoadSwitch
  <2> HIDE DEF n
  <2> QED BY <1>2, <2>3, <2>4, MemoryUpdate DEF LoadSwitch, TypeOK
<1>3. ASSUME NEW q \in Pkg, Need(p, q)
      PROVE  MemoryOK' /\ UNCHANGED <<disk, lock>>
  <2>1. o.frames # <<>> /\ Top(o) \in Frame
    BY <1>0, <1>3, TopType DEF Need, At, Walking
  <2>2. PICK f \in Frame : Push(p, f)
    <3> DEFINE least == Dep[Top(o).slot][q]
               source == Path[Top(o).slot][q]
    <3>1. \A s \in Slot, e \in BOOLEAN : Walk(o, s, e) \in SUBSET Pkg /\ Requires(s) \in SUBSET Pkg
      BY DEF Walk, Requires
    <3>2. Candidates(q, least) # {} => Max(Candidates(q, least)) \in Ver
      <4>1. Candidates(q, least) \in SUBSET Ver
        BY DEF Candidates
      <4>2. IsFiniteSet(Ver) /\ Ver \subseteq Int
        BY VerAssumption
      <4>3. IsFiniteSet(Candidates(q, least)) /\ Candidates(q, least) \subseteq Int
        BY <4>1, <4>2, FS_Subset
      <4> QED BY <4>1, <4>3, MaxOfFinite
    <3>3. o.idx[q].edit => SlotOf(o.idx, q) \in Slot
      BY <1>0 DEF Operation, Selection, NoSel, SlotOf, Slot
    <3>4. source # 0 => <<q, source>> \in Slot
      BY <2>1, DepAssumption DEF Frame, Slot
    <3> QED BY <1>3, <3>1, <3>2, <3>3, <3>4 DEF Need, Frame, Slot
  <2> DEFINE n == [o EXCEPT !.frames = Append(o.frames, f)]
  <2>3. Append(o.frames, f) \in Seq(Frame) /\ Append(o.frames, f) # <<>>
    <3>1. o.frames \in Seq(Frame)
      BY <1>0 DEF Operation
    <3> QED BY <3>1, <2>2
  <2>4. n \in Operation /\ n.frames # <<>>
    BY <1>0, <2>3 DEF Operation
  <2>5. op' = [op EXCEPT ![p] = n] /\ UNCHANGED <<disk, lock>>
    BY <2>2 DEF Push
  <2> QED BY <2>4, <2>5, MemoryUpdate DEF TypeOK
<1>4. CASE Satisfy(p)
  <2> DEFINE k == Len(o.frames) - 1
             f == Top(o)
             q == f.slot[1]
             below == [Below(o) EXCEPT ![k].todo = @ \ {q}]
             popped == [o EXCEPT !.resolved = @ \cup {<<f.slot, f.edit>>}, !.frames = below]
  <2>1. o.frames \in Seq(Frame) /\ Len(o.frames) > 1 /\ f \in Frame
    BY <1>0, <1>4, TopType DEF Satisfy, At, Walking, Operation
  <2>2. Below(o) \in Seq(Frame) /\ Len(Below(o)) = k /\ k \in 1..k
    BY <2>1 DEF Below
  <2>3. Below(o)[k] \in Frame
    BY <2>2
  <2>4. [Below(o)[k] EXCEPT !.todo = @ \ {q}] \in Frame
    BY <2>3 DEF Frame
  <2>5. below \in Seq(Frame) /\ below # <<>>
    BY <2>2, <2>4
  <2>6. popped \in Operation /\ popped.frames # <<>>
    <3>1. <<f.slot, f.edit>> \in Slot \X BOOLEAN
      BY <2>1 DEF Frame
    <3> HIDE DEF below, f
    <3> QED BY <1>0, <2>5, <3>1 DEF Operation
  <2>7. Adopt(popped, f.slot, FALSE) \in Operation
        /\ Adopt(popped, f.slot, FALSE).frames # <<>>
    <3>1. f.slot \in Slot
      BY <2>1 DEF Frame
    <3>2. Adopt(popped, f.slot, FALSE) \in Operation
      BY <2>6, <3>1, AdoptType DEF TypeOK
    <3> HIDE DEF popped
    <3> QED BY <2>6, <3>2 DEF Adopt, Operation
  <2>8. UNCHANGED <<disk, lock>>
        /\ \/ op' = [op EXCEPT ![p] = popped]
           \/ op' = [op EXCEPT ![p] = Adopt(popped, f.slot, FALSE)]
    BY <1>4 DEF Satisfy
  <2> HIDE DEF popped, f
  <2> QED BY <2>6, <2>7, <2>8, MemoryUpdate DEF TypeOK
<1>5. CASE Activate(p)
  <2> DEFINE top == Top(o)
             a == Adopt(o, top.slot, top.edit)
             stored == [top EXCEPT !.fresh = FALSE, !.todo = Requires(top.slot)]
             last == [a EXCEPT !.pc = "prepare"]
             more == [a EXCEPT !.pc = "resolve", !.frames = Append(Below(a), stored)]
  <2>1. o.frames # <<>>
    BY <1>0, <1>5 DEF Activate, At, Walking
  <2>2. top \in Frame
    BY <1>0, <2>1, TopType
  <2>3. a \in Operation
    BY <1>0, <2>2, AdoptType DEF TypeOK, Frame
  <2>4. last \in Operation /\ last.pc \notin Walking
    BY ZenonT(60), <2>3 DEF Operation, Pcs, Walking
  <2>5. more \in Operation /\ more.frames # <<>>
    <3>1. stored \in Frame
      BY <2>2 DEF Frame, Requires
    <3>2. Below(a) \in Seq(Frame)
      <4>1. a.frames \in Seq(Frame)
        BY <2>3 DEF Operation
      <4> QED BY <4>1 DEF Below
    <3>3. Append(Below(a), stored) \in Seq(Frame) /\ Append(Below(a), stored) # <<>>
      BY <3>1, <3>2
    <3> HIDE DEF a, stored
    <3> QED BY <2>3, <3>3 DEF Operation, Pcs
  <2>6. op' = [op EXCEPT ![p] = last] \/ op' = [op EXCEPT ![p] = more]
    BY <1>5 DEF Activate
  <2>7. UNCHANGED <<disk, lock>>
    BY <1>5 DEF Activate
  <2> HIDE DEF last, more
  <2> QED BY <2>4, <2>5, <2>6, <2>7, MemoryUpdate DEF TypeOK
<1> QED BY <1>1, <1>2, <1>3, <1>4, <1>5

\* Renames, the commit, and what an uninstall or a rollback does to the disk.
LEMMA DiskType ==
  ASSUME TypeOK, NEW p \in Proc,
         \/ PublishNew(p) \/ Displace(p) \/ PublishNothing(p)
         \/ Swap(p) \/ SwapFails(p) \/ Record(p)
         \/ Prepare(p) \/ WriteIndex(p) \/ ConcludeInstall(p)
         \/ UndoReplace(p) \/ Restore(p) \/ RolledBack(p) \/ Crash(p) \/ Interrupt(p)
         \/ \E q \in Pkg : WriteSidecar(p, q)
         \/ \E s \in Slot : Discard(p, s)
  PROVE  TypeOK'
<1> DEFINE o == op[p]
<1>0. /\ o \in Operation /\ (o.pc \in Walking => o.frames # <<>>)
      /\ MemoryOK /\ o.slot \in Slot /\ o.prev \in Tree /\ o.rev \in Tree
  BY DEF TypeOK, MemoryOK, Walking, Operation, Tree
<1>1. CASE PublishNew(p)
  <2> DEFINE n == [o EXCEPT !.pc = "record"]
  <2>1. n \in Operation /\ n.frames # <<>> /\ op' = [op EXCEPT ![p] = n]
    BY ZenonT(60), <1>0, <1>1 DEF PublishNew, ReadyToPublish, At, Operation, Pcs, Walking
  <2>2. tree' \in [Slot -> Tree]
    BY <1>0, <1>1 DEF PublishNew, TypeOK
  <2> QED BY <1>0, <1>1, <2>1, <2>2, MemoryUpdate DEF PublishNew, TypeOK
<1>2. CASE Displace(p)
  <2> DEFINE n == [o EXCEPT !.pc = "swap", !.prev = tree[o.slot]]
  <2>1. n \in Operation /\ n.frames # <<>> /\ op' = [op EXCEPT ![p] = n]
    <3>1. o.frames # <<>> /\ op' = [op EXCEPT ![p] = n]
      BY <1>0, <1>2 DEF Displace, ReadyToPublish, At, Walking
    <3>2. tree[o.slot] \in Tree
      BY <1>0 DEF TypeOK
    <3>3. n \in Operation /\ n.frames = o.frames
      BY <1>0, <3>2 DEF Operation, Pcs
    <3> QED BY <3>1, <3>3
  <2>2. tree' \in [Slot -> Tree]
    BY <1>0, <1>2 DEF Displace, TypeOK, Tree
  <2> QED BY <1>0, <1>2, <2>1, <2>2, MemoryUpdate DEF Displace, TypeOK
<1>3. CASE PublishNothing(p)
  <2> DEFINE n == [o EXCEPT !.pc = "activate"]
  <2>1. n \in Operation /\ n.frames # <<>> /\ op' = [op EXCEPT ![p] = n]
    BY ZenonT(60), <1>0, <1>3 DEF PublishNothing, ReadyToPublish, At, Operation, Pcs, Walking
  <2> QED BY <1>0, <1>3, <2>1, MemoryUpdate DEF PublishNothing, TypeOK, disk
<1>4. CASE Swap(p)
  <2> DEFINE n == [o EXCEPT !.pc = "record"]
  <2>1. n \in Operation /\ n.frames # <<>> /\ op' = [op EXCEPT ![p] = n]
    BY <1>0, <1>4 DEF Swap, At, Operation, Pcs, Walking
  <2>2. tree' \in [Slot -> Tree]
    BY <1>0, <1>4 DEF Swap, TypeOK
  <2> QED BY <1>0, <1>4, <2>1, <2>2, MemoryUpdate DEF Swap, TypeOK
<1>5. CASE SwapFails(p)
  <2> DEFINE n == [o EXCEPT !.pc = "rollback", !.prev = Absent]
  <2>1. n \in Operation /\ n.pc \notin Walking /\ op' = [op EXCEPT ![p] = n]
    BY ZenonT(60), <1>0, <1>5 DEF SwapFails, Operation, Pcs, Walking, Tree
  <2>2. tree' \in [Slot -> Tree]
    BY <1>0, <1>5 DEF SwapFails, TypeOK
  <2> QED BY <1>0, <1>5, <2>1, <2>2, MemoryUpdate DEF SwapFails, TypeOK
<1>6. CASE Record(p)
  <2> DEFINE n == IF o.prev = Absent
                  THEN [o EXCEPT !.pc = "activate", !.created = @ \cup {Top(o).slot}]
                  ELSE [o EXCEPT !.pc = "activate", !.saved = TRUE]
  <2>1. o.frames # <<>> /\ Top(o).slot \in Slot
    BY <1>0, <1>6, TopType DEF Record, At, Walking, Frame
  <2>2. n \in Operation /\ n.frames # <<>>
    <3>1. CASE o.prev = Absent
      <4> DEFINE c == [o EXCEPT !.pc = "activate", !.created = @ \cup {Top(o).slot}]
      <4>1. o.created \cup {Top(o).slot} \in SUBSET Slot
        BY <1>0, <2>1 DEF Operation
      <4>2. c \in Operation /\ c.frames = o.frames
        BY ZenonT(60), <1>0, <4>1 DEF Operation, Pcs
      <4> QED BY <2>1, <3>1, <4>2
    <3>2. CASE o.prev # Absent
      <4> DEFINE c == [o EXCEPT !.pc = "activate", !.saved = TRUE]
      <4>1. c \in Operation /\ c.frames = o.frames
        BY <1>0 DEF Operation, Pcs
      <4> QED BY <2>1, <3>2, <4>1
    <3> QED BY <3>1, <3>2
  <2>3. op' = [op EXCEPT ![p] = n] /\ UNCHANGED <<disk, lock>>
    BY <1>6 DEF Record
  <2> HIDE DEF n
  <2> QED BY <1>0, <2>2, <2>3, MemoryUpdate DEF TypeOK, disk
<1>7. CASE Prepare(p)
  <2> DEFINE n == [o EXCEPT !.pc = "sidecars", !.left = Pinned(o.idx), !.snap = prov]
  <2>0. Pinned(o.idx) \in SUBSET Pkg /\ prov \in [Slot -> Nat]
    BY DEF Pinned, TypeOK
  <2>1. n \in Operation /\ n.pc \notin Walking
    BY ZenonT(60), <1>0, <2>0 DEF Operation, Pcs, Walking
  <2>2. op' = [op EXCEPT ![p] = n]
    BY <1>0, <1>7 DEF Prepare, Operation
  <2> HIDE DEF n
  <2> QED BY <1>0, <1>7, <2>1, <2>2, MemoryUpdate DEF Prepare, TypeOK, disk
<1>8. CASE WriteIndex(p)
  <2> DEFINE n == [o EXCEPT !.pc = "committed"]
  <2>1. n \in Operation /\ n.pc \notin Walking /\ op' = [op EXCEPT ![p] = n]
    BY ZenonT(60), <1>0, <1>8 DEF WriteIndex, Operation, Pcs, Walking
  <2>2. index' \in [Pkg -> Selection]
    BY <1>0, <1>8 DEF WriteIndex, Operation
  <2> QED BY <1>0, <1>8, <2>1, <2>2, MemoryUpdate DEF WriteIndex, TypeOK
<1>9. CASE ConcludeInstall(p) \/ RolledBack(p)
  BY <1>0, <1>9, ReleaseType DEF ConcludeInstall, RolledBack, TypeOK, disk
<1>10. CASE UndoReplace(p)
  <2> DEFINE n == [o EXCEPT !.pc = "restore"]
  <2>1. n \in Operation /\ n.pc \notin Walking /\ op' = [op EXCEPT ![p] = n]
    BY ZenonT(60), <1>0, <1>10 DEF UndoReplace, Operation, Pcs, Walking
  <2>2. tree' \in [Slot -> Tree]
    BY <1>0, <1>10 DEF UndoReplace, TypeOK, Tree
  <2> QED BY <1>0, <1>10, <2>1, <2>2, MemoryUpdate DEF UndoReplace, TypeOK
<1>11. CASE Restore(p)
  <2> DEFINE n == [o EXCEPT !.pc = "rollback", !.prev = Absent, !.saved = FALSE]
  <2>1. n \in Operation /\ n.pc \notin Walking /\ op' = [op EXCEPT ![p] = n]
    <3>1. op' = [op EXCEPT ![p] = n]
      BY <1>11 DEF Restore
    <3>2. n \in Operation
      BY ZenonT(60), <1>0 DEF Operation, Pcs, Tree
    <3>3. n.pc \notin Walking
      BY <1>0 DEF Operation, Walking
    <3> QED BY <3>1, <3>2, <3>3
  <2>2. tree' \in [Slot -> Tree]
    BY <1>0, <1>11 DEF Restore, TypeOK
  <2> QED BY <1>0, <1>11, <2>1, <2>2, MemoryUpdate DEF Restore, TypeOK
<1>12. CASE Crash(p)
  <2>1. Abandoned(o) \subseteq Slot
    BY <1>0 DEF Abandoned
  <2> QED BY <1>0, <1>12, <2>1, ReleaseType DEF Crash, TypeOK
<1>13. CASE Interrupt(p)
  <2> DEFINE n == [o EXCEPT !.pc = "rollback", !.prev = IF o.saved THEN @ ELSE Absent]
  <2>1. Abandoned(o) \subseteq Slot
    BY <1>0 DEF Abandoned
  <2>2. n \in Operation /\ n.pc \notin Walking
    <3>1. (IF o.saved THEN o.prev ELSE Absent) \in Tree
      BY <1>0 DEF Tree
    <3> QED BY ZenonT(60), <1>0, <3>1 DEF Operation, Pcs, Walking
  <2>3. \/ op' = [op EXCEPT ![p] = n] /\ UNCHANGED lock
        \/ Release(p)
    BY <1>13 DEF Interrupt
  <2>4. MemoryOK' /\ lock' \in Proc \cup {NoProc}
    BY <1>0, <2>2, <2>3, MemoryUpdate, ReleaseType DEF TypeOK
  <2> QED BY <1>13, <2>1, <2>4 DEF Interrupt, TypeOK
<1>14. ASSUME NEW q \in Pkg, WriteSidecar(p, q) PROVE TypeOK'
  <2> DEFINE n == [o EXCEPT !.left = @ \ {q}]
  <2>1. n \in Operation /\ n.pc \notin Walking /\ op' = [op EXCEPT ![p] = n]
    BY ZenonT(60), <1>0, <1>14 DEF WriteSidecar, At, Operation, Pcs, Walking
  <2>2. prov' \in [Slot -> Nat]
    <3>1. o.idx[q].order \in Nat
      BY <1>0 DEF Operation, Selection, NoSel
    <3> QED BY <1>14, <3>1 DEF WriteSidecar, TypeOK
  <2> QED BY <1>0, <1>14, <2>1, <2>2, MemoryUpdate DEF WriteSidecar, TypeOK
<1>15. ASSUME NEW s \in Slot, Discard(p, s) PROVE TypeOK'
  <2> DEFINE n == [o EXCEPT !.created = @ \ {s}]
  <2>1. n \in Operation /\ n.pc \notin Walking
    BY <1>0, <1>15 DEF Discard, At, Operation, Pcs, Walking
  <2>2. MemoryOK'
    BY <1>0, <1>15, <2>1, MemoryUpdate DEF Discard, MemoryOK
  <2>3. tree' \in [Slot -> Tree]
    BY <1>15 DEF Discard, TypeOK, Tree
  <2> QED BY <1>15, <2>2, <2>3 DEF Discard, TypeOK
<1> QED BY <1>1, <1>2, <1>3, <1>4, <1>5, <1>6, <1>7, <1>8, <1>9, <1>10, <1>11, <1>12, <1>13,
           <1>14, <1>15

LEMMA UninstallType ==
  ASSUME TypeOK, NEW p \in Proc,
         \/ UninstallLeftover(p) \/ UninstallEditable(p) \/ UninstallActive(p)
         \/ UninstallInactive(p) \/ Hide(p) \/ ConcludeUninstall(p) \/ Strip(p) \/ Swept(p)
         \/ FailInstall(p) \/ FailUninstall(p)
  PROVE  TypeOK'
<1> DEFINE o == op[p]
<1>0. /\ o \in Operation /\ MemoryOK /\ o.slot \in Slot /\ o.slot[1] \in Pkg /\ o.slot[2] \in Ver
      /\ o.key \in TombKey /\ o.snap \in [Slot -> Nat]
  BY DEF TypeOK, MemoryOK, Operation, Slot
<1>1. KeyOf(o) \in TombKey
  BY <1>0 DEF KeyOf, TombKey
<1>2. Without(o) \in [Pkg -> Selection]
  BY <1>0 DEF Without, TypeOK, Selection
<1>3. NoTomb \in Tomb
  BY DEF NoTomb, Tomb, Tree
<1>4. \A k \in TombKey : tomb[k] \in Tomb /\ tomb[k].body \in Tree
  BY DEF TypeOK, Tomb
<1>5. CASE UninstallLeftover(p)
  <2> DEFINE n == [o EXCEPT !.pc = "finish", !.key = KeyOf(o)]
  <2>1. n \in Operation /\ n.pc \notin Walking /\ op' = [op EXCEPT ![p] = n]
    BY ZenonT(60), <1>0, <1>1, <1>5 DEF UninstallLeftover, Operation, Pcs, Walking
  <2> QED BY <1>0, <1>5, <2>1, MemoryUpdate DEF UninstallLeftover, TypeOK, disk
<1>6. CASE UninstallEditable(p)
  <2> DEFINE n == [o EXCEPT !.pc = "prepare", !.idx = Without(o), !.edit = TRUE]
  <2>1. n \in Operation /\ n.pc \notin Walking /\ op' = [op EXCEPT ![p] = n]
    <3>1. op' = [op EXCEPT ![p] = n]
      BY <1>6 DEF UninstallEditable
    <3>2. n \in Operation
      BY <1>0, <1>2 DEF Operation, Pcs
    <3>3. n.pc \notin Walking
      BY <1>0 DEF Operation, Walking
    <3> QED BY <3>1, <3>2, <3>3
  <2> QED BY <1>0, <1>6, <2>1, MemoryUpdate DEF UninstallEditable, TypeOK, disk
<1>7. CASE UninstallActive(p) \/ UninstallInactive(p)
  <2> DEFINE n(pc) == [o EXCEPT !.pc = pc, !.key = KeyOf(o)]
  <2>1. \A pc \in {"hide", "sweep"} : n(pc) \in Operation /\ n(pc).pc \notin Walking
    BY ZenonT(60), <1>0, <1>1 DEF Operation, Pcs, Walking
  <2>2. \E pc \in {"hide", "sweep"} : op' = [op EXCEPT ![p] = n(pc)]
    BY <1>7 DEF UninstallActive, UninstallInactive
  <2>3. MemoryOK'
    BY <1>0, <2>1, <2>2, MemoryUpdate
  <2>4. tree' \in [Slot -> Tree] /\ tomb' \in [TombKey -> Tomb]
    BY <1>0, <1>1, <1>3, <1>4, <1>7 DEF UninstallActive, UninstallInactive, TypeOK, disk
  <2>5. UNCHANGED <<orphan, index, prov, lock>>
    BY <1>7 DEF UninstallActive, UninstallInactive, disk
  <2> QED BY <2>3, <2>4, <2>5 DEF TypeOK
<1>8. CASE Hide(p)
  <2> DEFINE n(pc) == [o EXCEPT !.pc = pc, !.idx = Without(o)]
  <2>1. \A pc \in {"finish", "prepare"} : n(pc) \in Operation /\ n(pc).pc \notin Walking
    BY ZenonT(60), <1>0, <1>2 DEF Operation, Pcs, Walking
  <2>2. \/ Release(p)
        \/ UNCHANGED lock /\ \E pc \in {"finish", "prepare"} : op' = [op EXCEPT ![p] = n(pc)]
    BY ZenonT(60), <1>8 DEF Hide
  <2>3. MemoryOK' /\ lock' \in Proc \cup {NoProc}
    BY <1>0, <2>1, <2>2, MemoryUpdate, ReleaseType DEF TypeOK
  <2>4. [ver |-> o.slot[2], body |-> tree[o.slot]] \in Tomb
    BY <1>0 DEF TypeOK, Tomb
  <2>5. tree' \in [Slot -> Tree] /\ tomb' \in [TombKey -> Tomb]
    BY <1>0, <1>8, <2>4 DEF Hide, TypeOK, Tree
  <2> QED BY <1>8, <2>3, <2>5 DEF Hide, TypeOK
<1>9. CASE ConcludeUninstall(p)
  <2> DEFINE n == [o EXCEPT !.pc = "finish"]
  <2>1. n \in Operation /\ n.pc \notin Walking
    BY ZenonT(60), <1>0 DEF Operation, Pcs, Walking
  <2>2. Release(p) \/ (op' = [op EXCEPT ![p] = n] /\ UNCHANGED lock)
    BY <1>9 DEF ConcludeUninstall
  <2> QED BY <1>0, <1>9, <2>1, <2>2, MemoryUpdate, ReleaseType DEF ConcludeUninstall, TypeOK, disk
<1>10. CASE Strip(p)
  <2> DEFINE n(pc) == [o EXCEPT !.pc = pc]
             s == <<o.key[1], tomb[o.key].ver>>
  <2>1. \A pc \in {"swept", "finished"} : n(pc) \in Operation /\ n(pc).pc \notin Walking
    BY ZenonT(60), <1>0 DEF Operation, Pcs, Walking
  <2>2. \E pc \in {"swept", "finished"} : op' = [op EXCEPT ![p] = n(pc)]
    BY <1>10 DEF Strip
  <2>3. tomb' \in [TombKey -> Tomb]
    BY <1>0, <1>4, <1>10 DEF Strip, TypeOK, Tomb, Tree
  <2>4. prov' \in [Slot -> Nat]
    BY <1>10 DEF Strip, TypeOK
  <2>5. MemoryOK'
    BY <1>0, <2>1, <2>2, MemoryUpdate
  <2> QED BY <1>10, <2>3, <2>4, <2>5 DEF Strip, TypeOK
<1>11. CASE Swept(p)
  <2> DEFINE n == [o EXCEPT !.pc = "hide"]
  <2>1. n \in Operation /\ n.pc \notin Walking
    BY ZenonT(60), <1>0 DEF Operation, Pcs, Walking
  <2>2. Release(p) \/ (op' = [op EXCEPT ![p] = n] /\ UNCHANGED lock)
    BY <1>11 DEF Swept
  <2>3. tomb' \in [TombKey -> Tomb]
    BY <1>0, <1>3, <1>11 DEF Swept, TypeOK
  <2>4. MemoryOK' /\ lock' \in Proc \cup {NoProc}
    BY <1>0, <2>1, <2>2, MemoryUpdate, ReleaseType DEF TypeOK
  <2> QED BY <1>11, <2>3, <2>4 DEF Swept, TypeOK
<1>12. Undone(p) => prov' \in [Slot -> Nat]
  BY <1>0 DEF Undone, TypeOK
<1>13. CASE FailInstall(p)
  <2> DEFINE n == [o EXCEPT !.pc = "rollback"]
  <2>1. n \in Operation /\ n.pc \notin Walking
    BY ZenonT(60), <1>0 DEF Operation, Pcs, Walking
  <2>2. Release(p) \/ (op' = [op EXCEPT ![p] = n] /\ UNCHANGED lock)
    BY <1>13 DEF FailInstall
  <2> QED BY <1>0, <1>12, <1>13, <2>1, <2>2, MemoryUpdate, ReleaseType DEF FailInstall, TypeOK
<1>14. CASE FailUninstall(p)
  <2>1. tree' \in [Slot -> Tree] /\ tomb' \in [TombKey -> Tomb]
    BY <1>0, <1>3, <1>4, <1>14 DEF FailUninstall, TypeOK
  <2> QED BY <1>0, <1>12, <1>14, <2>1, ReleaseType DEF FailUninstall, TypeOK
<1> QED BY <1>5, <1>6, <1>7, <1>8, <1>9, <1>10, <1>11, <1>13, <1>14

LEMMA NextType == TypeOK /\ [NextWithInterrupts]_vars => TypeOK'
<1> SUFFICES ASSUME TypeOK, [NextWithInterrupts]_vars PROVE TypeOK'
  OBVIOUS
<1>1. CASE UNCHANGED vars
  BY <1>1 DEF TypeOK, MemoryOK, vars
<1>2. ASSUME NEW p \in Proc, Start(p) PROVE TypeOK'
  BY <1>2, StartType
<1>3. ASSUME NEW p \in Proc, Step(p) PROVE TypeOK'
  BY <1>3, ResolveType, DiskType, UninstallType DEF Step
<1>4. ASSUME NEW p \in Proc, Crash(p) \/ Interrupt(p) PROVE TypeOK'
  BY <1>4, DiskType
<1> QED BY <1>1, <1>2, <1>3, <1>4 DEF NextWithInterrupts, Next

\* Every variable keeps its type, and a process in the middle of a dependency
\* walk always has a package on top of it, whatever fails, dies or is interrupted
\* (install.py: _resolve_dependencies, _install_directory, _uninstall_package).
THEOREM TypeCorrect == SpecWithInterrupts => []TypeOK
BY InitType, NextType, PTL DEF SpecWithInterrupts


-----------------------------------------------------------------------------
(* Ending an operation and moving within one. *)

\* While an install or switch is past its load, a selected tree is in place or
\* is the one it moved aside.
Held ==
  TypeOK /\ \E p \in Proc : OperationKeeps(op[p]) /\ Installs(op[p]) /\ op[p].pc # "load"

LEMMA HeldSurvives == Held => ActiveSurvives
<1> SUFFICES ASSUME TypeOK, NEW p \in Proc, OperationKeeps(op[p]), Installs(op[p]),
                    op[p].pc # "load", NEW q \in Pinned(index)
             PROVE  Survives(SlotOf(index, q)) /\ tree[SlotOf(index, q)] # Partial
  BY DEF ActiveSurvives, Held
<1> DEFINE s == SlotOf(index, q)
<1>1. CASE tree[s] \in Rev
  BY <1>1, RevAssumption DEF Survives
<1>2. CASE Displaced(op[p]) /\ s = op[p].slot /\ tree[op[p].slot] = Absent
  <2>1. Active(op[p].slot)
    BY <1>2 DEF Active, SlotOf, Pinned
  <2>2. op[p].prev \in Rev
    BY <1>2, <2>1 DEF OperationKeeps, InstallKeeps, Displaced
  <2>3. tree[s] # Partial
    BY <1>2 DEF Absent, Partial
  <2> QED BY <1>2, <2>2, <2>3 DEF Survives
<1> QED BY <1>1, <1>2 DEF OperationKeeps, InstallKeeps

LEMMA HeldSurvivesPrimed == Held' => ActiveSurvives'
BY HeldSurvives, PTL

LEMMA HeldSurvivesNext ==
  ASSUME TypeOK', NEW p \in Proc, OperationKeeps(op[p])', Installs(op'[p]), op'[p].pc # "load"
  PROVE  ActiveSurvives'
<1>1. Held'
  BY DEF Held, Installs
<1> QED BY <1>1, HeldSurvivesPrimed

\* A step of the lock's holder that keeps the lock.
LEMMA HolderMoves ==
  ASSUME TypeOK, StoreInv, NEW p \in Proc, lock = p, lock' = lock,
         NEW n, op' = [op EXCEPT ![p] = n],
         ActiveSurvives', OperationKeeps(op[p])'
  PROVE  StoreInv'
<1>1. Exclusive'
  BY DEF StoreInv, Exclusive, TypeOK, MemoryOK
<1> QED BY <1>1 DEF StoreInv

\* A step after which nobody holds the lock.
LEMMA HolderLeaves ==
  ASSUME TypeOK, StoreInv, NEW p \in Proc, lock = p, Release(p), ActiveSurvives'
  PROVE  StoreInv'
<1>1. Exclusive'
  BY ProcAssumption DEF StoreInv, Exclusive, TypeOK, MemoryOK, Release
<1>2. \A r \in Proc : lock' # r
  BY ProcAssumption DEF Release
<1> QED BY <1>1, <1>2 DEF StoreInv

\* Survival does not depend on the memory of a process with nothing moved aside.
LEMMA DiskSurvives ==
  ASSUME TypeOK, ActiveSurvives, NEW p \in Proc, UNCHANGED <<tree, tomb, index>>,
         orphan \subseteq orphan', NEW n, op' = [op EXCEPT ![p] = n],
         op[p].prev \in Rev => op[p].slot \in orphan' \/ (n.slot = op[p].slot /\ n.prev \in Rev)
  PROVE  ActiveSurvives'
<1> SUFFICES ASSUME NEW q \in Pinned(index)
             PROVE  Survives(SlotOf(index, q))' /\ tree[SlotOf(index, q)] # Partial
  BY DEF ActiveSurvives, Pinned, SlotOf
<1> DEFINE s == SlotOf(index, q)
<1>1. Survives(s) /\ tree[s] # Partial
  BY DEF ActiveSurvives
<1>2. \A r \in Proc : r # p => op'[r] = op[r]
  BY DEF TypeOK, MemoryOK
<1>3. op'[p] = n
  BY DEF TypeOK, MemoryOK
<1> QED BY <1>1, <1>2, <1>3 DEF Survives, SlotOf

\* A step of an install or switch past its load.
LEMMA InstallMoves ==
  ASSUME TypeOK, TypeOK', StoreInv, NEW p \in Proc, lock = p, lock' = lock,
         NEW n, op' = [op EXCEPT ![p] = n],
         Installs(op'[p]), op'[p].pc # "load", OperationKeeps(op[p])'
  PROVE  StoreInv'
BY HolderMoves, HeldSurvivesNext

-----------------------------------------------------------------------------
(* The steps of installs and switches that leave the trees alone. *)

LEMMA LoadKeeps ==
  ASSUME TypeOK, TypeOK', StoreInv, NEW p \in Proc, LoadInstall(p) \/ LoadSwitch(p)
  PROVE  StoreInv'
<1> DEFINE o == op[p]
<1>0. o \in Operation /\ lock = p /\ OperationKeeps(o) /\ o.pc = "load" /\ Resolvable(index)
  BY DEF StoreInv, LoadInstall, LoadSwitch, At, TypeOK, MemoryOK
<1>1. CASE LoadInstall(p)
  <2>1. PICK f : op' = [op EXCEPT ![p] = [Loaded(o) EXCEPT !.pc = "resolve", !.frames = f]]
    BY <1>1 DEF LoadInstall
  <2>2. /\ op'[p].pc = "resolve" /\ op'[p].kind = "install" /\ op'[p].created = {}
        /\ op'[p].prev = Absent /\ ~op'[p].saved /\ op'[p].rev \in Rev
    BY <1>0, <1>1, <2>1 DEF LoadInstall, Loaded, TypeOK, MemoryOK, OperationKeeps, Operation
  <2>3. UNCHANGED <<tree, index, lock>>
    BY <1>1 DEF LoadInstall, disk
  <2>4. OperationKeeps(op[p])'
    BY <1>0, <2>2, <2>3 DEF OperationKeeps, InstallKeeps, UninstallKeeps, Installs, Resolvable,
       Pinned, SlotOf, Displaced
  <2> QED BY <1>0, <2>1, <2>2, <2>3, <2>4, InstallMoves DEF Installs
<1>2. CASE LoadSwitch(p)
  <2> DEFINE n == [Adopt(Loaded(o), o.slot, FALSE) EXCEPT !.pc = "prepare"]
  <2>1. op' = [op EXCEPT ![p] = n]
    BY <1>2 DEF LoadSwitch
  <2>2. /\ op'[p].pc = "prepare" /\ op'[p].kind = "switch" /\ op'[p].created = {}
        /\ op'[p].prev = Absent /\ ~op'[p].saved
    BY SMTT(30), <1>0, <1>2, <2>1 DEF LoadSwitch, Loaded, Adopt, TypeOK, MemoryOK, OperationKeeps, Operation
  <2>3. UNCHANGED <<tree, index, lock>>
    BY <1>2 DEF LoadSwitch, disk
  <2>4. OperationKeeps(op[p])'
    BY <1>0, <2>2, <2>3 DEF OperationKeeps, InstallKeeps, UninstallKeeps, Installs, Resolvable,
       Pinned, SlotOf, Displaced
  <2> QED BY <1>0, <2>1, <2>2, <2>3, <2>4, InstallMoves DEF Installs
<1> QED BY <1>1, <1>2

LEMMA WalkKeeps ==
  ASSUME TypeOK, TypeOK', StoreInv, NEW p \in Proc,
         (\E q \in Pkg : Need(p, q)) \/ Satisfy(p)
  PROVE  StoreInv'
<1> DEFINE o == op[p]
<1>0. o \in Operation /\ lock = p /\ OperationKeeps(o) /\ o.pc = "resolve" /\ o.kind = "install"
  BY DEF StoreInv, Need, Satisfy, At, TypeOK, MemoryOK, OperationKeeps
<1>1. PICK n : op' = [op EXCEPT ![p] = n] /\ UNCHANGED <<disk, lock>>
  BY DEF Need, Satisfy, Push
<1>2. /\ op'[p].pc = "resolve" /\ op'[p].kind = o.kind /\ op'[p].created = o.created
      /\ op'[p].prev = o.prev /\ op'[p].saved = o.saved /\ op'[p].rev = o.rev
      /\ op'[p].slot = o.slot
  <2>1. ASSUME NEW q \in Pkg, Need(p, q)
        PROVE  \E f : op' = [op EXCEPT ![p].frames = f]
    BY <2>1 DEF Need, Push
  <2>2. CASE Satisfy(p)
    <3> DEFINE m(r, f) == [o EXCEPT !.resolved = r, !.frames = f]
    <3>1. PICK r, f, s : \/ op' = [op EXCEPT ![p] = m(r, f)]
                         \/ op' = [op EXCEPT ![p] = Adopt(m(r, f), s, FALSE)]
      BY <2>2 DEF Satisfy
    <3> DEFINE w == m(r, f)
               a == Adopt(w, s, FALSE)
    <3>2. /\ w.pc = o.pc /\ w.kind = o.kind /\ w.created = o.created /\ w.prev = o.prev
          /\ w.saved = o.saved /\ w.rev = o.rev /\ w.slot = o.slot /\ DOMAIN w = DOMAIN o
      BY <1>0 DEF Operation
    <3>3. {"pc", "kind", "created", "prev", "saved", "rev", "slot"} \subseteq DOMAIN w
      BY <1>0, <3>2 DEF Operation
    <3>4. op'[p] = w \/ op'[p] = a
      BY <3>1 DEF TypeOK, MemoryOK
    <3> HIDE DEF w
    <3>5. /\ a.pc = w.pc /\ a.kind = w.kind /\ a.created = w.created /\ a.prev = w.prev
          /\ a.saved = w.saved /\ a.rev = w.rev /\ a.slot = w.slot
      BY <3>3 DEF Adopt
    <3> HIDE DEF a
    <3> QED BY <1>0, <3>2, <3>4, <3>5
  <2>3. ASSUME NEW q \in Pkg, NEW f, op' = [op EXCEPT ![p].frames = f]
        PROVE  /\ op'[p].pc = "resolve" /\ op'[p].kind = o.kind /\ op'[p].created = o.created
               /\ op'[p].prev = o.prev /\ op'[p].saved = o.saved /\ op'[p].rev = o.rev
               /\ op'[p].slot = o.slot
    BY <1>0, <2>3 DEF TypeOK, MemoryOK, Operation
  <2> QED BY <2>1, <2>2, <2>3
<1>3. OperationKeeps(op[p])'
  BY <1>0, <1>1, <1>2 DEF OperationKeeps, InstallKeeps, UninstallKeeps, Installs, Pinned, SlotOf,
     Displaced, Active, disk
<1> QED BY <1>0, <1>1, <1>2, <1>3, InstallMoves DEF Installs

LEMMA RecordKeeps ==
  ASSUME TypeOK, TypeOK', StoreInv, NEW p \in Proc, Record(p) \/ PublishNothing(p) \/ Activate(p)
  PROVE  StoreInv'
<1> DEFINE o == op[p]
<1>0. /\ o \in Operation /\ lock = p /\ OperationKeeps(o) /\ o.pc \in {"resolve", "record", "activate"}
      /\ o.kind = "install" /\ o.frames # <<>>
  BY DEF StoreInv, Record, PublishNothing, ReadyToPublish, Activate, At, TypeOK, MemoryOK,
     OperationKeeps
<1>1. CASE Record(p) /\ o.prev = Absent
  <2>1. op' = [op EXCEPT ![p].pc = "activate", ![p].created = @ \cup {Top(o).slot}]
        /\ UNCHANGED <<tree, index, lock>>
    BY <1>1 DEF Record, disk
  <2>2. /\ op'[p].pc = "activate" /\ op'[p].kind = "install" /\ op'[p].rev = o.rev
        /\ op'[p].created = o.created \cup {Top(o).slot} /\ op'[p].prev = Absent
        /\ op'[p].saved = o.saved /\ op'[p].slot = o.slot /\ o.pc = "record"
    BY <1>0, <1>1, <2>1 DEF TypeOK, MemoryOK, Operation, Record, At
  <2>3. OperationKeeps(op[p])'
    BY <1>0, <1>1, <2>1, <2>2 DEF OperationKeeps, InstallKeeps, UninstallKeeps, Installs, Pinned,
       SlotOf, Displaced, Active
  <2>4. \E n : op' = [op EXCEPT ![p] = n]
    BY <2>1
  <2> QED BY <1>0, <2>1, <2>2, <2>3, <2>4, InstallMoves DEF Installs
<1>2. CASE Record(p) /\ o.prev # Absent
  <2>1. op' = [op EXCEPT ![p].pc = "activate", ![p].saved = TRUE]
        /\ UNCHANGED <<tree, index, lock>>
    BY <1>2 DEF Record, disk
  <2>2. /\ op'[p].pc = "activate" /\ op'[p].kind = "install" /\ op'[p].rev = o.rev
        /\ op'[p].created = o.created /\ op'[p].prev = o.prev /\ op'[p].frames = o.frames
        /\ op'[p].saved = TRUE /\ op'[p].slot = o.slot /\ o.pc = "record"
    BY <1>0, <1>2, <2>1 DEF TypeOK, MemoryOK, Operation, Record, At
  <2>3. OperationKeeps(op[p])'
    BY <1>0, <1>2, <2>1, <2>2 DEF OperationKeeps, InstallKeeps, UninstallKeeps, Installs, Pinned,
       SlotOf, Displaced, Active
  <2>4. \E n : op' = [op EXCEPT ![p] = n]
    BY <2>1
  <2> QED BY <1>0, <2>1, <2>2, <2>3, <2>4, InstallMoves DEF Installs
<1>3. CASE PublishNothing(p)
  <2>1. op' = [op EXCEPT ![p].pc = "activate"] /\ UNCHANGED <<tree, index, lock>>
    BY <1>3 DEF PublishNothing, disk
  <2>2. /\ op'[p].pc = "activate" /\ op'[p].kind = "install" /\ op'[p].rev = o.rev
        /\ op'[p].created = o.created /\ op'[p].prev = o.prev
        /\ op'[p].saved = o.saved /\ op'[p].slot = o.slot /\ o.pc = "resolve"
    BY <1>0, <1>3, <2>1 DEF TypeOK, MemoryOK, Operation, PublishNothing, ReadyToPublish, At
  <2>3. OperationKeeps(op[p])'
    BY <1>0, <2>1, <2>2 DEF OperationKeeps, InstallKeeps, UninstallKeeps, Installs, Pinned,
       SlotOf, Displaced, Active
  <2>4. \E n : op' = [op EXCEPT ![p] = n]
    BY <2>1
  <2> QED BY <1>0, <2>1, <2>2, <2>3, <2>4, InstallMoves DEF Installs
<1>4. CASE Activate(p)
  <2> DEFINE a == Adopt(o, Top(o).slot, Top(o).edit)
  <2>1. /\ UNCHANGED <<tree, index, lock>> /\ o.pc = "activate"
        /\ \/ Len(a.frames) = 1 /\ op' = [op EXCEPT ![p] = [a EXCEPT !.pc = "prepare"]]
           \/ /\ Len(a.frames) # 1
              /\ \E f : op' = [op EXCEPT ![p] = [a EXCEPT !.pc = "resolve", !.frames = f]]
    BY <1>0, <1>4 DEF Activate, disk, At
  <2>2. /\ a.kind = o.kind /\ a.rev = o.rev /\ a.created = o.created /\ a.prev = o.prev
        /\ a.saved = o.saved /\ a.slot = o.slot /\ a.frames = o.frames
    BY <1>0 DEF Adopt, Operation
  <2>6. a \in Operation
    BY <1>0, TopType, AdoptType DEF TypeOK, Frame
  <2> HIDE DEF a
  <2>3. /\ op'[p].kind = "install" /\ op'[p].rev = o.rev
        /\ op'[p].created = o.created /\ op'[p].prev = o.prev
        /\ op'[p].saved = o.saved /\ op'[p].slot = o.slot
        /\ op'[p].pc = "prepare" \/ (op'[p].pc = "resolve" /\ Len(o.frames) # 1)
    <3>1. CASE Len(a.frames) = 1 /\ op' = [op EXCEPT ![p] = [a EXCEPT !.pc = "prepare"]]
      <4>1. op'[p] = [a EXCEPT !.pc = "prepare"]
        BY <3>1 DEF TypeOK, MemoryOK
      <4> QED BY <1>0, <2>2, <2>6, <4>1 DEF Operation
    <3>2. ASSUME Len(a.frames) # 1, NEW f,
                 op' = [op EXCEPT ![p] = [a EXCEPT !.pc = "resolve", !.frames = f]]
          PROVE  /\ op'[p].kind = "install" /\ op'[p].rev = o.rev
                 /\ op'[p].created = o.created /\ op'[p].prev = o.prev
                 /\ op'[p].saved = o.saved /\ op'[p].slot = o.slot
                 /\ op'[p].pc = "prepare" \/ (op'[p].pc = "resolve" /\ Len(o.frames) # 1)
      <4>1. op'[p] = [a EXCEPT !.pc = "resolve", !.frames = f]
        BY <3>2 DEF TypeOK, MemoryOK
      <4>2. Len(o.frames) # 1
        BY <2>2, <3>2
      <4>3. /\ op'[p].kind = a.kind /\ op'[p].rev = a.rev /\ op'[p].created = a.created
            /\ op'[p].prev = a.prev /\ op'[p].saved = a.saved /\ op'[p].slot = a.slot
            /\ op'[p].pc = "resolve"
        BY <2>6, <4>1 DEF Operation
      <4> QED BY <1>0, <2>2, <4>2, <4>3
    <3> QED BY <2>1, <3>1, <3>2
  <2>4. OperationKeeps(op[p])'
    BY <1>0, <2>1, <2>3 DEF OperationKeeps, InstallKeeps, UninstallKeeps, Installs, Pinned,
       SlotOf, Displaced, Active
  <2>5. \E n : op' = [op EXCEPT ![p] = n]
    BY <2>1
  <2> QED BY <1>0, <2>1, <2>3, <2>4, <2>5, InstallMoves DEF Installs
<1> QED BY <1>1, <1>2, <1>3, <1>4

-----------------------------------------------------------------------------
(* The renames of an install. *)

\* A selected tree is not the empty slot a new tree goes to.
LEMMA PublishKeeps ==
  ASSUME TypeOK, TypeOK', StoreInv, NEW p \in Proc, PublishNew(p) \/ Displace(p)
  PROVE  StoreInv'
<1> DEFINE o == op[p]
           top == Top(o).slot
<1>0. /\ o \in Operation /\ lock = p /\ OperationKeeps(o) /\ o.pc = "resolve"
      /\ o.kind = "install" /\ o.frames # <<>> /\ top \in Slot /\ o.slot \in Slot
  BY TopType DEF StoreInv, PublishNew, Displace, ReadyToPublish, At, TypeOK, MemoryOK,
     OperationKeeps, Frame, Operation
<1>1. o.prev = Absent /\ ~o.saved /\ o.rev \in Rev /\ Resolvable(index)
  BY <1>0 DEF OperationKeeps, InstallKeeps, Installs, Displaced, Resolvable
<1>2. CASE PublishNew(p)
  <2>1. /\ tree' = [tree EXCEPT ![top] = o.rev] /\ tree[top] = Absent
        /\ op' = [op EXCEPT ![p].pc = "record"] /\ UNCHANGED <<index, lock>>
    BY <1>2 DEF PublishNew
  <2>2. /\ op'[p].pc = "record" /\ op'[p].kind = "install" /\ op'[p].rev = o.rev
        /\ op'[p].created = o.created /\ op'[p].prev = Absent /\ op'[p].frames = o.frames
        /\ op'[p].saved = FALSE /\ op'[p].slot = o.slot
    BY <1>0, <1>1, <2>1 DEF TypeOK, MemoryOK, Operation
  <2>3. ~Active(top)
    <3>1. Active(top) => top[1] \in Pinned(index) /\ SlotOf(index, top[1]) = top
      BY <1>0, VerAssumption DEF Active, Pinned, SlotOf, Slot
    <3> QED BY <1>1, <2>1, <3>1, RevAssumption DEF Resolvable
  <2>4. \A q \in Pinned(index) : tree'[SlotOf(index, q)] \in Rev
    <3>1. \A q \in Pinned(index) : SlotOf(index, q) \in Slot
      BY DEF Pinned, SlotOf, Slot, TypeOK, Selection, NoSel
    <3> QED BY <1>0, <1>1, <2>1, <3>1 DEF Resolvable, TypeOK
  <2>5. OperationKeeps(op[p])'
    <3>1. Top(op'[p]) = Top(o)
      BY <2>2 DEF Top
    <3> QED BY <1>0, <1>1, <2>1, <2>2, <2>3, <2>4, <3>1 DEF OperationKeeps, InstallKeeps,
            UninstallKeeps, Installs, Pinned, SlotOf, Displaced, Active
  <2>6. \E n : op' = [op EXCEPT ![p] = n]
    BY <2>1
  <2> QED BY <1>0, <2>1, <2>2, <2>5, <2>6, InstallMoves DEF Installs
<1>3. CASE Displace(p)
  <2>1. /\ tree' = [tree EXCEPT ![o.slot] = Absent] /\ tree[o.slot] # Absent
        /\ op' = [op EXCEPT ![p].pc = "swap", ![p].prev = tree[o.slot]]
        /\ Len(o.frames) = 1 /\ UNCHANGED <<index, lock>>
    BY <1>3 DEF Displace, Replaces
  <2>2. /\ op'[p].pc = "swap" /\ op'[p].kind = "install" /\ op'[p].rev = o.rev
        /\ op'[p].created = o.created /\ op'[p].prev = tree[o.slot] /\ op'[p].frames = o.frames
        /\ op'[p].saved = FALSE /\ op'[p].slot = o.slot
    BY <1>0, <1>1, <2>1 DEF TypeOK, MemoryOK, Operation
  <2>3. Active(o.slot) => tree[o.slot] \in Rev
    <3>1. Active(o.slot) => o.slot[1] \in Pinned(index) /\ SlotOf(index, o.slot[1]) = o.slot
      BY <1>0, VerAssumption DEF Active, Pinned, SlotOf, Slot
    <3> QED BY <1>1, <3>1 DEF Resolvable
  <2>4. \A q \in Pinned(index) : \/ tree'[SlotOf(index, q)] \in Rev
                                 \/ SlotOf(index, q) = o.slot /\ tree'[o.slot] = Absent
    <3>1. \A q \in Pinned(index) : SlotOf(index, q) \in Slot
      BY DEF Pinned, SlotOf, Slot, TypeOK, Selection, NoSel
    <3> QED BY <1>0, <1>1, <2>1, <3>1 DEF Resolvable, TypeOK
  <2>5. OperationKeeps(op[p])'
    BY <1>0, <1>1, <2>1, <2>2, <2>3, <2>4 DEF OperationKeeps, InstallKeeps,
       UninstallKeeps, Installs, Pinned, SlotOf, Displaced, Active
  <2>6. \E n : op' = [op EXCEPT ![p] = n]
    BY <2>1
  <2> QED BY <1>0, <2>1, <2>2, <2>5, <2>6, InstallMoves DEF Installs
<1> QED BY <1>2, <1>3

LEMMA SwapKeeps ==
  ASSUME TypeOK, TypeOK', StoreInv, NEW p \in Proc,
         Swap(p) \/ SwapFails(p) \/ UndoReplace(p) \/ Restore(p)
  PROVE  StoreInv'
<1> DEFINE o == op[p]
<1>0. /\ o \in Operation /\ lock = p /\ OperationKeeps(o) /\ o.slot \in Slot
      /\ o.pc \in {"swap", "rollback", "restore"}
  BY DEF StoreInv, Swap, SwapFails, UndoReplace, Restore, At, TypeOK, MemoryOK, Operation
<1>1. \A q \in Pinned(index) : SlotOf(index, q) \in Slot
  BY DEF Pinned, SlotOf, Slot, TypeOK, Selection, NoSel
<1>2. \A q \in Pinned(index) : SlotOf(index, q) = o.slot => Active(o.slot)
  BY DEF Active, SlotOf, Pinned
<1>3. CASE Swap(p)
  <2>1. /\ tree' = [tree EXCEPT ![o.slot] = o.rev] /\ o.pc = "swap"
        /\ op' = [op EXCEPT ![p].pc = "record"] /\ UNCHANGED <<index, lock>>
    BY <1>3 DEF Swap, At
  <2>2. /\ op'[p].pc = "record" /\ op'[p].kind = o.kind /\ op'[p].rev = o.rev
        /\ op'[p].created = o.created /\ op'[p].prev = o.prev /\ op'[p].frames = o.frames
        /\ op'[p].saved = o.saved /\ op'[p].slot = o.slot
    BY <1>0, <2>1 DEF TypeOK, MemoryOK, Operation
  <2>3. o.kind = "install" /\ o.rev \in Rev
    BY <1>0, <2>1 DEF OperationKeeps
  <2>4. \A q \in Pinned(index) : tree'[SlotOf(index, q)] \in Rev
    BY <1>0, <1>1, <2>1, <2>3 DEF OperationKeeps, InstallKeeps, Installs, TypeOK
  <2>5. OperationKeeps(op[p])'
    BY <1>0, <2>1, <2>2, <2>3, <2>4 DEF OperationKeeps, InstallKeeps,
       UninstallKeeps, Installs, Pinned, SlotOf, Displaced, Active
  <2>6. \E n : op' = [op EXCEPT ![p] = n]
    BY <2>1
  <2> QED BY <1>0, <2>1, <2>2, <2>3, <2>5, <2>6, InstallMoves DEF Installs
<1>4. CASE SwapFails(p) \/ Restore(p)
  <2>1. /\ tree' = [tree EXCEPT ![o.slot] = o.prev] /\ o.pc \in {"swap", "restore"}
        /\ \/ op' = [op EXCEPT ![p].pc = "rollback", ![p].prev = Absent] /\ o.pc = "swap"
           \/ op' = [op EXCEPT ![p].pc = "rollback", ![p].prev = Absent, ![p].saved = FALSE]
        /\ UNCHANGED <<index, lock>>
    BY <1>4 DEF SwapFails, Restore, At
  <2>2. Installs(o) /\ (o.pc = "swap" => ~o.saved) /\ (Active(o.slot) => o.prev \in Rev)
    BY <1>0, <2>1 DEF OperationKeeps, InstallKeeps, Installs, Displaced, SwapFails, Restore
  <2>3. /\ op'[p].pc = "rollback" /\ op'[p].kind = o.kind /\ op'[p].rev = o.rev
        /\ op'[p].created = o.created /\ op'[p].prev = Absent
        /\ op'[p].saved = FALSE /\ op'[p].slot = o.slot
    BY <1>0, <2>1, <2>2 DEF TypeOK, MemoryOK, Operation
  <2>4. \A q \in Pinned(index) : tree'[SlotOf(index, q)] \in Rev
    BY <1>0, <1>1, <1>2, <2>1, <2>2 DEF OperationKeeps, InstallKeeps, Installs, TypeOK
  <2>5. OperationKeeps(op[p])'
    BY <1>0, <2>1, <2>2, <2>3, <2>4 DEF OperationKeeps, InstallKeeps,
       UninstallKeeps, Installs, Pinned, SlotOf, Displaced, Active
  <2>6. \E n : op' = [op EXCEPT ![p] = n]
    BY <2>1
  <2> QED BY <1>0, <2>1, <2>2, <2>3, <2>5, <2>6, InstallMoves DEF Installs
<1>5. CASE UndoReplace(p)
  <2>1. /\ tree' = [tree EXCEPT ![o.slot] = Absent] /\ o.pc = "rollback" /\ o.saved
        /\ op' = [op EXCEPT ![p].pc = "restore"] /\ UNCHANGED <<index, lock>>
    BY <1>5 DEF UndoReplace, At
  <2>2. Installs(o) /\ o.prev # Absent /\ (Active(o.slot) => o.prev \in Rev)
    BY <1>0, <2>1 DEF OperationKeeps, InstallKeeps, Installs
  <2>3. /\ op'[p].pc = "restore" /\ op'[p].kind = o.kind /\ op'[p].rev = o.rev
        /\ op'[p].created = o.created /\ op'[p].prev = o.prev
        /\ op'[p].saved = o.saved /\ op'[p].slot = o.slot
    BY <1>0, <2>1 DEF TypeOK, MemoryOK, Operation
  <2>4. \A q \in Pinned(index) : \/ tree'[SlotOf(index, q)] \in Rev
                                 \/ SlotOf(index, q) = o.slot /\ tree'[o.slot] = Absent
    BY <1>0, <1>1, <2>1, <2>2 DEF OperationKeeps, InstallKeeps, Installs, Displaced, TypeOK
  <2>5. OperationKeeps(op[p])'
    BY <1>0, <2>1, <2>2, <2>3, <2>4 DEF OperationKeeps, InstallKeeps,
       UninstallKeeps, Installs, Pinned, SlotOf, Displaced, Active
  <2>6. \E n : op' = [op EXCEPT ![p] = n]
    BY <2>1
  <2> QED BY <1>0, <2>1, <2>2, <2>3, <2>5, <2>6, InstallMoves DEF Installs
<1> QED BY <1>3, <1>4, <1>5

\* A rollback removes only trees that were not selected when it began.
LEMMA DiscardKeeps ==
  ASSUME TypeOK, TypeOK', StoreInv, NEW p \in Proc, NEW s \in Slot, Discard(p, s)
  PROVE  StoreInv'
<1> DEFINE o == op[p]
<1>0. /\ o \in Operation /\ lock = p /\ OperationKeeps(o) /\ o.pc = "rollback"
      /\ Installs(o) /\ ~o.saved /\ s \in o.created
  BY DEF StoreInv, Discard, At, TypeOK, MemoryOK, OperationKeeps
<1>1. ~Active(s)
  BY <1>0 DEF OperationKeeps, InstallKeeps
<1>2. /\ UNCHANGED <<index, lock>> /\ \E x : tree' = [tree EXCEPT ![s] = x]
      /\ UNCHANGED op \/ op' = [op EXCEPT ![p].created = @ \ {s}]
  BY DEF Discard
<1>3. /\ op'[p].pc = "rollback" /\ op'[p].kind = o.kind /\ op'[p].rev = o.rev
      /\ op'[p].created \subseteq o.created /\ op'[p].prev = o.prev
      /\ op'[p].saved = o.saved /\ op'[p].slot = o.slot
  <2>1. CASE UNCHANGED op
    BY <1>0, <2>1
  <2>2. CASE op' = [op EXCEPT ![p].created = @ \ {s}]
    <3>1. op'[p] = [o EXCEPT !.created = @ \ {s}]
      BY <2>2 DEF TypeOK, MemoryOK
    <3> QED BY <1>0, <3>1 DEF Operation
  <2> QED BY <1>2, <2>1, <2>2
<1>4. \A q \in Pinned(index) : tree'[SlotOf(index, q)] = tree[SlotOf(index, q)]
  <2>1. \A q \in Pinned(index) : SlotOf(index, q) \in Slot /\ Active(SlotOf(index, q))
    BY DEF Pinned, SlotOf, Slot, TypeOK, Selection, NoSel, Active
  <2> QED BY <1>1, <1>2, <2>1 DEF TypeOK
<1>5. OperationKeeps(op[p])'
  BY <1>0, <1>2, <1>3, <1>4 DEF OperationKeeps, InstallKeeps,
     UninstallKeeps, Installs, Pinned, SlotOf, Displaced, Active
<1>6. \E n : op' = [op EXCEPT ![p] = n]
  <2>1. CASE UNCHANGED op
    <3>1. op' = [op EXCEPT ![p] = op[p]]
      BY <2>1 DEF TypeOK, MemoryOK
    <3> QED BY <3>1
  <2>2. CASE op' = [op EXCEPT ![p].created = @ \ {s}]
    BY <2>2
  <2> QED BY <1>2, <2>1, <2>2
<1> QED BY <1>0, <1>2, <1>3, <1>5, <1>6, InstallMoves DEF Installs

-----------------------------------------------------------------------------
(* The commit, shared by installs and uninstalls. *)

LEMMA CommitKeeps ==
  ASSUME TypeOK, TypeOK', StoreInv, NEW p \in Proc,
         Prepare(p) \/ (\E q \in Pkg : WriteSidecar(p, q)) \/ WriteIndex(p)
  PROVE  StoreInv'
<1> DEFINE o == op[p]
<1>0. /\ o \in Operation /\ lock = p /\ OperationKeeps(o) /\ o.pc \in {"prepare", "sidecars"}
      /\ o.slot \in Slot
  BY DEF StoreInv, Prepare, WriteSidecar, WriteIndex, At, TypeOK, MemoryOK, Operation
<1>1. CASE Prepare(p) \/ \E q \in Pkg : WriteSidecar(p, q)
  <2>1. /\ UNCHANGED <<tree, tomb, orphan, index, lock>>
        /\ \E n : op' = [op EXCEPT ![p] = n]
    BY <1>1 DEF Prepare, WriteSidecar, disk
  <2>2. /\ op'[p].pc = "sidecars" /\ op'[p].kind = o.kind /\ op'[p].rev = o.rev
        /\ op'[p].created = o.created /\ op'[p].prev = o.prev /\ op'[p].idx = o.idx
        /\ op'[p].saved = o.saved /\ op'[p].slot = o.slot /\ op'[p].edit = o.edit
        /\ op'[p].key = o.key /\ op'[p].frames = o.frames
    <3>1. CASE Prepare(p)
      <4>1. op'[p] = [o EXCEPT !.pc = "sidecars", !.left = Pinned(o.idx), !.snap = prov]
        BY <3>1 DEF Prepare, TypeOK, MemoryOK
      <4> QED BY <1>0, <4>1 DEF Operation
    <3>2. ASSUME NEW q \in Pkg, WriteSidecar(p, q) PROVE op'[p] = [o EXCEPT !.left = @ \ {q}]
                                                         /\ o.pc = "sidecars"
      BY <3>2 DEF WriteSidecar, At, TypeOK, MemoryOK
    <3>3. CASE \E q \in Pkg : WriteSidecar(p, q)
      <4>1. PICK q \in Pkg : op'[p] = [o EXCEPT !.left = @ \ {q}] /\ o.pc = "sidecars"
        BY <3>2, <3>3
      <4> QED BY <1>0, <4>1 DEF Operation
    <3> QED BY <1>1, <3>1, <3>3
  <2>3. Resolvable(o.idx)
    BY <1>0, <1>1 DEF Prepare, WriteSidecar, OperationKeeps, At
  <2>4. OperationKeeps(op[p])'
    BY ZenonT(60), <1>0, <2>1, <2>2, <2>3 DEF OperationKeeps, InstallKeeps, Resolvable,
       UninstallKeeps, Installs, Pinned, SlotOf, Displaced, Active
  <2>5. ActiveSurvives'
    <3>1. PICK n : op' = [op EXCEPT ![p] = n]
      BY <2>1
    <3>2. op'[p] = n
      BY <3>1 DEF TypeOK, MemoryOK
    <3> QED BY <2>1, <2>2, <3>1, <3>2, DiskSurvives DEF StoreInv
  <2> QED BY <1>0, <2>1, <2>4, <2>5, HolderMoves
<1>2. CASE WriteIndex(p)
  <2>1. /\ UNCHANGED <<tree, tomb, orphan, lock>> /\ index' = o.idx /\ o.pc = "sidecars"
        /\ op' = [op EXCEPT ![p].pc = "committed"]
    BY <1>2 DEF WriteIndex, At
  <2>2. /\ op'[p].pc = "committed" /\ op'[p].kind = o.kind /\ op'[p].rev = o.rev
        /\ op'[p].created = o.created /\ op'[p].prev = o.prev /\ op'[p].idx = o.idx
        /\ op'[p].saved = o.saved /\ op'[p].slot = o.slot /\ op'[p].edit = o.edit
        /\ op'[p].key = o.key /\ op'[p].frames = o.frames
    BY <1>0, <2>1 DEF TypeOK, MemoryOK, Operation
  <2>3. \A q \in Pinned(index)' : tree'[SlotOf(index, q)'] \in Rev
    BY <1>0, <2>1 DEF OperationKeeps, Resolvable, Pinned, SlotOf
  <2>4. OperationKeeps(op[p])'
    BY <1>0, <2>1, <2>2, <2>3 DEF OperationKeeps, InstallKeeps, Resolvable,
       UninstallKeeps, Installs, Displaced, Active
  <2>5. ActiveSurvives'
    BY <2>3, RevAssumption DEF ActiveSurvives, Survives
  <2>6. \E n : op' = [op EXCEPT ![p] = n]
    BY <2>1
  <2> QED BY <1>0, <2>1, <2>4, <2>5, <2>6, HolderMoves
<1> QED BY <1>1, <1>2

\* The end of an install or switch, and a failure of one.
LEMMA ConcludeKeeps ==
  ASSUME TypeOK, TypeOK', StoreInv, NEW p \in Proc,
         ConcludeInstall(p) \/ RolledBack(p) \/ FailInstall(p)
  PROVE  StoreInv'
<1> DEFINE o == op[p]
<1>0. /\ o \in Operation /\ lock = p /\ OperationKeeps(o) /\ ActiveSurvives
      /\ UNCHANGED <<tree, tomb, orphan, index>> /\ Installs(o)
      /\ o.pc \in {"load", "resolve", "activate", "prepare", "sidecars", "committed", "rollback"}
  BY DEF StoreInv, ConcludeInstall, RolledBack, FailInstall, At, TypeOK, MemoryOK, Operation, disk,
     OperationKeeps
<1>1. CASE Release(p)
  <2>1. CASE o.pc = "load"
    <3>1. o.prev = Absent
      BY <1>0, <2>1 DEF OperationKeeps
    <3>2. op' = [op EXCEPT ![p] = Idle]
      BY <1>1 DEF Release
    <3>3. ActiveSurvives'
      BY <1>0, <3>1, <3>2, RevAssumption, DiskSurvives
    <3> QED BY <1>0, <1>1, <3>3, HolderLeaves
  <2>2. CASE o.pc # "load"
    <3>1. \A q \in Pinned(index) : tree[SlotOf(index, q)] \in Rev
      BY <1>0, <2>2 DEF OperationKeeps, InstallKeeps, Displaced
    <3>2. ActiveSurvives'
      BY <1>0, <3>1, RevAssumption DEF ActiveSurvives, Survives, Pinned, SlotOf
    <3> QED BY <1>0, <1>1, <3>2, HolderLeaves
  <2> QED BY <2>1, <2>2
<1>2. CASE op' = [op EXCEPT ![p].pc = "rollback"] /\ UNCHANGED lock /\ o.pc # "load"
           /\ o.pc # "committed"
  <2>1. /\ op'[p].pc = "rollback" /\ op'[p].kind = o.kind /\ op'[p].rev = o.rev
        /\ op'[p].created = o.created /\ op'[p].prev = o.prev
        /\ op'[p].saved = o.saved /\ op'[p].slot = o.slot
    BY <1>0, <1>2 DEF TypeOK, MemoryOK, Operation
  <2>2. OperationKeeps(op[p])'
    BY <1>0, <1>2, <2>1 DEF OperationKeeps, InstallKeeps, Resolvable,
       UninstallKeeps, Installs, Displaced, Active, Pinned, SlotOf
  <2>3. \E n : op' = [op EXCEPT ![p] = n]
    BY <1>2
  <2> QED BY <1>0, <1>2, <2>1, <2>2, <2>3, InstallMoves DEF Installs
<1> QED BY <1>0, <1>1, <1>2 DEF ConcludeInstall, RolledBack, FailInstall, At

LEMMA CrashKeeps ==
  ASSUME TypeOK, StoreInv, NEW p \in Proc, Crash(p)
  PROVE  StoreInv'
<1> DEFINE o == op[p]
<1>1. op' = [op EXCEPT ![p] = Idle] /\ UNCHANGED <<tree, tomb, index>> /\ orphan \subseteq orphan'
      /\ (o.prev \in Rev => o.slot \in orphan')
  BY DEF Crash, Release, Abandoned
<1>2. ActiveSurvives'
  BY <1>1, DiskSurvives DEF StoreInv
<1> QED BY <1>2, HolderLeaves DEF Crash

LEMMA BeginKeeps ==
  ASSUME TypeOK, TypeOK', StoreInv, NEW p \in Proc, Start(p)
  PROVE  StoreInv'
<1>0. lock = NoProc /\ op[p] = Idle /\ \A r \in Proc : r # lock
  BY ProcAssumption DEF Start, BeginInstall, BeginSwitch, BeginUninstall, Begin, StoreInv, Exclusive
<1>1. PICK o : /\ lock' = p /\ op' = [op EXCEPT ![p] = [o EXCEPT !.pc = "load"]] /\ UNCHANGED disk
               /\ o.kind = "install" => o.rev \in Rev
               /\ o.prev = Absent /\ o.created = {} /\ ~o.saved
               /\ o.kind = "uninstall" /\ ~o.exact /\ index[o.slot[1]].ver # 0 =>
                     index[o.slot[1]].ver = o.slot[2]
               /\ {"pc", "kind", "rev", "prev", "created", "saved", "exact", "slot"} \subseteq DOMAIN o
  <2>1. CASE BeginInstall(p)
    <3>1. PICK s \in Offered, r \in Rev, edit, reinstall \in BOOLEAN :
            Begin(p, [Idle EXCEPT !.kind = "install", !.slot = s, !.rev = r, !.edit = edit,
                                  !.reinstall = reinstall])
      BY <2>1 DEF BeginInstall
    <3> DEFINE o == [Idle EXCEPT !.kind = "install", !.slot = s, !.rev = r, !.edit = edit,
                                 !.reinstall = reinstall]
    <3>2. o.kind = "install" /\ o.rev = r /\ o.prev = Absent /\ o.created = {} /\ ~o.saved
          /\ {"pc", "kind", "rev", "prev", "created", "saved", "exact", "slot"} \subseteq DOMAIN o
      BY DEF Idle
    <3>3. lock' = p /\ op' = [op EXCEPT ![p] = [o EXCEPT !.pc = "load"]] /\ UNCHANGED disk
      BY <3>1 DEF Begin
    <3> HIDE DEF o
    <3> QED BY <3>2, <3>3
  <2>2. CASE BeginSwitch(p)
    <3>1. PICK s \in Offered : Begin(p, [Idle EXCEPT !.kind = "switch", !.slot = s])
      BY <2>2 DEF BeginSwitch
    <3> DEFINE o == [Idle EXCEPT !.kind = "switch", !.slot = s]
    <3>2. o.kind = "switch" /\ o.prev = Absent /\ o.created = {} /\ ~o.saved
          /\ {"pc", "kind", "rev", "prev", "created", "saved", "exact", "slot"} \subseteq DOMAIN o
      BY DEF Idle
    <3>3. lock' = p /\ op' = [op EXCEPT ![p] = [o EXCEPT !.pc = "load"]] /\ UNCHANGED disk
      BY <3>1 DEF Begin
    <3> HIDE DEF o
    <3> QED BY <3>2, <3>3
  <2>3. CASE BeginUninstall(p)
    <3> DEFINE target(s, exact) == IF exact \/ index[s[1]].ver = 0 THEN s ELSE SlotOf(index, s[1])
    <3>1. PICK s \in Offered, exact \in BOOLEAN :
            Begin(p, [Idle EXCEPT !.kind = "uninstall", !.slot = target(s, exact), !.exact = exact])
      BY <2>3 DEF BeginUninstall
    <3>2. ~exact /\ index[target(s, exact)[1]].ver # 0 =>
            index[target(s, exact)[1]].ver = target(s, exact)[2]
      BY DEF SlotOf
    <3> DEFINE o == [Idle EXCEPT !.kind = "uninstall", !.slot = target(s, exact), !.exact = exact]
    <3>3. o.kind = "uninstall" /\ o.prev = Absent /\ o.created = {} /\ ~o.saved
          /\ o.slot = target(s, exact) /\ o.exact = exact
          /\ {"pc", "kind", "rev", "prev", "created", "saved", "exact", "slot"} \subseteq DOMAIN o
      BY DEF Idle
    <3>4. lock' = p /\ op' = [op EXCEPT ![p] = [o EXCEPT !.pc = "load"]] /\ UNCHANGED disk
      BY <3>1 DEF Begin
    <3> HIDE DEF o, target
    <3> QED BY <3>2, <3>3, <3>4
  <2> QED BY <2>1, <2>2, <2>3 DEF Start
<1>2. op'[p] = [o EXCEPT !.pc = "load"] /\ \A r \in Proc : r # p => op'[r] = Idle
  BY <1>0, <1>1 DEF TypeOK, MemoryOK, StoreInv, Exclusive
<1>3. /\ op'[p].pc = "load" /\ op'[p].kind = o.kind /\ op'[p].rev = o.rev
      /\ op'[p].created = {} /\ op'[p].prev = Absent /\ ~op'[p].saved
      /\ op'[p].exact = o.exact /\ op'[p].slot = o.slot
  BY <1>1, <1>2
<1>4. OperationKeeps(op[p])'
  BY <1>1, <1>3 DEF OperationKeeps, InstallKeeps, UninstallKeeps, disk
<1>5. Idle.prev \notin Rev
  BY RevAssumption DEF Idle
<1>6. ActiveSurvives'
  BY <1>0, <1>1, <1>5, DiskSurvives DEF StoreInv, disk
<1>7. Exclusive'
  BY <1>1, <1>2 DEF Exclusive
<1> QED BY <1>1, <1>4, <1>6, <1>7 DEF StoreInv

-----------------------------------------------------------------------------
(* Uninstall. *)

\* A step of an uninstall that leaves the selected trees and their tombstones alone.
LEMMA UninstallMoves ==
  ASSUME TypeOK, TypeOK', StoreInv, NEW p \in Proc, lock = p, op[p].kind = "uninstall",
         UNCHANGED <<tree, tomb, orphan, index, lock>>,
         NEW n, op' = [op EXCEPT ![p] = n], OperationKeeps(op[p])'
  PROVE  StoreInv'
<1>1. op[p].prev = Absent
  BY DEF StoreInv, OperationKeeps, Installs
<1>2. ActiveSurvives'
  BY <1>1, RevAssumption, DiskSurvives DEF StoreInv
<1> QED BY <1>2, HolderMoves

LEMMA TargetKeeps ==
  ASSUME TypeOK, TypeOK', StoreInv, NEW p \in Proc,
         UninstallLeftover(p) \/ UninstallEditable(p) \/ UninstallInactive(p) \/ ConcludeUninstall(p)
  PROVE  StoreInv'
<1> DEFINE o == op[p]
<1>0. /\ o \in Operation /\ lock = p /\ OperationKeeps(o) /\ o.kind = "uninstall"
      /\ o.slot[1] \in Pkg /\ o.slot[2] \in Ver /\ o.prev = Absent /\ o.pc \in {"load", "committed"}
  BY DEF StoreInv, UninstallLeftover, UninstallEditable, UninstallInactive, ConcludeUninstall,
     Uninstalls, At, TypeOK, MemoryOK, Operation, OperationKeeps, Installs, Slot
<1>1. CASE UninstallLeftover(p)
  <2>1. /\ op' = [op EXCEPT ![p].pc = "finish", ![p].key = KeyOf(o)]
        /\ UNCHANGED <<tree, tomb, orphan, index, lock>>
        /\ ~o.exact /\ index[o.slot[1]].ver = 0
    BY <1>1 DEF UninstallLeftover, disk
  <2>2. KeyOf(o) = <<o.slot[1], 0>>
    BY <2>1 DEF KeyOf
  <2>3. op'[p] = [o EXCEPT !.pc = "finish", !.key = KeyOf(o)]
    BY <2>1 DEF TypeOK, MemoryOK
  <2>4. /\ op'[p].pc = "finish" /\ op'[p].kind = "uninstall" /\ op'[p].prev = Absent
        /\ op'[p].key = KeyOf(o)
    BY <1>0, <2>3 DEF Operation
  <2>5. index'[op'[p].key[1]].ver = 0
    <3>1. op'[p].key[1] = o.slot[1]
      BY <2>2, <2>4
    <3> QED BY <2>1, <3>1
  <2>6. OperationKeeps(op[p])'
    BY <2>4, <2>5 DEF OperationKeeps, InstallKeeps, UninstallKeeps, Installs
  <2> QED BY <1>0, <2>1, <2>6, UninstallMoves
<1>2. CASE UninstallEditable(p)
  <2>1. /\ op' = [op EXCEPT ![p].pc = "prepare", ![p].idx = Without(o), ![p].edit = TRUE]
        /\ UNCHANGED <<tree, tomb, orphan, index, lock>>
    BY <1>2 DEF UninstallEditable, disk
  <2>2. Without(o)[o.slot[1]].ver = 0
    BY <1>0 DEF Without, TypeOK, NoSel
  <2>3. op'[p] = [o EXCEPT !.pc = "prepare", !.idx = Without(o), !.edit = TRUE]
    BY <2>1 DEF TypeOK, MemoryOK
  <2>4. /\ op'[p].pc = "prepare" /\ op'[p].kind = "uninstall" /\ op'[p].prev = Absent
        /\ op'[p].edit = TRUE /\ op'[p].idx = Without(o) /\ op'[p].slot = o.slot
    BY <1>0, <2>3 DEF Operation
  <2>5. OperationKeeps(op[p])'
    BY <2>1, <2>2, <2>4 DEF OperationKeeps, InstallKeeps, UninstallKeeps, Installs
  <2> QED BY <1>0, <2>1, <2>5, UninstallMoves
<1>3. CASE UninstallInactive(p)
  <2>1. /\ op' = [op EXCEPT ![p].pc = IF tomb[KeyOf(o)] = NoTomb THEN "hide" ELSE "sweep",
                            ![p].key = KeyOf(o)]
        /\ UNCHANGED <<tree, tomb, orphan, index, lock>>
        /\ o.exact /\ ~IsActive(o)
    BY <1>3 DEF UninstallInactive, disk
  <2>2. KeyOf(o)[2] # 0 /\ ~Active(o.slot)
    BY <1>0, <2>1, VerAssumption DEF KeyOf, IsActive, Active
  <2>3. PICK pc \in {"hide", "sweep"} : op'[p] = [o EXCEPT !.pc = pc, !.key = KeyOf(o)]
    BY <2>1 DEF TypeOK, MemoryOK
  <2>4. /\ op'[p].pc \in {"hide", "sweep"} /\ op'[p].kind = "uninstall" /\ op'[p].prev = Absent
        /\ op'[p].key = KeyOf(o) /\ op'[p].slot = o.slot
    BY <1>0, <2>3 DEF Operation
  <2>5. OperationKeeps(op[p])'
    BY <2>1, <2>2, <2>4 DEF OperationKeeps, InstallKeeps, UninstallKeeps, Installs, Active
  <2> QED BY <1>0, <2>1, <2>5, UninstallMoves
<1>4. CASE ConcludeUninstall(p)
  <2>1. /\ UNCHANGED <<tree, tomb, orphan, index>> /\ o.pc = "committed"
        /\ \/ o.edit /\ Release(p)
           \/ ~o.edit /\ op' = [op EXCEPT ![p].pc = "finish"] /\ UNCHANGED lock
    BY <1>4 DEF ConcludeUninstall, disk, At
  <2>2. CASE Release(p)
    <3>1. ActiveSurvives'
      BY <1>0, <2>1, <2>2, RevAssumption, DiskSurvives DEF StoreInv, Release
    <3> QED BY <1>0, <2>2, <3>1, HolderLeaves
  <2>3. CASE ~o.edit /\ op' = [op EXCEPT ![p].pc = "finish"] /\ UNCHANGED lock
    <3>1. op'[p] = [o EXCEPT !.pc = "finish"]
      BY <2>3 DEF TypeOK, MemoryOK
    <3>2. /\ op'[p].pc = "finish" /\ op'[p].kind = "uninstall" /\ op'[p].prev = Absent
          /\ op'[p].key = o.key
      BY <1>0, <3>1 DEF Operation
    <3>3. o.key = <<o.slot[1], 0>> /\ index[o.slot[1]].ver = 0
      BY <1>0, <2>1, <2>3 DEF OperationKeeps, UninstallKeeps
    <3>4. OperationKeeps(op[p])'
      BY <2>1, <3>2, <3>3 DEF OperationKeeps, InstallKeeps, UninstallKeeps, Installs
    <3> QED BY <1>0, <2>1, <2>3, <3>4, UninstallMoves
  <2> QED BY <2>1, <2>2, <2>3
<1> QED BY <1>1, <1>2, <1>3, <1>4

\* The tombstone of an active package is put back, or removed while its tree is
\* in place.
LEMMA ActiveTargetKeeps ==
  ASSUME TypeOK, TypeOK', StoreInv, NEW p \in Proc, UninstallActive(p)
  PROVE  StoreInv'
<1> DEFINE o == op[p]
           s == o.slot
           key == KeyOf(o)
<1>0. /\ o \in Operation /\ lock = p /\ OperationKeeps(o) /\ o.kind = "uninstall" /\ o.pc = "load"
      /\ s \in Slot /\ s[1] \in Pkg /\ s[2] \in Ver /\ o.prev = Absent /\ lock' = lock
      /\ UNCHANGED <<orphan, index>>
  BY DEF StoreInv, UninstallActive, Uninstalls, At, TypeOK, MemoryOK, Operation, OperationKeeps,
     Installs, Slot, disk
<1>1. Active(s) /\ key = <<s[1], 0>> /\ key \in TombKey
  BY <1>0 DEF UninstallActive, IsActive, Active, KeyOf, OperationKeeps, UninstallKeeps, TombKey
<1>2. PICK pc \in {"hide", "sweep"} : op' = [op EXCEPT ![p].pc = pc, ![p].key = key]
  BY DEF UninstallActive
<1>3. op'[p] = [o EXCEPT !.pc = pc, !.key = key] /\ \A r \in Proc : r # p => op'[r] = op[r]
  BY <1>2 DEF TypeOK, MemoryOK
<1>4. /\ op'[p].pc \in {"hide", "sweep"} /\ op'[p].kind = "uninstall" /\ op'[p].prev = Absent
      /\ op'[p].key = key /\ op'[p].slot = s
  BY <1>0, <1>3 DEF Operation
<1>5. /\ tree'[s] \in Rev
      /\ \A t \in Slot : t # s => tree'[t] = tree[t]
      /\ \A k \in TombKey : k # key => tomb'[k] = tomb[k]
  BY <1>0, <1>1 DEF UninstallActive, disk, TypeOK
<1>6. OperationKeeps(op[p])'
  <2>1. key[1] = s[1] /\ key[2] = 0
    BY <1>1
  <2> QED BY <1>0, <1>1, <1>4, <1>5, <2>1 DEF OperationKeeps, InstallKeeps, UninstallKeeps,
          Installs, Active
<1>7. ActiveSurvives'
  <2> SUFFICES ASSUME NEW q \in Pinned(index)
               PROVE  Survives(SlotOf(index, q))' /\ tree'[SlotOf(index, q)] # Partial
    BY <1>0 DEF ActiveSurvives, Pinned, SlotOf
  <2> DEFINE t == SlotOf(index, q)
  <2>1. t \in Slot /\ t[1] = q /\ <<t[1], 0>> \in TombKey
    BY DEF Pinned, SlotOf, Slot, TypeOK, Selection, NoSel, TombKey
  <2>2. CASE t = s
    BY <1>0, <1>5, <2>2, RevAssumption DEF Survives, SlotOf
  <2>3. CASE t # s
    <3>1. q # s[1]
      BY <1>1, <2>3, <1>0 DEF Active, SlotOf, Slot
    <3>2. Survives(t) /\ tree[t] # Partial
      BY DEF StoreInv, ActiveSurvives
    <3>3. tree'[t] = tree[t] /\ tomb'[<<t[1], 0>>] = tomb[<<t[1], 0>>]
      BY <1>1, <1>5, <2>1, <2>3, <3>1
    <3>4. ~(op[p].slot = t /\ op[p].prev \in Rev)
      BY <2>3
    <3> QED BY <1>0, <1>3, <3>2, <3>3, <3>4 DEF Survives, SlotOf
  <2> QED BY <2>2, <2>3
<1> QED BY <1>0, <1>2, <1>6, <1>7, HolderMoves

\* A tree disappears from its place only into the tombstone of its package.
LEMMA HideKeeps ==
  ASSUME TypeOK, TypeOK', StoreInv, NEW p \in Proc, Hide(p)
  PROVE  StoreInv'
<1> DEFINE o == op[p]
           s == o.slot
           key == o.key
<1>0. /\ o \in Operation /\ lock = p /\ OperationKeeps(o) /\ o.pc = "hide"
      /\ s \in Slot /\ s[1] \in Pkg /\ s[2] \in Ver /\ key \in TombKey
      /\ UNCHANGED <<orphan, index>>
  BY DEF StoreInv, Hide, At, TypeOK, MemoryOK, Operation, Slot
<1>1. o.kind = "uninstall" /\ o.prev = Absent
  BY <1>0 DEF OperationKeeps, Installs
<1>2. CASE Release(p) /\ UNCHANGED <<tree, tomb>>
  <2>1. ActiveSurvives'
    BY <1>0, <1>1, <1>2, RevAssumption, DiskSurvives DEF StoreInv, Release
  <2> QED BY <1>0, <1>2, <2>1, HolderLeaves
<1>3. ASSUME tree[s] \in Rev,
             tree' = [tree EXCEPT ![s] = Absent],
             tomb' = [tomb EXCEPT ![key] = [ver |-> s[2], body |-> tree[s]]],
             NEW pc, pc = IF key[2] # 0 THEN "finish" ELSE "prepare",
             op' = [op EXCEPT ![p].pc = pc, ![p].idx = Without(o)],
             UNCHANGED lock
      PROVE  StoreInv'
  <2>1. op'[p] = [o EXCEPT !.pc = pc, !.idx = Without(o)] /\ \A r \in Proc : r # p => op'[r] = op[r]
    BY <1>3 DEF TypeOK, MemoryOK
  <2>2. /\ op'[p].pc = pc /\ op'[p].kind = "uninstall" /\ op'[p].prev = Absent
        /\ op'[p].key = key /\ op'[p].slot = s /\ op'[p].idx = Without(o)
    BY <1>0, <1>1, <2>1 DEF Operation
  <2>3. Without(o)[s[1]].ver = 0
    BY <1>0 DEF Without, TypeOK, NoSel
  <2>4. CASE key[2] = 0
    <3>1. Active(s) /\ key = <<s[1], 0>>
      BY <1>0, <1>1, <2>4 DEF OperationKeeps, UninstallKeeps, TombKey
    <3>2. tomb'[key].body \in Rev /\ tomb'[key].ver = s[2]
      BY <1>0, <1>3 DEF TypeOK
    <3>5. op'[p].pc = "prepare" /\ op'[p].key = <<op'[p].slot[1], 0>>
          /\ op'[p].idx[op'[p].slot[1]].ver = 0 /\ tomb'[op'[p].key].body \in Rev
      BY <1>3, <2>2, <2>3, <2>4, <3>1, <3>2
    <3>3. OperationKeeps(op[p])'
      BY <1>0, <2>2, <3>1, <3>5 DEF OperationKeeps, InstallKeeps, UninstallKeeps, Active,
         Installs
    <3>4. ActiveSurvives'
      <4> SUFFICES ASSUME NEW q \in Pinned(index)
                   PROVE  Survives(SlotOf(index, q))' /\ tree'[SlotOf(index, q)] # Partial
        BY <1>0 DEF ActiveSurvives, Pinned, SlotOf
      <4> DEFINE t == SlotOf(index, q)
      <4>1. t \in Slot /\ t[1] = q /\ <<t[1], 0>> \in TombKey
        BY DEF Pinned, SlotOf, Slot, TypeOK, Selection, NoSel, TombKey
      <4>2. Survives(t) /\ tree[t] # Partial
        BY DEF StoreInv, ActiveSurvives
      <4>3. CASE t = s
        <5>1. tree'[t] = Absent
          BY <1>0, <1>3, <4>3 DEF TypeOK
        <5>2. tomb'[<<t[1], 0>>].body \in Rev /\ tomb'[<<t[1], 0>>].ver = t[2]
          BY <3>1, <3>2, <4>3
        <5>3. Survives(t)'
          BY <1>0, <5>2 DEF Survives, SlotOf
        <5> QED BY <5>1, <5>3 DEF Absent, Partial
      <4>4. CASE t # s
        <5>1. q # s[1]
          BY <1>0, <3>1, <4>4 DEF Active, SlotOf, Slot
        <5>2. tree'[t] = tree[t] /\ tomb'[<<t[1], 0>>] = tomb[<<t[1], 0>>]
          BY <1>0, <1>3, <3>1, <4>1, <4>4, <5>1 DEF TypeOK
        <5>3. \A r \in Proc : op'[r].slot = op[r].slot /\ op'[r].prev = op[r].prev
          BY <1>1, <2>1, <2>2
        <5> QED BY <1>0, <4>2, <5>2, <5>3 DEF Survives, SlotOf
      <4> QED BY <4>3, <4>4
    <3> QED BY <1>0, <1>3, <3>3, <3>4, HolderMoves
  <2>5. CASE key[2] # 0
    <3>1. ~Active(s)
      BY <1>0, <1>1, <2>5 DEF OperationKeeps, UninstallKeeps
    <3>4. op'[p].pc = "finish" /\ op'[p].key[2] # 0
      BY <1>3, <2>2, <2>5
    <3>2. OperationKeeps(op[p])'
      BY <2>2, <3>4 DEF OperationKeeps, InstallKeeps, UninstallKeeps, Installs
    <3>3. ActiveSurvives'
      <4> SUFFICES ASSUME NEW q \in Pinned(index)
                   PROVE  Survives(SlotOf(index, q))' /\ tree'[SlotOf(index, q)] # Partial
        BY <1>0 DEF ActiveSurvives, Pinned, SlotOf
      <4> DEFINE t == SlotOf(index, q)
      <4>1. t \in Slot /\ <<t[1], 0>> \in TombKey /\ t # s
        BY <3>1 DEF Pinned, SlotOf, Slot, TypeOK, Selection, NoSel, TombKey, Active
      <4>2. Survives(t) /\ tree[t] # Partial
        BY DEF StoreInv, ActiveSurvives
      <4>3. tree'[t] = tree[t] /\ tomb'[<<t[1], 0>>] = tomb[<<t[1], 0>>]
        BY <1>0, <1>3, <2>5, <4>1 DEF TypeOK
      <4>4. \A r \in Proc : op'[r].slot = op[r].slot /\ op'[r].prev = op[r].prev
        BY <1>1, <2>1, <2>2
      <4> QED BY <1>0, <4>2, <4>3, <4>4 DEF Survives, SlotOf
    <3> QED BY <1>0, <1>3, <3>2, <3>3, HolderMoves
  <2> QED BY <2>4, <2>5
<1> QED BY <1>2, <1>3 DEF Hide

\* A tombstone is emptied only when the selected tree is in place or its package
\* is no longer selected.
LEMMA SweepKeeps ==
  ASSUME TypeOK, TypeOK', StoreInv, NEW p \in Proc, Strip(p) \/ Swept(p)
  PROVE  StoreInv'
<1> DEFINE o == op[p]
           s == o.slot
           key == o.key
<1>0. /\ o \in Operation /\ lock = p /\ OperationKeeps(o)
      /\ o.pc \in {"sweep", "swept", "finish", "finished"}
      /\ key \in TombKey /\ s \in Slot /\ UNCHANGED <<tree, orphan, index>>
      /\ \E x : tomb' = [tomb EXCEPT ![key] = x]
  BY DEF StoreInv, Strip, Swept, At, TypeOK, MemoryOK, Operation
<1>1. o.kind = "uninstall" /\ o.prev = Absent
  BY <1>0 DEF OperationKeeps, Installs
<1>2. \/ Release(p)
      \/ /\ UNCHANGED lock
         /\ \E pc : /\ op' = [op EXCEPT ![p].pc = pc]
                    /\ \/ o.pc = "sweep" /\ pc = "swept"
                       \/ o.pc = "swept" /\ pc = "hide"
                       \/ o.pc = "finish" /\ pc = "finished"
  BY <1>0 DEF Strip, Swept, At, TypeOK, MemoryOK
<1>3. \A r \in Proc : r # p => op'[r] = op[r]
  BY <1>2 DEF TypeOK, MemoryOK, Release
<1>4. ActiveSurvives'
  <2> SUFFICES ASSUME NEW q \in Pinned(index)
               PROVE  Survives(SlotOf(index, q))' /\ tree'[SlotOf(index, q)] # Partial
    BY <1>0 DEF ActiveSurvives, Pinned, SlotOf
  <2> DEFINE t == SlotOf(index, q)
  <2>1. t \in Slot /\ t[1] = q /\ <<t[1], 0>> \in TombKey /\ Active(t)
    BY DEF Pinned, SlotOf, Slot, TypeOK, Selection, NoSel, TombKey, Active
  <2>2. Survives(t) /\ tree[t] # Partial
    BY DEF StoreInv, ActiveSurvives
  <2>3. CASE key = <<t[1], 0>>
    <3>1. o.pc \in {"finish", "finished"} => index[q].ver = 0
      BY <1>0, <1>1, <2>1, <2>3 DEF OperationKeeps, UninstallKeeps
    <3>2. o.pc \in {"sweep", "swept"}
      BY <1>0, <3>1 DEF Pinned
    <3>3. Active(s) /\ tree[s] \in Rev /\ s[1] = q
      BY <1>0, <1>1, <2>1, <2>3, <3>2 DEF OperationKeeps, UninstallKeeps
    <3>4. t = s
      BY <1>0, <2>1, <3>3 DEF Active, Slot
    <3> QED BY <1>0, <2>2, <3>3, <3>4 DEF Survives, SlotOf
  <2>4. CASE key # <<t[1], 0>>
    <3>1. tomb'[<<t[1], 0>>] = tomb[<<t[1], 0>>]
      BY <1>0, <2>1, <2>4 DEF TypeOK
    <3>2. ~(op[p].slot = t /\ op[p].prev \in Rev)
      BY <1>1, RevAssumption
    <3> QED BY <1>0, <1>3, <2>2, <3>1, <3>2 DEF Survives, SlotOf
  <2> QED BY <2>3, <2>4
<1>5. CASE Release(p)
  BY <1>0, <1>4, <1>5, HolderLeaves
<1>6. ASSUME UNCHANGED lock, NEW pc, op' = [op EXCEPT ![p].pc = pc],
             \/ o.pc = "sweep" /\ pc = "swept"
             \/ o.pc = "swept" /\ pc = "hide"
             \/ o.pc = "finish" /\ pc = "finished"
      PROVE  StoreInv'
  <2>1. op'[p] = [o EXCEPT !.pc = pc]
    BY <1>6 DEF TypeOK, MemoryOK
  <2>2. /\ op'[p].pc = pc /\ op'[p].kind = "uninstall" /\ op'[p].prev = Absent
        /\ op'[p].key = key /\ op'[p].slot = s
    BY <1>0, <1>1, <2>1 DEF Operation
  <2>3. OperationKeeps(op[p])'
    BY ZenonT(60), <1>0, <1>1, <1>6, <2>2 DEF OperationKeeps, InstallKeeps, UninstallKeeps, Installs, Active
  <2> QED BY <1>0, <1>4, <1>6, <2>3, HolderMoves
<1> QED BY <1>2, <1>5, <1>6

\* An uninstall that fails before its commit puts the tree back.
LEMMA FailUninstallKeeps ==
  ASSUME TypeOK, StoreInv, NEW p \in Proc, FailUninstall(p)
  PROVE  StoreInv'
<1> DEFINE o == op[p]
           s == o.slot
           key == o.key
<1>0. /\ o \in Operation /\ lock = p /\ OperationKeeps(o) /\ o.kind = "uninstall"
      /\ key \in TombKey /\ s \in Slot /\ UNCHANGED <<orphan, index>> /\ Release(p)
      /\ op' = [op EXCEPT ![p] = Idle]
  BY DEF StoreInv, FailUninstall, TypeOK, MemoryOK, Operation, Release
<1>1. o.prev = Absent
  BY <1>0 DEF OperationKeeps, Installs
<1>2. CASE UNCHANGED <<tree, tomb>>
  <2>1. ActiveSurvives'
    BY <1>0, <1>1, <1>2, RevAssumption, DiskSurvives DEF StoreInv
  <2> QED BY <1>0, <2>1, HolderLeaves
<1>3. CASE /\ o.pc \in {"prepare", "sidecars"} /\ ~o.edit
           /\ tree' = [tree EXCEPT ![s] = tomb[key].body]
           /\ tomb' = [tomb EXCEPT ![key] = NoTomb]
  <2>1. key = <<s[1], 0>> /\ tomb[key].body \in Rev
    BY <1>0, <1>3 DEF OperationKeeps, UninstallKeeps
  <2>2. ActiveSurvives'
    <3> SUFFICES ASSUME NEW q \in Pinned(index)
                 PROVE  Survives(SlotOf(index, q))' /\ tree'[SlotOf(index, q)] # Partial
      BY <1>0 DEF ActiveSurvives, Pinned, SlotOf
    <3> DEFINE t == SlotOf(index, q)
    <3>1. t \in Slot /\ t[1] = q /\ <<t[1], 0>> \in TombKey
      BY DEF Pinned, SlotOf, Slot, TypeOK, Selection, NoSel, TombKey
    <3>2. Survives(t) /\ tree[t] # Partial
      BY DEF StoreInv, ActiveSurvives
    <3>3. CASE t = s
      <4>1. tree'[t] \in Rev
        BY <1>0, <1>3, <2>1, <3>3 DEF TypeOK
      <4> QED BY <1>0, <4>1, RevAssumption DEF Survives, SlotOf
    <3>4. CASE t # s /\ q = s[1]
      <4>1. Active(s)
        BY <1>0, <1>3 DEF OperationKeeps, UninstallKeeps
      <4>2. t = s
        BY <1>0, <3>1, <3>4, <4>1 DEF Active, SlotOf, Slot
      <4> QED BY <3>4, <4>2
    <3>5. CASE t # s /\ q # s[1]
      <4>1. tree'[t] = tree[t] /\ tomb'[<<t[1], 0>>] = tomb[<<t[1], 0>>]
        BY <1>0, <1>3, <2>1, <3>1, <3>5 DEF TypeOK
      <4>2. \A r \in Proc : r # p => op'[r] = op[r]
        BY <1>0 DEF TypeOK, MemoryOK
      <4>3. ~(op[p].slot = t /\ op[p].prev \in Rev)
        BY <3>5
      <4> QED BY <1>0, <3>2, <4>1, <4>2, <4>3 DEF Survives, SlotOf
    <3> QED BY <3>3, <3>4, <3>5
  <2> QED BY <1>0, <2>2, HolderLeaves
<1> QED BY <1>2, <1>3 DEF FailUninstall

-----------------------------------------------------------------------------
LEMMA InitKeeps == Init => StoreInv
BY ProcAssumption DEF Init, StoreInv, ActiveSurvives, Exclusive, Pinned, Blank, NoSel

LEMMA NextKeeps == TypeOK /\ TypeOK' /\ StoreInv /\ [Next]_vars => StoreInv'
<1> SUFFICES ASSUME TypeOK, TypeOK', StoreInv, [Next]_vars PROVE StoreInv'
  OBVIOUS
<1>1. CASE UNCHANGED vars
  <2>1. tree' = tree /\ tomb' = tomb /\ orphan' = orphan /\ index' = index /\ lock' = lock /\ op' = op
    BY <1>1 DEF vars
  <2>2. ActiveSurvives'
    BY <2>1, Zenon DEF StoreInv, ActiveSurvives, Survives, Pinned, SlotOf
  <2>3. Exclusive'
    BY <2>1, Zenon DEF StoreInv, Exclusive
  <2>4. ASSUME NEW p \in Proc, lock' = p PROVE OperationKeeps(op[p])'
    <3>1. OperationKeeps(op[p])
      BY <2>1, <2>4 DEF StoreInv
    <3>2. InstallKeeps(op[p])'
      BY <2>1, <3>1, Zenon DEF OperationKeeps, InstallKeeps, Active, Pinned, SlotOf
    <3>3. UninstallKeeps(op[p])'
      BY <2>1, <3>1, Zenon DEF OperationKeeps, UninstallKeeps, Active
    <3> QED BY <2>1, <3>1, <3>2, <3>3, Zenon DEF OperationKeeps, Resolvable
  <2> QED BY <2>2, <2>3, <2>4 DEF StoreInv
<1>2. ASSUME NEW p \in Proc, Start(p) \/ Crash(p) PROVE StoreInv'
  BY <1>2, BeginKeeps, CrashKeeps
<1>3. ASSUME NEW p \in Proc, Step(p) PROVE StoreInv'
  BY <1>3, LoadKeeps, WalkKeeps, RecordKeeps, PublishKeeps, SwapKeeps, DiscardKeeps, CommitKeeps,
     ConcludeKeeps, TargetKeeps, ActiveTargetKeeps, HideKeeps, SweepKeeps, FailUninstallKeeps
     DEF Step
<1> QED BY <1>1, <1>2, <1>3 DEF Next

\* In every state of every execution without interrupts, only the holder of the
\* lock is inside an operation and that operation can still undo what it has
\* done: the invariant behind ActiveSurvives (install.py: the order of staging,
\* rename, sidecar, index and tombstone writes).
THEOREM StoreKept == Spec => []StoreInv
<1>1. [Next]_vars => [NextWithInterrupts]_vars
  BY DEF NextWithInterrupts
<1>2. TypeOK /\ StoreInv /\ [Next]_vars => TypeOK' /\ StoreInv'
  BY <1>1, NextType, NextKeeps
<1> QED BY <1>2, InitType, InitKeeps, PTL DEF Spec

\* No failure and no crash at any point of any operation loses the last whole
\* copy of a version the published index selects, and no reader of the index
\* meets a half-removed tree, for any number of packages, versions and processes.
THEOREM ActiveNeverLost == Spec => []ActiveSurvives
BY StoreKept, PTL DEF StoreInv
-----------------------------------------------------------------------------
(* The published index is closed under requirements and gives every selected *)
(* package an order of its own, with failures, crashes and interrupts.       *)

Distinct(sel) ==
    \A q, r \in Pkg : q # r /\ sel[q].ver # 0 /\ sel[r].ver # 0 => sel[q].order # sel[r].order

\* A private selection has distinct orders all along; it is closed once validated.
CommitInv ==
    /\ SelectionClosed /\ Distinct(index)
    /\ \A p \in Proc : /\ Distinct(op[p].idx)
                       /\ op[p].pc = "sidecars" => Closed(op[p].idx)

\* What a step makes of the private selection idx of its process.
Derived(old, new) ==
    \/ new = old
    \/ new = index
    \/ new = Blank.index
    \/ \E q \in Pkg : new = [index EXCEPT ![q] = NoSel]
    \/ \E base \in {old, index}, q \in Pkg, c \in Selection :
          /\ \A r \in Pkg : base[r].order < c.order
          /\ new = [base EXCEPT ![q] = c]

LEMMA DerivedByChoice ==
  ASSUME NEW old, NEW base \in {old, index}, NEW q \in Pkg, NEW c \in Selection,
         \A r \in Pkg : base[r].order < c.order, NEW new, new = [base EXCEPT ![q] = c]
  PROVE  Derived(old, new)
BY DEF Derived

LEMMA DerivedDistinct ==
  ASSUME TypeOK, Distinct(index), NEW old \in [Pkg -> Selection], Distinct(old), NEW new,
         Derived(old, new)
  PROVE  Distinct(new)
<1>1. CASE new = old \/ new = index
  BY <1>1
<1>2. CASE new = Blank.index
  BY <1>2 DEF Blank, NoSel, Distinct
<1>3. ASSUME NEW q \in Pkg, new = [index EXCEPT ![q] = NoSel] PROVE Distinct(new)
  BY <1>3 DEF NoSel, Distinct, TypeOK
<1>4. ASSUME NEW base \in {old, index}, NEW q \in Pkg, NEW c \in Selection,
             \A r \in Pkg : base[r].order < c.order, new = [base EXCEPT ![q] = c]
      PROVE  Distinct(new)
  <2>1. base \in [Pkg -> Selection] /\ Distinct(base)
    BY DEF TypeOK
  <2>2. \A r \in Pkg : base[r].order \in Nat /\ c.order \in Nat
    BY <2>1 DEF Selection, NoSel
  <2>3. \A r \in Pkg : base[r].order # c.order
    BY <1>4, <2>2
  <2>4. new[q] = c /\ \A r \in Pkg : r # q => new[r] = base[r]
    BY <1>4, <2>1
  <2> QED BY <2>1, <2>3, <2>4 DEF Distinct
<1> QED BY <1>1, <1>2, <1>3, <1>4 DEF Derived

\* Selecting a package gives it an order above every other one.
LEMMA AdoptDerived ==
  ASSUME TypeOK, NEW o \in Operation, NEW s \in Slot, NEW e \in BOOLEAN
  PROVE  /\ \E c \in Selection : /\ \A r \in Pkg : o.idx[r].order < c.order
                                 /\ Adopt(o, s, e).idx = [o.idx EXCEPT ![s[1]] = c]
         /\ Adopt(o, s, e).pc = o.pc
<1> DEFINE c == [ver |-> s[2], edit |-> e, order |-> NextOrder(o)]
<1>1. NextOrder(o) \in Nat /\ \A r \in Pkg : o.idx[r].order < NextOrder(o)
  BY NextOrderAbove DEF TypeOK
<1>2. c \in Selection
  BY <1>1 DEF Selection, Slot
<1>3. Adopt(o, s, e).idx = [o.idx EXCEPT ![s[1]] = c] /\ Adopt(o, s, e).pc = o.pc
  BY DEF Adopt, Operation
<1> QED BY <1>1, <1>2, <1>3

\* What one step of process p may do to its selection and to the index.
Commits(p) ==
    /\ \A r \in Proc : r # p => op'[r] = op[r]
    /\ Derived(op[p].idx, op'[p].idx)
    /\ op'[p].pc = "sidecars" =>
          /\ op'[p].idx = op[p].idx
          /\ op[p].pc = "sidecars" \/ Closed(op[p].idx)
    /\ \/ index' = index
       \/ index' = op[p].idx /\ op[p].pc = "sidecars"

LEMMA CommitsKeep ==
  ASSUME TypeOK, CommitInv, NEW p \in Proc, Commits(p)
  PROVE  CommitInv'
<1>1. op[p].idx \in [Pkg -> Selection] /\ Distinct(op[p].idx)
  BY DEF TypeOK, MemoryOK, Operation, CommitInv
<1>2. Distinct(op'[p].idx)
  BY <1>1, DerivedDistinct DEF Commits, CommitInv
<1>3. op'[p].pc = "sidecars" => Closed(op'[p].idx)
  BY DEF Commits, CommitInv
<1>4. Closed(index') /\ Distinct(index')
  BY <1>1 DEF Commits, CommitInv, SelectionClosed
<1>5. \A r \in Proc : Distinct(op'[r].idx) /\ (op'[r].pc = "sidecars" => Closed(op'[r].idx))
  BY <1>2, <1>3 DEF Commits, CommitInv
<1>6. SelectionClosed' /\ Distinct(index)' /\ (\A r \in Proc : Distinct(op[r].idx)')
      /\ \A r \in Proc : op'[r].pc = "sidecars" => Closed(op[r].idx)'
  BY <1>4, <1>5 DEF SelectionClosed, Closed, Distinct, SlotOf, Requires
<1> QED BY <1>6 DEF CommitInv

-----------------------------------------------------------------------------
(* The steps, by what they do to the private selection. *)

\* The private selection and the index stay; nothing is about to be committed.
LEMMA StillCommits ==
  ASSUME TypeOK, NEW p \in Proc, NEW n, op' = [op EXCEPT ![p] = n], index' = index,
         n.idx = op[p].idx, n.pc # "sidecars"
  PROVE  Commits(p)
<1>1. op'[p] = n /\ \A r \in Proc : r # p => op'[r] = op[r]
  BY DEF TypeOK, MemoryOK
<1> QED BY <1>1 DEF Commits, Derived

LEMMA ReleaseCommits ==
  ASSUME TypeOK, NEW p \in Proc, Release(p), index' = index
  PROVE  Commits(p)
<1>1. op'[p] = Idle /\ \A r \in Proc : r # p => op'[r] = op[r]
  BY DEF TypeOK, MemoryOK, Release
<1>2. Idle.idx = Blank.index /\ Idle.pc = "idle"
  BY DEF Idle
<1> QED BY <1>1, <1>2 DEF Commits, Derived

LEMMA BeginCommits ==
  ASSUME TypeOK, NEW p \in Proc, Start(p)
  PROVE  Commits(p)
<1>1. PICK o : /\ op' = [op EXCEPT ![p] = o] /\ UNCHANGED index
               /\ o.pc = "load" /\ o.idx = Blank.index
  <2>1. CASE BeginInstall(p)
    <3>1. PICK s, r, edit, reinstall :
            Begin(p, [Idle EXCEPT !.kind = "install", !.slot = s, !.rev = r, !.edit = edit,
                                  !.reinstall = reinstall])
      BY <2>1 DEF BeginInstall
    <3> DEFINE o == [[Idle EXCEPT !.kind = "install", !.slot = s, !.rev = r, !.edit = edit,
                                  !.reinstall = reinstall] EXCEPT !.pc = "load"]
    <3>2. o.pc = "load" /\ o.idx = Blank.index
      BY DEF Idle
    <3>3. op' = [op EXCEPT ![p] = o] /\ UNCHANGED index
      BY <3>1 DEF Begin, disk
    <3> HIDE DEF o
    <3> QED BY <3>2, <3>3
  <2>2. CASE BeginSwitch(p)
    <3>1. PICK s : Begin(p, [Idle EXCEPT !.kind = "switch", !.slot = s])
      BY <2>2 DEF BeginSwitch
    <3> DEFINE o == [[Idle EXCEPT !.kind = "switch", !.slot = s] EXCEPT !.pc = "load"]
    <3>2. o.pc = "load" /\ o.idx = Blank.index
      BY DEF Idle
    <3>3. op' = [op EXCEPT ![p] = o] /\ UNCHANGED index
      BY <3>1 DEF Begin, disk
    <3> HIDE DEF o
    <3> QED BY <3>2, <3>3
  <2>3. CASE BeginUninstall(p)
    <3>1. PICK s, exact : Begin(p, [Idle EXCEPT !.kind = "uninstall", !.slot = s, !.exact = exact])
      BY <2>3 DEF BeginUninstall
    <3> DEFINE o == [[Idle EXCEPT !.kind = "uninstall", !.slot = s, !.exact = exact]
                      EXCEPT !.pc = "load"]
    <3>2. o.pc = "load" /\ o.idx = Blank.index
      BY DEF Idle
    <3>3. op' = [op EXCEPT ![p] = o] /\ UNCHANGED index
      BY <3>1 DEF Begin, disk
    <3> HIDE DEF o
    <3> QED BY <3>2, <3>3
  <2> QED BY <2>1, <2>2, <2>3 DEF Start
<1>2. op'[p] = o /\ \A r \in Proc : r # p => op'[r] = op[r]
  BY <1>1 DEF TypeOK, MemoryOK
<1> QED BY <1>1, <1>2 DEF Commits, Derived

LEMMA MoveCommits ==
  ASSUME TypeOK, NEW p \in Proc,
         \/ \E q \in Pkg : Need(p, q)
         \/ PublishNew(p) \/ Displace(p) \/ PublishNothing(p) \/ Swap(p) \/ SwapFails(p) \/ Record(p)
         \/ UndoReplace(p) \/ Restore(p) \/ \E s \in Slot : Discard(p, s)
         \/ UninstallLeftover(p) \/ UninstallActive(p) \/ UninstallInactive(p)
         \/ Strip(p)
  PROVE  Commits(p)
<1> DEFINE o == op[p]
<1>0. o \in Operation /\ p \in DOMAIN op
  BY DEF TypeOK, MemoryOK
<1>1. index' = index /\ \A r \in Proc : r # p => op'[r] = op[r]
  BY DEF Need, Push, PublishNew, Displace, PublishNothing, Swap, SwapFails, Record, UndoReplace,
     Restore, Discard, UninstallLeftover, UninstallActive, UninstallInactive, Strip, disk, TypeOK,
     MemoryOK
<1>2. op'[p].idx = o.idx /\ op'[p].pc # "sidecars"
  <2>1. ASSUME NEW q \in Pkg, Need(p, q) PROVE op'[p].idx = o.idx /\ op'[p].pc # "sidecars"
    <3>1. PICK f : op' = [op EXCEPT ![p].frames = Append(@, f)] /\ o.pc = "resolve"
      BY <2>1 DEF Need, Push, At
    <3> QED BY <1>0, <3>1 DEF Operation
  <2>2. CASE PublishNew(p) \/ Displace(p) \/ PublishNothing(p)
    BY <1>0, <2>2 DEF PublishNew, Displace, PublishNothing, Operation
  <2>3. CASE Swap(p) \/ SwapFails(p)
    BY <1>0, <2>3 DEF Swap, SwapFails, Operation
  <2>4. CASE Record(p)
    BY <1>0, <2>4 DEF Record, Operation
  <2>5. CASE UndoReplace(p) \/ Restore(p)
    BY <1>0, <2>5 DEF UndoReplace, Restore, Operation
  <2>6. ASSUME NEW s \in Slot, Discard(p, s) PROVE op'[p].idx = o.idx /\ op'[p].pc # "sidecars"
    <3>1. o.pc = "rollback" /\ (UNCHANGED op \/ op'[p] = [o EXCEPT !.created = @ \ {s}])
      BY <1>0, <2>6 DEF Discard, At
    <3> QED BY <1>0, <3>1 DEF Operation
  <2>7. CASE UninstallLeftover(p)
    BY <1>0, <2>7 DEF UninstallLeftover, Operation
  <2>8. CASE UninstallActive(p) \/ UninstallInactive(p)
    BY <1>0, <2>8 DEF UninstallActive, UninstallInactive, Operation
  <2>9. CASE Strip(p)
    BY <1>0, <2>9 DEF Strip, At, Operation
  <2> QED BY <2>1, <2>2, <2>3, <2>4, <2>5, <2>6, <2>7, <2>8, <2>9
<1> QED BY <1>1, <1>2 DEF Commits, Derived

\* An install that fails or is interrupted, an uninstall that ends, and a death.
LEMMA EndCommits ==
  ASSUME TypeOK, NEW p \in Proc,
         \/ ConcludeInstall(p) \/ ConcludeUninstall(p) \/ Swept(p) \/ RolledBack(p)
         \/ FailInstall(p) \/ FailUninstall(p) \/ Crash(p) \/ Interrupt(p)
  PROVE  Commits(p)
<1> DEFINE o == op[p]
<1>0. o \in Operation /\ p \in DOMAIN op
  BY DEF TypeOK, MemoryOK
<1>1. index' = index
  BY DEF ConcludeInstall, ConcludeUninstall, Swept, RolledBack, FailInstall, FailUninstall, Crash,
     Interrupt, disk
<1>2. CASE Release(p)
  BY <1>1, <1>2, ReleaseCommits
<1>3. ASSUME NEW pc \in {"finish", "hide", "rollback"}, op' = [op EXCEPT ![p].pc = pc]
      PROVE  Commits(p)
  <2> DEFINE n == [o EXCEPT !.pc = pc]
  <2>1. n.idx = o.idx /\ n.pc # "sidecars" /\ op' = [op EXCEPT ![p] = n]
    BY <1>0, <1>3 DEF Operation
  <2> HIDE DEF n
  <2> QED BY <1>1, <2>1, StillCommits
<1>4. ASSUME NEW prev, op' = [op EXCEPT ![p].pc = "rollback", ![p].prev = prev]
      PROVE  Commits(p)
  <2> DEFINE n == [o EXCEPT !.pc = "rollback", !.prev = prev]
  <2>1. n.idx = o.idx /\ n.pc # "sidecars" /\ op' = [op EXCEPT ![p] = n]
    BY <1>0, <1>4 DEF Operation
  <2> HIDE DEF n
  <2> QED BY <1>1, <2>1, StillCommits
<1>5. \/ Release(p)
      \/ \E pc \in {"finish", "hide", "rollback"} : op' = [op EXCEPT ![p].pc = pc]
      \/ \E prev : op' = [op EXCEPT ![p].pc = "rollback", ![p].prev = prev]
  BY DEF ConcludeInstall, ConcludeUninstall, Swept, RolledBack, FailInstall, FailUninstall, Crash,
     Interrupt
<1> QED BY <1>2, <1>3, <1>4, <1>5

\* The selection is read from the index, extended, or stripped of one package.
LEMMA SelectCommits ==
  ASSUME TypeOK, NEW p \in Proc,
         \/ LoadInstall(p) \/ LoadSwitch(p) \/ Satisfy(p) \/ Activate(p)
         \/ UninstallEditable(p) \/ Hide(p)
  PROVE  Commits(p)
<1> DEFINE o == op[p]
<1>0. o \in Operation /\ p \in DOMAIN op /\ o.slot \in Slot /\ o.slot[1] \in Pkg
  BY DEF TypeOK, MemoryOK, Operation, Slot
<1>1. index' = index /\ \A r \in Proc : r # p => op'[r] = op[r]
  BY DEF LoadInstall, LoadSwitch, Satisfy, Activate, UninstallEditable, Hide, Release, disk, TypeOK,
     MemoryOK
<1>2. Loaded(o) \in Operation /\ Loaded(o).idx = index
  BY <1>0 DEF Loaded, Operation, TypeOK
<1>3. CASE LoadInstall(p)
  <2>1. PICK f : op'[p] = [Loaded(o) EXCEPT !.pc = "resolve", !.frames = f]
    BY <1>0, <1>3 DEF LoadInstall
  <2>2. op'[p].idx = index /\ op'[p].pc = "resolve"
    BY <1>2, <2>1 DEF Operation
  <2> QED BY <1>1, <2>2 DEF Commits, Derived
<1>4. CASE LoadSwitch(p)
  <2> DEFINE a == Adopt(Loaded(o), o.slot, FALSE)
  <2>1. op'[p] = [a EXCEPT !.pc = "prepare"]
    BY <1>0, <1>4 DEF LoadSwitch
  <2>2. a \in Operation
    BY <1>0, <1>2, AdoptType DEF TypeOK
  <2> DEFINE l == Loaded(o)
  <2>5. l \in Operation /\ l.idx = index
    BY <1>2
  <2> HIDE DEF l
  <2>6. \E c \in Selection : /\ \A r \in Pkg : l.idx[r].order < c.order
                             /\ Adopt(l, o.slot, FALSE).idx = [l.idx EXCEPT ![o.slot[1]] = c]
    BY <1>0, <2>5, AdoptDerived
  <2>3. PICK c \in Selection : /\ \A r \in Pkg : index[r].order < c.order
                               /\ a.idx = [index EXCEPT ![o.slot[1]] = c]
    BY <2>5, <2>6 DEF l
  <2> HIDE DEF a
  <2>4. op'[p].idx = a.idx /\ op'[p].pc = "prepare"
    BY <2>1, <2>2 DEF Operation
  <2>7. Derived(o.idx, op'[p].idx)
    BY <1>0, <2>3, <2>4, DerivedByChoice
  <2> QED BY <1>1, <2>4, <2>7 DEF Commits
<1>5. CASE Satisfy(p)
  <2> DEFINE k == Len(o.frames) - 1
             f == Top(o)
             below == [Below(o) EXCEPT ![k].todo = @ \ {f.slot[1]}]
             popped == [o EXCEPT !.resolved = @ \cup {<<f.slot, f.edit>>}, !.frames = below]
  <2>1. o.frames \in Seq(Frame) /\ Len(o.frames) > 1 /\ f \in Frame
    BY <1>0, <1>5, TopType DEF Satisfy, At, Operation, TypeOK, MemoryOK
  <2>2. Below(o) \in Seq(Frame) /\ Len(Below(o)) = k /\ k \in 1..k
    BY <2>1 DEF Below
  <2>3. Below(o)[k] \in Frame
    BY <2>2
  <2>4. [Below(o)[k] EXCEPT !.todo = @ \ {f.slot[1]}] \in Frame
    BY <2>3 DEF Frame
  <2>5. below \in Seq(Frame)
    BY <2>2, <2>4
  <2>6. popped \in Operation /\ popped.idx = o.idx /\ popped.pc = o.pc
    <3>1. <<f.slot, f.edit>> \in Slot \X BOOLEAN
      BY <2>1 DEF Frame
    <3> HIDE DEF below, f
    <3> QED BY <1>0, <2>5, <3>1 DEF Operation
  <2>7. f.slot \in Slot /\ f.slot[1] \in Pkg
    BY <2>1 DEF Frame, Slot
  <2>8. o.pc = "resolve" /\ (op'[p] = popped \/ op'[p] = Adopt(popped, f.slot, FALSE))
    BY <1>0, <1>5 DEF Satisfy, At
  <2> HIDE DEF popped, f
  <2>9. \E c \in Selection : /\ \A r \in Pkg : popped.idx[r].order < c.order
                             /\ Adopt(popped, f.slot, FALSE).idx = [popped.idx EXCEPT ![f.slot[1]] = c]
    BY <2>6, <2>7, AdoptDerived
  <2>10. Adopt(popped, f.slot, FALSE).pc = popped.pc
    BY <2>6, <2>7, AdoptDerived
  <2>11. Derived(o.idx, op'[p].idx)
    <3>1. Derived(o.idx, Adopt(popped, f.slot, FALSE).idx)
      <4>1. PICK c \in Selection :
              /\ \A r \in Pkg : popped.idx[r].order < c.order
              /\ Adopt(popped, f.slot, FALSE).idx = [popped.idx EXCEPT ![f.slot[1]] = c]
        BY <2>9
      <4> QED BY <2>6, <2>7, <4>1, DerivedByChoice
    <3>2. Derived(o.idx, popped.idx)
      BY <2>6 DEF Derived
    <3> QED BY <2>8, <3>1, <3>2
  <2>12. op'[p].pc = "resolve"
    BY <2>6, <2>8, <2>10
  <2> QED BY <1>1, <2>11, <2>12 DEF Commits
<1>6. CASE Activate(p)
  <2> DEFINE f == Top(o)
             a == Adopt(o, f.slot, f.edit)
  <2>1. f \in Frame
    BY <1>0, <1>6, TopType DEF Activate, At, TypeOK, MemoryOK
  <2>2. f.slot \in Slot /\ f.slot[1] \in Pkg /\ f.edit \in BOOLEAN
    BY <2>1 DEF Frame, Slot
  <2>3. a \in Operation
    BY <1>0, <2>2, AdoptType DEF TypeOK
  <2>4. PICK c \in Selection : /\ \A r \in Pkg : o.idx[r].order < c.order
                               /\ a.idx = [o.idx EXCEPT ![f.slot[1]] = c]
    <3>1. o \in Operation
      BY <1>0 DEF TypeOK
    <3> HIDE DEF o, f
    <3>2. \E c \in Selection : /\ \A r \in Pkg : o.idx[r].order < c.order
                               /\ a.idx = [o.idx EXCEPT ![f.slot[1]] = c]
      BY ZenonT(60), <2>2, <3>1, AdoptDerived
    <3> QED BY <3>2
  <2>5. \/ op'[p] = [a EXCEPT !.pc = "prepare"]
        \/ \E g : op'[p] = [a EXCEPT !.pc = "resolve", !.frames = g]
    BY <1>0, <1>6 DEF Activate
  <2> HIDE DEF a
  <2>6. op'[p].idx = a.idx /\ op'[p].pc # "sidecars"
    BY <2>3, <2>5 DEF Operation
  <2>7. Derived(o.idx, op'[p].idx)
    BY <2>2, <2>4, <2>6, DerivedByChoice
  <2> QED BY <1>1, <2>6, <2>7 DEF Commits
<1>7. CASE UninstallEditable(p)
  <2>1. op'[p] = [o EXCEPT !.pc = "prepare", !.idx = Without(o), !.edit = TRUE]
    BY <1>0, <1>7 DEF UninstallEditable
  <2>2. op'[p].idx = Without(o) /\ op'[p].pc = "prepare"
    BY <1>0, <2>1 DEF Operation
  <2> QED BY <1>0, <1>1, <2>2 DEF Commits, Derived, Without
<1>8. CASE Hide(p)
  <2>1. CASE Release(p)
    BY <1>1, <2>1, ReleaseCommits
  <2>2. ASSUME NEW pc \in {"finish", "prepare"},
               op' = [op EXCEPT ![p].pc = pc, ![p].idx = Without(o)]
        PROVE  Commits(p)
    <3>1. op'[p] = [o EXCEPT !.pc = pc, !.idx = Without(o)]
      BY <1>0, <2>2
    <3>2. op'[p].idx = Without(o) /\ op'[p].pc = pc
      BY <1>0, <3>1 DEF Operation
    <3> QED BY <1>0, <1>1, <3>2 DEF Commits, Derived, Without
  <2> QED BY <1>8, <2>1, <2>2 DEF Hide
<1> QED BY <1>3, <1>4, <1>5, <1>6, <1>7, <1>8

LEMMA PublishCommits ==
  ASSUME TypeOK, NEW p \in Proc,
         Prepare(p) \/ (\E q \in Pkg : WriteSidecar(p, q)) \/ WriteIndex(p)
  PROVE  Commits(p)
<1> DEFINE o == op[p]
<1>0. o \in Operation /\ p \in DOMAIN op
  BY DEF TypeOK, MemoryOK
<1>1. \A r \in Proc : r # p => op'[r] = op[r]
  BY DEF Prepare, WriteSidecar, WriteIndex, TypeOK, MemoryOK
<1>2. CASE Prepare(p)
  <2>1. op'[p].idx = o.idx /\ Closed(o.idx) /\ index' = index
    BY <1>0, <1>2 DEF Prepare, Operation, disk
  <2> QED BY <1>1, <2>1 DEF Commits, Derived
<1>3. ASSUME NEW q \in Pkg, WriteSidecar(p, q) PROVE Commits(p)
  <2>1. op'[p].idx = o.idx /\ o.pc = "sidecars" /\ index' = index
    BY <1>0, <1>3 DEF WriteSidecar, At, Operation
  <2> QED BY <1>1, <2>1 DEF Commits, Derived
<1>4. CASE WriteIndex(p)
  <2>1. op'[p].idx = o.idx /\ op'[p].pc = "committed" /\ o.pc = "sidecars" /\ index' = o.idx
    BY <1>0, <1>4 DEF WriteIndex, At, Operation
  <2> QED BY <1>1, <2>1 DEF Commits, Derived
<1> QED BY <1>2, <1>3, <1>4

-----------------------------------------------------------------------------
LEMMA InitCommit == Init => CommitInv
<1> SUFFICES ASSUME Init PROVE CommitInv
  OBVIOUS
<1>1. \A q \in Pkg : Blank.index[q] = NoSel
  BY DEF Blank
<1>2. Closed(Blank.index) /\ Distinct(Blank.index)
  BY <1>1 DEF Closed, Distinct, NoSel
<1>3. Idle.idx = Blank.index /\ Idle.pc = "idle"
  BY DEF Idle
<1> QED BY <1>2, <1>3 DEF Init, CommitInv, SelectionClosed

LEMMA NextCommit == TypeOK /\ CommitInv /\ [NextWithInterrupts]_vars => CommitInv'
<1> SUFFICES ASSUME TypeOK, CommitInv, [NextWithInterrupts]_vars PROVE CommitInv'
  OBVIOUS
<1>1. CASE UNCHANGED vars
  BY <1>1 DEF vars, CommitInv, SelectionClosed, Closed, Distinct, SlotOf, Requires
<1>2. ASSUME NEW p \in Proc, Start(p) \/ Step(p) \/ Crash(p) \/ Interrupt(p) PROVE Commits(p)
  BY <1>2, BeginCommits, MoveCommits, EndCommits, SelectCommits, PublishCommits DEF Step
<1> QED BY <1>1, <1>2, CommitsKeep DEF NextWithInterrupts, Next

\* The index that other commands read never selects a package whose requirements
\* are not selected at or above their minimum, whatever transactions failed, were
\* interrupted or died (activation.py: validate_activation_index before write).
THEOREM AlwaysClosed == SpecWithInterrupts => []SelectionClosed
<1>1. TypeOK /\ CommitInv /\ [NextWithInterrupts]_vars => TypeOK' /\ CommitInv'
  BY NextType, NextCommit
<1>2. CommitInv => SelectionClosed
  BY DEF CommitInv
<1> QED BY <1>1, <1>2, InitType, InitCommit, PTL DEF SpecWithInterrupts

\* No two selected packages ever share a registration order, so the owner of a
\* command name is decided by the index alone (install.py: _next_registration_order).
THEOREM AlwaysDistinct == SpecWithInterrupts => []OrdersDistinct
<1>1. TypeOK /\ CommitInv /\ [NextWithInterrupts]_vars => TypeOK' /\ CommitInv'
  BY NextType, NextCommit
<1>2. CommitInv => OrdersDistinct
  BY DEF CommitInv, Distinct, OrdersDistinct
<1> QED BY <1>1, <1>2, InitType, InitCommit, PTL DEF SpecWithInterrupts

-----------------------------------------------------------------------------
(* Each commit is one selection or one removal: how the private selection of  *)
(* an operation differs from the published one at each of its steps.          *)

\* A dependency is selected before its dependent has checked its version.
Pending(o, q) ==
    \E i \in 2..Len(o.frames) :
        o.frames[i].slot = <<q, o.idx[q].ver>> /\ ~o.frames[i].edit /\ ~o.idx[q].edit

\* A dependency on the walk is no older than the published selection, unless its
\* dependent requires a newer one than that.
Aims(o) ==
    \A i \in 2..Len(o.frames) :
        LET f == o.frames[i]
            q == f.slot[1]
        IN  IF f.edit THEN ~f.fresh
            ELSE q \in Pinned(index) =>
                    f.slot[2] >= index[q].ver \/ index[q].ver < Dep[o.frames[i - 1].slot][q]

Walks(o) ==
    /\ o.kind = "install" /\ o.frames[1].slot = o.slot /\ o.frames[1].edit = o.edit
    /\ Aims(o)
    /\ o.pc = "resolve" \/ Len(o.frames) > 1 => Resolvable(index)
    /\ o.pc = "swap" => Len(o.frames) = 1
    /\ o.pc # "resolve" => Top(o).fresh

\* The package asked for is selected, and no dependency is still on the walk.
Chosen(o) ==
    o.idx[o.slot[1]].ver = o.slot[2] /\ o.idx[o.slot[1]].edit = o.edit /\ Len(o.frames) <= 1

Traced(o) ==
    /\ o.kind # "none" /\ o.pc # "idle"
    /\ o.pc \in {"sweep", "swept", "hide"} => o.kind = "uninstall"
    /\ o.kind = "switch" => ~o.edit
    /\ o.pc = "load" => o.frames = <<>>
    /\ o.kind = "uninstall" /\ o.pc \in {"prepare", "sidecars"} => o.idx = Without(o)
    /\ o.pc \in Walking => Walks(o)
    /\ Installs(o) /\ o.pc \in Walking \cup {"prepare", "sidecars"} =>
          \A q \in Pkg \ {o.slot[1]} : Promise!Keeps(index[q], o.idx[q]) \/ Pending(o, q)
    /\ Installs(o) /\ o.pc \in {"prepare", "sidecars"} => Chosen(o)

TraceInv == \A p \in Proc : IF lock = p THEN Traced(op[p]) ELSE op[p] = Idle

-----------------------------------------------------------------------------
\* The holder of the lock goes on; what it read of the index stands.
LEMMA HolderTraces ==
  ASSUME TypeOK, TraceInv, NEW p \in Proc, lock = p, lock' = p, index' = index,
         NEW n, op' = [op EXCEPT ![p] = n], Traced(n),
         n.pc \in Walking /\ (n.pc = "resolve" \/ Len(n.frames) > 1) => tree' = tree \/ Resolvable(index)'
  PROVE  TraceInv'
<1>1. op'[p] = n /\ \A r \in Proc : r # p => op'[r] = Idle
  BY DEF TypeOK, MemoryOK, TraceInv
<1>2. n.pc \in Walking /\ (n.pc = "resolve" \/ Len(n.frames) > 1) => Resolvable(index)'
  BY DEF Traced, Walks, Resolvable, Pinned, SlotOf
<1>3. Aims(op[p])' <=> Aims(n)
  BY <1>1 DEF Aims, Pinned
<1>4. \A q : Pending(op[p], q)' <=> Pending(n, q)
  BY <1>1 DEF Pending
<1>5. Without(op[p])' = Without(n)
  BY <1>1 DEF Without
<1>6. Traced(op[p])'
  BY <1>1, <1>2, <1>3, <1>4, <1>5 DEF Traced, Walks, Chosen, Installs, Promise!Keeps
<1> QED BY <1>1, <1>6 DEF TraceInv

LEMMA ReleaseTraces == ASSUME TypeOK, TraceInv, NEW p \in Proc, lock = p, Release(p) PROVE TraceInv'
<1>1. \A r \in Proc : op'[r] = Idle
  BY DEF TypeOK, MemoryOK, TraceInv, Release
<1>2. lock' \notin Proc
  BY ProcAssumption DEF Release
<1> QED BY <1>1, <1>2 DEF TraceInv

\* An operation that commits nothing any more, or not yet.
LEMMA LateTraces ==
  ASSUME TypeOK, TraceInv, NEW p \in Proc, lock = p, lock' = lock, index' = index,
         NEW n, op' = [op EXCEPT ![p] = n], n.kind = op[p].kind, n.edit = op[p].edit,
         n.pc \notin Walking \cup {"idle", "load", "prepare", "sidecars"},
         n.pc \in {"sweep", "swept", "hide"} => n.kind = "uninstall"
  PROVE  TraceInv'
<1>1. Traced(op[p])
  BY DEF TraceInv
<1>2. Traced(n)
  BY <1>1 DEF Traced
<1> QED BY <1>2, HolderTraces

LEMMA BeginTraces == ASSUME TypeOK, TraceInv, NEW p \in Proc, Start(p) PROVE TraceInv'
<1>1. ASSUME NEW o, Begin(p, o), o.frames = <<>>, o.kind \in {"install", "switch", "uninstall"},
             o.kind = "switch" => ~o.edit, o \in Operation
      PROVE  TraceInv'
  <2> DEFINE n == [o EXCEPT !.pc = "load"]
  <2>1. n.frames = <<>> /\ n.kind = o.kind /\ n.pc = "load" /\ n.edit = o.edit
    BY <1>1 DEF Operation
  <2> HIDE DEF n
  <2>2. op'[p] = n /\ lock' = p /\ \A r \in Proc : r # p => op'[r] = Idle
    <3>1. lock = NoProc /\ op' = [op EXCEPT ![p] = n] /\ lock' = p
      BY <1>1 DEF Begin, n
    <3>2. \A r \in Proc : op[r] = Idle
      BY <3>1, ProcAssumption DEF TraceInv
    <3> QED BY <3>1, <3>2 DEF TypeOK, MemoryOK
  <2>3. Traced(op[p])'
    BY <1>1, <2>1, <2>2 DEF Traced, Walking
  <2> QED BY <2>2, <2>3 DEF TraceInv
<1>2. Idle \in Operation /\ Idle.frames = <<>> /\ ~Idle.edit
  BY IdleType DEF Idle
<1>3. CASE BeginInstall(p)
  <2>1. PICK s \in Offered, r \in Rev, edit, reinstall \in BOOLEAN :
          Begin(p, [Idle EXCEPT !.kind = "install", !.slot = s, !.rev = r, !.edit = edit, !.reinstall = reinstall])
    BY <1>3 DEF BeginInstall
  <2> DEFINE o == [Idle EXCEPT !.kind = "install", !.slot = s, !.rev = r, !.edit = edit, !.reinstall = reinstall]
  <2>2. o \in Operation /\ o.frames = <<>> /\ o.kind = "install"
    BY ZenonT(60), <1>2, OfferedAssumption DEF Operation, Kinds
  <2> HIDE DEF o
  <2> QED BY <1>1, <2>1, <2>2 DEF o
<1>4. CASE BeginSwitch(p)
  <2>1. PICK s \in Offered : Begin(p, [Idle EXCEPT !.kind = "switch", !.slot = s])
    BY <1>4 DEF BeginSwitch
  <2> DEFINE o == [Idle EXCEPT !.kind = "switch", !.slot = s]
  <2>2. o \in Operation /\ o.frames = <<>> /\ o.kind = "switch" /\ ~o.edit
    BY <1>2, OfferedAssumption DEF Operation, Kinds
  <2> HIDE DEF o
  <2> QED BY <1>1, <2>1, <2>2 DEF o
<1>5. CASE BeginUninstall(p)
  <2> DEFINE target(s, exact) == IF exact \/ index[s[1]].ver = 0 THEN s ELSE SlotOf(index, s[1])
  <2>1. PICK s \in Offered, exact \in BOOLEAN :
          Begin(p, [Idle EXCEPT !.kind = "uninstall", !.slot = target(s, exact), !.exact = exact])
    BY <1>5 DEF BeginUninstall
  <2> DEFINE o == [Idle EXCEPT !.kind = "uninstall", !.slot = target(s, exact), !.exact = exact]
  <2>2. target(s, exact) \in Slot
    BY OfferedAssumption DEF TypeOK, Slot, SlotOf, Selection, NoSel
  <2>3. o \in Operation /\ o.frames = <<>> /\ o.kind = "uninstall"
    BY ZenonT(60), <1>2, <2>2 DEF Operation, Kinds
  <2> HIDE DEF o
  <2> QED BY <1>1, <2>1, <2>3 DEF o
<1> QED BY <1>3, <1>4, <1>5 DEF Start

\* Failures, rollbacks and removals.
LEMMA EndTraces ==
  ASSUME TypeOK, TraceInv, NEW p \in Proc,
         \/ ConcludeInstall(p) \/ ConcludeUninstall(p) \/ Swept(p) \/ RolledBack(p) \/ SwapFails(p)
         \/ FailInstall(p) \/ FailUninstall(p) \/ Crash(p) \/ Interrupt(p)
         \/ UndoReplace(p) \/ Restore(p) \/ (\E s \in Slot : Discard(p, s)) \/ Strip(p)
         \/ UninstallLeftover(p) \/ UninstallInactive(p) \/ UninstallActive(p)
  PROVE  TraceInv'
<1> DEFINE o == op[p]
<1>0. o \in Operation /\ p \in DOMAIN op
  BY DEF TypeOK, MemoryOK
<1>1. lock = p /\ index' = index
  <2>1. CASE ConcludeInstall(p) \/ ConcludeUninstall(p) \/ Swept(p) \/ RolledBack(p) \/ SwapFails(p)
    BY <2>1 DEF ConcludeInstall, ConcludeUninstall, Swept, RolledBack, SwapFails, At, disk
  <2>2. CASE FailInstall(p) \/ FailUninstall(p) \/ Crash(p) \/ Interrupt(p)
    BY <2>2 DEF FailInstall, FailUninstall, Crash, Interrupt
  <2>3. CASE UndoReplace(p) \/ Restore(p) \/ Strip(p) \/ \E s \in Slot : Discard(p, s)
    BY <2>3 DEF UndoReplace, Restore, Strip, Discard, At
  <2>4. CASE UninstallLeftover(p) \/ UninstallInactive(p) \/ UninstallActive(p)
    BY <2>4 DEF UninstallLeftover, UninstallInactive, UninstallActive, Uninstalls, At, disk
  <2> QED BY <2>1, <2>2, <2>3, <2>4
<1>2. Traced(o)
  BY <1>1 DEF TraceInv
<1> DEFINE Late == {"sweep", "swept", "hide", "finish", "finished", "rollback", "restore", "committed"}
<1>3. ASSUME NEW n, op' = [op EXCEPT ![p] = n], lock' = lock, n.kind = o.kind, n.edit = o.edit,
             n.pc \in Late, n.pc \in {"sweep", "swept", "hide"} => o.kind = "uninstall"
      PROVE  TraceInv'
  <2>1. n.pc \notin Walking \cup {"idle", "load", "prepare", "sidecars"}
    BY <1>3 DEF Walking
  <2> QED BY <1>1, <1>3, <2>1, LateTraces
<1>4. CASE Release(p)
  BY <1>1, <1>4, ReleaseTraces
<1>5. ASSUME NEW pc \in Late, op' = [op EXCEPT ![p].pc = pc], lock' = lock,
             pc \in {"sweep", "swept", "hide"} => o.kind = "uninstall"
      PROVE  TraceInv'
  <2> DEFINE n == [o EXCEPT !.pc = pc]
  <2>1. n.kind = o.kind /\ n.edit = o.edit /\ n.pc = pc /\ op' = [op EXCEPT ![p] = n]
    BY <1>0, <1>5 DEF Operation
  <2> HIDE DEF n
  <2> QED BY <1>3, <1>5, <2>1
<1>6. CASE ConcludeInstall(p) \/ RolledBack(p) \/ FailUninstall(p) \/ Crash(p)
  BY <1>4, <1>6 DEF ConcludeInstall, RolledBack, FailUninstall, Crash
<1>7. CASE ConcludeUninstall(p)
  BY <1>4, <1>5, <1>7 DEF ConcludeUninstall
<1>8. CASE Swept(p)
  <2>1. CASE o.pc = "swept"
    <3>1. o.kind = "uninstall"
      BY <1>2, <2>1 DEF Traced
    <3>2. op' = [op EXCEPT ![p].pc = "hide"] /\ lock' = lock
      BY <1>8, <2>1 DEF Swept
    <3> QED BY <1>5, <3>1, <3>2
  <2> QED BY <1>4, <1>8, <2>1 DEF Swept
<1>9. CASE Strip(p)
  <2>1. CASE o.pc = "sweep"
    <3>1. o.kind = "uninstall"
      BY <1>2, <2>1 DEF Traced
    <3>2. op' = [op EXCEPT ![p].pc = "swept"] /\ lock' = lock
      BY <1>0, <1>9, <2>1 DEF Strip
    <3> QED BY <1>5, <3>1, <3>2
  <2>2. CASE o.pc # "sweep"
    <3>1. op' = [op EXCEPT ![p].pc = "finished"] /\ lock' = lock
      BY <1>0, <1>9, <2>2 DEF Strip
    <3> QED BY <1>5, <3>1
  <2> QED BY <2>1, <2>2
<1>10. CASE FailInstall(p)
  BY <1>4, <1>5, <1>10 DEF FailInstall
<1>11. CASE SwapFails(p) \/ UndoReplace(p) \/ Restore(p)
  <2>1. CASE SwapFails(p)
    <3> DEFINE n == [o EXCEPT !.pc = "rollback", !.prev = Absent]
    <3>1. n.kind = o.kind /\ n.edit = o.edit /\ n.pc = "rollback" /\ op' = [op EXCEPT ![p] = n]
          /\ lock' = lock
      BY <1>0, <2>1 DEF SwapFails, Operation
    <3> HIDE DEF n
    <3> QED BY <1>3, <3>1
  <2>2. CASE UndoReplace(p)
    BY <1>5, <2>2 DEF UndoReplace
  <2>3. CASE Restore(p)
    <3> DEFINE n == [o EXCEPT !.pc = "rollback", !.prev = Absent, !.saved = FALSE]
    <3>1. n.kind = o.kind /\ n.edit = o.edit /\ n.pc = "rollback" /\ op' = [op EXCEPT ![p] = n]
          /\ lock' = lock
      BY <1>0, <2>3 DEF Restore, Operation
    <3> HIDE DEF n
    <3> QED BY <1>3, <3>1
  <2> QED BY <1>11, <2>1, <2>2, <2>3
<1>12. ASSUME NEW s \in Slot, Discard(p, s) PROVE TraceInv'
  <2>1. PICK c : op' = [op EXCEPT ![p] = [o EXCEPT !.created = c]] /\ lock' = lock /\ o.pc = "rollback"
    <3>1. CASE UNCHANGED op
      <4>1. op' = [op EXCEPT ![p] = [o EXCEPT !.created = o.created]]
        BY <1>0, <3>1 DEF Operation, TypeOK, MemoryOK
      <4> QED BY <1>12, <4>1 DEF Discard, At
    <3>2. CASE op' = [op EXCEPT ![p].created = @ \ {s}]
      <4>1. op' = [op EXCEPT ![p] = [o EXCEPT !.created = o.created \ {s}]]
        BY <3>2
      <4> QED BY <1>12, <4>1 DEF Discard, At
    <3> QED BY <1>12, <3>1, <3>2 DEF Discard
  <2> DEFINE n == [o EXCEPT !.created = c]
  <2>2. n.kind = o.kind /\ n.edit = o.edit /\ n.pc = "rollback" /\ op' = [op EXCEPT ![p] = n]
    BY <1>0, <2>1 DEF Operation
  <2> HIDE DEF n
  <2> QED BY <1>3, <2>1, <2>2
<1>13. CASE Interrupt(p)
  <2>1. CASE ~Release(p)
    <3>1. PICK prev : op' = [op EXCEPT ![p].pc = "rollback", ![p].prev = prev] /\ lock' = lock
      BY <1>13, <2>1 DEF Interrupt
    <3> DEFINE n == [o EXCEPT !.pc = "rollback", !.prev = prev]
    <3>2. n.kind = o.kind /\ n.edit = o.edit /\ n.pc = "rollback" /\ op' = [op EXCEPT ![p] = n]
      BY <1>0, <3>1 DEF Operation
    <3> HIDE DEF n
    <3> QED BY <1>3, <3>1, <3>2
  <2> QED BY <1>4, <2>1
<1>14. CASE UninstallLeftover(p) \/ UninstallInactive(p) \/ UninstallActive(p)
  <2>1. o.kind = "uninstall" /\ lock' = lock
    BY <1>14 DEF UninstallLeftover, UninstallInactive, UninstallActive, Uninstalls
  <2>2. \E pc \in {"finish", "hide", "sweep"} : \E key : op' = [op EXCEPT ![p].pc = pc, ![p].key = key]
    BY <1>14 DEF UninstallLeftover, UninstallInactive, UninstallActive
  <2>3. PICK pc \in {"finish", "hide", "sweep"} : \E key : op' = [op EXCEPT ![p].pc = pc, ![p].key = key]
    BY <2>2
  <2>4. PICK key : op' = [op EXCEPT ![p].pc = pc, ![p].key = key]
    BY <2>3
  <2> DEFINE n == [o EXCEPT !.pc = pc, !.key = key]
  <2>5. n.kind = o.kind /\ n.edit = o.edit /\ n.pc = pc /\ op' = [op EXCEPT ![p] = n]
    BY <1>0, <2>4 DEF Operation
  <2> HIDE DEF n
  <2> QED BY <1>3, <2>1, <2>3, <2>5
<1> QED BY <1>6, <1>7, <1>8, <1>9, <1>10, <1>11, <1>12, <1>13, <1>14

-----------------------------------------------------------------------------
\* Steps that leave the private selection and the walk as they are.
LEMMA SameTraces ==
  ASSUME TypeOK, TraceInv, NEW p \in Proc, lock = p, lock' = lock, index' = index,
         NEW n, op' = [op EXCEPT ![p] = n],
         n.kind = op[p].kind, n.slot = op[p].slot, n.edit = op[p].edit, n.idx = op[p].idx,
         n.frames = op[p].frames,
         \/ /\ op[p].pc \in Walking /\ n.pc \in {"swap", "record", "activate"}
            /\ Top(op[p]).fresh /\ (n.pc = "swap" => Len(op[p].frames) = 1)
            /\ tree' = tree \/ Len(op[p].frames) = 1 \/ (Resolvable(index) => Resolvable(index)')
         \/ op[p].pc \in {"prepare", "sidecars"} /\ n.pc = "sidecars" /\ tree' = tree
  PROVE  TraceInv'
<1> DEFINE o == op[p]
<1>1. Traced(o)
  BY DEF TraceInv
<1>2. /\ Top(n) = Top(o) /\ Aims(n) = Aims(o) /\ Chosen(n) = Chosen(o) /\ Without(n) = Without(o)
      /\ Installs(n) = Installs(o) /\ \A q : Pending(n, q) = Pending(o, q)
  BY DEF Top, Aims, Chosen, Without, Installs, Pending
<1>3. CASE o.pc \in Walking /\ n.pc \in {"swap", "record", "activate"}
  <2>1. Walks(o)
    BY <1>1, <1>3 DEF Traced
  <2>2. Walks(n)
    BY <1>2, <1>3, <2>1 DEF Walks, Walking
  <2>3. \A q \in Pkg \ {n.slot[1]} : Promise!Keeps(index[q], n.idx[q]) \/ Pending(n, q)
    BY <1>1, <1>2, <1>3, <2>1 DEF Traced, Walks, Installs
  <2>4. Traced(n)
    BY <1>1, <1>2, <1>3, <2>2, <2>3 DEF Traced
  <2>5. Len(n.frames) > 1 => tree' = tree \/ Resolvable(index)'
    <3>1. Len(o.frames) > 1 => Resolvable(index) /\ Len(o.frames) # 1
      <4>1. Len(o.frames) \in Nat
        BY DEF TypeOK, MemoryOK, Operation
      <4>2. Len(o.frames) > 1 => Resolvable(index)
        BY <2>1, Zenon DEF Walks
      <4>3. \A k \in Nat : k > 1 => k # 1
        OBVIOUS
      <4> QED BY <4>1, <4>2, <4>3, Zenon
    <3>2. tree' = tree \/ Len(o.frames) = 1 \/ (Resolvable(index) => Resolvable(index)')
      BY <1>3
    <3> QED BY <3>1, <3>2, Zenon
  <2> QED BY <1>3, <2>4, <2>5, HolderTraces
<1>4. CASE o.pc \in {"prepare", "sidecars"} /\ n.pc = "sidecars" /\ tree' = tree
  <2>1. Traced(n)
    BY <1>1, <1>2, <1>4 DEF Traced, Walking
  <2> QED BY <1>4, <2>1, HolderTraces
<1> QED BY <1>3, <1>4

\* A tree that becomes visible where there was none hides no selected one.
LEMMA PublishTraces ==
  ASSUME TypeOK, TraceInv, NEW p \in Proc,
         \/ PublishNew(p) \/ Displace(p) \/ PublishNothing(p) \/ Swap(p) \/ Record(p)
  PROVE  TraceInv'
<1> DEFINE o == op[p]
<1>0. o \in Operation /\ p \in DOMAIN op /\ lock = p /\ lock' = lock /\ index' = index
      /\ Traced(o) /\ o.pc \in Walking
  <2>1. o \in Operation /\ p \in DOMAIN op
    BY DEF TypeOK, MemoryOK
  <2>2. lock = p /\ lock' = lock /\ index' = index /\ o.pc \in Walking
    BY DEF PublishNew, Displace, PublishNothing, Swap, Record, ReadyToPublish, At, disk, Walking
  <2> QED BY <2>1, <2>2 DEF TraceInv
<1>1. Top(o).fresh
  BY <1>0 DEF PublishNew, Displace, PublishNothing, Swap, Record, ReadyToPublish, At, Traced, Walks
<1>2. PICK n : /\ op' = [op EXCEPT ![p] = n]
               /\ n.kind = o.kind /\ n.slot = o.slot /\ n.edit = o.edit /\ n.idx = o.idx
               /\ n.frames = o.frames /\ n.pc \in {"swap", "record", "activate"}
               /\ n.pc = "swap" => Displace(p)
  <2>1. CASE PublishNew(p) \/ Swap(p)
    <3> DEFINE m == [o EXCEPT !.pc = "record"]
    <3>1. op' = [op EXCEPT ![p] = m]
      BY <2>1 DEF PublishNew, Swap
    <3>2. m.kind = o.kind /\ m.slot = o.slot /\ m.edit = o.edit /\ m.idx = o.idx
          /\ m.frames = o.frames /\ m.pc = "record"
      BY <1>0 DEF Operation
    <3> HIDE DEF m
    <3> QED BY <3>1, <3>2
  <2>2. CASE PublishNothing(p)
    <3> DEFINE m == [o EXCEPT !.pc = "activate"]
    <3>1. op' = [op EXCEPT ![p] = m]
      BY <2>2 DEF PublishNothing
    <3>2. m.kind = o.kind /\ m.slot = o.slot /\ m.edit = o.edit /\ m.idx = o.idx
          /\ m.frames = o.frames /\ m.pc = "activate"
      BY <1>0 DEF Operation
    <3> HIDE DEF m
    <3> QED BY <3>1, <3>2
  <2>3. CASE Displace(p)
    <3>1. op' = [op EXCEPT ![p] = [o EXCEPT !.pc = "swap", !.prev = tree[o.slot]]]
      BY <2>3 DEF Displace
    <3> QED BY <1>0, <2>3, <3>1 DEF Operation
  <2>4. CASE Record(p)
    <3>1. PICK created, saved :
            op' = [op EXCEPT ![p] = [o EXCEPT !.pc = "activate", !.created = created, !.saved = saved]]
      <4>1. /\ [o EXCEPT !.pc = "activate", !.created = @ \cup {Top(o).slot}]
                 = [o EXCEPT !.pc = "activate", !.created = o.created \cup {Top(o).slot}, !.saved = o.saved]
            /\ [o EXCEPT !.pc = "activate", !.saved = TRUE]
                 = [o EXCEPT !.pc = "activate", !.created = o.created, !.saved = TRUE]
        BY <1>0 DEF Operation
      <4>2. \/ op' = [op EXCEPT ![p] = [o EXCEPT !.pc = "activate", !.created = @ \cup {Top(o).slot}]]
            \/ op' = [op EXCEPT ![p] = [o EXCEPT !.pc = "activate", !.saved = TRUE]]
        BY <2>4 DEF Record
      <4>3. CASE op' = [op EXCEPT ![p] = [o EXCEPT !.pc = "activate", !.saved = TRUE]]
        BY <4>1, <4>3
      <4>4. CASE op' = [op EXCEPT ![p] = [o EXCEPT !.pc = "activate", !.created = @ \cup {Top(o).slot}]]
        BY <4>1, <4>4
      <4> QED BY <4>2, <4>3, <4>4
    <3> DEFINE m == [o EXCEPT !.pc = "activate", !.created = created, !.saved = saved]
    <3>2. m.kind = o.kind /\ m.slot = o.slot /\ m.edit = o.edit /\ m.idx = o.idx
          /\ m.frames = o.frames /\ m.pc = "activate"
      BY <1>0 DEF Operation
    <3> HIDE DEF m
    <3> QED BY <3>1, <3>2 DEF m
  <2> QED BY <2>1, <2>2, <2>3, <2>4
<1>3. CASE PublishNew(p)
  <2>1. tree' = [tree EXCEPT ![Top(o).slot] = o.rev] /\ tree[Top(o).slot] = Absent
    BY <1>3 DEF PublishNew
  <2>2. ASSUME Resolvable(index), NEW q \in Pinned(index) PROVE tree'[SlotOf(index, q)] \in Rev
    <3>1. tree[SlotOf(index, q)] \in Rev
      BY <2>2 DEF Resolvable
    <3>2. SlotOf(index, q) # Top(o).slot
      BY <2>1, <3>1, RevAssumption
    <3> QED BY <2>1, <3>1, <3>2 DEF TypeOK
  <2>3. Resolvable(index) => Resolvable(index)'
    BY <1>0, <2>2 DEF Resolvable, Pinned, SlotOf
  <2>4. n.pc # "swap"
    BY <1>0, <1>2, <1>3 DEF PublishNew, Operation, TypeOK, MemoryOK
  <2> QED BY <1>0, <1>1, <1>2, <2>3, <2>4, SameTraces
<1>4. CASE Displace(p)
  <2>1. Len(o.frames) = 1
    BY <1>4 DEF Displace, Replaces
  <2> QED BY <1>0, <1>1, <1>2, <2>1, SameTraces
<1>5. CASE Swap(p)
  <2>1. Len(o.frames) = 1
    BY <1>0, <1>5 DEF Swap, At, Traced, Walks
  <2> QED BY <1>0, <1>1, <1>2, <2>1, SameTraces
<1>6. CASE PublishNothing(p) \/ Record(p)
  <2>1. tree' = tree
    BY <1>6 DEF PublishNothing, Record, disk
  <2>2. n.pc # "swap"
    <3>1. op'[p].pc = "activate"
      BY <1>0, <1>6 DEF PublishNothing, Record, Operation
    <3>2. op'[p] = n
      BY <1>0, <1>2
    <3> QED BY <3>1, <3>2
  <2> QED BY <1>0, <1>1, <1>2, <2>1, <2>2, SameTraces
<1> QED BY <1>3, <1>4, <1>5, <1>6

\* The commit itself: after it the operation owes the selection nothing.
LEMMA CommitTraces ==
  ASSUME TypeOK, TraceInv, NEW p \in Proc,
         Prepare(p) \/ (\E q \in Pkg : WriteSidecar(p, q)) \/ WriteIndex(p)
  PROVE  TraceInv'
<1> DEFINE o == op[p]
<1>0. o \in Operation /\ p \in DOMAIN op /\ lock = p /\ lock' = lock /\ Traced(o)
  <2>1. o \in Operation /\ p \in DOMAIN op
    BY DEF TypeOK, MemoryOK
  <2>2. lock = p /\ lock' = lock
    BY DEF Prepare, WriteSidecar, WriteIndex, At
  <2> QED BY <2>1, <2>2 DEF TraceInv
<1>1. CASE Prepare(p)
  <2> DEFINE n == [o EXCEPT !.pc = "sidecars", !.left = Pinned(o.idx), !.snap = prov]
  <2>1. op' = [op EXCEPT ![p] = n] /\ UNCHANGED <<tree, index>> /\ o.pc = "prepare"
    BY <1>1 DEF Prepare, At, disk
  <2>2. /\ n.kind = o.kind /\ n.slot = o.slot /\ n.edit = o.edit /\ n.idx = o.idx
        /\ n.frames = o.frames /\ n.pc = "sidecars"
    BY <1>0 DEF Operation
  <2> HIDE DEF n
  <2> QED BY <1>0, <2>1, <2>2, SameTraces
<1>2. ASSUME NEW q \in Pkg, WriteSidecar(p, q) PROVE TraceInv'
  <2> DEFINE n == [o EXCEPT !.left = @ \ {q}]
  <2>1. op' = [op EXCEPT ![p] = n] /\ UNCHANGED <<tree, index>> /\ o.pc = "sidecars"
    BY <1>2 DEF WriteSidecar, At
  <2>2. /\ n.kind = o.kind /\ n.slot = o.slot /\ n.edit = o.edit /\ n.idx = o.idx
        /\ n.frames = o.frames /\ n.pc = "sidecars"
    BY <1>0, <2>1 DEF Operation
  <2> HIDE DEF n
  <2> QED BY <1>0, <2>1, <2>2, SameTraces
<1>3. CASE WriteIndex(p)
  <2>1. op'[p] = [o EXCEPT !.pc = "committed"] /\ \A r \in Proc : r # p => op'[r] = op[r]
    BY <1>0, <1>3 DEF WriteIndex
  <2>2. op'[p].pc = "committed" /\ op'[p].kind = o.kind /\ op'[p].edit = o.edit
    BY <1>0, <2>1 DEF Operation
  <2>3. Traced(op[p])'
    BY <1>0, <2>2 DEF Traced, Walking
  <2> QED BY <1>0, <2>1, <2>3 DEF TraceInv
<1> QED BY <1>1, <1>2, <1>3

\* An uninstall prepares exactly the published selection without its package.
LEMMA RemoveTraces ==
  ASSUME TypeOK, TraceInv, NEW p \in Proc, UninstallEditable(p) \/ Hide(p)
  PROVE  TraceInv'
<1> DEFINE o == op[p]
<1>0. /\ o \in Operation /\ p \in DOMAIN op /\ lock = p /\ index' = index /\ Traced(o)
      /\ o.kind = "uninstall"
  <2>1. o \in Operation /\ p \in DOMAIN op
    BY DEF TypeOK, MemoryOK
  <2>2. lock = p /\ index' = index
    BY DEF UninstallEditable, Hide, Uninstalls, At, disk
  <2>3. Traced(o)
    BY <2>2 DEF TraceInv
  <2>4. o.kind = "uninstall"
    BY <2>3 DEF UninstallEditable, Uninstalls, Hide, At, Traced
  <2> QED BY <2>1, <2>2, <2>3, <2>4
<1>1. ASSUME NEW n, op' = [op EXCEPT ![p] = n], lock' = lock, n.kind = o.kind, n.slot = o.slot,
             n.idx = Without(o), n.pc \in {"finish", "prepare"}
      PROVE  TraceInv'
  <2>1. Without(n) = Without(o)
    BY <1>1 DEF Without
  <2>2. Traced(n)
    BY <1>0, <1>1, <2>1 DEF Traced, Installs, Walking
  <2>3. n.pc \notin Walking
    BY <1>1 DEF Walking
  <2> QED BY <1>0, <1>1, <2>2, <2>3, HolderTraces
<1>2. CASE UninstallEditable(p)
  <2> DEFINE n == [o EXCEPT !.pc = "prepare", !.idx = Without(o), !.edit = TRUE]
  <2>1. op' = [op EXCEPT ![p] = n] /\ lock' = lock
    BY <1>2 DEF UninstallEditable
  <2>2. n.kind = o.kind /\ n.slot = o.slot /\ n.idx = Without(o) /\ n.pc = "prepare"
    BY <1>0 DEF Operation
  <2> HIDE DEF n
  <2> QED BY <1>1, <2>1, <2>2
<1>3. CASE Hide(p)
  <2>1. CASE Release(p)
    BY <1>0, <2>1, ReleaseTraces
  <2>2. ASSUME NEW pc \in {"finish", "prepare"}, lock' = lock,
               op' = [op EXCEPT ![p].pc = pc, ![p].idx = Without(o)]
        PROVE  TraceInv'
    <3> DEFINE n == [o EXCEPT !.pc = pc, !.idx = Without(o)]
    <3>1. op' = [op EXCEPT ![p] = n]
      BY <1>0, <2>2
    <3>2. n.kind = o.kind /\ n.slot = o.slot /\ n.idx = Without(o) /\ n.pc = pc
      BY <1>0 DEF Operation
    <3> HIDE DEF n
    <3> QED BY <1>1, <2>2, <3>1, <3>2
  <2> QED BY <1>3, <2>1, <2>2 DEF Hide
<1> QED BY <1>2, <1>3

-----------------------------------------------------------------------------
(* The walk: what is loaded, met, selected and installed. *)

LEMMA AdoptSelects ==
  ASSUME NEW o \in Operation, NEW s \in Slot, NEW e \in BOOLEAN, NEW n, n = Adopt(o, s, e)
  PROVE  /\ n.idx[s[1]].ver = s[2] /\ n.idx[s[1]].edit = e
         /\ \A q \in Pkg : q # s[1] => n.idx[q] = o.idx[q]
         /\ n.kind = o.kind /\ n.slot = o.slot /\ n.edit = o.edit /\ n.frames = o.frames /\ n.pc = o.pc
<1>1. o.idx \in [Pkg -> Selection] /\ s[1] \in Pkg
  BY DEF Operation, Slot
<1> DEFINE c == [ver |-> s[2], edit |-> e, order |-> NextOrder(o)]
<1>2. /\ n.idx = [o.idx EXCEPT ![s[1]] = c]
      /\ n.kind = o.kind /\ n.slot = o.slot /\ n.edit = o.edit /\ n.frames = o.frames /\ n.pc = o.pc
  BY DEF Adopt, Operation
<1>3. c.ver = s[2] /\ c.edit = e
  OBVIOUS
<1> HIDE DEF c
<1> QED BY <1>1, <1>2, <1>3

LEMMA VersionType ==
  \A c \in Selection : c.ver \in Nat /\ c.ver \in Ver \cup {0} /\ c.edit \in BOOLEAN
<1> SUFFICES ASSUME NEW c \in Selection
             PROVE  c.ver \in Nat /\ c.ver \in Ver \cup {0} /\ c.edit \in BOOLEAN
  OBVIOUS
<1>1. CASE c = NoSel
  BY <1>1 DEF NoSel
<1>2. CASE c \in [ver : Ver, edit : BOOLEAN, order : Nat]
  BY <1>2, VerAssumption
<1> QED BY <1>1, <1>2 DEF Selection

LEMMA KeepsItself == \A c \in Selection : Promise!Keeps(c, c)
<1>1. \A c \in Selection : c.ver \in Nat
  BY VersionType
<1>2. \A v \in Nat : v >= v
  OBVIOUS
<1> QED BY <1>1, <1>2 DEF Promise!Keeps

LEMMA LoadTraces ==
  ASSUME TypeOK, TraceInv, NEW p \in Proc, LoadInstall(p) \/ LoadSwitch(p)
  PROVE  TraceInv'
<1> DEFINE o == op[p]
<1>0. /\ o \in Operation /\ lock = p /\ lock' = lock /\ UNCHANGED <<tree, index>>
      /\ Traced(o) /\ o.pc = "load" /\ Resolvable(index)
  <2>1. o \in Operation
    BY DEF TypeOK, MemoryOK
  <2>2. lock = p /\ lock' = lock /\ UNCHANGED <<tree, index>> /\ o.pc = "load" /\ Resolvable(index)
    BY DEF LoadInstall, LoadSwitch, At, disk
  <2> QED BY <2>1, <2>2 DEF TraceInv
<1> DEFINE l == Loaded(o)
<1>1. /\ l \in Operation /\ l.idx = index /\ l.kind = o.kind /\ l.slot = o.slot /\ l.edit = o.edit
      /\ l.frames = <<>>
  BY <1>0 DEF Loaded, Operation, TypeOK, Traced
<1>2. \A q \in Pkg : Promise!Keeps(index[q], index[q])
  BY KeepsItself DEF TypeOK
<1>3. CASE LoadInstall(p)
  <2> DEFINE f == [slot |-> o.slot, edit |-> o.edit, fresh |-> TRUE, todo |-> Requires(o.slot)]
             n == [l EXCEPT !.pc = "resolve", !.frames = <<f>>]
  <2>1. op' = [op EXCEPT ![p] = n] /\ o.kind = "install"
    BY <1>3 DEF LoadInstall
  <2>2. f.slot = o.slot /\ f.edit = o.edit
    OBVIOUS
  <2> HIDE DEF f, l
  <2>3. /\ n.kind = "install" /\ n.slot = o.slot /\ n.edit = o.edit /\ n.idx = index
        /\ n.pc = "resolve" /\ n.frames = <<f>>
    BY <1>1, <2>1 DEF Operation
  <2> HIDE DEF n
  <2>4. Len(n.frames) = 1 /\ n.frames[1] = f
    BY <2>3
  <2>5. Aims(n)
    BY <2>4 DEF Aims
  <2>6. Walks(n)
    BY <1>0, <2>2, <2>3, <2>4, <2>5 DEF Walks
  <2>7. Traced(n)
    BY <1>2, <2>3, <2>6 DEF Traced, Walking
  <2> QED BY <1>0, <2>1, <2>7, HolderTraces
<1>4. CASE LoadSwitch(p)
  <2>2. o.slot \in Slot /\ o.edit \in BOOLEAN /\ o.edit = FALSE /\ o.kind = "switch"
    BY <1>0, <1>4 DEF LoadSwitch, Traced, Operation
  <2> DEFINE a == Adopt(l, o.slot, o.edit)
             n == [a EXCEPT !.pc = "prepare"]
  <2>1. op' = [op EXCEPT ![p] = n]
    BY <1>4, <2>2 DEF LoadSwitch
  <2> HIDE DEF l
  <2>3. a \in Operation
    BY <1>1, <2>2, AdoptType DEF TypeOK
  <2>4. /\ a.idx[o.slot[1]].ver = o.slot[2] /\ a.idx[o.slot[1]].edit = o.edit
        /\ \A q \in Pkg : q # o.slot[1] => a.idx[q] = index[q]
        /\ a.kind = o.kind /\ a.slot = o.slot /\ a.edit = o.edit /\ a.frames = <<>>
    BY <1>1, <2>2, AdoptSelects
  <2> HIDE DEF a
  <2>5. /\ n.idx = a.idx /\ n.kind = "switch" /\ n.slot = o.slot /\ n.edit = o.edit /\ n.frames = <<>>
        /\ n.pc = "prepare"
    BY <2>2, <2>3, <2>4 DEF Operation
  <2> HIDE DEF n
  <2>6. Chosen(n)
    <3>1. Len(n.frames) <= 1
      BY <2>5
    <3> QED BY <2>4, <2>5, <3>1 DEF Chosen
  <2>7. Traced(n)
    BY <1>2, <2>2, <2>4, <2>5, <2>6 DEF Traced, Walking
  <2> QED BY <1>0, <2>1, <2>7, HolderTraces
<1> QED BY <1>3, <1>4

\* A package met on the walk that is no older than the published selection,
\* unless the package on top of the walk needs a newer one than that.
LEMMA PushTraces ==
  ASSUME TypeOK, TraceInv, NEW p \in Proc, At(p, "resolve"), NEW f \in Frame, Push(p, f),
         IF f.edit THEN ~f.fresh
         ELSE f.slot[1] \in Pinned(index) =>
                \/ f.slot[2] >= index[f.slot[1]].ver
                \/ index[f.slot[1]].ver < Dep[Top(op[p]).slot][f.slot[1]]
  PROVE  TraceInv'
<1> DEFINE o == op[p]
           k == Len(o.frames)
           n == [o EXCEPT !.frames = Append(o.frames, f)]
<1>0. /\ o \in Operation /\ lock = p /\ lock' = lock /\ UNCHANGED <<tree, index>>
      /\ o.pc = "resolve" /\ op' = [op EXCEPT ![p] = n]
  BY DEF TypeOK, MemoryOK, Push, At, disk
<1>1. Traced(o) /\ Walks(o)
  BY <1>0 DEF TraceInv, Traced, Walking
<1>2. o.frames \in Seq(Frame) /\ k \in Nat \ {0}
  <2>1. o.frames \in Seq(Frame) /\ o.frames # <<>>
    BY <1>0 DEF Operation, TypeOK, MemoryOK
  <2> QED BY <2>1
<1>3. /\ n.kind = o.kind /\ n.slot = o.slot /\ n.edit = o.edit /\ n.idx = o.idx /\ n.pc = o.pc
      /\ n.frames = Append(o.frames, f)
  BY <1>0 DEF Operation
<1> HIDE DEF n
<1>4. /\ Len(n.frames) = k + 1 /\ n.frames[k + 1] = f
      /\ \A i \in 1..k : n.frames[i] = o.frames[i]
  BY <1>2, <1>3
<1>5. Top(o) = o.frames[k]
  BY DEF Top
<1>6. Aims(n)
  <2> SUFFICES ASSUME NEW i \in 2..(k + 1)
               PROVE  IF n.frames[i].edit THEN ~n.frames[i].fresh
                      ELSE n.frames[i].slot[1] \in Pinned(index) =>
                             \/ n.frames[i].slot[2] >= index[n.frames[i].slot[1]].ver
                             \/ index[n.frames[i].slot[1]].ver
                                  < Dep[n.frames[i - 1].slot][n.frames[i].slot[1]]
    BY <1>4 DEF Aims
  <2>1. CASE i = k + 1
    <3>1. n.frames[i] = f /\ n.frames[i - 1] = Top(o)
      BY <1>2, <1>4, <1>5, <2>1
    <3> QED BY <3>1
  <2>2. CASE i # k + 1
    <3>1. i \in 2..k /\ i \in 1..k /\ i - 1 \in 1..k
      BY <1>2, <2>2
    <3>2. n.frames[i] = o.frames[i] /\ n.frames[i - 1] = o.frames[i - 1]
      BY <1>4, <3>1
    <3> QED BY <1>1, <3>1, <3>2 DEF Walks, Aims
  <2> QED BY <2>1, <2>2
<1>7. Walks(n)
  <2>1. n.frames[1] = o.frames[1]
    BY <1>2, <1>4
  <2> QED BY <1>0, <1>1, <1>3, <1>6, <2>1 DEF Walks
<1>8. ASSUME NEW q, Pending(o, q) PROVE Pending(n, q)
  <2>1. PICK i \in 2..k : o.frames[i].slot = <<q, o.idx[q].ver>> /\ ~o.frames[i].edit /\ ~o.idx[q].edit
    BY <1>8 DEF Pending
  <2>2. i \in 2..Len(n.frames) /\ n.frames[i] = o.frames[i]
    BY <1>2, <1>4, <2>1
  <2> QED BY <1>3, <2>1, <2>2 DEF Pending
<1>9. Traced(n)
  <2>1. \A q \in Pkg \ {n.slot[1]} : Promise!Keeps(index[q], n.idx[q]) \/ Pending(n, q)
    BY <1>0, <1>1, <1>3, <1>8 DEF Traced, Walks, Installs, Walking
  <2> QED BY <1>0, <1>1, <1>3, <1>7, <2>1 DEF Traced, Walks, Walking
<1> QED BY <1>0, <1>9, HolderTraces

\* The greatest stored candidate is no older than a published selection that
\* satisfies the requirement; without a candidate no published one does.
LEMMA NeedTraces ==
  ASSUME TypeOK, TraceInv, NEW p \in Proc, NEW q \in Pkg, Need(p, q)
  PROVE  TraceInv'
<1> DEFINE o == op[p]
           least == Dep[Top(o).slot][q]
           source == Path[Top(o).slot][q]
           C == Candidates(q, least)
<1>0. o \in Operation /\ At(p, "resolve") /\ o.frames # <<>> /\ Traced(o)
  BY DEF TypeOK, MemoryOK, Need, At, TraceInv
<1>1. Top(o) \in Frame /\ least \in Nat /\ source \in Ver \cup {0}
  <2>1. Top(o) \in Frame
    BY <1>0, TopType
  <2> QED BY <2>1, DepAssumption DEF Frame
<1>2. \A s \in Slot, e \in BOOLEAN : Walk(o, s, e) \in SUBSET Pkg /\ Requires(s) \in SUBSET Pkg
  BY DEF Walk, Requires
<1>3. Resolvable(index)
  BY <1>0 DEF At, Traced, Walks, Walking
<1>4. ASSUME q \in Pinned(index), index[q].ver >= least PROVE index[q].ver \in C
  <2>1. index[q].ver \in Ver
    BY <1>4 DEF Pinned, TypeOK, Selection, NoSel
  <2> QED BY <1>3, <1>4, <2>1 DEF Resolvable, Candidates, SlotOf
<1>5. index[q].ver \in Nat
  BY VersionType DEF TypeOK
<1>6. ASSUME C # {} PROVE Max(C) \in Ver /\ \A v \in C : v <= Max(C)
  <2>1. C \in SUBSET Ver
    BY DEF Candidates
  <2>2. IsFiniteSet(Ver) /\ Ver \subseteq Int
    BY VerAssumption
  <2>3. IsFiniteSet(C) /\ C \subseteq Int
    BY <2>1, <2>2, FS_Subset
  <2> HIDE DEF C
  <2> QED BY <1>6, <2>1, <2>3, MaxOfFinite
<1>7. CASE C # {}
  <2> DEFINE f == [slot |-> <<q, Max(C)>>, edit |-> FALSE, fresh |-> FALSE,
                   todo |-> Walk(o, <<q, Max(C)>>, FALSE)]
  <2>1. Push(p, f)
    BY <1>7 DEF Need
  <2>2. <<q, Max(C)>> \in Slot
    BY <1>6, <1>7 DEF Slot
  <2>3. f \in Frame
    BY <1>2, <2>2 DEF Frame
  <2>4. q \in Pinned(index) => Max(C) >= index[q].ver \/ index[q].ver < least
    <3>1. Max(C) \in Nat
      BY <1>6, <1>7, VerAssumption
    <3> HIDE DEF C, least
    <3> QED BY <1>1, <1>4, <1>5, <1>6, <1>7, <3>1
  <2>5. f.slot[1] = q /\ f.slot[2] = Max(C) /\ ~f.edit
    OBVIOUS
  <2> HIDE DEF f
  <2> QED BY <1>0, <2>1, <2>3, <2>4, <2>5, PushTraces
<1>8. q \in Pinned(index) /\ C = {} => index[q].ver < least
  BY <1>1, <1>4, <1>5
<1>9. CASE C = {} /\ o.idx[q].edit /\ o.idx[q].ver >= least
  <2> DEFINE s == SlotOf(o.idx, q)
             f == [slot |-> s, edit |-> TRUE, fresh |-> FALSE, todo |-> Walk(o, s, TRUE)]
  <2>1. Push(p, f)
    BY <1>9 DEF Need
  <2>2. s \in Slot
    BY <1>0, <1>9 DEF SlotOf, Slot, Operation, Selection, NoSel
  <2>3. f \in Frame
    BY <1>2, <2>2 DEF Frame
  <2>4. f.edit /\ ~f.fresh
    OBVIOUS
  <2> HIDE DEF f
  <2> QED BY <1>0, <2>1, <2>3, <2>4, PushTraces
<1>10. CASE C = {} /\ ~(o.idx[q].edit /\ o.idx[q].ver >= least)
  <2> DEFINE f == [slot |-> <<q, source>>, edit |-> FALSE, fresh |-> TRUE,
                   todo |-> Requires(<<q, source>>)]
  <2>1. Push(p, f) /\ source # 0
    BY <1>10 DEF Need
  <2>2. <<q, source>> \in Slot
    BY <1>1, <2>1 DEF Slot
  <2>3. f \in Frame
    BY <1>2, <2>2 DEF Frame
  <2>4. f.slot[1] = q /\ ~f.edit
    OBVIOUS
  <2>5. q \in Pinned(index) => index[q].ver < least
    BY <1>8, <1>10
  <2> HIDE DEF f
  <2> QED BY <1>0, <2>1, <2>3, <2>4, <2>5, PushTraces
<1> QED BY <1>7, <1>9, <1>10

\* The package leaving the walk is the selection now, and no older than the
\* published one, for it satisfies what its dependent requires.
LEMMA SatisfyTraces ==
  ASSUME TypeOK, TraceInv, NEW p \in Proc, Satisfy(p)
  PROVE  TraceInv'
<1> DEFINE o == op[p]
           k == Len(o.frames) - 1
           f == Top(o)
           q == f.slot[1]
           dependent == o.frames[k]
           current == f.edit \/ (o.idx[q].ver = f.slot[2] /\ ~o.idx[q].edit)
           below == [Below(o) EXCEPT ![k].todo = @ \ {q}]
           popped == [o EXCEPT !.resolved = @ \cup {<<f.slot, f.edit>>}, !.frames = below]
           n == IF current THEN popped ELSE Adopt(popped, f.slot, FALSE)
<1>0. /\ o \in Operation /\ lock = p /\ lock' = lock /\ UNCHANGED <<tree, index>>
      /\ o.pc = "resolve" /\ op' = [op EXCEPT ![p] = n]
  BY DEF TypeOK, MemoryOK, Satisfy, At, disk
<1>1. Traced(o) /\ Walks(o) /\ Installs(o)
  BY <1>0 DEF TraceInv, Traced, Walking, Walks, Installs
<1>2. o.frames \in Seq(Frame) /\ k \in Nat \ {0} /\ Len(o.frames) = k + 1 /\ f = o.frames[k + 1]
  <2>1. o.frames \in Seq(Frame) /\ Len(o.frames) > 1
    BY <1>0 DEF Operation, Satisfy
  <2>2. Len(o.frames) \in Nat
    BY <2>1
  <2>3. f = o.frames[Len(o.frames)]
    BY DEF Top
  <2> DEFINE m == Len(o.frames)
  <2>4. m \in Nat /\ m > 1
    BY <2>1, <2>2
  <2> HIDE DEF m
  <2>5. m - 1 \in Nat \ {0} /\ m = (m - 1) + 1
    BY <2>4
  <2> QED BY <2>1, <2>3, <2>5 DEF m
<1>3. /\ f \in Frame /\ f.slot \in Slot /\ q \in Pkg /\ f.slot[2] \in Nat \ {0} /\ dependent \in Frame
      /\ f.edit \in BOOLEAN
  <2>1. f \in Frame /\ dependent \in Frame
    <3>1. k \in 1..(k + 1) /\ k + 1 \in 1..(k + 1)
      <4> HIDE DEF k
      <4> QED BY <1>2
    <3>2. \A i \in 1..Len(o.frames) : o.frames[i] \in Frame
      BY <1>2
    <3> QED BY <1>2, <3>1, <3>2
  <2> QED BY <2>1, VerAssumption DEF Frame, Slot
<1>4. f.slot[2] >= Dep[dependent.slot][q] /\ Dep[dependent.slot][q] \in Nat
  <2>1. f.slot[2] >= Dep[dependent.slot][q]
    BY Zenon DEF Satisfy
  <2>2. dependent.slot \in Slot
    BY <1>3 DEF Frame
  <2> QED BY <1>3, <2>1, <2>2, DepAssumption, Zenon
<1>5. /\ below \in Seq(Frame) /\ Len(below) = k
      /\ \A i \in 1..k : /\ below[i].slot = o.frames[i].slot /\ below[i].edit = o.frames[i].edit
                         /\ below[i].fresh = o.frames[i].fresh
  <2>1. /\ Below(o) \in Seq(Frame) /\ Len(Below(o)) = k
        /\ \A i \in 1..k : Below(o)[i] = o.frames[i]
    BY <1>2 DEF Below
  <2>2. Below(o)[k] \in Frame /\ k \in 1..k
    <3>1. k \in 1..k
      <4> HIDE DEF k
      <4> QED BY <1>2
    <3>2. Below(o)[k] = dependent
      BY <2>1, <3>1
    <3> QED BY <1>3, <3>1, <3>2
  <2>3. /\ [Below(o)[k] EXCEPT !.todo = @ \ {q}] \in Frame
        /\ [Below(o)[k] EXCEPT !.todo = @ \ {q}].slot = Below(o)[k].slot
        /\ [Below(o)[k] EXCEPT !.todo = @ \ {q}].edit = Below(o)[k].edit
        /\ [Below(o)[k] EXCEPT !.todo = @ \ {q}].fresh = Below(o)[k].fresh
    BY <2>2 DEF Frame
  <2> DEFINE g == [Below(o)[k] EXCEPT !.todo = @ \ {q}]
             B == Below(o)
  <2>4. below = [B EXCEPT ![k] = g] /\ g \in Frame /\ B \in Seq(Frame) /\ Len(B) = k
    BY <2>1, <2>3
  <2>5. g.slot = B[k].slot /\ g.edit = B[k].edit /\ g.fresh = B[k].fresh
    BY <2>3
  <2> HIDE DEF below, g, B
  <2>6. below \in Seq(Frame) /\ Len(below) = k /\ below[k] = g
        /\ \A i \in 1..k : i # k => below[i] = B[i]
    BY <2>2, <2>4
  <2>7. ASSUME NEW i \in 1..k
        PROVE  below[i].slot = B[i].slot /\ below[i].edit = B[i].edit /\ below[i].fresh = B[i].fresh
    BY <2>5, <2>6
  <2> QED BY <2>1, <2>6, <2>7 DEF B
<1>6. /\ popped \in Operation /\ popped.idx = o.idx /\ popped.kind = o.kind /\ popped.slot = o.slot
      /\ popped.edit = o.edit /\ popped.pc = o.pc /\ popped.frames = below
  <2>1. <<f.slot, f.edit>> \in Slot \X BOOLEAN
    BY <1>3 DEF Frame
  <2> HIDE DEF below, f
  <2> QED BY <1>0, <1>5, <2>1 DEF Operation
<1>7. /\ n.kind = o.kind /\ n.slot = o.slot /\ n.edit = o.edit /\ n.pc = "resolve" /\ n.frames = below
      /\ \A r \in Pkg : r # q => n.idx[r] = o.idx[r]
      /\ f.edit => n.idx = o.idx
      /\ ~f.edit => n.idx[q].ver = f.slot[2] /\ ~n.idx[q].edit
  <2> DEFINE e == f.edit
             a == Adopt(popped, f.slot, e)
  <2>1. /\ a.idx[q].ver = f.slot[2] /\ a.idx[q].edit = e
        /\ \A r \in Pkg : r # q => a.idx[r] = popped.idx[r]
        /\ a.kind = popped.kind /\ a.slot = popped.slot /\ a.edit = popped.edit
        /\ a.frames = popped.frames /\ a.pc = popped.pc
    <3> HIDE DEF popped, f
    <3> QED BY <1>3, <1>6, AdoptSelects
  <2>2. CASE current
    <3>1. n = popped
      BY <2>2
    <3> HIDE DEF n, popped, below, f
    <3> QED BY <1>0, <1>6, <2>2, <3>1
  <2>3. CASE ~current
    <3>1. n = a /\ ~f.edit
      <4>1. f.edit = FALSE
        BY <1>3, <2>3
      <4> QED BY <2>3, <4>1
    <3> HIDE DEF n, popped, a, below, f
    <3> QED BY <1>0, <1>6, <2>1, <3>1 DEF e
  <2> QED BY <2>2, <2>3
<1> HIDE DEF n, popped, below, current, f, k
<1>8. Len(n.frames) = k /\ n.frames[1].slot = o.frames[1].slot /\ n.frames[1].edit = o.frames[1].edit
  <2>1. n.frames = below /\ Len(below) = k /\ 1 \in 1..k
    <3>1. n.frames = below /\ Len(below) = k
      BY <1>5, <1>7, Zenon
    <3>2. k \in Nat \ {0}
      BY <1>2, Zenon
    <3> QED BY <3>1, <3>2
  <2>2. below[1].slot = o.frames[1].slot /\ below[1].edit = o.frames[1].edit
    BY <1>5, <2>1
  <2> QED BY <2>1, <2>2, Zenon
<1>9. Aims(n)
  <2> SUFFICES ASSUME NEW i \in 2..k
               PROVE  IF n.frames[i].edit THEN ~n.frames[i].fresh
                      ELSE n.frames[i].slot[1] \in Pinned(index) =>
                             \/ n.frames[i].slot[2] >= index[n.frames[i].slot[1]].ver
                             \/ index[n.frames[i].slot[1]].ver
                                  < Dep[n.frames[i - 1].slot][n.frames[i].slot[1]]
    BY <1>8 DEF Aims
  <2>1. i \in 2..Len(o.frames) /\ i \in 1..k /\ i - 1 \in 1..k
    BY <1>2
  <2>2. /\ n.frames[i].slot = o.frames[i].slot /\ n.frames[i].edit = o.frames[i].edit
        /\ n.frames[i].fresh = o.frames[i].fresh /\ n.frames[i - 1].slot = o.frames[i - 1].slot
    BY <1>5, <1>7, <2>1
  <2> QED BY <1>1, <2>1, <2>2 DEF Walks, Aims
<1>10. Walks(n)
  BY <1>0, <1>1, <1>7, <1>8, <1>9 DEF Walks
<1>11. ASSUME NEW r \in Pkg, Pending(o, r), n.idx[r] = o.idx[r],
              r # q \/ f.edit
       PROVE  Pending(n, r)
  <2>1. PICK i \in 2..Len(o.frames) : o.frames[i].slot = <<r, o.idx[r].ver>> /\ ~o.frames[i].edit
                                      /\ ~o.idx[r].edit
    BY <1>11 DEF Pending
  <2>2. i # k + 1
    BY <1>2, <1>11, <2>1
  <2>3. i \in 1..k /\ i \in 2..Len(n.frames)
    BY <1>2, <1>8, <2>2
  <2>4. n.frames[i].slot = o.frames[i].slot /\ n.frames[i].edit = o.frames[i].edit
    BY <1>5, <1>7, <2>3
  <2> QED BY <1>11, <2>1, <2>3, <2>4 DEF Pending
<1>12. ASSUME ~f.edit PROVE Promise!Keeps(index[q], n.idx[q])
  <2>1. q \in Pinned(index) => f.slot[2] >= index[q].ver \/ index[q].ver < Dep[dependent.slot][q]
    <3>1. k + 1 \in 2..Len(o.frames) /\ (k + 1) - 1 = k
      BY <1>2
    <3>2. LET g == o.frames[k + 1] IN
          ~g.edit /\ g.slot[1] \in Pinned(index) =>
            g.slot[2] >= index[g.slot[1]].ver
            \/ index[g.slot[1]].ver < Dep[o.frames[(k + 1) - 1].slot][g.slot[1]]
      BY <1>1, <3>1 DEF Walks, Aims
    <3> QED BY <1>2, <1>12, <3>1, <3>2
  <2>2. index[q].ver \in Nat
    BY <1>3, VersionType DEF TypeOK
  <2>3. q \in Pinned(index) => f.slot[2] >= index[q].ver
    <3> HIDE DEF q, dependent
    <3> QED BY <1>3, <1>4, <2>1, <2>2
  <2>4. index[q].ver # 0 /\ ~index[q].edit => q \in Pinned(index)
    BY <1>3 DEF Pinned
  <2>5. n.idx[q].ver = f.slot[2] /\ ~n.idx[q].edit /\ f.slot[2] # 0
    BY <1>3, <1>7, <1>12
  <2> QED BY <2>3, <2>4, <2>5 DEF Promise!Keeps
<1>13. \A r \in Pkg \ {n.slot[1]} : Promise!Keeps(index[r], n.idx[r]) \/ Pending(n, r)
  <2> SUFFICES ASSUME NEW r \in Pkg \ {o.slot[1]}
               PROVE  Promise!Keeps(index[r], n.idx[r]) \/ Pending(n, r)
    BY <1>7
  <2>1. Promise!Keeps(index[r], o.idx[r]) \/ Pending(o, r)
    BY <1>0, <1>1 DEF Traced, Walking
  <2>2. CASE r # q \/ f.edit
    <3>1. n.idx[r] = o.idx[r]
      BY <1>7, <2>2
    <3> QED BY <1>11, <2>1, <2>2, <3>1
  <2>3. CASE r = q /\ ~f.edit
    BY <1>12, <2>3
  <2> QED BY <2>2, <2>3
<1>14. Traced(n)
  BY <1>1, <1>7, <1>10, <1>13 DEF Traced, Walks, Walking
<1> QED BY <1>0, <1>14, HolderTraces

\* The package just installed is the selection. It leaves the walk when it is
\* the one asked for; a dependency stays on it until its dependent has checked it.
LEMMA ActivateTraces ==
  ASSUME TypeOK, TraceInv, NEW p \in Proc, Activate(p)
  PROVE  TraceInv'
<1> DEFINE o == op[p]
           k == Len(o.frames)
           f == Top(o)
           q == f.slot[1]
           a == Adopt(o, f.slot, f.edit)
           stored == [f EXCEPT !.fresh = FALSE, !.todo = Requires(f.slot)]
           above == Append(Below(a), stored)
           n == IF Len(a.frames) = 1 THEN [a EXCEPT !.pc = "prepare"]
                ELSE [a EXCEPT !.pc = "resolve", !.frames = above]
<1>0. /\ o \in Operation /\ lock = p /\ lock' = lock /\ UNCHANGED <<tree, index>>
      /\ o.pc = "activate" /\ op' = [op EXCEPT ![p] = n] /\ o.frames # <<>>
  BY DEF TypeOK, MemoryOK, Activate, At, disk
<1>1. Traced(o) /\ Walks(o) /\ Installs(o)
  BY <1>0 DEF TraceInv, Traced, Walking, Walks, Installs
<1>2. o.frames \in Seq(Frame) /\ k \in Nat \ {0} /\ f = o.frames[k]
  <2>1. o.frames \in Seq(Frame) /\ o.frames # <<>>
    BY <1>0 DEF Operation
  <2> QED BY <2>1 DEF Top
<1>3. f \in Frame /\ f.slot \in Slot /\ q \in Pkg /\ f.edit \in BOOLEAN /\ f.fresh
  <2>1. f \in Frame
    BY <1>2
  <2> QED BY <1>0, <1>1, <2>1 DEF Frame, Slot, Walks
<1>4. /\ a.idx[q].ver = f.slot[2] /\ a.idx[q].edit = f.edit
      /\ \A r \in Pkg : r # q => a.idx[r] = o.idx[r]
      /\ a.kind = o.kind /\ a.slot = o.slot /\ a.edit = o.edit /\ a.frames = o.frames
  <2> DEFINE e == f.edit
  <2>1. e \in BOOLEAN
    BY <1>3
  <2> HIDE DEF f
  <2> QED BY <1>0, <1>3, AdoptSelects
<1>5. a \in Operation
  BY <1>0, <1>3, AdoptType DEF TypeOK
<1>6. \A r \in Pkg \ {o.slot[1]} : Promise!Keeps(index[r], o.idx[r]) \/ Pending(o, r)
  BY <1>0, <1>1 DEF Traced, Walking
<1> HIDE DEF f
<1>7. CASE k = 1
  <2> DEFINE m == [a EXCEPT !.pc = "prepare"]
  <2>1. n = m
    BY <1>4, <1>7
  <2> HIDE DEF a, n
  <2>2. /\ m.kind = o.kind /\ m.slot = o.slot /\ m.edit = o.edit /\ m.frames = o.frames
        /\ m.idx = a.idx /\ m.pc = "prepare"
    BY <1>4, <1>5 DEF Operation
  <2> HIDE DEF m
  <2>3. f.slot = o.slot /\ f.edit = o.edit
    BY <1>1, <1>2, <1>7 DEF Walks
  <2>4. Chosen(m)
    <3>1. m.idx[m.slot[1]].ver = m.slot[2] /\ m.idx[m.slot[1]].edit = m.edit
      BY <1>4, <2>2, <2>3
    <3>2. Len(m.frames) <= 1
      <4>1. Len(m.frames) = 1
        BY <1>7, <2>2, Zenon
      <4> QED BY <4>1
    <3> QED BY <3>1, <3>2 DEF Chosen
  <2>5. \A r \in Pkg \ {m.slot[1]} : Promise!Keeps(index[r], m.idx[r]) \/ Pending(m, r)
    <3> SUFFICES ASSUME NEW r \in Pkg \ {o.slot[1]}
                 PROVE  Promise!Keeps(index[r], m.idx[r]) \/ Pending(m, r)
      BY <2>2
    <3>1. m.idx[r] = o.idx[r]
      BY <1>4, <2>2, <2>3
    <3>2. Pending(o, r) => Pending(m, r)
      BY <2>2, <3>1 DEF Pending
    <3> QED BY <1>6, <3>1, <3>2
  <2>6. Traced(m)
    BY <1>1, <2>2, <2>4, <2>5 DEF Traced, Walks, Walking
  <2> QED BY <1>0, <2>1, <2>2, <2>6, HolderTraces DEF Walking
<1>8. CASE k # 1
  <2> DEFINE m == [a EXCEPT !.pc = "resolve", !.frames = above]
  <2>1. n = m
    BY <1>4, <1>8
  <2>2. /\ stored \in Frame /\ stored.slot = f.slot /\ stored.edit = f.edit /\ ~stored.fresh
    BY <1>3 DEF Frame, Requires
  <2> HIDE DEF a, n, stored
  <2>3. /\ above \in Seq(Frame) /\ Len(above) = k /\ above[k] = stored
        /\ \A i \in 1..(k - 1) : above[i] = o.frames[i]
    <3>1. above = Append(Below(o), stored)
      BY <1>4 DEF Below
    <3>2. Below(o) \in Seq(Frame) /\ Len(Below(o)) = k - 1 /\ \A i \in 1..(k - 1) : Below(o)[i] = o.frames[i]
      BY <1>2 DEF Below
    <3> HIDE DEF above, k
    <3> QED BY <1>2, <2>2, <3>1, <3>2
  <2> HIDE DEF above
  <2>4. /\ m.kind = o.kind /\ m.slot = o.slot /\ m.edit = o.edit /\ m.frames = above
        /\ m.idx = a.idx /\ m.pc = "resolve"
    BY <1>4, <1>5, <2>3 DEF Operation
  <2> HIDE DEF m
  <2>5. k > 1 /\ k \in 2..k /\ 1 \in 1..(k - 1)
    <3> HIDE DEF k
    <3> QED BY <1>2, <1>8
  <2>6. ~f.edit
    BY <1>1, <1>2, <1>3, <2>5 DEF Walks, Aims
  <2>7. \A i \in 1..k : m.frames[i].slot = o.frames[i].slot /\ m.frames[i].edit = o.frames[i].edit
                        /\ (m.frames[i].fresh => o.frames[i].fresh)
    <3> SUFFICES ASSUME NEW i \in 1..k
                 PROVE  m.frames[i].slot = o.frames[i].slot /\ m.frames[i].edit = o.frames[i].edit
                        /\ (m.frames[i].fresh => o.frames[i].fresh)
      OBVIOUS
    <3>1. CASE i = k
      BY <1>2, <2>2, <2>3, <2>4, <3>1
    <3>2. CASE i # k
      <4>1. i \in 1..(k - 1)
        BY <1>2, <3>2
      <4> QED BY <2>3, <2>4, <4>1
    <3> QED BY <3>1, <3>2
  <2>8. Aims(m)
    <3> SUFFICES ASSUME NEW i \in 2..k
                 PROVE  IF m.frames[i].edit THEN ~m.frames[i].fresh
                        ELSE m.frames[i].slot[1] \in Pinned(index) =>
                               \/ m.frames[i].slot[2] >= index[m.frames[i].slot[1]].ver
                               \/ index[m.frames[i].slot[1]].ver
                                    < Dep[m.frames[i - 1].slot][m.frames[i].slot[1]]
      BY <2>3, <2>4 DEF Aims
    <3>1. i \in 1..k /\ i - 1 \in 1..k
      BY <1>2
    <3>2. /\ m.frames[i].slot = o.frames[i].slot /\ m.frames[i].edit = o.frames[i].edit
          /\ m.frames[i].fresh => o.frames[i].fresh
          /\ m.frames[i - 1].slot = o.frames[i - 1].slot
      BY <2>7, <3>1
    <3> QED BY <1>1, <3>2 DEF Walks, Aims
  <2>9. Walks(m)
    <3>1. Resolvable(index)
      BY <1>1, <2>5 DEF Walks
    <3>2. m.frames[1].slot = o.slot /\ m.frames[1].edit = o.edit
      BY <1>1, <1>2, <2>5, <2>7 DEF Walks
    <3> QED BY <1>1, <2>4, <2>8, <3>1, <3>2 DEF Walks
  <2>10. \A r \in Pkg \ {m.slot[1]} : Promise!Keeps(index[r], m.idx[r]) \/ Pending(m, r)
    <3> SUFFICES ASSUME NEW r \in Pkg \ {o.slot[1]}
                 PROVE  Promise!Keeps(index[r], m.idx[r]) \/ Pending(m, r)
      BY <2>4
    <3>1. CASE r = q
      <4>1. m.frames[k].slot = <<r, m.idx[r].ver>> /\ ~m.frames[k].edit /\ ~m.idx[r].edit
        <5>1. m.frames[k].slot = f.slot /\ ~m.frames[k].edit
          BY <2>2, <2>3, <2>4, <2>6
        <5>2. f.slot = <<f.slot[1], f.slot[2]>>
          BY <1>3 DEF Slot
        <5>3. m.idx[r].ver = f.slot[2] /\ ~m.idx[r].edit
          BY <1>4, <2>4, <2>6, <3>1
        <5> QED BY <3>1, <5>1, <5>2, <5>3
      <4> QED BY <2>3, <2>4, <2>5, <4>1 DEF Pending
    <3>2. CASE r # q
      <4>1. m.idx[r] = o.idx[r]
        BY <1>4, <2>4, <3>2
      <4>2. ASSUME Pending(o, r) PROVE Pending(m, r)
        <5>1. PICK i \in 2..k : o.frames[i].slot = <<r, o.idx[r].ver>> /\ ~o.frames[i].edit
                                /\ ~o.idx[r].edit
          BY <4>2 DEF Pending
        <5>2. i \in 1..k
          BY <1>2
        <5>3. m.frames[i].slot = <<r, m.idx[r].ver>> /\ ~m.frames[i].edit /\ ~m.idx[r].edit
          BY <2>7, <4>1, <5>1, <5>2
        <5>4. i \in 2..Len(m.frames)
          BY <2>3, <2>4
        <5> QED BY <5>3, <5>4 DEF Pending
      <4> QED BY <1>6, <4>1, <4>2
    <3> QED BY <3>1, <3>2
  <2>11. Traced(m)
    BY <1>1, <2>4, <2>9, <2>10 DEF Traced, Walks, Walking
  <2> QED BY <1>0, <2>1, <2>11, HolderTraces
<1> QED BY <1>7, <1>8

LEMMA InitTraces == Init => TraceInv
BY ProcAssumption DEF Init, TraceInv

LEMMA NextTraces == TypeOK /\ TraceInv /\ [NextWithInterrupts]_vars => TraceInv'
<1> SUFFICES ASSUME TypeOK, TraceInv, [NextWithInterrupts]_vars PROVE TraceInv'
  OBVIOUS
<1>1. CASE UNCHANGED vars
  <2>1. UNCHANGED <<tree, index, lock, op>>
    BY <1>1 DEF vars
  <2>2. ASSUME NEW p \in Proc, lock = p PROVE TraceInv'
    <3>1. op' = [op EXCEPT ![p] = op[p]] /\ Traced(op[p])
      BY <2>1, <2>2 DEF TypeOK, MemoryOK, TraceInv
    <3> QED BY <2>1, <2>2, <3>1, HolderTraces
  <2>3. CASE lock \notin Proc
    BY <2>1, <2>3 DEF TraceInv
  <2> QED BY <2>2, <2>3
<1>2. ASSUME NEW p \in Proc, Start(p) \/ Step(p) \/ Crash(p) \/ Interrupt(p) PROVE TraceInv'
  <2>1. CASE Start(p)
    BY <2>1, BeginTraces
  <2>2. CASE Crash(p) \/ Interrupt(p)
    BY <2>2, EndTraces
  <2>3. CASE Step(p)
    BY <2>3, LoadTraces, NeedTraces, SatisfyTraces, PublishTraces, ActivateTraces, CommitTraces,
       RemoveTraces, EndTraces DEF Step
  <2> QED BY <1>2, <2>1, <2>2, <2>3
<1> QED BY <1>1, <1>2 DEF NextWithInterrupts, Next

-----------------------------------------------------------------------------
(* The published index implements the atomic selection of PackageSelection. *)

LEMMA InitSelects == Init => Promise!Init
<1> SUFFICES ASSUME Init PROVE Promise!Init
  OBVIOUS
<1>1. \A q \in Pkg : index[q].ver = 0 /\ index[q].edit = FALSE
  BY DEF Init, Blank, NoSel
<1> QED BY <1>1 DEF Promise!Init, Promise!None

LEMMA StepSelects ==
  ASSUME TypeOK, TypeOK', CommitInv, CommitInv', TraceInv, NEW p \in Proc, Commits(p), index' # index
  PROVE  Promise!Next
<1> DEFINE o == op[p]
           sel == [q \in Pkg |-> [ver |-> index[q].ver, edit |-> index[q].edit]]
           next == [q \in Pkg |-> [ver |-> index'[q].ver, edit |-> index'[q].edit]]
<1>0. index' = o.idx /\ o.pc = "sidecars" /\ o \in Operation
  BY DEF Commits, TypeOK, MemoryOK
<1>1. Traced(o)
  BY <1>0 DEF TraceInv, Idle
<1>2. o.slot[1] \in Pkg /\ o.slot[2] \in Ver /\ o.edit \in BOOLEAN
  BY <1>0 DEF Operation, Slot
<1>3. Promise!Satisfied(next)
  <2>1. \A q \in Pkg : next[q].ver = index'[q].ver
    OBVIOUS
  <2>2. Closed(index')
    BY DEF CommitInv, SelectionClosed, Closed, SlotOf, Requires
  <2> HIDE DEF next
  <2> QED BY <2>1, <2>2 DEF Promise!Satisfied, Closed, SlotOf, Requires
<1>4. next \in [Pkg -> Promise!Choice]
  <2>1. \A q \in Pkg : index'[q].ver \in Ver \cup {0} /\ index'[q].edit \in BOOLEAN
    BY VersionType DEF TypeOK
  <2> QED BY <2>1 DEF Promise!Choice
<1>5. CASE Installs(o)
  <2>1. next[o.slot[1]] = [ver |-> o.slot[2], edit |-> o.edit]
    <3>1. index'[o.slot[1]].ver = o.slot[2] /\ index'[o.slot[1]].edit = o.edit
      BY <1>0, <1>1, <1>5 DEF Traced, Chosen
    <3> QED BY <1>2, <3>1
  <2>2. ASSUME NEW q \in Pkg \ {o.slot[1]} PROVE Promise!Keeps(sel[q], next[q])
    <3>1. ~Pending(o, q)
      <4>1. Len(o.frames) <= 1 /\ Len(o.frames) \in Nat
        BY <1>0, <1>1, <1>5 DEF Traced, Chosen, Operation
      <4> QED BY <4>1 DEF Pending
    <3>2. Promise!Keeps(index[q], index'[q])
      BY <1>0, <1>1, <1>5, <3>1 DEF Traced
    <3>3. /\ sel[q].ver = index[q].ver /\ sel[q].edit = index[q].edit
          /\ next[q].ver = index'[q].ver /\ next[q].edit = index'[q].edit
      OBVIOUS
    <3> HIDE DEF sel, next
    <3> QED BY <3>2, <3>3 DEF Promise!Keeps
  <2>3. PICK q \in Pkg, v \in Ver, edit \in BOOLEAN : q = o.slot[1] /\ v = o.slot[2] /\ edit = o.edit
    BY <1>2
  <2>4. Promise!Select(q, v, edit)
    BY <1>3, <1>4, <2>1, <2>2, <2>3 DEF Promise!Select
  <2> QED BY <2>4 DEF Promise!Next
<1>6. CASE o.kind = "uninstall"
  <2>1. index' = Without(o)
    BY <1>0, <1>1, <1>6 DEF Traced
  <2>2. next = [sel EXCEPT ![o.slot[1]] = Promise!None]
    BY <1>2, <2>1 DEF Without, NoSel, Promise!None, TypeOK
  <2>3. PICK q \in Pkg : q = o.slot[1]
    BY <1>2
  <2>4. Promise!Drop(q)
    BY <1>3, <2>2, <2>3 DEF Promise!Drop
  <2> QED BY <2>4 DEF Promise!Next
<1> QED BY <1>0, <1>1, <1>5, <1>6 DEF Traced, Installs, Operation, Kinds

LEMMA NextSelects ==
  TypeOK /\ TypeOK' /\ CommitInv /\ TraceInv /\ [NextWithInterrupts]_vars
    => [Promise!Next]_([q \in Pkg |-> [ver |-> index[q].ver, edit |-> index[q].edit]])
<1> SUFFICES ASSUME TypeOK, TypeOK', CommitInv, TraceInv, [NextWithInterrupts]_vars, index' # index
             PROVE  Promise!Next
  OBVIOUS
<1>1. PICK p \in Proc : Commits(p)
  <2>1. PICK p \in Proc : Start(p) \/ Step(p) \/ Crash(p) \/ Interrupt(p)
    BY DEF NextWithInterrupts, Next, vars
  <2> QED BY <2>1, BeginCommits, MoveCommits, EndCommits, SelectCommits, PublishCommits DEF Step
<1>2. CommitInv'
  BY NextCommit
<1> QED BY <1>1, <1>2, StepSelects

\* Whatever transactions do, fail, are interrupted or die, the published index moves
\* only by whole commits, each of which selects the one version that was asked for or
\* removes the one package that was: no other package is dropped, downgraded or turned
\* into live source on the way (install.py: activate and uninstall transactions).
THEOREM SelectionImplemented == SpecWithInterrupts => ImplementsSelection
<1>1. TypeOK /\ CommitInv /\ TraceInv /\ [NextWithInterrupts]_vars => TypeOK' /\ CommitInv' /\ TraceInv'
  BY NextType, NextCommit, NextTraces
<1>2. Init => TypeOK /\ CommitInv /\ TraceInv
  BY InitType, InitCommit, InitTraces
<1> QED BY <1>1, <1>2, InitSelects, NextSelects, PTL DEF SpecWithInterrupts, ImplementsSelection, Promise!Spec

-----------------------------------------------------------------------------
(* A failed install or switch leaves the disk as it found it.               *)

\* The trees a rollback removes; one is on disk before it is recorded.
Added(o) == o.created \cup (IF o.pc = "record" /\ o.prev = Absent THEN {Top(o).slot} ELSE {})

\* The trees found on disk: without those that were added, with the displaced one.
Logged(o, t) ==
    \A s \in Slot : o.before.tree[s] = IF s \in Added(o) THEN Absent
                                       ELSE IF s = o.slot /\ o.prev # Absent THEN o.prev ELSE t[s]

MovedOnce(o) ==
    /\ o.prev # Absent => o.slot \notin Added(o) /\ (o.saved \/ o.pc \in {"swap", "record"})
    /\ o.saved \/ o.pc = "swap" => o.prev # Absent
    /\ o.pc = "restore" => o.saved

\* The package asked for is not met again on the walk, so it is still to be published.
Unmet(o) ==
    o.pc \in Walking =>
        /\ o.frames[1].fresh
        /\ \A k \in 2..Len(o.frames) : o.frames[k].fresh => o.edit \/ o.frames[k].slot # o.slot
        /\ o.pc = "resolve" \/ Len(o.frames) > 1 => o.edit \/ o.slot \notin Added(o)
        /\ o.pc = "resolve" => o.prev = Absent

Reverts(o, t, i, v) ==
    /\ o.before.index = i
    /\ o.before.prov = IF o.pc = "sidecars" THEN o.snap ELSE v
    /\ Logged(o, t) /\ MovedOnce(o) /\ Unmet(o)

Uncommitted(o) == Installs(o) /\ o.pc \notin {"load", "committed"}

RevertInv == \A p \in Proc : lock = p /\ Uncommitted(op[p]) => Reverts(op[p], tree, index, prov)

RevertAll == TypeOK /\ StoreInv /\ TraceInv /\ RevertInv

-----------------------------------------------------------------------------
LEMMA HolderReverts ==
  ASSUME TypeOK, NEW p \in Proc, lock' = p, NEW n, op' = [op EXCEPT ![p] = n],
         Uncommitted(n) => Reverts(n, tree', index', prov')
  PROVE  RevertInv'
<1>1. op'[p] = n
  BY DEF TypeOK, MemoryOK
<1>2. Uncommitted(op[p])' <=> Uncommitted(n)
  BY <1>1 DEF Uncommitted, Installs
<1>3. Reverts(op[p], tree, index, prov)' <=> Reverts(n, tree', index', prov')
  BY <1>1 DEF Reverts, Logged, MovedOnce, Unmet, Added, Top
<1> QED BY <1>2, <1>3 DEF RevertInv

LEMMA ReleaseReverts == ASSUME NEW p \in Proc, Release(p) PROVE RevertInv'
BY ProcAssumption DEF Release, RevertInv

\* The bookkeeping of a step that leaves the trees and their records alone.
LEMMA StillReverts ==
  ASSUME NEW o, NEW n, NEW t, NEW i, NEW v, NEW w, Reverts(o, t, i, v),
         n.before = o.before, n.slot = o.slot, n.edit = o.edit, n.prev = o.prev, n.saved = o.saved,
         Added(n) = Added(o), Unmet(n),
         o.before.prov = (IF n.pc = "sidecars" THEN n.snap ELSE w),
         n.prev = Absent \/ n.saved \/ n.pc = "record",
         n.pc \notin {"swap", "restore"}
  PROVE  Reverts(n, t, i, w)
BY DEF Reverts, Logged, MovedOnce

LEMMA BeginReverts == ASSUME TypeOK, NEW p \in Proc, Start(p) PROVE RevertInv'
<1>1. ASSUME NEW o \in Operation, Begin(p, o) PROVE RevertInv'
  <2> DEFINE n == [o EXCEPT !.pc = "load"]
  <2>1. op' = [op EXCEPT ![p] = n] /\ lock' = p /\ n.pc = "load"
    BY <1>1 DEF Begin, Operation
  <2> HIDE DEF n
  <2> QED BY <2>1, HolderReverts DEF Uncommitted
<1>2. \E o \in Operation : Begin(p, o)
  <2>1. CASE BeginInstall(p)
    <3>1. PICK s \in Offered, r \in Rev, edit, reinstall \in BOOLEAN :
            Begin(p, [Idle EXCEPT !.kind = "install", !.slot = s, !.rev = r, !.edit = edit, !.reinstall = reinstall])
      BY <2>1 DEF BeginInstall
    <3>2. [Idle EXCEPT !.kind = "install", !.slot = s, !.rev = r, !.edit = edit, !.reinstall = reinstall] \in Operation
      BY IdleType, OfferedAssumption DEF Operation, Kinds
    <3> QED BY <3>1, <3>2
  <2>2. CASE BeginSwitch(p)
    <3>1. PICK s \in Offered : Begin(p, [Idle EXCEPT !.kind = "switch", !.slot = s])
      BY <2>2 DEF BeginSwitch
    <3>2. [Idle EXCEPT !.kind = "switch", !.slot = s] \in Operation
      BY IdleType, OfferedAssumption DEF Operation, Kinds
    <3> QED BY <3>1, <3>2
  <2>3. CASE BeginUninstall(p)
    <3> DEFINE target(s, exact) == IF exact \/ index[s[1]].ver = 0 THEN s ELSE SlotOf(index, s[1])
    <3>1. PICK s \in Offered, exact \in BOOLEAN :
            Begin(p, [Idle EXCEPT !.kind = "uninstall", !.slot = target(s, exact), !.exact = exact])
      BY <2>3 DEF BeginUninstall
    <3>2. target(s, exact) \in Slot
      BY OfferedAssumption DEF TypeOK, Slot, SlotOf, Selection, NoSel
    <3> HIDE DEF target
    <3>3. [Idle EXCEPT !.kind = "uninstall", !.slot = target(s, exact), !.exact = exact] \in Operation
      BY <3>2, IdleType DEF Operation, Kinds
    <3> QED BY <3>1, <3>3
  <2> QED BY <2>1, <2>2, <2>3 DEF Start
<1> QED BY <1>1, <1>2

LEMMA LoadReverts ==
  ASSUME RevertAll, NEW p \in Proc, LoadInstall(p) \/ LoadSwitch(p)
  PROVE  RevertInv'
<1> DEFINE o == op[p]
           l == Loaded(o)
<1>0. /\ o \in Operation /\ lock' = p /\ UNCHANGED <<tree, index, prov>> /\ tree \in [Slot -> Tree]
      /\ o.created = {} /\ ~o.saved /\ o.prev = Absent
  BY DEF RevertAll, TypeOK, MemoryOK, LoadInstall, LoadSwitch, At, disk, StoreInv, OperationKeeps
<1>1. /\ l \in Operation /\ l.slot = o.slot /\ l.created = {} /\ ~l.saved /\ l.prev = Absent
      /\ l.before = [tree |-> tree, index |-> index, prov |-> prov]
  BY <1>0 DEF Loaded, Operation, RevertAll, TypeOK
<1> HIDE DEF l
<1>2. ASSUME NEW n, op' = [op EXCEPT ![p] = n], n.before = l.before, n.created = {}, ~n.saved,
             n.prev = Absent, n.pc \in {"resolve", "prepare"}, Unmet(n)
      PROVE  RevertInv'
  <2>1. Added(n) = {}
    BY <1>2 DEF Added
  <2>2. n.before.tree = tree /\ n.before.index = index /\ n.before.prov = prov
    BY <1>1, <1>2
  <2>3. Reverts(n, tree, index, prov)
    BY <1>2, <2>1, <2>2 DEF Reverts, Logged, MovedOnce
  <2> QED BY <1>0, <1>2, <2>3, HolderReverts DEF RevertAll
<1>3. CASE LoadInstall(p)
  <2> DEFINE f == [slot |-> o.slot, edit |-> o.edit, fresh |-> TRUE, todo |-> Requires(o.slot)]
             n == [l EXCEPT !.pc = "resolve", !.frames = <<f>>]
  <2>1. op' = [op EXCEPT ![p] = n]
    BY <1>3 DEF LoadInstall, l
  <2>2. f.fresh
    OBVIOUS
  <2> HIDE DEF f
  <2>3. /\ n.before = l.before /\ n.created = {} /\ ~n.saved /\ n.prev = Absent /\ n.pc = "resolve"
        /\ n.frames = <<f>>
    BY <1>1 DEF Operation
  <2> HIDE DEF n
  <2>4. Len(n.frames) = 1 /\ n.frames[1] = f
    BY <2>3
  <2>5. Unmet(n)
    <3>1. Added(n) = {}
      BY <2>3 DEF Added
    <3> QED BY <2>2, <2>3, <2>4, <3>1 DEF Unmet
  <2> QED BY <1>2, <2>1, <2>3, <2>5
<1>4. CASE LoadSwitch(p)
  <2>1. o.slot \in Slot /\ FALSE \in BOOLEAN
    BY <1>0 DEF Operation
  <2> DEFINE a == [l EXCEPT !.idx[o.slot[1]] = [ver |-> o.slot[2], edit |-> FALSE, order |-> NextOrder(l)],
                            !.retained = Retained(l)]
             n == [a EXCEPT !.pc = "prepare"]
  <2>2. op' = [op EXCEPT ![p] = n]
    BY <1>4 DEF LoadSwitch, Adopt, l
  <2>3. /\ n.before = l.before /\ n.created = {} /\ ~n.saved /\ n.prev = Absent /\ n.pc = "prepare"
    BY <1>1 DEF Operation
  <2> HIDE DEF n
  <2>4. Unmet(n)
    BY <2>3 DEF Unmet, Walking
  <2> QED BY <1>2, <2>2, <2>3, <2>4
<1> QED BY <1>3, <1>4

\* What is known of the holder's operation before a step of it.
LEMMA HolderFacts ==
  ASSUME RevertAll, NEW p \in Proc, lock = p, Installs(op[p]), op[p].pc \notin {"load", "committed"}
  PROVE  /\ op[p] \in Operation /\ OperationKeeps(op[p]) /\ Traced(op[p])
         /\ Reverts(op[p], tree, index, prov)
BY DEF RevertAll, TypeOK, MemoryOK, StoreInv, TraceInv, RevertInv, Uncommitted

LEMMA WalkFacts ==
  ASSUME RevertAll, NEW p \in Proc, lock = p, op[p].pc \in Walking
  PROVE  /\ op[p] \in Operation /\ OperationKeeps(op[p]) /\ Traced(op[p]) /\ Walks(op[p])
         /\ Reverts(op[p], tree, index, prov) /\ Installs(op[p])
         /\ op[p].frames \in Seq(Frame) /\ op[p].frames # <<>> /\ Len(op[p].frames) \in Nat \ {0}
<1>1. Traced(op[p])
  BY DEF RevertAll, TraceInv
<1>2. Walks(op[p]) /\ Installs(op[p])
  BY <1>1 DEF Traced, Walks, Installs
<1>3. op[p].pc \notin {"load", "committed"}
  BY DEF Walking
<1>4. op[p].frames \in Seq(Frame) /\ op[p].frames # <<>>
  BY DEF RevertAll, TypeOK, MemoryOK, Operation, Walking
<1>5. Len(op[p].frames) \in Nat \ {0}
  BY <1>4
<1> QED BY <1>2, <1>3, <1>4, <1>5, HolderFacts

LEMMA NeedReverts ==
  ASSUME RevertAll, NEW p \in Proc, NEW q \in Pkg, Need(p, q)
  PROVE  RevertInv'
<1> DEFINE o == op[p]
           k == Len(o.frames)
<1>0. lock = p /\ lock' = p /\ o.pc = "resolve" /\ UNCHANGED <<tree, index, prov>>
  BY DEF Need, Push, At, disk
<1>1. /\ o \in Operation /\ Walks(o) /\ Reverts(o, tree, index, prov) /\ o.frames \in Seq(Frame)
      /\ k \in Nat \ {0}
  BY <1>0, WalkFacts DEF Walking
<1>2. PICK f : Push(p, f) /\ ~(f.fresh /\ f.edit) /\ f.edit \in BOOLEAN /\ f.fresh \in BOOLEAN
  <2> DEFINE least == Dep[Top(o).slot][q]
             source == Path[Top(o).slot][q]
             C == Candidates(q, least)
             live == o.idx[q].edit /\ o.idx[q].ver >= least
  <2>1. CASE C # {}
    <3> DEFINE g == [slot |-> <<q, Max(C)>>, edit |-> FALSE, fresh |-> FALSE,
                     todo |-> Walk(o, <<q, Max(C)>>, FALSE)]
    <3>1. Push(p, g) /\ ~g.edit /\ g.edit \in BOOLEAN /\ g.fresh \in BOOLEAN
      BY <2>1 DEF Need
    <3> HIDE DEF g
    <3> QED BY <3>1
  <2>2. CASE C = {} /\ live
    <3> DEFINE g == [slot |-> SlotOf(o.idx, q), edit |-> TRUE, fresh |-> FALSE,
                     todo |-> Walk(o, SlotOf(o.idx, q), TRUE)]
    <3>1. Push(p, g) /\ ~g.fresh /\ g.edit \in BOOLEAN /\ g.fresh \in BOOLEAN
      BY <2>2 DEF Need
    <3> HIDE DEF g
    <3> QED BY <3>1
  <2>3. CASE C = {} /\ ~live
    <3> DEFINE g == [slot |-> <<q, source>>, edit |-> FALSE, fresh |-> TRUE,
                     todo |-> Requires(<<q, source>>)]
    <3>1. Push(p, g) /\ ~g.edit /\ g.edit \in BOOLEAN /\ g.fresh \in BOOLEAN
      BY <2>3 DEF Need
    <3> HIDE DEF g
    <3> QED BY <3>1
  <2> QED BY <2>1, <2>2, <2>3
<1> DEFINE n == [o EXCEPT !.frames = Append(o.frames, f)]
<1>3. op' = [op EXCEPT ![p] = n] /\ Root(f) \notin Open(o)
  BY <1>2 DEF Push
<1>4. /\ n.before = o.before /\ n.slot = o.slot /\ n.edit = o.edit /\ n.prev = o.prev
      /\ n.saved = o.saved /\ n.pc = "resolve" /\ n.created = o.created
      /\ n.frames = Append(o.frames, f)
  BY <1>0, <1>1 DEF Operation
<1> HIDE DEF n
<1>5. /\ Len(n.frames) = k + 1 /\ n.frames[k + 1] = f
      /\ \A i \in 1..k : n.frames[i] = o.frames[i]
  BY <1>1, <1>4
<1>6. o.frames[1].fresh = TRUE /\ o.frames[1].slot = o.slot /\ o.frames[1].edit = o.edit
      /\ o.edit \in BOOLEAN
  <2>1. o.frames[1] \in Frame
    BY <1>1
  <2> QED BY <1>0, <1>1, <2>1 DEF Reverts, Unmet, Walks, Walking, Frame, Operation
<1>7. f.fresh => o.edit \/ f.slot # o.slot
  <2> SUFFICES ASSUME f.fresh, ~o.edit, f.slot = o.slot PROVE FALSE
    OBVIOUS
  <2>1. f.fresh = TRUE /\ f.edit = o.edit
    BY <1>2, <1>6
  <2>2. Root(f) = Root(o.frames[1])
    BY <1>6, <2>1 DEF Root
  <2>3. 1 \in 1..k
    <3> HIDE DEF k
    <3> QED BY <1>1
  <2> QED BY <1>3, <2>2, <2>3 DEF Open
<1>8. Added(n) = Added(o)
  BY <1>0, <1>4 DEF Added
<1>9. Unmet(n)
  <2>1. n.frames[1] = o.frames[1]
    BY <1>1, <1>5
  <2>2. ASSUME NEW i \in 2..Len(n.frames), n.frames[i].fresh PROVE o.edit \/ n.frames[i].slot # o.slot
    <3>1. CASE i = k + 1
      BY <1>5, <1>7, <2>2, <3>1
    <3>2. CASE i # k + 1
      <4>1. i \in 1..k /\ i \in 2..k
        <5> HIDE DEF k
        <5> QED BY <1>1, <1>5, <2>2, <3>2
      <4>2. n.frames[i] = o.frames[i]
        BY <1>5, <4>1
      <4> QED BY <1>0, <1>1, <2>2, <4>1, <4>2 DEF Reverts, Unmet, Walking
    <3> QED BY <3>1, <3>2
  <2>3. o.edit \/ o.slot \notin Added(o)
    BY <1>0, <1>1 DEF Reverts, Unmet, Walking
  <2>4. n.frames[1].fresh /\ n.prev = Absent
    BY <1>0, <1>1, <1>4, <1>6, <2>1 DEF Reverts, Unmet, Walking
  <2> QED BY <1>4, <1>8, <2>2, <2>3, <2>4 DEF Unmet
<1>10. Reverts(n, tree, index, prov)
  <2>1. o.before.prov = prov /\ n.prev = Absent
    BY <1>0, <1>1, <1>4 DEF Reverts, Unmet, Walking
  <2>2. Reverts(o, tree, index, prov) /\ n.before = o.before /\ n.slot = o.slot /\ n.edit = o.edit
        /\ n.prev = o.prev /\ n.saved = o.saved /\ n.pc = "resolve"
    BY <1>1, <1>4
  <2> QED BY <1>8, <1>9, <2>1, <2>2, StillReverts
<1> QED BY <1>0, <1>3, <1>10, HolderReverts DEF RevertAll

LEMMA SatisfyReverts ==
  ASSUME RevertAll, NEW p \in Proc, Satisfy(p)
  PROVE  RevertInv'
<1> DEFINE o == op[p]
           k == Len(o.frames) - 1
           f == Top(o)
           below == [Below(o) EXCEPT ![k].todo = @ \ {f.slot[1]}]
<1>0. lock = p /\ lock' = p /\ o.pc = "resolve" /\ UNCHANGED <<tree, index, prov>>
  BY DEF Satisfy, At, disk
<1>1. o \in Operation /\ Reverts(o, tree, index, prov) /\ o.frames \in Seq(Frame)
  BY <1>0, WalkFacts DEF Walking
<1>2. PICK n : /\ op' = [op EXCEPT ![p] = n]
               /\ n.before = o.before /\ n.slot = o.slot /\ n.edit = o.edit /\ n.prev = o.prev
               /\ n.saved = o.saved /\ n.pc = "resolve" /\ n.created = o.created /\ n.frames = below
  <2> DEFINE popped == [o EXCEPT !.resolved = @ \cup {<<f.slot, f.edit>>}, !.frames = below]
             adopted == Adopt(popped, f.slot, FALSE)
  <2>1. op' = [op EXCEPT ![p] = popped] \/ op' = [op EXCEPT ![p] = adopted]
    BY DEF Satisfy
  <2>2. /\ popped.before = o.before /\ popped.slot = o.slot /\ popped.edit = o.edit
        /\ popped.prev = o.prev /\ popped.saved = o.saved /\ popped.pc = "resolve"
        /\ popped.created = o.created /\ popped.frames = below
    <3> HIDE DEF below, f
    <3> QED BY <1>0, <1>1 DEF Operation
  <2>3. /\ adopted.before = o.before /\ adopted.slot = o.slot /\ adopted.edit = o.edit
        /\ adopted.prev = o.prev /\ adopted.saved = o.saved /\ adopted.pc = "resolve"
        /\ adopted.created = o.created /\ adopted.frames = below
    <3> HIDE DEF below, f
    <3> QED BY <1>0, <1>1 DEF Operation, Adopt
  <2> HIDE DEF popped, adopted
  <2> QED BY <2>1, <2>2, <2>3
<1>3. k \in Nat \ {0} /\ Len(o.frames) = k + 1
  <2>1. Len(o.frames) \in Nat /\ Len(o.frames) > 1
    <3>1. Len(o.frames) > 1
      BY Zenon DEF Satisfy
    <3>2. o.frames \in Seq(Frame)
      BY <1>1 DEF Operation
    <3> QED BY <3>1, <3>2
  <2> DEFINE m == Len(o.frames)
  <2> HIDE DEF m
  <2>2. m \in Nat /\ m > 1
    BY <2>1 DEF m
  <2>3. m - 1 \in Nat \ {0} /\ m = (m - 1) + 1
    BY <2>2
  <2> QED BY <2>3 DEF m
<1>4. /\ Len(below) = k
      /\ \A i \in 1..k : below[i].slot = o.frames[i].slot /\ below[i].fresh = o.frames[i].fresh
  <2> DEFINE B == Below(o)
             g == [B[k] EXCEPT !.todo = @ \ {f.slot[1]}]
  <2>1. B \in Seq(Frame) /\ Len(B) = k /\ \A i \in 1..k : B[i] = o.frames[i]
    BY <1>1, <1>3 DEF Below
  <2>2. k \in 1..k
    <3> HIDE DEF k
    <3> QED BY <1>3
  <2>3. B[k] \in Frame
    <3> HIDE DEF B
    <3> QED BY <2>1, <2>2
  <2>4. g \in Frame /\ g.slot = B[k].slot /\ g.fresh = B[k].fresh
    <3> HIDE DEF B
    <3> QED BY <2>3 DEF Frame
  <2>5. below = [B EXCEPT ![k] = g]
    BY <2>1
  <2> HIDE DEF below, g, B
  <2>6. Len(below) = k /\ below[k] = g /\ \A i \in 1..k : i # k => below[i] = B[i]
    BY <2>1, <2>2, <2>4, <2>5
  <2>7. ASSUME NEW i \in 1..k PROVE below[i].slot = B[i].slot /\ below[i].fresh = B[i].fresh
    BY <2>4, <2>6
  <2> QED BY <2>1, <2>6, <2>7 DEF B
<1> HIDE DEF below
<1>5. Added(n) = Added(o)
  BY <1>0, <1>2 DEF Added
<1>6. n.prev = Absent /\ o.before.prov = prov
  BY <1>0, <1>1, <1>2 DEF Reverts, Unmet, Walking
<1>7. Unmet(n)
  <2>1. n.frames[1].fresh
    <3>1. 1 \in 1..k
      <4> HIDE DEF k
      <4> QED BY <1>3
    <3> QED BY <1>0, <1>1, <1>2, <1>4, <3>1 DEF Reverts, Unmet, Walking
  <2>2. ASSUME NEW i \in 2..Len(n.frames), n.frames[i].fresh PROVE o.edit \/ n.frames[i].slot # o.slot
    <3>1. i \in 1..k /\ i \in 2..Len(o.frames)
      <4>1. i \in 2..k
        BY <1>2, <1>4
      <4> HIDE DEF k
      <4> QED BY <1>3, <4>1
    <3> QED BY <1>0, <1>1, <1>2, <1>4, <2>2, <3>1 DEF Reverts, Unmet, Walking
  <2>3. o.edit \/ o.slot \notin Added(o)
    BY <1>0, <1>1 DEF Reverts, Unmet, Walking
  <2> QED BY <1>2, <1>5, <1>6, <2>1, <2>2, <2>3 DEF Unmet
<1>8. Reverts(n, tree, index, prov)
  <2>1. Reverts(o, tree, index, prov) /\ n.before = o.before /\ n.slot = o.slot /\ n.edit = o.edit
        /\ n.prev = o.prev /\ n.saved = o.saved /\ n.pc = "resolve"
    BY <1>1, <1>2
  <2> QED BY <1>5, <1>6, <1>7, <2>1, StillReverts
<1> QED BY <1>0, <1>2, <1>8, HolderReverts DEF RevertAll

\* Prepared, a selection is only written; a dependency goes on with the walk.
LEMMA ActivateReverts ==
  ASSUME RevertAll, NEW p \in Proc, Activate(p)
  PROVE  RevertInv'
<1> DEFINE o == op[p]
           k == Len(o.frames)
           f == Top(o)
           a == Adopt(o, f.slot, f.edit)
           stored == [f EXCEPT !.fresh = FALSE, !.todo = Requires(f.slot)]
           above == Append(Below(a), stored)
<1>0. /\ lock = p /\ lock' = p /\ o.pc = "activate" /\ UNCHANGED <<tree, index, prov>>
      /\ op' = [op EXCEPT ![p] = IF Len(a.frames) = 1 THEN [a EXCEPT !.pc = "prepare"]
                                 ELSE [a EXCEPT !.pc = "resolve", !.frames = above]]
  BY DEF Activate, At, disk
<1>1. /\ o \in Operation /\ Walks(o) /\ Reverts(o, tree, index, prov) /\ o.frames \in Seq(Frame)
      /\ k \in Nat \ {0} /\ OperationKeeps(o)
  BY <1>0, WalkFacts DEF Walking
<1>2. a \in Operation
  <2>1. f \in Frame
    BY <1>1 DEF Top
  <2> QED BY <1>1, <2>1, AdoptType DEF RevertAll, TypeOK, Frame
<1>3. /\ a.before = o.before /\ a.slot = o.slot /\ a.edit = o.edit /\ a.prev = o.prev
      /\ a.saved = o.saved /\ a.created = o.created /\ a.frames = o.frames
  <2> HIDE DEF f
  <2> QED BY <1>1 DEF Adopt, Operation
<1>4. o.before.prov = prov
  BY <1>0, <1>1 DEF Reverts
<1>5. CASE k = 1
  <2> DEFINE n == [a EXCEPT !.pc = "prepare"]
  <2>1. op' = [op EXCEPT ![p] = n]
    BY <1>0, <1>3, <1>5
  <2> HIDE DEF a
  <2>2. /\ n.before = o.before /\ n.slot = o.slot /\ n.edit = o.edit /\ n.prev = o.prev
        /\ n.saved = o.saved /\ n.pc = "prepare" /\ n.created = o.created
    BY <1>2, <1>3 DEF Operation
  <2> HIDE DEF n
  <2>3. Added(n) = Added(o) /\ Unmet(n)
    BY <1>0, <2>2 DEF Added, Unmet, Walking
  <2>4. n.prev = Absent \/ n.saved
    BY <1>0, <1>1, <2>2 DEF Reverts, MovedOnce
  <2>5. Reverts(n, tree, index, prov)
    BY <1>1, <1>4, <2>2, <2>3, <2>4, StillReverts
  <2> QED BY <1>0, <2>1, <2>5, HolderReverts DEF RevertAll
<1>6. CASE k # 1
  <2> DEFINE n == [a EXCEPT !.pc = "resolve", !.frames = above]
  <2>1. op' = [op EXCEPT ![p] = n]
    BY <1>0, <1>3, <1>6
  <2>2. stored \in Frame /\ stored.fresh = FALSE
    <3>1. f \in Frame
      BY <1>1 DEF Top
    <3> HIDE DEF f
    <3> QED BY <3>1 DEF Frame, Requires
  <2> HIDE DEF a, stored
  <2>3. /\ above \in Seq(Frame) /\ Len(above) = k /\ above[k] = stored
        /\ \A i \in 1..(k - 1) : above[i] = o.frames[i]
    BY <1>1, <1>3, <2>2 DEF Below
  <2> HIDE DEF above
  <2>4. /\ n.before = o.before /\ n.slot = o.slot /\ n.edit = o.edit /\ n.prev = o.prev
        /\ n.saved = o.saved /\ n.pc = "resolve" /\ n.created = o.created /\ n.frames = above
    BY <1>2, <1>3, <2>3 DEF Operation
  <2> HIDE DEF n
  <2>5. Added(n) = Added(o)
    BY <1>0, <2>4 DEF Added
  <2>6. k > 1 /\ 1 \in 1..(k - 1)
    <3> HIDE DEF k
    <3> QED BY <1>1, <1>6
  <2>7. n.prev = Absent
    <3>1. o.prev # Absent => k = 1
      BY <1>0, <1>1 DEF OperationKeeps, InstallKeeps, Walks, Installs
    <3> QED BY <1>6, <2>4, <3>1
  <2>8. Unmet(n)
    <3>1. n.frames[1].fresh
      BY <1>0, <1>1, <2>3, <2>4, <2>6 DEF Reverts, Unmet, Walking
    <3>2. ASSUME NEW i \in 2..Len(n.frames), n.frames[i].fresh PROVE o.edit \/ n.frames[i].slot # o.slot
      <4>1. i # k
        BY <2>2, <2>3, <2>4, <3>2
      <4>2. i \in 2..k
        BY <2>3, <2>4
      <4>3. i \in 1..(k - 1)
        <5> HIDE DEF k
        <5> QED BY <1>1, <4>1, <4>2
      <4> QED BY <1>0, <1>1, <2>3, <2>4, <3>2, <4>2, <4>3 DEF Reverts, Unmet, Walking
    <3>3. o.edit \/ o.slot \notin Added(o)
      BY <1>0, <1>1, <2>6 DEF Reverts, Unmet, Walking
    <3> QED BY <2>4, <2>5, <2>7, <3>1, <3>2, <3>3 DEF Unmet
  <2>9. Reverts(n, tree, index, prov)
    <3>1. Reverts(o, tree, index, prov) /\ n.before = o.before /\ n.slot = o.slot /\ n.edit = o.edit
          /\ n.prev = o.prev /\ n.saved = o.saved /\ n.pc = "resolve"
      BY <1>1, <2>4
    <3> QED BY <1>4, <2>5, <2>7, <2>8, <3>1, StillReverts
  <2> QED BY <1>0, <2>1, <2>9, HolderReverts DEF RevertAll
<1> QED BY <1>5, <1>6

\* A tree added, displaced or put in place is in the books before the next step.
LEMMA PublishReverts ==
  ASSUME RevertAll, NEW p \in Proc,
         \/ PublishNew(p) \/ Displace(p) \/ PublishNothing(p)
         \/ Swap(p) \/ SwapFails(p) \/ Record(p)
  PROVE  RevertInv'
<1> DEFINE o == op[p]
           top == Top(o)
<1>0. lock = p /\ lock' = p /\ o.pc \in Walking /\ UNCHANGED <<index, prov>>
  BY DEF PublishNew, Displace, PublishNothing, Swap, SwapFails, Record, ReadyToPublish, At, disk, Walking
<1>1. /\ o \in Operation /\ Walks(o) /\ Reverts(o, tree, index, prov) /\ OperationKeeps(o) /\ Installs(o)
      /\ Len(o.frames) \in Nat \ {0}
  BY <1>0, WalkFacts
<1>2. /\ o.before.index = index /\ o.before.prov = prov /\ Logged(o, tree) /\ MovedOnce(o) /\ Unmet(o)
      /\ tree \in [Slot -> Tree]
  BY <1>0, <1>1 DEF Reverts, Walking, RevertAll, TypeOK
<1>3. ASSUME NEW n, op' = [op EXCEPT ![p] = n], n.before = o.before, n.pc # "sidecars",
             Logged(n, tree'), MovedOnce(n), Unmet(n)
      PROVE  RevertInv'
  <2>1. Reverts(n, tree', index', prov')
    BY <1>0, <1>2, <1>3 DEF Reverts
  <2> QED BY <1>0, <1>3, <2>1, HolderReverts DEF RevertAll
<1>4. CASE PublishNew(p)
  <2> DEFINE n == [o EXCEPT !.pc = "record"]
  <2>1. /\ op' = [op EXCEPT ![p] = n] /\ o.pc = "resolve" /\ top.fresh
        /\ tree[top.slot] = Absent /\ tree' = [tree EXCEPT ![top.slot] = o.rev]
    BY <1>4 DEF PublishNew, ReadyToPublish, At
  <2>2. /\ n.before = o.before /\ n.slot = o.slot /\ n.edit = o.edit /\ n.prev = o.prev
        /\ n.saved = o.saved /\ n.pc = "record" /\ n.created = o.created /\ n.frames = o.frames
    BY <1>1 DEF Operation
  <2> HIDE DEF n
  <2>3. n.prev = Absent /\ ~n.saved
    BY <1>2, <2>1, <2>2 DEF Unmet, MovedOnce, Walking
  <2>4. Added(o) = o.created /\ Added(n) = o.created \cup {top.slot}
    BY <2>1, <2>2, <2>3 DEF Added, Top
  <2>5. Logged(n, tree')
    <3> SUFFICES ASSUME NEW s \in Slot
                 PROVE  o.before.tree[s] = IF s \in Added(n) THEN Absent ELSE tree'[s]
      BY <2>2, <2>3 DEF Logged
    <3>1. o.before.tree[s] = IF s \in Added(o) THEN Absent ELSE tree[s]
      BY <1>2, <2>2, <2>3 DEF Logged
    <3>2. CASE s = top.slot
      BY <2>1, <2>4, <3>1, <3>2
    <3>3. CASE s # top.slot
      BY <1>2, <2>1, <2>4, <3>1, <3>3
    <3> QED BY <3>2, <3>3
  <2>6. Unmet(n)
    <3>1. /\ o.frames[1].fresh /\ (o.edit \/ o.slot \notin o.created)
          /\ \A i \in 2..Len(o.frames) : o.frames[i].fresh => o.edit \/ o.frames[i].slot # o.slot
      BY <1>2, <2>1, <2>4 DEF Unmet, Walking
    <3>2. Len(o.frames) > 1 => o.edit \/ top.slot # o.slot
      BY <1>1, <2>1, <3>1 DEF Top
    <3>3. Len(o.frames) > 1 => o.edit \/ o.slot \notin Added(n)
      BY <2>4, <3>1, <3>2
    <3> QED BY <2>2, <2>3, <3>1, <3>3 DEF Unmet
  <2>7. MovedOnce(n)
    BY <2>2, <2>3 DEF MovedOnce
  <2> QED BY <1>3, <2>1, <2>2, <2>5, <2>6, <2>7
<1>5. CASE Displace(p)
  <2> DEFINE n == [o EXCEPT !.pc = "swap", !.prev = tree[o.slot]]
  <2>1. /\ op' = [op EXCEPT ![p] = n] /\ o.pc = "resolve" /\ ~top.edit /\ Len(o.frames) = 1
        /\ tree[o.slot] # Absent /\ tree' = [tree EXCEPT ![o.slot] = Absent]
    BY <1>5 DEF Displace, ReadyToPublish, At, Replaces
  <2>2. /\ n.before = o.before /\ n.slot = o.slot /\ n.edit = o.edit /\ n.prev = tree[o.slot]
        /\ n.saved = o.saved /\ n.pc = "swap" /\ n.created = o.created /\ n.frames = o.frames
        /\ o.slot \in Slot
    BY <1>1 DEF Operation
  <2> HIDE DEF n
  <2>3. o.prev = Absent /\ ~o.edit /\ n.prev # Absent
    BY <1>1, <1>2, <2>1, <2>2 DEF Unmet, Walking, Top, Walks
  <2>4. Added(o) = o.created /\ Added(n) = o.created /\ o.slot \notin o.created
    <3>1. Added(o) = o.created /\ Added(n) = o.created
      BY <2>1, <2>2 DEF Added
    <3> QED BY <1>2, <2>1, <2>3, <3>1 DEF Unmet, Walking
  <2>5. Logged(n, tree')
    <3> SUFFICES ASSUME NEW s \in Slot
                 PROVE  o.before.tree[s] = IF s \in o.created THEN Absent
                                           ELSE IF s = o.slot THEN tree[o.slot] ELSE tree'[s]
      BY <2>2, <2>3, <2>4 DEF Logged
    <3>1. o.before.tree[s] = IF s \in o.created THEN Absent ELSE tree[s]
      BY <1>2, <2>3, <2>4 DEF Logged
    <3>2. s # o.slot => tree'[s] = tree[s]
      BY <1>2, <2>1
    <3> QED BY <3>1, <3>2
  <2>6. Unmet(n)
    <3>1. ~(Len(n.frames) > 1)
      <4>1. Len(n.frames) = 1
        BY <2>1, <2>2, Zenon
      <4> QED BY <4>1
    <3>2. /\ n.frames[1].fresh
          /\ \A k \in 2..Len(n.frames) : n.frames[k].fresh => n.edit \/ n.frames[k].slot # n.slot
      BY <1>2, <2>1, <2>2 DEF Unmet, Walking
    <3> QED BY <2>2, <3>1, <3>2 DEF Unmet
  <2>7. MovedOnce(n)
    BY <2>2, <2>3, <2>4 DEF MovedOnce
  <2> QED BY <1>3, <2>1, <2>2, <2>5, <2>6, <2>7
<1>6. CASE PublishNothing(p)
  <2> DEFINE n == [o EXCEPT !.pc = "activate"]
  <2>1. op' = [op EXCEPT ![p] = n] /\ o.pc = "resolve" /\ tree' = tree
    BY <1>6 DEF PublishNothing, ReadyToPublish, At, disk
  <2>2. /\ n.before = o.before /\ n.slot = o.slot /\ n.edit = o.edit /\ n.prev = o.prev
        /\ n.saved = o.saved /\ n.pc = "activate" /\ n.created = o.created /\ n.frames = o.frames
    BY <1>1 DEF Operation
  <2> HIDE DEF n
  <2>3. Added(n) = Added(o) /\ n.prev = Absent
    <3>1. Added(n) = Added(o)
      BY <2>1, <2>2 DEF Added
    <3> QED BY <1>2, <2>1, <2>2, <3>1 DEF Unmet, Walking
  <2>4. Unmet(n)
    BY <1>2, <2>1, <2>2, <2>3 DEF Unmet, Walking
  <2>5. Logged(n, tree') /\ MovedOnce(n)
    BY <1>2, <2>1, <2>2, <2>3 DEF Logged, MovedOnce
  <2> QED BY <1>3, <2>1, <2>2, <2>4, <2>5
<1>7. CASE Swap(p)
  <2> DEFINE n == [o EXCEPT !.pc = "record"]
  <2>1. op' = [op EXCEPT ![p] = n] /\ o.pc = "swap" /\ tree' = [tree EXCEPT ![o.slot] = o.rev]
    BY <1>7 DEF Swap, At
  <2>2. /\ n.before = o.before /\ n.slot = o.slot /\ n.edit = o.edit /\ n.prev = o.prev
        /\ n.saved = o.saved /\ n.pc = "record" /\ n.created = o.created /\ n.frames = o.frames
    BY <1>1 DEF Operation
  <2> HIDE DEF n
  <2>3. n.prev # Absent /\ Len(o.frames) = 1
    BY <1>1, <1>2, <2>1, <2>2 DEF MovedOnce, Walks
  <2>4. Added(n) = Added(o)
    BY <2>1, <2>2, <2>3 DEF Added
  <2>5. Logged(n, tree')
    BY <1>2, <2>1, <2>2, <2>3, <2>4 DEF Logged
  <2>6. Unmet(n)
    BY <1>2, <2>1, <2>2, <2>3 DEF Unmet, Walking
  <2>7. MovedOnce(n)
    BY <1>2, <2>1, <2>2, <2>4 DEF MovedOnce
  <2> QED BY <1>3, <2>1, <2>2, <2>5, <2>6, <2>7
<1>8. CASE SwapFails(p)
  <2> DEFINE n == [o EXCEPT !.pc = "rollback", !.prev = Absent]
  <2>1. op' = [op EXCEPT ![p] = n] /\ o.pc = "swap" /\ tree' = [tree EXCEPT ![o.slot] = o.prev]
    BY <1>8 DEF SwapFails, At
  <2>2. /\ n.before = o.before /\ n.slot = o.slot /\ n.prev = Absent
        /\ n.saved = o.saved /\ n.pc = "rollback" /\ n.created = o.created
    BY <1>1 DEF Operation
  <2> HIDE DEF n
  <2>3. o.prev # Absent /\ ~o.saved /\ o.slot \notin Added(o)
    BY <1>1, <1>2, <2>1 DEF MovedOnce, OperationKeeps, InstallKeeps, Installs
  <2>4. Added(n) = Added(o)
    BY <2>1, <2>2 DEF Added
  <2>5. Logged(n, tree')
    BY <1>2, <2>1, <2>2, <2>3, <2>4 DEF Logged
  <2>6. Unmet(n) /\ MovedOnce(n)
    BY <2>2, <2>3 DEF Unmet, MovedOnce, Walking
  <2> QED BY <1>3, <2>1, <2>2, <2>5, <2>6
<1>9. CASE Record(p)
  <2>0. o.pc = "record" /\ tree' = tree /\ o.saved \in BOOLEAN
    BY <1>1, <1>9 DEF Record, At, disk, Operation
  <2>1. CASE o.prev = Absent
    <3> DEFINE n == [o EXCEPT !.pc = "activate", !.created = @ \cup {top.slot}]
    <3>1. op' = [op EXCEPT ![p] = n]
      BY <1>9, <2>1 DEF Record
    <3>2. /\ n.before = o.before /\ n.slot = o.slot /\ n.edit = o.edit /\ n.prev = o.prev
          /\ n.saved = o.saved /\ n.pc = "activate" /\ n.created = o.created \cup {top.slot}
          /\ n.frames = o.frames
      BY <1>1 DEF Operation
    <3> HIDE DEF n
    <3>3. Added(n) = Added(o)
      BY <2>0, <2>1, <3>2 DEF Added
    <3>4. Unmet(n)
      BY <1>2, <2>0, <3>2, <3>3 DEF Unmet, Walking
    <3>5. Logged(n, tree') /\ MovedOnce(n)
      BY <1>2, <2>0, <2>1, <3>2, <3>3 DEF Logged, MovedOnce
    <3> QED BY <1>3, <3>1, <3>2, <3>4, <3>5
  <2>2. CASE o.prev # Absent
    <3> DEFINE n == [o EXCEPT !.pc = "activate", !.saved = TRUE]
    <3>1. op' = [op EXCEPT ![p] = n]
      BY <1>9, <2>2 DEF Record
    <3>2. /\ n.before = o.before /\ n.slot = o.slot /\ n.edit = o.edit /\ n.prev = o.prev
          /\ n.saved = TRUE /\ n.pc = "activate" /\ n.created = o.created /\ n.frames = o.frames
      BY <1>1 DEF Operation
    <3> HIDE DEF n
    <3>3. Added(n) = Added(o)
      BY <2>0, <2>2, <3>2 DEF Added
    <3>4. Unmet(n)
      BY <1>2, <2>0, <3>2, <3>3 DEF Unmet, Walking
    <3>5. Logged(n, tree') /\ MovedOnce(n)
      BY <1>2, <2>0, <2>2, <3>2, <3>3 DEF Logged, MovedOnce
    <3> QED BY <1>3, <3>1, <3>2, <3>4, <3>5
  <2> QED BY <2>1, <2>2
<1> QED BY <1>4, <1>5, <1>6, <1>7, <1>8, <1>9

\* Sidecars are written over a snapshot; the index ends what can be undone.
LEMMA CommitReverts ==
  ASSUME RevertAll, NEW p \in Proc,
         Prepare(p) \/ (\E q \in Pkg : WriteSidecar(p, q)) \/ WriteIndex(p)
  PROVE  RevertInv'
<1> DEFINE o == op[p]
<1>0. lock = p /\ lock' = p /\ o \in Operation
  BY DEF Prepare, WriteSidecar, WriteIndex, At, RevertAll, TypeOK, MemoryOK
<1>1. CASE ~Installs(o) \/ WriteIndex(p)
  <2>1. PICK n : op' = [op EXCEPT ![p] = n] /\ ~Uncommitted(n)
    <3>1. CASE WriteIndex(p)
      <4> DEFINE m == [o EXCEPT !.pc = "committed"]
      <4>1. op' = [op EXCEPT ![p] = m] /\ m.pc = "committed"
        BY <1>0, <3>1 DEF WriteIndex, Operation
      <4> HIDE DEF m
      <4> QED BY <4>1 DEF Uncommitted
    <3>2. CASE ~Installs(o) /\ Prepare(p)
      <4> DEFINE m == [o EXCEPT !.pc = "sidecars", !.left = Pinned(o.idx), !.snap = prov]
      <4>1. op' = [op EXCEPT ![p] = m] /\ m.kind = o.kind
        BY <1>0, <3>2 DEF Prepare, Operation
      <4> HIDE DEF m
      <4> QED BY <3>2, <4>1 DEF Uncommitted, Installs
    <3>3. ASSUME ~Installs(o), NEW q \in Pkg, WriteSidecar(p, q)
          PROVE  \E n : op' = [op EXCEPT ![p] = n] /\ ~Uncommitted(n)
      <4> DEFINE m == [o EXCEPT !.left = @ \ {q}]
      <4>1. op' = [op EXCEPT ![p] = m] /\ m.kind = o.kind
        BY <1>0, <3>3 DEF WriteSidecar, Operation
      <4> HIDE DEF m
      <4> QED BY <3>3, <4>1 DEF Uncommitted, Installs
    <3> QED BY <1>1, <3>1, <3>2, <3>3
  <2> QED BY <1>0, <2>1, HolderReverts DEF RevertAll
<1>2. CASE Installs(o) /\ Prepare(p)
  <2> DEFINE n == [o EXCEPT !.pc = "sidecars", !.left = Pinned(o.idx), !.snap = prov]
  <2>1. op' = [op EXCEPT ![p] = n] /\ o.pc = "prepare" /\ UNCHANGED <<tree, index, prov>>
    BY <1>2 DEF Prepare, At, disk
  <2>2. /\ n.before = o.before /\ n.slot = o.slot /\ n.edit = o.edit /\ n.prev = o.prev
        /\ n.saved = o.saved /\ n.pc = "sidecars" /\ n.created = o.created /\ n.snap = prov
    BY <1>0 DEF Operation
  <2> HIDE DEF n
  <2>3. Reverts(o, tree, index, prov)
    BY <1>0, <1>2, <2>1, HolderFacts
  <2>4. Added(n) = Added(o) /\ Unmet(n)
    BY <2>1, <2>2 DEF Added, Unmet, Walking
  <2>5. o.before.prov = prov /\ (n.prev = Absent \/ n.saved)
    BY <2>1, <2>2, <2>3 DEF Reverts, MovedOnce
  <2>6. Reverts(n, tree, index, prov)
    BY <2>2, <2>3, <2>4, <2>5, StillReverts
  <2> QED BY <1>0, <2>1, <2>6, HolderReverts DEF RevertAll
<1>3. ASSUME Installs(o), NEW q \in Pkg, WriteSidecar(p, q) PROVE RevertInv'
  <2> DEFINE n == [o EXCEPT !.left = @ \ {q}]
  <2>1. op' = [op EXCEPT ![p] = n] /\ o.pc = "sidecars" /\ UNCHANGED <<tree, index>>
    BY <1>3 DEF WriteSidecar, At
  <2>2. /\ n.before = o.before /\ n.slot = o.slot /\ n.edit = o.edit /\ n.prev = o.prev
        /\ n.saved = o.saved /\ n.pc = "sidecars" /\ n.created = o.created /\ n.snap = o.snap
    BY <1>0, <2>1 DEF Operation
  <2> HIDE DEF n
  <2>3. Reverts(o, tree, index, prov)
    BY <1>0, <1>3, <2>1, HolderFacts
  <2>4. Added(n) = Added(o) /\ Unmet(n)
    BY <2>1, <2>2 DEF Added, Unmet, Walking
  <2>5. o.before.prov = n.snap /\ (n.prev = Absent \/ n.saved)
    BY <2>1, <2>2, <2>3 DEF Reverts, MovedOnce
  <2>6. ASSUME NEW w PROVE Reverts(n, tree, index, w)
    BY <2>2, <2>3, <2>4, <2>5, StillReverts
  <2>7. Reverts(n, tree', index', prov')
    BY <2>1, <2>2, <2>6 DEF Reverts
  <2> QED BY <1>0, <2>1, <2>7, HolderReverts DEF RevertAll
<1> QED BY <1>1, <1>2, <1>3

\* A rollback takes each record off as it undoes what the record is for.
LEMMA UndoReverts ==
  ASSUME RevertAll, NEW p \in Proc,
         \/ UndoReplace(p) \/ Restore(p) \/ (\E s \in Slot : Discard(p, s)) \/ FailInstall(p)
  PROVE  RevertInv'
<1> DEFINE o == op[p]
<1>0. o \in Operation /\ lock = p /\ tree \in [Slot -> Tree] /\ OperationKeeps(o)
  BY DEF UndoReplace, Restore, Discard, FailInstall, At, RevertAll, TypeOK, MemoryOK, StoreInv
<1>1. CASE UndoReplace(p) \/ Restore(p) \/ \E s \in Slot : Discard(p, s)
  <2>0. lock' = p /\ UNCHANGED <<index, prov>> /\ o.pc \in {"rollback", "restore"}
    BY <1>0, <1>1 DEF UndoReplace, Restore, Discard, At
  <2>1. Installs(o) /\ Reverts(o, tree, index, prov)
    <3>1. Installs(o)
      BY <1>0, <2>0 DEF OperationKeeps
    <3> QED BY <1>0, <2>0, <3>1, HolderFacts
  <2>2. o.before.index = index /\ o.before.prov = prov /\ Logged(o, tree) /\ MovedOnce(o)
        /\ Added(o) = o.created
    BY <2>0, <2>1 DEF Reverts, Added
  <2>3. ASSUME NEW n, op' = [op EXCEPT ![p] = n], n.before = o.before, n.pc \in {"rollback", "restore"},
               Logged(n, tree'), MovedOnce(n)
        PROVE  RevertInv'
    <3>1. Unmet(n)
      BY <2>3 DEF Unmet, Walking
    <3>2. Reverts(n, tree', index', prov')
      BY <2>0, <2>2, <2>3, <3>1 DEF Reverts
    <3> QED BY <2>0, <2>3, <3>2, HolderReverts DEF RevertAll
  <2>4. CASE UndoReplace(p)
    <3> DEFINE n == [o EXCEPT !.pc = "restore"]
    <3>1. op' = [op EXCEPT ![p] = n] /\ o.saved /\ tree' = [tree EXCEPT ![o.slot] = Absent]
      BY <2>4 DEF UndoReplace
    <3>2. /\ n.before = o.before /\ n.slot = o.slot /\ n.prev = o.prev /\ n.saved = o.saved
          /\ n.pc = "restore" /\ n.created = o.created
      BY <1>0 DEF Operation
    <3> HIDE DEF n
    <3>3. Added(n) = o.created /\ n.prev # Absent
      BY <2>2, <3>1, <3>2 DEF Added, MovedOnce
    <3>4. Logged(n, tree') /\ MovedOnce(n)
      BY <1>0, <2>2, <3>1, <3>2, <3>3 DEF Logged, MovedOnce
    <3> QED BY <2>3, <3>1, <3>2, <3>4
  <2>5. CASE Restore(p)
    <3> DEFINE n == [o EXCEPT !.pc = "rollback", !.prev = Absent, !.saved = FALSE]
    <3>1. op' = [op EXCEPT ![p] = n] /\ o.pc = "restore" /\ tree' = [tree EXCEPT ![o.slot] = o.prev]
      BY <2>5 DEF Restore, At
    <3>2. /\ n.before = o.before /\ n.slot = o.slot /\ n.prev = Absent /\ n.saved = FALSE
          /\ n.pc = "rollback" /\ n.created = o.created
      BY <1>0 DEF Operation
    <3> HIDE DEF n
    <3>3. Added(n) = o.created /\ o.prev # Absent /\ o.slot \notin o.created
      BY <2>2, <3>1, <3>2 DEF Added, MovedOnce
    <3>4. Logged(n, tree')
      BY <1>0, <2>2, <3>1, <3>2, <3>3 DEF Logged
    <3>5. MovedOnce(n)
      BY <3>2 DEF MovedOnce
    <3> QED BY <2>3, <3>1, <3>2, <3>4, <3>5
  <2>6. ASSUME NEW s \in Slot, Discard(p, s) PROVE RevertInv'
    <3>1. o.pc = "rollback" /\ ~o.saved /\ s \in o.created /\ o.prev = Absent
      BY <2>2, <2>6 DEF Discard, At, MovedOnce
    <3>2. CASE tree[s] # Partial
      <4>1. op' = [op EXCEPT ![p] = o] /\ tree' = [tree EXCEPT ![s] = Partial]
        BY <2>6, <3>2 DEF Discard, RevertAll, TypeOK, MemoryOK
      <4>2. Logged(o, tree')
        BY <1>0, <2>2, <3>1, <4>1 DEF Logged
      <4> HIDE DEF o
      <4> QED BY <2>2, <2>3, <3>1, <4>1, <4>2
    <3>3. CASE tree[s] = Partial
      <4> DEFINE n == [o EXCEPT !.created = @ \ {s}]
      <4>1. op' = [op EXCEPT ![p] = n] /\ tree' = [tree EXCEPT ![s] = Absent]
        BY <2>6, <3>3 DEF Discard
      <4>2. /\ n.before = o.before /\ n.slot = o.slot /\ n.prev = Absent /\ n.saved = o.saved
            /\ n.pc = "rollback" /\ n.created = o.created \ {s}
        BY <1>0, <3>1 DEF Operation
      <4> HIDE DEF n
      <4>3. Added(n) = o.created \ {s}
        BY <4>2 DEF Added
      <4>4. Logged(n, tree')
        <5> SUFFICES ASSUME NEW t \in Slot
                     PROVE  o.before.tree[t] = IF t \in o.created \ {s} THEN Absent ELSE tree'[t]
          BY <4>2, <4>3 DEF Logged
        <5>1. o.before.tree[t] = IF t \in o.created THEN Absent ELSE tree[t]
          BY <2>2, <3>1 DEF Logged
        <5>2. CASE t = s
          BY <1>0, <3>1, <4>1, <5>1, <5>2
        <5>3. CASE t # s
          BY <1>0, <4>1, <5>1, <5>3
        <5> QED BY <5>2, <5>3
      <4>5. MovedOnce(n)
        BY <3>1, <4>2 DEF MovedOnce
      <4> QED BY <2>3, <4>1, <4>2, <4>4, <4>5
    <3> QED BY <3>2, <3>3
  <2> QED BY <1>1, <2>4, <2>5, <2>6
<1>2. CASE FailInstall(p)
  <2>1. CASE Release(p)
    BY <2>1, ReleaseReverts
  <2>2. CASE ~Release(p)
    <3> DEFINE n == [o EXCEPT !.pc = "rollback"]
    <3>1. /\ op' = [op EXCEPT ![p] = n] /\ lock' = p /\ UNCHANGED <<tree, index>> /\ Installs(o)
          /\ o.pc \in {"resolve", "activate", "prepare", "sidecars"}
          /\ prov' = IF o.pc = "sidecars" THEN o.snap ELSE prov
      BY <1>0, <1>2, <2>2 DEF FailInstall, Undone
    <3>2. /\ n.before = o.before /\ n.slot = o.slot /\ n.edit = o.edit /\ n.prev = o.prev
          /\ n.saved = o.saved /\ n.pc = "rollback" /\ n.created = o.created
      BY <1>0 DEF Operation
    <3> HIDE DEF n
    <3>3. Reverts(o, tree, index, prov)
      BY <1>0, <3>1, HolderFacts
    <3>4. Added(n) = Added(o) /\ Unmet(n)
      BY <3>1, <3>2 DEF Added, Unmet, Walking
    <3>5. o.before.prov = prov' /\ (n.prev = Absent \/ n.saved)
      BY <3>1, <3>2, <3>3 DEF Reverts, MovedOnce
    <3>6. PICK w : w = prov'
      OBVIOUS
    <3>7. Reverts(n, tree, index, w)
      BY <3>2, <3>3, <3>4, <3>5, <3>6, StillReverts
    <3>8. Reverts(n, tree', index', prov')
      BY <3>1, <3>6, <3>7 DEF Reverts
    <3> QED BY <3>1, <3>8, HolderReverts DEF RevertAll
  <2> QED BY <2>1, <2>2
<1> QED BY <1>1, <1>2

\* An uninstall has its own way to go back.
LEMMA UninstallReverts ==
  ASSUME RevertAll, NEW p \in Proc,
         \/ UninstallLeftover(p) \/ UninstallEditable(p) \/ UninstallActive(p) \/ UninstallInactive(p)
         \/ Hide(p) \/ ConcludeUninstall(p) \/ Strip(p) \/ Swept(p)
  PROVE  RevertInv'
<1> DEFINE o == op[p]
<1>0. o \in Operation /\ lock = p
  BY DEF UninstallLeftover, UninstallEditable, UninstallActive, UninstallInactive, Hide,
     ConcludeUninstall, Strip, Swept, Uninstalls, At, RevertAll, TypeOK, MemoryOK
<1>1. o.kind = "uninstall"
  BY <1>0 DEF UninstallLeftover, UninstallEditable, UninstallActive, UninstallInactive, Hide,
     ConcludeUninstall, Strip, Swept, Uninstalls, At, RevertAll, StoreInv, OperationKeeps
<1>2. ASSUME NEW n, op' = [op EXCEPT ![p] = n], lock' = lock, n.kind = o.kind PROVE RevertInv'
  BY <1>0, <1>1, <1>2, HolderReverts DEF Uncommitted, Installs, RevertAll
<1>3. CASE Release(p)
  BY <1>3, ReleaseReverts
<1>4. ASSUME NEW pc, op' = [op EXCEPT ![p].pc = pc], lock' = lock PROVE RevertInv'
  <2> DEFINE n == [o EXCEPT !.pc = pc]
  <2>1. op' = [op EXCEPT ![p] = n] /\ n.kind = o.kind
    BY <1>0, <1>4 DEF Operation
  <2> HIDE DEF n
  <2> QED BY <1>2, <1>4, <2>1
<1>5. ASSUME NEW pc, NEW key, op' = [op EXCEPT ![p].pc = pc, ![p].key = key], lock' = lock
      PROVE  RevertInv'
  <2> DEFINE n == [o EXCEPT !.pc = pc, !.key = key]
  <2>1. op' = [op EXCEPT ![p] = n] /\ n.kind = o.kind
    BY <1>0, <1>5 DEF Operation
  <2> HIDE DEF n
  <2> QED BY <1>2, <1>5, <2>1
<1>6. ASSUME NEW pc, NEW idx, op' = [op EXCEPT ![p].pc = pc, ![p].idx = idx], lock' = lock
      PROVE  RevertInv'
  <2> DEFINE n == [o EXCEPT !.pc = pc, !.idx = idx]
  <2>1. op' = [op EXCEPT ![p] = n] /\ n.kind = o.kind
    BY <1>0, <1>6 DEF Operation
  <2> HIDE DEF n
  <2> QED BY <1>2, <1>6, <2>1
<1>7. CASE UninstallLeftover(p)
  BY <1>5, <1>7 DEF UninstallLeftover
<1>8. CASE UninstallActive(p) \/ UninstallInactive(p)
  BY <1>5, <1>8 DEF UninstallActive, UninstallInactive
<1>9. CASE UninstallEditable(p)
  <2> DEFINE n == [o EXCEPT !.pc = "prepare", !.idx = Without(o), !.edit = TRUE]
  <2>1. op' = [op EXCEPT ![p] = n] /\ lock' = lock /\ n.kind = o.kind
    BY <1>0, <1>9 DEF UninstallEditable, Operation
  <2> HIDE DEF n
  <2> QED BY <1>2, <2>1
<1>10. CASE Hide(p)
  BY <1>3, <1>6, <1>10 DEF Hide
<1>11. CASE ConcludeUninstall(p) \/ Swept(p)
  BY <1>3, <1>4, <1>11 DEF ConcludeUninstall, Swept
<1>12. CASE Strip(p)
  <2>1. op' = [op EXCEPT ![p].pc = IF o.pc = "sweep" THEN "swept" ELSE "finished"] /\ lock' = lock
    BY <1>0, <1>12 DEF Strip
  <2> QED BY <1>4, <2>1
<1> QED BY <1>7, <1>8, <1>9, <1>10, <1>11, <1>12

LEMMA NextReverts == RevertAll /\ [Next]_vars => RevertInv'
<1> SUFFICES ASSUME RevertAll, [Next]_vars PROVE RevertInv'
  OBVIOUS
<1>1. CASE UNCHANGED vars
  <2>1. UNCHANGED <<tree, index, prov, lock, op>>
    BY <1>1 DEF vars
  <2>2. ASSUME NEW p \in Proc, lock = p PROVE RevertInv'
    <3>1. op' = [op EXCEPT ![p] = op[p]]
      BY <2>1 DEF RevertAll, TypeOK, MemoryOK
    <3>2. Uncommitted(op[p]) => Reverts(op[p], tree', index', prov')
      BY <2>1, <2>2 DEF RevertAll, RevertInv
    <3> QED BY <2>1, <2>2, <3>1, <3>2, HolderReverts DEF RevertAll
  <2>3. CASE lock \notin Proc
    BY <2>1, <2>3 DEF RevertInv
  <2> QED BY <2>2, <2>3
<1>2. ASSUME NEW p \in Proc, Start(p) \/ Step(p) \/ Crash(p) PROVE RevertInv'
  <2>1. CASE Start(p)
    BY <2>1, BeginReverts DEF RevertAll
  <2>2. CASE Crash(p) \/ ConcludeInstall(p) \/ RolledBack(p) \/ FailUninstall(p)
    BY <2>2, ReleaseReverts DEF Crash, ConcludeInstall, RolledBack, FailUninstall
  <2>3. CASE Step(p)
    BY <2>2, <2>3, LoadReverts, NeedReverts, SatisfyReverts, PublishReverts, ActivateReverts,
       CommitReverts, UndoReverts, UninstallReverts DEF Step
  <2> QED BY <1>2, <2>1, <2>2, <2>3
<1> QED BY <1>1, <1>2 DEF Next

\* Only the holder of the lock steps, and a rollback ends in one way.
LEMMA StepHolds == ASSUME NEW p \in Proc, Step(p) PROVE lock = p
BY DEF Step, LoadInstall, LoadSwitch, Need, Satisfy, PublishNew, Displace, PublishNothing,
   ReadyToPublish, Swap, SwapFails, Record, Activate, Prepare, WriteSidecar, WriteIndex, ConcludeInstall,
   UninstallLeftover, UninstallEditable, UninstallActive, UninstallInactive, Uninstalls, Hide,
   ConcludeUninstall, Strip, Swept, UndoReplace, Restore, Discard, RolledBack, FailInstall,
   FailUninstall, At

LEMMA RollbackStep ==
  ASSUME RevertAll, NEW p \in Proc, lock = p, op[p].pc = "rollback", lock' = NoProc, Step(p)
  PROVE  RolledBack(p)
<1>1. lock # lock' /\ op[p].kind # "uninstall"
  BY ProcAssumption DEF RevertAll, StoreInv, OperationKeeps, Installs
<1> QED BY <1>1 DEF Step, LoadInstall, LoadSwitch, Need, Satisfy, Push, PublishNew, Displace, PublishNothing,
   ReadyToPublish, Swap, SwapFails, Record, Activate, Prepare, WriteSidecar, WriteIndex, ConcludeInstall,
   UninstallLeftover, UninstallEditable, UninstallActive, UninstallInactive, Uninstalls, Hide,
   ConcludeUninstall, Strip, Swept, UndoReplace, Restore, Discard, FailInstall,
   FailUninstall, At

\* Whatever was fetched, published, displaced, recorded or rewritten before the failure,
\* at the end of the rollback the trees, the index and the sidecars are exactly those
\* that the install or switch found (install.py: _rollback_created_trees, and the
\* sidecar snapshot of the commit), unless an interrupt struck in between.
THEOREM RollbackRestores == Spec => FailureRestores
<1>1. Init => RevertAll
  <2>1. Init => RevertInv
    BY ProcAssumption DEF Init, RevertInv
  <2> QED BY <2>1, InitType, InitKeeps, InitTraces DEF RevertAll
<1>2. RevertAll /\ [Next]_vars => RevertAll'
  <2> SUFFICES ASSUME RevertAll, [Next]_vars PROVE RevertAll'
    OBVIOUS
  <2>1. [NextWithInterrupts]_vars
    BY DEF NextWithInterrupts
  <2>2. TypeOK' /\ TraceInv'
    BY <2>1, NextType, NextTraces DEF RevertAll
  <2> QED BY <2>2, NextKeeps, NextReverts DEF RevertAll
<1>3. ASSUME RevertAll, RevertAll', [Next]_vars, NEW p \in Proc, RollbackEnds(p)
      PROVE  [tree |-> tree', index |-> index', prov |-> prov'] = op[p].before
  <2> DEFINE o == op[p]
  <2>1. lock = p /\ o.pc = "rollback" /\ lock' = NoProc /\ o.created = {} /\ ~o.saved
    BY <1>3 DEF RollbackEnds, At
  <2>2. Reverts(o, tree, index, prov) /\ o \in Operation /\ tree \in [Slot -> Tree]
    <3>1. Installs(o)
      BY <1>3, <2>1 DEF RevertAll, StoreInv, OperationKeeps
    <3> QED BY <1>3, <2>1, <3>1, HolderFacts DEF RevertAll, TypeOK
  <2>3. o.prev = Absent /\ Added(o) = {}
    BY <2>1, <2>2 DEF Reverts, MovedOnce, Added
  <2>4. o.before.tree = tree
    <3>1. o.before.tree \in [Slot -> Tree] /\ \A s \in Slot : o.before.tree[s] = tree[s]
      BY <2>2, <2>3 DEF Reverts, Logged, Operation
    <3> QED BY <2>2, <3>1
  <2>5. o.before = [tree |-> tree, index |-> index, prov |-> prov]
    BY <2>1, <2>2, <2>4 DEF Reverts, Operation
  <2>6. UNCHANGED <<tree, index, prov>>
    <3>1. PICK r \in Proc : Start(r) \/ Step(r) \/ Crash(r)
      BY <1>3, <2>1, ProcAssumption DEF Next, vars
    <3>2. CASE r # p
      <4>1. lock # r /\ lock # NoProc /\ lock' # r
        BY <2>1, <3>2, ProcAssumption
      <4>2. ~Start(r)
        BY <4>1 DEF Start, BeginInstall, BeginSwitch, BeginUninstall, Begin
      <4>3. ~Crash(r) /\ ~Step(r)
        BY <4>1, StepHolds DEF Crash
      <4> QED BY <3>1, <4>2, <4>3
    <3>3. CASE r = p
      <4>1. ~Start(p)
        BY <2>1, ProcAssumption DEF Start, BeginInstall, BeginSwitch, BeginUninstall, Begin
      <4>2. CASE Crash(p)
        BY <4>2 DEF Crash
      <4>3. CASE Step(p)
        BY <1>3, <2>1, <4>3, RollbackStep DEF RolledBack, disk
      <4> QED BY <3>1, <3>3, <4>1, <4>2, <4>3
    <3> QED BY <3>2, <3>3
  <2> QED BY <2>5, <2>6
<1>4. RevertAll /\ RevertAll' /\ [Next]_vars =>
        [\A p \in Proc : RollbackEnds(p) =>
            [tree |-> tree', index |-> index', prov |-> prov'] = op[p].before]_vars
  BY <1>3
<1> QED BY <1>1, <1>2, <1>4, PTL DEF Spec, FailureRestores
=============================================================================
