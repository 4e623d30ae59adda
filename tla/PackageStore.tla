---------------------------- MODULE PackageStore ----------------------------
(***************************************************************************)
(* The package store of agm: versioned immutable trees under               *)
(* <home>/packages, the provenance sidecars beside them and the activation *)
(* index that selects one version of each package (src/agm/packages:       *)
(* install.py, activation.py, store.py, model.py).                         *)
(*                                                                         *)
(* Every mutation runs under one advisory file lock and changes the disk   *)
(* one rename, removal or atomic file write at a time.  Each of those is a *)
(* step here, so a process may fail, be interrupted or die between any two *)
(* of them.  A tree's content is one of the source revisions Rev, Partial  *)
(* (a removal that stopped half way and took the manifest with it) or      *)
(* Absent.  A half-removed tree that still has its manifest is left out:   *)
(* the store scan takes it for a whole one.  Commands and shadows are left *)
(* out: a command conflict is one of the reasons for Fail.                 *)
(***************************************************************************)
EXTENDS Integers, Sequences, FiniteSets, FiniteSetsExt

CONSTANTS
    Pkg,        \* package names
    Ver,        \* versions, in precedence order
    Rev,        \* contents a package source directory or archive may have
    Proc,       \* agm processes that run package commands
    NoProc,     \* nobody holds the store lock
    Dep,        \* Dep[s][q]: least version of q that slot s requires, 0 for none
    Offered,    \* slots some package source or archive exists for
    Path,       \* Path[s][q]: version the requirement's own path or URL supplies, 0 for none
    MaxOrder,   \* bound on the registration orders that a run explores
    MaxDebris   \* bound on what interrupted operations left behind

Absent  == "absent"
Partial == "partial"

Slot == Pkg \X Ver              \* packages/<name>/<version>
Tree == Rev \cup {Absent, Partial}

ASSUME VerAssumption  == Ver \subseteq Nat \ {0} /\ Ver # {} /\ IsFiniteSet(Ver)
ASSUME RevAssumption  == Absent \notin Rev /\ Partial \notin Rev
ASSUME ProcAssumption == NoProc \notin Proc
ASSUME PkgAssumption  == Pkg # {} /\ IsFiniteSet(Pkg)
ASSUME DepAssumption  == /\ Dep \in [Slot -> [Pkg -> Nat]]
                         /\ Path \in [Slot -> [Pkg -> Ver \cup {0}]]
ASSUME OfferedAssumption ==
    /\ Offered \subseteq Slot
    /\ \A s \in Slot, q \in Pkg : Path[s][q] # 0 => <<q, Path[s][q]>> \in Offered
ASSUME BoundAssumption == MaxOrder \in Nat /\ MaxDebris \in Nat

VARIABLES
    tree,     \* [Slot -> Tree], the version directories
    tomb,     \* hidden .uninstalling directories, see Tomb
    orphan,   \* slots whose displaced tree survives only as an unreferenced .agm-previous-*
    index,    \* [Pkg -> Selection], the published activation index
    prov,     \* [Slot -> Nat], registration order in a provenance sidecar, 0 when absent
    lock,     \* holder of packages/.lock
    op        \* [Proc -> Operation], the memory of each process

disk == <<tree, tomb, orphan, index, prov>>
vars == <<tree, tomb, orphan, index, prov, lock, op>>

NoSel     == [ver |-> 0, edit |-> FALSE, order |-> 0]
Selection == [ver : Ver, edit : BOOLEAN, order : Nat] \cup {NoSel}

\* <<p, 0>> is p/.uninstalling, <<p, v>> is p/.uninstalling-v.
TombKey == Pkg \X (Ver \cup {0})
Tomb    == [ver : Ver \cup {0}, body : Tree]
NoTomb  == [ver |-> 0, body |-> Absent]

-----------------------------------------------------------------------------
(* The store and the index, as operations read them. *)

Requires(s) == {q \in Pkg : Dep[s][q] > 0}

Pinned(sel) == {q \in Pkg : sel[q].ver # 0 /\ ~sel[q].edit}
SlotOf(sel, q) == <<q, sel[q].ver>>

\* Every immutable selection resolves to a readable tree.
Resolvable(sel) == \A q \in Pinned(sel) : tree[SlotOf(sel, q)] \in Rev

\* Every selection finds its requirements selected, at or above their minimum.
Closed(sel) ==
    \A q \in Pkg : sel[q].ver # 0 =>
        \A d \in Requires(SlotOf(sel, q)) :
            sel[d].ver # 0 /\ sel[d].ver >= Dep[SlotOf(sel, q)][d]

\* The store scan refuses a version directory without a readable manifest.
Scannable == \A s \in Slot : tree[s] # Partial

Candidates(q, least) == {v \in Ver : tree[<<q, v>>] \in Rev /\ v >= least}

-----------------------------------------------------------------------------
(* One operation's memory. *)

Frame == [slot : Slot, edit : BOOLEAN, fresh : BOOLEAN, todo : SUBSET Pkg]
Root(f) == <<f.slot, f.edit, f.fresh>>

Pcs == {"idle", "load", "resolve", "swap", "record", "activate", "prepare", "sidecars",
        "committed", "rollback", "restore", "sweep", "swept", "hide", "finish", "finished"}

Kinds == {"none", "install", "switch", "uninstall"}

Operation ==
    [pc : Pcs, kind : Kinds, slot : Slot, rev : Rev \cup {Absent}, edit : BOOLEAN, reinstall : BOOLEAN,
     exact : BOOLEAN, idx : [Pkg -> Selection], frames : Seq(Frame),
     resolved : SUBSET (Slot \X BOOLEAN), created : SUBSET Slot, prev : Tree,
     saved : BOOLEAN, retained : Int, left : SUBSET Pkg, snap : [Slot -> Nat],
     key : TombKey, before : [tree : [Slot -> Tree], index : [Pkg -> Selection],
                              prov : [Slot -> Nat]]]

Blank == [tree |-> [s \in Slot |-> Absent], index |-> [q \in Pkg |-> NoSel],
          prov |-> [s \in Slot |-> 0]]
SomeSlot == CHOOSE s \in Slot : TRUE

Idle == [pc |-> "idle", kind |-> "none", slot |-> SomeSlot, rev |-> Absent, edit |-> FALSE,
         reinstall |-> FALSE, exact |-> FALSE, idx |-> Blank.index, frames |-> <<>>,
         resolved |-> {}, created |-> {}, prev |-> Absent, saved |-> FALSE,
         retained |-> -1, left |-> {}, snap |-> Blank.prov,
         key |-> <<SomeSlot[1], 0>>, before |-> Blank]

Top(o)    == o.frames[Len(o.frames)]
Below(o)  == SubSeq(o.frames, 1, Len(o.frames) - 1)
Open(o)   == {Root(o.frames[i]) : i \in 1..Len(o.frames)}
At(p, pc) == lock = p /\ op[p].pc = pc
Installs(o) == o.kind \in {"install", "switch"}

\* Registration orders go above every active one and every retained sidecar;
\* the sidecars are read once per transaction.
Retained(o) == IF o.retained >= 0 THEN o.retained
               ELSE Max({0} \cup {prov[s] : s \in {t \in Slot : tree[t] # Absent}})
\* Mutant of NextOrder: editable selections, which have no sidecar, are overlooked.
NextOrderRetained(o) == Retained(o) + 1
NextOrder(o) == Max({Retained(o)} \cup {o.idx[q].order : q \in Pkg}) + 1

\* Select a package in the transaction's private copy of the index.
Adopt(o, s, edit) ==
    [o EXCEPT !.idx[s[1]] = [ver |-> s[2], edit |-> edit, order |-> NextOrder(o)],
              !.retained = Retained(o)]

\* Leave the locked region: the process forgets the operation.
Release(p) == lock' = NoProc /\ op' = [op EXCEPT ![p] = Idle]

-----------------------------------------------------------------------------
Init ==
    /\ tree = Blank.tree
    /\ tomb = [k \in TombKey |-> NoTomb]
    /\ orphan = {}
    /\ index = Blank.index
    /\ prov = Blank.prov
    /\ lock = NoProc
    /\ op = [p \in Proc |-> Idle]

\* Bounds of the runs: no operation starts once the orders in use reach
\* MaxOrder, or with more than MaxDebris tombstones, orphans and partial trees.
Debris == Cardinality({k \in TombKey : tomb[k] # NoTomb}) + Cardinality(orphan)
            + Cardinality({s \in Slot : tree[s] = Partial})
WithinBounds ==
    /\ \A q \in Pkg : index[q].order < MaxOrder
    /\ \A s \in Slot : prov[s] < MaxOrder
    /\ Debris <= MaxDebris

Begin(p, o) ==
    /\ WithinBounds
    /\ lock = NoProc
    /\ lock' = p
    /\ op' = [op EXCEPT ![p] = [o EXCEPT !.pc = "load"]]
    /\ UNCHANGED disk

\* pkg install of a directory or an archive; --reinstall excludes --editable.
BeginInstall(p) ==
    \E s \in Offered, r \in Rev, edit, reinstall \in BOOLEAN :
        /\ ~(edit /\ reinstall)
        /\ Begin(p, [Idle EXCEPT !.kind = "install", !.slot = s, !.rev = r, !.edit = edit,
                                 !.reinstall = reinstall])

BeginSwitch(p) ==
    \E s \in Offered : Begin(p, [Idle EXCEPT !.kind = "switch", !.slot = s])

\* pkg uninstall NAME removes the active version, NAME@VERSION an exact one.
BeginUninstall(p) ==
    \E s \in Offered, exact \in BOOLEAN :
        LET target == IF exact \/ index[s[1]].ver = 0 THEN s ELSE SlotOf(index, s[1]) IN
        Begin(p, [Idle EXCEPT !.kind = "uninstall", !.slot = target, !.exact = exact])

-----------------------------------------------------------------------------
(* Install and switch: load, resolve, publish, activate. *)

Loaded(o) == [o EXCEPT !.idx = index,
                       !.before = [tree |-> tree, index |-> index, prov |-> prov]]

LoadInstall(p) ==
    /\ At(p, "load") /\ op[p].kind = "install"
    /\ Resolvable(index)
    /\ LET s == op[p].slot IN
       op' = [op EXCEPT ![p] = [Loaded(op[p]) EXCEPT
                !.pc = "resolve",
                !.frames = <<[slot |-> s, edit |-> op[p].edit, fresh |-> TRUE,
                              todo |-> Requires(s)]>>]]
    /\ UNCHANGED <<disk, lock>>

LoadSwitch(p) ==
    /\ At(p, "load") /\ op[p].kind = "switch"
    /\ Resolvable(index) /\ Scannable
    /\ tree[op[p].slot] \in Rev
    /\ op' = [op EXCEPT ![p] = [Adopt(Loaded(op[p]), op[p].slot, FALSE) EXCEPT !.pc = "prepare"]]
    /\ UNCHANGED <<disk, lock>>

\* Mutant of Push: a package met again is walked again, not reported as a cycle.
PushAgain(p, frame) ==
    /\ op' = [op EXCEPT ![p].frames =
                 Append(SelectSeq(@, LAMBDA f : Root(f) # Root(frame)), frame)]
    /\ UNCHANGED <<disk, lock>>

Push(p, frame) ==
    /\ Root(frame) \notin Open(op[p])       \* a cyclic dependency is an error
    /\ op' = [op EXCEPT ![p].frames = Append(@, frame)]
    /\ UNCHANGED <<disk, lock>>

Walk(o, s, edit) == IF <<s, edit>> \in o.resolved THEN {} ELSE Requires(s)

\* One unresolved requirement of the package on top of the walk: the greatest
\* satisfying stored version, else the active editable source, else the
\* requirement's own source, which is installed first.
Need(p, q) ==
    LET o == op[p]
        least == Dep[Top(o).slot][q]
        live == o.idx[q].edit /\ o.idx[q].ver >= least
        source == Path[Top(o).slot][q]
    IN  /\ At(p, "resolve")
        /\ q \in Top(o).todo
        /\ Scannable
        /\ \/ /\ Candidates(q, least) # {}
              /\ LET s == <<q, Max(Candidates(q, least))>> IN
                 Push(p, [slot |-> s, edit |-> FALSE, fresh |-> FALSE,
                          todo |-> Walk(o, s, FALSE)])
           \/ /\ Candidates(q, least) = {} /\ live
              /\ LET s == SlotOf(o.idx, q) IN
                 Push(p, [slot |-> s, edit |-> TRUE, fresh |-> FALSE, todo |-> Walk(o, s, TRUE)])
           \/ /\ Candidates(q, least) = {} /\ ~live /\ source # 0
              /\ Push(p, [slot |-> <<q, source>>, edit |-> FALSE, fresh |-> TRUE,
                          todo |-> Requires(<<q, source>>)])

\* A stored dependency is fully walked: its dependent checks it and selects it
\* unless it is already the selection.
Satisfy(p) ==
    LET o == op[p]
        f == Top(o)
        dependent == o.frames[Len(o.frames) - 1]
        q == f.slot[1]
        popped == [o EXCEPT !.resolved = @ \cup {<<f.slot, f.edit>>},
                            !.frames = [Below(o) EXCEPT ![Len(o.frames) - 1].todo = @ \ {q}]]
        current == f.edit \/ (o.idx[q].ver = f.slot[2] /\ ~o.idx[q].edit)
    IN  /\ At(p, "resolve") /\ Len(o.frames) > 1
        /\ ~f.fresh /\ f.todo = {}
        /\ f.slot[2] >= Dep[dependent.slot][q]
        /\ current \/ Scannable
        /\ op' = [op EXCEPT ![p] = IF current THEN popped ELSE Adopt(popped, f.slot, FALSE)]
        /\ UNCHANGED <<disk, lock>>

ReadyToPublish(p) ==
    At(p, "resolve") /\ Top(op[p]).fresh /\ Top(op[p]).todo = {}

\* --reinstall names the package on the command line, never its dependencies.
Replaces(o) == o.reinstall /\ Len(o.frames) = 1

\* The staged tree is complete before this rename makes it visible.
PublishNew(p) ==
    /\ ReadyToPublish(p)
    /\ ~Top(op[p]).edit
    /\ tree[Top(op[p]).slot] = Absent
    /\ tree' = [tree EXCEPT ![Top(op[p]).slot] = op[p].rev]
    /\ op' = [op EXCEPT ![p].pc = "record"]
    /\ UNCHANGED <<tomb, orphan, index, prov, lock>>

\* Mutant of Displace: the old tree is deleted before the new one is renamed in.
DisplaceDeleting(p) ==
    /\ ReadyToPublish(p)
    /\ ~Top(op[p]).edit
    /\ Replaces(op[p]) /\ tree[op[p].slot] # Absent
    /\ tree' = [tree EXCEPT ![op[p].slot] = Absent]
    /\ op' = [op EXCEPT ![p].pc = "swap"]
    /\ UNCHANGED <<tomb, orphan, index, prov, lock>>

\* First rename of a replacement: destination -> .agm-previous-*.
Displace(p) ==
    /\ ReadyToPublish(p)
    /\ ~Top(op[p]).edit
    /\ Replaces(op[p]) /\ tree[op[p].slot] # Absent
    /\ tree' = [tree EXCEPT ![op[p].slot] = Absent]
    /\ op' = [op EXCEPT ![p].pc = "swap", ![p].prev = tree[op[p].slot]]
    /\ UNCHANGED <<tomb, orphan, index, prov, lock>>

\* An editable install has no tree; an identical tree already stored is kept.
PublishNothing(p) ==
    /\ ReadyToPublish(p)
    /\ \/ Top(op[p]).edit
       \/ tree[Top(op[p]).slot] = op[p].rev /\ ~Replaces(op[p])
    /\ op' = [op EXCEPT ![p].pc = "activate"]
    /\ UNCHANGED <<disk, lock>>

\* Second rename of a replacement: staging -> destination.
Swap(p) ==
    /\ At(p, "swap")
    /\ tree' = [tree EXCEPT ![op[p].slot] = op[p].rev]
    /\ op' = [op EXCEPT ![p].pc = "record"]
    /\ UNCHANGED <<tomb, orphan, index, prov, lock>>

\* The second rename raises OSError: the displaced tree goes back at once.
SwapFails(p) ==
    /\ At(p, "swap")
    /\ tree' = [tree EXCEPT ![op[p].slot] = op[p].prev]
    /\ op' = [op EXCEPT ![p].pc = "rollback", ![p].prev = Absent]
    /\ UNCHANGED <<tomb, orphan, index, prov, lock>>

\* The published tree enters the list that a rollback walks.
Record(p) ==
    /\ At(p, "record")
    /\ op' = IF op[p].prev = Absent
             THEN [op EXCEPT ![p].pc = "activate", ![p].created = @ \cup {Top(op[p]).slot}]
             ELSE [op EXCEPT ![p].pc = "activate", ![p].saved = TRUE]
    /\ UNCHANGED <<disk, lock>>

\* Select the package just installed; a dependency is then walked again from
\* its store root before its dependent accepts it.
Activate(p) ==
    LET top == Top(op[p])
        o == Adopt(op[p], top.slot, top.edit)
        stored == [top EXCEPT !.fresh = FALSE, !.todo = Requires(top.slot)]
    IN  /\ At(p, "activate") /\ Scannable
        /\ op' = [op EXCEPT ![p] =
                    IF Len(o.frames) = 1 THEN [o EXCEPT !.pc = "prepare"]
                    ELSE [o EXCEPT !.pc = "resolve", !.frames = Append(Below(o), stored)]]
        /\ UNCHANGED <<disk, lock>>

-----------------------------------------------------------------------------
(* Commit: validate the whole selection, then sidecars, then the index. *)

\* Mutant of Prepare: requirements among the selections are not validated.
PrepareUnvalidated(p) ==
    /\ At(p, "prepare")
    /\ Resolvable(op[p].idx)
    /\ op' = [op EXCEPT ![p].pc = "sidecars", ![p].left = Pinned(op[p].idx), ![p].snap = prov]
    /\ UNCHANGED <<disk, lock>>

Prepare(p) ==
    /\ At(p, "prepare")
    /\ Resolvable(op[p].idx) /\ Closed(op[p].idx)
    /\ op' = [op EXCEPT ![p].pc = "sidecars", ![p].left = Pinned(op[p].idx), ![p].snap = prov]
    /\ UNCHANGED <<disk, lock>>

WriteSidecar(p, q) ==
    /\ At(p, "sidecars") /\ q \in op[p].left
    /\ prov' = [prov EXCEPT ![SlotOf(op[p].idx, q)] = op[p].idx[q].order]
    /\ op' = [op EXCEPT ![p].left = @ \ {q}]
    /\ UNCHANGED <<tree, tomb, orphan, index, lock>>

\* Mutant of WriteIndex: the index is rewritten one package at a time.
WriteIndexPiecewise(p) ==
    \E q \in Pkg :
        /\ At(p, "sidecars") /\ op[p].left = {}
        /\ index' = [index EXCEPT ![q] = op[p].idx[q]]
        /\ op' = IF index' = op[p].idx THEN [op EXCEPT ![p].pc = "committed"] ELSE op
        /\ UNCHANGED <<tree, tomb, orphan, prov, lock>>

WriteIndex(p) ==
    /\ At(p, "sidecars") /\ op[p].left = {}
    /\ index' = op[p].idx
    /\ op' = [op EXCEPT ![p].pc = "committed"]
    /\ UNCHANGED <<tree, tomb, orphan, prov, lock>>

\* After the index is published the displaced tree is deleted and the lock released.
ConcludeInstall(p) ==
    /\ At(p, "committed") /\ Installs(op[p])
    /\ Release(p)
    /\ UNCHANGED disk

-----------------------------------------------------------------------------
(* Uninstall: hide the tree under a tombstone, commit, remove the tombstone. *)

\* The tombstone an operation uses: the unversioned one for the active version.
IsActive(o) == index[o.slot[1]].ver # 0 /\ (~o.exact \/ index[o.slot[1]].ver = o.slot[2])
\* Mutant of KeyOf: an exact uninstall overlooks that its version is the active one.
KeyOfExact(o) == <<o.slot[1], IF o.exact THEN o.slot[2] ELSE 0>>
KeyOf(o) == <<o.slot[1], IF ~o.exact \/ IsActive(o) THEN 0 ELSE o.slot[2]>>

Uninstalls(p) == At(p, "load") /\ op[p].kind = "uninstall"
Without(o) == [index EXCEPT ![o.slot[1]] = NoSel]

\* An unselected package with a tombstone: only the interrupted removal is left to do.
UninstallLeftover(p) ==
    /\ Uninstalls(p) /\ ~op[p].exact
    /\ index[op[p].slot[1]].ver = 0
    /\ tomb[KeyOf(op[p])] # NoTomb
    /\ op' = [op EXCEPT ![p].pc = "finish", ![p].key = KeyOf(op[p])]
    /\ UNCHANGED <<disk, lock>>

UninstallEditable(p) ==
    /\ Uninstalls(p) /\ IsActive(op[p]) /\ index[op[p].slot[1]].edit
    /\ op' = [op EXCEPT ![p].pc = "prepare", ![p].idx = Without(op[p]), ![p].edit = TRUE]
    /\ UNCHANGED <<disk, lock>>

\* The selected tree stands, or a removal that stopped before its commit left
\* it in the tombstone, from where it is first put back.
UninstallActive(p) ==
    LET key == KeyOf(op[p])
        s == op[p].slot
    IN  /\ Uninstalls(p) /\ IsActive(op[p]) /\ ~index[s[1]].edit
        /\ \/ /\ tree[s] \in Rev
              /\ op' = [op EXCEPT ![p].pc = IF tomb[key] = NoTomb THEN "hide" ELSE "sweep",
                                  ![p].key = key]
              /\ UNCHANGED disk
           \/ /\ tree[s] = Absent
              /\ tomb[key].ver = s[2] /\ tomb[key].body \in Rev
              /\ tree' = [tree EXCEPT ![s] = tomb[key].body]
              /\ tomb' = [tomb EXCEPT ![key] = NoTomb]
              /\ op' = [op EXCEPT ![p].pc = "hide", ![p].key = key]
              /\ UNCHANGED <<orphan, index, prov>>
        /\ UNCHANGED lock

UninstallInactive(p) ==
    LET key == KeyOf(op[p]) IN
    /\ Uninstalls(p) /\ op[p].exact /\ ~IsActive(op[p])
    /\ tomb[key] # NoTomb \/ tree[op[p].slot] \in Rev
    /\ op' = [op EXCEPT ![p].pc = IF tomb[key] = NoTomb THEN "hide" ELSE "sweep", ![p].key = key]
    /\ UNCHANGED <<disk, lock>>

\* A leftover tombstone goes first; an inactive version may have nothing else.
Hide(p) ==
    LET s == op[p].slot
        inactive == op[p].key[2] # 0
    IN  /\ At(p, "hide")
        /\ \/ /\ tree[s] \in Rev
              /\ tree' = [tree EXCEPT ![s] = Absent]
              /\ tomb' = [tomb EXCEPT ![op[p].key] = [ver |-> s[2], body |-> tree[s]]]
              /\ op' = [op EXCEPT ![p].pc = IF inactive THEN "finish" ELSE "prepare",
                                  ![p].idx = Without(op[p])]
              /\ UNCHANGED lock
           \/ /\ inactive /\ tree[s] = Absent
              /\ Release(p)
              /\ UNCHANGED <<tree, tomb>>
        /\ UNCHANGED <<orphan, index, prov>>

ConcludeUninstall(p) ==
    /\ At(p, "committed") /\ op[p].kind = "uninstall"
    /\ IF op[p].edit THEN Release(p)
       ELSE op' = [op EXCEPT ![p].pc = "finish"] /\ UNCHANGED lock
    /\ UNCHANGED disk

\* The sidecar goes before the first file; a tombstone that has already lost
\* its manifest no longer names a sidecar.
Strip(p) ==
    LET key == op[p].key
        s == <<key[1], tomb[key].ver>>
    IN  /\ At(p, "sweep") \/ At(p, "finish")
        /\ \/ prov' = [prov EXCEPT ![s] = 0]
           \/ tomb[key].body = Partial /\ UNCHANGED prov
        /\ tomb' = [tomb EXCEPT ![key].body = Partial]
        /\ op' = [op EXCEPT ![p].pc = IF @ = "sweep" THEN "swept" ELSE "finished"]
        /\ UNCHANGED <<tree, orphan, index, lock>>

Swept(p) ==
    /\ At(p, "swept") \/ At(p, "finished")
    /\ tomb' = [tomb EXCEPT ![op[p].key] = NoTomb]
    /\ IF op[p].pc = "swept" THEN op' = [op EXCEPT ![p].pc = "hide"] /\ UNCHANGED lock
       ELSE Release(p)
    /\ UNCHANGED <<tree, orphan, index, prov>>

-----------------------------------------------------------------------------
(* Failures inside the process, rollback, interrupts and crashes. *)

\* Any validation, discipline, fetch, Python-requirement or file-system error
\* before the index is published.  Sidecars already rewritten are restored.
\* Mutant of Undone: sidecars written before the failure stay.
NothingUndone(p) == UNCHANGED prov
Undone(p) == IF op[p].pc = "sidecars" THEN prov' = op[p].snap ELSE UNCHANGED prov

FailInstall(p) ==
    /\ lock = p /\ Installs(op[p])
    /\ \/ /\ op[p].pc = "load"
          /\ Release(p)
       \/ /\ op[p].pc \in {"resolve", "activate", "prepare", "sidecars"}
          /\ op' = [op EXCEPT ![p].pc = "rollback"]
          /\ UNCHANGED lock
    /\ Undone(p)
    /\ UNCHANGED <<tree, tomb, orphan, index>>

FailUninstall(p) ==
    LET o == op[p] IN
    /\ lock = p /\ o.kind = "uninstall"
    /\ \/ /\ o.pc \in {"load", "sweep", "swept", "hide", "finish", "finished"}
          /\ UNCHANGED <<tree, tomb>>
       \/ /\ o.pc \in {"prepare", "sidecars"}
          /\ IF o.edit THEN UNCHANGED <<tree, tomb>>
             ELSE /\ tree' = [tree EXCEPT ![o.slot] = tomb[o.key].body]
                  /\ tomb' = [tomb EXCEPT ![o.key] = NoTomb]
    /\ Undone(p)
    /\ Release(p)
    /\ UNCHANGED <<orphan, index>>

\* _rollback_created_trees: replaced trees first, then created ones in place.
UndoReplace(p) ==
    /\ At(p, "rollback") /\ op[p].saved
    /\ tree' = [tree EXCEPT ![op[p].slot] = Absent]
    /\ op' = [op EXCEPT ![p].pc = "restore"]
    /\ UNCHANGED <<tomb, orphan, index, prov, lock>>

Restore(p) ==
    /\ At(p, "restore")
    /\ tree' = [tree EXCEPT ![op[p].slot] = op[p].prev]
    /\ op' = [op EXCEPT ![p].pc = "rollback", ![p].prev = Absent, ![p].saved = FALSE]
    /\ UNCHANGED <<tomb, orphan, index, prov, lock>>

Discard(p, s) ==
    /\ At(p, "rollback") /\ ~op[p].saved
    /\ s \in op[p].created
    /\ \/ /\ tree[s] # Partial
          /\ tree' = [tree EXCEPT ![s] = Partial]
          /\ UNCHANGED op
       \/ /\ tree[s] = Partial
          /\ tree' = [tree EXCEPT ![s] = Absent]
          /\ op' = [op EXCEPT ![p].created = @ \ {s}]
    /\ UNCHANGED <<tomb, orphan, index, prov, lock>>

RolledBack(p) ==
    /\ At(p, "rollback") /\ ~op[p].saved /\ op[p].created = {}
    /\ Release(p)
    /\ UNCHANGED disk

\* A displaced tree nobody will put back stays on disk under a name nobody reads.
Abandoned(o) == IF o.prev \in Rev THEN {o.slot} ELSE {}

\* The process dies: the kernel drops the lock, the disk stays as it is.
Crash(p) ==
    /\ lock = p
    /\ orphan' = orphan \cup Abandoned(op[p])
    /\ Release(p)
    /\ UNCHANGED <<tree, tomb, index, prov>>

\* KeyboardInterrupt: an install rolls back what it has recorded, up to the
\* return of its transaction; a rollback or an uninstall just stops.
Interrupt(p) ==
    /\ lock = p
    /\ IF Installs(op[p]) /\ op[p].pc \notin {"load", "rollback", "restore"}
       THEN /\ orphan' = IF op[p].saved THEN orphan ELSE orphan \cup Abandoned(op[p])
            /\ op' = [op EXCEPT ![p].pc = "rollback",
                                ![p].prev = IF op[p].saved THEN @ ELSE Absent]
            /\ UNCHANGED lock
       ELSE /\ orphan' = orphan \cup Abandoned(op[p])
            /\ Release(p)
    /\ UNCHANGED <<tree, tomb, index, prov>>

-----------------------------------------------------------------------------
Start(p) == BeginInstall(p) \/ BeginSwitch(p) \/ BeginUninstall(p)

Step(p) ==
    \/ LoadInstall(p) \/ LoadSwitch(p)
    \/ \E q \in Pkg : Need(p, q)
    \/ Satisfy(p)
    \/ PublishNew(p) \/ Displace(p) \/ PublishNothing(p)
    \/ Swap(p) \/ SwapFails(p) \/ Record(p) \/ Activate(p)
    \/ Prepare(p)
    \/ \E q \in Pkg : WriteSidecar(p, q)
    \/ WriteIndex(p) \/ ConcludeInstall(p)
    \/ UninstallLeftover(p) \/ UninstallEditable(p) \/ UninstallActive(p) \/ UninstallInactive(p)
    \/ Hide(p) \/ ConcludeUninstall(p) \/ Strip(p) \/ Swept(p)
    \/ UndoReplace(p) \/ Restore(p)
    \/ \E s \in Slot : Discard(p, s)
    \/ RolledBack(p)
    \/ FailInstall(p) \/ FailUninstall(p)

Next == \E p \in Proc : Start(p) \/ Step(p) \/ Crash(p)

Spec == Init /\ [][Next]_vars

\* With an operator at the keyboard as well.
NextWithInterrupts == Next \/ \E p \in Proc : Interrupt(p)
SpecWithInterrupts == Init /\ [][NextWithInterrupts]_vars

\* A process that holds the lock keeps running; it need not survive or succeed.
FairSpec == SpecWithInterrupts /\ \A p \in Proc : WF_vars(Step(p))

-----------------------------------------------------------------------------
\* A process in the middle of a dependency walk has a package on top of it.
MemoryOK ==
    /\ op \in [Proc -> Operation]
    /\ \A p \in Proc : op[p].pc \in {"resolve", "swap", "record", "activate"} =>
          op[p].frames # <<>>

TypeOK ==
    /\ tree \in [Slot -> Tree]
    /\ tomb \in [TombKey -> Tomb]
    /\ orphan \subseteq Slot
    /\ index \in [Pkg -> Selection]
    /\ prov \in [Slot -> Nat]
    /\ lock \in Proc \cup {NoProc}
    /\ MemoryOK

\* Where a whole copy of s can be found: in place, in its tombstone, moved
\* aside by a running replacement, or moved aside by one that died.
Survives(s) ==
    \/ tree[s] \in Rev
    \/ tomb[<<s[1], 0>>].ver = s[2] /\ tomb[<<s[1], 0>>].body \in Rev
    \/ \E p \in Proc : op[p].slot = s /\ op[p].prev \in Rev
    \/ s \in orphan

\* No failure and no crash, at any point of any operation, loses the last whole
\* copy of a version the published index selects, and a reader of that index
\* never meets a half-removed tree in the place of a selected one (install.py:
\* staging, rename, rollback and tombstone order).  A half-removed tree that is not
\* selected may stay, and fails every scan of the store (Scannable).
ActiveSurvives ==
    \A q \in Pinned(index) : Survives(SlotOf(index, q)) /\ tree[SlotOf(index, q)] # Partial

-----------------------------------------------------------------------------
(* Why no step loses an active tree: the inductive invariant. *)

Active(s) == index[s[1]].ver = s[2] /\ ~index[s[1]].edit

\* The replaced version is out of place between the two renames of a swap.
Displaced(o) == o.pc \in {"swap", "restore"}

\* From load to release, an install or switch that has not yet published its
\* index holds every selected tree, in place or in the copy it moved aside, and
\* will undo only what was not selected.
InstallKeeps(o) ==
    Installs(o) /\ o.pc # "load" =>
        /\ \A q \in Pinned(index) :
              \/ tree[SlotOf(index, q)] \in Rev
              \/ Displaced(o) /\ SlotOf(index, q) = o.slot /\ tree[o.slot] = Absent
        /\ o.pc # "committed" =>
              /\ \A s \in o.created : ~Active(s)
              /\ Active(o.slot) /\ (o.prev # Absent \/ Displaced(o)) => o.prev \in Rev
              /\ o.pc = "record" /\ o.prev = Absent => ~Active(Top(o).slot)
        /\ o.pc = "resolve" => o.prev = Absent
        /\ o.pc = "swap" => o.prev # Absent /\ ~o.saved
        /\ o.pc \in {"swap", "record", "activate"} /\ o.prev # Absent => Len(o.frames) = 1
        /\ o.saved => o.prev # Absent

\* An uninstall removes a tombstone only when the tree is in place or the
\* package is no longer selected, and hides a selected tree only under the
\* tombstone from which a failure puts it back.
UninstallKeeps(o) ==
    o.kind = "uninstall" =>
        /\ o.pc = "load" /\ ~o.exact /\ index[o.slot[1]].ver # 0 => index[o.slot[1]].ver = o.slot[2]
        /\ o.pc \in {"sweep", "swept", "hide"} =>
              IF o.key[2] = 0 THEN o.key[1] = o.slot[1] /\ Active(o.slot) /\ tree[o.slot] \in Rev
              ELSE ~Active(o.slot)
        /\ o.pc \in {"prepare", "sidecars"} =>
              /\ o.idx[o.slot[1]].ver = 0
              /\ ~o.edit => o.key = <<o.slot[1], 0>> /\ tomb[o.key].body \in Rev /\ Active(o.slot)
        /\ o.pc = "committed" /\ ~o.edit =>
              o.key = <<o.slot[1], 0>> /\ index[o.slot[1]].ver = 0
        /\ o.pc \in {"finish", "finished"} /\ o.key[2] = 0 => index[o.key[1]].ver = 0

OperationKeeps(o) ==
    /\ InstallKeeps(o)
    /\ UninstallKeeps(o)
    /\ o.pc \in {"resolve", "swap", "record", "activate"} => o.kind = "install"
    /\ o.pc \in {"rollback", "restore"} => Installs(o)
    /\ o.pc \in {"sweep", "swept", "hide", "finish", "finished"} => o.kind = "uninstall"
    /\ o.kind = "install" => o.rev \in Rev
    /\ o.pc = "load" \/ ~Installs(o) => o.prev = Absent
    /\ o.pc = "load" => o.created = {} /\ ~o.saved
    /\ o.pc = "sidecars" => Resolvable(o.idx)

\* Only the holder of the lock is in the middle of an operation.
Exclusive == \A p \in Proc : lock # p => op[p] = Idle

StoreInv ==
    /\ ActiveSurvives
    /\ Exclusive
    /\ \A p \in Proc : lock = p => OperationKeeps(op[p])

\* The published index always satisfies every requirement among its own
\* selections, whatever transactions failed, died or followed one another.
SelectionClosed == Closed(index)

\* Two selected packages never share a registration order, so command ownership,
\* which goes to the later registration, is decided by the index alone.
OrdersDistinct ==
    \A q, r \in Pkg : q # r /\ index[q].ver # 0 /\ index[r].ver # 0 =>
        index[q].order # index[r].order

\* An install or switch that fails leaves trees, index and sidecars exactly as
\* it found them once its rollback is over.
RollbackEnds(p) == At(p, "rollback") /\ lock' = NoProc /\ op[p].created = {} /\ ~op[p].saved
FailureRestores ==
    [][\A p \in Proc : RollbackEnds(p) =>
            [tree |-> tree', index |-> index', prov |-> prov'] = op[p].before]_vars

\* Every operation gives the lock back.
LockReleased == \A p \in Proc : lock = p ~> lock = NoProc

\* The published index implements the atomic selection of PackageSelection:
\* every commit is one Select or one Drop, everything else leaves it alone.
Promise == INSTANCE PackageSelection
             WITH selection <- [q \in Pkg |-> [ver |-> index[q].ver, edit |-> index[q].edit]]
ImplementsSelection == Promise!Spec

\* docs/arch/package-store.md:11: a reinstall "retains the displaced tree until
\* activation commits, so failure restores the prior installation" and "any
\* failure or interruption rolls the new tree back".
PriorInstallationRestored ==
    [][\A p \in Proc : RollbackEnds(p) =>
            \A q \in Pinned(op[p].before.index) :
                LET s == SlotOf(op[p].before.index, q) IN tree'[s] = op[p].before.tree[s]]_vars

\* docs/commands/pkg.md:325: "a failed install leaves nothing active".
FailedInstallActivatesNothing ==
    [][\A p \in Proc : RollbackEnds(p) => index' = op[p].before.index]_vars
=============================================================================
