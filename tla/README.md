# agm: verification project

TLA+ models of agm (`src/src/agm`), TLC runs over small instances of them, and proofs that TLAPS checks.
agm is a Python program of about 120 000 lines: a project, worktree and sandbox tool, a package manager, a
runner of coding agents, and AgL, a language whose programs call agents. Most of it is sequential translation of
data. What is hard to test is the rest: state that outlives a process, work that other processes do meanwhile,
and operations that fail or are interrupted in their middle. The project models that.

`PROJECT.json` holds the machine-readable side: components, runs, mutants, the map from every definition to the
lines it models, hazards with the properties that cover them, findings and theorems.

## Inventory

| Component (under `src/src/agm`) | State | Operations | What is hard | Module |
|---|---|---|---|---|
| package store: `packages/install.py`, `activation.py`, `store.py`, `model.py` | version trees, tombstones, provenance sidecars, activation index, lock file | install (directory, archive, editable, `--reinstall`), switch, uninstall | multi-step disk changes, rollback, death and Ctrl-C between steps, several processes | `PackageStore` |
| archives, records, fetch, discipline: `packages/archive.py`, `record.py`, `fetch.py`, `discipline.py` | one temporary file | validate, unpack, download | malformed input, an alarm | a failing or successful step of `PackageStore` |
| agent sessions: `agent/session/service.py`, `cli_adapters.py`, `agl/runtime/sessions.py`, ask loop of `agl/eval/effects.py` | service entries, host table, default handle, ids and `started` flags of backends; the agents' transcripts | open, ask (default, ephemeral, explicit) with retries, reset, fork, close, `reset_all`, `close_all` | two tables under failing and interrupted teardowns; a prompt that may or may not have arrived | `AgentSessions` |
| Pi RPC backend: `agent/session/rpc.py` | a child process, requests and events in flight | open, ask, reset, fork, compact, set-name, stats, close | an asynchronous peer that refuses, retries, asks, dies; timeouts; Ctrl-C | `PiRpc` |
| subprocess capture: `core/process.py` | a process group, reader and writer threads, a queue | run and capture, idle timeout, teardown | threads, pipes held by helpers, signals, nested exceptions | `ProcessCapture` |
| agent runner, specs, streams: `agent/*.py` | none | build a command line, parse events | formats | - |
| core helpers: `core/http.py`, `fs.py`, `env.py`, ... | dry-run flag | requests, file operations | - | - |
| projects and worktrees: `project/*.py` | git's | ensure and remove worktrees, copy configuration | a failing step after git's | - |
| sandbox, tmux, git: `sandbox`, `tmux`, `vcs` | external tools' | prepare, run | cleanup on every exit (`CleanupRan`) | - |
| command line, configuration, commands: `cli*.py`, `config`, `commands` | none | parse, merge, dispatch | - | - |
| AgL front end: `agl/lexer`, `parser`, `scope`, `typecheck`, `semantics` | per-compilation tables; the export surfaces of a cycle while they settle | compile | fixpoints over cycles of modules; size | `Reexports` |
| AgL match compiler: `agl/matchcompile`, decisions in `lower/lowerer.py` | none | pattern matrices to decisions, decisions to code, issues | tests reordered, fields shared and loaded late: correctness of a pure algorithm | `MatchCompile` |
| AgL lowering, IR, evaluator: `agl/lower`, `ir`, `eval` | frames, closures, module initialisers done so far | lower, make closures, call, run initialisers | which frame a variable is found in; order of initialisers, interrupts | `Closures`, `ReplSession` |
| AgL runtime: `agl/runtime`, `util/recursion.py` | extern call windows, the active call of a context, companion state, the recursion limit | call Python, call back, create and close state | callbacks from other threads, nested and overlapping interpreters | `ExternWindow` |
| AgL modules and caches: `agl/modules`, `artifact_cache.py`, `artifact_storage.py` | parsed, resolved, checked modules in memory and on disk, images of sessions | load, look up, retain, anchor | staleness, several processes on one cache | `ArtifactCache` |
| AgL REPL: `agl/repl`, `lower/repl.py` | session tables, link image, extern registry, node ids | open, evaluate an entry, promote what it completed, reset | entries that complete in part | `ReplSession` |

How they interact. An AgL program asks an agent: the evaluator's ask loop calls the session host, which keeps one
identity per handle and calls the session service, which keeps one entry per handle and calls a backend. A CLI
backend runs the agent's program once per prompt through subprocess capture; the Pi RPC backend keeps one process
and speaks to it. `exec` in a program also goes through subprocess capture, and a sandboxed command brings its own
cleanup command. The package store is shared by all agm processes of a user through its directory alone.

Inside AgL, a program and a REPL entry go through the same pipeline: the loader and the stages of the front end take
what they can from the artifact caches, lowering puts decisions and closures into the IR (a REPL's into its link
image), and one interpreter per program or entry runs the initialisers. Its code calls externs, which may call back.
The module caches are shared by the compilations of a process, their disk half by all processes; a REPL session adds
artifacts of its own, which the caches do not see.

## Modules

    PackageSelection   what the package manager promises      <- implemented by PackageStore
    PackageStore       the store, one action per disk change
      PackageStoreProofs (theorems, the refinement too)
      MCPackageStore     values for TLC
    Conversations      what sessions promise                  <- implemented by AgentSessions
    AgentSessions      ask loop, host, service, CLI backends
      AgentSessionsProofs (theorems, the refinement too), MCAgentSessions
    PiRpc              one level below an "rpc" entry of AgentSessions
      PiRpcProofs
    ProcessCapture     one level below a run of a CLI backend
      ProcessCaptureProofs, MCProcessCapture
    ReplSession        a REPL session: link image, initialisers, promotion
      ReplSessionProofs
    ArtifactCache      what a compilation reuses of earlier ones
      ArtifactCacheProofs
    MatchCompile       a case, from its patterns to its code and its run
    Closures           captures, frames, lookups
    ExternWindow       extern calls, callbacks, state, the recursion limit
      ExternWindowProofs
    Reexports          what the modules of an import cycle export
    CompilerProofs     about MatchCompile, Closures and Reexports
    MCAgl              values for the six modules of AgL, and their runs

The six modules of AgL share one run. `MCAgl` extends them all and chooses one at the start (`part`): a behaviour is
one of that module with the others at rest, so the sizes of the state spaces add up. `AglStale` explores `ArtifactCache`
alone, `AglCapture` `Closures`.

### PackageStore

`tree`, `tomb`, `prov` and `index` are the version directories, the hidden `.uninstalling` directories, the
registration order in each sidecar and the activation index; `orphan` notes trees that only a `.agm-previous-*`
directory still holds; `op[p]` is the memory of process `p` inside the locked region: the private index, the stack
of the dependency walk (`frames`), the trees created, the tree displaced, the sidecars to restore. Every rename,
removal and atomic file write is an action: `PublishNew`, `Displace` and `Swap` (the two renames of a
replacement), `WriteSidecar`, `WriteIndex`, `Hide`, `Strip`, `Swept`, `UndoReplace`, `Restore`, `Discard`. Between
them come the decisions: `Need`, `Satisfy` and `Activate` walk the requirements (greatest stored version, else the
active editable source, else the requirement's own source), `Prepare` validates the whole selection and assigns
sidecars. `FailInstall` and `FailUninstall` stand for every error before the index is published; `Crash` is the
death of the process, after which the kernel has dropped the lock; `Interrupt` is KeyboardInterrupt.
A tree's content is a revision, `Partial` (half removed, its manifest gone) or `Absent`.

* `store`: two processes, two packages of two versions, one of which requires the other, two contents.
  `ActiveSurvives`: no failure or death, at any point, loses the last whole copy of a selected version. (A
  half-removed tree of a version that is not selected fails every scan, `Scannable`; nothing in the code repairs it.)
  `FailureRestores`: a failed install leaves trees, index and sidecars as they were.
* `store_interrupts`: with Ctrl-C at any step. `SelectionClosed`, `OrdersDistinct`, and `ImplementsSelection`:
  every commit is one atomic `Select` or `Drop` of `PackageSelection`, which drops nothing else and downgrades
  nothing that is pinned. Two of the packages require each other: `LockReleased`, the walk is an error and no
  recursion, and every operation, failed or interrupted or not, gives the lock back.
* `store_reinstall`, `store_failed`: two findings, below.

Bounds: `MaxOrder` (registration orders) and `MaxDebris` (tombstones, orphans and partial trees at the start of an
operation) stop new operations, never one in progress. Two packages suffice for a requirement, an upgrade, a cycle
and a conflict of orders; two versions for a replacement of the active one and for a tombstone of another one; two
processes for every interleaving the lock allows, and one failure after another is within the debris bound.

### AgentSessions and Conversations

`entries` is `SessionService._entries` with the state of each backend, `host` is `AglSessionHost._sessions`, and
`default` the default handle. `scripts[s]` is what the agent's own session `s` has seen: a set of asks, since a
prompt is told apart only by the ask it belongs to. `call` is the one ask in progress: `Compose` (prompt or
follow-up), `Dispatch` (a run of the backend, with every outcome its adapter allows), `Parse` (a value, a retry,
the end), `EndEphemeral`. The turn of each backend kind is a set of results (`CommandTurn`, `SessionIdTurn`,
`CodexTurn`, `RpcTurn`): what is written into which transcript, which flags the adapter keeps, whether the ask
sees an answer. `Sweep` is one pass of `reset_all` or `close_all` in which any teardown may raise and which an
interrupt may cut short. To open, fork or close a handle takes a step in the service's table and then one in the
host's: `Register` and `Retire` are the host's, `Unregistered` an interrupt between the two, after which `cut`, a
history variable, has the handle. `Held` are the handles a program may have been given; a default session whose
registration was cut off is registered at its next use (`Recalled`).

Run `sessions`: two handles, three agent sessions, three asks, one or two attempts each, all backend kinds.
`TablesAgree` (the tables differ at the handles of `cut` and nowhere else) and `EphemeralsReleased` are about
teardowns, `FollowUpInContext` and `Remembers` about what a conversation holds after failures, `CreatedOnce` about a
launch that may have happened, `DefaultIsFresh` about `reset_all`. `ImplementsConversations`: seen from the handles,
each step opens, extends, restarts, copies or drops conversations and never moves an ask from one into another. Two
handles give parent and child of a fork or default and ephemeral; three sessions let one be abandoned by a reset.
Handles and sessions are symmetric: no property orders them.

### PiRpc

`procs[c]` is one Pi process with both pipes, its session and its run; `child[b]` the process of backend `b`;
`own[b]` the session that backend was given; `op` the call in progress: the command waited for and the locals of
`_send`. AGM's side is `Open`, `Close`, `Begin`, `Write`, `Receive` (responses, `Gather` for the events of a run,
cancellation of dialogs), `Eof`, `Timeout`, `Interrupt` and one `Deliver...` per command, which for `fork` chain
parent, ready, clone and child. `Raise` is the shared handling of an exception, and of the failure of a fork in
particular. Pi is external: `PiReply`, `PiRun` and `PiExits` do what `rpc.py` and its tests expect of it.

Run `pi_rpc`: two backends, so that one can be forked into the other, two processes, three sessions, two operations,
two attempts, two messages. `OneOwner` (no process is lost or shared), `OwnSession`, `SessionsApart`,
`AnswerIsOwn` (an ask returns the outcome of its own run, never what a retry discarded), `Quiescent` (nothing is
left to read between calls), `CallEnds`. Two operations are what `Quiescent` and `OwnSession` need to go wrong: one
that leaves something behind and one that meets it. `pi_rpc_interrupts` adds an interrupt after the loop of `_send`.

### ProcessCapture

`main` is the main thread (where it is; why it is tearing down; whether it is leaving the teardown with an
exception), `reader` and `writer` the threads, `queue` the queue between them, `closed` the streams whose end was
taken. The child and one helper are external: they write, close, fork, exit and read as they like, and heed or
ignore SIGTERM; the helper is in the child's group or not and holds any pipe. `unread` is a pipe's or a file's
content; bytes are counted as chunks. The main thread's actions follow `_running_process`,
`_drain_process_streams` and `stop_process`: `Spawn`, `StartThreads`, `StartFails`, `Take`, `IdleTimeout`, `Wait`,
`Flush`, `Cleanup`, `Term`, `Exited`, `Kill`, `Stragglers`, `Join`; `Interrupt` lands at any of them and is
deferred until the threads are started.

Run `process`: the five ways in which agm captures (git; exec with and without a timeout; an agent with its prompt
on stdin; Codex with stdout in a file), one chunk per stream, one interrupt or failing callback. `Whole`: a stream
not flagged as truncated was captured entirely. `NoOrphan`: a torn-down call leaves no process of its group.
`CleanupRan`. `Returns`: with an idle timeout the call ends, except for a helper that escaped the group, or
outlived its parent with its stdin, and holds a pipe. One chunk suffices, since what can go wrong is whether the
last one arrives; the bound also stands for a child that falls silent, which the idle timeout waits for. Two
exceptions are out of the bound on purpose: a second Ctrl-C during the grace does leave the child (see hazards).
The theorems say the same for any bound: `NoOrphan` and `CleanupRan` while `raised <= 1`.

### ReplSession

`loaded`, `linked` and `link` are `_loaded_lib_modules`, `LinkImage._linked_modules` and the generation of each
module's symbols; `ran` the initialisers a module's latest allocation has run; `frame`, `scope`, `decls` what the
session has promoted; `nextId` and `nominals` the node ids and the extern registry, which outlives a rejected entry.
`cur` is the entry in progress, a sequence of items (let, def, type, statement) with what each refers to. `Submit`
stands for load, check, lower and wire; `Reject` for a rejection after the wiring. `InstallModule`, `InstallEntry`,
`RunModule`, `RunEntry` are `interp.run`, one initialiser a step; `Finish` and `Fail` end an entry with the two
fixed points of the code, `Initialised` (`completed_library_module_ids`) and `Promotable`
(`completed_declaration_ids`). `Quit`, `Reset`.

`PromotedUsable`, `LinkedReady`: what the session keeps of a failed entry can be used, wherever it stopped once its
closures were installed. `KeepsCompleted`: it keeps all
it can. `RunsOnce`: effects of a linked module happen once. `NominalOwn`: no node id changes its type. The modules: two
that import each other, a third above them, and the prelude; the entries need modules, each other, their own earlier
and later items. Three entries: one that fails, one that uses what it left, one that redefines it.

`InterruptEarly` is the question of an interrupt before every closure is installed; see Findings. An entry's own
initialisers run in source order here; `_initializer_order` may move constants.

### ArtifactCache

`parsed`, `resolved`, `checked` are the three stores of a process's memory, `slots` the disk cache, `boot` the image a
session may start from, `session` a REPL's loaded modules and retained artifacts, `work` the compilation in progress.
A parsed module is an object, a text with the compilation it was `born` in: the stores compare objects, the disk
compares texts. An artifact is known by the texts it was derived `from`. `Load` is the loader; `Resolve` and `Check`
are `resolve_program` and `check_program` with lookup, reuse and retention; `Keep` and `Drop` are what the REPL does
with an entry's modules; `OpenCached`, `OpenFresh`, `ResetSession`, `Close`. `Edit`, three evictions and `Exit` (the
end of a process, or of the machine with a slot's bytes unwritten) come between compilations, `Exit` anywhere.

`ServedFresh`: what a compilation reuses is what it would have derived. `AnchoredRight`: references of a disk image
land on the resolutions they were written with, though the table is built anew. `BootCurrent`: an image is used only
when it is what `open` would build. Three modules with two texts of one (one of them closes an import cycle) and one
that may be absent, which a wildcard covers; three compilations (one that writes, one after a change, one that
reads), one edit or eviction between two of them.

`SessionReloads` lets files change under a session that has artifacts of them: run `agl_stale`, a finding.

### MatchCompile

`matrix.py` and `compiler.py` make a graph of decisions out of the patterns of a case, and `lower/lowerer.py` makes code
of it. A pattern and a value are trees: functions from positions (the fields that lead to a part) to what is there, so
that nothing recurs over patterns. `ledger` has the occurrences, the parts of the value, in the order in which they were
allocated (`Extended`); `nodes` the decisions, each with its matrix. `AddArm` writes a case; `CompileCase`,
`CompileBranch`, `CompileDefault` and `Decide` are the calls of `compile`: the innermost open decision (`Current`)
specialises its matrix for its next head, or takes the default, and goes on with the decision for that matrix, which is
the one remembered (`Memo`) or a new one. `Matrix`, `Selected` (the column heuristic), `Specialize`, `Default` and
`LeafBinders` follow the code; `FreeBefore` is what must be stored before a decision. `StartCase`, `Take` and
`TakeDefault` run the lowered code on a value: a branch stores the fields that the decision it leads to demands, and no
others. `Leaves`, `Failing` and `Describes` are the issues. What a case means stands beside it: `ArmsFor`, the arms that
match a value, and `Names`, what an arm binds.

`SelectsFirst`: wherever the code of a case has come to, what it may load is stored and a test has a way on, and it ends
at the first arm that matches, with the right names, or fails if there is none. `IssuesExact`: an arm is reported
unreachable, and a case non-exhaustive, exactly when it is so, and the pattern in the message has a value and none
that is matched. All cases of up to three arms over three types: numbers (open; two literals and one they cannot
hold; 4 patterns), an option of a number (6), a record of an option and a boolean (11). Three arms are what a
column choice needs to matter: two rows to reorder and one that both branches copy.

### Closures

`frames` is the interpreter's stack, `closures` every closure made, which any code may hold, `bindings` a counter that
makes each binding a slot of its own. A frame and a closure carry `slots`, what the code put there, and beside it
`env`, what is in scope by the language. `IrBind`, `IrMakeClosure`, `Call`, `Leave`; `Captures` is
`_compute_captures_for`. `IrLoad` takes the innermost frame that has the symbol, as the code does.
Run `agl_capture` has a lambda that uses a variable only through a lambda inside it: a finding.

`ClosesOverDefinition`: that is always the binding in scope where the closure was made. A def with a lambda in it and a
lambda in that, a lambda of the module, variables of each kind (parameter, `let`, `var`, public and private of the
module). Three calls above the module, two closures, six bindings: enough for a closure that outlives its frame to be
called beneath another activation of the same function. `CaptureThrough` is the condition under which it holds, and
what `agl_capture` shows to fail: the two complement each other.

### ExternWindow

`stack[t]` holds what runs on a thread: runs, AgL bodies called back, extern calls, factories and closers of state.
`active` is each context's active call, `window` the depth and owner of each interpreter, `limit` the recursion limit
with its holders, `bag`, `made`, `closed` the state values. Python code of the host or of an extern, factory or closer
may do anything: start a run, call back into any interpreter, spawn a thread in an empty or a copied context, use
state. `Owns` is `require_active`; `Opens` an extern call; `EndRun`, `HostCloses`, `CloseValue`, `AllClosed` the
closing of state on every way out.

`CallbackInWindow`: an interpreter's AgL code is on one thread, and a callback above an open call of its own.
`LimitKept`: overlapping runs all have the limit they asked for, and the process gets its own back. `StateClosed`:
every value is closed once, in reverse order of creation. A program and a REPL entry, two threads, five frames, two
values: enough for a run inside an extern of another, whose callback goes to the outer one.

`LooseState` lets threads in copied contexts, and factories that come back for their own key, create state: it breaks
`StateClosed` (Findings).

### Reexports

`exporting` holds the export declarations of each module, `surface` its export map as pairs of a name and an origin,
`withheld` what its `hiding` removed. A name is a path. `AddExport` writes the modules, `Propagate` is a step of
`_converge`: `Visit` goes through the modules in their order, each seeing what the ones before it have just added, as
`propagate` does, and the verdict is a conflict, the end (`settled`, or `unknown` when an item names nothing), or an
error when the steps run out. The code raises at the first addition that conflicts, the model after the pass it
happens in: additions are never taken back, so the outcome is the same.

`SurfacesSettle`: a settled module exports what chains of exports lead to (`Chains`, past what the final surfaces hide)
and nothing else, and the steps run out only when an export, applied again to what it made, gives a name nothing else
gives (`FeedsItself`). Three modules in a cycle and one outside, 20 different exports (whole, hiding, renaming, picking,
of two modules, in a region), up to four of them: a chain through all three modules against their order and one export
more that hides, renames or conflicts. The instance keeps to hidden paths that
match at once all they ever will. Two cases outside it break the property (Findings).

## Fairness

* `PackageStore`: weak fairness of `Step(p)`: a process that holds the lock keeps running. It need not succeed, and
  it may die. Starting an operation and dying are not fair.
* `PiRpc`: weak fairness of AGM's call and of each Pi process: both loops do what they can. `Timeout`, `Interrupt`,
  `PiExits` and new calls are not fair, so `CallEnds` does not lean on them.
* `ProcessCapture`: weak fairness of the main thread (its timeouts included: time passes), of the readers and of a
  writer whose pipe broke. The child and its helper owe nothing.
* `AgentSessions` and the modules of AgL state no liveness: their calls are bounded loops, or run user code that owes
  nothing.

Deadlock is not checked where a run may stop: at the bounds, and once a captured call is done.

## Findings

* `store_reinstall` (`packages/install.py:576`): `docs/arch/package-store.md:11` says a reinstall restores the prior
  installation on failure or interruption. An interrupt between the two renames, or after them and before the
  replacement is recorded, leaves the selected version out of its place.
* `store_failed` (`packages/install.py:274`): `docs/commands/pkg.md:325` says a failed install leaves nothing active.
  An interrupt after the index is written rolls back trees that the published index selects.
* `pi_rpc_interrupts` (`agent/session/rpc.py:242`): an interrupt after Pi confirmed a clone and before `cloned` is
  set leaves the backend on the clone, against the comment at line 251.
* `process_exit` (`core/process.py:929`): a call with `timed_out` may have `returncode` 0, against the docstring of
  `ProcessCaptureResult`.
* `agl_stale` (`agl/scope/program.py:1054`): a REPL session reuses its own resolution of a module whose import has
  changed since, and writes it to disk under the identity of the new sources, where later programs find it.
* `agl_capture` (`agl/lower/lowerer.py:955`): `_scan_captures` stops at a nested lambda, so a lambda does not capture
  what only a lambda inside it uses. In `def f(a: int) -> int -> int -> int = fn (b: int) => fn (c: int) => a + b + c`
  the outer lambda does not capture `a`, and making the inner one (`eval/ir_interpreter.py:1914`) does not find it. The
  docstring of `_lower_lambda` says capture-through "works automatically", bindings-and-scope.md:562 that lambdas close
  over their environment. The passing run keeps to lambdas that refer themselves to what the lambdas in them need, and
  the theorem has that condition as `CapturesThrough`.

Met while modelling or proving, without a run of their own:

* `agl/eval/ir_interpreter.py:926`: an interrupt before every closure is installed leaves a def promoted without its
  value, as the plan counts a function before the first incomplete initialiser as completed. `PromotedUsable` fails
  with `InterruptEarly = TRUE`.
* `agl/runtime/externs.py:111`: `get_or_create` says a value is created "once when absent", and ffi.md that a thread
  may run in a copy of the context. Such a thread may create a value after its bag was closed, which nobody closes;
  two threads, or a factory that comes back for its own key, run the factory twice and lose a value unclosed
  (`StateClosed` with `LooseState = TRUE`).
* `agl/scope/program.py:653`: `_converge` makes as many steps as a cycle has re-export declarations, and one more. One
  declaration can feed itself: with `export b::{x as y, y as z, z as w}` in `a` and `export a::{y, z, w}` in `b`, which
  declares `x`, the surfaces are finite but need four steps, and the program is refused after three (`FeedsItself` covers it; the docstring of `_converge` does not).
* `agl/scope/program.py:541`: what `hiding` removes grows as the surfaces of a cycle do, but what was forwarded before
  stays, so the surfaces of a cycle may depend on the order of its modules; modules.md:465 says they are as outside it. In
  `Reexports`, `SurfacesSettle` fails when `a` declares `P::n` and has `export b hiding X`, `b` declares `X::m` and has
  `export d::{R as X}` and `export a::{P::n as Q}`, and `d` has `export a::{P as R}`: `a` goes on exporting `Q`, which
  its hiding removes; with the three modules in the order `d`, `b`, `a` it does not.
* `agl/runtime/externs.py:384`: ffi.md says a retained callback is valid in "a later extern call on that thread". In a
  REPL each entry has an interpreter with a window of its own: a callback kept from one entry is rejected in the
  externs of the next.
* `agl/repl/loop.py:155`: docs/commands/agl.md:763 says Ctrl-C cancels the current entry without exiting. The handlers
  of the session cover `interp.run` and the loop's the prompt; one that arrives while the entry is compiled or promoted
  ends the REPL.
* `agl/repl/session.py:1367`: docs/arch/agl/repl.md says saved transcripts replay their entries, and the docstring of
  `load_file` that a transcript "reliably round-trips". An entry that failed in part is not in the log although its
  completed declarations stay, so later entries may use names the transcript lacks.
* `agl/lower/program.py:211`: the comment says a module that failed to load stays out of every later program, "because
  nothing re-imports" it (docs/arch/agl/repl.md says the same). A later entry may import it again; it is then lowered
  afresh, and `LinkedReady` and `PromotedUsable` hold for that.

## What is proved

For any finite non-empty set of packages, any finite set of positive versions, any contents, processes and
requirements (the `...Assumption` formulas of `PackageStore`), and without use of the bounds:

* `TypeCorrect`: `TypeOK`, with interrupts.
* `StoreKept` and `ActiveNeverLost`: `StoreInv`, and so `ActiveSurvives`, with failures and
  crashes. `ActiveSurvives` alone is not inductive: whether `Discard` may remove a tree depends on what the holder of
  the lock did before. `StoreInv` adds that only the holder is inside an operation (`Exclusive`) and what it
  guarantees at each step (`OperationKeeps`): an install holds every selected tree in place or in the copy it moved
  aside and will undo only what is not selected; an uninstall removes a tombstone only when the tree is in place or
  the package no longer selected, and hides a selected tree only where a failure puts it back from. With interrupts
  it does not hold: that is `store_reinstall`.
* `AlwaysClosed` and `AlwaysDistinct`, with interrupts. The invariant `CommitInv` carries
  distinct orders through every private copy of the index and closedness from validation to publication; `Derived`
  lists the five ways in which a step may change a private copy, so that each action has one short case.
* `SelectionImplemented`, with interrupts: every commit is one `Select` or `Drop`. `TraceInv` says how the private
  selection differs from the published one while a walk goes on: each package other than the one asked for is as
  `PackageSelection` lets a selection keep it, or is selected by a version that its own step of the walk has still to
  check (`Pending`), and no step aims below what is published unless its dependent needs that (`Aims`). When the walk is
  over nothing is pending and the version asked for is in the selection (`Chosen`).
* `RollbackRestores`, without interrupts: `FailureRestores`. `RevertInv` relates the disk to what the operation found:
  the trees it would remove were absent before, the displaced one was in its place, all others are as they were
  (`Logged`), where a published tree counts from before it is recorded (`Added`); sidecars are as they were until their
  snapshot is taken. An interrupt between a rename and its record breaks `Logged`, which is `store_reinstall`.

The lemmas on `Max` over finite sets (`MaxOfFinite`, `NextOrderAbove`) carry the order argument.

`AgentSessionsProofs`, for any handles, agent sessions, backends and budgets (the assumptions of `AgentSessions`:
`Absent` and the null values are no handles, sessions or entries). `SessionsInv` is inductive: types; which table has
each handle (`cut`); what each
handle's identity, entry, answers and transcript say of each other (`Handles`); no two open handles are on one session
(`SidsApart`); the properties on releases and defaults; and `Asking`, which ties the stage of an ask to what is in the
transcripts. From it `TablesStayAgreed`, `EphemeralsGo`, `FollowUpsFit`, `HandlesRemember`, `ClaudeCreatesOnce`,
`DefaultStaysFresh`. `SessionsImplementConversations` is the refinement: each step changes the conversation of one
handle (`OneConv`), drops some (`DropConv`), or changes none (`SameConv`); `SidsApart` is what makes a turn written
into one transcript invisible to all other handles.

`PiRpcProofs`, for any backends, processes, sessions and bounds, in three layers. `OwnerInv` says who holds each process
at each command of a fork: `ProcessOwned`, and `InterruptedOwned` with the interrupt of `pi_rpc_interrupts`. `TrafficInv`
says what may be in the pipes of the process a call waits for (its command, the answer to it, the events of its own run,
from which it will gather that run's outcome, and one state reply) and that all other pipes are empty: `NothingLeftOver`
and `AnswersOwnRun`, with that interrupt too. `SessionInv` says which session each process is on while a fork goes
through parent, ready, clone and child, and that a call's processes are on no other backend's session: `SessionsOwn` and
`SessionsNeverShared`, without the interrupt, which is exactly what breaks it.

`ProcessCaptureProofs`: `Teardown` relates why the main thread is tearing down, where it is, and who of the group may
still be alive. It gives `GroupEnds` and `CleanupAlwaysRan` under `raised <= 1`, which the code needs. `CaptureInv`
gives `CapturedWhole` for any number of chunks and exceptions: a chunk that is owed is in the pipe, in the queue or
taken; a reader ends only when its pipe is empty and nothing more can be owed, because no holder is left or, for a file,
the child is gone; its end of file is the last of its messages; and the main thread leaves without a teardown only when
it has taken both ends.

`ReplSessionProofs`, for any import graph, loader order and entries: `SessionInv` (references of promoted declarations
stay inside the session, the registry knows all promoted ids, the program in progress contains what is linked, what is
linked is ready). From it `LinkedStaysReady`, `NominalsOwned`, `LinkedRunsOnce`, `CompletedKept`; with `Valued`, and no
interrupt before the closures are there, `PromotedAlwaysUsable`.

`CompilerProofs`, for closures: `FramesKeep` says that a frame has exactly the variables of its function and those it
captures, as the language binds them, and nothing of any other function; so the innermost frame that has a variable is
the right one (`LexicalVariables`, under `CapturesThrough`), at any depth and for any nesting.

`CompilerProofs`, for re-exports: any modules, in any order, with any finite sets of declarations and exports. A surface
only grows (`PassGrows`), and a module gets at its turn all that its exports forward of the surfaces by then
(`PassVisits`). So a pass that changes nothing leaves surfaces closed under the exports (`Settled`), which have what
every chain leads to: `AllForwarded`, whatever is hidden. Conversely `Sound` says that the surfaces are within all that
is closed under the exports (`DerivesFrom`), which holds while what is hidden cannot grow, that is where only exports of
modules outside the cycle hide: `NothingElse`; the hypothesis is needed (Findings). For the number of passes, `Unhidden`
says that after `n` of them every name that a chain of `n` exports without repetition spells is there; unless an export
feeds itself these names are closed under the exports (`OnceDerives`), so a pass after the last declaration has had its
turn adds no name, and another origin for a name is a conflict: with `NothingHidden`, `CyclesSettle`. `Chains`, `Once`
and the visits of a pass are recursive functions over numbers; the induction (`AllNumbers`) is that every set of numbers
has a least one, which the library proves.

`CompilerProofs`, for the match compiler: any closed and open types, any patterns and values (the assumptions say that
patterns and values are trees over the constructors, not that patterns are well typed), any number of arms.
`ValueAssumption` says that each type has values, and that any head of a type with any values for its fields is the head
of one: a program with a type without values is rejected before (`compute_uninhabited`, `typecheck/program.py:712`).
`FirstArmSelected` is `SelectsFirst`. Its invariant `MatchInv` has a static and a dynamic half. For the graph, `NodeOK`
says of each decision that its matrix is one (`IsMatrix`: rows of patterns over the occurrences, in the order of the
arms), that its edges lead to the decisions of the specialised and the default matrix (`Edged`), and, once decided, that
a test has an edge or default for every head its type has and demands what its targets demand, the fields it provides
taken off (`Decided`). `Ahead`: what an open decision leads to is decided already or was come to after it, so it is
complete once the innermost open one is this decision. For the run, `Walk` says that each occurrence that was reached
has the part of the value at its place, and `Stand` says what the matrix of the present decision knows: a row that fits
the parts is an arm that matches and gives its names, and every arm that matches is a row that fits. `Stand` must speak
of all arms and not of the first alone: a test drops rows. It is kept by one fact on matrices (`NarrowedStands`): to
replace a column by the fields of its head, in the rows that have that head or none, keeps what fits and what is bound
(`RowMoves`); `Specialize` and `Default` are both of that kind. A leaf's first row fits everything, so its arm matches,
and no arm before it does.

`IssuesAreExact` is `IssuesExact`, and goes from the graph to the values. `MatchGraph` adds to the invariant that every
decision but the first is led to by an earlier one, that a default is there only where it is needed, and that the
decisions can be numbered so that each test is above what it leads to (`Above`): the graph has no cycle, whatever
decisions are shared. A test leads to nothing that is still open, so when a decision becomes one, nothing leads to it
from a test and its number may be put on top (`DecideGrounds`). With the numbers a property climbs the graph: what holds
of a decision if it holds of all it leads to holds of all (`NodesBottomUp`), by the least number of one that lacks it.
No column of a matrix is within another (`Separate`), so no occurrence is tested twice on a way, and values
for the columns of a decision that a test leads to, put together under the head tested, are values for the columns of
the test (`LiftsAlong`): this is where `ValueAssumption` is needed. Hence some value comes to each leaf (`LeafReached`), where its arm
is the first that matches it (`LeafChooses`); and each value comes to a leaf or to a failure (`AllEnd`). Of a path of
`Failures`, which is unfolded along the same numbers, `Told` says that no value on the way that agrees with it has an arm
and that some value shows all of it: a default's constraint excludes just the heads with an edge, or is one head of
the type without (`TestTells`, `FailuresTold`). Every constraint of the path is shown in the message (`AllShown`), and
where the path has none the root's names a head that some value has (`RootTells`).

`ExternWindowProofs`, for any threads, interpreters, depths and values. `WindowInv` takes the stacks as the evidence: what
lies below each frame (`Nested`), one run or close of an interpreter at a time (`OneHome`), the depth of a window counts
the open extern calls of its owner and of no other thread (`WindowCounts`), the holders of the recursion limit count the
runs (`HoldersCounted`). From it `CallbacksInWindow` and `LimitIsKept`, with `LooseState` or without. `StateInv` adds that
the active call of a context is one of the open calls below it, that a factory runs once for its key, and that a bag
holds its values in the order of creation until it is closed from the end: `ClosedWhereItEnds`, for `~LooseState`, since
without that it is false (Findings).

`ArtifactCacheProofs`, for any modules, texts, imports, wildcards and lists of modules. `CacheInv` states what the
stores, the session, its image and the compilation going on hold in terms of the files as they are: memory and disk hold
under each identity only what derives from it, a session holds what derives from the present files and its modules are
closed under their imports, an image is what its roots reach by the texts in it. From it `ReusedIsFresh`,
`ImagesAnchorRight`, `DiskHonest` and `BootedCurrent`, for `~SessionReloads`: run `agl_stale` shows `SlotsHonest` violated
otherwise. What a module reaches is the least set closed under imports (`Reachable`), so that reachability needs no
induction; `ReachableWithin` says that it depends only on what is in it, hence that a module's identity, which names the
sources of its closure, fixes the closure.

Type correctness of every detailed module is a theorem: `TypeCorrect`, `SessionsTyped`, `RpcTyped`, `CaptureTyped`,
`SessionTyped`, `CacheTyped`, `MatchTyped`, `ClosuresTyped`, `ExternTyped`, `ExportsTyped`. (`AglTypeOK` is the
conjunction of the last six, for the one run of the modules of AgL.)

Only model-checked: `SurfacesSettle` where something is hidden, beyond what `NothingElse` and `AllForwarded` say of it,
and liveness (`LockReleased`, `CallEnds`, `Returns`), which the provers do not handle.

## Not modelled

* Package store: a half-removed tree that still has its manifest (a removal in no particular order may leave one, and
  scans take it for a whole tree, as they do not compare it with its RECORD), the refresh of the managed standard library (the same renames over several trees), sidecars of
  older versions of agm that lack an order, an editable manifest whose version drifts, command ownership and
  shadows, an error while handling an error, and readers without the lock.
* Sessions: the dispatcher-backed host for embeddings, prompt wording, compaction of a transcript, Codex threads
  nobody learned the id of, handles used after `reset_all`; an interrupt within one table's step: between a backend's
  close and the deletion of its entry, between the service's `open` and what guards it, or before `reset_all` has
  released the default handle.
* Pi RPC: chunks and lines, malformed JSON, stderr, the output limit, an interrupt between the read of an event and
  its processing, the capacity of pipes.
* Subprocess capture: foreground runs, decoding, process numbers that the system reuses, a second exception.
* REPL: parameters and settings, wildcard imports, files that change (`ArtifactCache` has them), a value that landed
  before its initialiser was recorded as complete. `Quit` during an entry also stands for an interrupt outside
  `interp.run`, which ends the REPL.
* Caches: the stores of headers, exports, match sites and lowered modules (the same keys and the same code), the disk
  cache of parsed modules, evictions within a compilation (which take more than 1024 modules), processes at the same
  time (on disk they meet only whole renamed files).
* Match compiler: equal decisions of different matrices made one object, which changes no
  decision; is-tests and let patterns, which are one-row cases; the validators.
* Re-exports: paths written through type aliases, scopes without declarations, a second resolution after the aliases
  of a cycle are known.
* Evaluator: expressions, contracts, casts and effects other than session prompts; parameter defaults; the
  optimisations and the validator of the IR.
* Externs: conversion of values, trace, decimal context, the detached state of direct use, `keep_in_debug`, a second
  host session.
* The components without a module in the inventory, for the reasons in `PROJECT.json`. The bulk of the source is the
  front end of AgL (lexer, parser, scope, types: about 45 000 lines), command-line and configuration code, formatting
  and wrappers of one external command each: translators of their input without state that lives between two steps,
  which a model abstracting data has little to say about. The models therefore cover a small share of the lines,
  whichever further operations of the parts above are added; they cover those where order, failure and sharing matter.

## Plan

Done: the store, the sessions, Pi RPC, subprocess capture; the REPL, the caches, the match compiler, closures, externs,
re-exports; and the proofs listed above. Next:

1. The managed std refresh, and readers without the lock, in `PackageStore`.
2. Interrupts between the read of an event and its processing in `PiRpc`.
3. Evictions within a compilation, and processes at the same time, in `ArtifactCache`.
4. Aliases in `Reexports`; another small kernel of the front end as operators: unification.

## Running

    tlc -workers 2 -config PackageStore.cfg MCPackageStore.tla      # and the other pairs listed in PROJECT.json
    tlapm AgentSessionsProofs.tla       # and PackageStoreProofs (some minutes), PiRpcProofs, ProcessCaptureProofs,
                                        # ReplSessionProofs, CompilerProofs, ExternWindowProofs, ArtifactCacheProofs
