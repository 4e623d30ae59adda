--------------------------- MODULE ProcessCapture ---------------------------
(* Captured subprocesses (core/process.py): the main thread spawns a child,
   reader threads move its output into a queue, a writer thread feeds its stdin,
   and an idle timeout or an exception tears the process group down.

   The child and one helper it may fork are external.  The helper stays in the
   child's group or leaves it, and holds any of the child's pipes.  A chunk is
   one read; which bytes it has does not matter, only how many were written. *)
EXTENDS Naturals, Sequences

CONSTANTS Modes,          \* the ways AGM captures a process
          MaxChunks,      \* bound: chunks written to one stream
          MaxExceptions   \* bound: interrupts and failing callbacks of one call

Stream == {"stdout", "stderr"}

\* How a call captures: in AGM's process group or its own, with an idle timeout, a
\* cleanup command, text for stdin, a file instead of a pipe for stdout.
Mode == [isolate : BOOLEAN, idle : BOOLEAN, cleanup : BOOLEAN, stdin : BOOLEAN, file : BOOLEAN]

ASSUME ModesAssumption == Modes \subseteq Mode
ASSUME BoundAssumption == MaxChunks \in Nat /\ MaxExceptions \in Nat

VARIABLES mode,       \* the arguments of the call
          main,       \* the main thread: where it is, why it stops the child
          reader,     \* the reader thread of each stream
          writer,     \* the thread that writes stdin
          queue,      \* stream_queue
          got,        \* chunks the main thread took from each stream
          closed,     \* completed_streams
          cleaned,    \* whether the cleanup command ran to its end or could not start
          child, helper,
          unread,     \* chunks in each pipe, or in the file
          owed,       \* chunks written to each stream: to a file, while the child ran
          raised      \* exceptions so far

pipes   == <<unread, owed>>
threads == <<reader, writer, queue>>
vars == <<mode, main, threads, got, closed, cleaned, child, helper, pipes, raised>>

Pcs == {"spawn", "start", "drain", "wait", "cleanup", "term", "grace", "stragglers",
        "flush", "join", "done"}

\* why: what the teardown is for; failing: it is itself leaving with an exception.
Main == [pc : Pcs, why : {"none", "timeout", "raise", "start"}, failing : BOOLEAN,
         pending : BOOLEAN, timedOut : BOOLEAN]

Child  == [st : {"none", "run", "exited", "reaped"}, rc : {"none", "zero", "nonzero"}, open : BOOLEAN]
Helper == [st : {"none", "run", "dead"}, group : BOOLEAN, open : SUBSET Stream, stdin : BOOLEAN]

Init == /\ mode \in Modes
        /\ main = [pc |-> "spawn", why |-> "none", failing |-> FALSE, pending |-> FALSE,
                   timedOut |-> FALSE]
        /\ reader = [s \in Stream |-> "off"] /\ writer = "off" /\ queue = <<>>
        /\ got = [s \in Stream |-> 0] /\ closed = {} /\ cleaned = FALSE
        /\ child = [st |-> "none", rc |-> "none", open |-> FALSE]
        /\ helper = [st |-> "none", group |-> FALSE, open |-> {}, stdin |-> FALSE]
        /\ unread = [s \in Stream |-> 0] /\ owed = [s \in Stream |-> 0]
        /\ raised = 0

-----------------------------------------------------------------------------
(* The child and its helper: external. *)

World == <<mode, main, threads, got, closed, cleaned, raised>>

InFile(s) == mode.file /\ s = "stdout"
Held(s) == child.open \/ (helper.st = "run" /\ s \in helper.open)
StdinHeld == child.st = "run" \/ (helper.st = "run" /\ helper.stdin)

Queued(s) == Len(SelectSeq(queue, LAMBDA m : m = <<s, "chunk">>))

\* A pipe holds one chunk here; a file holds any number.
Writes(s) ==
    /\ Held(s) /\ unread[s] + Queued(s) + got[s] < MaxChunks
    /\ InFile(s) \/ unread[s] = 0
    /\ unread' = [unread EXCEPT ![s] = @ + 1]
    /\ owed' = IF InFile(s) /\ child.st # "run" THEN owed ELSE [owed EXCEPT ![s] = @ + 1]
    /\ UNCHANGED <<child, helper, World>>

Forks ==
    /\ child.st = "run" /\ helper.st = "none"
    /\ helper' \in [st : {"run"}, group : IF mode.isolate THEN BOOLEAN ELSE {FALSE},
                    open : IF child.open THEN {{}, {"stderr"}, Stream} ELSE {{}},
                    stdin : IF mode.stdin THEN BOOLEAN ELSE {FALSE}]
    /\ UNCHANGED <<child, pipes, World>>

ClosesOutput == child.open /\ child' = [child EXCEPT !.open = FALSE] /\ UNCHANGED <<helper, pipes, World>>

ChildExits ==
    /\ child.st = "run"
    /\ \E rc \in {"zero", "nonzero"} : child' = [st |-> "exited", rc |-> rc, open |-> FALSE]
    /\ UNCHANGED <<helper, pipes, World>>

HelperExits ==
    helper.st = "run" /\ helper' = [helper EXCEPT !.st = "dead"] /\ UNCHANGED <<child, pipes, World>>

ReadsStdin ==
    /\ writer = "run" /\ StdinHeld /\ writer' = "done"
    /\ UNCHANGED <<child, helper, pipes, mode, main, reader, queue, got, closed, cleaned, raised>>

-----------------------------------------------------------------------------
(* The reader and writer threads. *)

Still == <<mode, main, writer, got, closed, cleaned, helper, owed, raised>>

Put(s, what) == queue' = Append(queue, <<s, what>>)
Over(s) == Put(s, "eof") /\ reader' = [reader EXCEPT ![s] = "done"]

ReadPipe(s) ==
    /\ reader[s] = "run"
    /\ \/ unread[s] > 0 /\ Put(s, "chunk") /\ unread' = [unread EXCEPT ![s] = @ - 1] /\ UNCHANGED reader
       \/ unread[s] = 0 /\ ~Held(s) /\ Over(s) /\ UNCHANGED unread
    /\ UNCHANGED <<child, Still>>

\* A file is polled: first whether the child exited, which reaps it, then for data.
PollFile(s) ==
    /\ reader[s] = "poll"
    /\ reader' = [reader EXCEPT ![s] = IF child.st = "run" THEN "live" ELSE "last"]
    /\ child' = IF child.st = "exited" THEN [child EXCEPT !.st = "reaped"] ELSE child
    /\ UNCHANGED <<queue, unread, Still>>

ReadFile(s) ==
    /\ reader[s] \in {"live", "last"}
    /\ \/ /\ unread[s] > 0 /\ Put(s, "chunk")
          /\ unread' = [unread EXCEPT ![s] = @ - 1] /\ reader' = [reader EXCEPT ![s] = "poll"]
       \/ unread[s] = 0 /\ reader[s] = "last" /\ Over(s) /\ UNCHANGED unread
       \/ /\ unread[s] = 0 /\ reader[s] = "live"
          /\ reader' = [reader EXCEPT ![s] = "poll"] /\ UNCHANGED <<queue, unread>>
    /\ UNCHANGED <<child, Still>>

BrokenPipe ==
    /\ writer = "run" /\ ~StdinHeld /\ writer' = "done"
    /\ UNCHANGED <<child, helper, pipes, mode, main, reader, queue, got, closed, cleaned, raised>>

Reader(s) == ReadPipe(s) \/ PollFile(s) \/ ReadFile(s)

-----------------------------------------------------------------------------
(* The main thread: start, drain, wait. *)

Go(pc) == main' = [main EXCEPT !.pc = pc]
Stop(why) == main' = [main EXCEPT !.pc = "cleanup", !.why = why, !.failing = FALSE]

\* The spawn, with interrupts deferred until the threads are started.
Spawn ==
    /\ main.pc = "spawn"
    /\ \/ Go("start") /\ child' = [child EXCEPT !.st = "run", !.open = TRUE]
       \/ Go("done") /\ UNCHANGED child
    /\ UNCHANGED <<mode, threads, got, closed, cleaned, helper, pipes, raised>>

StartThreads ==
    /\ main.pc = "start"
    /\ reader' = [s \in Stream |-> IF InFile(s) THEN "poll" ELSE "run"]
    /\ writer' = IF mode.stdin THEN "run" ELSE "off"
    /\ IF main.pending THEN Stop("raise") ELSE Go("drain")
    /\ UNCHANGED <<mode, queue, got, closed, cleaned, child, helper, pipes, raised>>

\* A thread cannot be started, after the writer, the reader of stdout or neither.
StartFails ==
    /\ main.pc = "start" /\ Stop("start")
    /\ \/ UNCHANGED <<reader, writer>>
       \/ /\ writer' = IF mode.stdin THEN "run" ELSE "off"
          /\ \/ UNCHANGED reader
             \/ reader' = [reader EXCEPT !["stdout"] = IF mode.file THEN "poll" ELSE "run"]
    /\ UNCHANGED <<mode, queue, got, closed, cleaned, child, helper, pipes, raised>>

Take ==
    /\ main.pc = "drain" /\ queue # <<>> /\ queue' = Tail(queue)
    /\ LET s == Head(queue)[1] IN
       \/ /\ Head(queue)[2] = "chunk" /\ got' = [got EXCEPT ![s] = @ + 1] /\ UNCHANGED closed
          /\ \/ UNCHANGED <<main, raised>>
             \/ raised < MaxExceptions /\ raised' = raised + 1 /\ Stop("raise")
       \/ /\ Head(queue)[2] = "eof" /\ closed' = closed \cup {s}
          /\ IF closed' = Stream THEN Go("wait") ELSE UNCHANGED main
          /\ UNCHANGED <<got, raised>>
    /\ UNCHANGED <<mode, reader, writer, cleaned, child, helper, pipes>>

\* Mutant of IdleTimeout: the cleanup command is left to the exception path.
IdleTimeoutKilling ==
    /\ mode.idle
    /\ \/ main.pc = "drain" /\ queue = <<>>
       \/ main.pc = "wait" /\ child.st = "run"
    /\ main' = [main EXCEPT !.pc = "term", !.why = "timeout", !.timedOut = TRUE]
    /\ UNCHANGED <<mode, threads, got, closed, cleaned, child, helper, pipes, raised>>

\* Mutant of IdleTimeout: only silence is timed, not a child that closed its output.
IdleTimeoutDraining ==
    /\ mode.idle /\ main.pc = "drain" /\ queue = <<>>
    /\ main' = [main EXCEPT !.pc = "cleanup", !.why = "timeout", !.timedOut = TRUE]
    /\ UNCHANGED <<mode, threads, got, closed, cleaned, child, helper, pipes, raised>>

\* No chunk, or no exit after the last one, for the idle time.  timed_out is set
\* once stop_process returned; nothing reads it before.
IdleTimeout ==
    /\ mode.idle
    /\ \/ main.pc = "drain" /\ queue = <<>>
       \/ main.pc = "wait" /\ child.st = "run"
    /\ main' = [main EXCEPT !.pc = "cleanup", !.why = "timeout", !.timedOut = TRUE]
    /\ UNCHANGED <<mode, threads, got, closed, cleaned, child, helper, pipes, raised>>

Reaped == [child EXCEPT !.st = "reaped"]

Wait ==
    /\ main.pc = "wait" /\ child.st # "run"
    /\ child' = Reaped /\ Go("flush")
    /\ UNCHANGED <<mode, threads, got, closed, cleaned, helper, pipes, raised>>

-----------------------------------------------------------------------------
(* stop_process. *)

\* The cleanup command may be missing, which raises once the process is killed.
Cleanup ==
    /\ main.pc = "cleanup"
    /\ cleaned' = mode.cleanup
    /\ \/ Go("term")
       \/ mode.cleanup /\ main' = [main EXCEPT !.pc = "term", !.failing = TRUE]
    /\ UNCHANGED <<mode, threads, got, closed, child, helper, pipes, raised>>

\* An exception that leaves a teardown for a timeout starts another one.
Stopped == CASE main.why = "timeout" /\ main.failing -> Stop("raise")
             [] main.why = "timeout" /\ ~main.failing -> Go("flush")
             [] OTHER -> Go("join")

InGroup == helper.st = "run" /\ helper.group
Killed(h) == IF InGroup THEN [h EXCEPT !.st = "dead"] ELSE h

\* SIGTERM, which a process may heed, ignore, or answer with any exit status.
Term ==
    /\ main.pc = "term"
    /\ IF mode.isolate
       THEN IF child.st = "reaped" /\ ~InGroup THEN Stopped
            ELSE IF child.st = "run" THEN Go("grace") ELSE Go("stragglers")
       ELSE IF child.st = "run" THEN Go("grace") ELSE Stopped
    /\ child' = IF child.st = "run" THEN child ELSE Reaped
    /\ UNCHANGED <<mode, threads, got, closed, cleaned, helper, pipes, raised>>

\* Mutant of Exited: a child that exited is taken for the whole group.
ExitedAlone ==
    /\ main.pc = "grace" /\ child.st # "run"
    /\ child' = Reaped /\ Stopped
    /\ UNCHANGED <<mode, threads, got, closed, cleaned, helper, pipes, raised>>

Exited ==
    /\ main.pc = "grace" /\ child.st # "run"
    /\ child' = Reaped
    /\ IF mode.isolate THEN Go("stragglers") ELSE Stopped
    /\ UNCHANGED <<mode, threads, got, closed, cleaned, helper, pipes, raised>>

\* The grace is over: SIGKILL to the group, or to the child alone.
Kill ==
    /\ main.pc = "grace" /\ child.st = "run"
    /\ child' = [st |-> "reaped", rc |-> "nonzero", open |-> FALSE]
    /\ helper' = IF mode.isolate THEN Killed(helper) ELSE helper
    /\ Stopped
    /\ UNCHANGED <<mode, threads, got, closed, cleaned, pipes, raised>>

Stragglers ==
    /\ main.pc = "stragglers"
    /\ helper' = Killed(helper) /\ Stopped
    /\ UNCHANGED <<mode, threads, got, closed, cleaned, child, pipes, raised>>

\* The child is reaped; what the decoders kept goes to the callbacks, which may fail.
Flush ==
    /\ main.pc = "flush"
    /\ \/ Go("join") /\ UNCHANGED raised
       \/ raised < MaxExceptions /\ raised' = raised + 1 /\ Stop("raise")
    /\ UNCHANGED <<mode, threads, got, closed, cleaned, child, helper, pipes>>

Join ==
    /\ main.pc = "join" /\ writer # "run" /\ \A s \in Stream : reader[s] \in {"off", "done"}
    /\ Go("done")
    /\ UNCHANGED <<mode, threads, got, closed, cleaned, child, helper, pipes, raised>>

-----------------------------------------------------------------------------
(* Ctrl-C, or SIGTERM and SIGHUP where they raise.  Deferred while a failed start is
   torn down; in the teardown for a timeout it starts another one; in the one for an
   exception it cuts that short. *)

Tearing == {"cleanup", "term", "grace", "stragglers"}

Interrupt ==
    /\ raised < MaxExceptions /\ raised' = raised + 1
    /\ \/ main.pc = "join" /\ main' = [main EXCEPT !.pc = "done", !.failing = TRUE]
       \/ /\ main.pc \in {"spawn", "start"} \/ (main.pc \in Tearing /\ main.why = "start")
          /\ main' = [main EXCEPT !.pending = TRUE]
       \/ main.pc \in {"drain", "wait", "flush"} /\ Stop("raise")
       \/ /\ main.pc = "cleanup" /\ main.why # "start"
          /\ main' = [main EXCEPT !.pc = "term", !.failing = TRUE]
       \/ main.pc \in Tearing \ {"cleanup"} /\ main.why = "timeout" /\ Stop("raise")
       \/ main.pc \in Tearing \ {"cleanup"} /\ main.why = "raise" /\ Go("join")
    /\ UNCHANGED <<mode, threads, got, closed, cleaned, child, helper, pipes>>

-----------------------------------------------------------------------------
Advance == \/ Spawn \/ StartThreads \/ StartFails \/ Take \/ IdleTimeout \/ Wait
           \/ Cleanup \/ Term \/ Exited \/ Kill \/ Stragglers \/ Flush \/ Join

Next == \/ Advance \/ Interrupt \/ BrokenPipe
        \/ \E s \in Stream : Reader(s) \/ Writes(s)
        \/ Forks \/ ClosesOutput \/ ChildExits \/ HelperExits \/ ReadsStdin

Spec == Init /\ [][Next]_vars
FairSpec == Spec /\ WF_vars(Advance) /\ WF_vars(BrokenPipe) /\ \A s \in Stream : WF_vars(Reader(s))

-----------------------------------------------------------------------------
\* Mutant of Truncated: one complete stream vouches for the other.
TruncatedBoth(s) == main.timedOut /\ closed = {}

\* The flag on a captured stream.
Truncated(s) == main.timedOut /\ s \notin closed

Returned == main.pc = "done" /\ main.why \in {"none", "timeout"} /\ ~main.failing /\ child.st # "none"
TornDown == main.pc = "done" /\ main.why # "none"

\* The type invariant, a theorem of ProcessCaptureProofs.
TypeOK ==
    /\ mode \in Modes /\ main \in Main /\ child \in Child /\ helper \in Helper
    /\ reader \in [Stream -> {"off", "run", "poll", "live", "last", "done"}]
    /\ writer \in {"off", "run", "done"} /\ cleaned \in BOOLEAN /\ closed \subseteq Stream
    /\ queue \in Seq(Stream \X {"chunk", "eof"})
    /\ unread \in [Stream -> Nat] /\ owed \in [Stream -> Nat] /\ got \in [Stream -> Nat]
    /\ raised \in 0..MaxExceptions

\* A captured stream that is not flagged as truncated is whole: everything written
\* to its pipe, or to its file until the child exited, was captured.
Whole == Returned => \A s \in Stream : Truncated(s) \/ got[s] >= owed[s]

\* A call torn down, by a timeout, a failing callback or one interrupt, leaves no
\* process of the child's group behind, however the child answers signals.
NoOrphan == TornDown => child.st = "reaped" /\ ~InGroup

\* A cleanup command, for what AGM owns and the group does not contain, has run
\* to its end whenever a call was torn down.
CleanupRan == TornDown /\ mode.cleanup => cleaned

\* With an idle timeout the call ends once its child goes quiet, whatever it does
\* with its pipes and signals, unless a helper that left its group, or outlived it
\* with its stdin, holds a pipe that a thread is on.
Escaped == helper.st = "run" /\ ((~helper.group /\ helper.open # {}) \/ helper.stdin)
Returns == mode.idle /\ main.pc = "drain" ~> main.pc = "done" \/ (main.pc = "join" /\ Escaped)

\* What ProcessCaptureResult's docstring says: timed_out is set when "the idle
\* timeout fired; returncode then reflects the kill exit code (nonzero)".
TimedOutNonzero == Returned /\ main.timedOut => child.rc = "nonzero"
=============================================================================
