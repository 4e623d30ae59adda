------------------------------- MODULE PiRpc -------------------------------
(* Pi RPC sessions (agent/session/rpc.py): each backend owns one Pi process and
   talks to it in JSON lines.  A command is answered by a response with its id;
   a prompt's run also sends events until it settles.  fork hands a backend's
   process, moved to a clone of the session, to a new backend and puts the old
   one on a process of its own.

   One thread of AGM calls the backends; the Pi processes run beside it.  Pi is
   external: a run is reported as streaming from the acceptance of its prompt
   until agent_settled, and responses and events come in the order they happen. *)
EXTENDS Naturals, Sequences, FiniteSets

CONSTANTS Backend, Proc, Sid, NoBackend, NoProc, NoSid,
          MaxOps,         \* bound: operations on backends
          MaxAttempts,    \* bound: automatic retries of Pi, plus 1
          MaxMessages     \* bound: assistant messages in the first attempt; each
                          \* retry may have one fewer

ASSUME BoundAssumption == MaxOps \in Nat /\ MaxAttempts \in Nat \ {0} /\ MaxMessages \in Nat
ASSUME NullAssumption == NoBackend \notin Backend /\ NoProc \notin Proc /\ NoSid \notin Sid

VARIABLES procs,    \* the Pi processes and the pipes to and from them
          child,    \* PiRpcSessionBackend._child
          own,      \* the session each open backend was given; NoSid: no such backend
          op,       \* the call AGM is in
          count,    \* operations so far
          answer,   \* what the last ask returned
          truth     \* what the run of that ask produced

vars == <<procs, child, own, op, count, answer, truth>>

Piece  == (1..MaxAttempts) \X (1..MaxMessages)
Answer == [n : Nat, failed : BOOLEAN, text : Seq(Piece)]
NoAnswer == [n |-> 0, failed |-> FALSE, text |-> <<>>]

\* What AGM asks: "parent", "ready" and "child" are the get_state commands of
\* fork, "state" the one that follows a prompt, "query" any other command.
Asks     == {"prompt", "new_session", "query", "parent", "ready", "clone", "child"}
Commands == Asks \cup {"state", "cancel"}
Request  == [n : Nat, cmd : Commands]

Quiet == [on |-> FALSE, n |-> 0, attempt |-> 1, message |-> 0, open |-> FALSE,
          dialog |-> "none", failed |-> FALSE]
Gone  == [status |-> "none", session |-> NoSid, inbox |-> <<>>, out |-> <<>>, run |-> Quiet]
Started(s) == [Gone EXCEPT !.status = "live", !.session = s]

\* stage: the command the call is waiting for; c: the process it was sent to.
Idle == [stage |-> "idle", pc |-> "write", b |-> NoBackend, c |-> NoProc, n |-> 0,
         got |-> FALSE, cancelled |-> FALSE, id |-> NoSid, streaming |-> "unknown",
         settled |-> FALSE, failed |-> FALSE, text |-> <<>>, parent |-> NoSid, spare |-> NoProc]

IsIdle    == op.stage = "idle"
IsLive(c) == procs[c].status = "live"
FreeProc  == {c \in Proc : procs[c].status = "none"}
FreeSid   == {s \in Sid : /\ s # op.parent
                          /\ \A c \in Proc : procs[c].session # s
                          /\ \A b \in Backend : own[b] # s}

\* A new process and a new session: which of the free names does not matter.
NewProc == CHOOSE c \in FreeProc : TRUE
NewSid  == CHOOSE s \in FreeSid : TRUE

Init == /\ procs = [c \in Proc |-> Gone]
        /\ child = [b \in Backend |-> NoProc]
        /\ own = [b \in Backend |-> NoSid]
        /\ op = Idle
        /\ count = 0 /\ answer = NoAnswer /\ truth = NoAnswer

-----------------------------------------------------------------------------
(* Pi: external, as rpc.py and its tests use it. *)

Emit(c, p, e) == procs' = [procs EXCEPT ![c] = [p EXCEPT !.out = Append(@, e)]]

Response(r, ok, cancelled, p) ==
    [type |-> "response", r |-> r, ok |-> ok, cancelled |-> cancelled,
     session |-> p.session, streaming |-> p.run.on]
Event(type, run) == [type |-> type, piece |-> <<run.attempt, run.message>>]

\* Replies to one command.  Any command may be refused.  A prompt may be handled
\* without a run or start one; a session change may be cancelled, and a clone may
\* fail to leave the session it was to copy.
PiReply(c) ==
    LET p == procs[c]
        r == Head(p.inbox)
        q == [p EXCEPT !.inbox = Tail(@)]
        begun == [q EXCEPT !.run = [Quiet EXCEPT !.on = TRUE, !.n = r.n]]
        Accept(new) == Emit(c, new, Response(r, TRUE, FALSE, new))
        changes == r.cmd \in {"new_session", "clone"}
    IN  /\ IsLive(c) /\ p.inbox # <<>>
        /\ \/ r.cmd # "cancel" /\ Emit(c, q, Response(r, FALSE, FALSE, q)) /\ UNCHANGED truth
           \/ r.cmd # "cancel" /\ r.cmd # "new_session" /\ Accept(q)
              /\ truth' = IF r.cmd = "prompt" THEN [NoAnswer EXCEPT !.n = r.n] ELSE truth
           \/ r.cmd = "prompt" /\ Accept(begun) /\ UNCHANGED truth
           \/ changes /\ Emit(c, q, Response(r, TRUE, TRUE, q)) /\ UNCHANGED truth
           \/ changes /\ FreeSid # {} /\ Accept([q EXCEPT !.session = NewSid]) /\ UNCHANGED truth
           \/ /\ r.cmd = "cancel"
              /\ procs' = [procs EXCEPT ![c] = [q EXCEPT !.run.dialog = "closed"]]
              /\ UNCHANGED truth
        /\ UNCHANGED <<child, own, op, count, answer>>

\* One event of a run: a text delta, the end of a message, a dialog that blocks
\* the run, a terminal failure, a retry that starts over, or the end.
PiRun(c) ==
    LET p == procs[c]
        run == p.run
        Step(type, new) == Emit(c, [p EXCEPT !.run = new], Event(type, new)) /\ UNCHANGED truth
    IN  /\ IsLive(c) /\ run.on /\ run.dialog # "open"
        /\ \/ /\ ~run.failed /\ ~run.open /\ run.message + run.attempt <= MaxMessages
              /\ Step("delta", [run EXCEPT !.message = @ + 1, !.open = TRUE])
           \/ run.open /\ Step("message", [run EXCEPT !.open = FALSE])
           \/ run.open /\ run.dialog = "none" /\ Step("dialog", [run EXCEPT !.dialog = "open"])
           \/ ~run.failed /\ Step("failure", [run EXCEPT !.failed = TRUE, !.open = FALSE])
           \/ /\ run.failed /\ run.attempt < MaxAttempts
              /\ Step("retry", [Quiet EXCEPT !.on = TRUE, !.n = run.n, !.attempt = run.attempt + 1])
           \/ /\ ~run.open
              /\ Emit(c, [p EXCEPT !.run = Quiet], Event("settled", run))
              /\ truth' = [n |-> run.n, failed |-> run.failed,
                           text |-> IF run.failed \/ run.message = 0 THEN <<>>
                                    ELSE <<<<run.attempt, run.message>>>>]
        /\ UNCHANGED <<child, own, op, count, answer>>

PiExits(c) ==
    /\ IsLive(c)
    /\ procs' = [procs EXCEPT ![c].status = "exited", ![c].inbox = <<>>]
    /\ UNCHANGED <<child, own, op, count, answer, truth>>

-----------------------------------------------------------------------------
(* Opening, closing, and the start of an operation. *)

Without(ps, cs) == [c \in Proc |-> IF c \in cs THEN Gone ELSE ps[c]]

Open(b) ==
    /\ IsIdle /\ own[b] = NoSid /\ FreeProc # {} /\ FreeSid # {}
    /\ procs' = [procs EXCEPT ![NewProc] = Started(NewSid)]
    /\ child' = [child EXCEPT ![b] = NewProc]
    /\ own' = [own EXCEPT ![b] = NewSid]
    /\ UNCHANGED <<op, count, answer, truth>>

\* close, after which nothing uses the backend.
Close(b) ==
    /\ IsIdle /\ own[b] # NoSid
    /\ procs' = Without(procs, {child[b]})
    /\ child' = [child EXCEPT ![b] = NoProc]
    /\ own' = [own EXCEPT ![b] = NoSid]
    /\ UNCHANGED <<op, count, answer, truth>>

\* _live_child: a process found dead is closed and the call raises.
Begin(b, stage) ==
    /\ IsIdle /\ count < MaxOps /\ child[b] # NoProc
    \* bound: a fork needs a free process and a free backend
    /\ stage = "parent" => FreeProc # {} /\ \E free \in Backend : own[free] = NoSid
    /\ IF IsLive(child[b])
       THEN /\ op' = [Idle EXCEPT !.stage = stage, !.b = b, !.c = child[b], !.n = count + 1]
            /\ UNCHANGED <<procs, child>>
       ELSE /\ procs' = Without(procs, {child[b]})
            /\ child' = [child EXCEPT ![b] = NoProc]
            /\ UNCHANGED op
    /\ count' = count + 1
    /\ answer' = NoAnswer /\ truth' = NoAnswer
    /\ UNCHANGED own

-----------------------------------------------------------------------------
(* _send: one command, and the events up to its answer. *)

MainRequest  == [n |-> op.n, cmd |-> op.stage]
StateRequest == [n |-> op.n, cmd |-> "state"]

\* Mutant of Raise: a fork that fails before the clone leaves its replacement.
RaiseLeaving(ps, closed) ==
    /\ procs' = Without(ps, closed \cup IF op.stage = "child" THEN {child[op.b]} ELSE {})
    /\ child' = [child EXCEPT ![op.b] = IF op.stage = "child" THEN op.spare
                                        ELSE IF @ \in closed THEN NoProc ELSE @]
    /\ op' = Idle
    /\ UNCHANGED <<own, count, answer, truth>>

\* Mutant of Raise: a fork always closes its replacement, as if never cloned.
RaiseUncloned(ps, closed) ==
    /\ procs' = Without(ps, closed \cup {op.spare})
    /\ child' = [child EXCEPT ![op.b] = IF @ \in closed THEN NoProc ELSE @]
    /\ op' = Idle
    /\ UNCHANGED <<own, count, answer, truth>>

\* How a call that raises leaves the processes ps: those it closed are terminated.
\* A fork also closes its replacement or, once the source is on the clone, keeps
\* the replacement and terminates the source.
Raise(ps, closed) ==
    /\ procs' = Without(ps, closed \cup CASE op.stage \in {"ready", "clone"} -> {op.spare}
                                          [] op.stage = "child" -> {child[op.b]}
                                          [] OTHER -> {})
    /\ child' = [child EXCEPT ![op.b] = IF op.stage = "child" THEN op.spare
                                        ELSE IF @ \in closed THEN NoProc ELSE @]
    /\ op' = Idle
    /\ UNCHANGED <<own, count, answer, truth>>

\* The write of request r from state ps, and the state o of the call after it.
WriteTo(ps, r, o) ==
    IF ps[op.c].status = "live"
    THEN /\ procs' = [ps EXCEPT ![op.c].inbox = Append(@, r)]
         /\ op' = o
         /\ UNCHANGED <<child, own, count, answer, truth>>
    ELSE Raise(ps, {op.c})

Write == /\ ~IsIdle /\ op.pc = "write"
         /\ WriteTo(procs, MainRequest, [op EXCEPT !.pc = "wait"])

\* Mutant of Completed: the run need not have settled.
CompletedUnsettled(o) == o.got /\ (o.stage = "prompt" => o.streaming # "unknown")

\* The condition on which the loop over events is left.
Completed(o) == /\ o.got
                /\ o.stage = "prompt" => o.streaming = "no" \/ (o.streaming = "yes" /\ o.settled)

Proceed(o) == IF Completed(o) THEN [o EXCEPT !.pc = "deliver"] ELSE o

Taken == [procs EXCEPT ![op.c].out = Tail(@)]

Keep(o) == procs' = Taken /\ op' = Proceed(o) /\ UNCHANGED <<child, own, count, answer, truth>>

\* A response: to the command, to the state request of a prompt, or unexpected.
ReceiveResponse(e) ==
    LET main  == e.r = MainRequest
        state == e.r = StateRequest /\ op.stage = "prompt" /\ op.got
        o == [op EXCEPT !.got = TRUE, !.cancelled = e.cancelled, !.id = e.session]
    IN  \/ main /\ ~e.ok /\ Raise(Taken, {})
        \/ main /\ e.ok /\ op.stage # "prompt" /\ Keep(o)
        \/ main /\ e.ok /\ op.stage = "prompt" /\ WriteTo(Taken, StateRequest, o)
        \/ state /\ e.ok /\ Keep([op EXCEPT !.streaming = IF e.streaming THEN "yes" ELSE "no"])
        \/ ~main /\ (state => ~e.ok) /\ Raise(Taken, {op.c})

\* Mutant of Gather: a retry keeps the text of the attempt it discards.
GatherKeeping(e) ==
    CASE e.type = "delta"   -> [op EXCEPT !.text = Append(@, e.piece)]
      [] e.type = "message" -> [op EXCEPT !.text = <<e.piece>>]
      [] e.type = "retry"   -> [op EXCEPT !.failed = FALSE]
      [] e.type = "failure" -> [op EXCEPT !.failed = TRUE]
      [] e.type = "settled" -> [op EXCEPT !.settled = TRUE]
      [] OTHER -> op

\* What an event of the run does to the text and the failure gathered so far.
Gather(e) ==
    CASE e.type = "delta"   -> [op EXCEPT !.text = Append(@, e.piece)]
      [] e.type = "message" -> [op EXCEPT !.text = <<e.piece>>]
      [] e.type = "retry"   -> [op EXCEPT !.text = <<>>, !.failed = FALSE]
      [] e.type = "failure" -> [op EXCEPT !.failed = TRUE]
      [] e.type = "settled" -> [op EXCEPT !.settled = TRUE]
      [] OTHER -> op

\* Mutant of ReceiveEvent: no dialog is cancelled.
ReceiveEventOnly(e) == Keep(IF op.stage = "prompt" THEN Gather(e) ELSE op)

ReceiveEvent(e) ==
    LET o == IF op.stage = "prompt" THEN Gather(e) ELSE op IN
    \/ e.type = "dialog" /\ WriteTo(Taken, [n |-> op.n, cmd |-> "cancel"], Proceed(o))
    \/ e.type # "dialog" /\ Keep(o)

Receive ==
    /\ op.pc = "wait" /\ procs[op.c].out # <<>>
    /\ LET e == Head(procs[op.c].out) IN
          \/ e.type = "response" /\ ReceiveResponse(e)
          \/ e.type # "response" /\ ReceiveEvent(e)

\* The idle timeout, the end of Pi's output, and an interrupt of the wait or of
\* the write: each closes the backend that was waiting.
Eof       == op.pc = "wait" /\ procs[op.c].out = <<>> /\ ~IsLive(op.c) /\ Raise(procs, {op.c})
Timeout   == op.pc = "wait" /\ procs[op.c].out = <<>> /\ IsLive(op.c) /\ Raise(procs, {op.c})
Interrupt == ~IsIdle /\ op.pc # "deliver" /\ Raise(procs, {op.c})

-----------------------------------------------------------------------------
(* The caller of _send takes the answer. *)

Done == op' = Idle /\ UNCHANGED count

\* The next command of a fork, to process c.
Then(stage, c) ==
    op' = [Idle EXCEPT !.stage = stage, !.b = op.b, !.c = c, !.n = op.n,
                       !.parent = op.parent, !.spare = op.spare]

DeliverAsk ==
    /\ op.stage = "prompt"
    /\ answer' = [n |-> op.n, failed |-> op.failed, text |-> IF op.failed THEN <<>> ELSE op.text]
    /\ Done /\ UNCHANGED <<procs, child, own, truth>>

\* compact, set_name, stats, and reset: _require_not_cancelled.
DeliverQuery == op.stage = "query" /\ Done /\ UNCHANGED <<procs, child, own, answer, truth>>

DeliverReset ==
    /\ op.stage = "new_session"
    /\ own' = IF op.cancelled THEN own ELSE [own EXCEPT ![op.b] = op.id]
    /\ Done /\ UNCHANGED <<procs, child, answer, truth>>

\* fork learns the session it copies and starts a second process on it.  The
\* spawn may fail; the process may turn out to be on another session.
DeliverParent ==
    /\ op.stage = "parent"
    /\ \/ ~IsLive(op.c) /\ Raise(procs, {op.c})
       \/ IsLive(op.c) /\ Raise(procs, {})
       \/ /\ IsLive(op.c)
          /\ \/ procs' = [procs EXCEPT ![NewProc] = Started(op.id)]
             \/ FreeSid # {} /\ procs' = [procs EXCEPT ![NewProc] = Started(NewSid)]
          /\ op' = [Idle EXCEPT !.stage = "ready", !.b = op.b, !.c = NewProc, !.n = op.n,
                                !.parent = op.id, !.spare = NewProc]
          /\ UNCHANGED <<child, own, count, answer, truth>>

DeliverReady ==
    /\ op.stage = "ready"
    /\ \/ op.id # op.parent /\ Raise(procs, {op.spare})
       \/ /\ op.id = op.parent /\ Then("clone", child[op.b])
          /\ UNCHANGED <<procs, child, own, count, answer, truth>>

DeliverClone ==
    /\ op.stage = "clone"
    /\ \/ op.cancelled /\ Raise(procs, {})
       \/ /\ ~op.cancelled /\ Then("child", op.c)
          /\ UNCHANGED <<procs, child, own, count, answer, truth>>

\* Mutant of DeliverChild: the id of the clone is not compared with the parent's.
DeliverChildUnchecked ==
    /\ op.stage = "child"
    /\ LET b == CHOOSE free \in Backend : own[free] = NoSid IN
          /\ child' = [child EXCEPT ![op.b] = op.spare, ![b] = op.c]
          /\ own' = [own EXCEPT ![b] = op.id]
    /\ Done /\ UNCHANGED <<procs, answer, truth>>

DeliverChild ==
    /\ op.stage = "child"
    /\ \/ op.id = op.parent /\ Raise(procs, {op.c})
       \/ /\ op.id # op.parent
          /\ LET b == CHOOSE free \in Backend : own[free] = NoSid IN
                /\ child' = [child EXCEPT ![op.b] = op.spare, ![b] = op.c]
                /\ own' = [own EXCEPT ![b] = op.id]
          /\ Done /\ UNCHANGED <<procs, answer, truth>>

Deliver ==
    /\ op.pc = "deliver"
    /\ \/ DeliverAsk \/ DeliverQuery \/ DeliverReset
       \/ DeliverParent \/ DeliverReady \/ DeliverClone \/ DeliverChild

\* An interrupt that comes after _send left its loop, while the rest of the
\* child's stderr is delivered: nothing in _send closes the backend for it.
InterruptDelivery == op.pc = "deliver" /\ Raise(procs, {})

-----------------------------------------------------------------------------
Call == \/ Write \/ Receive \/ Eof \/ Deliver
Pi(c) == PiReply(c) \/ PiRun(c)

Next == \/ \E b \in Backend : \/ Open(b) \/ Close(b)
                              \/ \E stage \in {"prompt", "new_session", "query", "parent"} :
                                    Begin(b, stage)
        \/ Call \/ Timeout \/ Interrupt
        \/ \E c \in Proc : Pi(c) \/ PiExits(c)

Spec == Init /\ [][Next]_vars
FairSpec == Spec /\ WF_vars(Call) /\ \A c \in Proc : WF_vars(Pi(c))
InterruptedSpec == Init /\ [][Next \/ InterruptDelivery]_vars

-----------------------------------------------------------------------------
RunState == [on : BOOLEAN, n : Nat, attempt : 1..MaxAttempts, message : 0..MaxMessages,
             open : BOOLEAN, dialog : {"none", "open", "closed"}, failed : BOOLEAN]

Message == [type : {"response"}, r : Request, ok : BOOLEAN, cancelled : BOOLEAN,
            session : Sid, streaming : BOOLEAN]
           \cup [type : {"delta", "message"}, piece : Piece]
           \cup [type : {"dialog", "failure", "retry", "settled"}, piece : Nat \X Nat]

Process == [status : {"none", "live", "exited"}, session : Sid \cup {NoSid}, inbox : Seq(Request),
            out : Seq(Message), run : RunState]

CallState == [stage : Asks \cup {"idle"}, pc : {"write", "wait", "deliver"}, b : Backend \cup {NoBackend},
              c : Proc \cup {NoProc}, n : Nat, got : BOOLEAN, cancelled : BOOLEAN, id : Sid \cup {NoSid},
              streaming : {"unknown", "no", "yes"}, settled : BOOLEAN, failed : BOOLEAN, text : Seq(Piece),
              parent : Sid \cup {NoSid}, spare : Proc \cup {NoProc}]

\* The type invariant of the processes, the backends and the call, a theorem of
\* PiRpcProofs; a process that runs is on a session, an open message has a number.
TypeOK ==
    /\ procs \in [Proc -> Process]
    /\ \A c \in Proc : /\ procs[c].status # "none" => procs[c].session \in Sid
                       /\ procs[c].run.open => procs[c].run.message > 0
    /\ child \in [Backend -> Proc \cup {NoProc}]
    /\ own \in [Backend -> Sid \cup {NoSid}]
    /\ op \in CallState
    /\ count \in 0..MaxOps /\ answer \in Answer /\ truth \in Answer

\* Every Pi process that was started and not terminated has exactly one owner:
\* one backend, or the fork in progress as its replacement.
OneOwner ==
    \A c \in Proc : procs[c].status # "none" =>
        Cardinality({b \in Backend : child[b] = c}) + (IF op.spare = c THEN 1 ELSE 0) = 1

\* Between calls each backend whose process runs is on the session it was given:
\* the one it opened, last reset to, or was forked onto.  A fork that fails, at
\* whatever step, leaves its backend on the parent or with no process.
OwnSession ==
    IsIdle => \A b \in Backend :
        child[b] # NoProc /\ IsLive(child[b]) => procs[child[b]].session = own[b]

\* No two backends are ever on one session, so that neither sees the other's turns.
SessionsApart ==
    \A b1, b2 \in Backend :
        b1 # b2 /\ child[b1] # NoProc /\ child[b2] # NoProc =>
            procs[child[b1]].session # procs[child[b2]].session

\* What ask returns is the outcome of its own prompt's run: the last message of
\* the attempt that settled, or its failure, never what a retry discarded.
AnswerIsOwn == answer.n # 0 => answer = truth

\* Between calls a running process has nothing left to read, to answer or to run,
\* so the next command cannot take an earlier one's events for its own.
Quiescent ==
    IsIdle => \A b \in Backend :
        child[b] # NoProc /\ IsLive(child[b]) =>
            LET p == procs[child[b]] IN p.out = <<>> /\ p.inbox = <<>> /\ ~p.run.on

\* Every call returns or raises, even one whose run asks for a dialog no user
\* will answer, without the help of a timeout.
CallEnds == ~IsIdle ~> IsIdle

\* What the comment in fork promises: "retain the independently opened parent
\* rather than leaving this backend pointed at the wrong session".
ParentKept ==
    [][op.stage \in {"clone", "child"} /\ op'.stage = "idle" =>
         LET c == child'[op.b] IN
         c # NoProc /\ procs'[c].status = "live" => procs'[c].session = op.parent]_vars
=============================================================================
