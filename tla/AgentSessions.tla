--------------------------- MODULE AgentSessions ---------------------------
(* Agent conversations of one AgL run: the evaluator's ask and retry loop
   (agl/eval/effects.py), the session host and the session service
   (agent/session/service.py) with their two tables, the CLI backends
   (agent/session/cli_adapters.py), and the transcripts the agent programs keep.

   A Pi RPC backend is its conversation and whether its process lives; PiRpc
   has its protocol.  One thread evaluates a program, so what may go wrong is a
   run of an agent, a teardown, and an interrupt of either, or between the step
   an operation takes in the service's table and the one it takes in the host's.
   An interrupt between two assignments within one table's step is left out. *)
EXTENDS Naturals, FiniteSets

CONSTANTS Handle,     \* handles minted by the service
          Sid,        \* ids of the agents' own sessions
          NoHandle, NoSid, Absent, None,
          Kind,       \* backend kinds in play
          MaxAsk,     \* bound: asks of a run
          Budget      \* attempts an ask may have: parse-error-retries + 1

\* "plain" is an AgentCommand whose command has no %{SESSION_ID}.
AllKinds == {"plain", "command", "claude", "codex", "pi", "rpc"}

ASSUME KindAssumption == Kind \subseteq AllKinds
ASSUME BudgetAssumption == Budget \subseteq Nat \ {0} /\ MaxAsk \in Nat
ASSUME NullAssumption == NoHandle \notin Handle /\ NoSid \notin Sid

Ask == 1..MaxAsk

\* Kinds used when a program names no transport: AgentPi takes RPC.
Chosen == Kind \ {"pi"}

VARIABLES entries,    \* SessionService._entries, with the backend's own state
          host,       \* AglSessionHost._sessions
          default,    \* SessionService._default_handle
          scripts,    \* the asks in each transcript; {} where none was created
          call,       \* the ask being evaluated
          told,       \* asks answered through a handle since its conversation began
          asked,      \* asks made so far
          era,        \* asks made before the latest reset_all
          cut         \* handles an interrupt left in one of the tables alone

vars == <<entries, host, default, scripts, call, told, asked, era, cut>>
tables == <<entries, host, default, cut>>

Entry == [kind : AllKinds, eph : BOOLEAN, single : BOOLEAN, closed : BOOLEAN,
          sid : Sid \cup {NoSid}, started : BOOLEAN, alive : BOOLEAN]
Identity == [eph : BOOLEAN, continues : BOOLEAN]
Call == [pc : {"idle", "compose", "send", "parse", "close"}, h : Handle \cup {NoHandle},
         k : Nat, attempt : Nat, max : Nat, follow : BOOLEAN, eph : BOOLEAN]

ASSUME AbsentAssumption == Absent \notin Entry \cup Identity /\ \A asks \in SUBSET Ask : asks # None

Known == {h \in Handle : entries[h] # Absent}
Usable == {h \in Known : ~entries[h].closed}
\* What a program may hold: handles that open, default or fork returned to it.
Held == {h \in Known : ~entries[h].eph /\ host[h] # Absent}
FreshHandle == {h \in Handle : entries[h] = Absent /\ host[h] = Absent}
FreshSid == {s \in Sid : scripts[s] = {} /\ \A h \in Known : entries[h].sid # s}

\* Mutant of Continues: every backend is taken to continue.
ContinuesAlways(e) == TRUE

Continues(e) == e.kind # "plain"
IsIdle == call.pc = "idle"
Idle == [pc |-> "idle", h |-> NoHandle, k |-> 0, attempt |-> 0, max |-> 0,
         follow |-> FALSE, eph |-> FALSE]

Init == /\ entries = [h \in Handle |-> Absent] /\ host = entries
        /\ default = NoHandle
        /\ scripts = [s \in Sid |-> {}]
        /\ call = Idle
        /\ told = [h \in Handle |-> {}]
        /\ asked = 0 /\ era = 0 /\ cut = {}

-----------------------------------------------------------------------------
(* Opening. *)

\* What the factory may return; a command without a placeholder serves only a
\* short-lived session.  Any open may also fail, which changes nothing.
Opened(kind, eph, single) ==
    {[kind |-> kind, eph |-> eph, single |-> single, closed |-> FALSE,
      sid |-> s, started |-> FALSE, alive |-> TRUE]
     : s \in IF kind = "plain" /\ ~(eph \/ single) THEN {}
             ELSE IF kind = "codex" THEN {NoSid} ELSE FreshSid}

Register(h, e) == /\ host' = [host EXCEPT ![h] = [eph |-> e.eph, continues |-> Continues(e)]]
                  /\ cut' = cut \ {h}

\* An interrupt after the service's step and before the host's.
Unregistered(h) == UNCHANGED host /\ cut' = cut \cup {h}

OpenSession(kind) ==
    /\ IsIdle
    /\ \E h \in FreshHandle, e \in Opened(kind, FALSE, FALSE) :
          /\ entries' = [entries EXCEPT ![h] = e]
          /\ Register(h, e) \/ Unregistered(h)
    /\ UNCHANGED <<default, scripts, call, told, asked, era>>

\* An ask starts; at "close" it ends before its first prompt.
Begin(pc, h, eph, max) ==
    /\ asked < MaxAsk
    /\ asked' = asked + 1
    /\ call' = [pc |-> pc, h |-> h, k |-> asked + 1, attempt |-> 0, max |-> max,
                follow |-> FALSE, eph |-> eph]

AskSession(h, max) ==
    /\ IsIdle /\ h \in Held
    /\ Begin("compose", h, FALSE, max)
    /\ UNCHANGED <<tables, scripts, told, era>>

\* The default session was opened before; its registration may have been cut off.
Recalled == IF host[default] = Absent THEN Register(default, entries[default])
                                      ELSE UNCHANGED <<host, cut>>

\* A free ask: the default session, opened with the agent that is current now.
AskDefault(kind, max) ==
    /\ IsIdle
    /\ \/ /\ default = NoHandle
          /\ \E h \in FreshHandle, e \in Opened(kind, FALSE, FALSE) :
                /\ entries' = [entries EXCEPT ![h] = e]
                /\ default' = h
                /\ \/ Register(h, e) /\ Begin("compose", h, FALSE, max)
                   \/ Unregistered(h) /\ UNCHANGED <<call, asked>>
       \/ /\ default \in Usable \cup Held      \* a closed one is not registered
          /\ Begin("compose", default, FALSE, max)
          /\ UNCHANGED <<entries, default>>
          /\ Recalled
    /\ UNCHANGED <<scripts, told, era>>

\* Agent::ask: a session for this call and its retries alone.
AskAgent(kind, max) ==
    /\ IsIdle
    /\ \E h \in FreshHandle, e \in Opened(kind, TRUE, max = 1) :
          /\ entries' = [entries EXCEPT ![h] = e]
          /\ \/ Register(h, e) /\ Begin("compose", h, TRUE, max)
             \/ Unregistered(h) /\ Begin("close", h, TRUE, max)
    /\ UNCHANGED <<default, scripts, told, era>>

-----------------------------------------------------------------------------
(* The retry loop. *)

\* A short follow-up on a retry, if the handle continues a conversation.
Compose ==
    /\ call.pc = "compose" /\ host[call.h] # Absent
    /\ call' = [call EXCEPT !.pc = "send",
                            !.follow = host[call.h].continues /\ call.attempt > 0]
    /\ UNCHANGED <<tables, scripts, told, asked, era>>

\* Mutant of Ended: only an ask that got its answer closes its session.
EndedOnSuccess == IF call.eph /\ call.pc = "parse" THEN [call EXCEPT !.pc = "close"] ELSE Idle

\* The end of an ask: an answer, an error or an interrupt; an ephemeral session
\* is closed on every one of them.
Ended == IF call.eph THEN [call EXCEPT !.pc = "close"] ELSE Idle

Written(s, k)  == [scripts EXCEPT ![s] = @ \cup {k}]
Perhaps(s, k)  == {scripts, Written(s, k)}
Result(e, sc, ok) == [e |-> e, scripts |-> sc, ok |-> ok]

\* A turn that failed and left the entry as f.
Failed(f, k) == {Result(f, sc, FALSE) : sc \in Perhaps(f.sid, k)}

Stateless(e) == e.kind = "plain" \/ (e.single /\ e.kind \in {"claude", "codex", "pi"})

PlainTurn(e, k) == {Result(e, scripts, ok) : ok \in BOOLEAN}

CommandTurn(e, k) ==
    {Result(e, Written(e.sid, k), TRUE)} \cup Failed(e, k)

\* Mutant of SessionIdTurn: started is set once the prompt was answered.
SessionIdTurnAnswered(e, k) ==
    LET launched == [e EXCEPT !.started = TRUE]
        accepted == e.kind = "pi" \/ e.started = (scripts[e.sid] # {})
    IN  {Result(e, scripts, FALSE)}
        \cup (IF accepted THEN {Result(launched, Written(e.sid, k), TRUE),
                               Result(e, Written(e.sid, k), FALSE)} ELSE {})

\* started is set before the launch and taken back only if nothing was launched.
\* Claude creates a transcript once and resumes only one that exists; Pi opens or
\* creates the one named.
SessionIdTurn(e, k) ==
    LET launched == [e EXCEPT !.started = TRUE]
        accepted == e.kind = "pi" \/ e.started = (scripts[e.sid] # {})
    IN  {Result(e, scripts, FALSE), Result(launched, scripts, FALSE)}
        \cup (IF accepted THEN {Result(launched, Written(e.sid, k), ok) : ok \in BOOLEAN} ELSE {})

\* The thread is Codex's own.  A failed turn leaves it resumable if the stream
\* announced it; a start that failed otherwise is not repeated.  (A thread nobody
\* learned the id of is left out: no handle reaches it.)
CodexStart(e, k) ==
    LET on(t) == [e EXCEPT !.started = TRUE, !.sid = t]
    IN  {Result(e, scripts, FALSE), Result([e EXCEPT !.started = TRUE], scripts, FALSE)}
        \cup {Result(on(t), Written(t, k), TRUE) : t \in FreshSid}
        \cup {Result(on(t), Written(t, k), FALSE) : t \in FreshSid}

\* Mutant of CodexResume: a failed turn forgets the thread, as a failed start does.
CodexResumeForgetting(e, k) ==
    {Result([e EXCEPT !.started = FALSE, !.sid = NoSid], sc, FALSE) : sc \in Perhaps(e.sid, k)}
    \cup {Result([e EXCEPT !.started = TRUE], Written(e.sid, k), TRUE)}

CodexResume(e, k) ==
    Failed([e EXCEPT !.started = FALSE], k) \cup Failed([e EXCEPT !.started = TRUE], k)
    \cup {Result([e EXCEPT !.started = TRUE], Written(e.sid, k), TRUE)}

CodexTurn(e, k) ==
    IF e.sid # NoSid THEN CodexResume(e, k)
    ELSE IF e.started THEN {Result(e, scripts, FALSE)} ELSE CodexStart(e, k)

\* A transport failure or an interrupt terminates the process.
RpcTurn(e, k) ==
    IF ~e.alive THEN {Result(e, scripts, FALSE)}
    ELSE {Result(e, Written(e.sid, k), TRUE)}
         \cup Failed(e, k) \cup Failed([e EXCEPT !.alive = FALSE], k)

Turn(e, k) ==
    IF e.closed THEN {Result(e, scripts, FALSE)}
    ELSE IF Stateless(e) THEN PlainTurn(e, k)
    ELSE IF e.kind = "command" THEN CommandTurn(e, k)
    ELSE IF e.kind = "codex" THEN CodexTurn(e, k)
    ELSE IF e.kind = "rpc" THEN RpcTurn(e, k)
    ELSE SessionIdTurn(e, k)

Dispatch ==
    /\ call.pc = "send"
    /\ \E r \in Turn(entries[call.h], call.k) :
          /\ entries' = [entries EXCEPT ![call.h] = r.e]
          /\ scripts' = r.scripts
          /\ told' = IF r.ok THEN [told EXCEPT ![call.h] = @ \cup {call.k}] ELSE told
          /\ call' = IF r.ok THEN [call EXCEPT !.pc = "parse"] ELSE Ended
    /\ UNCHANGED <<host, default, asked, era, cut>>

Parse ==
    /\ call.pc = "parse"
    /\ \/ call' = Ended                             \* a value, or the last failure
       \/ /\ call.attempt + 1 < call.max
          /\ call' = [call EXCEPT !.pc = "compose", !.attempt = @ + 1]
    /\ UNCHANGED <<tables, scripts, told, asked, era>>

-----------------------------------------------------------------------------
(* Closing. *)

\* What is left of an entry whose backend closed, and of one whose teardown
\* raised: the backend has let go of its process, the entry stays open.
Shut(e)   == IF e.eph THEN Absent ELSE [e EXCEPT !.closed = TRUE]
Raised(e) == [e EXCEPT !.alive = FALSE]
MayRaise(e) == e.kind = "rpc" /\ e.alive

\* Mutant of Retire: with_ephemeral has no on_closed.
RetireNothing(h) == host

Retire(h) == IF host[h] # Absent /\ host[h].eph THEN [host EXCEPT ![h] = Absent] ELSE host

Forgotten(H) == [h \in Handle |-> IF h \in H THEN {} ELSE told[h]]

\* SessionService.close, which deletes an ephemeral entry, and the host's
\* retirement of the handle, which an interrupt may cut off.
CloseHandle(h) ==
    \/ /\ entries' = [entries EXCEPT ![h] = Shut(@)]
       /\ told' = Forgotten(IF entries[h].eph THEN {h} ELSE {})
       /\ \/ host' = Retire(h) /\ cut' = cut \ {h}
          \/ entries[h].eph /\ host[h] # Absent /\ Unregistered(h)
    \/ /\ MayRaise(entries[h])
       /\ entries' = [entries EXCEPT ![h] = Raised(@)]
       /\ UNCHANGED <<host, told, cut>>

EndEphemeral ==
    /\ call.pc = "close"
    /\ CloseHandle(call.h)
    /\ call' = Idle
    /\ UNCHANGED <<default, scripts, asked, era>>

Close(h) ==
    /\ IsIdle /\ h \in Usable \cap Held
    /\ CloseHandle(h)
    /\ UNCHANGED <<default, scripts, call, asked, era>>

\* One sweep over the table.  It may raise for some backends, and an interrupt
\* may end it before it came to all of them, or end the host's own sweep of the
\* identities whose handles are gone.
Sweep(discard) ==
    \E done \in SUBSET Known :
      \E bad \in SUBSET {h \in done : ~entries[h].closed /\ MayRaise(entries[h])} :
        LET after(h) == IF h \notin done THEN entries[h]
                        ELSE IF h \in bad THEN Raised(entries[h])
                        ELSE IF discard THEN Absent
                        ELSE IF entries[h].closed THEN entries[h] ELSE Shut(entries[h])
            gone == {h \in Handle : after(h) = Absent}
        IN  \E left \in SUBSET {h \in gone : host[h] # Absent} :
              /\ entries' = [h \in Handle |-> after(h)]
              /\ host' = [h \in Handle |-> IF h \in gone \ left THEN Absent ELSE host[h]]
              /\ told' = Forgotten(gone)
              /\ cut' = (cut \ gone) \cup left

\* Mutant of ResetAll: the default is released only if it was discarded.
ResetAllUnlessRaised ==
    /\ IsIdle
    /\ Sweep(TRUE)
    /\ default' = IF default # NoHandle /\ entries'[default] = Absent THEN NoHandle ELSE default
    /\ era' = asked
    /\ UNCHANGED <<scripts, call, asked>>

ResetAll ==
    /\ IsIdle
    /\ Sweep(TRUE)
    /\ default' = NoHandle
    /\ era' = asked
    /\ UNCHANGED <<scripts, call, asked>>

CloseAll ==
    /\ IsIdle
    /\ Sweep(FALSE)
    /\ UNCHANGED <<default, scripts, call, asked, era>>

-----------------------------------------------------------------------------
(* Lifecycle operations of a session value. *)

Restarted(e) ==
    IF e.kind = "codex" THEN {[e EXCEPT !.sid = NoSid, !.started = FALSE]}
    ELSE {[e EXCEPT !.sid = s, !.started = FALSE] : s \in FreshSid}

Reset(h) ==
    /\ IsIdle /\ h \in Usable \cap Held
    /\ \/ /\ entries[h].alive
          /\ \E e \in Restarted(entries[h]) : entries' = [entries EXCEPT ![h] = e]
          /\ told' = [told EXCEPT ![h] = {}]
       \/ /\ MayRaise(entries[h])                \* the transport failed
          /\ entries' = [entries EXCEPT ![h] = Raised(@)]
          /\ UNCHANGED told
    /\ UNCHANGED <<host, default, scripts, call, asked, era, cut>>

\* Mutant of Branch: the child keeps its parent's id.
BranchInPlace(e, s) == [e EXCEPT !.eph = FALSE]

Branch(e, s) == [e EXCEPT !.eph = FALSE, !.sid = s]

\* A deferred session forks locally; a started one is copied by its agent.
Fork(h) ==
    /\ IsIdle /\ h \in Usable \cap Held
    /\ LET e == entries[h] IN
       \/ /\ \/ e.kind \in {"claude", "pi"} /\ (e.started => scripts[e.sid] # {})
             \/ e.kind = "rpc" /\ e.alive
          /\ \E c \in FreshHandle, s \in FreshSid :
                /\ entries' = [entries EXCEPT ![c] = Branch(e, s)]
                /\ \/ /\ host' = [host EXCEPT ![c] = [host[h] EXCEPT !.eph = FALSE]]
                      /\ cut' = cut \ {c}
                   \/ Unregistered(c)
                /\ scripts' = [scripts EXCEPT ![s] = scripts[e.sid]]
                /\ told' = [told EXCEPT ![c] = told[h]]
       \/ /\ MayRaise(e)
          /\ entries' = [entries EXCEPT ![h] = Raised(@)]
          /\ UNCHANGED <<host, scripts, told, cut>>
    /\ UNCHANGED <<default, call, asked, era>>

\* compact, set-name and stats keep the conversation; on Pi RPC a transport
\* failure loses it.
Query(h) ==
    /\ IsIdle /\ h \in Usable \cap Held
    /\ MayRaise(entries[h])
    /\ entries' = [entries EXCEPT ![h] = Raised(@)]
    /\ UNCHANGED <<host, default, scripts, call, told, asked, era, cut>>

Next ==
    \/ \E kind \in Kind : OpenSession(kind)
    \/ \E kind \in Chosen, max \in Budget : AskDefault(kind, max) \/ AskAgent(kind, max)
    \/ \E h \in Handle, max \in Budget : AskSession(h, max)
    \/ Compose \/ Dispatch \/ Parse \/ EndEphemeral
    \/ \E h \in Handle : Close(h) \/ Reset(h) \/ Fork(h) \/ Query(h)
    \/ ResetAll \/ CloseAll

Spec == Init /\ [][Next]_vars

-----------------------------------------------------------------------------
(* Properties. *)

\* Types, and a handle and a number for the ask being evaluated.
TypeOK ==
    /\ entries \in [Handle -> Entry \cup {Absent}]
    /\ host \in [Handle -> Identity \cup {Absent}]
    /\ default \in Handle \cup {NoHandle}
    /\ scripts \in [Sid -> SUBSET Ask]
    /\ call \in Call
    /\ IsIdle \/ (call.h \in Known /\ call.k \in Ask)
    /\ told \in [Handle -> SUBSET Ask]
    /\ asked \in 0..MaxAsk /\ era \in 0..asked
    /\ cut \subseteq Handle

\* The two tables list the same handles, except those an interrupt left in one of
\* them, and agree on what each is: no failed teardown leaves an identity without
\* a session or a session without an identity.  An ask in its retry loop is of a
\* handle in both; the default is in the service's.
TablesAgree ==
    /\ \A h \in Handle : h \in cut <=> (host[h] = Absent <=> h \in Known)
    /\ \A h \in Known : host[h] # Absent =>
          host[h].eph = entries[h].eph /\ host[h].continues = Continues(entries[h])
    /\ default # NoHandle => default \in Known /\ ~entries[default].eph
    /\ call.pc \in {"compose", "send", "parse"} => host[call.h] # Absent

\* An ephemeral session is in the table only during its ask, or because its
\* teardown raised: then its process is gone and a sweep will remove it.
EphemeralsReleased ==
    \A h \in Known : entries[h].eph => (call.h = h /\ call.eph) \/ ~entries[h].alive

\* A corrective follow-up does not repeat the prompt, so it is sent only into a
\* transcript that holds the prompt it corrects.
FollowUpInContext ==
    call.pc = "send" /\ call.follow =>
        LET e == entries[call.h] IN
        ~Stateless(e) /\ e.sid # NoSid /\ call.k \in scripts[e.sid]

\* Whatever was answered through an open handle since its conversation began is
\* in the transcript its next prompt continues, whatever failed in between.
Remembers ==
    \A h \in Usable :
        LET e == entries[h] IN
        ~Stateless(e) /\ told[h] # {} => e.sid # NoSid /\ told[h] \subseteq scripts[e.sid]

\* A transcript that exists is resumed, never created again: only a launch that
\* never happened is repeated.
CreatedOnce ==
    \A h \in Usable : entries[h].kind = "claude" /\ ~entries[h].started =>
        scripts[entries[h].sid] = {}

\* After a reset_all, complete or not, the default session holds nothing said
\* before it.
DefaultIsFresh ==
    default # NoHandle /\ entries[default].sid # NoSid =>
        \A k \in scripts[entries[default].sid] : k > era

\* The conversation an entry stands for: None if nothing can continue it.
Conversation(e) ==
    IF e = Absent \/ e.closed \/ ~e.alive THEN None
    ELSE IF e.sid = NoSid THEN {} ELSE scripts[e.sid]
Conv == [h \in Handle |-> Conversation(entries[h])]

\* Every handle has a conversation of its own.
Promised == INSTANCE Conversations WITH conv <- Conv
ImplementsConversations == Promised!Spec
=============================================================================
