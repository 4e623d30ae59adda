------------------------ MODULE AgentSessionsProofs ------------------------
(* Every handle keeps a conversation of its own, for any number of handles, agent
   sessions and asks: SessionsInv is the inductive invariant of the two tables,
   the transcripts and the ask in progress. *)
EXTENDS AgentSessions, TLAPS

\* The identity i describes the entry e, or there is none.
Describes(i, e) == i = Absent \/ (i \in Identity /\ i.eph = e.eph /\ i.continues = Continues(e))

\* The entry e, the identity i and the answers t of one handle fit each other and
\* the transcripts sc.
Good(e, i, t, sc) ==
    \/ e = Absent /\ i \in Identity \cup {Absent} /\ t = {}
    \/ /\ e \in Entry /\ Describes(i, e) /\ t \in SUBSET Ask
       /\ e.kind # "codex" => e.sid \in Sid
       /\ e.single => e.eph
       /\ ~e.alive => e.kind = "rpc"
       /\ ~e.closed /\ ~Stateless(e) /\ t # {} => e.sid \in Sid /\ t \subseteq sc[e.sid]
       /\ ~e.closed /\ e.kind = "claude" /\ ~e.started => sc[e.sid] = {}

Handles == \A h \in Handle : Good(entries[h], host[h], told[h], scripts)

\* Only handles of cut are in one table alone.
Cuts == \A h \in Handle : h \in cut <=> (host[h] = Absent <=> entries[h] # Absent)

SidsApart == \A g, h \in Known : entries[g].sid = entries[h].sid /\ entries[g].sid # NoSid => g = h

DefaultHeld == default # NoHandle => default \in Known /\ ~entries[default].eph

\* The prompt of the ask c was answered at least once, so it was asked before.
Answered(c) == c.pc = "parse" \/ (c.pc \in {"compose", "send"} /\ c.attempt > 0)

\* The ask c of the era er fits the entry e and the answers t of its handle.
AskFits(c, e, t, er) ==
    /\ c.k > er /\ c.eph = e.eph
    /\ e.single => c.max = 1
    /\ c.attempt > 0 => c.max > 1
    /\ Answered(c) => ~e.closed /\ (Stateless(e) \/ c.k \in t)
    /\ c.pc = "send" /\ c.follow => c.attempt > 0 /\ Continues(e)
    /\ c.pc = "close" => c.eph

Asking ==
    /\ IsIdle => call = Idle
    /\ ~IsIdle => AskFits(call, entries[call.h], told[call.h], era)
    /\ call.pc \in {"compose", "send", "parse"} => host[call.h] # Absent

SessionsInv == TypeOK /\ Handles /\ Cuts /\ SidsApart /\ EphemeralsReleased /\ DefaultHeld /\ DefaultIsFresh /\ Asking

-----------------------------------------------------------------------------
(* What the parts of the invariant say of one handle. *)

LEMMA KnownGood ==
  ASSUME TypeOK, Handles, NEW h \in Known
  PROVE  /\ h \in Handle /\ entries[h] \in Entry /\ entries[h] # Absent /\ told[h] \in SUBSET Ask
         /\ Describes(host[h], entries[h]) /\ Good(entries[h], host[h], told[h], scripts)
BY AbsentAssumption DEF TypeOK, Handles, Known, Good

\* A handle that is left alone stays good if its own transcript does.
LEMMA GoodKept ==
  ASSUME NEW e, NEW i, NEW t, NEW sc, NEW sd, Good(e, i, t, sc), e # Absent /\ e.sid \in Sid => sd[e.sid] = sc[e.sid]
  PROVE  Good(e, i, t, sd)
<1>1. e \in Entry => e # Absent
  BY AbsentAssumption
<1> QED BY <1>1 DEF Good

\* A step that changes one handle keeps cut exact if it does at that handle.
LEMMA CutsKept ==
  ASSUME Cuts, NEW h,
         \A g \in Handle \ {h} : /\ entries'[g] = entries[g] /\ host'[g] = host[g]
                                 /\ g \in cut' <=> g \in cut,
         h \in Handle => (h \in cut' <=> (host'[h] = Absent <=> entries'[h] # Absent))
  PROVE  Cuts'
BY DEF Cuts

\* The ids stay apart when at most one handle takes a fresh one.
LEMMA SidsKept ==
  ASSUME SidsApart, NEW h,
         \A g \in Handle \ {h} : entries'[g] # Absent => g \in Known /\ entries'[g].sid = entries[g].sid,
         h \in Handle /\ entries'[h] # Absent =>
            \/ entries'[h].sid = NoSid
            \/ h \in Known /\ entries'[h].sid = entries[h].sid
            \/ entries'[h].sid \in FreshSid
  PROVE  SidsApart'
<1> SUFFICES ASSUME NEW g \in Known', NEW f \in Known', entries'[g].sid = entries'[f].sid, entries'[g].sid # NoSid, g # f
             PROVE  FALSE
  BY DEF SidsApart
<1>1. g \in Handle /\ f \in Handle /\ entries'[g] # Absent /\ entries'[f] # Absent
  BY DEF Known
<1>2. CASE g = h
  BY <1>1, <1>2 DEF SidsApart, FreshSid
<1>3. CASE f = h
  BY <1>1, <1>3 DEF SidsApart, FreshSid
<1>4. CASE g # h /\ f # h
  BY <1>1, <1>4 DEF SidsApart
<1> QED BY <1>2, <1>3, <1>4

LEMMA IdentityTyped ==
  ASSUME NEW e \in Entry PROVE [eph |-> e.eph, continues |-> Continues(e)] \in Identity
BY DEF Entry, Identity, Continues

LEMMA OpenedGood ==
  ASSUME TypeOK, NEW kind \in Kind, NEW eph \in BOOLEAN, NEW single \in BOOLEAN, single => eph,
         NEW e \in Opened(kind, eph, single)
  PROVE  /\ e \in Entry /\ e # Absent /\ (e.sid = NoSid \/ e.sid \in FreshSid)
         /\ e.eph = eph /\ e.single = single /\ ~e.closed
         /\ Good(e, [eph |-> e.eph, continues |-> Continues(e)], {}, scripts) /\ Good(e, Absent, {}, scripts)
<1>1. PICK s \in Sid \cup {NoSid} : /\ e = [kind |-> kind, eph |-> eph, single |-> single, closed |-> FALSE,
                                             sid |-> s, started |-> FALSE, alive |-> TRUE]
                                    /\ s = NoSid \/ s \in FreshSid
                                    /\ kind # "codex" => s \in FreshSid
  BY DEF Opened, FreshSid
<1>2. e \in Entry /\ e # Absent
  <2>1. kind \in AllKinds
    BY KindAssumption
  <2>2. e \in Entry
    BY <1>1, <2>1 DEF Entry
  <2> QED BY <2>2, AbsentAssumption
<1>3. kind # "codex" => e.sid \in Sid /\ scripts[e.sid] = {}
  BY <1>1 DEF FreshSid
<1>4. Describes([eph |-> e.eph, continues |-> Continues(e)], e) /\ Describes(Absent, e)
  BY <1>2, IdentityTyped DEF Describes
<1> QED BY <1>1, <1>2, <1>3, <1>4 DEF Good

\* The ask in progress has an open entry.
LEMMA CallGood ==
  ASSUME SessionsInv, ~IsIdle
  PROVE  /\ call.h \in Known /\ call.h \in Handle /\ call.k \in Ask /\ call \in Call
         /\ entries[call.h] \in Entry /\ entries[call.h] # Absent /\ told[call.h] \in SUBSET Ask
         /\ Good(entries[call.h], host[call.h], told[call.h], scripts) /\ Describes(host[call.h], entries[call.h])
BY KnownGood, AbsentAssumption DEF SessionsInv, TypeOK, Known

-----------------------------------------------------------------------------
(* What a step does to the conversations. *)

ConvStep == Promised!Next \/ UNCHANGED Conv

Kept == SessionsInv' /\ ConvStep

\* A handle whose entry and transcript are left alone keeps its conversation.
LEMMA TalksOn ==
  ASSUME TypeOK, NEW g \in Handle, entries'[g] = entries[g],
         g \in Known /\ entries[g].sid \in Sid => scripts'[entries[g].sid] = scripts[entries[g].sid]
  PROVE  Conv'[g] = Conv[g]
<1>1. Conv[g] = Conversation(entries[g]) /\ Conv'[g] = Conversation(entries[g])'
  BY DEF Conv
<1>2. entries[g] # Absent => g \in Known /\ entries[g].sid \in Sid \cup {NoSid}
  BY DEF TypeOK, Known, Entry
<1> QED BY <1>1, <1>2 DEF Conversation

\* One conversation is opened, continued, started over, copied or dropped.
LEMMA OneConv ==
  ASSUME NEW h \in Handle, \A g \in Handle \ {h} : Conv'[g] = Conv[g],
         \/ Conv'[h] \in {None, {}, Conv[h]}
         \/ Conv[h] # None /\ \E k \in Ask : Conv'[h] = Conv[h] \cup {k}
         \/ Conv[h] = None /\ \E g \in Handle : Conv[g] # None /\ Conv'[h] = Conv[g]
  PROVE  ConvStep
<1>1. Conv = [g \in Handle |-> Conv[g]] /\ Conv' = [g \in Handle |-> Conv'[g]]
  BY DEF Conv
<1> DEFINE c == Conv
<1> HIDE DEF c
<1>2. Conv' = [Conv EXCEPT ![h] = Conv'[h]]
  BY <1>1
<1>3. CASE Conv'[h] = None
  <2>1. Conv' = [g \in Handle |-> IF g \in {h} THEN None ELSE Conv[g]]
    BY <1>1, <1>3
  <2>2. Promised!Drop({h})
    BY <2>1 DEF Promised!Drop
  <2> QED BY <2>2 DEF ConvStep, Promised!Next
<1>4. CASE Conv'[h] = {} /\ Conv[h] = None
  <2>1. Promised!Open(h)
    BY <1>2, <1>4 DEF Promised!Open, Promised!Live
  <2> QED BY <2>1 DEF ConvStep, Promised!Next
<1>5. CASE Conv'[h] = {} /\ Conv[h] # None
  <2>1. Promised!Restart(h)
    BY <1>2, <1>5 DEF Promised!Restart, Promised!Live
  <2> QED BY <2>1 DEF ConvStep, Promised!Next
<1>6. CASE Conv'[h] = Conv[h]
  BY <1>1, <1>2, <1>6 DEF ConvStep
<1>7. ASSUME NEW k \in Ask, Conv[h] # None, Conv'[h] = Conv[h] \cup {k} PROVE ConvStep
  <2>1. Promised!Say(h, k)
    BY <1>2, <1>7 DEF Promised!Say, Promised!Live
  <2> QED BY <2>1 DEF ConvStep, Promised!Next
<1>8. ASSUME NEW g \in Handle, Conv[h] = None, Conv[g] # None, Conv'[h] = Conv[g] PROVE ConvStep
  <2>1. Promised!Fork(g, h)
    BY <1>2, <1>8 DEF Promised!Fork, Promised!Live
  <2> QED BY <2>1 DEF ConvStep, Promised!Next
<1> QED BY <1>3, <1>4, <1>5, <1>6, <1>7, <1>8

\* Any number of conversations is dropped.
LEMMA DropConv ==
  ASSUME \A h \in Handle : Conv'[h] \in {None, Conv[h]} PROVE ConvStep
<1> DEFINE H == {h \in Handle : Conv'[h] = None}
<1>1. Conv' = [h \in Handle |-> Conv'[h]]
  BY DEF Conv
<1>2. \A h \in Handle : Conv'[h] = IF h \in H THEN None ELSE Conv[h]
  OBVIOUS
<1>3. Conv' = [h \in Handle |-> IF h \in H THEN None ELSE Conv[h]]
  BY <1>1, <1>2
<1>4. Promised!Drop(H)
  BY <1>3 DEF Promised!Drop
<1> QED BY <1>4 DEF ConvStep, Promised!Next

LEMMA SameConv == ASSUME UNCHANGED <<entries, scripts>> PROVE ConvStep
BY DEF ConvStep, Conv, Conversation

-----------------------------------------------------------------------------
(* What a run of an agent may do to its entry and to the transcripts. *)

\* A turn of e that leaves it as f, and the transcripts as sc, keeps what e is; its
\* transcript is the one it had or a fresh one, only there is anything written, and
\* what is answered is written.
Legal(e, k, f, sc, ok) ==
    /\ f \in Entry
    /\ f.kind = e.kind /\ f.eph = e.eph /\ f.single = e.single /\ f.closed = e.closed
    /\ f.sid = e.sid \/ (e.sid = NoSid /\ e.kind = "codex" /\ f.sid \in FreshSid)
    /\ f.alive # e.alive => e.kind = "rpc" /\ e.alive
    /\ ~e.alive => sc = scripts
    /\ sc = scripts \/ (f.sid \in Sid /\ sc = Written(f.sid, k) /\ ~e.closed)
    /\ ok => ~e.closed /\ f.alive /\ (Stateless(e) \/ (f.sid \in Sid /\ sc = Written(f.sid, k)))
    /\ e.kind = "claude" /\ ~f.started => ~e.started /\ sc = scripts

Turned(e, k, r) == \E f, sc : \/ r = Result(f, sc, TRUE) /\ Legal(e, k, f, sc, TRUE)
                              \/ r = Result(f, sc, FALSE) /\ Legal(e, k, f, sc, FALSE)

LEMMA TurnLegal ==
  ASSUME NEW e \in Entry, e.kind # "codex" => e.sid \in Sid, ~e.alive => e.kind = "rpc", NEW k \in Ask
  PROVE  \A r \in Turn(e, k) : Turned(e, k, r)
<1>1. /\ e.kind \in AllKinds /\ e.sid \in Sid \cup {NoSid} /\ e.alive \in BOOLEAN /\ e.started \in BOOLEAN
      /\ e.closed \in BOOLEAN
  BY DEF Entry
<1> DEFINE written == Written(e.sid, k)
<1> HIDE DEF written
<1>2. Legal(e, k, e, scripts, FALSE)
  BY <1>1 DEF Legal
<1>3. \A r : r = Result(e, scripts, FALSE) => Turned(e, k, r)
  BY <1>2 DEF Turned
<1>4. ASSUME Stateless(e), ~e.closed PROVE \A r \in PlainTurn(e, k) : Turned(e, k, r)
  <2>1. e.alive
    BY <1>1, <1>4 DEF Stateless
  <2>2. Legal(e, k, e, scripts, TRUE)
    BY <1>1, <1>4, <2>1 DEF Legal
  <2> QED BY <1>3, <2>2 DEF PlainTurn, Turned
<1>5. ASSUME NEW f, f.sid = e.sid, Legal(e, k, f, scripts, FALSE), Legal(e, k, f, written, FALSE)
      PROVE  \A r \in Failed(f, k) : Turned(e, k, r)
  <2>1. Turned(e, k, Result(f, scripts, FALSE)) /\ Turned(e, k, Result(f, written, FALSE))
    BY <1>5, Zenon DEF Turned
  <2> QED BY <1>5, <2>1, Zenon DEF Failed, Perhaps, written
<1>6. ASSUME e.kind = "command", ~e.closed PROVE \A r \in CommandTurn(e, k) : Turned(e, k, r)
  <2>1. Legal(e, k, e, written, TRUE) /\ Legal(e, k, e, written, FALSE)
    BY <1>1, <1>6 DEF Legal, written
  <2>2. Turned(e, k, Result(e, written, TRUE))
    BY <2>1, Zenon DEF Turned
  <2> QED BY <1>2, <1>5, <2>1, <2>2, Zenon DEF CommandTurn, written
<1>7. ASSUME e.kind \in {"claude", "pi"}, ~e.closed PROVE \A r \in SessionIdTurn(e, k) : Turned(e, k, r)
  <2> DEFINE f == [e EXCEPT !.started = TRUE]
  <2>1. /\ f \in Entry /\ f.started = TRUE /\ f.kind = e.kind /\ f.eph = e.eph /\ f.single = e.single
        /\ f.closed = e.closed /\ f.sid = e.sid /\ f.alive = e.alive
    BY DEF Entry
  <2> HIDE DEF f
  <2>2. Legal(e, k, f, scripts, FALSE) /\ Legal(e, k, f, written, FALSE) /\ Legal(e, k, f, written, TRUE)
    BY <1>1, <1>7, <2>1 DEF Legal, written
  <2>3. \A r \in {Result(f, written, ok) : ok \in BOOLEAN} : r = Result(f, written, TRUE) \/ r = Result(f, written, FALSE)
    OBVIOUS
  <2>4. \A r \in {Result(f, written, ok) : ok \in BOOLEAN} : Turned(e, k, r)
    BY <2>2, <2>3, Zenon DEF Turned
  <2>5. Turned(e, k, Result(e, scripts, FALSE)) /\ Turned(e, k, Result(f, scripts, FALSE))
    BY <1>2, <2>2, Zenon DEF Turned
  <2> QED BY <2>4, <2>5, Zenon DEF SessionIdTurn, f, written
<1>8. ASSUME e.kind = "codex", ~e.closed PROVE \A r \in CodexTurn(e, k) : Turned(e, k, r)
  <2> DEFINE off == [e EXCEPT !.started = FALSE]
             st == [e EXCEPT !.started = TRUE]
             on(t) == [e EXCEPT !.started = TRUE, !.sid = t]
  <2>1. \A t \in FreshSid : t \in Sid
    BY DEF FreshSid
  <2>2. /\ st \in Entry /\ st.kind = e.kind /\ st.eph = e.eph /\ st.single = e.single
        /\ st.closed = e.closed /\ st.sid = e.sid /\ st.alive = e.alive
        /\ off \in Entry /\ off.kind = e.kind /\ off.eph = e.eph /\ off.single = e.single
        /\ off.closed = e.closed /\ off.sid = e.sid /\ off.alive = e.alive
        /\ \A t \in FreshSid : /\ on(t) \in Entry /\ on(t).kind = e.kind /\ on(t).eph = e.eph /\ on(t).single = e.single
                               /\ on(t).closed = e.closed /\ on(t).sid = t /\ on(t).alive = e.alive
    BY <2>1 DEF Entry
  <2> HIDE DEF off, st, on
  <2>3. CASE e.sid # NoSid
    <3>1. /\ Legal(e, k, off, scripts, FALSE) /\ Legal(e, k, off, written, FALSE)
          /\ Legal(e, k, st, scripts, FALSE) /\ Legal(e, k, st, written, FALSE)
          /\ Legal(e, k, st, written, TRUE)
      BY <1>1, <1>8, <2>2, <2>3 DEF Legal, written
    <3>2. Turned(e, k, Result(st, written, TRUE))
      BY <3>1, Zenon DEF Turned
    <3>3. (\A r \in Failed(off, k) : Turned(e, k, r)) /\ (\A r \in Failed(st, k) : Turned(e, k, r))
      BY <1>5, <2>2, <3>1
    <3>4. \A r \in CodexResume(e, k) : Turned(e, k, r)
      BY <3>2, <3>3, Zenon DEF CodexResume, st, off, written
    <3> QED BY <2>3, <3>4 DEF CodexTurn
  <2>4. CASE e.sid = NoSid
    <3>1. \A t \in FreshSid : Legal(e, k, on(t), Written(t, k), FALSE) /\ Legal(e, k, on(t), Written(t, k), TRUE)
      BY <1>1, <1>8, <2>1, <2>2, <2>4 DEF Legal
    <3>2. Legal(e, k, st, scripts, FALSE)
      BY <1>1, <1>8, <2>2 DEF Legal
    <3>3. \A t \in FreshSid : Turned(e, k, Result(on(t), Written(t, k), FALSE)) /\ Turned(e, k, Result(on(t), Written(t, k), TRUE))
      BY <3>1, Zenon DEF Turned
    <3>4. Turned(e, k, Result(st, scripts, FALSE)) /\ Turned(e, k, Result(e, scripts, FALSE))
      BY <1>3, <3>2, Zenon DEF Turned
    <3>5. \A r \in CodexStart(e, k) : Turned(e, k, r)
      BY <3>3, <3>4, Zenon DEF CodexStart, on, st
    <3> QED BY <1>3, <2>4, <3>5 DEF CodexTurn
  <2> QED BY <2>3, <2>4
<1>9. ASSUME e.kind = "rpc", ~e.closed PROVE \A r \in RpcTurn(e, k) : Turned(e, k, r)
  <2> DEFINE dead == [e EXCEPT !.alive = FALSE]
  <2>1. /\ dead \in Entry /\ dead.kind = e.kind /\ dead.eph = e.eph /\ dead.single = e.single
        /\ dead.closed = e.closed /\ dead.sid = e.sid /\ dead.alive = FALSE
    BY DEF Entry
  <2> HIDE DEF dead
  <2>2. CASE e.alive
    <3>1. /\ Legal(e, k, e, written, TRUE) /\ Legal(e, k, e, written, FALSE)
          /\ Legal(e, k, dead, scripts, FALSE) /\ Legal(e, k, dead, written, FALSE)
      BY <1>1, <1>9, <2>1, <2>2 DEF Legal, written
    <3>2. (\A r \in Failed(e, k) : Turned(e, k, r)) /\ (\A r \in Failed(dead, k) : Turned(e, k, r))
      BY <1>2, <1>5, <2>1, <3>1
    <3>3. Turned(e, k, Result(e, written, TRUE))
      BY <3>1, Zenon DEF Turned
    <3> QED BY <2>2, <3>2, <3>3, Zenon DEF RpcTurn, dead, written
  <2>3. CASE ~e.alive
    BY <1>3, <2>3 DEF RpcTurn
  <2> QED BY <2>2, <2>3
<1>10. e.closed => Turn(e, k) = {Result(e, scripts, FALSE)}
  BY DEF Turn
<1>11. ~e.closed => \/ Stateless(e) /\ Turn(e, k) = PlainTurn(e, k)
                    \/ e.kind = "command" /\ Turn(e, k) = CommandTurn(e, k)
                    \/ e.kind = "codex" /\ Turn(e, k) = CodexTurn(e, k)
                    \/ e.kind = "rpc" /\ Turn(e, k) = RpcTurn(e, k)
                    \/ e.kind \in {"claude", "pi"} /\ Turn(e, k) = SessionIdTurn(e, k)
  BY <1>1, Zenon DEF Turn, AllKinds, Stateless
<1>12. CASE e.closed
  BY <1>3, <1>10, <1>12, Zenon
<1>13. CASE ~e.closed
  BY <1>4, <1>6, <1>7, <1>8, <1>9, <1>11, <1>13, Zenon
<1> QED BY <1>12, <1>13

-----------------------------------------------------------------------------
(* Steps that change the entry of one handle. *)

LEMMA OneHandle ==
  ASSUME SessionsInv, NEW h \in Handle,
         \A g \in Handle \ {h} : /\ entries'[g] = entries[g] /\ host'[g] = host[g] /\ told'[g] = told[g]
                                 /\ (g \in Known /\ entries[g].sid \in Sid)
                                     => (scripts'[entries[g].sid] = scripts[entries[g].sid]),
         Good(entries'[h], host'[h], told'[h], scripts'),
         \/ entries'[h] = Absent
         \/ entries'[h].sid = NoSid
         \/ h \in Known /\ entries'[h].sid = entries[h].sid
         \/ entries'[h].sid \in FreshSid
  PROVE  Handles' /\ SidsApart'
<1>1. \A g \in Handle \ {h} : Good(entries'[g], host'[g], told'[g], scripts')
  <2> SUFFICES ASSUME NEW g \in Handle \ {h} PROVE Good(entries[g], host[g], told[g], scripts')
    OBVIOUS
  <2>1. Good(entries[g], host[g], told[g], scripts)
    BY DEF SessionsInv, Handles
  <2>2. entries[g] # Absent /\ entries[g].sid \in Sid => scripts'[entries[g].sid] = scripts[entries[g].sid]
    BY DEF Known
  <2> QED BY <2>1, <2>2, GoodKept
<1>2. Handles'
  BY <1>1 DEF Handles
<1>3. \A g \in Handle \ {h} : entries'[g] # Absent => g \in Known /\ entries'[g].sid = entries[g].sid
  BY DEF Known
<1>4. SidsApart'
  BY <1>3, SidsKept DEF SessionsInv
<1> QED BY <1>2, <1>4

LEMMA InitInv == Init => SessionsInv
<1> SUFFICES ASSUME Init PROVE SessionsInv
  OBVIOUS
<1>1. Idle \in Call /\ Idle.pc = "idle"
  BY DEF Idle, Call
<1>2. TypeOK
  BY <1>1, BudgetAssumption DEF Init, TypeOK, IsIdle
<1>3. Handles /\ Cuts /\ Known = {}
  BY DEF Init, Handles, Cuts, Good, Known
<1> QED BY <1>1, <1>2, <1>3
        DEF Init, SessionsInv, SidsApart, EphemeralsReleased, DefaultHeld, DefaultIsFresh, Asking, IsIdle

LEMMA Opens ==
  ASSUME SessionsInv, NEW h \in FreshHandle, NEW kind \in Kind, NEW eph \in BOOLEAN, NEW single \in BOOLEAN, single => eph,
         NEW e \in Opened(kind, eph, single), entries' = [entries EXCEPT ![h] = e],
         Register(h, e) \/ Unregistered(h),
         UNCHANGED <<scripts, told>>
  PROVE  /\ Handles' /\ SidsApart' /\ Known' = Known \cup {h} /\ h \in Handle /\ h \notin Known
         /\ entries' \in [Handle -> Entry \cup {Absent}] /\ host' \in [Handle -> Identity \cup {Absent}]
         /\ Cuts' /\ cut' \subseteq Handle /\ (Register(h, e) => host'[h] # Absent)
         /\ entries'[h] = e /\ e.eph = eph /\ e.single = single /\ ~e.closed
         /\ (e.sid = NoSid \/ e.sid \in FreshSid)
         /\ \A g \in Handle \ {h} : entries'[g] = entries[g]
         /\ ConvStep
<1>1. h \in Handle /\ h \notin Known /\ entries[h] = Absent /\ host[h] = Absent /\ told[h] = {}
  <2>1. h \in Handle /\ h \notin Known /\ entries[h] = Absent /\ host[h] = Absent
    BY DEF FreshHandle, Known
  <2>2. Good(entries[h], host[h], told[h], scripts)
    BY <2>1 DEF SessionsInv, Handles
  <2> QED BY <2>1, <2>2, AbsentAssumption DEF Good
<1> DEFINE i == [eph |-> e.eph, continues |-> Continues(e)]
<1>2. /\ e \in Entry /\ e # Absent /\ (e.sid = NoSid \/ e.sid \in FreshSid)
      /\ e.eph = eph /\ e.single = single /\ ~e.closed
      /\ Good(e, i, {}, scripts) /\ Good(e, Absent, {}, scripts)
  BY OpenedGood DEF SessionsInv
<1>3. /\ i \in Identity /\ i # Absent
      /\ \/ host' = [host EXCEPT ![h] = i] /\ cut' = cut \ {h}
         \/ host' = host /\ cut' = cut \cup {h} /\ ~Register(h, e)
  <2>1. i \in Identity /\ i # Absent
    BY <1>2, IdentityTyped, AbsentAssumption
  <2>2. CASE Register(h, e)
    BY <2>1, <2>2 DEF Register
  <2>3. CASE ~Register(h, e)
    BY <2>1, <2>3 DEF Unregistered
  <2> QED BY <2>2, <2>3
<1>4. entries' \in [Handle -> Entry \cup {Absent}] /\ host' \in [Handle -> Identity \cup {Absent}]
  BY <1>1, <1>2, <1>3 DEF SessionsInv, TypeOK
<1>5. /\ \A g \in Handle \ {h} : entries'[g] = entries[g] /\ host'[g] = host[g]
      /\ entries'[h] = e
      /\ \/ host'[h] = i /\ cut' = cut \ {h}
         \/ host'[h] = Absent /\ cut' = cut \cup {h} /\ ~Register(h, e)
  BY <1>1, <1>3 DEF SessionsInv, TypeOK
<1>6. Known' = Known \cup {h}
  BY <1>1, <1>2, <1>5 DEF Known
<1>7. Handles' /\ SidsApart'
  BY <1>1, <1>2, <1>5, OneHandle
<1>8. Cuts' /\ cut' \subseteq Handle
  <2>1. \A g \in Handle \ {h} : g \in cut' <=> g \in cut
    BY <1>5
  <2>2. h \in cut' <=> (host'[h] = Absent <=> entries'[h] # Absent)
    BY <1>2, <1>3, <1>5
  <2>3. Cuts'
    BY <1>5, <2>1, <2>2, CutsKept DEF SessionsInv
  <2> QED BY <1>1, <1>5, <2>3 DEF SessionsInv, TypeOK
<1>9. ConvStep
  <2>1. \A g \in Handle \ {h} : Conv'[g] = Conv[g]
    BY <1>5, TalksOn DEF SessionsInv
  <2>2. Conv'[h] \in {None, {}}
    <3>1. Conv'[h] = Conversation(e)'
      BY <1>1, <1>5 DEF Conv
    <3> QED BY <1>2, <3>1 DEF Conversation, FreshSid
  <2> QED BY <1>1, <2>1, <2>2, OneConv
<1> QED BY <1>1, <1>2, <1>3, <1>4, <1>5, <1>6, <1>7, <1>9, <1>8

\* The ask that Begin starts.
LEMMA Begun ==
  ASSUME TypeOK, NEW pc \in {"compose", "close"}, NEW h, NEW eph \in BOOLEAN, NEW max \in Budget, Begin(pc, h, eph, max)
  PROVE  /\ call'.pc = pc /\ call'.h = h /\ call'.k = asked + 1 /\ call'.attempt = 0 /\ call'.max = max
         /\ call'.follow = FALSE /\ call'.eph = eph
         /\ h \in Handle => call' \in Call
         /\ asked' = asked + 1 /\ asked' \in 0..MaxAsk /\ asked + 1 \in Ask /\ asked + 1 > era /\ era \in 0..asked'
<1>1. asked \in 0..MaxAsk /\ era \in 0..asked /\ asked < MaxAsk /\ max \in Nat
  BY BudgetAssumption DEF TypeOK, Begin
<1>2. asked' = asked + 1 /\ asked' \in 0..MaxAsk /\ asked + 1 \in Ask /\ asked + 1 > era /\ era \in 0..asked' /\ asked + 1 \in Nat
  BY <1>1, BudgetAssumption DEF Begin, Ask
<1> QED BY <1>1, <1>2 DEF Begin, Call

\* A session that no ask goes to yet, named by the host or cut off before that.
LEMMA OpenKeeps ==
  ASSUME SessionsInv, IsIdle, NEW kind \in Kind, NEW h \in FreshHandle, NEW e \in Opened(kind, FALSE, FALSE),
         entries' = [entries EXCEPT ![h] = e], Register(h, e) \/ Unregistered(h), default' \in {default, h},
         UNCHANGED <<scripts, call, told, asked, era>>
  PROVE  Kept
<1>1. /\ Handles' /\ SidsApart' /\ Known' = Known \cup {h} /\ h \in Handle /\ h \notin Known
      /\ entries' \in [Handle -> Entry \cup {Absent}] /\ host' \in [Handle -> Identity \cup {Absent}]
      /\ Cuts' /\ cut' \subseteq Handle /\ (e.sid = NoSid \/ e.sid \in FreshSid)
      /\ entries'[h] = e /\ e.eph = FALSE /\ ConvStep /\ \A g \in Handle \ {h} : entries'[g] = entries[g]
  BY Opens
<1>2. TypeOK'
  BY <1>1 DEF SessionsInv, TypeOK, IsIdle
<1>3. EphemeralsReleased' /\ DefaultHeld' /\ DefaultIsFresh'
  BY <1>1 DEF SessionsInv, EphemeralsReleased, DefaultHeld, DefaultIsFresh, Known, FreshSid
<1>4. Asking'
  BY DEF SessionsInv, Asking, IsIdle
<1> QED BY <1>1, <1>2, <1>3, <1>4 DEF SessionsInv, Kept

LEMMA OpenSessionKeeps == ASSUME SessionsInv, NEW kind \in Kind, OpenSession(kind) PROVE Kept
<1>1. PICK h \in FreshHandle, e \in Opened(kind, FALSE, FALSE) :
         entries' = [entries EXCEPT ![h] = e] /\ (Register(h, e) \/ Unregistered(h))
  BY DEF OpenSession
<1> QED BY <1>1, OpenKeeps DEF OpenSession

\* An ask of a handle that is open already, and named by the host now at the latest.
LEMMA AskOpenKeeps ==
  ASSUME SessionsInv, IsIdle, NEW h \in Known, ~entries[h].eph, NEW max \in Budget, Begin("compose", h, FALSE, max),
         UNCHANGED <<entries, default, scripts, told, era>>,
         IF host[h] = Absent THEN Register(h, entries[h]) ELSE UNCHANGED <<host, cut>>
  PROVE  Kept
<1>1. h \in Handle /\ entries[h] \in Entry /\ Good(entries[h], host[h], told[h], scripts) /\ entries[h] # Absent
  BY KnownGood, AbsentAssumption DEF SessionsInv
<1>2. /\ call'.pc = "compose" /\ call'.h = h /\ call'.k = asked + 1 /\ call'.attempt = 0 /\ call'.max = max
      /\ call'.follow = FALSE /\ call'.eph = FALSE /\ call' \in Call
      /\ asked' \in 0..MaxAsk /\ asked + 1 \in Ask /\ asked + 1 > era /\ era \in 0..asked'
  BY <1>1, Begun DEF SessionsInv
<1>3. /\ host' \in [Handle -> Identity \cup {Absent}] /\ cut' \subseteq Handle /\ host'[h] # Absent
      /\ Good(entries[h], host'[h], told[h], scripts)
      /\ h \in cut' <=> (host'[h] = Absent <=> entries'[h] # Absent)
      /\ \A g \in Handle \ {h} : host'[g] = host[g] /\ (g \in cut' <=> g \in cut)
  <2>1. CASE host[h] # Absent
    BY <1>1, <2>1 DEF SessionsInv, TypeOK, Cuts
  <2>2. CASE host[h] = Absent
    <3> DEFINE i == [eph |-> entries[h].eph, continues |-> Continues(entries[h])]
    <3>1. i \in Identity /\ i # Absent /\ Describes(i, entries[h])
      BY <1>1, IdentityTyped, AbsentAssumption DEF Describes
    <3>2. host' = [host EXCEPT ![h] = i] /\ cut' = cut \ {h}
      BY <2>2 DEF Register
    <3> HIDE DEF i
    <3>3. host' \in [Handle -> Identity \cup {Absent}] /\ host'[h] = i
      BY <1>1, <3>1, <3>2 DEF SessionsInv, TypeOK
    <3>4. Good(entries[h], i, told[h], scripts)
      BY <1>1, <3>1 DEF Good
    <3> QED BY <1>1, <3>1, <3>2, <3>3, <3>4 DEF SessionsInv, TypeOK
  <2> QED BY <2>1, <2>2
<1>4. TypeOK'
  BY <1>2, <1>3 DEF SessionsInv, TypeOK, Known
<1>5. Handles' /\ Cuts'
  <2>1. Cuts'
    BY <1>3, CutsKept DEF SessionsInv
  <2> QED BY <1>3, <2>1 DEF SessionsInv, Handles
<1>6. SidsApart' /\ DefaultHeld' /\ DefaultIsFresh'
  BY DEF SessionsInv, SidsApart, DefaultHeld, DefaultIsFresh, Known
<1>7. EphemeralsReleased'
  <2>1. call = Idle
    BY DEF SessionsInv, Asking
  <2> QED BY <2>1, NullAssumption DEF SessionsInv, EphemeralsReleased, Known, Idle
<1>8. ~entries[h].single /\ entries[h].eph = FALSE
  BY <1>1 DEF Good, Entry
<1>9. Asking'
  <2>1. AskFits(call', entries[h], told[h], era)
    <3> SUFFICES ASSUME NEW e, e = entries[h], NEW c, c = call' PROVE AskFits(c, e, told[h], era)
      OBVIOUS
    <3>1. ~e.single /\ e.eph = FALSE
      BY <1>8
    <3>2. c.pc = "compose" /\ c.k > era /\ c.attempt = 0 /\ c.eph = FALSE
      BY <1>2
    <3>3. c.eph \in BOOLEAN /\ e.eph \in BOOLEAN
      BY <1>1, <1>2 DEF Entry, Call
    <3> QED BY <3>1, <3>2, <3>3 DEF AskFits, Answered
  <2>2. call'.pc # "idle" /\ call'.h = h /\ entries' = entries /\ told' = told /\ era' = era
    BY <1>2
  <2> QED BY <1>3, <2>1, <2>2 DEF Asking, IsIdle
<1> QED BY <1>5, <1>4, <1>6, <1>7, <1>9, SameConv DEF SessionsInv, Kept

\* An ask of a handle that is opened for it.
LEMMA AskNewKeeps ==
  ASSUME SessionsInv, IsIdle, NEW kind \in Kind, NEW max \in Budget, NEW eph \in BOOLEAN, NEW single \in BOOLEAN,
         single => eph /\ max = 1,
         NEW h \in FreshHandle, NEW e \in Opened(kind, eph, single), entries' = [entries EXCEPT ![h] = e],
         \/ Register(h, e) /\ Begin("compose", h, eph, max)
         \/ Unregistered(h) /\ eph /\ Begin("close", h, eph, max),
         UNCHANGED <<scripts, told, era>>,
         default' = default \/ (default' = h /\ ~eph)
  PROVE  Kept
<1>1. /\ ConvStep /\ Handles' /\ SidsApart' /\ Known' = Known \cup {h} /\ h \in Handle /\ h \notin Known
      /\ Cuts' /\ cut' \subseteq Handle /\ (Register(h, e) => host'[h] # Absent)
      /\ entries' \in [Handle -> Entry \cup {Absent}] /\ host' \in [Handle -> Identity \cup {Absent}]
      /\ entries'[h] = e /\ e.eph = eph /\ e.single = single /\ ~e.closed
      /\ (e.sid = NoSid \/ e.sid \in FreshSid)
      /\ \A g \in Handle \ {h} : entries'[g] = entries[g]
  BY ZenonT(60), Opens
<1>2. /\ call'.pc \in {"compose", "close"} /\ (call'.pc = "close" => eph) /\ (call'.pc = "compose" => Register(h, e))
      /\ call'.h = h /\ call'.k = asked + 1 /\ call'.attempt = 0 /\ call'.max = max
      /\ call'.follow = FALSE /\ call'.eph = eph /\ call' \in Call
      /\ asked' \in 0..MaxAsk /\ asked + 1 \in Ask /\ asked + 1 > era /\ era \in 0..asked'
  <2>1. TypeOK /\ h \in Handle
    BY <1>1 DEF SessionsInv
  <2>2. CASE Register(h, e) /\ Begin("compose", h, eph, max)
    BY <2>1, <2>2, Begun
  <2>3. CASE Unregistered(h) /\ eph /\ Begin("close", h, eph, max)
    BY <2>1, <2>3, Begun
  <2> QED BY <2>2, <2>3
<1>3. TypeOK'
  BY <1>1, <1>2 DEF SessionsInv, TypeOK, Known
<1>4. EphemeralsReleased'
  <2>1. call = Idle
    BY DEF SessionsInv, Asking
  <2> QED BY <1>1, <1>2, <2>1, NullAssumption DEF SessionsInv, EphemeralsReleased, Idle, Known
<1>5. DefaultHeld'
  BY <1>1 DEF SessionsInv, DefaultHeld, Known
<1>6. DefaultIsFresh'
  BY <1>1 DEF SessionsInv, DefaultHeld, DefaultIsFresh, FreshSid, Known
<1>7. Asking'
  <2>1. AskFits(call', e, told[h], era)
    BY <1>1, <1>2 DEF AskFits, Answered
  <2>2. call'.pc # "idle" /\ call'.h = h /\ entries'[h] = e /\ told' = told /\ era' = era
    BY <1>1, <1>2
  <2>3. call'.pc \in {"compose", "send", "parse"} => host'[call'.h] # Absent
    BY <1>1, <1>2
  <2> QED BY <2>1, <2>2, <2>3 DEF Asking, IsIdle
<1> QED BY <1>1, <1>3, <1>4, <1>5, <1>6, <1>7 DEF SessionsInv, Kept

LEMMA AskSessionKeeps == ASSUME SessionsInv, NEW h \in Handle, NEW max \in Budget, AskSession(h, max) PROVE Kept
BY AskOpenKeeps DEF AskSession, Held, tables

LEMMA AskKeeps ==
  ASSUME SessionsInv, NEW kind \in Chosen, NEW max \in Budget, AskDefault(kind, max) \/ AskAgent(kind, max)
  PROVE  Kept
<1>1. kind \in Kind
  BY DEF Chosen
<1>2. CASE AskAgent(kind, max)
  <2>1. PICK h \in FreshHandle, e \in Opened(kind, TRUE, max = 1) :
           /\ entries' = [entries EXCEPT ![h] = e]
           /\ \/ Register(h, e) /\ Begin("compose", h, TRUE, max)
              \/ Unregistered(h) /\ Begin("close", h, TRUE, max)
    BY <1>2 DEF AskAgent
  <2>2. IsIdle /\ UNCHANGED <<default, scripts, told, era>>
    BY <1>2 DEF AskAgent
  <2>3. (max = 1) \in BOOLEAN
    OBVIOUS
  <2> QED BY <1>1, <2>1, <2>2, <2>3, AskNewKeeps
<1>3. CASE AskDefault(kind, max) /\ default = NoHandle
  <2>1. PICK g \in FreshHandle, e \in Opened(kind, FALSE, FALSE) :
           /\ entries' = [entries EXCEPT ![g] = e] /\ default' = g
           /\ \/ Register(g, e) /\ Begin("compose", g, FALSE, max)
              \/ Unregistered(g) /\ UNCHANGED <<call, asked>>
    BY <1>3, NullAssumption DEF AskDefault, Usable, Held, Known
  <2>2. IsIdle /\ UNCHANGED <<scripts, told, era>>
    BY <1>3 DEF AskDefault
  <2>3. CASE Register(g, e) /\ Begin("compose", g, FALSE, max)
    BY <1>1, <2>1, <2>2, <2>3, AskNewKeeps
  <2>4. CASE Unregistered(g) /\ UNCHANGED <<call, asked>>
    BY <1>1, <2>1, <2>2, <2>4, OpenKeeps
  <2> QED BY <2>1, <2>3, <2>4
<1>4. CASE AskDefault(kind, max) /\ default # NoHandle
  <2>1. default \in Known /\ ~entries[default].eph
    BY <1>4 DEF SessionsInv, DefaultHeld
  <2> QED BY <1>4, <2>1, AskOpenKeeps DEF AskDefault, Recalled
<1> QED BY <1>2, <1>3, <1>4

-----------------------------------------------------------------------------
(* The retry loop. *)

\* A step that moves only the ask on.
LEMMA CallOnly ==
  ASSUME SessionsInv, ~IsIdle, UNCHANGED <<entries, host, default, scripts, told, asked, era, cut>>,
         \/ call' = Idle /\ ~call.eph
         \/ /\ call' \in Call /\ call'.h = call.h /\ call'.k = call.k /\ call'.eph = call.eph /\ call'.pc # "idle"
            /\ AskFits(call', entries[call.h], told[call.h], era)
            /\ call'.pc = "close" \/ host[call.h] # Absent
  PROVE  Kept
<1>1. call.h \in Known /\ call.k \in Ask /\ call.eph = entries[call.h].eph
  BY CallGood DEF SessionsInv, Asking, AskFits
<1>2. Idle \in Call /\ Idle.pc = "idle"
  BY DEF Idle, Call
<1>3. TypeOK'
  BY <1>1, <1>2 DEF SessionsInv, TypeOK, IsIdle, Known
<1>4. Handles' /\ Cuts' /\ SidsApart' /\ DefaultHeld' /\ DefaultIsFresh'
  BY DEF SessionsInv, Handles, Cuts, SidsApart, DefaultHeld, DefaultIsFresh, Known
<1>5. EphemeralsReleased'
  BY <1>1 DEF SessionsInv, EphemeralsReleased, Known
<1>6. Asking'
  BY <1>2 DEF Asking, IsIdle
<1> QED BY <1>3, <1>4, <1>5, <1>6, SameConv DEF SessionsInv, Kept

LEMMA EndedFits ==
  ASSUME SessionsInv, ~IsIdle, NEW e, NEW t, e.eph = call.eph, e.single = entries[call.h].single
  PROVE  \/ Ended = Idle /\ ~call.eph
         \/ /\ Ended \in Call /\ Ended.h = call.h /\ Ended.k = call.k /\ Ended.eph = call.eph /\ Ended.pc = "close"
            /\ AskFits(Ended, e, t, era) /\ call.eph
<1>1. AskFits(call, entries[call.h], told[call.h], era) /\ call \in Call
  BY CallGood DEF SessionsInv, Asking
<1>2. CASE call.eph
  <2> DEFINE c == [call EXCEPT !.pc = "close"]
  <2>1. /\ c \in Call /\ c.pc = "close" /\ c.h = call.h /\ c.k = call.k /\ c.eph = call.eph
        /\ c.max = call.max /\ c.attempt = call.attempt
    BY <1>1 DEF Call
  <2>2. Ended = c
    BY <1>2 DEF Ended
  <2> HIDE DEF c
  <2> QED BY <1>1, <1>2, <2>1, <2>2 DEF AskFits, Answered
<1>3. CASE ~call.eph
  BY <1>3 DEF Ended
<1> QED BY <1>2, <1>3

LEMMA ComposeKeeps == ASSUME SessionsInv, Compose PROVE Kept
<1> DEFINE e == entries[call.h]
           c == [call EXCEPT !.pc = "send", !.follow = host[call.h].continues /\ call.attempt > 0]
<1>1. ~IsIdle /\ call.pc = "compose" /\ call' = c
  BY DEF Compose, IsIdle
<1>2. AskFits(call, e, told[call.h], era) /\ call \in Call
  BY <1>1, CallGood DEF SessionsInv, Asking
<1>3. host[call.h] # Absent /\ host[call.h].continues = Continues(e) /\ e \in Entry
  BY <1>1, CallGood DEF Compose, Describes
<1>4. /\ c \in Call /\ c.pc = "send" /\ c.h = call.h /\ c.k = call.k /\ c.eph = call.eph
      /\ c.max = call.max /\ c.attempt = call.attempt /\ (c.follow => Continues(e) /\ call.attempt > 0)
  <2>1. (host[call.h].continues /\ call.attempt > 0) \in BOOLEAN
    OBVIOUS
  <2> QED BY <1>2, <1>3, <2>1 DEF Call
<1>5. AskFits(c, e, told[call.h], era)
  <2> HIDE DEF c, e
  <2> QED BY <1>1, <1>2, <1>4 DEF AskFits, Answered
<1> HIDE DEF c
<1> QED BY <1>1, <1>3, <1>4, <1>5, CallOnly DEF Compose, tables

LEMMA ParseKeeps == ASSUME SessionsInv, Parse PROVE Kept
<1> DEFINE e == entries[call.h]
           c == [call EXCEPT !.pc = "compose", !.attempt = @ + 1]
<1>1. /\ ~IsIdle /\ call.pc = "parse" /\ UNCHANGED <<entries, host, default, scripts, told, asked, era, cut>>
      /\ host[call.h] # Absent
  BY DEF Parse, IsIdle, tables, SessionsInv, Asking
<1>2. AskFits(call, e, told[call.h], era) /\ call \in Call
  BY <1>1, CallGood DEF SessionsInv, Asking
<1>3. CASE call' = Ended
  <2>1. e.eph = call.eph
    BY <1>2 DEF AskFits
  <2> QED BY <1>1, <1>3, <2>1, EndedFits, CallOnly
<1>4. CASE call.attempt + 1 < call.max /\ call' = c
  <2>1. call.attempt \in Nat /\ call.max \in Nat
    BY <1>2 DEF Call
  <2>2. /\ c \in Call /\ c.pc = "compose" /\ c.h = call.h /\ c.k = call.k /\ c.eph = call.eph
        /\ c.max = call.max /\ c.attempt = call.attempt + 1
    <3>1. call.attempt + 1 \in Nat
      BY <2>1
    <3> QED BY <1>2, <3>1 DEF Call
  <2>3. AskFits(c, e, told[call.h], era)
    <3> HIDE DEF c, e
    <3>1. c.max > 1
      BY <1>4, <2>1, <2>2
    <3> QED BY <1>1, <1>2, <2>2, <3>1 DEF AskFits, Answered
  <2> HIDE DEF c
  <2> QED BY <1>1, <1>4, <2>2, <2>3, CallOnly
<1> QED BY <1>3, <1>4 DEF Parse

\* The turn of an ask: what is answered is in the transcript of the handle.
LEMMA DispatchKeeps == ASSUME SessionsInv, Dispatch PROVE Kept
<1> DEFINE h == call.h
           k == call.k
           e == entries[call.h]
<1>1. /\ ~IsIdle /\ call.pc = "send" /\ h \in Known /\ h \in Handle /\ k \in Ask /\ call \in Call /\ e \in Entry
      /\ told[h] \in SUBSET Ask /\ Good(e, host[h], told[h], scripts) /\ e # Absent
      /\ AskFits(call, e, told[h], era)
  BY CallGood DEF SessionsInv, Asking, Dispatch, IsIdle
<1>2. PICK r \in Turn(e, k) : /\ entries' = [entries EXCEPT ![h] = r.e] /\ scripts' = r.scripts
                              /\ told' = IF r.ok THEN [told EXCEPT ![h] = @ \cup {k}] ELSE told
                              /\ call' = IF r.ok THEN [call EXCEPT !.pc = "parse"] ELSE Ended
  BY DEF Dispatch
<1>3. UNCHANGED <<host, default, asked, era, cut>> /\ host[h] # Absent
  BY <1>1 DEF Dispatch, SessionsInv, Asking
<1>4. Turned(e, k, r)
  <2>1. (e.kind # "codex" => e.sid \in Sid) /\ (~e.alive => e.kind = "rpc")
    BY <1>1 DEF Good
  <2> QED BY <1>1, <2>1, TurnLegal
<1>5. \E f, sc : /\ entries' = [entries EXCEPT ![h] = f] /\ scripts' = sc
                 /\ \/ /\ Legal(e, k, f, sc, TRUE) /\ told' = [told EXCEPT ![h] = @ \cup {k}]
                       /\ call' = [call EXCEPT !.pc = "parse"]
                    \/ Legal(e, k, f, sc, FALSE) /\ told' = told /\ call' = Ended
  <2>1. PICK f, sc : \/ r = Result(f, sc, TRUE) /\ Legal(e, k, f, sc, TRUE)
                     \/ r = Result(f, sc, FALSE) /\ Legal(e, k, f, sc, FALSE)
    BY <1>4 DEF Turned
  <2> HIDE DEF h, k, e
  <2>2. CASE r = Result(f, sc, TRUE) /\ Legal(e, k, f, sc, TRUE)
    <3>1. r.e = f /\ r.scripts = sc /\ r.ok
      BY <2>2 DEF Result
    <3> QED BY <1>2, <2>2, <3>1
  <2>3. CASE r = Result(f, sc, FALSE) /\ Legal(e, k, f, sc, FALSE)
    <3>1. r.e = f /\ r.scripts = sc /\ ~r.ok
      BY <2>3 DEF Result
    <3> QED BY <1>2, <2>3, <3>1
  <2> QED BY <2>1, <2>2, <2>3
<1>6. PICK f, sc : /\ entries' = [entries EXCEPT ![h] = f] /\ scripts' = sc
                   /\ \/ /\ Legal(e, k, f, sc, TRUE) /\ told' = [told EXCEPT ![h] = @ \cup {k}]
                         /\ call' = [call EXCEPT !.pc = "parse"]
                      \/ Legal(e, k, f, sc, FALSE) /\ told' = told /\ call' = Ended
  BY <1>5
<1>7. /\ f \in Entry /\ f.kind = e.kind /\ f.eph = e.eph /\ f.single = e.single /\ f.closed = e.closed
      /\ f.sid = e.sid \/ (e.sid = NoSid /\ e.kind = "codex" /\ f.sid \in FreshSid)
      /\ f.alive # e.alive => e.kind = "rpc" /\ e.alive
      /\ sc = scripts \/ (f.sid \in Sid /\ sc = Written(f.sid, k) /\ ~e.closed)
      /\ e.kind = "claude" /\ ~f.started => ~e.started /\ sc = scripts
  BY <1>6 DEF Legal
<1>8. \/ /\ told' = [told EXCEPT ![h] = @ \cup {k}] /\ call' = [call EXCEPT !.pc = "parse"]
         /\ ~e.closed /\ (Stateless(e) \/ (f.sid \in Sid /\ sc = Written(f.sid, k)))
      \/ told' = told /\ call' = Ended
  BY <1>6 DEF Legal
<1>9. /\ \A g \in Handle \ {h} : entries'[g] = entries[g] /\ told'[g] = told[g]
      /\ entries'[h] = f /\ told'[h] \in SUBSET Ask /\ (told'[h] = told[h] \/ told'[h] = told[h] \cup {k})
      /\ entries' \in [Handle -> Entry \cup {Absent}] /\ told' \in [Handle -> SUBSET Ask]
      /\ Known' = Known
  BY <1>1, <1>6, <1>7, <1>8, AbsentAssumption DEF SessionsInv, TypeOK, Known
<1>10. /\ scripts' \in [Sid -> SUBSET Ask]
       /\ \A s \in Sid : scripts'[s] = scripts[s] \/ (s = f.sid /\ scripts'[s] = scripts[s] \cup {k})
  BY <1>1, <1>6, <1>7 DEF SessionsInv, TypeOK, Written
<1> HIDE DEF h, k, e
<1>11. \A g \in Handle \ {h} : g \in Known /\ entries[g].sid \in Sid => entries[g].sid # f.sid
  <2> SUFFICES ASSUME NEW g \in Handle \ {h}, g \in Known, entries[g].sid \in Sid, entries[g].sid = f.sid PROVE FALSE
    OBVIOUS
  <2>1. f.sid \notin FreshSid
    BY DEF FreshSid
  <2> QED BY <1>1, <1>7, <2>1, NullAssumption DEF SessionsInv, SidsApart, e, h
<1>12. Good(f, host[h], told'[h], scripts')
  <2>1. Stateless(f) <=> Stateless(e)
    BY <1>7 DEF Stateless
  <2>2. /\ Describes(host[h], f)
        /\ (f.kind # "codex" => f.sid \in Sid) /\ (f.single => f.eph) /\ (~f.alive => f.kind = "rpc")
    BY <1>1, <1>7 DEF Good, Describes, Continues
  <2>3. ~f.closed /\ ~Stateless(f) /\ told'[h] # {} => f.sid \in Sid /\ told'[h] \subseteq scripts'[f.sid]
    <3> SUFFICES ASSUME ~f.closed, ~Stateless(f), told'[h] # {} PROVE f.sid \in Sid /\ told'[h] \subseteq scripts'[f.sid]
      OBVIOUS
    <3>1. told[h] # {} => e.sid \in Sid /\ f.sid = e.sid /\ told[h] \subseteq scripts[f.sid]
      BY <1>1, <1>7, <2>1, NullAssumption DEF Good
    <3>2. told'[h] # told[h] => f.sid \in Sid /\ k \in scripts'[f.sid]
      <4> SUFFICES ASSUME told'[h] # told[h] PROVE f.sid \in Sid /\ k \in scripts'[f.sid]
        OBVIOUS
      <4>1. f.sid \in Sid /\ scripts' = Written(f.sid, k)
        BY <1>6, <1>8, <2>1
      <4> QED BY <4>1 DEF Written, SessionsInv, TypeOK
    <3> QED BY <1>9, <1>10, <3>1, <3>2
  <2>4. ~f.closed /\ f.kind = "claude" /\ ~f.started => scripts'[f.sid] = {}
    BY <1>1, <1>6, <1>7, NullAssumption DEF Good
  <2> QED BY <1>7, <1>9, <2>2, <2>3, <2>4 DEF Good
<1>13. Handles' /\ SidsApart'
  <2>1. \A g \in Handle \ {h} : /\ entries'[g] = entries[g] /\ host'[g] = host[g] /\ told'[g] = told[g]
                                /\ (g \in Known /\ entries[g].sid \in Sid)
                                    => (scripts'[entries[g].sid] = scripts[entries[g].sid])
    BY <1>3, <1>9, <1>10, <1>11
  <2>2. entries'[h].sid = entries[h].sid \/ entries'[h].sid \in FreshSid
    BY <1>7, <1>9 DEF e, h
  <2> QED BY <1>1, <1>3, <1>9, <1>12, <2>1, <2>2, OneHandle
<1>14. \/ call' = Idle /\ ~call.eph
       \/ /\ call' \in Call /\ call'.h = h /\ call'.k = k /\ call'.eph = call.eph /\ call'.pc # "idle"
          /\ AskFits(call', f, told'[h], era)
  <2>1. f.eph = call.eph /\ f.single = entries[call.h].single
    BY <1>1, <1>7 DEF AskFits, e
  <2>2. CASE call' = Ended
    BY <1>1, <2>1, <2>2, EndedFits DEF h, k
  <2>3. CASE /\ told' = [told EXCEPT ![h] = @ \cup {k}] /\ call' = [call EXCEPT !.pc = "parse"]
             /\ ~e.closed /\ (Stateless(e) \/ (f.sid \in Sid /\ sc = Written(f.sid, k)))
    <3>1. /\ call' \in Call /\ call'.pc = "parse" /\ call'.h = h /\ call'.k = k /\ call'.eph = call.eph
          /\ call'.max = call.max /\ call'.attempt = call.attempt
      BY <1>1, <2>3 DEF Call, h, k
    <3>2. k \in told'[h]
      BY <1>1, <2>3 DEF SessionsInv, TypeOK
    <3>3. AskFits(call', f, told'[h], era)
      BY <1>1, <1>7, <2>1, <2>3, <3>1, <3>2 DEF AskFits, Answered, k
    <3> QED BY <3>1, <3>3
  <2> QED BY <1>8, <2>2, <2>3
<1>15. Idle \in Call /\ Idle.pc = "idle" /\ Idle.h = NoHandle
  BY DEF Idle, Call
<1>16. TypeOK'
  BY <1>1, <1>3, <1>9, <1>10, <1>14, <1>15 DEF SessionsInv, TypeOK, IsIdle
<1>17. EphemeralsReleased'
  <2> SUFFICES ASSUME NEW g \in Known, entries'[g].eph PROVE (call'.h = g /\ call'.eph) \/ ~entries'[g].alive
    BY <1>9 DEF EphemeralsReleased
  <2>1. CASE g = h
    <3>1. call.eph
      BY <1>1, <1>7, <1>9, <2>1 DEF AskFits
    <3> QED BY <1>14, <2>1, <3>1
  <2>2. CASE g # h
    <3>1. g \in Handle \ {h} /\ entries'[g] = entries[g]
      BY <1>9, <2>2 DEF Known
    <3> QED BY <2>2, <3>1 DEF SessionsInv, EphemeralsReleased, h
  <2> QED BY <2>1, <2>2
<1>18. DefaultHeld'
  <2> SUFFICES ASSUME default # NoHandle PROVE default \in Known' /\ ~entries'[default].eph
    BY <1>3 DEF DefaultHeld
  <2>1. default \in Known /\ default \in Handle /\ ~entries[default].eph
    BY DEF SessionsInv, DefaultHeld, Known
  <2>2. CASE default = h
    BY <1>7, <1>9, <2>1, <2>2 DEF e, h
  <2>3. CASE default # h
    BY <1>9, <2>1, <2>3
  <2> QED BY <2>2, <2>3
<1>19. DefaultIsFresh'
  <2> SUFFICES ASSUME default # NoHandle, entries'[default].sid # NoSid, NEW a \in scripts'[entries'[default].sid]
               PROVE  a > era
    BY <1>3 DEF DefaultIsFresh
  <2>1. default \in Known /\ default \in Handle
    BY DEF SessionsInv, DefaultHeld, Known
  <2>2. CASE default # h
    <3>1. entries'[default] = entries[default] /\ entries[default].sid \in Sid
      BY <1>9, <2>1, <2>2, KnownGood DEF SessionsInv, Entry
    <3>2. scripts'[entries[default].sid] = scripts[entries[default].sid]
      BY <1>10, <1>11, <2>1, <2>2, <3>1
    <3> QED BY <3>1, <3>2 DEF SessionsInv, DefaultIsFresh
  <2>3. CASE default = h
    <3>1. f.sid \in Sid /\ a \in scripts'[f.sid] /\ k > era
      BY <1>1, <1>7, <1>9, <2>3 DEF Entry, AskFits, k
    <3>2. CASE f.sid = e.sid
      <4>1. \A b \in scripts[f.sid] : b > era
        BY <2>3, <3>1, <3>2, NullAssumption DEF SessionsInv, DefaultIsFresh, e, h
      <4> QED BY <1>10, <3>1, <4>1
    <3>3. CASE f.sid \in FreshSid
      BY <1>10, <3>1, <3>3 DEF FreshSid
    <3> QED BY <1>7, <3>2, <3>3
  <2> QED BY <2>2, <2>3
<1>20. Asking' /\ Cuts'
  <2>1. Asking'
    BY <1>3, <1>9, <1>14, <1>15 DEF Asking, IsIdle
  <2>2. \A g \in Handle : g \in Known' <=> g \in Known
    BY <1>9
  <2>3. Cuts'
    BY <1>3, <2>2 DEF SessionsInv, Cuts, Known
  <2> QED BY <2>1, <2>3
<1>21. ConvStep
  <2>1. \A g \in Handle \ {h} : Conv'[g] = Conv[g]
    BY <1>1, <1>9, <1>10, <1>11, TalksOn DEF SessionsInv
  <2>2. Conv[h] = Conversation(e) /\ Conv'[h] = Conversation(f)'
    BY <1>1, <1>9 DEF Conv, e, h
  <2>3. \/ Conv'[h] \in {None, {}, Conv[h]}
        \/ Conv[h] # None /\ \E b \in Ask : Conv'[h] = Conv[h] \cup {b}
    <3>1. CASE f.closed \/ ~f.alive
      BY <2>2, <3>1 DEF Conversation
    <3>2. CASE ~f.closed /\ f.alive
      <4>1. ~e.closed /\ e.alive /\ e # Absent /\ f # Absent
        BY <1>1, <1>7, <3>2, AbsentAssumption DEF Entry
      <4>2. Conv[h] = IF e.sid = NoSid THEN {} ELSE scripts[e.sid]
        BY <2>2, <4>1 DEF Conversation
      <4>3. Conv'[h] = IF f.sid = NoSid THEN {} ELSE scripts'[f.sid]
        BY <2>2, <3>2, <4>1 DEF Conversation
      <4>4. CASE f.sid = NoSid
        BY <4>3, <4>4
      <4>5. CASE f.sid \in Sid /\ f.sid = e.sid
        <5>1. Conv[h] = scripts[f.sid] /\ Conv'[h] = scripts'[f.sid] /\ Conv[h] \in SUBSET Ask
          BY <1>1, <4>2, <4>3, <4>5, NullAssumption DEF SessionsInv, TypeOK
        <5>2. Conv[h] # None
          BY <5>1, AbsentAssumption
        <5> QED BY <1>1, <1>10, <4>5, <5>1, <5>2
      <4>6. CASE e.sid = NoSid /\ f.sid \in FreshSid
        <5>1. Conv[h] = {} /\ f.sid \in Sid /\ scripts[f.sid] = {} /\ Conv'[h] = scripts'[f.sid]
          BY <4>2, <4>3, <4>6, NullAssumption DEF FreshSid
        <5>2. Conv[h] # None
          BY <5>1, AbsentAssumption
        <5> QED BY <1>1, <1>10, <5>1, <5>2
      <4> QED BY <1>7, <4>4, <4>5, <4>6 DEF Entry
    <3> QED BY <1>7, <3>1, <3>2
  <2> QED BY <1>1, <2>1, <2>3, OneConv
<1> QED BY <1>13, <1>16, <1>17, <1>18, <1>19, <1>20, <1>21 DEF SessionsInv, Kept

LEMMA IdleTyped == Idle \in Call /\ Idle.pc = "idle" /\ Idle.h = NoHandle
BY DEF Idle, Call

-----------------------------------------------------------------------------
(* Teardown: a handle is left alone, loses its process, is marked closed, or is
   dropped by the service and, unless an interrupt comes first, by the host. *)

Less(e, i, t, f, j, u) ==
    \/ f = e /\ j = i /\ u = t
    \/ e # Absent /\ MayRaise(e) /\ f = Raised(e) /\ j = i /\ u = t
    \/ e # Absent /\ ~e.eph /\ f = [e EXCEPT !.closed = TRUE] /\ j = i /\ u = t
    \/ f = Absent /\ j \in {i, Absent} /\ u = {}

LEMMA LessGood ==
  ASSUME NEW e, NEW i, NEW t, NEW f, NEW j, NEW u, Good(e, i, t, scripts), Less(e, i, t, f, j, u)
  PROVE  /\ Good(f, j, u, scripts)
         /\ f # Absent => e # Absent /\ f.sid = e.sid /\ f.eph = e.eph /\ (f.alive => e.alive)
<1>1. CASE f = e /\ j = i /\ u = t
  BY <1>1
<1>2. CASE e # Absent /\ MayRaise(e) /\ f = Raised(e) /\ j = i /\ u = t
  <2>1. e \in Entry /\ e.kind = "rpc" /\ e.alive = TRUE
    BY <1>2 DEF Good, MayRaise, Entry
  <2>2. /\ f \in Entry /\ f.kind = e.kind /\ f.eph = e.eph /\ f.single = e.single /\ f.closed = e.closed
        /\ f.sid = e.sid /\ f.started = e.started /\ f.alive = FALSE
    BY <1>2, <2>1 DEF Raised, Entry
  <2> QED BY <1>2, <2>1, <2>2 DEF Good, Describes, Continues, Stateless
<1>3. CASE e # Absent /\ ~e.eph /\ f = [e EXCEPT !.closed = TRUE] /\ j = i /\ u = t
  <2>1. e \in Entry
    BY <1>3 DEF Good
  <2>2. /\ f \in Entry /\ f.kind = e.kind /\ f.eph = e.eph /\ f.single = e.single /\ f.closed = TRUE
        /\ f.sid = e.sid /\ f.started = e.started /\ f.alive = e.alive
    BY <1>3, <2>1 DEF Entry
  <2> QED BY <1>3, <2>1, <2>2 DEF Good, Describes, Continues
<1>4. CASE f = Absent /\ j \in {i, Absent} /\ u = {}
  BY <1>4 DEF Good, Describes
<1> QED BY <1>1, <1>2, <1>3, <1>4 DEF Less

LEMMA Lessens ==
  ASSUME SessionsInv, UNCHANGED <<scripts, asked>>, call' = Idle,
         entries' \in [Handle -> Entry \cup {Absent}], host' \in [Handle -> Identity \cup {Absent}],
         told' \in [Handle -> SUBSET Ask], cut' \subseteq Handle, Cuts',
         \A h \in Handle : Less(entries[h], host[h], told[h], entries'[h], host'[h], told'[h]),
         \A h \in Known' : call.h = h /\ call.eph => ~entries'[h].alive,
         \/ default' = NoHandle /\ era' \in 0..asked
         \/ default' = default /\ era' = era /\ (default # NoHandle => entries'[default] # Absent)
  PROVE  Kept
<1>1. \A h \in Handle : /\ Good(entries'[h], host'[h], told'[h], scripts)
                        /\ entries'[h] # Absent => /\ h \in Known /\ entries'[h].sid = entries[h].sid
                                                   /\ entries'[h].eph = entries[h].eph
                                                   /\ entries'[h].alive => entries[h].alive
  BY LessGood DEF SessionsInv, Handles, Known
<1>2. Handles'
  BY <1>1 DEF Handles
<1>3. SidsApart'
  <2>1. \A h \in Known' : h \in Known /\ entries'[h].sid = entries[h].sid
    BY <1>1 DEF Known
  <2> QED BY <2>1 DEF SessionsInv, SidsApart
<1>4. TypeOK'
  BY IdleTyped DEF SessionsInv, TypeOK, IsIdle
<1>5. EphemeralsReleased'
  <2> SUFFICES ASSUME NEW h \in Known', entries'[h].eph PROVE ~entries'[h].alive
    BY DEF EphemeralsReleased
  <2>1. h \in Handle /\ h \in Known /\ entries[h].eph /\ (entries'[h].alive => entries[h].alive)
    BY <1>1 DEF Known
  <2> QED BY <2>1 DEF SessionsInv, EphemeralsReleased
<1>6. DefaultHeld' /\ DefaultIsFresh'
  <2> SUFFICES ASSUME default' # NoHandle
               PROVE  /\ default' \in Known' /\ ~entries'[default'].eph
                      /\ entries'[default'].sid # NoSid => \A k \in scripts'[entries'[default'].sid] : k > era'
    BY DEF DefaultHeld, DefaultIsFresh
  <2>1. /\ default' = default /\ era' = era /\ default \in Known /\ default \in Handle
        /\ ~entries[default].eph /\ entries'[default] # Absent
    BY DEF SessionsInv, DefaultHeld, Known
  <2>2. entries'[default].sid = entries[default].sid /\ entries'[default].eph = entries[default].eph
    BY <1>1, <2>1
  <2> QED BY <2>1, <2>2 DEF SessionsInv, DefaultIsFresh, Known
<1>7. Asking'
  BY IdleTyped DEF Asking, IsIdle
<1>8. ConvStep
  <2> SUFFICES ASSUME NEW h \in Handle PROVE Conv'[h] \in {None, Conv[h]}
    BY DropConv
  <2> DEFINE e == entries[h]
             f == entries'[h]
  <2>1. Conv[h] = Conversation(e) /\ Conv'[h] = Conversation(e)'
    BY DEF Conv
  <2>2. Less(e, host[h], told[h], f, host'[h], told'[h]) /\ (e # Absent => e \in Entry)
    BY DEF SessionsInv, TypeOK
  <2>3. f = e => Conv'[h] = Conv[h]
    BY <2>1 DEF Conversation
  <2>4. e # Absent /\ f = Raised(e) => ~f.alive
    BY <2>2 DEF Raised, Entry
  <2>5. e # Absent /\ f = [e EXCEPT !.closed = TRUE] => f.closed
    BY <2>2 DEF Entry
  <2>6. f = Absent \/ f.closed \/ ~f.alive => Conv'[h] = None
    BY <2>1 DEF Conversation
  <2> HIDE DEF e, f
  <2> QED BY <2>2, <2>3, <2>4, <2>5, <2>6 DEF Less
<1> QED BY <1>2, <1>3, <1>4, <1>5, <1>6, <1>7, <1>8 DEF SessionsInv, Kept

\* One handle lost its process.
LEMMA RaisedKeeps ==
  ASSUME SessionsInv, IsIdle, NEW h \in Known, MayRaise(entries[h]), entries' = [entries EXCEPT ![h] = Raised(@)],
         UNCHANGED <<host, default, scripts, call, told, asked, era, cut>>
  PROVE  Kept
<1>1. h \in Handle /\ entries[h] \in Entry /\ entries[h] # Absent
  BY KnownGood, AbsentAssumption DEF SessionsInv
<1>2. Raised(entries[h]) \in Entry
  BY <1>1 DEF Raised, Entry
<1>3. entries' \in [Handle -> Entry \cup {Absent}] /\ \A g \in Handle \ {h} : entries'[g] = entries[g]
  BY <1>1, <1>2 DEF SessionsInv, TypeOK
<1>4. entries'[h] = Raised(entries[h]) /\ entries'[h] # Absent
  BY <1>1, <1>2, AbsentAssumption DEF SessionsInv, TypeOK
<1>5. \A g \in Handle : Less(entries[g], host[g], told[g], entries'[g], host'[g], told'[g])
  BY <1>1, <1>3, <1>4 DEF Less
<1>6. call = Idle /\ call.h = NoHandle
  BY IdleTyped DEF SessionsInv, Asking
<1>7. default # NoHandle => entries'[default] # Absent
  BY <1>3, <1>4 DEF SessionsInv, DefaultHeld, Known
<1>8. \A g \in Known' : call.h # g
  BY <1>6, NullAssumption DEF Known
<1>9. Cuts'
  BY <1>1, <1>3, <1>4 DEF SessionsInv, Cuts
<1> QED BY <1>3, <1>5, <1>6, <1>7, <1>8, <1>9, Lessens DEF SessionsInv, TypeOK

LEMMA QueryKeeps == ASSUME SessionsInv, NEW h \in Handle, Query(h) PROVE Kept
BY RaisedKeeps DEF Query, Held

\* What CloseHandle does to the tables.
LEMMA CloseHandleLess ==
  ASSUME SessionsInv, NEW h \in Known, CloseHandle(h), ~entries[h].eph => host[h] # Absent
  PROVE  /\ entries' \in [Handle -> Entry \cup {Absent}] /\ host' \in [Handle -> Identity \cup {Absent}]
         /\ told' \in [Handle -> SUBSET Ask] /\ cut' \subseteq Handle /\ Cuts'
         /\ \A g \in Handle : Less(entries[g], host[g], told[g], entries'[g], host'[g], told'[g])
         /\ \A g \in Handle \ {h} : entries'[g] = entries[g]
         /\ IF entries[h].eph THEN h \in Known' => ~entries'[h].alive ELSE entries'[h] # Absent
<1> DEFINE e == entries[h]
<1>1. /\ h \in Handle /\ e \in Entry /\ e # Absent /\ Describes(host[h], e) /\ Good(e, host[h], told[h], scripts)
      /\ e.eph \in BOOLEAN /\ (host[h] # Absent => host[h].eph = e.eph)
  BY KnownGood DEF SessionsInv, Describes, Entry
<1>2. /\ TypeOK /\ cut \subseteq Handle /\ Cuts
      /\ entries \in [Handle -> Entry \cup {Absent}] /\ host \in [Handle -> Identity \cup {Absent}]
      /\ told \in [Handle -> SUBSET Ask]
  BY DEF SessionsInv, TypeOK
<1>3. CASE MayRaise(e) /\ entries' = [entries EXCEPT ![h] = Raised(@)] /\ UNCHANGED <<host, told, cut>>
  <2>1. Raised(e) \in Entry /\ Raised(e).alive = FALSE
    BY <1>1 DEF Raised, Entry
  <2>2. /\ entries' \in [Handle -> Entry \cup {Absent}] /\ entries'[h] = Raised(e) /\ entries'[h] # Absent
        /\ \A g \in Handle \ {h} : entries'[g] = entries[g]
    BY <1>1, <1>2, <1>3, <2>1, AbsentAssumption
  <2>3. \A g \in Handle : Less(entries[g], host[g], told[g], entries'[g], host'[g], told'[g])
    BY <1>1, <1>3, <2>2 DEF Less
  <2>4. Cuts'
    BY <1>1, <1>2, <1>3, <2>2 DEF Cuts
  <2> QED BY <1>2, <1>3, <2>1, <2>2, <2>3, <2>4
<1>4. CASE /\ entries' = [entries EXCEPT ![h] = Shut(@)]
           /\ told' = Forgotten(IF entries[h].eph THEN {h} ELSE {})
           /\ \/ host' = Retire(h) /\ cut' = cut \ {h}
              \/ entries[h].eph /\ host[h] # Absent /\ Unregistered(h)
  <2>1. /\ told' \in [Handle -> SUBSET Ask] /\ (\A g \in Handle \ {h} : told'[g] = told[g])
        /\ told'[h] = IF e.eph THEN {} ELSE told[h]
    BY <1>1, <1>2, <1>4 DEF Forgotten
  <2>2. /\ \A g \in Handle \ {h} : entries'[g] = entries[g] /\ host'[g] = host[g] /\ (g \in cut' <=> g \in cut)
        /\ cut' \subseteq Handle /\ entries'[h] = Shut(e)
    BY <1>1, <1>2, <1>4 DEF Retire, Unregistered
  <2>3. CASE e.eph
    <3>1. Shut(e) = Absent /\ entries' \in [Handle -> Entry \cup {Absent}] /\ entries'[h] = Absent
      BY <1>1, <1>2, <1>4, <2>3 DEF Shut
    <3>2. /\ host' \in [Handle -> Identity \cup {Absent}] /\ host'[h] \in {host[h], Absent}
          /\ h \in cut' <=> host'[h] # Absent
      BY <1>1, <1>2, <1>4, <2>3 DEF Retire, Unregistered
    <3>3. \A g \in Handle : Less(entries[g], host[g], told[g], entries'[g], host'[g], told'[g])
      BY <2>1, <2>2, <2>3, <3>1, <3>2 DEF Less
    <3>4. Cuts'
      BY <1>2, <2>2, <3>1, <3>2, CutsKept
    <3> QED BY <2>1, <2>2, <2>3, <3>1, <3>2, <3>3, <3>4 DEF Known
  <2>4. CASE ~e.eph
    <3>1. Shut(e) = [e EXCEPT !.closed = TRUE] /\ Shut(e) \in Entry /\ Shut(e) # Absent
      BY <1>1, <2>4, AbsentAssumption DEF Shut, Entry
    <3>2. host' = host /\ cut' = cut \ {h} /\ h \notin cut
      BY <1>1, <1>2, <1>4, <2>4 DEF Retire, Cuts
    <3>3. entries' \in [Handle -> Entry \cup {Absent}]
      BY <1>1, <1>2, <1>4, <3>1
    <3>4. \A g \in Handle : Less(entries[g], host[g], told[g], entries'[g], host'[g], told'[g])
      BY <1>1, <2>1, <2>2, <2>4, <3>1, <3>2 DEF Less
    <3>5. Cuts'
      BY <1>1, <1>2, <2>2, <3>1, <3>2, CutsKept DEF Cuts
    <3> QED BY <1>2, <2>1, <2>2, <2>4, <3>1, <3>2, <3>3, <3>4, <3>5
  <2> QED BY <2>3, <2>4
<1> QED BY <1>3, <1>4 DEF CloseHandle

LEMMA CloseKeeps == ASSUME SessionsInv, NEW h \in Handle, Close(h) PROVE Kept
<1>1. /\ h \in Known /\ ~entries[h].eph /\ host[h] # Absent /\ CloseHandle(h)
      /\ UNCHANGED <<default, scripts, call, asked, era>> /\ IsIdle
  BY DEF Close, Held
<1>2. call = Idle /\ call.h = NoHandle
  BY <1>1, IdleTyped DEF SessionsInv, Asking
<1>3. default # NoHandle => entries'[default] # Absent
  BY <1>1, CloseHandleLess DEF SessionsInv, DefaultHeld, Known
<1>4. \A g \in Known' : call.h # g
  BY <1>2, NullAssumption DEF Known
<1> QED BY <1>1, <1>2, <1>3, <1>4, CloseHandleLess, Lessens

LEMMA EndEphemeralKeeps == ASSUME SessionsInv, EndEphemeral PROVE Kept
<1>1. /\ ~IsIdle /\ call.pc = "close" /\ CloseHandle(call.h) /\ call' = Idle /\ UNCHANGED <<default, scripts, asked, era>>
      /\ call.h \in Known
  BY CallGood DEF EndEphemeral, IsIdle
<1>2. call.eph /\ call.eph = entries[call.h].eph
  BY <1>1 DEF SessionsInv, Asking, AskFits
<1>3. default # NoHandle => default # call.h /\ entries'[default] # Absent
  BY <1>1, <1>2, CloseHandleLess DEF SessionsInv, DefaultHeld, Known
<1>4. \A g \in Known' : call.h = g /\ call.eph => ~entries'[g].alive
  BY <1>1, <1>2, CloseHandleLess
<1> QED BY <1>1, <1>2, <1>3, <1>4, CloseHandleLess, Lessens

-----------------------------------------------------------------------------
(* Sweeps. *)

LEMMA SweepLess ==
  ASSUME SessionsInv, NEW discard \in BOOLEAN, Sweep(discard)
  PROVE  /\ entries' \in [Handle -> Entry \cup {Absent}] /\ host' \in [Handle -> Identity \cup {Absent}]
         /\ told' \in [Handle -> SUBSET Ask] /\ cut' \subseteq Handle /\ Cuts'
         /\ \A g \in Handle : Less(entries[g], host[g], told[g], entries'[g], host'[g], told'[g])
         /\ ~discard => \A g \in Known : ~entries[g].eph => entries'[g] # Absent
<1>1. PICK done \in SUBSET Known : \E bad \in SUBSET {h \in done : ~entries[h].closed /\ MayRaise(entries[h])} :
        LET after(h) == IF h \notin done THEN entries[h]
                        ELSE IF h \in bad THEN Raised(entries[h])
                        ELSE IF discard THEN Absent
                        ELSE IF entries[h].closed THEN entries[h] ELSE Shut(entries[h])
            gone == {h \in Handle : after(h) = Absent}
        IN  \E left \in SUBSET {h \in gone : host[h] # Absent} :
              /\ entries' = [h \in Handle |-> after(h)]
              /\ host' = [h \in Handle |-> IF h \in gone \ left THEN Absent ELSE host[h]]
              /\ told' = Forgotten(gone)
              /\ cut' = (cut \ gone) \cup left
  BY Zenon DEF Sweep
<1>bad. PICK bad \in SUBSET {h \in done : ~entries[h].closed /\ MayRaise(entries[h])} :
        LET after(h) == IF h \notin done THEN entries[h]
                        ELSE IF h \in bad THEN Raised(entries[h])
                        ELSE IF discard THEN Absent
                        ELSE IF entries[h].closed THEN entries[h] ELSE Shut(entries[h])
            gone == {h \in Handle : after(h) = Absent}
        IN  \E left \in SUBSET {h \in gone : host[h] # Absent} :
              /\ entries' = [h \in Handle |-> after(h)]
              /\ host' = [h \in Handle |-> IF h \in gone \ left THEN Absent ELSE host[h]]
              /\ told' = Forgotten(gone)
              /\ cut' = (cut \ gone) \cup left
  BY <1>1, Zenon
<1> DEFINE after(h) == IF h \notin done THEN entries[h]
                       ELSE IF h \in bad THEN Raised(entries[h])
                       ELSE IF discard THEN Absent
                       ELSE IF entries[h].closed THEN entries[h] ELSE Shut(entries[h])
<1> DEFINE gone == {h \in Handle : after(h) = Absent}
<1>2. PICK left \in SUBSET {h \in gone : host[h] # Absent} :
         /\ entries' = [h \in Handle |-> after(h)]
         /\ host' = [h \in Handle |-> IF h \in gone \ left THEN Absent ELSE host[h]]
         /\ told' = Forgotten(gone)
         /\ cut' = (cut \ gone) \cup left
  BY <1>bad, Zenon
<1>3. \A h \in Known : /\ h \in Handle /\ entries[h] \in Entry /\ entries[h] # Absent /\ entries[h].eph \in BOOLEAN
                       /\ Raised(entries[h]) \in Entry /\ [entries[h] EXCEPT !.closed = TRUE] \in Entry
  <2> SUFFICES ASSUME NEW h \in Known
               PROVE  /\ h \in Handle /\ entries[h] \in Entry /\ entries[h] # Absent /\ entries[h].eph \in BOOLEAN
                      /\ Raised(entries[h]) \in Entry /\ [entries[h] EXCEPT !.closed = TRUE] \in Entry
    OBVIOUS
  <2>1. h \in Handle /\ entries[h] \in Entry /\ entries[h] # Absent
    BY KnownGood, AbsentAssumption DEF SessionsInv
  <2> QED BY <2>1 DEF Raised, Entry
<1>4. \A h \in Known : /\ \/ after(h) = entries[h]
                          \/ MayRaise(entries[h]) /\ after(h) = Raised(entries[h])
                          \/ ~entries[h].eph /\ after(h) = [entries[h] EXCEPT !.closed = TRUE]
                          \/ after(h) = Absent
                       /\ ~discard /\ ~entries[h].eph => after(h) # Absent
  <2> SUFFICES ASSUME NEW h \in Known
               PROVE  /\ \/ after(h) = entries[h]
                         \/ MayRaise(entries[h]) /\ after(h) = Raised(entries[h])
                         \/ ~entries[h].eph /\ after(h) = [entries[h] EXCEPT !.closed = TRUE]
                         \/ after(h) = Absent
                      /\ ~discard /\ ~entries[h].eph => after(h) # Absent
    OBVIOUS
  <2>1. h \in bad => MayRaise(entries[h])
    BY <1>1
  <2> HIDE DEF Raised, MayRaise
  <2> QED BY <1>3, <2>1, AbsentAssumption, Zenon DEF Shut
<1>5. \A h \in Handle \ Known : after(h) = Absent /\ entries[h] = Absent /\ told[h] = {}
  <2> SUFFICES ASSUME NEW h \in Handle \ Known PROVE after(h) = Absent /\ entries[h] = Absent /\ told[h] = {}
    OBVIOUS
  <2>1. entries[h] = Absent /\ h \notin done
    BY <1>1 DEF Known
  <2>2. Good(entries[h], host[h], told[h], scripts)
    BY DEF SessionsInv, Handles
  <2> QED BY <2>1, <2>2, AbsentAssumption DEF Good
<1>6. /\ cut \subseteq Handle /\ Cuts /\ host \in [Handle -> Identity \cup {Absent}]
      /\ told \in [Handle -> SUBSET Ask] /\ left \subseteq Handle
  BY DEF SessionsInv, TypeOK
<1> HIDE DEF after
<1>7. \A h \in Handle : /\ entries'[h] = after(h) /\ (after(h) # Absent => h \in Known)
                        /\ host'[h] = (IF after(h) = Absent /\ h \notin left THEN Absent ELSE host[h])
                        /\ told'[h] = (IF after(h) = Absent THEN {} ELSE told[h])
                        /\ h \in cut' <=> (h \in cut /\ after(h) # Absent) \/ h \in left
                        /\ h \in left => after(h) = Absent /\ host[h] # Absent
  BY <1>2, <1>5 DEF Forgotten
<1>8. \A h \in Known : after(h) \in Entry \cup {Absent}
  BY <1>3, <1>4
<1>9. entries' \in [Handle -> Entry \cup {Absent}]
  BY <1>2, <1>5, <1>8
<1>10. host' \in [Handle -> Identity \cup {Absent}] /\ told' \in [Handle -> SUBSET Ask] /\ cut' \subseteq Handle
  BY <1>2, <1>6 DEF Forgotten
<1>11. Cuts'
  <2> SUFFICES ASSUME NEW h \in Handle PROVE h \in cut' <=> (host'[h] = Absent <=> entries'[h] # Absent)
    BY DEF Cuts
  <2>1. h \in cut <=> (host[h] = Absent <=> entries[h] # Absent)
    BY <1>6 DEF Cuts
  <2>2. after(h) # Absent => entries[h] # Absent
    BY <1>7 DEF Known
  <2> QED BY <1>7, <2>1, <2>2
<1>12. \A h \in Handle : Less(entries[h], host[h], told[h], entries'[h], host'[h], told'[h])
  <2> SUFFICES ASSUME NEW h \in Handle PROVE Less(entries[h], host[h], told[h], entries'[h], host'[h], told'[h])
    OBVIOUS
  <2>1. CASE after(h) = Absent
    BY <1>7, <2>1 DEF Less
  <2>2. CASE after(h) # Absent
    <3>1. h \in Known /\ entries'[h] = after(h) /\ host'[h] = host[h] /\ told'[h] = told[h] /\ entries[h] # Absent
      BY <1>3, <1>7, <2>2
    <3> QED BY <1>4, <2>2, <3>1 DEF Less
  <2> QED BY <2>1, <2>2
<1>13. ~discard => \A g \in Known : ~entries[g].eph => entries'[g] # Absent
  BY <1>3, <1>4, <1>7
<1> QED BY <1>9, <1>10, <1>11, <1>12, <1>13

LEMMA SweepKeeps ==
  ASSUME SessionsInv, IsIdle, NEW discard \in BOOLEAN, Sweep(discard), UNCHANGED <<scripts, call, asked>>,
         \/ default' = NoHandle /\ era' = asked
         \/ ~discard /\ default' = default /\ era' = era
  PROVE  Kept
<1>1. call' = Idle /\ call.h = NoHandle
  BY IdleTyped DEF SessionsInv, Asking
<1>2. \A g \in Known' : call.h # g
  BY <1>1, NullAssumption DEF Known
<1>3. ~discard /\ default # NoHandle => entries'[default] # Absent
  BY SweepLess DEF SessionsInv, DefaultHeld
<1>4. asked \in 0..asked
  BY BudgetAssumption DEF SessionsInv, TypeOK
<1> QED BY <1>1, <1>2, <1>3, <1>4, SweepLess, Lessens

LEMMA ResetAllKeeps == ASSUME SessionsInv, ResetAll PROVE Kept
BY SweepKeeps DEF ResetAll

LEMMA CloseAllKeeps == ASSUME SessionsInv, CloseAll PROVE Kept
BY SweepKeeps DEF CloseAll

-----------------------------------------------------------------------------
(* Reset and fork. *)

LEMMA ResetKeeps == ASSUME SessionsInv, NEW h \in Handle, Reset(h) PROVE Kept
<1> DEFINE e == entries[h]
<1>1. /\ IsIdle /\ h \in Known /\ e \in Entry /\ e # Absent /\ Good(e, host[h], told[h], scripts) /\ ~e.eph /\ ~e.closed
      /\ call = Idle /\ call.h = NoHandle
  BY KnownGood, IdleTyped, AbsentAssumption DEF Reset, Usable, Held, SessionsInv, Asking
<1>2. CASE MayRaise(entries[h]) /\ entries' = [entries EXCEPT ![h] = Raised(@)] /\ UNCHANGED told
  BY <1>1, <1>2, RaisedKeeps DEF Reset
<1>3. CASE /\ \E f \in Restarted(entries[h]) : entries' = [entries EXCEPT ![h] = f]
           /\ told' = [told EXCEPT ![h] = {}]
  <2>1. PICK f \in Restarted(e) : entries' = [entries EXCEPT ![h] = f]
    BY <1>3
  <2>2. UNCHANGED <<host, default, scripts, call, asked, era, cut>>
    BY DEF Reset
  <2>3. PICK s \in Sid \cup {NoSid} : /\ f = [e EXCEPT !.sid = s, !.started = FALSE]
                                      /\ (s = NoSid /\ e.kind = "codex") \/ s \in FreshSid
    BY <2>1 DEF Restarted, FreshSid
  <2>4. /\ f \in Entry /\ f.kind = e.kind /\ f.eph = e.eph /\ f.single = e.single /\ f.closed = e.closed
        /\ f.sid = s /\ f.started = FALSE /\ f.alive = e.alive
    BY <1>1, <2>3 DEF Entry
  <2>5. s \in FreshSid => s \in Sid /\ scripts[s] = {}
    BY DEF FreshSid
  <2>6. Good(f, host[h], {}, scripts)
    BY <1>1, <2>3, <2>4, <2>5 DEF Good, Describes, Continues
  <2>7. /\ entries' \in [Handle -> Entry \cup {Absent}] /\ told' \in [Handle -> SUBSET Ask]
        /\ entries'[h] = f /\ told'[h] = {} /\ f # Absent
        /\ \A g \in Handle \ {h} : entries'[g] = entries[g] /\ told'[g] = told[g]
    BY <1>3, <2>1, <2>4, AbsentAssumption DEF SessionsInv, TypeOK
  <2>8. Handles' /\ SidsApart'
    BY ZenonT(60), <2>2, <2>3, <2>4, <2>6, <2>7, OneHandle
  <2>9. TypeOK'
    BY <1>1, <2>2, <2>7 DEF SessionsInv, TypeOK, IsIdle
  <2>10. EphemeralsReleased' /\ DefaultHeld'
    BY <1>1, <2>2, <2>4, <2>7 DEF SessionsInv, EphemeralsReleased, DefaultHeld, Known
  <2>11. DefaultIsFresh'
    BY <2>2, <2>3, <2>4, <2>5, <2>7 DEF SessionsInv, DefaultIsFresh, DefaultHeld, Known
  <2>12. Asking' /\ Cuts'
    <3>1. Asking'
      BY <1>1, <2>2, IdleTyped DEF Asking, IsIdle
    <3>2. \A g \in Handle : entries'[g] # Absent <=> entries[g] # Absent
      BY <1>1, <2>7
    <3> QED BY <2>2, <3>1, <3>2 DEF SessionsInv, Cuts
  <2>13. ConvStep
    <3>1. \A g \in Handle \ {h} : Conv'[g] = Conv[g]
      BY <2>2, <2>7, TalksOn DEF SessionsInv
    <3>2. Conv'[h] = Conversation(f)'
      BY <2>7 DEF Conv
    <3>3. Conv'[h] \in {None, {}}
      BY <2>2, <2>3, <2>4, <2>5, <3>2 DEF Conversation
    <3> QED BY <3>1, <3>3, OneConv
  <2> QED BY <2>8, <2>9, <2>10, <2>11, <2>12, <2>13 DEF SessionsInv, Kept
<1> QED BY <1>2, <1>3 DEF Reset

LEMMA ForkKeeps == ASSUME SessionsInv, NEW h \in Handle, Fork(h) PROVE Kept
<1> DEFINE e == entries[h]
<1>1. /\ IsIdle /\ h \in Known /\ e \in Entry /\ e # Absent /\ Good(e, host[h], told[h], scripts) /\ ~e.eph /\ ~e.closed
      /\ call = Idle /\ call.h = NoHandle /\ told[h] \in SUBSET Ask
      /\ host[h] # Absent /\ Describes(host[h], e)
  BY KnownGood, IdleTyped, AbsentAssumption DEF Fork, Usable, Held, SessionsInv, Asking
<1>2. CASE MayRaise(entries[h]) /\ entries' = [entries EXCEPT ![h] = Raised(@)] /\ UNCHANGED <<host, scripts, told, cut>>
  BY <1>1, <1>2, RaisedKeeps DEF Fork
<1>3. CASE /\ \/ e.kind \in {"claude", "pi"} /\ (e.started => scripts[e.sid] # {})
              \/ e.kind = "rpc" /\ e.alive
           /\ \E c \in FreshHandle, s \in FreshSid :
                /\ entries' = [entries EXCEPT ![c] = Branch(e, s)]
                /\ \/ /\ host' = [host EXCEPT ![c] = [host[h] EXCEPT !.eph = FALSE]]
                      /\ cut' = cut \ {c}
                   \/ Unregistered(c)
                /\ scripts' = [scripts EXCEPT ![s] = scripts[e.sid]]
                /\ told' = [told EXCEPT ![c] = told[h]]
  <2>1. PICK c \in FreshHandle, s \in FreshSid :
                /\ entries' = [entries EXCEPT ![c] = Branch(e, s)]
                /\ \/ /\ host' = [host EXCEPT ![c] = [host[h] EXCEPT !.eph = FALSE]]
                      /\ cut' = cut \ {c}
                   \/ Unregistered(c)
                /\ scripts' = [scripts EXCEPT ![s] = scripts[e.sid]]
                /\ told' = [told EXCEPT ![c] = told[h]]
    BY <1>3
  <2>2. UNCHANGED <<default, call, asked, era>>
    BY DEF Fork
  <2>3. c \in Handle /\ c \notin Known /\ entries[c] = Absent /\ host[c] = Absent /\ s \in Sid /\ scripts[s] = {} /\ e.sid \in Sid /\ e.sid # s
    BY <1>1, <1>3 DEF FreshHandle, FreshSid, Known, Good
  <2> DEFINE f == Branch(e, s)
             i == [host[h] EXCEPT !.eph = FALSE]
  <2>4. /\ f \in Entry /\ f.kind = e.kind /\ f.eph = FALSE /\ f.single = e.single /\ f.closed = e.closed
        /\ f.sid = s /\ f.started = e.started /\ f.alive = e.alive /\ f # Absent
        /\ i \in Identity /\ i.eph = FALSE /\ i.continues = Continues(e)
    <3>1. /\ f \in Entry /\ f.kind = e.kind /\ f.eph = FALSE /\ f.single = e.single /\ f.closed = e.closed
          /\ f.sid = s /\ f.started = e.started /\ f.alive = e.alive
      BY <1>1, <2>3 DEF Branch, Entry
    <3>2. i \in Identity /\ i.eph = FALSE /\ i.continues = Continues(e)
      BY <1>1 DEF Describes, Identity
    <3> QED BY <3>1, <3>2, AbsentAssumption
  <2> HIDE DEF f, i
  <2>5. /\ entries' \in [Handle -> Entry \cup {Absent}] /\ host' \in [Handle -> Identity \cup {Absent}]
        /\ scripts' \in [Sid -> SUBSET Ask] /\ told' \in [Handle -> SUBSET Ask]
        /\ entries'[c] = f /\ told'[c] = told[h] /\ cut' \subseteq Handle
        /\ \/ host'[c] = i /\ c \notin cut'
           \/ host'[c] = Absent /\ c \in cut'
        /\ \A g \in Handle \ {c} : /\ entries'[g] = entries[g] /\ host'[g] = host[g] /\ told'[g] = told[g]
                                   /\ g \in cut' <=> g \in cut
        /\ scripts'[s] = scripts[e.sid] /\ \A t \in Sid \ {s} : scripts'[t] = scripts[t]
    <3>1. /\ entries \in [Handle -> Entry \cup {Absent}] /\ host \in [Handle -> Identity \cup {Absent}]
          /\ scripts \in [Sid -> SUBSET Ask] /\ told \in [Handle -> SUBSET Ask] /\ cut \subseteq Handle
      BY DEF SessionsInv, TypeOK
    <3>2. /\ entries' = [entries EXCEPT ![c] = f]
          /\ \/ host' = [host EXCEPT ![c] = i] /\ cut' = cut \ {c}
             \/ host' = host /\ cut' = cut \cup {c}
      BY <2>1 DEF Unregistered, f, i
    <3>3. /\ entries' \in [Handle -> Entry \cup {Absent}] /\ entries'[c] = f
          /\ \A g \in Handle \ {c} : entries'[g] = entries[g]
      BY <2>3, <2>4, <3>1, <3>2
    <3>4. /\ scripts' \in [Sid -> SUBSET Ask] /\ told' \in [Handle -> SUBSET Ask] /\ told'[c] = told[h]
          /\ scripts'[s] = scripts[e.sid] /\ \A t \in Sid \ {s} : scripts'[t] = scripts[t]
          /\ \A g \in Handle \ {c} : told'[g] = told[g]
      BY <1>1, <2>1, <2>3, <3>1
    <3>5. /\ host' \in [Handle -> Identity \cup {Absent}] /\ cut' \subseteq Handle
          /\ \/ host'[c] = i /\ c \notin cut'
             \/ host'[c] = Absent /\ c \in cut'
          /\ \A g \in Handle \ {c} : host'[g] = host[g] /\ (g \in cut' <=> g \in cut)
      BY <2>3, <2>4, <3>1, <3>2
    <3> QED BY <3>3, <3>4, <3>5
  <2>6. \A g \in Known : entries[g].sid # s
    BY DEF FreshSid
  <2>7. Good(f, host'[c], told[h], scripts')
    <3>1. ~e.single /\ (e.kind # "codex")
      BY <1>1, <1>3 DEF Good
    <3>2. (Stateless(f) <=> Stateless(e)) /\ Continues(f) = Continues(e)
      BY <2>4 DEF Stateless, Continues
    <3>3. Describes(host'[c], f)
      BY <2>4, <2>5, <3>2 DEF Describes
    <3>4. ~f.alive => f.kind = "rpc"
      BY <1>1, <2>4 DEF Good
    <3>5. ~Stateless(f) /\ told[h] # {} => told[h] \subseteq scripts'[s]
      BY <1>1, <2>5, <3>2 DEF Good
    <3>6. f.kind = "claude" /\ ~f.started => scripts'[s] = {}
      BY <1>1, <2>4, <2>5 DEF Good
    <3> QED BY <1>1, <2>3, <2>4, <3>1, <3>3, <3>4, <3>5, <3>6 DEF Good
  <2>8. Handles' /\ SidsApart'
    <3>1. \A g \in Handle \ {c} : /\ entries'[g] = entries[g] /\ host'[g] = host[g] /\ told'[g] = told[g]
                                  /\ (g \in Known /\ entries[g].sid \in Sid)
                                      => (scripts'[entries[g].sid] = scripts[entries[g].sid])
      BY <2>5, <2>6
    <3>2. Good(entries'[c], host'[c], told'[c], scripts') /\ entries'[c].sid \in FreshSid
      BY <2>4, <2>5, <2>7
    <3> QED BY <2>3, <3>1, <3>2, OneHandle
  <2>9. Known' = Known \cup {c}
    BY <2>3, <2>4, <2>5 DEF Known
  <2>10. TypeOK'
    BY <1>1, <2>2, <2>5, <2>9 DEF SessionsInv, TypeOK, IsIdle
  <2>11. EphemeralsReleased'
    BY <2>2, <2>3, <2>4, <2>5, <2>9 DEF SessionsInv, EphemeralsReleased, Known
  <2>12. DefaultHeld'
    BY <2>2, <2>3, <2>5, <2>9 DEF SessionsInv, DefaultHeld, Known
  <2>13. DefaultIsFresh'
    <3> SUFFICES ASSUME default # NoHandle, entries'[default].sid # NoSid, NEW a \in scripts'[entries'[default].sid]
                 PROVE  a > era
      BY <2>2 DEF DefaultIsFresh
    <3>1. default \in Known /\ default \in Handle \ {c} /\ entries[default] \in Entry
      BY <2>3, KnownGood DEF SessionsInv, DefaultHeld
    <3>2. entries[default].sid \in Sid \ {s}
      BY <2>5, <2>6, <3>1 DEF Entry
    <3> QED BY <2>5, <3>1, <3>2 DEF SessionsInv, DefaultIsFresh
  <2>14. Asking' /\ Cuts'
    <3>1. Asking'
      BY <1>1, <2>2, IdleTyped DEF Asking, IsIdle
    <3>2. c \in cut' <=> (host'[c] = Absent <=> entries'[c] # Absent)
      BY <2>4, <2>5, AbsentAssumption
    <3>3. Cuts'
      BY <2>5, <3>2, CutsKept DEF SessionsInv
    <3> QED BY <3>1, <3>3
  <2>15. ConvStep
    <3>1. \A g \in Handle \ {c} : Conv'[g] = Conv[g]
      BY <2>5, <2>6, TalksOn DEF SessionsInv
    <3>2. Conv[c] = None
      BY <2>3 DEF Conv, Conversation
    <3>3. e.alive /\ e.sid # NoSid
      BY <1>1, <1>3, <2>3, NullAssumption DEF Good
    <3>4. Conv[h] = scripts[e.sid] /\ Conv[h] \in SUBSET Ask
      <4>1. Conv[h] = Conversation(e)
        BY DEF Conv
      <4> QED BY <1>1, <2>3, <3>3, <4>1 DEF Conversation, SessionsInv, TypeOK
    <3>5. Conv'[c] = scripts'[s]
      <4>1. PICK b : b = f
        OBVIOUS
      <4>2. Conv'[c] = Conversation(b)'
        BY <2>3, <2>5, <4>1 DEF Conv
      <4> QED BY <1>1, <2>3, <2>4, <3>3, <4>1, <4>2, NullAssumption DEF Conversation
    <3>6. Conv[h] # None /\ Conv'[c] = Conv[h]
      BY <2>5, <3>4, <3>5, AbsentAssumption
    <3> QED BY <2>3, <3>1, <3>2, <3>6, OneConv
  <2> QED BY <2>8, <2>10, <2>11, <2>12, <2>13, <2>14, <2>15 DEF SessionsInv, Kept
<1> QED BY <1>2, <1>3 DEF Fork

-----------------------------------------------------------------------------
(* The invariant, and what follows from it. *)

LEMMA StutterKeeps == ASSUME SessionsInv, UNCHANGED vars PROVE Kept
BY SameConv DEF Kept, SessionsInv, TypeOK, Handles, Cuts, SidsApart, EphemeralsReleased, DefaultHeld, DefaultIsFresh, Asking,
       vars, IsIdle, Known

LEMMA NextKeeps == SessionsInv /\ [Next]_vars => Kept
<1> SUFFICES ASSUME SessionsInv, [Next]_vars PROVE Kept
  OBVIOUS
<1>1. ASSUME NEW kind \in Kind, OpenSession(kind) PROVE Kept
  BY <1>1, OpenSessionKeeps
<1>2. ASSUME NEW kind \in Chosen, NEW max \in Budget, AskDefault(kind, max) \/ AskAgent(kind, max) PROVE Kept
  BY <1>2, AskKeeps DEF Chosen
<1>3. ASSUME NEW h \in Handle, NEW max \in Budget, AskSession(h, max) PROVE Kept
  BY <1>3, AskSessionKeeps
<1>4. CASE Compose
  BY <1>4, ComposeKeeps
<1>5. CASE Dispatch
  BY <1>5, DispatchKeeps
<1>6. CASE Parse
  BY <1>6, ParseKeeps
<1>7. CASE EndEphemeral
  BY <1>7, EndEphemeralKeeps
<1>8. ASSUME NEW h \in Handle, Close(h) \/ Reset(h) \/ Fork(h) \/ Query(h) PROVE Kept
  BY <1>8, CloseKeeps, ResetKeeps, ForkKeeps, QueryKeeps
<1>9. CASE ResetAll \/ CloseAll
  BY <1>9, ResetAllKeeps, CloseAllKeeps
<1>10. CASE UNCHANGED vars
  BY <1>10, StutterKeeps
<1> QED BY <1>1, <1>2, <1>3, <1>4, <1>5, <1>6, <1>7, <1>8, <1>9, <1>10 DEF Next

LEMMA Inductive == Spec => []SessionsInv
<1>1. Init => SessionsInv
  BY InitInv
<1>2. SessionsInv /\ [Next]_vars => SessionsInv'
  BY NextKeeps DEF Kept
<1> QED BY <1>1, <1>2, PTL DEF Spec

\* Every variable keeps its type, and an ask in progress has a handle of the table.
THEOREM SessionsTyped == Spec => []TypeOK
<1>1. SessionsInv => TypeOK
  BY DEF SessionsInv
<1> QED BY <1>1, Inductive, PTL

\* The host's identities and the service's entries list the same handles, but for
\* those an interrupt left in one of them, and agree on each, whatever teardown
\* raised; an ask's handle is in both, and the default is the service's.
THEOREM TablesStayAgreed == Spec => []TablesAgree
<1>1. SessionsInv => TablesAgree
  <2> SUFFICES ASSUME SessionsInv PROVE TablesAgree
    OBVIOUS
  <2>1. \A h \in Handle : h \in cut <=> (host[h] = Absent <=> h \in Known)
    BY DEF SessionsInv, Cuts, Known
  <2>2. \A h \in Known : host[h] # Absent =>
           host[h].eph = entries[h].eph /\ host[h].continues = Continues(entries[h])
    BY KnownGood DEF SessionsInv, Describes
  <2>3. call.pc \in {"compose", "send", "parse"} => host[call.h] # Absent
    BY DEF SessionsInv, Asking
  <2> QED BY <2>1, <2>2, <2>3 DEF SessionsInv, DefaultHeld, TablesAgree
<1> QED BY <1>1, Inductive, PTL

\* An ephemeral session lives for its ask; after it, it is gone or its teardown raised
\* and its process is gone.
THEOREM EphemeralsGo == Spec => []EphemeralsReleased
<1>1. SessionsInv => EphemeralsReleased
  BY DEF SessionsInv
<1> QED BY <1>1, Inductive, PTL

\* Compose decides on a follow-up by the host's identity and the attempt alone; the
\* transcript it goes to nevertheless holds the prompt.
THEOREM FollowUpsFit == Spec => []FollowUpInContext
<1>1. SessionsInv => FollowUpInContext
  <2> SUFFICES ASSUME SessionsInv, call.pc = "send", call.follow
               PROVE  LET e == entries[call.h] IN ~Stateless(e) /\ e.sid # NoSid /\ call.k \in scripts[e.sid]
    BY DEF FollowUpInContext
  <2> DEFINE e == entries[call.h]
  <2>1. ~IsIdle
    BY DEF IsIdle
  <2>2. Good(e, host[call.h], told[call.h], scripts) /\ e \in Entry /\ e # Absent
    BY <2>1, CallGood
  <2>3. AskFits(call, e, told[call.h], era)
    BY <2>1 DEF SessionsInv, Asking
  <2>4. call.attempt > 0 /\ call.max > 1 /\ Continues(e) /\ ~e.closed /\ (Stateless(e) \/ call.k \in told[call.h])
    BY <2>3 DEF AskFits, Answered
  <2>5. ~e.single
    BY <2>3, <2>4 DEF AskFits
  <2>6. ~Stateless(e)
    BY <2>4, <2>5 DEF Stateless, Continues
  <2> QED BY <2>2, <2>4, <2>6, NullAssumption DEF Good
<1> QED BY <1>1, Inductive, PTL

\* No failure, interrupt, fork or retry makes an open handle forget what it was told.
THEOREM HandlesRemember == Spec => []Remembers
<1>1. SessionsInv => Remembers
  BY KnownGood, AbsentAssumption, NullAssumption DEF SessionsInv, Remembers, Usable, Good
<1> QED BY <1>1, Inductive, PTL

\* A Claude handle that would create a transcript names one that does not exist.
THEOREM ClaudeCreatesOnce == Spec => []CreatedOnce
<1>1. SessionsInv => CreatedOnce
  BY KnownGood, AbsentAssumption DEF SessionsInv, CreatedOnce, Usable, Good
<1> QED BY <1>1, Inductive, PTL

\* The default session holds nothing said before the latest reset_all, even one that
\* raised for some backends or was interrupted.
THEOREM DefaultStaysFresh == Spec => []DefaultIsFresh
<1>1. SessionsInv => DefaultIsFresh
  BY DEF SessionsInv
<1> QED BY <1>1, Inductive, PTL

\* The sessions implement a set of conversations of which every step opens, continues,
\* starts over, copies or drops one handle's own, or drops several.
THEOREM SessionsImplementConversations == Spec => ImplementsConversations
<1>1. Init => Promised!Start
  <2> SUFFICES ASSUME Init PROVE Conv = [h \in Handle |-> None]
    BY DEF Promised!Start
  <2>1. \A h \in Handle : Conversation(entries[h]) = None
    BY DEF Init, Conversation
  <2> QED BY <2>1 DEF Conv
<1>2. SessionsInv /\ [Next]_vars => [Promised!Next]_Conv
  BY NextKeeps DEF Kept, ConvStep
<1> QED BY <1>1, <1>2, Inductive, PTL DEF Spec, ImplementsConversations, Promised!Spec
=============================================================================
