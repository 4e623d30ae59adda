---------------------------- MODULE PiRpcProofs ----------------------------
(* Proofs about Pi RPC sessions, for any number of backends, processes, sessions,
   retries and messages, in three layers of one inductive invariant:
     OwnerInv    which backend, or fork in progress, owns each process;
     TrafficInv  what may be in the pipes of the process a call waits for, and that
                 nothing is in those of any other;
     SessionInv  which session each process is on at each step of a reset or a fork.
   The first two hold also when an interrupt comes while an answer is handed over. *)
EXTENDS PiRpc, FiniteSetTheorems, SequenceTheorems, TLAPS

InFork == op.stage \in {"parent", "ready", "clone", "child"}

\* The call in progress: whose process it talks to, what a fork holds and will need.
Calls ==
    /\ IsIdle => op = Idle
    /\ ~IsIdle => /\ op.b \in Backend /\ own[op.b] # NoSid /\ child[op.b] # NoProc
                  /\ op.c = IF op.stage = "ready" THEN op.spare ELSE child[op.b]
    /\ op.spare # NoProc <=> op.stage \in {"ready", "clone", "child"}
    /\ op.got => op.id \in Sid
    /\ op.pc = "deliver" => op.got
    /\ op.stage = "parent" => FreeProc # {}
    /\ InFork => \E free \in Backend : own[free] = NoSid

\* A backend that is not open has no process; a process has at most one owner, and
\* who has none does not run.
Owned ==
    /\ \A b \in Backend : own[b] = NoSid => child[b] = NoProc
    /\ \A b \in Backend : child[b] # NoProc => procs[child[b]].status # "none" /\ child[b] # op.spare
    /\ \A b1, b2 \in Backend : child[b1] = child[b2] /\ child[b1] # NoProc => b1 = b2
    /\ op.spare # NoProc => procs[op.spare].status # "none"
    /\ \A c \in Proc : procs[c].status # "none" => c = op.spare \/ \E b \in Backend : child[b] = c

OwnerInv == TypeOK /\ Calls /\ Owned

-----------------------------------------------------------------------------
(* Types. *)

\* ps is a legal state of the processes in which the same ones run as now.
Fits(ps) == /\ ps \in [Proc -> Process]
            /\ \A c \in Proc : /\ ps[c].status # "none" => ps[c].session \in Sid
                               /\ ps[c].run.open => ps[c].run.message > 0
                               /\ (ps[c].status = "none") <=> (procs[c].status = "none")

LEMMA NowFits == ASSUME TypeOK PROVE Fits(procs)
BY DEF TypeOK, Fits

LEMMA QuietTyped == Quiet \in RunState /\ ~Quiet.open
BY BoundAssumption DEF Quiet, RunState

LEMMA GoneTyped == Gone \in Process /\ Gone.status = "none" /\ ~Gone.run.open
BY QuietTyped DEF Gone, Process

LEMMA StartedTyped ==
  ASSUME NEW s \in Sid
  PROVE  Started(s) \in Process /\ Started(s).status = "live" /\ Started(s).session = s /\ ~Started(s).run.open
BY GoneTyped DEF Started, Process, Gone

LEMMA IdleTyped == Idle \in CallState
BY DEF Idle, CallState

LEMMA MessageTyped ==
  /\ \A r \in Request : \A ok, cancelled \in BOOLEAN : \A p \in Process :
        p.session \in Sid => Response(r, ok, cancelled, p) \in Message
  /\ \A run \in RunState : \A type \in {"dialog", "failure", "retry", "settled"} : Event(type, run) \in Message
  /\ \A run \in RunState : \A type \in {"delta", "message"} : run.message > 0 => Event(type, run) \in Message
<1>1. ASSUME NEW r \in Request, NEW ok \in BOOLEAN, NEW cancelled \in BOOLEAN, NEW p \in Process, p.session \in Sid
      PROVE  Response(r, ok, cancelled, p) \in Message
  <2>1. p.run.on \in BOOLEAN
    BY DEF Process, RunState
  <2> QED BY <1>1, <2>1 DEF Response, Message
<1>2. ASSUME NEW run \in RunState, NEW type \in {"dialog", "failure", "retry", "settled"}
      PROVE  Event(type, run) \in Message
  <2>1. <<run.attempt, run.message>> \in Nat \X Nat
    BY BoundAssumption DEF RunState
  <2> QED BY <2>1 DEF Event, Message
<1>3. ASSUME NEW run \in RunState, NEW type \in {"delta", "message"}, run.message > 0
      PROVE  Event(type, run) \in Message
  <2>1. <<run.attempt, run.message>> \in Piece
    BY <1>3, BoundAssumption DEF RunState, Piece
  <2> QED BY <2>1 DEF Event, Message
<1> QED BY <1>1, <1>2, <1>3

LEMMA EmitTyped ==
  ASSUME Fits(procs), NEW c \in Proc, NEW p \in Process, NEW e \in Message, p.session \in Sid,
         p.run.open => p.run.message > 0, p.status = procs[c].status, Emit(c, p, e)
  PROVE  Fits(procs')
<1> DEFINE q == [p EXCEPT !.out = Append(@, e)]
<1>1. q \in Process /\ q.session = p.session /\ q.run = p.run /\ q.status = p.status
  BY SMTT(30) DEF Process
<1>2. procs' = [procs EXCEPT ![c] = q]
  BY DEF Emit
<1> HIDE DEF q
<1> QED BY <1>1, <1>2 DEF Fits

LEMMA PiReplyTyped ==
  ASSUME TypeOK, NEW c \in Proc, PiReply(c)
  PROVE  Fits(procs') /\ truth' \in Answer
<1> DEFINE p == procs[c]
           r == Head(p.inbox)
           q == [p EXCEPT !.inbox = Tail(@)]
           begun == [q EXCEPT !.run = [Quiet EXCEPT !.on = TRUE, !.n = r.n]]
           other == [q EXCEPT !.session = NewSid]
           closed == [q EXCEPT !.run.dialog = "closed"]
<1>0. Fits(procs) /\ p \in Process /\ p.session \in Sid /\ (p.run.open => p.run.message > 0)
  BY NowFits DEF TypeOK, PiReply, IsLive
<1>1. r \in Request /\ Tail(p.inbox) \in Seq(Request)
  BY <1>0 DEF PiReply, Process
<1>2. q \in Process /\ q.session \in Sid /\ q.run = p.run /\ q.status = p.status
  BY <1>0, <1>1 DEF Process
<1>3. begun \in Process /\ begun.session \in Sid /\ ~begun.run.open /\ begun.status = p.status
  <2>1. [Quiet EXCEPT !.on = TRUE, !.n = r.n] \in RunState /\ ~[Quiet EXCEPT !.on = TRUE, !.n = r.n].open
    BY <1>1, QuietTyped DEF RunState, Request
  <2> QED BY <1>2, <2>1 DEF Process
<1>4. FreeSid # {} => other \in Process /\ other.session \in Sid /\ other.run = p.run /\ other.status = p.status
  <2>1. FreeSid # {} => NewSid \in Sid
    BY DEF NewSid, FreeSid
  <2> QED BY <1>2, <2>1 DEF Process
<1>5. closed \in Process /\ closed.session \in Sid /\ (closed.run.open => closed.run.message > 0) /\ closed.status = p.status
  BY <1>0, <1>2 DEF Process, RunState
<1>6. truth \in Answer /\ [NoAnswer EXCEPT !.n = r.n] \in Answer
  <2>1. <<>> \in Seq(Piece)
    OBVIOUS
  <2> QED BY <1>1, <2>1 DEF TypeOK, Answer, NoAnswer, Request
<1> HIDE DEF p, r, q, begun, other, closed
<1>7. ASSUME NEW ok \in BOOLEAN, NEW cancelled \in BOOLEAN, Emit(c, q, Response(r, ok, cancelled, q))
      PROVE  Fits(procs')
  BY <1>0, <1>1, <1>2, <1>7, MessageTyped, EmitTyped DEF p
<1>8. ASSUME Emit(c, begun, Response(r, TRUE, FALSE, begun)) PROVE Fits(procs')
  BY <1>0, <1>1, <1>3, <1>8, MessageTyped, EmitTyped DEF p
<1>9. ASSUME FreeSid # {}, Emit(c, other, Response(r, TRUE, FALSE, other)) PROVE Fits(procs')
  BY <1>0, <1>1, <1>4, <1>9, MessageTyped, EmitTyped DEF p
<1>10. ASSUME procs' = [procs EXCEPT ![c] = closed] PROVE Fits(procs')
  BY <1>0, <1>5, <1>10 DEF Fits, p
<1> QED BY <1>6, <1>7, <1>8, <1>9, <1>10 DEF PiReply, p, r, q, begun, other, closed

LEMMA PiRunTyped ==
  ASSUME TypeOK, NEW c \in Proc, PiRun(c)
  PROVE  Fits(procs') /\ truth' \in Answer
<1> DEFINE p == procs[c]
           run == p.run
           delta == [run EXCEPT !.message = @ + 1, !.open = TRUE]
           shut == [run EXCEPT !.open = FALSE]
           asked == [run EXCEPT !.dialog = "open"]
           failed == [run EXCEPT !.failed = TRUE, !.open = FALSE]
           again == [Quiet EXCEPT !.on = TRUE, !.n = run.n, !.attempt = run.attempt + 1]
           By(new) == [p EXCEPT !.run = new]
           outcome == [n |-> run.n, failed |-> run.failed,
                       text |-> IF run.failed \/ run.message = 0 THEN <<>>
                                ELSE <<<<run.attempt, run.message>>>>]
<1>0. Fits(procs) /\ p \in Process /\ p.session \in Sid /\ run \in RunState /\ (run.open => run.message > 0)
  BY NowFits DEF TypeOK, PiRun, IsLive, Process
<1>1. ~run.failed /\ ~run.open /\ run.message + run.attempt <= MaxMessages
        => delta \in RunState /\ delta.message > 0
  <2>1. run.message + run.attempt <= MaxMessages => run.message + 1 \in 0..MaxMessages /\ run.message + 1 > 0
    BY <1>0, BoundAssumption DEF RunState
  <2>2. delta.message = run.message + 1
    BY <1>0 DEF RunState
  <2> QED BY <1>0, <2>1, <2>2 DEF RunState
<1>2. /\ shut \in RunState /\ ~shut.open /\ (run.open => shut.message > 0)
      /\ failed \in RunState /\ ~failed.open
      /\ asked \in RunState /\ (asked.open => asked.message > 0)
  BY <1>0 DEF RunState
<1>3. run.failed /\ run.attempt < MaxAttempts => again \in RunState /\ ~again.open
  <2>1. run.attempt < MaxAttempts => run.attempt + 1 \in 1..MaxAttempts
    BY <1>0, BoundAssumption DEF RunState
  <2> QED BY <1>0, <2>1, QuietTyped DEF RunState
<1>4. outcome \in Answer /\ truth \in Answer
  <2>1. run.message # 0 => <<run.attempt, run.message>> \in Piece
    BY <1>0, BoundAssumption DEF RunState, Piece
  <2>2. outcome.text \in Seq(Piece)
    BY <2>1
  <2> QED BY <1>0, <2>2 DEF TypeOK, Answer, RunState
<1>5. ASSUME NEW new \in RunState, new.open => new.message > 0, NEW e \in Message, Emit(c, By(new), e)
      PROVE  Fits(procs')
  <2>1. By(new) \in Process /\ By(new).session \in Sid /\ By(new).run = new /\ By(new).status = procs[c].status
    BY <1>0 DEF Process
  <2> HIDE DEF By
  <2> QED BY <1>0, <1>5, <2>1, EmitTyped
<1> HIDE DEF p, run, delta, shut, asked, failed, again, By, outcome
<1>6. ASSUME ~run.failed /\ ~run.open /\ run.message + run.attempt <= MaxMessages,
             Emit(c, By(delta), Event("delta", delta)) PROVE Fits(procs')
  BY <1>1, <1>5, <1>6, MessageTyped
<1>7. ASSUME run.open, Emit(c, By(shut), Event("message", shut)) PROVE Fits(procs')
  BY <1>2, <1>5, <1>7, MessageTyped
<1>8. ASSUME Emit(c, By(asked), Event("dialog", asked)) PROVE Fits(procs')
  BY <1>2, <1>5, <1>8, MessageTyped
<1>9. ASSUME Emit(c, By(failed), Event("failure", failed)) PROVE Fits(procs')
  BY <1>2, <1>5, <1>9, MessageTyped
<1>10. ASSUME run.failed /\ run.attempt < MaxAttempts, Emit(c, By(again), Event("retry", again)) PROVE Fits(procs')
  BY <1>3, <1>5, <1>10, MessageTyped
<1>11. ASSUME Emit(c, By(Quiet), Event("settled", run)) PROVE Fits(procs')
  BY <1>0, <1>5, <1>11, MessageTyped, QuietTyped
<1> QED BY <1>4, <1>6, <1>7, <1>8, <1>9, <1>10, <1>11
        DEF PiRun, p, run, delta, shut, asked, failed, again, By, outcome

LEMMA InboxFits ==
  ASSUME NEW ps, Fits(ps), NEW c \in Proc, NEW r \in Request
  PROVE  Fits([ps EXCEPT ![c].inbox = Append(@, r)])
<1>1. ps[c] \in Process /\ Append(ps[c].inbox, r) \in Seq(Request)
  BY DEF Fits, Process
<1>2. [ps[c] EXCEPT !.inbox = Append(@, r)] \in Process
  BY <1>1 DEF Process
<1> QED BY <1>1, <1>2 DEF Fits, Process

LEMMA TakenFits ==
  ASSUME TypeOK, op.c \in Proc, procs[op.c].out # <<>>
  PROVE  Fits(Taken) /\ Head(procs[op.c].out) \in Message
<1>1. procs[op.c] \in Process /\ Fits(procs)
  BY NowFits DEF TypeOK
<1>2. procs[op.c].out \in Seq(Message)
  BY <1>1 DEF Process
<1>3. Tail(procs[op.c].out) \in Seq(Message) /\ Head(procs[op.c].out) \in Message
  BY <1>2
<1>4. [procs[op.c] EXCEPT !.out = Tail(@)] \in Process
  BY <1>1, <1>3 DEF Process
<1> QED BY <1>1, <1>3, <1>4 DEF Fits, Process, Taken

-----------------------------------------------------------------------------
(* Steps within a call, and its failure. *)

\* o is the call in progress, further on in the same command.
Continues(o) ==
    /\ o \in CallState
    /\ o.stage = op.stage /\ o.b = op.b /\ o.c = op.c /\ o.spare = op.spare
    /\ o.got => o.id \in Sid
    /\ o.pc = "deliver" => o.got

LEMMA QuietStep ==
  ASSUME OwnerInv, Fits(procs'), UNCHANGED <<child, own>>,
         (Continues(op') /\ ~IsIdle) \/ op' = op
  PROVE  Calls' /\ Owned'
<1>1. FreeProc' = FreeProc
  BY DEF FreeProc, Fits
<1>2. op' = op => Calls'
  BY <1>1 DEF OwnerInv, Calls, InFork, IsIdle
<1>3. Continues(op') /\ ~IsIdle => Calls'
  BY <1>1 DEF OwnerInv, Calls, InFork, IsIdle, Continues
<1>4. op'.spare = op.spare
  BY DEF Continues
<1>5. Owned'
  BY <1>4, NullAssumption DEF OwnerInv, Owned, TypeOK, CallState, Fits
<1> QED BY <1>2, <1>3, <1>5

\* A call in progress talks to a process that runs or has exited.
LEMMA CallHasProc ==
  ASSUME OwnerInv, ~IsIdle
  PROVE  /\ op.b \in Backend /\ op.c \in Proc /\ child[op.b] \in Proc
         /\ op.spare \in Proc \cup {NoProc}
         /\ op.stage \in {"ready", "clone", "child"} => op.spare \in Proc /\ op.spare # child[op.b]
BY NullAssumption DEF OwnerInv, TypeOK, Calls, Owned, IsIdle, CallState, Asks

LEMMA WithoutTyped ==
  ASSUME NEW ps, Fits(ps), NEW cs
  PROVE  /\ Without(ps, cs) \in [Proc -> Process]
         /\ \A c \in Proc : /\ Without(ps, cs)[c].status # "none" => Without(ps, cs)[c].session \in Sid
                            /\ Without(ps, cs)[c].run.open => Without(ps, cs)[c].run.message > 0
                            /\ Without(ps, cs)[c].status = "none" <=> (c \in cs \/ procs[c].status = "none")
BY GoneTyped DEF Fits, Without

\* However a call fails, each process still running has one owner.
LEMMA RaiseKeeps ==
  ASSUME OwnerInv, ~IsIdle, NEW ps, Fits(ps), NEW closed \in SUBSET {op.c}, Raise(ps, closed)
  PROVE  OwnerInv'
<1> DEFINE shut == closed \cup CASE op.stage \in {"ready", "clone"} -> {op.spare}
                                 [] op.stage = "child" -> {child[op.b]}
                                 [] OTHER -> {}
           new == IF op.stage = "child" THEN op.spare
                  ELSE IF child[op.b] \in closed THEN NoProc ELSE child[op.b]
<1>1. procs' = Without(ps, shut) /\ child' = [child EXCEPT ![op.b] = new] /\ op' = Idle
      /\ UNCHANGED <<own, count, answer, truth>>
  BY DEF Raise
<1>2. /\ op.stage = "child" => shut = {child[op.b]} /\ new = op.spare
      /\ op.stage = "ready" => shut = {op.spare} /\ new = child[op.b]
      /\ op.stage = "clone" => \/ shut = {op.spare} /\ new = child[op.b]
                               \/ shut = {op.spare, child[op.b]} /\ new = NoProc
      /\ op.stage \notin {"ready", "clone", "child"} =>
            \/ shut = {} /\ new = child[op.b]
            \/ shut = {child[op.b]} /\ new = NoProc
  BY CallHasProc DEF OwnerInv, Calls, IsIdle
<1>3. new \in Proc \cup {NoProc}
  BY <1>2, CallHasProc
<1> HIDE DEF shut, new
<1>4. TypeOK'
  BY <1>1, <1>3, WithoutTyped, IdleTyped DEF OwnerInv, TypeOK
<1>5. Calls'
  BY <1>1 DEF Calls, IsIdle, Idle, InFork
<1>6. \A c \in Proc : procs'[c].status = "none" <=> (c \in shut \/ procs[c].status = "none")
  BY <1>1, WithoutTyped
<1>7. \A b \in Backend : child'[b] = IF b = op.b THEN new ELSE child[b]
  BY <1>1 DEF OwnerInv, TypeOK
<1>8. new # NoProc => /\ procs[new].status # "none" /\ new \notin shut
                      /\ \A b \in Backend \ {op.b} : child[b] # new
  BY <1>2, CallHasProc, NullAssumption DEF OwnerInv, Owned
<1>9. \A b \in Backend \ {op.b} : child[b] # NoProc => child[b] \notin shut /\ child[b] \in Proc
  BY <1>2, CallHasProc DEF OwnerInv, Owned, TypeOK
<1>10. \A c \in Proc : procs[c].status # "none" /\ c \notin shut => c = new \/ \E b \in Backend \ {op.b} : child[b] = c
  <2> SUFFICES ASSUME NEW c \in Proc, procs[c].status # "none", c \notin shut, c # new
               PROVE  \E b \in Backend \ {op.b} : child[b] = c
    OBVIOUS
  <2>1. c # op.spare /\ c # child[op.b]
    BY <1>2, CallHasProc, NullAssumption DEF OwnerInv, Calls
  <2> QED BY <2>1 DEF OwnerInv, Owned
<1>11. own[op.b] # NoSid /\ own' = own /\ op'.spare = NoProc
  BY <1>1 DEF OwnerInv, Calls, Idle
<1>12. Owned'
  <2>1. \A b \in Backend : own'[b] = NoSid => child'[b] = NoProc
    BY <1>7, <1>11 DEF OwnerInv, Owned
  <2>2. \A b \in Backend : child'[b] # NoProc => procs'[child'[b]].status # "none" /\ child'[b] # op'.spare
    BY <1>3, <1>6, <1>7, <1>8, <1>9, <1>11 DEF OwnerInv, Owned
  <2>3. \A b1, b2 \in Backend : child'[b1] = child'[b2] /\ child'[b1] # NoProc => b1 = b2
    BY <1>7, <1>8 DEF OwnerInv, Owned
  <2>4. \A c \in Proc : procs'[c].status # "none" => \E b \in Backend : child'[b] = c
    BY <1>6, <1>7, <1>10, CallHasProc
  <2> QED BY <2>1, <2>2, <2>3, <2>4, <1>11 DEF Owned
<1> QED BY <1>4, <1>5, <1>12 DEF OwnerInv

LEMMA WriteKeeps ==
  ASSUME OwnerInv, ~IsIdle, NEW ps, Fits(ps), NEW r \in Request, NEW o, Continues(o), WriteTo(ps, r, o)
  PROVE  OwnerInv'
<1>1. CASE ps[op.c].status = "live"
  <2>1. Fits(procs') /\ op' = o /\ UNCHANGED <<child, own, count, answer, truth>>
    BY <1>1, InboxFits, CallHasProc DEF WriteTo
  <2>2. TypeOK'
    BY <2>1 DEF OwnerInv, TypeOK, Fits, Continues
  <2> QED BY <2>1, <2>2, QuietStep DEF OwnerInv
<1>2. CASE ps[op.c].status # "live"
  BY <1>2, RaiseKeeps DEF WriteTo
<1> QED BY <1>1, <1>2

LEMMA KeepKeeps ==
  ASSUME OwnerInv, ~IsIdle, procs[op.c].out # <<>>, NEW o, Continues(o), Keep(o)
  PROVE  OwnerInv'
<1>1. Fits(procs') /\ UNCHANGED <<child, own, count, answer, truth>>
  BY TakenFits, CallHasProc DEF Keep, OwnerInv
<1>2. Continues(op')
  BY DEF Keep, Proceed, Completed, Continues, CallState
<1>3. TypeOK'
  BY <1>1, <1>2 DEF OwnerInv, TypeOK, Fits, Continues
<1> QED BY <1>1, <1>2, <1>3, QuietStep DEF OwnerInv

-----------------------------------------------------------------------------
(* The operations. *)

LEMMA OwnerInit == Init => OwnerInv
<1> SUFFICES ASSUME Init PROVE OwnerInv
  OBVIOUS
<1>1. NoAnswer \in Answer
  <2>1. <<>> \in Seq(Piece)
    OBVIOUS
  <2> QED BY <2>1 DEF NoAnswer, Answer
<1>2. TypeOK
  BY <1>1, GoneTyped, IdleTyped, BoundAssumption DEF Init, TypeOK
<1>3. Calls
  BY DEF Init, Calls, IsIdle, Idle, InFork
<1>4. Owned
  BY GoneTyped DEF Init, Owned, Idle
<1> QED BY <1>2, <1>3, <1>4 DEF OwnerInv

LEMMA OpenKeeps == ASSUME OwnerInv, NEW b \in Backend, Open(b) PROVE OwnerInv'
<1> DEFINE c == NewProc
<1>1. c \in Proc /\ procs[c].status = "none" /\ NewSid \in Sid
  BY DEF Open, NewProc, FreeProc, NewSid, FreeSid
<1>2. /\ procs' = [procs EXCEPT ![c] = Started(NewSid)] /\ child' = [child EXCEPT ![b] = c]
      /\ own' = [own EXCEPT ![b] = NewSid] /\ own[b] = NoSid /\ IsIdle
      /\ UNCHANGED <<op, count, answer, truth>>
  BY DEF Open
<1> HIDE DEF c
<1>3. TypeOK'
  BY <1>1, <1>2, StartedTyped DEF OwnerInv, TypeOK
<1>4. Calls'
  BY <1>2 DEF OwnerInv, Calls, IsIdle, Idle, InFork
<1>5. op.spare = NoProc /\ op'.spare = NoProc
  BY <1>2 DEF OwnerInv, Calls, Idle
<1>6. \A d \in Proc : procs'[d].status = "none" <=> (d # c /\ procs[d].status = "none")
  BY <1>1, <1>2, StartedTyped DEF OwnerInv, TypeOK
<1>7. \A x \in Backend : /\ child'[x] = IF x = b THEN c ELSE child[x]
                         /\ own'[x] = IF x = b THEN NewSid ELSE own[x]
  BY <1>2 DEF OwnerInv, TypeOK
<1>8. Owned'
  BY <1>1, <1>2, <1>5, <1>6, <1>7, NullAssumption DEF OwnerInv, Owned, TypeOK
<1> QED BY <1>3, <1>4, <1>8 DEF OwnerInv

\* A backend loses its process: it is closed, or found to have died.
LEMMA CloseStep ==
  ASSUME OwnerInv, NEW b \in Backend, IsIdle, UNCHANGED op,
         procs' = Without(procs, {child[b]}), child' = [child EXCEPT ![b] = NoProc],
         own' \in [Backend -> Sid \cup {NoSid}],
         \A x \in Backend \ {b} : own'[x] = own[x],
         UNCHANGED truth \/ truth' = NoAnswer, UNCHANGED answer \/ answer' = NoAnswer, count' \in 0..MaxOps
  PROVE  OwnerInv'
<1>1. NoAnswer \in Answer
  <2>1. <<>> \in Seq(Piece)
    OBVIOUS
  <2> QED BY <2>1 DEF NoAnswer, Answer
<1>2. TypeOK'
  BY <1>1, NowFits, WithoutTyped DEF OwnerInv, TypeOK
<1>3. Calls'
  BY DEF OwnerInv, Calls, IsIdle, Idle, InFork
<1>4. op.spare = NoProc
  BY DEF OwnerInv, Calls, Idle
<1>5. \A c \in Proc : procs'[c].status = "none" <=> (c = child[b] \/ procs[c].status = "none")
  BY NowFits, WithoutTyped DEF OwnerInv
<1>6. \A x \in Backend : child'[x] = IF x = b THEN NoProc ELSE child[x]
  BY DEF OwnerInv, TypeOK
<1>7. \A x \in Backend \ {b} : child[x] # NoProc => child[x] \in Proc /\ child[x] # child[b]
  BY DEF OwnerInv, Owned, TypeOK
<1>8. Owned'
  <2>1. \A x \in Backend : own'[x] = NoSid => child'[x] = NoProc
    BY <1>6 DEF OwnerInv, Owned
  <2>2. \A x \in Backend : child'[x] # NoProc => procs'[child'[x]].status # "none" /\ child'[x] # op'.spare
    <3> SUFFICES ASSUME NEW x \in Backend \ {b}, child[x] # NoProc
                 PROVE  procs'[child[x]].status # "none" /\ child[x] # op'.spare
      BY <1>6
    <3>1. procs[child[x]].status # "none" /\ child[x] # op.spare
      BY DEF OwnerInv, Owned
    <3>2. op' = op
      OBVIOUS
    <3> QED BY <1>5, <1>7, <3>1, <3>2
  <2>3. \A b1, b2 \in Backend : child'[b1] = child'[b2] /\ child'[b1] # NoProc => b1 = b2
    BY <1>6 DEF OwnerInv, Owned
  <2>4. \A c \in Proc : procs'[c].status # "none" => \E x \in Backend : child'[x] = c
    <3> SUFFICES ASSUME NEW c \in Proc, procs'[c].status # "none" PROVE \E x \in Backend : child'[x] = c
      OBVIOUS
    <3>1. procs[c].status # "none" /\ c # child[b] /\ c # op.spare
      BY <1>4, <1>5, NullAssumption
    <3> QED BY <1>6, <3>1 DEF OwnerInv, Owned
  <2> QED BY <1>4, <2>1, <2>2, <2>3, <2>4 DEF Owned
<1> QED BY <1>2, <1>3, <1>8 DEF OwnerInv

LEMMA CloseKeeps == ASSUME OwnerInv, NEW b \in Backend, Close(b) PROVE OwnerInv'
<1>1. own' \in [Backend -> Sid \cup {NoSid}] /\ (\A x \in Backend \ {b} : own'[x] = own[x]) /\ count \in 0..MaxOps
  BY DEF Close, OwnerInv, TypeOK
<1> QED BY <1>1, CloseStep DEF Close

LEMMA BeginKeeps ==
  ASSUME OwnerInv, NEW b \in Backend, NEW stage \in {"prompt", "new_session", "query", "parent"}, Begin(b, stage)
  PROVE  OwnerInv'
<1>1. count + 1 \in 0..MaxOps /\ own \in [Backend -> Sid \cup {NoSid}] /\ count' = count + 1 /\ child[b] \in Proc
  BY NullAssumption, BoundAssumption DEF Begin, OwnerInv, TypeOK
<1>2. CASE IsLive(child[b])
  <2> DEFINE o == [Idle EXCEPT !.stage = stage, !.b = b, !.c = child[b], !.n = count + 1]
  <2>1. op' = o /\ UNCHANGED <<procs, child, own>> /\ answer' = NoAnswer /\ truth' = NoAnswer
    BY <1>2 DEF Begin
  <2>2. o \in CallState /\ o.stage = stage /\ o.b = b /\ o.c = child[b] /\ ~o.got /\ o.pc = "write" /\ o.spare = NoProc
    <3>1. ~Idle.got /\ Idle.pc = "write" /\ Idle.spare = NoProc
      BY DEF Idle
    <3>2. count + 1 \in Nat /\ stage \in Asks
      BY <1>1 DEF Asks
    <3> QED BY <1>1, <3>1, <3>2, IdleTyped DEF CallState
  <2> HIDE DEF o
  <2>3. NoAnswer \in Answer
    <3>1. <<>> \in Seq(Piece)
      OBVIOUS
    <3> QED BY <3>1 DEF NoAnswer, Answer
  <2>4. TypeOK'
    BY <1>1, <2>1, <2>2, <2>3 DEF OwnerInv, TypeOK
  <2>5. Calls'
    <3>1. own[b] # NoSid
      BY <1>1, NullAssumption DEF OwnerInv, Owned
    <3>2. op'.stage # "idle" /\ op'.stage \notin {"ready", "clone", "child"}
      BY <2>1, <2>2
    <3>3. op'.stage = "parent" => FreeProc' # {} /\ \E free \in Backend : own'[free] = NoSid
      BY <2>1, <2>2 DEF Begin, FreeProc
    <3> QED BY <1>1, <2>1, <2>2, <3>1, <3>2, <3>3, NullAssumption DEF Calls, IsIdle, InFork
  <2>6. op.spare = NoProc
    BY DEF OwnerInv, Calls, Idle, Begin
  <2>7. Owned'
    BY <2>1, <2>2, <2>6 DEF OwnerInv, Owned
  <2> QED BY <2>4, <2>5, <2>7 DEF OwnerInv
<1>3. CASE ~IsLive(child[b])
  BY <1>1, <1>3, CloseStep DEF Begin
<1> QED BY <1>2, <1>3

LEMMA PiKeeps ==
  ASSUME OwnerInv, NEW c \in Proc, PiReply(c) \/ PiRun(c) \/ PiExits(c)
  PROVE  OwnerInv'
<1>1. Fits(procs') /\ truth' \in Answer
  <2>1. CASE PiExits(c)
    <3>1. procs[c] \in Process /\ Fits(procs) /\ truth \in Answer
      BY NowFits DEF OwnerInv, TypeOK
    <3>2. <<>> \in Seq(Request)
      OBVIOUS
    <3>3. [[procs EXCEPT ![c].status = "exited"] EXCEPT ![c].inbox = <<>>]
            = [procs EXCEPT ![c] = [[procs[c] EXCEPT !.status = "exited"] EXCEPT !.inbox = <<>>]]
      BY DEF OwnerInv, TypeOK
    <3>4. [[procs[c] EXCEPT !.status = "exited"] EXCEPT !.inbox = <<>>] \in Process
      BY <3>1, <3>2 DEF Process
    <3> QED BY <2>1, <3>1, <3>3, <3>4 DEF PiExits, Fits, Process, IsLive
  <2> QED BY <2>1, PiReplyTyped, PiRunTyped DEF OwnerInv
<1>2. UNCHANGED <<child, own, op, count, answer>>
  BY DEF PiReply, PiRun, PiExits
<1>3. TypeOK'
  BY <1>1, <1>2 DEF OwnerInv, TypeOK, Fits
<1> QED BY <1>1, <1>2, <1>3, QuietStep DEF OwnerInv

LEMMA CallNow ==
  ASSUME OwnerInv, op.pc = "wait" \/ op.pc = "deliver" \/ ~IsIdle
  PROVE  ~IsIdle /\ op \in CallState /\ op.stage \in Asks /\ Continues(op) /\ Fits(procs)
<1>1. ~IsIdle
  BY DEF OwnerInv, Calls, IsIdle, Idle
<1> QED BY <1>1, NowFits DEF OwnerInv, TypeOK, Calls, IsIdle, CallState, Continues

LEMMA SendKeeps == ASSUME OwnerInv, Write PROVE OwnerInv'
<1> DEFINE o == [op EXCEPT !.pc = "wait"]
<1>1. ~IsIdle /\ op \in CallState /\ op.stage \in Asks /\ Continues(op) /\ Fits(procs)
  BY CallNow DEF Write
<1>2. Continues(o)
  BY <1>1 DEF Continues, CallState
<1>3. MainRequest \in Request
  BY <1>1 DEF MainRequest, Request, Commands, CallState
<1> HIDE DEF o
<1> QED BY <1>1, <1>2, <1>3, WriteKeeps DEF Write, o

LEMMA EventKeeps ==
  ASSUME OwnerInv, op.pc = "wait", procs[op.c].out # <<>>,
         NEW e \in Message, e.type # "response", ReceiveEvent(e)
  PROVE  OwnerInv'
<1> DEFINE o == IF op.stage = "prompt" THEN Gather(e) ELSE op
<1>1. ~IsIdle /\ op \in CallState /\ op.stage \in Asks /\ Continues(op)
  BY CallNow
<1>2. Fits(Taken)
  BY <1>1, TakenFits, CallHasProc DEF OwnerInv
<1>3. e.type \in {"delta", "message"} => e.piece \in Piece
  BY DEF Message
<1>4. Continues(o)
  <2>1. e.type = "delta" => Append(op.text, e.piece) \in Seq(Piece)
    BY <1>1, <1>3 DEF CallState
  <2>2. e.type = "message" => <<e.piece>> \in Seq(Piece)
    BY <1>3
  <2>3. <<>> \in Seq(Piece)
    OBVIOUS
  <2>4. /\ \A t \in Seq(Piece) : /\ Continues([op EXCEPT !.text = t])
                                 /\ Continues([op EXCEPT !.text = t, !.failed = FALSE])
        /\ Continues([op EXCEPT !.failed = TRUE]) /\ Continues([op EXCEPT !.settled = TRUE])
    <3>1. \A t \in Seq(Piece) : [op EXCEPT !.text = t] \in CallState /\ Continues([op EXCEPT !.text = t])
      BY <1>1 DEF Continues, CallState
    <3>2. \A t \in Seq(Piece) : Continues([op EXCEPT !.text = t, !.failed = FALSE])
      BY <1>1, <3>1 DEF Continues, CallState
    <3>3. Continues([op EXCEPT !.failed = TRUE]) /\ Continues([op EXCEPT !.settled = TRUE])
      BY ZenonT(60), <1>1 DEF Continues, CallState
    <3> QED BY <3>1, <3>2, <3>3
  <2> QED BY <1>1, <2>1, <2>2, <2>3, <2>4 DEF Gather
<1> HIDE DEF o
<1>5. Continues(Proceed(o))
  BY <1>4 DEF Proceed, Completed, Continues, CallState
<1>6. [n |-> op.n, cmd |-> "cancel"] \in Request
  BY <1>1 DEF Request, Commands, CallState
<1>7. CASE WriteTo(Taken, [n |-> op.n, cmd |-> "cancel"], Proceed(o))
  BY <1>1, <1>2, <1>5, <1>6, <1>7, WriteKeeps
<1>8. CASE Keep(o)
  BY <1>1, <1>4, <1>8, KeepKeeps
<1> QED BY <1>7, <1>8 DEF ReceiveEvent, o

LEMMA ResponseKeeps ==
  ASSUME OwnerInv, op.pc = "wait", procs[op.c].out # <<>>,
         NEW e \in Message, e.type = "response", ReceiveResponse(e)
  PROVE  OwnerInv'
<1> DEFINE o == [op EXCEPT !.got = TRUE, !.cancelled = e.cancelled, !.id = e.session]
           told == [op EXCEPT !.streaming = IF e.streaming THEN "yes" ELSE "no"]
<1>1. ~IsIdle /\ op \in CallState /\ op.stage \in Asks /\ Continues(op)
  BY CallNow
<1>2. Fits(Taken)
  BY <1>1, TakenFits, CallHasProc DEF OwnerInv
<1>3. e.session \in Sid /\ e.cancelled \in BOOLEAN /\ e.streaming \in BOOLEAN
  BY DEF Message
<1>4. Continues(o) /\ Continues(told)
  BY ZenonT(60), <1>1, <1>3 DEF Continues, CallState
<1>5. StateRequest \in Request
  BY <1>1 DEF StateRequest, Request, Commands, CallState
<1> HIDE DEF o, told
<1>6. ASSUME Raise(Taken, {}) \/ Raise(Taken, {op.c}) PROVE OwnerInv'
  BY <1>1, <1>2, <1>6, RaiseKeeps
<1>7. ASSUME Keep(o) \/ Keep(told) PROVE OwnerInv'
  BY <1>1, <1>4, <1>7, KeepKeeps
<1>8. ASSUME WriteTo(Taken, StateRequest, o) PROVE OwnerInv'
  BY <1>1, <1>2, <1>4, <1>5, <1>8, WriteKeeps
<1> QED BY <1>6, <1>7, <1>8 DEF ReceiveResponse, o, told

LEMMA ReceiveKeeps == ASSUME OwnerInv, Receive PROVE OwnerInv'
<1>1. Head(procs[op.c].out) \in Message
  BY CallNow, CallHasProc, TakenFits DEF Receive, OwnerInv
<1> QED BY <1>1, EventKeeps, ResponseKeeps DEF Receive

LEMMA FailureKeeps == ASSUME OwnerInv, Eof \/ Timeout \/ Interrupt \/ InterruptDelivery PROVE OwnerInv'
BY CallNow, RaiseKeeps DEF Eof, Timeout, Interrupt, InterruptDelivery

-----------------------------------------------------------------------------
(* OwnerInv when a call takes its answer. *)

\* A call that ends well on the process it started with.
LEMMA DoneKeeps ==
  ASSUME OwnerInv, ~IsIdle, op.spare = NoProc, op' = Idle, UNCHANGED <<procs, child, count, truth>>,
         answer' \in Answer, own' \in [Backend -> Sid \cup {NoSid}],
         \A b \in Backend : own'[b] = NoSid => own[b] = NoSid
  PROVE  OwnerInv'
<1>1. TypeOK'
  BY IdleTyped DEF OwnerInv, TypeOK
<1>2. Calls'
  BY DEF Calls, IsIdle, Idle, InFork
<1>3. op'.spare = NoProc
  BY DEF Idle
<1>4. Owned'
  BY <1>3 DEF OwnerInv, Owned
<1> QED BY <1>1, <1>2, <1>4 DEF OwnerInv

LEMMA DeliverDoneKeeps ==
  ASSUME OwnerInv, op.pc = "deliver", DeliverAsk \/ DeliverQuery \/ DeliverReset
  PROVE  OwnerInv'
<1>1. /\ ~IsIdle /\ op \in CallState /\ op.id \in Sid /\ op.b \in Backend
      /\ op' = Idle /\ UNCHANGED <<procs, child, count, truth>>
  BY CallNow, CallHasProc DEF OwnerInv, Calls, DeliverAsk, DeliverQuery, DeliverReset, Done
<1>2. op.spare = NoProc
  BY DEF OwnerInv, Calls, DeliverAsk, DeliverQuery, DeliverReset
<1>3. answer' \in Answer
  <2>1. <<>> \in Seq(Piece)
    OBVIOUS
  <2>2. CASE DeliverAsk
    <3>1. op.n \in Nat /\ op.failed \in BOOLEAN /\ (IF op.failed THEN <<>> ELSE op.text) \in Seq(Piece)
      BY <1>1, <2>1 DEF CallState
    <3> QED BY <2>2, <3>1 DEF DeliverAsk, Answer
  <2>3. CASE UNCHANGED answer
    BY <2>3 DEF OwnerInv, TypeOK
  <2> QED BY <2>2, <2>3 DEF DeliverAsk, DeliverQuery, DeliverReset
<1>4. own' \in [Backend -> Sid \cup {NoSid}] /\ \A b \in Backend : own'[b] = NoSid => own[b] = NoSid
  BY <1>1, NullAssumption DEF OwnerInv, TypeOK, DeliverAsk, DeliverQuery, DeliverReset
<1> QED BY <1>1, <1>2, <1>3, <1>4, DoneKeeps

LEMMA ParentKeeps == ASSUME OwnerInv, op.pc = "deliver", DeliverParent PROVE OwnerInv'
<1>1. /\ ~IsIdle /\ op \in CallState /\ op.id \in Sid /\ op.b \in Backend /\ op.spare = NoProc /\ Fits(procs)
      /\ own[op.b] # NoSid /\ child[op.b] # NoProc /\ op.stage = "parent"
  BY CallNow, CallHasProc DEF OwnerInv, Calls, DeliverParent
<1>2. NewProc \in Proc /\ procs[NewProc].status = "none"
  BY <1>1 DEF OwnerInv, Calls, NewProc, FreeProc
<1> DEFINE c == NewProc
           o == [Idle EXCEPT !.stage = "ready", !.b = op.b, !.c = c, !.n = op.n, !.parent = op.id, !.spare = c]
<1>3. o \in CallState /\ o.stage = "ready" /\ o.b = op.b /\ o.c = c /\ o.spare = c /\ ~o.got /\ o.pc = "write"
  <2>1. ~Idle.got /\ Idle.pc = "write" /\ Idle.spare = NoProc
    BY DEF Idle
  <2> QED BY <1>1, <1>2, <2>1, IdleTyped DEF CallState, Asks
<1> HIDE DEF c, o
<1>4. ASSUME NEW s \in Sid, procs' = [procs EXCEPT ![c] = Started(s)], op' = o,
             UNCHANGED <<child, own, count, answer, truth>>
      PROVE  OwnerInv'
  <2>1. c \in Proc /\ procs[c].status = "none"
    BY <1>2 DEF c
  <2>2. TypeOK'
    BY <1>3, <1>4, <2>1, StartedTyped DEF OwnerInv, TypeOK
  <2>3. Calls'
    <3>1. \E free \in Backend : own[free] = NoSid
      BY <1>1 DEF OwnerInv, Calls, InFork
    <3> QED BY <1>1, <1>3, <1>4, <2>1, <3>1, NullAssumption DEF Calls, IsIdle, InFork
  <2>4. \A d \in Proc : procs'[d].status = "none" <=> (d # c /\ procs[d].status = "none")
    BY <1>4, <2>1, StartedTyped DEF OwnerInv, TypeOK
  <2>5. Owned'
    BY <1>1, <1>3, <1>4, <2>1, <2>4, NullAssumption DEF OwnerInv, Owned, TypeOK
  <2> QED BY <2>2, <2>3, <2>5 DEF OwnerInv
<1>5. ASSUME Raise(procs, {}) \/ Raise(procs, {op.c}) PROVE OwnerInv'
  BY <1>1, <1>5, RaiseKeeps
<1>6. FreeSid # {} => NewSid \in Sid
  BY DEF FreeSid, NewSid
<1> QED BY <1>1, <1>4, <1>5, <1>6 DEF DeliverParent, c, o

LEMMA ThenKeeps ==
  ASSUME OwnerInv, ~IsIdle, NEW stage \in {"clone", "child"}, op.stage \in {"ready", "clone"},
         Then(stage, child[op.b]), UNCHANGED <<procs, child, own, count, answer, truth>>
  PROVE  OwnerInv'
<1>1. op \in CallState /\ op.b \in Backend /\ child[op.b] \in Proc
  BY CallNow, CallHasProc
<1>2. /\ op' \in CallState /\ op'.stage = stage /\ op'.b = op.b /\ op'.c = child[op.b] /\ op'.spare = op.spare
      /\ ~op'.got /\ op'.pc = "write"
  <2>1. ~Idle.got /\ Idle.pc = "write" /\ Idle.spare = NoProc
    BY DEF Idle
  <2> QED BY <1>1, <2>1, IdleTyped DEF Then, CallState, Asks
<1>3. TypeOK'
  BY <1>2 DEF OwnerInv, TypeOK
<1>4. Calls' /\ Owned'
  BY <1>1, <1>2 DEF OwnerInv, Calls, Owned, IsIdle, InFork
<1> QED BY <1>3, <1>4 DEF OwnerInv

LEMMA ReadyCloneKeeps == ASSUME OwnerInv, op.pc = "deliver", DeliverReady \/ DeliverClone PROVE OwnerInv'
<1>1. ~IsIdle /\ Fits(procs) /\ op.stage \in {"ready", "clone"}
  BY CallNow DEF DeliverReady, DeliverClone
<1>2. op.stage = "ready" => op.c = op.spare
  BY <1>1 DEF OwnerInv, Calls
<1>3. op.stage = "clone" => op.c = child[op.b]
  BY <1>1 DEF OwnerInv, Calls
<1>4. ASSUME Raise(procs, {}) \/ Raise(procs, {op.c}) PROVE OwnerInv'
  BY <1>1, <1>4, RaiseKeeps
<1>5. CASE DeliverReady
  BY <1>1, <1>2, <1>4, <1>5, ThenKeeps DEF DeliverReady
<1>6. CASE DeliverClone
  BY <1>1, <1>3, <1>4, <1>6, ThenKeeps DEF DeliverClone
<1> QED BY <1>5, <1>6

\* The fork succeeds: the source is on its replacement, the child has the process.
LEMMA ChildKeeps == ASSUME OwnerInv, op.pc = "deliver", DeliverChild PROVE OwnerInv'
<1> DEFINE b == CHOOSE free \in Backend : own[free] = NoSid
<1>1. /\ ~IsIdle /\ op \in CallState /\ op.id \in Sid /\ op.b \in Backend /\ Fits(procs)
      /\ own[op.b] # NoSid /\ op.stage = "child" /\ op.c = child[op.b] /\ op.c \in Proc
      /\ op.spare \in Proc /\ op.spare # op.c
  BY CallNow, CallHasProc DEF OwnerInv, Calls, DeliverChild
<1>2. b \in Backend /\ own[b] = NoSid /\ b # op.b
  BY <1>1 DEF OwnerInv, Calls, InFork
<1> HIDE DEF b
<1>3. CASE Raise(procs, {op.c})
  BY <1>1, <1>3, RaiseKeeps
<1>4. ASSUME child' = [child EXCEPT ![op.b] = op.spare, ![b] = op.c], own' = [own EXCEPT ![b] = op.id],
             op' = Idle, UNCHANGED <<procs, count, answer, truth>>
      PROVE  OwnerInv'
  <2>1. /\ \A x \in Backend : /\ child'[x] = IF x = b THEN op.c ELSE IF x = op.b THEN op.spare ELSE child[x]
                              /\ own'[x] = IF x = b THEN op.id ELSE own[x]
        /\ child' \in [Backend -> Proc \cup {NoProc}] /\ own' \in [Backend -> Sid \cup {NoSid}]
    BY <1>1, <1>2, <1>4 DEF OwnerInv, TypeOK
  <2>2. TypeOK'
    BY <1>4, <2>1, IdleTyped DEF OwnerInv, TypeOK
  <2>3. Calls' /\ op'.spare = NoProc
    BY <1>4 DEF Calls, IsIdle, Idle, InFork
  <2>4. child[b] = NoProc
    BY <1>2 DEF OwnerInv, Owned
  <2>5. /\ procs[op.c].status # "none" /\ procs[op.spare].status # "none"
        /\ \A x \in Backend \ {op.b} : child[x] # op.c
        /\ \A x \in Backend : child[x] # op.spare
    BY <1>1, NullAssumption DEF OwnerInv, Owned
  <2>6. Owned'
    <3>1. \A x \in Backend : own'[x] = NoSid => child'[x] = NoProc
      BY <1>1, <1>2, <2>1, NullAssumption DEF OwnerInv, Owned
    <3>2. \A x \in Backend : child'[x] # NoProc => procs'[child'[x]].status # "none" /\ child'[x] # NoProc
      BY <1>4, <2>1, <2>5 DEF OwnerInv, Owned
    <3>3. \A x, y \in Backend : child'[x] = child'[y] /\ child'[x] # NoProc => x = y
      BY <1>1, <2>1, <2>5 DEF OwnerInv, Owned
    <3>4. \A c \in Proc : procs'[c].status # "none" => \E x \in Backend : child'[x] = c
      <4> SUFFICES ASSUME NEW c \in Proc, procs[c].status # "none" PROVE \E x \in Backend : child'[x] = c
        BY <1>4
      <4>1. CASE c = op.spare
        BY <1>1, <1>2, <2>1, <4>1
      <4>2. CASE c = op.c
        BY <1>2, <2>1, <4>2
      <4>3. CASE c # op.spare /\ c # op.c
        <5>1. PICK x \in Backend : child[x] = c
          BY <4>3 DEF OwnerInv, Owned
        <5>2. x # b /\ x # op.b
          BY <1>1, <2>4, <4>3, <5>1, NullAssumption
        <5> QED BY <2>1, <5>1, <5>2
      <4> QED BY <4>1, <4>2, <4>3
    <3> QED BY <2>3, <3>1, <3>2, <3>3, <3>4 DEF Owned
  <2> QED BY <2>2, <2>3, <2>6 DEF OwnerInv
<1> QED BY <1>3, <1>4 DEF DeliverChild, Done, b

-----------------------------------------------------------------------------
(* OwnerInv is inductive; the theorems about it. *)

\* Each step of AGM and of Pi, an interrupt at any point included, keeps OwnerInv.
LEMMA OwnerNext == OwnerInv /\ [Next \/ InterruptDelivery]_vars => OwnerInv'
<1> SUFFICES ASSUME OwnerInv, [Next \/ InterruptDelivery]_vars PROVE OwnerInv'
  OBVIOUS
<1>1. CASE \E b \in Backend : \/ Open(b) \/ Close(b)
                              \/ \E stage \in {"prompt", "new_session", "query", "parent"} : Begin(b, stage)
  BY <1>1, OpenKeeps, CloseKeeps, BeginKeeps
<1>2. CASE Write \/ Receive
  BY <1>2, SendKeeps, ReceiveKeeps
<1>3. CASE Eof \/ Timeout \/ Interrupt \/ InterruptDelivery
  BY <1>3, FailureKeeps
<1>4. CASE Deliver
  BY <1>4, DeliverDoneKeeps, ParentKeeps, ReadyCloneKeeps, ChildKeeps DEF Deliver
<1>5. CASE \E c \in Proc : Pi(c) \/ PiExits(c)
  BY <1>5, PiKeeps DEF Pi
<1>6. CASE UNCHANGED vars
  <2>1. TypeOK' /\ Fits(procs')
    BY <1>6, NowFits DEF OwnerInv, TypeOK, vars
  <2> QED BY <1>6, <2>1, QuietStep DEF OwnerInv, vars
<1> QED BY <1>1, <1>2, <1>3, <1>4, <1>5, <1>6 DEF Next, Call

LEMMA OwnerImpliesOne == OwnerInv => OneOwner
<1> SUFFICES ASSUME OwnerInv, NEW c \in Proc, procs[c].status # "none"
             PROVE  Cardinality({b \in Backend : child[b] = c}) + (IF op.spare = c THEN 1 ELSE 0) = 1
  BY DEF OneOwner
<1> DEFINE owners == {b \in Backend : child[b] = c}
<1>1. CASE op.spare = c
  <2>1. owners = {}
    BY <1>1, NullAssumption DEF OwnerInv, Owned
  <2> QED BY <1>1, <2>1, FS_EmptySet
<1>2. CASE op.spare # c
  <2>1. PICK b \in Backend : child[b] = c
    BY <1>2 DEF OwnerInv, Owned
  <2>2. owners = {b}
    BY <2>1, NullAssumption DEF OwnerInv, Owned
  <2>3. Cardinality(owners) = 1
    BY <2>2, FS_Singleton
  <2> QED BY <1>2, <2>3
<1> QED BY <1>1, <1>2

\* The processes, the backends and the call in progress keep their types: a call
\* that is answered knows a session, an open message has a number.
THEOREM RpcTyped == Spec => []TypeOK
<1>1. OwnerInv /\ [Next]_vars => OwnerInv'
  BY OwnerNext
<1>2. OwnerInv => TypeOK
  BY DEF OwnerInv
<1> QED BY <1>1, <1>2, OwnerInit, PTL DEF Spec

\* No Pi process is leaked or shared, whatever step of a fork fails, for any
\* number of backends, processes and sessions.
THEOREM ProcessOwned == Spec => []OneOwner
<1>1. OwnerInv /\ [Next]_vars => OwnerInv'
  BY OwnerNext
<1> QED BY <1>1, OwnerInit, OwnerImpliesOne, PTL DEF Spec

\* The same when an interrupt also comes while an answer is handed over, which
\* leaves the state of the session wrong but never a process behind.
THEOREM InterruptedOwned == InterruptedSpec => []OneOwner
BY OwnerNext, OwnerInit, OwnerImpliesOne, PTL DEF InterruptedSpec

-----------------------------------------------------------------------------
(* What may be on its way between AGM and the process of the call in progress.
   o is the call, p the process, t the outcome of the run (truth). *)

Calm(p) == p.inbox = <<>> /\ p.out = <<>> /\ ~p.run.on

Main(o)   == [n |-> o.n, cmd |-> o.stage]
State(o)  == [n |-> o.n, cmd |-> "state"]
Cancel(o) == [n |-> o.n, cmd |-> "cancel"]

IsResponse(e) == e.type = "response"

\* Nothing of the answer was received.
Unheard(o) == ~o.got /\ o.streaming = "unknown" /\ ~o.settled /\ ~o.failed /\ o.text = <<>>

\* k is the last of the messages of these types.
Last(out, types, k) == /\ k \in DOMAIN out /\ out[k].type \in types
                       /\ \A j \in DOMAIN out : j > k => out[j].type \notin types
None(out, types) == \A j \in DOMAIN out : out[j].type \notin types

FailureMarks == {"failure", "retry"}
TextMarks    == {"delta", "message", "retry"}

\* The failure and the text the call has gathered once it has read out.
WillFail(o, out, failed) ==
    \/ None(out, FailureMarks) /\ o.failed = failed
    \/ \E k \in DOMAIN out : Last(out, FailureMarks, k) /\ failed = (out[k].type = "failure")
WillSay(o, out, text) ==
    \/ None(out, TextMarks) /\ o.text = text
    \/ \E k \in DOMAIN out : Last(out, TextMarks, k) /\ \/ out[k].type = "message" /\ text = <<out[k].piece>>
                                                        \/ out[k].type = "retry" /\ text = <<>>

Said(run) == IF run.message = 0 THEN <<>> ELSE <<<<run.attempt, run.message>>>>

\* The call will have gathered what the run has produced.
Outcome(o, p, t) ==
    IF p.run.on
    THEN /\ p.run.n = o.n /\ WillFail(o, p.out, p.run.failed)
         /\ ~p.run.failed /\ ~p.run.open => WillSay(o, p.out, Said(p.run))
    ELSE /\ t.n = o.n /\ WillFail(o, p.out, t.failed)
         /\ ~t.failed => WillSay(o, p.out, t.text)

\* A run settles once, and sends no event after.
Settling(o, p) ==
    /\ p.run.on => ~o.settled /\ None(p.out, {"settled"})
    /\ o.settled => \A j \in DOMAIN p.out : IsResponse(p.out[j])
    /\ \A k \in DOMAIN p.out : p.out[k].type = "settled" => \A j \in DOMAIN p.out : j > k => IsResponse(p.out[j])

\* The run waits while its dialog, or the cancellation of it, is on its way.
Dialogs(o, p) ==
    /\ \A k \in DOMAIN p.out : p.out[k].type = "dialog" =>
          /\ p.run.on /\ p.run.dialog = "open" /\ p.inbox \in {<<>>, <<State(o)>>}
          /\ \A j \in DOMAIN p.out : p.out[j].type = "dialog" => j = k
    /\ p.inbox \in {<<Cancel(o)>>, <<State(o), Cancel(o)>>} => p.run.on /\ p.run.dialog = "open"

Running(o, p, t) == Outcome(o, p, t) /\ Settling(o, p) /\ Dialogs(o, p)

\* Before and after the reply to the command.
Unanswered(o, p) == ~p.run.on /\ p.out = <<>> /\ p.inbox \in {<<>>, <<Main(o)>>}
Answered(o, p, t) ==
    /\ p.inbox = <<>> /\ p.out # <<>> /\ IsResponse(p.out[1]) /\ p.out[1].r = Main(o)
    /\ \A k \in DOMAIN p.out : k > 1 => ~IsResponse(p.out[k])
    /\ IF o.stage = "prompt" /\ p.out[1].ok THEN Running(o, p, t) ELSE Len(p.out) = 1 /\ ~p.run.on

\* The state request that follows a prompt.
Stated(o, p) ==
    /\ p.inbox \in {<<>>, <<State(o)>>, <<Cancel(o)>>, <<State(o), Cancel(o)>>}
    /\ o.streaming # "unknown" => /\ p.inbox \in {<<>>, <<Cancel(o)>>}
                                  /\ \A k \in DOMAIN p.out : ~IsResponse(p.out[k])
    /\ \A k \in DOMAIN p.out : IsResponse(p.out[k]) =>
          /\ p.out[k].r = State(o) /\ p.inbox \in {<<>>, <<Cancel(o)>>}
          /\ ~p.out[k].streaming => k = Len(p.out) /\ ~p.run.on
          /\ \A j \in DOMAIN p.out : IsResponse(p.out[j]) => j = k

Waiting(o, p, t) ==
    \/ Unheard(o) /\ (Unanswered(o, p) \/ Answered(o, p, t))
    \/ o.got /\ o.stage = "prompt" /\ ~Completed(o) /\ Stated(o, p) /\ Running(o, p, t)

Told(o, t) == t.n = o.n /\ t.failed = o.failed /\ (~o.failed => t.text = o.text)

TrafficInv ==
    /\ \A c \in Proc : c # op.c => Calm(procs[c])
    /\ ~IsIdle => /\ answer.n = 0
                  /\ op.pc # "wait" => Calm(procs[op.c])
                  /\ op.pc = "write" => Unheard(op)
                  /\ op.pc = "wait" => Waiting(op, procs[op.c], truth)
                  /\ op.pc = "deliver" /\ op.stage = "prompt" => Told(op, truth)
    /\ truth.failed => truth.text = <<>>
    /\ answer.n # 0 => answer = truth

-----------------------------------------------------------------------------
(* Sequences of messages that grow at the end and are read from the front. *)

LEMMA Grown ==
  ASSUME NEW S, NEW s \in Seq(S), NEW e \in S
  PROVE  /\ Append(s, e) \in Seq(S) /\ Append(s, e) # <<>> /\ Len(Append(s, e)) = Len(s) + 1
         /\ Len(s) \in Nat /\ DOMAIN s = 1..Len(s) /\ DOMAIN Append(s, e) = 1..(Len(s) + 1)
         /\ Append(s, e)[Len(s) + 1] = e
         /\ \A k \in DOMAIN s : Append(s, e)[k] = s[k]
OBVIOUS

LEMMA Read ==
  ASSUME NEW S, NEW s \in Seq(S), s # <<>>
  PROVE  /\ Tail(s) \in Seq(S) /\ Head(s) \in S /\ Head(s) = s[1] /\ 1 \in DOMAIN s
         /\ Len(s) \in Nat \ {0} /\ DOMAIN s = 1..Len(s) /\ Len(Tail(s)) = Len(s) - 1
         /\ DOMAIN Tail(s) = 1..(Len(s) - 1)
         /\ \A k \in DOMAIN Tail(s) : k + 1 \in DOMAIN s /\ Tail(s)[k] = s[k + 1]
         /\ Len(s) = 1 => Tail(s) = <<>>
<1>1. /\ Tail(s) \in Seq(S) /\ Head(s) \in S /\ Head(s) = s[1] /\ Len(s) \in Nat \ {0}
      /\ DOMAIN s = 1..Len(s) /\ Len(Tail(s)) = Len(s) - 1
  OBVIOUS
<1>2. DOMAIN Tail(s) = 1..(Len(s) - 1)
  BY <1>1
<1>3. \A k \in DOMAIN Tail(s) : k + 1 \in DOMAIN s /\ Tail(s)[k] = s[k + 1]
  BY <1>1, <1>2
<1>4. Len(s) = 1 => Tail(s) = <<>>
  <2>1. \A x \in Seq(S) : Len(x) = 0 => x = <<>>
    BY EmptySeq
  <2> DEFINE t == Tail(s)
  <2>2. t \in Seq(S) /\ Len(t) = Len(s) - 1 /\ Len(s) \in Nat
    BY <1>1
  <2> HIDE DEF t
  <2>3. Len(s) = 1 => t = <<>>
    BY <2>1, <2>2
  <2> QED BY <2>3 DEF t
<1> QED BY <1>1, <1>2, <1>3, <1>4

LEMMA MarkGrown ==
  ASSUME NEW out \in Seq(Message), NEW e \in Message, NEW types
  PROVE  /\ e.type \in types => Last(Append(out, e), types, Len(out) + 1) /\ Append(out, e)[Len(out) + 1] = e
         /\ e.type \notin types /\ None(out, types) => None(Append(out, e), types)
         /\ e.type \notin types => \A k \in DOMAIN out : Last(out, types, k) =>
               Last(Append(out, e), types, k) /\ Append(out, e)[k] = out[k] /\ k \in DOMAIN Append(out, e)
         /\ Len(out) + 1 \in DOMAIN Append(out, e)
<1> DEFINE s == Append(out, e)
<1>1. /\ Len(out) \in Nat /\ DOMAIN out = 1..Len(out) /\ DOMAIN s = 1..(Len(out) + 1)
      /\ s[Len(out) + 1] = e /\ \A k \in DOMAIN out : s[k] = out[k]
  BY Grown
<1> HIDE DEF s
<1>2. \A k \in DOMAIN s : k \in DOMAIN out \/ k = Len(out) + 1
  BY <1>1
<1> QED BY <1>1, <1>2 DEF Last, None, s

LEMMA MarkRead ==
  ASSUME NEW out \in Seq(Message), out # <<>>, NEW types
  PROVE  /\ None(out, types) => Head(out).type \notin types /\ None(Tail(out), types)
         /\ Last(out, types, 1) => None(Tail(out), types)
         /\ \A k \in DOMAIN out : Last(out, types, k) /\ k # 1 =>
               k - 1 \in DOMAIN Tail(out) /\ Last(Tail(out), types, k - 1) /\ Tail(out)[k - 1] = out[k]
<1> DEFINE s == Tail(out)
<1>1. /\ Head(out) = out[1] /\ 1 \in DOMAIN out /\ Len(out) \in Nat \ {0} /\ DOMAIN out = 1..Len(out)
      /\ DOMAIN s = 1..(Len(out) - 1) /\ \A k \in DOMAIN s : k + 1 \in DOMAIN out /\ s[k] = out[k + 1]
  BY Read
<1> HIDE DEF s
<1>2. None(out, types) => Head(out).type \notin types /\ None(s, types)
  BY <1>1 DEF None
<1>3. Last(out, types, 1) => None(s, types)
  BY <1>1 DEF None, Last
<1>4. ASSUME NEW k \in DOMAIN out, Last(out, types, k), k # 1
      PROVE  k - 1 \in DOMAIN s /\ Last(s, types, k - 1) /\ s[k - 1] = out[k]
  <2>1. k - 1 \in DOMAIN s /\ s[k - 1] = out[k]
    BY <1>1, <1>4
  <2>2. ASSUME NEW j \in DOMAIN s, j > k - 1 PROVE s[j].type \notin types
    BY <1>1, <1>4, <2>2 DEF Last
  <2> QED BY <1>4, <2>1, <2>2 DEF Last
<1> QED BY <1>2, <1>3, <1>4 DEF s

LEMMA LastRead ==
  ASSUME NEW out \in Seq(Message), out # <<>>, NEW types, NEW k \in DOMAIN out, Last(out, types, k), k # 1
  PROVE  k - 1 \in DOMAIN Tail(out) /\ Last(Tail(out), types, k - 1) /\ Tail(out)[k - 1] = out[k]
BY MarkRead, Zenon

LEMMA WillFailGrown ==
  ASSUME NEW o, NEW out \in Seq(Message), NEW e \in Message, NEW failed, WillFail(o, out, failed)
  PROVE  /\ e.type \notin FailureMarks => WillFail(o, Append(out, e), failed)
         /\ e.type \in FailureMarks => WillFail(o, Append(out, e), e.type = "failure")
<1>1. CASE e.type \in FailureMarks
  <2>1. Last(Append(out, e), FailureMarks, Len(out) + 1) /\ Append(out, e)[Len(out) + 1] = e
        /\ Len(out) + 1 \in DOMAIN Append(out, e)
    BY <1>1, MarkGrown
  <2> QED BY <1>1, <2>1 DEF WillFail
<1>2. CASE e.type \notin FailureMarks
  <2>1. CASE None(out, FailureMarks) /\ o.failed = failed
    BY <1>2, <2>1, MarkGrown DEF WillFail
  <2>2. CASE \E k \in DOMAIN out : Last(out, FailureMarks, k) /\ failed = (out[k].type = "failure")
    <3>1. PICK k \in DOMAIN out : Last(out, FailureMarks, k) /\ failed = (out[k].type = "failure")
      BY <2>2
    <3>2. Last(Append(out, e), FailureMarks, k) /\ Append(out, e)[k] = out[k] /\ k \in DOMAIN Append(out, e)
      BY <1>2, <3>1, MarkGrown
    <3> QED BY <1>2, <3>1, <3>2 DEF WillFail
  <2> QED BY <2>1, <2>2 DEF WillFail
<1> QED BY <1>1, <1>2

LEMMA WillSayGrown ==
  ASSUME NEW o, NEW out \in Seq(Message), NEW e \in Message, NEW text
  PROVE  /\ e.type \notin TextMarks /\ WillSay(o, out, text) => WillSay(o, Append(out, e), text)
         /\ e.type = "message" => WillSay(o, Append(out, e), <<e.piece>>)
         /\ e.type = "retry" => WillSay(o, Append(out, e), <<>>)
<1>1. CASE e.type \in TextMarks
  <2>1. Last(Append(out, e), TextMarks, Len(out) + 1) /\ Append(out, e)[Len(out) + 1] = e
        /\ Len(out) + 1 \in DOMAIN Append(out, e)
    BY <1>1, MarkGrown
  <2> QED BY <1>1, <2>1 DEF WillSay
<1>2. CASE e.type \notin TextMarks
  <2>0. e.type # "message" /\ e.type # "retry"
    BY <1>2 DEF TextMarks
  <2>1. CASE None(out, TextMarks) /\ o.text = text
    BY <1>2, <2>0, <2>1, MarkGrown DEF WillSay
  <2>2. ASSUME NEW k \in DOMAIN out, Last(out, TextMarks, k),
               (out[k].type = "message" /\ text = <<out[k].piece>>) \/ (out[k].type = "retry" /\ text = <<>>)
        PROVE  WillSay(o, Append(out, e), text)
    <3>2. Last(Append(out, e), TextMarks, k) /\ Append(out, e)[k] = out[k] /\ k \in DOMAIN Append(out, e)
      BY <1>2, <2>2, MarkGrown
    <3> QED BY <2>2, <3>2 DEF WillSay
  <2> QED BY <2>0, <2>1, <2>2 DEF WillSay
<1> QED BY <1>1, <1>2

LEMMA WillFailRead ==
  ASSUME NEW o, NEW q, NEW out \in Seq(Message), out # <<>>, NEW failed, WillFail(o, out, failed),
         Head(out).type \notin FailureMarks => q.failed = o.failed,
         Head(out).type = "failure" => q.failed = TRUE,
         Head(out).type = "retry" => q.failed = FALSE
  PROVE  WillFail(q, Tail(out), failed)
<1>1. CASE None(out, FailureMarks) /\ o.failed = failed
  BY <1>1, MarkRead DEF WillFail
<1>2. ASSUME NEW k \in DOMAIN out, Last(out, FailureMarks, k), failed = (out[k].type = "failure")
      PROVE  WillFail(q, Tail(out), failed)
  <2>1. CASE k = 1
    <3>1. Head(out) = out[1] /\ out[1].type \in FailureMarks /\ None(Tail(out), FailureMarks)
      BY <1>2, <2>1, Read, MarkRead DEF Last
    <3> QED BY <1>2, <2>1, <3>1 DEF WillFail, FailureMarks
  <2>2. CASE k # 1
    <3>1. k - 1 \in DOMAIN Tail(out) /\ Last(Tail(out), FailureMarks, k - 1) /\ Tail(out)[k - 1] = out[k]
      BY <1>2, <2>2, LastRead
    <3> QED BY <1>2, <3>1 DEF WillFail
  <2> QED BY <2>1, <2>2
<1> QED BY <1>1, <1>2 DEF WillFail

LEMMA WillSayRead ==
  ASSUME NEW o, NEW q, NEW out \in Seq(Message), out # <<>>, NEW text, WillSay(o, out, text),
         Head(out).type \notin TextMarks => q.text = o.text,
         Head(out).type = "message" => q.text = <<Head(out).piece>>,
         Head(out).type = "retry" => q.text = <<>>
  PROVE  WillSay(q, Tail(out), text)
<1>1. CASE None(out, TextMarks) /\ o.text = text
  BY <1>1, MarkRead DEF WillSay
<1>2. ASSUME NEW k \in DOMAIN out, Last(out, TextMarks, k),
             (out[k].type = "message" /\ text = <<out[k].piece>>) \/ (out[k].type = "retry" /\ text = <<>>)
      PROVE  WillSay(q, Tail(out), text)
  <2>1. CASE k = 1
    <3>1. Head(out) = out[1] /\ None(Tail(out), TextMarks)
      BY <1>2, <2>1, Read, MarkRead
    <3> QED BY <1>2, <2>1, <3>1 DEF WillSay
  <2>2. CASE k # 1
    <3>1. k - 1 \in DOMAIN Tail(out) /\ Last(Tail(out), TextMarks, k - 1) /\ Tail(out)[k - 1] = out[k]
      BY <1>2, <2>2, LastRead
    <3> QED BY <1>2, <3>1 DEF WillSay
  <2> QED BY <2>1, <2>2
<1> QED BY <1>1, <1>2 DEF WillSay

-----------------------------------------------------------------------------
(* Pi answers and runs. *)

LEMMA Inboxes ==
  ASSUME NEW a, NEW b, a # b
  PROVE  /\ <<a>> # <<>> /\ <<a, b>> # <<>> /\ <<a>> # <<b>> /\ <<a, b>> # <<a>> /\ <<a, b>> # <<b>>
         /\ Head(<<a>>) = a /\ Head(<<a, b>>) = a /\ Tail(<<a>>) = <<>> /\ Tail(<<a, b>>) = <<b>>
         /\ Append(<<>>, a) = <<a>> /\ Append(<<a>>, b) = <<a, b>>
<1>1. Len(<<a>>) = 1 /\ Len(<<a, b>>) = 2 /\ <<a>>[1] = a /\ <<b>>[1] = b
  OBVIOUS
<1>2. Head(<<a>>) = a /\ Head(<<a, b>>) = a /\ Tail(<<a>>) = <<>> /\ Tail(<<a, b>>) = <<b>>
  OBVIOUS
<1>3. Append(<<>>, a) = <<a>> /\ Append(<<a>>, b) = <<a, b>>
  <2> DEFINE S == {a, b}
  <2>1. <<>> \in Seq(S) /\ <<a>> \in Seq(S) /\ <<a, b>> \in Seq(S)
    OBVIOUS
  <2>2. Append(<<>>, a) \in Seq(S) /\ Append(<<a>>, b) \in Seq(S)
    BY <2>1, Grown
  <2>3. Len(Append(<<>>, a)) = 1 /\ Append(<<>>, a)[1] = a
    OBVIOUS
  <2>4. Len(Append(<<a>>, b)) = 2 /\ Append(<<a>>, b)[1] = a /\ Append(<<a>>, b)[2] = b
    OBVIOUS
  <2>5. Len(<<a>>) = 1 /\ <<a>>[1] = a /\ Len(<<a, b>>) = 2 /\ <<a, b>>[1] = a /\ <<a, b>>[2] = b
    OBVIOUS
  <2> DEFINE x == Append(<<>>, a)
             y == Append(<<a>>, b)
             one == <<a>>
             two == <<a, b>>
  <2> HIDE DEF x, y, one, two, S
  <2>6. x = one
    BY <2>1, <2>2, <2>3, <2>5, SeqEqual DEF x, one
  <2>7. y = two
    <3>1. y \in Seq(S) /\ two \in Seq(S) /\ Len(y) = Len(two) /\ Len(y) = 2
      BY <2>1, <2>2, <2>4, <2>5 DEF y, two
    <3>2. \A i \in 1..2 : y[i] = two[i]
      <4>1. y[1] = two[1] /\ y[2] = two[2]
        BY <2>4, <2>5 DEF y, two
      <4> QED BY <4>1
    <3> QED BY <3>1, <3>2, SeqEqual
  <2> QED BY <2>6, <2>7 DEF x, y, one, two
<1>4. <<a>> # <<>> /\ <<a, b>> # <<>>
  OBVIOUS
<1>5. <<a>> # <<b>>
  BY <1>1
<1>6. <<a, b>> # <<a>> /\ <<a, b>> # <<b>>
  OBVIOUS
<1> QED BY <1>2, <1>3, <1>4, <1>5, <1>6

\* One event of a run; t and u are the outcome before and after.
Advances(run, new, e, t, u) ==
    \/ /\ e.type = "delta" /\ ~run.failed /\ u = t
       /\ new = [run EXCEPT !.message = @ + 1, !.open = TRUE]
    \/ /\ e.type = "message" /\ run.open /\ u = t
       /\ new = [run EXCEPT !.open = FALSE] /\ e.piece = <<new.attempt, new.message>>
    \/ e.type = "dialog" /\ run.open /\ u = t /\ new = [run EXCEPT !.dialog = "open"]
    \/ e.type = "failure" /\ u = t /\ new = [run EXCEPT !.failed = TRUE, !.open = FALSE]
    \/ /\ e.type = "retry" /\ u = t
       /\ new = [Quiet EXCEPT !.on = TRUE, !.n = run.n, !.attempt = run.attempt + 1]
    \/ /\ e.type = "settled" /\ ~run.open /\ new = Quiet
       /\ u = [n |-> run.n, failed |-> run.failed,
               text |-> IF run.failed \/ run.message = 0 THEN <<>> ELSE <<<<run.attempt, run.message>>>>]

LEMMA RunGoesOn ==
  ASSUME NEW o, NEW p \in Process, NEW t, p.run.on, p.run.dialog # "open", p.run.open => p.run.message > 0,
         Running(o, p, t), p.inbox \in {<<>>, <<State(o)>>, <<Cancel(o)>>, <<State(o), Cancel(o)>>},
         NEW new, NEW e \in Message, NEW u, Advances(p.run, new, e, t, u),
         NEW q, q.run = new, q.inbox = p.inbox, q.out = Append(p.out, e)
  PROVE  Running(o, q, u)
<1> DEFINE run == p.run
           n == Len(p.out) + 1
<1>0. p.out \in Seq(Message) /\ run \in RunState
  BY DEF Process
<1>1. /\ \A k \in DOMAIN q.out : (k \in DOMAIN p.out /\ q.out[k] = p.out[k]) \/ (k = n /\ q.out[k] = e)
      /\ \A k \in DOMAIN p.out : k \in 1..(n - 1) /\ n \in Nat
  BY <1>0, Grown
<1>2. \/ new.on /\ new.n = run.n /\ e.type # "settled" /\ u = t
      \/ ~new.on /\ e.type = "settled"
  <2>1. e.type \in {"delta", "message", "dialog", "failure", "retry", "settled"}
    BY DEF Advances
  <2>2. CASE e.type = "delta" \/ e.type = "message" \/ e.type = "dialog" \/ e.type = "failure"
    BY <1>0, <2>2 DEF Advances, RunState
  <2>3. CASE e.type = "retry"
    <3>1. u = t /\ new = [Quiet EXCEPT !.on = TRUE, !.n = run.n, !.attempt = run.attempt + 1]
      BY <2>3 DEF Advances
    <3> QED BY <2>3, <3>1 DEF Quiet
  <2>4. CASE e.type = "settled"
    BY <2>4 DEF Advances, Quiet
  <2> QED BY <2>1, <2>2, <2>3, <2>4
<1>3. e.type = "dialog" => new.on /\ new.dialog = "open"
  BY <1>0 DEF Advances, RunState
<1> HIDE DEF run, n
<1>4. Settling(o, q)
  <2>1. ~o.settled /\ \A j \in DOMAIN p.out : p.out[j].type # "settled"
    BY DEF Running, Settling, None
  <2>2. \A k \in DOMAIN q.out : q.out[k].type = "settled" => k = n /\ ~new.on
    BY <1>1, <1>2, <2>1
  <2>3. \A k \in DOMAIN q.out : ~(k > n)
    BY <1>1, <1>0, Grown DEF n
  <2> QED BY <2>1, <2>2, <2>3 DEF Settling, None
<1>5. Dialogs(o, q)
  <2>1. /\ \A k \in DOMAIN p.out : p.out[k].type # "dialog"
        /\ p.inbox \in {<<>>, <<State(o)>>}
    BY DEF Running, Dialogs
  <2>2. \A k \in DOMAIN q.out : q.out[k].type = "dialog" => k = n /\ e.type = "dialog"
    BY <1>1, <2>1
  <2>3. p.inbox \notin {<<Cancel(o)>>, <<State(o), Cancel(o)>>}
    <3>1. State(o) # Cancel(o)
      BY DEF State, Cancel
    <3>2. /\ <<>> # <<Cancel(o)>> /\ <<State(o)>> # <<Cancel(o)>>
          /\ <<>> # <<State(o), Cancel(o)>> /\ <<State(o)>> # <<State(o), Cancel(o)>>
      BY <3>1, Inboxes
    <3> QED BY <2>1, <3>2
  <2> QED BY <1>3, <2>1, <2>2, <2>3 DEF Dialogs
<1>6. /\ run.n = o.n /\ WillFail(o, p.out, run.failed)
      /\ ~run.failed /\ ~run.open => WillSay(o, p.out, Said(run))
  BY DEF Running, Outcome, run
<1>7. Outcome(o, q, u)
  <2>1. CASE e.type = "delta" \/ e.type = "dialog"
    <3>1. new.on /\ new.n = run.n /\ new.failed = run.failed /\ (new.failed \/ new.open)
      BY <1>0, <2>1 DEF Advances, RunState, run
    <3>2. WillFail(o, q.out, new.failed)
      BY <1>0, <1>6, <2>1, <3>1, WillFailGrown DEF FailureMarks
    <3> QED BY <1>6, <3>1, <3>2 DEF Outcome
  <2>2. CASE e.type = "message"
    <3>0. /\ new = [run EXCEPT !.open = FALSE] /\ run.message > 0
          /\ e.piece = <<new.attempt, new.message>>
      BY <2>2 DEF Advances, run
    <3>1. new.on /\ new.n = run.n /\ new.failed = run.failed /\ new.message # 0
      BY <1>0, <3>0 DEF RunState, run
    <3>4. Said(new) = <<e.piece>>
      BY <3>0, <3>1 DEF Said
    <3>2. WillFail(o, q.out, new.failed)
      BY <1>0, <1>6, <2>2, <3>1, WillFailGrown DEF FailureMarks
    <3>3. WillSay(o, q.out, Said(new))
      BY <1>0, <2>2, <3>4, WillSayGrown
    <3> QED BY <1>6, <3>1, <3>2, <3>3 DEF Outcome
  <2>3. CASE e.type = "failure"
    <3>1. new.on /\ new.n = run.n /\ new.failed = (e.type = "failure") /\ new.failed
      BY <1>0, <2>3 DEF Advances, RunState, run
    <3>2. WillFail(o, q.out, new.failed)
      BY <1>0, <1>6, <2>3, <3>1, WillFailGrown DEF FailureMarks
    <3> QED BY <1>6, <3>1, <3>2 DEF Outcome
  <2>4. CASE e.type = "retry"
    <3>1. new.on /\ new.n = run.n /\ new.failed = (e.type = "failure") /\ Said(new) = <<>>
      BY <1>0, <2>4 DEF Advances, RunState, run, Quiet, Said
    <3>2. WillFail(o, q.out, new.failed)
      BY <1>0, <1>6, <2>4, <3>1, WillFailGrown DEF FailureMarks
    <3>3. WillSay(o, q.out, Said(new))
      BY <1>0, <2>4, <3>1, WillSayGrown
    <3> QED BY <1>6, <3>1, <3>2, <3>3 DEF Outcome
  <2>5. CASE e.type = "settled"
    <3>1. ~new.on /\ u.n = run.n /\ u.failed = run.failed /\ (~u.failed => u.text = Said(run) /\ ~run.open)
      BY <1>0, <2>5 DEF Advances, Quiet, Said, run
    <3>2. WillFail(o, q.out, u.failed)
      BY <1>0, <1>6, <2>5, <3>1, WillFailGrown DEF FailureMarks
    <3>3. ~u.failed => WillSay(o, q.out, u.text)
      BY <1>0, <1>6, <2>5, <3>1, WillSayGrown DEF TextMarks
    <3> QED BY <1>6, <3>1, <3>2, <3>3 DEF Outcome
  <2> QED BY <2>1, <2>2, <2>3, <2>4, <2>5 DEF Advances
<1> QED BY <1>4, <1>5, <1>7 DEF Running

\* The reply e to request r, or the cancellation of a dialog.
Replies(r, p, q, t, u) ==
    /\ q.inbox = Tail(p.inbox)
    /\ \/ /\ r.cmd # "cancel"
          /\ \E e \in Message :
                /\ IsResponse(e) /\ e.r = r /\ e.streaming = q.run.on /\ q.out = Append(p.out, e)
                /\ \/ q.run = p.run /\ u = (IF e.ok /\ r.cmd = "prompt" THEN [NoAnswer EXCEPT !.n = r.n] ELSE t)
                   \/ /\ r.cmd = "prompt" /\ e.ok /\ u = t
                      /\ q.run = [Quiet EXCEPT !.on = TRUE, !.n = r.n]
       \/ r.cmd = "cancel" /\ q.out = p.out /\ q.run = [p.run EXCEPT !.dialog = "closed"] /\ u = t

\* What is in a sequence that ends in e.
LEMMA GrownBy ==
  ASSUME NEW s \in Seq(Message), NEW e \in Message, NEW q, q = Append(s, e)
  PROVE  /\ Len(q) = Len(s) + 1 /\ Len(s) \in Nat /\ DOMAIN q = 1..(Len(s) + 1)
         /\ Len(q) \in DOMAIN q /\ q[Len(q)] = e
         /\ \A k \in DOMAIN q : (k \in DOMAIN s /\ q[k] = s[k] /\ k < Len(q)) \/ (k = Len(q) /\ q[k] = e)
         /\ \A k \in DOMAIN s : k \in DOMAIN q /\ q[k] = s[k]
<1>1. /\ Len(q) = Len(s) + 1 /\ Len(s) \in Nat /\ DOMAIN s = 1..Len(s) /\ DOMAIN q = 1..(Len(s) + 1)
      /\ q[Len(s) + 1] = e /\ \A k \in DOMAIN s : q[k] = s[k]
  BY Grown
<1> QED BY <1>1

LEMMA MainReplied ==
  ASSUME NEW o \in CallState, o.stage # "idle", NEW p \in Process, NEW t, NEW q, NEW u,
         Unheard(o), Unanswered(o, p), p.inbox # <<>>, Replies(Head(p.inbox), p, q, t, u)
  PROVE  Answered(o, q, u)
<1>1. /\ p.inbox = <<Main(o)>> /\ p.out = <<>> /\ ~p.run.on
      /\ Head(<<Main(o)>>) = Main(o) /\ Tail(<<Main(o)>>) = <<>>
  BY Inboxes DEF Unanswered
<1>2. Main(o).cmd = o.stage /\ Main(o).n = o.n /\ o.stage # "cancel"
  BY DEF Main, CallState, Asks
<1>3. PICK e \in Message :
         /\ IsResponse(e) /\ e.r = Main(o) /\ q.out = Append(p.out, e)
         /\ \/ q.run = p.run /\ u = (IF e.ok /\ o.stage = "prompt" THEN [NoAnswer EXCEPT !.n = o.n] ELSE t)
            \/ o.stage = "prompt" /\ e.ok /\ q.run = [Quiet EXCEPT !.on = TRUE, !.n = o.n]
  BY ZenonT(60), <1>1, <1>2 DEF Replies
<1>4. q.inbox = <<>>
  BY <1>1 DEF Replies
<1>5. Len(q.out) = 1 /\ q.out # <<>> /\ q.out[1] = e /\ \A k \in DOMAIN q.out : k = 1 /\ q.out[k] = e
  <2>1. <<>> \in Seq(Message) /\ Len(<<>>) = 0
    BY EmptySeq
  <2>2. q.out # <<>>
    BY <1>1, <1>3, <2>1, Grown
  <2> QED BY <1>1, <1>3, <2>1, <2>2, GrownBy
<1>6. ASSUME o.stage = "prompt", e.ok PROVE Running(o, q, u)
  <2>1. \A k \in DOMAIN q.out : q.out[k].type = "response"
    BY <1>3, <1>5 DEF IsResponse
  <2>2. None(q.out, FailureMarks) /\ None(q.out, TextMarks) /\ None(q.out, {"settled"})
    BY <2>1 DEF None, FailureMarks, TextMarks
  <2>3. WillFail(o, q.out, FALSE) /\ WillSay(o, q.out, <<>>)
    BY <2>2 DEF WillFail, WillSay, Unheard
  <2>4. Settling(o, q)
    BY <2>1, <2>2 DEF Settling, Unheard, IsResponse
  <2>5. Dialogs(o, q)
    <3>1. State(o) # Cancel(o)
      BY DEF State, Cancel
    <3>2. <<Cancel(o)>> # <<>> /\ <<State(o), Cancel(o)>> # <<>>
      BY <3>1, Inboxes
    <3> QED BY <1>4, <2>1, <3>2 DEF Dialogs
  <2>6. CASE q.run = p.run /\ u = [NoAnswer EXCEPT !.n = o.n]
    <3>1. ~q.run.on /\ u.n = o.n /\ u.failed = FALSE /\ u.text = <<>>
      BY <1>1, <2>6 DEF NoAnswer
    <3> QED BY <2>3, <2>4, <2>5, <3>1 DEF Running, Outcome
  <2>7. CASE q.run = [Quiet EXCEPT !.on = TRUE, !.n = o.n]
    <3>1. q.run.on /\ q.run.n = o.n /\ q.run.failed = FALSE /\ Said(q.run) = <<>>
      BY <2>7 DEF Quiet, Said
    <3> QED BY <2>3, <2>4, <2>5, <3>1 DEF Running, Outcome
  <2> QED BY <1>3, <1>6, <2>6, <2>7
<1>7. ~(o.stage = "prompt" /\ e.ok) => ~q.run.on
  BY <1>1, <1>3
<1> QED BY <1>3, <1>4, <1>5, <1>6, <1>7 DEF Answered

LEMMA StateReplied ==
  ASSUME NEW o \in CallState, NEW p \in Process, NEW t, NEW q, NEW u,
         Stated(o, p), Running(o, p, t), p.inbox \in {<<State(o)>>, <<State(o), Cancel(o)>>},
         Replies(Head(p.inbox), p, q, t, u)
  PROVE  Stated(o, q) /\ Running(o, q, u)
<1>1. State(o) # Cancel(o) /\ State(o).cmd = "state"
  BY DEF State, Cancel
<1>2. /\ Head(p.inbox) = State(o)
      /\ p.inbox = <<State(o)>> => q.inbox = <<>>
      /\ p.inbox = <<State(o), Cancel(o)>> => q.inbox = <<Cancel(o)>>
      /\ p.inbox \notin {<<>>, <<Cancel(o)>>} /\ <<State(o), Cancel(o)>> # <<State(o)>>
      /\ <<Cancel(o)>> # <<>> /\ <<State(o), Cancel(o)>> # <<>> /\ <<State(o), Cancel(o)>> # <<Cancel(o)>>
  <2>1. /\ <<State(o)>> # <<>> /\ <<State(o), Cancel(o)>> # <<>> /\ <<State(o)>> # <<Cancel(o)>>
        /\ <<State(o), Cancel(o)>> # <<State(o)>> /\ <<State(o), Cancel(o)>> # <<Cancel(o)>>
        /\ Head(<<State(o)>>) = State(o) /\ Head(<<State(o), Cancel(o)>>) = State(o)
        /\ Tail(<<State(o)>>) = <<>> /\ Tail(<<State(o), Cancel(o)>>) = <<Cancel(o)>>
    BY <1>1, Inboxes
  <2>2. <<Cancel(o)>> # <<>>
    BY <1>1, Inboxes
  <2>3. q.inbox = Tail(p.inbox)
    BY DEF Replies
  <2> QED BY <2>1, <2>2, <2>3
<1>3. PICK e \in Message :
         /\ e.type = "response" /\ e.r = State(o) /\ e.streaming = q.run.on /\ q.out = Append(p.out, e)
         /\ q.run = p.run /\ u = t
  BY <1>1, <1>2 DEF Replies, IsResponse
<1>4. p.out \in Seq(Message)
  BY DEF Process
<1>5. /\ Len(q.out) \in DOMAIN q.out
      /\ \A k \in DOMAIN q.out : (k \in DOMAIN p.out /\ q.out[k] = p.out[k] /\ k < Len(q.out)) \/ (k = Len(q.out) /\ q.out[k] = e)
  BY <1>3, <1>4, GrownBy
<1>6. o.streaming = "unknown" /\ \A k \in DOMAIN p.out : p.out[k].type # "response"
  BY <1>2 DEF Stated, IsResponse
<1>7. Stated(o, q)
  <2>1. q.inbox \in {<<>>, <<Cancel(o)>>}
    BY <1>2
  <2>2. \A k \in DOMAIN q.out : q.out[k].type = "response" => k = Len(q.out) /\ q.out[k] = e
    BY <1>5, <1>6
  <2> QED BY <1>3, <1>6, <2>1, <2>2 DEF Stated, IsResponse
<1>8. Outcome(o, q, u)
  <2>1. \A failed : WillFail(o, p.out, failed) => WillFail(o, q.out, failed)
    BY <1>3, <1>4, WillFailGrown DEF FailureMarks
  <2>2. \A text : WillSay(o, p.out, text) => WillSay(o, q.out, text)
    BY <1>3, <1>4, WillSayGrown DEF TextMarks
  <2> QED BY <1>3, <2>1, <2>2 DEF Outcome, Running
<1>9. Settling(o, q)
  <2>1. Settling(o, p)
    BY DEF Running
  <2> QED BY <1>3, <1>5, <2>1 DEF Settling, IsResponse, None
<1>10. Dialogs(o, q)
  <2>1. Dialogs(o, p)
    BY DEF Running
  <2>2. \A k \in DOMAIN q.out : q.out[k].type = "dialog" => k \in DOMAIN p.out /\ q.out[k] = p.out[k]
    BY <1>3, <1>5
  <2>3. \A k \in DOMAIN q.out : q.out[k].type = "dialog" =>
           /\ p.run.on /\ p.run.dialog = "open" /\ p.inbox = <<State(o)>>
           /\ \A j \in DOMAIN q.out : q.out[j].type = "dialog" => j = k
    BY <1>2, <2>1, <2>2 DEF Dialogs
  <2> QED BY <1>2, <1>3, <2>1, <2>3 DEF Dialogs
<1> QED BY <1>7, <1>8, <1>9, <1>10 DEF Running

LEMMA DialogCancelled ==
  ASSUME NEW o \in CallState, NEW p \in Process, NEW t, NEW q, NEW u,
         Stated(o, p), Running(o, p, t), p.inbox = <<Cancel(o)>>, Replies(Head(p.inbox), p, q, t, u)
  PROVE  Stated(o, q) /\ Running(o, q, u)
<1>1. State(o) # Cancel(o) /\ Cancel(o).cmd = "cancel"
  BY DEF State, Cancel
<1>2. /\ Head(p.inbox) = Cancel(o) /\ q.inbox = <<>> /\ p.inbox \notin {<<>>, <<State(o)>>}
      /\ <<Cancel(o)>> # <<>> /\ <<State(o), Cancel(o)>> # <<>>
  BY <1>1, Inboxes DEF Replies
<1>3. q.out = p.out /\ q.run = [p.run EXCEPT !.dialog = "closed"] /\ u = t
  BY <1>1, <1>2 DEF Replies
<1>4. /\ q.run.on = p.run.on /\ q.run.n = p.run.n /\ q.run.failed = p.run.failed
      /\ q.run.open = p.run.open /\ q.run.message = p.run.message /\ q.run.attempt = p.run.attempt
  BY <1>3 DEF Process, RunState
<1>5. \A k \in DOMAIN q.out : q.out[k].type # "dialog"
  BY <1>2, <1>3 DEF Running, Dialogs
<1>6. Stated(o, q)
  BY <1>2, <1>3, <1>4 DEF Stated
<1>7. Outcome(o, q, u)
  BY <1>3, <1>4 DEF Outcome, Running, Said
<1>8. Settling(o, q) /\ Dialogs(o, q)
  BY <1>2, <1>3, <1>4, <1>5 DEF Settling, Dialogs, Running
<1> QED BY <1>6, <1>7, <1>8 DEF Running

LEMMA ReplyWaits ==
  ASSUME NEW o \in CallState, o.stage # "idle", NEW p \in Process, NEW t, NEW q, NEW u,
         Waiting(o, p, t), p.inbox # <<>>, Replies(Head(p.inbox), p, q, t, u)
  PROVE  Waiting(o, q, u)
<1>1. CASE Unheard(o) /\ Unanswered(o, p)
  BY <1>1, MainReplied DEF Waiting
<1>2. CASE Unheard(o) /\ Answered(o, p, t)
  BY <1>2 DEF Answered
<1>3. CASE o.got /\ o.stage = "prompt" /\ ~Completed(o) /\ Stated(o, p) /\ Running(o, p, t)
  <2>1. p.inbox \in {<<State(o)>>, <<State(o), Cancel(o)>>} \/ p.inbox = <<Cancel(o)>>
    BY <1>3 DEF Stated
  <2> QED BY <1>3, <2>1, StateReplied, DialogCancelled DEF Waiting
<1> QED BY <1>1, <1>2, <1>3 DEF Waiting

\* A run goes on while its events wait to be read.
LEMMA RunWaits ==
  ASSUME NEW o \in CallState, NEW p \in Process, NEW t, Waiting(o, p, t),
         p.run.on, p.run.dialog # "open", p.run.open => p.run.message > 0,
         NEW new, NEW e \in Message, e.type # "response", NEW u, Advances(p.run, new, e, t, u),
         NEW q, q.run = new, q.inbox = p.inbox, q.out = Append(p.out, e)
  PROVE  Waiting(o, q, u)
<1>0. p.out \in Seq(Message)
  BY DEF Process
<1>1. /\ Len(q.out) \in DOMAIN q.out /\ q.out # <<>>
      /\ \A k \in DOMAIN q.out : (k \in DOMAIN p.out /\ q.out[k] = p.out[k] /\ k < Len(q.out)) \/ (k = Len(q.out) /\ q.out[k] = e)
      /\ \A k \in DOMAIN p.out : k \in DOMAIN q.out /\ q.out[k] = p.out[k]
  BY <1>0, Grown, GrownBy
<1>2. CASE Unheard(o) /\ Answered(o, p, t)
  <2>1. o.stage = "prompt" /\ p.out[1].ok /\ Running(o, p, t)
    BY <1>2 DEF Answered
  <2>2. p.out # <<>> /\ p.inbox = <<>> /\ p.out[1].type = "response" /\ p.out[1].r = Main(o)
    BY <1>2 DEF Answered, IsResponse
  <2>3. q.out[1] = p.out[1]
    BY <1>0, <1>1, <2>2, Read
  <2>4. Running(o, q, u)
    BY <2>1, <2>2, RunGoesOn
  <2>5. \A k \in DOMAIN q.out : k > 1 => q.out[k].type # "response"
    BY <1>1, <1>2 DEF Answered, IsResponse
  <2> QED BY <1>1, <1>2, <2>1, <2>2, <2>3, <2>4, <2>5 DEF Waiting, Answered, IsResponse
<1>3. CASE o.got /\ o.stage = "prompt" /\ ~Completed(o) /\ Stated(o, p) /\ Running(o, p, t)
  <2>1. Running(o, q, u)
    BY <1>3, RunGoesOn DEF Stated
  <2>2. Stated(o, q)
    <3>1. \A k \in DOMAIN q.out : q.out[k].type = "response" => k \in DOMAIN p.out /\ q.out[k] = p.out[k]
      BY <1>1
    <3>2. \A k \in DOMAIN p.out : p.out[k].type = "response" => p.out[k].streaming
      BY <1>3 DEF Stated, IsResponse
    <3>3. \A k \in DOMAIN q.out : q.out[k].type = "response" => q.out[k].streaming
      BY <3>1, <3>2
    <3>4. Stated(o, p)
      BY <1>3
    <3> QED BY <3>1, <3>3, <3>4 DEF Stated, IsResponse
  <2> QED BY <1>3, <2>1, <2>2 DEF Waiting
<1> QED BY <1>2, <1>3 DEF Waiting, Unanswered

\* The process exits: what it has not read is lost.
LEMMA ExitWaits ==
  ASSUME NEW o, NEW p, NEW t, Waiting(o, p, t), NEW q, q.out = p.out, q.run = p.run, q.inbox = <<>>
  PROVE  Waiting(o, q, t)
<1>1. <<Cancel(o)>> # <<>> /\ <<State(o), Cancel(o)>> # <<>>
  BY Inboxes DEF State, Cancel
<1>2. Running(o, p, t) => Running(o, q, t)
  BY <1>1 DEF Running, Outcome, Settling, Dialogs
<1>3. Unanswered(o, p) => Unanswered(o, q)
  BY DEF Unanswered
<1>4. Answered(o, p, t) => Answered(o, q, t)
  BY <1>2 DEF Answered
<1>5. Stated(o, p) => Stated(o, q)
  BY DEF Stated
<1> QED BY <1>2, <1>3, <1>4, <1>5 DEF Waiting

-----------------------------------------------------------------------------
(* TrafficInv through the steps of Pi. *)

\* Only the process of the call in progress has anything to answer or to run.
LEMMA OnlyCalled ==
  ASSUME OwnerInv, TrafficInv, NEW c \in Proc, procs[c].inbox # <<>> \/ procs[c].run.on
  PROVE  /\ c = op.c /\ ~IsIdle /\ op.pc = "wait" /\ op \in CallState /\ op.stage # "idle"
         /\ Waiting(op, procs[c], truth)
<1>1. ~Calm(procs[c])
  BY DEF Calm
<1>2. c = op.c
  BY <1>1 DEF TrafficInv
<1>3. ~IsIdle
  BY <1>2, NullAssumption DEF OwnerInv, Calls, Idle
<1>4. op \in CallState
  BY DEF OwnerInv, TypeOK
<1> QED BY <1>1, <1>2, <1>3, <1>4 DEF TrafficInv, IsIdle, CallState

LEMMA CalledMoves ==
  ASSUME OwnerInv, TrafficInv, NEW c \in Proc, c = op.c, op.pc = "wait", ~IsIdle, NEW q,
         procs' = [procs EXCEPT ![c] = q], UNCHANGED <<op, answer>>, Waiting(op, q, truth'),
         truth'.failed => truth'.text = <<>>
  PROVE  TrafficInv'
<1>1. \A d \in Proc : procs'[d] = IF d = c THEN q ELSE procs[d]
  BY DEF OwnerInv, TypeOK
<1>2. \A d \in Proc : d # op'.c => Calm(procs'[d])
  BY <1>1 DEF TrafficInv
<1>3. Waiting(op', procs'[op'.c], truth')
  BY <1>1
<1>4. ~IsIdle' /\ answer'.n = 0
  BY DEF TrafficInv, IsIdle
<1> QED BY <1>2, <1>3, <1>4 DEF TrafficInv

LEMMA ReplyQuiet == ASSUME OwnerInv, TrafficInv, NEW c \in Proc, PiReply(c) PROVE TrafficInv'
<1> DEFINE p == procs[c]
           r == Head(p.inbox)
           q == procs'[c]
<1>1. p.inbox # <<>> /\ UNCHANGED <<op, answer>>
  BY DEF PiReply
<1>2. /\ c = op.c /\ ~IsIdle /\ op.pc = "wait" /\ op \in CallState /\ op.stage # "idle"
      /\ Waiting(op, p, truth) /\ p \in Process /\ p.session \in Sid
  BY <1>1, OnlyCalled DEF PiReply, IsLive, OwnerInv, TypeOK
<1>3. r \in Request
  BY <1>1, <1>2 DEF Process
<1> DEFINE read == [p EXCEPT !.inbox = Tail(@)]
           begun == [read EXCEPT !.run = [Quiet EXCEPT !.on = TRUE, !.n = r.n]]
           other == [read EXCEPT !.session = NewSid]
           Sent(new, e) == [new EXCEPT !.out = Append(@, e)]
<1>4. PICK new : /\ procs' = [procs EXCEPT ![c] = new]
                 /\ \/ \E ok, cancelled \in BOOLEAN :
                         \/ /\ r.cmd # "cancel" /\ new = Sent(read, Response(r, ok, cancelled, read))
                            /\ truth' = IF ok /\ r.cmd = "prompt" THEN [NoAnswer EXCEPT !.n = r.n] ELSE truth
                         \/ /\ r.cmd = "prompt" /\ ok /\ UNCHANGED truth
                            /\ new = Sent(begun, Response(r, ok, cancelled, begun))
                         \/ /\ r.cmd \in {"new_session", "clone"} /\ FreeSid # {} /\ UNCHANGED truth
                            /\ new = Sent(other, Response(r, ok, cancelled, other))
                    \/ r.cmd = "cancel" /\ new = [read EXCEPT !.run.dialog = "closed"] /\ UNCHANGED truth
  <2> HIDE DEF r
  <2> QED BY DEF PiReply, Emit, r
<1>5. q = new
  BY <1>4 DEF OwnerInv, TypeOK
<1>6. Replies(r, p, new, truth, truth')
  <2>1. r \in Request /\ read.inbox = Tail(p.inbox) /\ read.out = p.out /\ read.run = p.run
    BY <1>2, <1>3 DEF Process
  <2>2. /\ read \in Process /\ read.session \in Sid
        /\ begun \in Process /\ begun.session \in Sid
        /\ FreeSid # {} => other \in Process /\ other.session \in Sid
    <3>1. Tail(p.inbox) \in Seq(Request)
      BY <1>1, <1>2, Read DEF Process
    <3>2. read \in Process /\ read.session \in Sid
      BY <1>2, <3>1 DEF Process
    <3>3. [Quiet EXCEPT !.on = TRUE, !.n = r.n] \in RunState
      BY <1>3, QuietTyped DEF RunState, Request
    <3>4. begun \in Process /\ begun.session \in Sid
      BY <3>2, <3>3 DEF Process
    <3>5. FreeSid # {} => NewSid \in Sid
      BY DEF NewSid, FreeSid
    <3> QED BY <3>2, <3>4, <3>5 DEF Process
  <2> DEFINE Reply(x, ok, cancelled) == Response(r, ok, cancelled, x)
  <2>3. /\ begun.inbox = read.inbox /\ begun.out = read.out
        /\ begun.run = [Quiet EXCEPT !.on = TRUE, !.n = r.n]
        /\ other.inbox = read.inbox /\ other.out = read.out /\ other.run = read.run
    BY <2>2 DEF Process
  <2>4. ASSUME NEW x \in Process, x.session \in Sid, NEW ok \in BOOLEAN, NEW cancelled \in BOOLEAN,
               x.inbox = read.inbox, x.out = read.out
        PROVE  LET e == Response(r, ok, cancelled, x)
                   y == Sent(x, e)
               IN  /\ e \in Message /\ IsResponse(e) /\ e.r = r /\ e.streaming = x.run.on /\ e.ok = ok
                   /\ y.inbox = read.inbox /\ y.run = x.run /\ y.out = Append(p.out, e)
    <3> DEFINE e == Response(r, ok, cancelled, x)
    <3>1. e \in Message
      BY <1>3, <2>4, MessageTyped
    <3>2. IsResponse(e) /\ e.r = r /\ e.streaming = x.run.on /\ e.ok = ok
      BY DEF Response, IsResponse
    <3> HIDE DEF e, read, r
    <3>3. Sent(x, e).inbox = x.inbox /\ Sent(x, e).run = x.run /\ Sent(x, e).out = Append(x.out, e)
      BY DEF Process
    <3> QED BY <2>1, <2>4, <3>1, <3>2, <3>3 DEF e
  <2>5. CASE r.cmd = "cancel" /\ new = [read EXCEPT !.run.dialog = "closed"] /\ UNCHANGED truth
    <3>1. new.inbox = read.inbox /\ new.out = read.out /\ new.run = [read.run EXCEPT !.dialog = "closed"]
      BY <2>2, <2>5 DEF Process
    <3> QED BY <2>1, <2>5, <3>1 DEF Replies
  <2>6. ASSUME NEW ok \in BOOLEAN, NEW cancelled \in BOOLEAN,
               r.cmd # "cancel" /\ new = Sent(read, Response(r, ok, cancelled, read)),
               truth' = IF ok /\ r.cmd = "prompt" THEN [NoAnswer EXCEPT !.n = r.n] ELSE truth
        PROVE  Replies(r, p, new, truth, truth')
    <3> HIDE DEF read, r
    <3>1. LET e == Response(r, ok, cancelled, read) IN
          /\ e \in Message /\ IsResponse(e) /\ e.r = r /\ e.streaming = read.run.on /\ e.ok = ok
          /\ new.inbox = read.inbox /\ new.run = read.run /\ new.out = Append(p.out, e)
      BY <2>2, <2>4, <2>6
    <3> HIDE DEF Sent
    <3> QED BY <2>1, <2>6, <3>1 DEF Replies
  <2>7. ASSUME NEW ok \in BOOLEAN, NEW cancelled \in BOOLEAN,
               r.cmd = "prompt" /\ ok /\ UNCHANGED truth, new = Sent(begun, Response(r, ok, cancelled, begun))
        PROVE  Replies(r, p, new, truth, truth')
    <3> HIDE DEF read, r, begun
    <3>1. LET e == Response(r, ok, cancelled, begun) IN
          /\ e \in Message /\ IsResponse(e) /\ e.r = r /\ e.streaming = begun.run.on /\ e.ok = ok
          /\ new.inbox = read.inbox /\ new.run = begun.run /\ new.out = Append(p.out, e)
      <4>1. begun \in Process /\ begun.session \in Sid /\ begun.inbox = read.inbox /\ begun.out = read.out
        BY <2>2, <2>3
      <4>2. new = Sent(begun, Response(r, ok, cancelled, begun))
        BY <2>7
      <4> HIDE DEF Sent
      <4> QED BY <2>4, <4>1, <4>2
    <3> HIDE DEF Sent
    <3> QED BY <2>1, <2>3, <2>7, <3>1 DEF Replies
  <2>8. ASSUME NEW ok \in BOOLEAN, NEW cancelled \in BOOLEAN, FreeSid # {},
               r.cmd \in {"new_session", "clone"} /\ UNCHANGED truth, new = Sent(other, Response(r, ok, cancelled, other))
        PROVE  Replies(r, p, new, truth, truth')
    <3> HIDE DEF read, r, other
    <3>1. LET e == Response(r, ok, cancelled, other) IN
          /\ e \in Message /\ IsResponse(e) /\ e.r = r /\ e.streaming = other.run.on /\ e.ok = ok
          /\ new.inbox = read.inbox /\ new.run = other.run /\ new.out = Append(p.out, e)
      BY <2>2, <2>3, <2>4, <2>8
    <3> HIDE DEF Sent
    <3> QED BY <2>1, <2>3, <2>8, <3>1 DEF Replies
  <2> QED BY <1>4, <2>5, <2>6, <2>7, <2>8
<1>7. Waiting(op, new, truth')
  BY <1>1, <1>2, <1>6, ReplyWaits
<1>8. truth'.failed => truth'.text = <<>>
  BY <1>4 DEF TrafficInv, NoAnswer
<1> QED BY <1>1, <1>2, <1>4, <1>7, <1>8, CalledMoves

LEMMA RunQuiet == ASSUME OwnerInv, TrafficInv, NEW c \in Proc, PiRun(c) PROVE TrafficInv'
<1> DEFINE p == procs[c]
           run == p.run
<1>1. run.on /\ run.dialog # "open" /\ IsLive(c) /\ UNCHANGED <<op, answer>>
  BY DEF PiRun
<1>2. /\ c = op.c /\ ~IsIdle /\ op.pc = "wait" /\ op \in CallState
      /\ Waiting(op, p, truth) /\ p \in Process /\ (run.open => run.message > 0) /\ run \in RunState
  BY <1>1, OnlyCalled DEF OwnerInv, TypeOK, Process
<1>3. PICK new \in RunState, type \in {"delta", "message", "dialog", "failure", "retry", "settled"}, x \in RunState :
         /\ procs' = [procs EXCEPT ![c] = [[p EXCEPT !.run = new] EXCEPT !.out = Append(@, Event(type, x))]]
         /\ Event(type, x) \in Message /\ Advances(run, new, Event(type, x), truth, truth')
  <2> DEFINE Moves(new, type, x) ==
        /\ procs' = [procs EXCEPT ![c] = [[p EXCEPT !.run = new] EXCEPT !.out = Append(@, Event(type, x))]]
        /\ Event(type, x) \in Message /\ Advances(run, new, Event(type, x), truth, truth')
  <2>1. \A type, x : Event(type, x).type = type /\ Event(type, x).piece = <<x.attempt, x.message>>
    BY DEF Event
  <2>2. ASSUME NEW new, NEW type, Emit(c, [p EXCEPT !.run = new], Event(type, new))
        PROVE  procs' = [procs EXCEPT ![c] = [[p EXCEPT !.run = new] EXCEPT !.out = Append(@, Event(type, new))]]
    BY <2>2 DEF Emit
  <2>3. CASE /\ ~run.failed /\ ~run.open /\ run.message + run.attempt <= MaxMessages /\ UNCHANGED truth
             /\ Emit(c, [p EXCEPT !.run = [run EXCEPT !.message = @ + 1, !.open = TRUE]],
                     Event("delta", [run EXCEPT !.message = @ + 1, !.open = TRUE]))
    <3> DEFINE new == [run EXCEPT !.message = @ + 1, !.open = TRUE]
    <3>1. new \in RunState /\ new.message > 0
      <4>1. run.message + 1 \in 0..MaxMessages /\ run.message + 1 > 0
        BY <1>2, <2>3, BoundAssumption DEF RunState
      <4>2. new.message = run.message + 1
        BY <1>2 DEF RunState
      <4> QED BY <1>2, <4>1, <4>2 DEF RunState
    <3>2. Event("delta", new) \in Message
      BY <3>1, MessageTyped
    <3>3. Advances(run, new, Event("delta", new), truth, truth')
      BY <2>1, <2>3 DEF Advances
    <3> QED BY <2>2, <2>3, <3>1, <3>2, <3>3
  <2>4. CASE /\ run.open /\ UNCHANGED truth
             /\ Emit(c, [p EXCEPT !.run = [run EXCEPT !.open = FALSE]], Event("message", [run EXCEPT !.open = FALSE]))
    <3> DEFINE new == [run EXCEPT !.open = FALSE]
    <3>1. new \in RunState /\ new.message > 0
      BY <1>2, <2>4 DEF RunState
    <3>2. Event("message", new) \in Message
      BY <3>1, MessageTyped
    <3>3. Advances(run, new, Event("message", new), truth, truth')
      BY <2>1, <2>4 DEF Advances
    <3> QED BY <2>2, <2>4, <3>1, <3>2, <3>3
  <2>5. CASE /\ run.open /\ run.dialog = "none" /\ UNCHANGED truth
             /\ Emit(c, [p EXCEPT !.run = [run EXCEPT !.dialog = "open"]], Event("dialog", [run EXCEPT !.dialog = "open"]))
    <3> DEFINE new == [run EXCEPT !.dialog = "open"]
    <3>1. new \in RunState
      BY <1>2 DEF RunState
    <3>2. Event("dialog", new) \in Message
      BY <3>1, MessageTyped
    <3>3. Advances(run, new, Event("dialog", new), truth, truth')
      BY <2>1, <2>5 DEF Advances
    <3> QED BY <2>2, <2>5, <3>1, <3>2, <3>3
  <2>6. CASE /\ ~run.failed /\ UNCHANGED truth
             /\ Emit(c, [p EXCEPT !.run = [run EXCEPT !.failed = TRUE, !.open = FALSE]],
                     Event("failure", [run EXCEPT !.failed = TRUE, !.open = FALSE]))
    <3> DEFINE new == [run EXCEPT !.failed = TRUE, !.open = FALSE]
    <3>1. new \in RunState
      BY <1>2 DEF RunState
    <3>2. Event("failure", new) \in Message
      BY <3>1, MessageTyped
    <3>3. Advances(run, new, Event("failure", new), truth, truth')
      BY <2>1, <2>6 DEF Advances
    <3> QED BY <2>2, <2>6, <3>1, <3>2, <3>3
  <2>7. CASE /\ run.failed /\ run.attempt < MaxAttempts /\ UNCHANGED truth
             /\ Emit(c, [p EXCEPT !.run = [Quiet EXCEPT !.on = TRUE, !.n = run.n, !.attempt = run.attempt + 1]],
                     Event("retry", [Quiet EXCEPT !.on = TRUE, !.n = run.n, !.attempt = run.attempt + 1]))
    <3> DEFINE new == [Quiet EXCEPT !.on = TRUE, !.n = run.n, !.attempt = run.attempt + 1]
    <3>1. run.n \in Nat /\ run.attempt + 1 \in 1..MaxAttempts
      BY <1>2, <2>7, BoundAssumption DEF RunState
    <3>2. new \in RunState
      BY <3>1, QuietTyped DEF RunState
    <3>3. Event("retry", new) \in Message
      BY <3>2, MessageTyped
    <3>4. Advances(run, new, Event("retry", new), truth, truth')
      BY <2>1, <2>7 DEF Advances
    <3> QED BY <2>2, <2>7, <3>2, <3>3, <3>4
  <2>8. CASE /\ ~run.open /\ Emit(c, [p EXCEPT !.run = Quiet], Event("settled", run))
             /\ truth' = [n |-> run.n, failed |-> run.failed,
                          text |-> IF run.failed \/ run.message = 0 THEN <<>> ELSE <<<<run.attempt, run.message>>>>]
    <3>1. procs' = [procs EXCEPT ![c] = [[p EXCEPT !.run = Quiet] EXCEPT !.out = Append(@, Event("settled", run))]]
      BY <2>8 DEF Emit
    <3>2. Event("settled", run) \in Message
      BY <1>2, MessageTyped
    <3>3. Advances(run, Quiet, Event("settled", run), truth, truth')
      BY <2>1, <2>8 DEF Advances
    <3> QED BY <1>2, <3>1, <3>2, <3>3, QuietTyped
  <2> QED BY <2>3, <2>4, <2>5, <2>6, <2>7, <2>8 DEF PiRun
<1> DEFINE e == Event(type, x)
           q == [[p EXCEPT !.run = new] EXCEPT !.out = Append(@, e)]
<1>4. q.run = new /\ q.inbox = p.inbox /\ q.out = Append(p.out, e)
  BY <1>2 DEF Process
<1>5. e.type # "response"
  BY DEF Event
<1> HIDE DEF q, e
<1>6. e \in Message /\ Advances(run, new, e, truth, truth') /\ procs' = [procs EXCEPT ![c] = q]
  BY <1>3 DEF e, q
<1> HIDE DEF p, run
<1>7. Waiting(op, q, truth')
  BY <1>1, <1>2, <1>4, <1>5, <1>6, RunWaits DEF run
<1>8. truth'.failed => truth'.text = <<>>
  <2>1. CASE truth' = truth
    BY <2>1 DEF TrafficInv
  <2>2. CASE truth' # truth
    <3>1. truth' = [n |-> run.n, failed |-> run.failed,
                    text |-> IF run.failed \/ run.message = 0 THEN <<>> ELSE <<<<run.attempt, run.message>>>>]
      BY <1>6, <2>2 DEF Advances
    <3> QED BY <3>1
  <2> QED BY <2>1, <2>2
<1> QED BY <1>1, <1>2, <1>6, <1>7, <1>8, CalledMoves

LEMMA ExitQuiet == ASSUME OwnerInv, TrafficInv, NEW c \in Proc, PiExits(c) PROVE TrafficInv'
<1> DEFINE q == [[procs[c] EXCEPT !.status = "exited"] EXCEPT !.inbox = <<>>]
<1>1. procs' = [procs EXCEPT ![c] = q] /\ UNCHANGED <<op, answer, truth>> /\ procs[c] \in Process
  BY DEF PiExits, OwnerInv, TypeOK
<1>2. q.out = procs[c].out /\ q.run = procs[c].run /\ q.inbox = <<>>
  BY <1>1 DEF Process
<1>3. \A d \in Proc : procs'[d] = IF d = c THEN q ELSE procs[d]
  BY <1>1 DEF OwnerInv, TypeOK
<1> HIDE DEF q
<1>4. \A d \in Proc : Calm(procs[d]) => Calm(procs'[d])
  BY <1>2, <1>3 DEF Calm
<1>5. CASE IsIdle \/ op.pc # "wait" \/ op.c # c
  <2>1. ~IsIdle => op.c \in Proc
    BY CallHasProc
  <2>2. ~IsIdle /\ op.pc = "wait" => procs'[op.c] = procs[op.c]
    BY <1>3, <1>5, <2>1
  <2> QED BY <1>1, <1>4, <2>1, <2>2 DEF TrafficInv, IsIdle
<1>6. CASE ~IsIdle /\ op.pc = "wait" /\ op.c = c
  <2>1. Waiting(op, q, truth)
    BY <1>2, <1>6, ExitWaits DEF TrafficInv
  <2> QED BY <1>1, <1>6, <2>1, CalledMoves DEF TrafficInv
<1> QED BY <1>5, <1>6

-----------------------------------------------------------------------------
(* TrafficInv through the steps of AGM that are not of a call waiting. *)

\* What TrafficInv says between calls.
AllCalm(ps) == \A c \in Proc : Calm(ps[c])

LEMMA GoneCalm == Calm(Gone) /\ \A s : Calm(Started(s))
BY DEF Calm, Gone, Quiet, Started

LEMMA IdleQuiet ==
  ASSUME op' = Idle, AllCalm(procs'), truth'.failed => truth'.text = <<>>, answer'.n # 0 => answer' = truth'
  PROVE  TrafficInv'
BY DEF TrafficInv, AllCalm, Idle, IsIdle

\* A call that fails leaves every process calm that was, or that it closes.
LEMMA RaiseQuiet ==
  ASSUME OwnerInv, TrafficInv, ~IsIdle, NEW ps, NEW closed, Raise(ps, closed),
         \A c \in Proc : c # op.c => ps[c] = procs[c], op.c \in closed \/ Calm(ps[op.c])
  PROVE  TrafficInv'
<1>1. PICK cs : closed \subseteq cs /\ procs' = Without(ps, cs) /\ op' = Idle /\ UNCHANGED <<answer, truth>>
  BY DEF Raise
<1>2. AllCalm(procs')
  BY <1>1, GoneCalm DEF AllCalm, Without, TrafficInv
<1> QED BY <1>1, <1>2, IdleQuiet DEF TrafficInv

LEMMA OpenQuiet == ASSUME OwnerInv, TrafficInv, NEW b \in Backend, Open(b) PROVE TrafficInv'
<1>1. op = Idle /\ op' = op /\ UNCHANGED <<answer, truth>> /\ procs' = [procs EXCEPT ![NewProc] = Started(NewSid)]
  BY DEF Open, OwnerInv, Calls
<1>2. AllCalm(procs')
  BY <1>1, GoneCalm, NullAssumption DEF AllCalm, TrafficInv, Idle, OwnerInv, TypeOK
<1> QED BY <1>1, <1>2, IdleQuiet DEF TrafficInv

LEMMA CloseQuiet ==
  ASSUME OwnerInv, TrafficInv, IsIdle, UNCHANGED op, NEW cs, procs' = Without(procs, cs),
         \/ UNCHANGED <<answer, truth>>
         \/ answer' = NoAnswer /\ truth' = NoAnswer
  PROVE  TrafficInv'
<1>1. op = Idle
  BY DEF OwnerInv, Calls
<1>2. AllCalm(procs')
  BY <1>1, GoneCalm, NullAssumption DEF AllCalm, TrafficInv, Idle, Without
<1>3. NoAnswer.n = 0 /\ ~NoAnswer.failed
  BY DEF NoAnswer
<1> QED BY <1>1, <1>2, <1>3, IdleQuiet DEF TrafficInv

LEMMA BeginQuiet ==
  ASSUME OwnerInv, TrafficInv, NEW b \in Backend, NEW stage \in {"prompt", "new_session", "query", "parent"}, Begin(b, stage)
  PROVE  TrafficInv'
<1>0. NoAnswer.n = 0 /\ ~NoAnswer.failed
  BY DEF NoAnswer
<1>1. CASE IsLive(child[b])
  <2>1. /\ op' = [Idle EXCEPT !.stage = stage, !.b = b, !.c = child[b], !.n = count + 1]
        /\ UNCHANGED procs /\ answer' = NoAnswer /\ truth' = NoAnswer
    BY <1>1 DEF Begin
  <2>2. op'.pc = "write" /\ op'.c = child[b] /\ Unheard(op')
    BY <2>1 DEF Idle, Unheard
  <2>3. AllCalm(procs) /\ child[b] \in Proc
    BY NullAssumption DEF Begin, OwnerInv, Calls, Idle, TrafficInv, AllCalm, TypeOK
  <2> QED BY <1>0, <2>1, <2>2, <2>3 DEF TrafficInv, AllCalm
<1>2. CASE ~IsLive(child[b])
  BY <1>2, CloseQuiet DEF Begin
<1> QED BY <1>1, <1>2

\* AGM writes r to the process of the call, or finds it dead and raises.
LEMMA WriteQuiet ==
  ASSUME OwnerInv, TrafficInv, ~IsIdle, NEW ps, Fits(ps), NEW r \in Request, NEW o, WriteTo(ps, r, o),
         \A c \in Proc : c # op.c => ps[c] = procs[c],
         o.stage = op.stage, o.c = op.c, o.pc = "wait",
         \A q : q.out = ps[op.c].out /\ q.run = ps[op.c].run /\ q.inbox = Append(ps[op.c].inbox, r) => Waiting(o, q, truth)
  PROVE  TrafficInv'
<1>0. op.c \in Proc
  BY CallHasProc
<1>1. CASE ps[op.c].status = "live"
  <2> DEFINE q == [ps[op.c] EXCEPT !.inbox = Append(@, r)]
  <2>1. procs' = [ps EXCEPT ![op.c] = q] /\ op' = o /\ UNCHANGED <<answer, truth>>
    BY <1>1 DEF WriteTo
  <2>2. q.out = ps[op.c].out /\ q.run = ps[op.c].run /\ q.inbox = Append(ps[op.c].inbox, r)
    BY <1>0 DEF Fits, Process
  <2>3. Waiting(o, q, truth)
    BY <2>2
  <2>4. \A c \in Proc : procs'[c] = IF c = op.c THEN q ELSE procs[c]
    BY <2>1 DEF Fits
  <2> HIDE DEF q
  <2>5. \A c \in Proc : c # op'.c => Calm(procs'[c])
    BY <2>1, <2>4 DEF TrafficInv
  <2>6. ~IsIdle' /\ answer'.n = 0 /\ op'.pc = "wait" /\ Waiting(op', procs'[op'.c], truth')
    BY <1>0, <2>1, <2>3, <2>4 DEF TrafficInv, IsIdle
  <2> QED BY <2>1, <2>5, <2>6 DEF TrafficInv
<1>2. CASE ps[op.c].status # "live"
  BY <1>2, RaiseQuiet DEF WriteTo
<1> QED BY <1>1, <1>2

LEMMA SendQuiet == ASSUME OwnerInv, TrafficInv, Write PROVE TrafficInv'
<1> DEFINE o == [op EXCEPT !.pc = "wait"]
<1>1. ~IsIdle /\ op \in CallState /\ op.stage \in Asks /\ Fits(procs) /\ op.c \in Proc
  BY CallNow, CallHasProc DEF Write
<1>2. MainRequest \in Request /\ MainRequest = Main(o)
  BY <1>1 DEF MainRequest, Request, Commands, CallState, Main
<1>3. /\ o.stage = op.stage /\ o.c = op.c /\ o.pc = "wait" /\ o.got = op.got /\ o.streaming = op.streaming
      /\ o.settled = op.settled /\ o.failed = op.failed /\ o.text = op.text
  BY <1>1 DEF CallState
<1>4. WriteTo(procs, MainRequest, o)
  BY DEF Write
<1> HIDE DEF o
<1>5. Unheard(o)
  BY <1>3 DEF Write, TrafficInv, Unheard
<1>6. ASSUME NEW q, q.out = procs[op.c].out, q.run = procs[op.c].run, q.inbox = Append(procs[op.c].inbox, MainRequest)
      PROVE  Waiting(o, q, truth)
  <2>1. Calm(procs[op.c])
    BY <1>1 DEF Write, TrafficInv
  <2>2. Append(<<>>, Main(o)) = <<Main(o)>>
    BY Inboxes DEF Main, State
  <2>3. Unanswered(o, q)
    BY <1>2, <1>6, <2>1, <2>2 DEF Calm, Unanswered
  <2> QED BY <1>5, <2>3 DEF Waiting
<1> QED BY <1>1, <1>2, <1>3, <1>4, <1>6, WriteQuiet

LEMMA FailureQuiet == ASSUME OwnerInv, TrafficInv, Eof \/ Timeout \/ Interrupt \/ InterruptDelivery PROVE TrafficInv'
<1>1. ~IsIdle
  BY CallNow DEF Eof, Timeout, Interrupt, InterruptDelivery
<1>2. CASE Eof \/ Timeout \/ Interrupt
  BY <1>1, <1>2, RaiseQuiet DEF Eof, Timeout, Interrupt
<1>3. CASE InterruptDelivery
  BY <1>1, <1>3, RaiseQuiet DEF InterruptDelivery, TrafficInv
<1> QED BY <1>2, <1>3

-----------------------------------------------------------------------------
(* TrafficInv as a call waiting for its answer reads. *)

\* w is the call o having read e.
Gathers(o, w, e) ==
    /\ w.n = o.n /\ w.settled = (o.settled \/ e.type = "settled")
    /\ e.type \notin FailureMarks => w.failed = o.failed
    /\ e.type = "failure" => w.failed = TRUE
    /\ e.type = "retry" => w.failed = FALSE /\ w.text = <<>>
    /\ e.type = "message" => w.text = <<e.piece>>
    /\ e.type \notin TextMarks => w.text = o.text

\* What an event leaves alone of the call, and what it adds to the call's outcome.
LEMMA GatherTyped ==
  ASSUME op \in CallState, NEW e \in Message, e.type # "response"
  PROVE  /\ Gather(e) \in CallState /\ Gathers(op, Gather(e), e)
         /\ Gather(e).pc = op.pc /\ Gather(e).stage = op.stage /\ Gather(e).b = op.b /\ Gather(e).c = op.c
         /\ Gather(e).got = op.got /\ Gather(e).streaming = op.streaming
         /\ Gather(e).spare = op.spare /\ Gather(e).parent = op.parent
<1>1. e.type \in {"delta", "message"} => e.piece \in Piece
  BY DEF Message
<1>2. op.text \in Seq(Piece) /\ <<>> \in Seq(Piece)
  BY DEF CallState
<1>3. e.type = "delta" => Append(op.text, e.piece) \in Seq(Piece)
  BY <1>1, <1>2, Grown
<1>4. e.type = "message" => <<e.piece>> \in Seq(Piece)
  BY <1>1
<1>5. e.type \in {"delta", "message", "dialog", "failure", "retry", "settled"}
  BY DEF Message
<1>6. CASE e.type = "delta"
  <2>1. Gather(e) = [op EXCEPT !.text = Append(op.text, e.piece)]
    BY <1>6 DEF Gather
  <2> QED BY ZenonT(60), <1>3, <1>6, <2>1 DEF CallState, Gathers, FailureMarks, TextMarks
<1>7. CASE e.type = "message"
  <2>1. Gather(e) = [op EXCEPT !.text = <<e.piece>>]
    BY <1>7 DEF Gather
  <2> QED BY ZenonT(60), <1>4, <1>7, <2>1 DEF CallState, Gathers, FailureMarks, TextMarks
<1>8. CASE e.type = "retry"
  <2>1. Gather(e) = [op EXCEPT !.text = <<>>, !.failed = FALSE]
    BY <1>8 DEF Gather
  <2> QED BY ZenonT(60), <1>2, <1>8, <2>1 DEF CallState, Gathers, FailureMarks, TextMarks
<1>9. CASE e.type = "failure"
  <2>1. Gather(e) = [op EXCEPT !.failed = TRUE]
    BY <1>9 DEF Gather
  <2> QED BY ZenonT(60), <1>9, <2>1 DEF CallState, Gathers, FailureMarks, TextMarks
<1>10. CASE e.type = "settled"
  <2>1. Gather(e) = [op EXCEPT !.settled = TRUE]
    BY <1>10 DEF Gather
  <2> QED BY <1>10, <2>1 DEF CallState, Gathers, FailureMarks, TextMarks
<1>11. CASE e.type = "dialog"
  <2>1. Gather(e) = op
    BY <1>11 DEF Gather
  <2> QED BY <1>11, <2>1 DEF CallState, Gathers, FailureMarks, TextMarks
<1> QED BY <1>5, <1>6, <1>7, <1>8, <1>9, <1>10, <1>11

LEMMA OutcomeRead ==
  ASSUME NEW o, NEW w, NEW p, NEW q, NEW t, p.out \in Seq(Message), p.out # <<>>, Outcome(o, p, t),
         Gathers(o, w, Head(p.out)), q.out = Tail(p.out), q.run = p.run
  PROVE  Outcome(w, q, t)
<1> DEFINE out == p.out
<1>1. \A failed : WillFail(o, out, failed) => WillFail(w, Tail(out), failed)
  BY WillFailRead DEF Gathers
<1>2. \A text : WillSay(o, out, text) => WillSay(w, Tail(out), text)
  BY WillSayRead DEF Gathers
<1> QED BY <1>1, <1>2 DEF Outcome, Gathers

LEMMA SettlingRead ==
  ASSUME NEW o, NEW w, NEW p, NEW q, p.out \in Seq(Message), p.out # <<>>, Settling(o, p),
         Gathers(o, w, Head(p.out)), q.out = Tail(p.out), q.run = p.run
  PROVE  Settling(w, q)
<1> DEFINE out == p.out
           s == Tail(out)
<1>1. /\ Head(out) = out[1] /\ 1 \in DOMAIN out /\ DOMAIN out = 1..Len(out) /\ Len(out) \in Nat
      /\ DOMAIN s = 1..(Len(out) - 1)
      /\ \A k \in DOMAIN s : k + 1 \in DOMAIN out /\ s[k] = out[k + 1] /\ k \in Nat /\ k >= 1
  <2>1. DOMAIN s = 1..(Len(out) - 1) /\ Len(out) \in Nat
    BY Read
  <2> QED BY <2>1, Read
<1> HIDE DEF out, s
<1>2. p.run.on => ~w.settled /\ None(s, {"settled"})
  BY <1>1 DEF Settling, None, Gathers, out
<1>3. w.settled => \A j \in DOMAIN s : IsResponse(s[j])
  <2>1. CASE o.settled
    BY <1>1, <2>1 DEF Settling, out
  <2>2. CASE out[1].type = "settled"
    <3>1. \A j \in DOMAIN out : j > 1 => IsResponse(out[j])
      BY <1>1, <2>2 DEF Settling, out
    <3>2. \A j \in DOMAIN s : j + 1 > 1 /\ j + 1 \in DOMAIN out /\ s[j] = out[j + 1]
      BY <1>1
    <3> QED BY <3>1, <3>2
  <2> QED BY <1>1, <2>1, <2>2 DEF Gathers, out
<1>4. ASSUME NEW k \in DOMAIN s, s[k].type = "settled", NEW j \in DOMAIN s, j > k PROVE IsResponse(s[j])
  <2>1. k + 1 \in DOMAIN out /\ j + 1 \in DOMAIN out /\ j + 1 > k + 1 /\ s[j] = out[j + 1] /\ s[k] = out[k + 1]
    BY <1>1, <1>4
  <2> QED BY <1>4, <2>1 DEF Settling, out
<1> QED BY <1>2, <1>3, <1>4 DEF Settling, out, s

LEMMA DialogsRead ==
  ASSUME NEW o, NEW w, NEW p, NEW q, p.out \in Seq(Message), p.out # <<>>, Dialogs(o, p),
         w.n = o.n, q.out = Tail(p.out), q.run = p.run,
         \/ Head(p.out).type # "dialog" /\ q.inbox = p.inbox
         \/ Head(p.out).type # "dialog" /\ p.inbox = <<>> /\ q.inbox = <<State(o)>>
         \/ Head(p.out).type = "dialog" /\ q.inbox = Append(p.inbox, Cancel(o))
  PROVE  Dialogs(w, q) /\ (Head(p.out).type = "dialog" => q.inbox \in {<<Cancel(o)>>, <<State(o), Cancel(o)>>})
<1> DEFINE out == p.out
           s == Tail(out)
<1>1. /\ Head(out) = out[1] /\ 1 \in DOMAIN out
      /\ \A k \in DOMAIN s : k + 1 \in DOMAIN out /\ s[k] = out[k + 1] /\ k \in Nat /\ k >= 1
  <2>1. DOMAIN s = 1..(Len(out) - 1) /\ Len(out) \in Nat
    BY Read
  <2> QED BY <2>1, Read
<1>2. State(w) = State(o) /\ Cancel(w) = Cancel(o) /\ State(o) # Cancel(o)
  BY DEF State, Cancel
<1>3. /\ Append(<<>>, Cancel(o)) = <<Cancel(o)>> /\ Append(<<State(o)>>, Cancel(o)) = <<State(o), Cancel(o)>>
      /\ <<State(o)>> # <<Cancel(o)>> /\ <<State(o)>> # <<State(o), Cancel(o)>>
  <2>1. Append(<<>>, Cancel(o)) = <<Cancel(o)>>
    BY <1>2, Inboxes
  <2>2. /\ Append(<<State(o)>>, Cancel(o)) = <<State(o), Cancel(o)>>
        /\ <<State(o)>> # <<Cancel(o)>> /\ <<State(o)>> # <<State(o), Cancel(o)>>
    BY <1>2, Inboxes
  <2> QED BY <2>1, <2>2
<1> HIDE DEF out, s
<1>4. ASSUME NEW k \in DOMAIN s, s[k].type = "dialog"
      PROVE  /\ p.run.on /\ p.run.dialog = "open" /\ p.inbox \in {<<>>, <<State(o)>>} /\ out[1].type # "dialog"
             /\ \A j \in DOMAIN s : s[j].type = "dialog" => j = k
  <2>1. k + 1 \in DOMAIN out /\ out[k + 1].type = "dialog" /\ k + 1 # 1
    BY <1>1, <1>4
  <2>2. /\ p.run.on /\ p.run.dialog = "open" /\ p.inbox \in {<<>>, <<State(o)>>}
        /\ \A j \in DOMAIN out : out[j].type = "dialog" => j = k + 1
    BY <2>1 DEF Dialogs, out
  <2>3. ASSUME NEW j \in DOMAIN s, s[j].type = "dialog" PROVE j = k
    <3>1. j + 1 \in DOMAIN out /\ out[j + 1].type = "dialog" /\ j \in Nat /\ k \in Nat
      BY <1>1, <2>3
    <3>2. j + 1 = k + 1
      BY <2>2, <3>1
    <3> QED BY <3>1, <3>2
  <2>4. out[1].type # "dialog"
    BY <1>1, <2>1, <2>2
  <2> QED BY <2>2, <2>3, <2>4
<1>5. CASE out[1].type # "dialog"
  <2>1. q.inbox = p.inbox \/ (p.inbox = <<>> /\ q.inbox = <<State(o)>>)
    BY <1>1, <1>5 DEF out
  <2>2. q.inbox \in {<<Cancel(o)>>, <<State(o), Cancel(o)>>} => p.run.on /\ p.run.dialog = "open"
    BY <1>3, <2>1 DEF Dialogs
  <2>3. p.inbox \in {<<>>, <<State(o)>>} => q.inbox \in {<<>>, <<State(o)>>}
    BY <2>1
  <2> QED BY <1>1, <1>2, <1>4, <1>5, <2>2, <2>3 DEF Dialogs, out, s
<1>6. CASE out[1].type = "dialog"
  <2>1. p.run.on /\ p.run.dialog = "open" /\ p.inbox \in {<<>>, <<State(o)>>}
    BY <1>1, <1>6 DEF Dialogs, out
  <2>2. q.inbox = Append(p.inbox, Cancel(o))
    BY <1>1, <1>6 DEF out
  <2>3. q.inbox \in {<<Cancel(o)>>, <<State(o), Cancel(o)>>}
    BY <1>3, <2>1, <2>2
  <2> QED BY <1>1, <1>2, <1>4, <1>6, <2>1, <2>3 DEF Dialogs, out, s
<1> QED BY <1>5, <1>6

\* The state of a call that goes on waiting after it read e: its process, before
\* and after, is p and q.
LEMMA MainHeard ==
  ASSUME NEW o \in CallState, NEW p \in Process, NEW t, Unheard(o), Answered(o, p, t), o.stage = "prompt", p.out[1].ok,
         NEW w, w.n = o.n, w.stage = o.stage, w.got, w.streaming = o.streaming, w.settled = o.settled,
         w.failed = o.failed, w.text = o.text,
         NEW q, q.out = Tail(p.out), q.run = p.run, q.inbox = <<State(o)>>
  PROVE  Waiting(w, q, t)
<1>1. p.out \in Seq(Message) /\ p.out # <<>> /\ Running(o, p, t) /\ p.inbox = <<>>
  BY DEF Answered, Process
<1>2. Head(p.out) = p.out[1] /\ Head(p.out).type = "response"
  BY <1>1, Read DEF Answered, IsResponse
<1>3. Gathers(o, w, Head(p.out))
  BY <1>2 DEF Gathers, FailureMarks, TextMarks, CallState
<1>4. Running(w, q, t)
  BY <1>1, <1>2, <1>3, OutcomeRead, SettlingRead, DialogsRead DEF Running
<1>5. \A k \in DOMAIN q.out : ~IsResponse(q.out[k])
  <2>1. \A k \in DOMAIN Tail(p.out) : k + 1 \in DOMAIN p.out /\ Tail(p.out)[k] = p.out[k + 1] /\ k + 1 > 1
    <3>1. DOMAIN Tail(p.out) = 1..(Len(p.out) - 1) /\ Len(p.out) \in Nat
      BY <1>1, Read
    <3> QED BY <1>1, <3>1, Read
  <2> QED BY <2>1 DEF Answered
<1>6. ~Completed(w) /\ w.streaming = "unknown" /\ State(w) = State(o)
  BY DEF Completed, Unheard, State
<1>7. Stated(w, q)
  BY <1>5, <1>6 DEF Stated
<1> QED BY <1>4, <1>6, <1>7 DEF Waiting

\* What is left behind a message that was read.
LEMMA Behind ==
  ASSUME NEW s \in Seq(Message), s # <<>>
  PROVE  /\ Head(s) = s[1] /\ 1 \in DOMAIN s /\ Len(s) \in Nat /\ Len(Tail(s)) = Len(s) - 1
         /\ \A k \in DOMAIN Tail(s) : k + 1 \in DOMAIN s /\ Tail(s)[k] = s[k + 1] /\ k + 1 # 1 /\ k + 1 > 1 /\ k \in Nat
         /\ Len(s) = 1 => Tail(s) = <<>>
         /\ (\A k \in DOMAIN s : k = 1) => Tail(s) = <<>>
<1>1. /\ DOMAIN Tail(s) = 1..(Len(s) - 1) /\ Len(s) \in Nat \ {0} /\ DOMAIN s = 1..Len(s)
      /\ Head(s) = s[1] /\ 1 \in DOMAIN s /\ Len(Tail(s)) = Len(s) - 1
      /\ \A k \in DOMAIN Tail(s) : k + 1 \in DOMAIN s /\ Tail(s)[k] = s[k + 1]
      /\ Len(s) = 1 => Tail(s) = <<>>
  BY Read
<1>2. \A k \in DOMAIN Tail(s) : k + 1 # 1 /\ k + 1 > 1 /\ k \in Nat
  BY <1>1
<1>3. (\A k \in DOMAIN s : k = 1) => Len(s) = 1
  BY <1>1
<1> QED BY <1>1, <1>2, <1>3

\* Nothing is left of a run that ended and whose last message was read.
LEMMA NothingLeft ==
  ASSUME NEW o, NEW w, NEW p, NEW q, NEW t, p.out \in Seq(Message), p.out # <<>>, Stated(o, p), Running(o, p, t),
         Gathers(o, w, Head(p.out)), q.out = Tail(p.out), q.run = p.run, q.inbox = p.inbox,
         ~p.run.on, Tail(p.out) = <<>>, p.inbox \in {<<>>, <<Cancel(o)>>}
  PROVE  Calm(q) /\ Told(w, t)
<1>1. p.inbox = <<>>
  BY DEF Running, Dialogs
<1>2. None(q.out, FailureMarks) /\ None(q.out, TextMarks) /\ \A k \in DOMAIN q.out : FALSE
  BY DEF None
<1>3. Outcome(w, q, t)
  BY OutcomeRead DEF Running
<1>4. /\ t.n = w.n /\ WillFail(w, q.out, t.failed) /\ (~t.failed => WillSay(w, q.out, t.text))
  BY <1>3 DEF Outcome
<1>5. w.failed = t.failed /\ (~t.failed => w.text = t.text)
  BY <1>2, <1>4 DEF WillFail, WillSay
<1> QED BY <1>1, <1>4, <1>5 DEF Calm, Told

\* The reply to the state request.
LEMMA StateHeard ==
  ASSUME NEW o \in CallState, NEW p \in Process, NEW t, o.got, o.stage = "prompt", ~Completed(o),
         Stated(o, p), Running(o, p, t), p.out # <<>>, Head(p.out).type = "response",
         NEW w, w.n = o.n, w.stage = o.stage, w.got, w.settled = o.settled, w.failed = o.failed, w.text = o.text,
         w.streaming = IF Head(p.out).streaming THEN "yes" ELSE "no",
         NEW q, q.out = Tail(p.out), q.run = p.run, q.inbox = p.inbox
  PROVE  IF Completed(w) THEN Calm(q) /\ Told(w, t) ELSE Waiting(w, q, t)
<1>1. p.out \in Seq(Message)
  BY DEF Process
<1>2. /\ Head(p.out) = p.out[1] /\ 1 \in DOMAIN p.out /\ Len(p.out) \in Nat /\ Len(Tail(p.out)) = Len(p.out) - 1
      /\ \A k \in DOMAIN Tail(p.out) : k + 1 \in DOMAIN p.out /\ Tail(p.out)[k] = p.out[k + 1] /\ k + 1 # 1
      /\ Len(p.out) = 1 => Tail(p.out) = <<>>
      /\ (\A k \in DOMAIN p.out : k = 1) => Tail(p.out) = <<>>
  BY <1>1, Behind
<1>3. Gathers(o, w, Head(p.out))
  BY DEF Gathers, FailureMarks, TextMarks, CallState
<1>4. /\ p.inbox \in {<<>>, <<Cancel(o)>>}
      /\ ~p.out[1].streaming => Len(p.out) = 1 /\ ~p.run.on
      /\ \A j \in DOMAIN p.out : IsResponse(p.out[j]) => j = 1
  BY <1>2 DEF Stated, IsResponse
<1>5. Running(w, q, t)
  BY <1>1, <1>3, OutcomeRead, SettlingRead, DialogsRead DEF Running
<1>6. CASE Completed(w)
  <2>1. CASE w.streaming = "no"
    <3>1. ~p.run.on /\ Tail(p.out) = <<>>
      BY <1>2, <1>4, <2>1
    <3> QED BY <1>1, <1>3, <1>4, <1>6, <3>1, NothingLeft
  <2>2. CASE w.settled
    <3>1. \A j \in DOMAIN p.out : IsResponse(p.out[j])
      BY <2>2 DEF Running, Settling
    <3>2. ~p.run.on /\ Tail(p.out) = <<>>
      BY <1>2, <1>4, <2>2, <3>1 DEF Running, Settling
    <3> QED BY <1>1, <1>3, <1>4, <1>6, <3>2, NothingLeft
  <2> QED BY <1>6, <2>1, <2>2 DEF Completed
<1>7. CASE ~Completed(w)
  <2>1. \A k \in DOMAIN q.out : ~IsResponse(q.out[k])
    BY <1>2, <1>4
  <2>2. Cancel(w) = Cancel(o) /\ State(w) = State(o)
    BY DEF Cancel, State
  <2>3. Stated(w, q)
    BY <1>4, <2>1, <2>2 DEF Stated
  <2> QED BY <1>5, <1>7, <2>3 DEF Waiting
<1> QED BY <1>6, <1>7

\* An event of the run that asks for nothing.
LEMMA EventHeard ==
  ASSUME NEW o \in CallState, NEW p \in Process, NEW t, o.got, o.stage = "prompt", ~Completed(o),
         Stated(o, p), Running(o, p, t), p.out # <<>>, Head(p.out).type # "response",
         NEW w, Gathers(o, w, Head(p.out)), w.stage = o.stage, w.got, w.streaming = o.streaming,
         NEW q, q.out = Tail(p.out), q.run = p.run,
         \/ Head(p.out).type # "dialog" /\ q.inbox = p.inbox
         \/ Head(p.out).type = "dialog" /\ q.inbox = Append(p.inbox, Cancel(o))
  PROVE  IF Completed(w) THEN Calm(q) /\ Told(w, t) ELSE Waiting(w, q, t)
<1>1. p.out \in Seq(Message)
  BY DEF Process
<1>2. /\ Head(p.out) = p.out[1] /\ 1 \in DOMAIN p.out /\ Len(p.out) \in Nat /\ Len(Tail(p.out)) = Len(p.out) - 1
      /\ \A k \in DOMAIN Tail(p.out) : /\ k + 1 \in DOMAIN p.out /\ Tail(p.out)[k] = p.out[k + 1] /\ k + 1 # 1
                                       /\ k + 1 > 1 /\ k \in Nat
      /\ (\A k \in DOMAIN p.out : k = 1) => Tail(p.out) = <<>>
  BY <1>1, Behind
<1>3. Running(w, q, t) /\ (Head(p.out).type = "dialog" => q.inbox \in {<<Cancel(o)>>, <<State(o), Cancel(o)>>})
  BY <1>1, OutcomeRead, SettlingRead, DialogsRead DEF Running, Gathers
<1>4. CASE Completed(w)
  <2>1. p.out[1].type = "settled" /\ o.streaming = "yes"
    BY <1>2, <1>4 DEF Completed, Gathers
  <2>2. /\ p.inbox \in {<<>>, <<Cancel(o)>>} /\ \A k \in DOMAIN p.out : ~IsResponse(p.out[k])
    BY <2>1 DEF Stated
  <2>3. ~p.run.on /\ \A j \in DOMAIN p.out : j > 1 => IsResponse(p.out[j])
    BY <1>2, <2>1 DEF Running, Settling, None
  <2>4. Tail(p.out) = <<>>
    <3>1. \A k \in DOMAIN p.out : k = 1
      <4>1. DOMAIN p.out = 1..Len(p.out)
        BY <1>1
      <4> QED BY <1>2, <2>2, <2>3, <4>1
    <3> QED BY <1>2, <3>1
  <2>5. q.inbox = p.inbox
    BY <1>2, <2>1
  <2> QED BY <1>1, <1>4, <2>2, <2>3, <2>4, <2>5, NothingLeft
<1>5. CASE ~Completed(w)
  <2>1. Cancel(w) = Cancel(o) /\ State(w) = State(o)
    BY DEF Cancel, State, Gathers
  <2>2. Stated(w, q)
    <3>1. \A k \in DOMAIN q.out : /\ k + 1 \in DOMAIN p.out /\ q.out[k] = p.out[k + 1] /\ k \in Nat
      BY <1>2
    <3>2. /\ q.inbox \in {<<>>, <<State(o)>>, <<Cancel(o)>>, <<State(o), Cancel(o)>>}
          /\ p.inbox \in {<<>>, <<Cancel(o)>>} => q.inbox \in {<<>>, <<Cancel(o)>>}
      <4>1. CASE Head(p.out).type # "dialog"
        BY <4>1 DEF Stated
      <4>2. CASE Head(p.out).type = "dialog"
        <5>1. State(o) # Cancel(o)
          BY DEF State, Cancel
        <5>2. Append(<<>>, Cancel(o)) = <<Cancel(o)>> /\ <<Cancel(o)>> # <<>>
          BY <5>1, Inboxes
        <5>3. <<State(o)>> # <<Cancel(o)>>
          BY <5>1, Inboxes
        <5>4. p.inbox \in {<<>>, <<State(o)>>}
          BY <1>2, <4>2 DEF Running, Dialogs
        <5>5. q.inbox = Append(p.inbox, Cancel(o))
          BY <4>2
        <5> QED BY <1>3, <4>2, <5>2, <5>3, <5>4, <5>5
      <4> QED BY <4>1, <4>2
    <3>3. o.streaming # "unknown" => q.inbox \in {<<>>, <<Cancel(o)>>} /\ \A k \in DOMAIN q.out : ~IsResponse(q.out[k])
      BY <3>1, <3>2 DEF Stated
    <3>4. ASSUME NEW k \in DOMAIN q.out, IsResponse(q.out[k])
          PROVE  /\ q.out[k].r = State(o) /\ q.inbox \in {<<>>, <<Cancel(o)>>}
                 /\ ~q.out[k].streaming => k = Len(q.out) /\ ~q.run.on
                 /\ \A j \in DOMAIN q.out : IsResponse(q.out[j]) => j = k
      <4>1. /\ p.out[k + 1].r = State(o) /\ p.inbox \in {<<>>, <<Cancel(o)>>}
            /\ ~p.out[k + 1].streaming => k + 1 = Len(p.out) /\ ~p.run.on
            /\ \A j \in DOMAIN p.out : IsResponse(p.out[j]) => j = k + 1
        BY <3>1, <3>4 DEF Stated
      <4>2. \A j \in DOMAIN q.out : IsResponse(q.out[j]) => j + 1 = k + 1
        BY <3>1, <4>1
      <4>3. \A j \in DOMAIN q.out : IsResponse(q.out[j]) => j = k
        BY <3>1, <4>2
      <4>4. k + 1 = Len(p.out) => k = Len(q.out)
        BY <1>2, <3>1
      <4> QED BY <3>1, <3>2, <4>1, <4>3, <4>4
    <3> QED BY <2>1, <3>2, <3>3, <3>4 DEF Stated
  <2> QED BY <1>3, <1>5, <2>2 DEF Waiting
<1> QED BY <1>4, <1>5

\* The call keeps its process, and has its answer or goes on waiting.
LEMMA KeepQuiet ==
  ASSUME OwnerInv, TrafficInv, op.pc = "wait", ~IsIdle, procs[op.c].out # <<>>, NEW w, w.pc = "wait", w.stage = op.stage,
         w.c = op.c, w \in CallState, Keep(w),
         \A q : q.out = Tail(procs[op.c].out) /\ q.run = procs[op.c].run /\ q.inbox = procs[op.c].inbox =>
            IF Completed(w) THEN Calm(q) /\ (w.stage = "prompt" => Told(w, truth)) ELSE Waiting(w, q, truth)
  PROVE  TrafficInv'
<1> DEFINE q == Taken[op.c]
<1>1. op.c \in Proc /\ \A c \in Proc : c # op.c => Taken[c] = procs[c]
  BY CallHasProc DEF Taken, OwnerInv, TypeOK
<1>2. q.out = Tail(procs[op.c].out) /\ q.run = procs[op.c].run /\ q.inbox = procs[op.c].inbox
  BY <1>1 DEF Taken, OwnerInv, TypeOK, Process
<1>3. procs' = Taken /\ op' = Proceed(w) /\ UNCHANGED <<answer, truth>>
  BY DEF Keep
<1>4. \A c \in Proc : c # op.c => Calm(procs'[c])
  BY <1>1, <1>3 DEF TrafficInv
<1>5. answer.n = 0 /\ op.stage # "idle"
  BY DEF TrafficInv, IsIdle
<1>6. CASE Completed(w)
  <2>1. op'.pc = "deliver" /\ op'.stage = w.stage /\ op'.c = w.c /\ (Told(w, truth) => Told(op', truth))
    BY <1>3, <1>6 DEF Proceed, CallState, Told
  <2>2. Calm(q) /\ (w.stage = "prompt" => Told(w, truth))
    BY <1>2, <1>6
  <2> QED BY <1>3, <1>4, <1>5, <2>1, <2>2 DEF TrafficInv, IsIdle
<1>7. CASE ~Completed(w)
  <2>1. op' = w
    BY <1>3, <1>7 DEF Proceed
  <2>2. Waiting(w, q, truth)
    BY <1>2, <1>7
  <2> QED BY <1>3, <1>4, <1>5, <2>1, <2>2 DEF TrafficInv, IsIdle
<1> QED BY <1>6, <1>7

LEMMA ResponseQuiet ==
  ASSUME OwnerInv, TrafficInv, op.pc = "wait", procs[op.c].out # <<>>, NEW e, e = Head(procs[op.c].out),
         e.type = "response", ReceiveResponse(e)
  PROVE  TrafficInv'
<1> DEFINE p == procs[op.c]
           o == [op EXCEPT !.got = TRUE, !.cancelled = e.cancelled, !.id = e.session]
           told == [op EXCEPT !.streaming = IF e.streaming THEN "yes" ELSE "no"]
           main == e.r = MainRequest
           state == e.r = StateRequest /\ op.stage = "prompt" /\ op.got
<1>1. /\ ~IsIdle /\ op \in CallState /\ op.stage \in Asks /\ op.c \in Proc /\ p \in Process
      /\ Waiting(op, p, truth) /\ p.out \in Seq(Message)
  BY CallNow, CallHasProc DEF OwnerInv, TypeOK, TrafficInv, Process
<1>2. /\ e = p.out[1] /\ 1 \in DOMAIN p.out /\ e \in Message /\ IsResponse(e)
      /\ Len(p.out) = 1 => Tail(p.out) = <<>>
  BY <1>1, Read DEF IsResponse
<1>3. /\ Fits(Taken) /\ \A c \in Proc : c # op.c => Taken[c] = procs[c]
      /\ Taken[op.c].out = Tail(p.out) /\ Taken[op.c].run = p.run /\ Taken[op.c].inbox = p.inbox
  BY <1>1, TakenFits DEF Taken, OwnerInv, TypeOK, Process
<1>4. MainRequest = Main(op) /\ StateRequest = State(op) /\ Main(op) # State(op)
  BY <1>1 DEF MainRequest, StateRequest, Main, State, Asks
<1>5. CASE Raise(Taken, {op.c})
  BY <1>1, <1>3, <1>5, RaiseQuiet
<1>6. CASE main /\ ~(state /\ e.ok)
  <2>1. Unheard(op) /\ Answered(op, p, truth)
    <3>1. ~Unanswered(op, p)
      BY DEF Unanswered
    <3>2. ~(op.got /\ Stated(op, p))
      BY <1>2, <1>4, <1>6 DEF Stated
    <3> QED BY <1>1, <3>1, <3>2 DEF Waiting
  <2>2. CASE ~e.ok /\ Raise(Taken, {})
    <3>1. Calm(Taken[op.c])
      BY <1>2, <1>3, <2>1, <2>2 DEF Answered, Calm
    <3> QED BY <1>1, <1>3, <2>2, <3>1, RaiseQuiet
  <2>3. /\ o.pc = "wait" /\ o.stage = op.stage /\ o.c = op.c /\ o.got /\ o \in CallState /\ o.n = op.n
        /\ o.streaming = op.streaming /\ o.settled = op.settled /\ o.failed = op.failed /\ o.text = op.text
    BY <1>1, <1>2 DEF CallState, Message
  <2> HIDE DEF o, p
  <2>4. CASE op.stage # "prompt" /\ Keep(o)
    <3>1. Completed(o)
      BY <2>3, <2>4 DEF Completed
    <3>2. ASSUME NEW q, q.out = Tail(p.out), q.run = p.run, q.inbox = p.inbox PROVE Calm(q)
      BY <1>2, <2>1, <2>4, <3>2 DEF Answered, Calm
    <3> QED BY <1>1, <2>3, <2>4, <3>1, <3>2, KeepQuiet DEF p
  <2>5. CASE op.stage = "prompt" /\ e.ok /\ WriteTo(Taken, StateRequest, o)
    <3>1. StateRequest \in Request
      BY <1>1 DEF StateRequest, Request, Commands, CallState
    <3>2. p.inbox = <<>> /\ Append(<<>>, State(op)) = <<State(op)>>
      BY <2>1, Inboxes DEF Answered, State, Cancel
    <3>3. ASSUME NEW q, q.out = Taken[op.c].out, q.run = Taken[op.c].run, q.inbox = Append(Taken[op.c].inbox, StateRequest)
          PROVE  Waiting(o, q, truth)
      <4>1. q.inbox = <<State(op)>> /\ q.out = Tail(p.out) /\ q.run = p.run
        BY <1>3, <1>4, <3>2, <3>3
      <4> QED BY <1>1, <1>2, <2>1, <2>3, <2>5, <4>1, MainHeard
    <3> QED BY <1>1, <1>3, <2>3, <2>5, <3>1, <3>3, WriteQuiet
  <2> QED BY <1>5, <1>6, <2>2, <2>4, <2>5 DEF ReceiveResponse, o
<1>7. CASE state /\ e.ok
  <2>1. op.got /\ op.stage = "prompt" /\ ~Completed(op) /\ Stated(op, p) /\ Running(op, p, truth)
    BY <1>1, <1>7 DEF Waiting, Unheard
  <2>2. ~main
    BY <1>4, <1>7
  <2>3. Keep(told) \/ Raise(Taken, {op.c})
    BY <1>7, <2>2 DEF ReceiveResponse
  <2>4. /\ told.pc = "wait" /\ told.stage = op.stage /\ told.c = op.c /\ told.got /\ told \in CallState /\ told.n = op.n
        /\ told.settled = op.settled /\ told.failed = op.failed /\ told.text = op.text
        /\ told.streaming = IF e.streaming THEN "yes" ELSE "no"
    BY <1>1, <1>2, <2>1 DEF CallState, Message
  <2> HIDE DEF told, p
  <2>5. ASSUME NEW q, q.out = Tail(p.out), q.run = p.run, q.inbox = p.inbox
        PROVE  IF Completed(told) THEN Calm(q) /\ Told(told, truth) ELSE Waiting(told, q, truth)
    BY <1>1, <2>1, <2>4, <2>5, StateHeard DEF p
  <2>6. CASE Keep(told)
    BY <1>1, <2>4, <2>5, <2>6, KeepQuiet DEF p
  <2> QED BY <1>5, <2>3, <2>6
<1>8. CASE ~main /\ ~(state /\ e.ok)
  BY <1>5, <1>8 DEF ReceiveResponse
<1> QED BY <1>6, <1>7, <1>8

LEMMA EventQuiet ==
  ASSUME OwnerInv, TrafficInv, op.pc = "wait", procs[op.c].out # <<>>, NEW e, e = Head(procs[op.c].out),
         e.type # "response", ReceiveEvent(e)
  PROVE  TrafficInv'
<1> DEFINE p == procs[op.c]
           w == Gather(e)
<1>1. /\ ~IsIdle /\ op \in CallState /\ op.stage \in Asks /\ op.c \in Proc /\ p \in Process
      /\ Waiting(op, p, truth) /\ p.out \in Seq(Message)
  BY CallNow, CallHasProc DEF OwnerInv, TypeOK, TrafficInv, Process
<1>2. e = p.out[1] /\ e \in Message
  BY <1>1, Read
<1>3. op.got /\ op.stage = "prompt" /\ ~Completed(op) /\ Stated(op, p) /\ Running(op, p, truth)
  BY <1>1, <1>2 DEF Waiting, Unanswered, Answered, IsResponse
<1>4. /\ w \in CallState /\ w.pc = "wait" /\ w.stage = op.stage /\ w.c = op.c /\ w.got /\ w.streaming = op.streaming
      /\ Gathers(op, w, e)
  BY <1>1, <1>2, <1>3, GatherTyped
<1>5. e.type = "dialog" => w = op
  BY DEF Gather
<1>6. /\ Fits(Taken) /\ \A c \in Proc : c # op.c => Taken[c] = procs[c]
      /\ Taken[op.c].out = Tail(p.out) /\ Taken[op.c].run = p.run /\ Taken[op.c].inbox = p.inbox
  BY <1>1, TakenFits DEF Taken, OwnerInv, TypeOK, Process
<1> HIDE DEF w, p
<1>7. CASE e.type # "dialog" /\ Keep(w)
  <2>1. ASSUME NEW q, q.out = Tail(p.out), q.run = p.run, q.inbox = p.inbox
        PROVE  IF Completed(w) THEN Calm(q) /\ Told(w, truth) ELSE Waiting(w, q, truth)
    BY <1>1, <1>3, <1>4, <1>7, <2>1, EventHeard DEF p
  <2> QED BY <1>1, <1>4, <1>7, <2>1, KeepQuiet DEF p
<1>8. CASE e.type = "dialog" /\ WriteTo(Taken, [n |-> op.n, cmd |-> "cancel"], Proceed(w))
  <2>1. Proceed(w) = op /\ w = op
    BY <1>3, <1>5, <1>8 DEF Proceed
  <2>2. Cancel(op) \in Request /\ Cancel(op) = [n |-> op.n, cmd |-> "cancel"]
    BY <1>1 DEF Cancel, Request, Commands, CallState
  <2>3. ASSUME NEW q, q.out = Taken[op.c].out, q.run = Taken[op.c].run, q.inbox = Append(Taken[op.c].inbox, Cancel(op))
        PROVE  Waiting(op, q, truth)
    <3>1. q.out = Tail(p.out) /\ q.run = p.run /\ q.inbox = Append(p.inbox, Cancel(op))
      BY <1>6, <2>3
    <3>2. IF Completed(w) THEN Calm(q) /\ Told(w, truth) ELSE Waiting(w, q, truth)
      BY <1>1, <1>3, <1>4, <1>8, <3>1, EventHeard DEF p
    <3> QED BY <1>3, <2>1, <3>2
  <2> QED BY <1>1, <1>6, <1>8, <2>1, <2>2, <2>3, WriteQuiet
<1> QED BY <1>3, <1>7, <1>8 DEF ReceiveEvent, w

LEMMA ReceiveQuiet == ASSUME OwnerInv, TrafficInv, Receive PROVE TrafficInv'
BY EventQuiet, ResponseQuiet DEF Receive

-----------------------------------------------------------------------------
(* TrafficInv when a call takes its answer; the theorems about it. *)

\* A call that has its answer found every process calm, and may start another or
\* send the next command of its fork.
LEMMA DeliverCalm ==
  ASSUME OwnerInv, TrafficInv, op.pc = "deliver"
  PROVE  AllCalm(procs) /\ ~IsIdle /\ answer.n = 0
<1>1. ~IsIdle
  BY CallNow
<1> QED BY <1>1 DEF TrafficInv, AllCalm

LEMMA ThenQuiet ==
  ASSUME TrafficInv, AllCalm(procs'), answer.n = 0, UNCHANGED <<answer, truth>>, op'.pc = "write", Unheard(op'),
         op'.c \in Proc
  PROVE  TrafficInv'
BY DEF TrafficInv, AllCalm

LEMMA DeliverQuiet == ASSUME OwnerInv, TrafficInv, Deliver PROVE TrafficInv'
<1>1. AllCalm(procs) /\ ~IsIdle /\ answer.n = 0 /\ op.c \in Proc /\ child[op.b] \in Proc
  BY DeliverCalm, CallHasProc DEF Deliver
<1>2. ASSUME NEW closed, Raise(procs, closed) PROVE TrafficInv'
  BY <1>1, <1>2, RaiseQuiet DEF AllCalm
<1>3. ASSUME UNCHANGED <<procs, truth>>, op' = Idle, answer'.n # 0 => answer' = truth PROVE TrafficInv'
  BY <1>1, <1>3, IdleQuiet DEF AllCalm, TrafficInv
<1>4. ASSUME NEW stage, NEW c \in Proc, Then(stage, c), UNCHANGED <<procs, answer, truth>> PROVE TrafficInv'
  <2>1. op'.pc = "write" /\ Unheard(op') /\ op'.c = c
    BY <1>4 DEF Then, Idle, Unheard
  <2>2. AllCalm(procs')
    BY <1>1, <1>4
  <2> QED BY <1>1, <1>4, <2>1, <2>2, ThenQuiet
<1>5. CASE DeliverAsk
  <2>1. Told(op, truth) /\ (truth.failed => truth.text = <<>>)
    BY <1>1, <1>5 DEF DeliverAsk, Deliver, TrafficInv
  <2>2. answer' = truth
    <3>1. answer' = [n |-> op.n, failed |-> op.failed, text |-> IF op.failed THEN <<>> ELSE op.text]
      BY <1>5 DEF DeliverAsk
    <3>2. truth = [n |-> truth.n, failed |-> truth.failed, text |-> truth.text]
      BY DEF OwnerInv, TypeOK, Answer
    <3>3. truth.n = op.n /\ truth.failed = op.failed /\ truth.text = IF op.failed THEN <<>> ELSE op.text
      BY <2>1 DEF Told
    <3> QED BY <3>1, <3>2, <3>3
  <2> QED BY <1>3, <1>5, <2>2 DEF DeliverAsk, Done
<1>6. CASE DeliverQuery \/ DeliverReset
  BY <1>1, <1>3, <1>6 DEF DeliverQuery, DeliverReset, Done
<1>7. CASE DeliverParent
  <2>1. CASE Raise(procs, {op.c}) \/ Raise(procs, {})
    BY <1>2, <2>1
  <2>2. ASSUME \/ procs' = [procs EXCEPT ![NewProc] = Started(op.id)]
               \/ procs' = [procs EXCEPT ![NewProc] = Started(NewSid)],
               op' = [Idle EXCEPT !.stage = "ready", !.b = op.b, !.c = NewProc, !.n = op.n, !.parent = op.id, !.spare = NewProc],
               UNCHANGED <<answer, truth>>
        PROVE  TrafficInv'
    <3>1. op'.pc = "write" /\ Unheard(op') /\ op'.c = NewProc
      BY <2>2 DEF Idle, Unheard
    <3>2. NewProc \in Proc
      BY <1>7 DEF OwnerInv, Calls, DeliverParent, NewProc, FreeProc
    <3>3. AllCalm(procs')
      BY <1>1, <2>2, GoneCalm DEF AllCalm, OwnerInv, TypeOK
    <3> QED BY <1>1, <2>2, <3>1, <3>2, <3>3, ThenQuiet
  <2> QED BY <1>7, <2>1, <2>2 DEF DeliverParent
<1>8. CASE DeliverReady
  BY <1>1, <1>2, <1>4, <1>8 DEF DeliverReady
<1>9. CASE DeliverClone
  BY <1>1, <1>2, <1>4, <1>9 DEF DeliverClone
<1>10. CASE DeliverChild
  <2>1. CASE Raise(procs, {op.c})
    BY <1>2, <2>1
  <2>2. CASE Done /\ UNCHANGED <<procs, answer, truth>>
    BY <1>1, <1>3, <2>2 DEF Done
  <2> QED BY <1>10, <2>1, <2>2 DEF DeliverChild
<1> QED BY <1>5, <1>6, <1>7, <1>8, <1>9, <1>10 DEF Deliver

LEMMA TrafficNext == OwnerInv /\ TrafficInv /\ [Next \/ InterruptDelivery]_vars => TrafficInv'
<1> SUFFICES ASSUME OwnerInv, TrafficInv, [Next \/ InterruptDelivery]_vars PROVE TrafficInv'
  OBVIOUS
<1>1. CASE \E b \in Backend : \/ Open(b) \/ Close(b)
                              \/ \E stage \in {"prompt", "new_session", "query", "parent"} : Begin(b, stage)
  <2>1. ASSUME NEW b \in Backend, Close(b) PROVE TrafficInv'
    BY <2>1, CloseQuiet DEF Close
  <2> QED BY <1>1, <2>1, OpenQuiet, BeginQuiet
<1>2. CASE Write \/ Receive \/ Deliver
  BY <1>2, SendQuiet, ReceiveQuiet, DeliverQuiet
<1>3. CASE Eof \/ Timeout \/ Interrupt \/ InterruptDelivery
  BY <1>3, FailureQuiet
<1>4. CASE \E c \in Proc : Pi(c) \/ PiExits(c)
  BY <1>4, ReplyQuiet, RunQuiet, ExitQuiet DEF Pi
<1>5. CASE UNCHANGED vars
  BY <1>5 DEF vars, TrafficInv, IsIdle
<1> QED BY <1>1, <1>2, <1>3, <1>4, <1>5 DEF Next, Call

LEMMA TrafficInit == Init => TrafficInv
BY GoneCalm, NullAssumption DEF Init, TrafficInv, Idle, IsIdle, NoAnswer

\* Between calls a running Pi has nothing left to read, to answer or to run, so the
\* next command takes no earlier one's events for its own, an interrupt at any
\* point and a process that died at any point included.
THEOREM NothingLeftOver == InterruptedSpec => []Quiescent
<1>1. OwnerInv /\ TrafficInv => Quiescent
  BY NullAssumption DEF OwnerInv, Calls, TrafficInv, Quiescent, Calm, Idle, TypeOK
<1> QED BY <1>1, OwnerNext, OwnerInit, TrafficNext, TrafficInit, PTL DEF InterruptedSpec

\* What ask returns is what its own run produced, whatever attempts were retried,
\* however its events, the state reply and the dialogs interleave.
THEOREM AnswersOwnRun == InterruptedSpec => []AnswerIsOwn
<1>1. TrafficInv => AnswerIsOwn
  BY DEF TrafficInv, AnswerIsOwn
<1> QED BY <1>1, OwnerNext, OwnerInit, TrafficNext, TrafficInit, PTL DEF InterruptedSpec

-----------------------------------------------------------------------------
(* Which session each process is on. *)

Source == procs[child[op.b]]

\* The source of a reset or a fork may have left its session.
Changed ==
    /\ op.stage \in {"new_session", "clone"}
    /\ \/ op.pc = "wait" /\ \E k \in DOMAIN Source.out : Source.out[k].ok /\ ~Source.out[k].cancelled
       \/ op.pc = "deliver" /\ ~op.cancelled

\* Each backend that is in no call is on its own session, and no one else is.
Distinct ==
    /\ \A b \in Backend : b # op.b /\ child[b] # NoProc => procs[child[b]].session = own[b]
    /\ \A b1, b2 \in Backend : own[b1] = own[b2] /\ own[b1] # NoSid => b1 = b2
    /\ ~IsIdle => \A b \in Backend : b # op.b /\ own[b] # NoSid =>
                     /\ Source.session # own[b]
                     /\ op.spare # NoProc => procs[op.spare].session # own[b]

\* Where a call has come to with the session of its backend.
Reached ==
    ~IsIdle =>
        /\ op.stage \in {"ready", "clone", "child"} => op.parent = own[op.b]
        /\ op.stage \in {"clone", "child"} => procs[op.spare].session = op.parent
        /\ op.stage # "child" /\ ~Changed => Source.session = own[op.b]
        /\ op.stage # "prompt" /\ op.pc = "wait" =>
              \A k \in DOMAIN procs[op.c].out : procs[op.c].out[k].session = procs[op.c].session
        /\ op.stage # "prompt" /\ op.pc = "deliver" => op.id = procs[op.c].session

SessionInv == Distinct /\ Reached

LEMMA CallBackend ==
  ASSUME OwnerInv, ~IsIdle
  PROVE  /\ op.b \in Backend /\ own[op.b] # NoSid /\ op.c \in Proc /\ child[op.b] \in Proc
         /\ \A b \in Backend : b # op.b /\ child[b] # NoProc => child[b] \in Proc /\ child[b] # child[op.b] /\ child[b] # op.spare
         /\ op.stage = "ready" => op.c = op.spare /\ op.spare \in Proc /\ op.spare # child[op.b]
         /\ op.stage # "ready" => op.c = child[op.b]
         /\ op.stage \in {"clone", "child"} => op.spare \in Proc /\ op.spare # child[op.b]
         /\ op.spare # NoProc <=> op.stage \in {"ready", "clone", "child"}
<1>1. /\ op.b \in Backend /\ own[op.b] # NoSid /\ op.c \in Proc /\ child[op.b] \in Proc
      /\ op.stage \in {"ready", "clone", "child"} => op.spare \in Proc /\ op.spare # child[op.b]
  BY CallHasProc DEF OwnerInv, Calls
<1>2. \A b \in Backend : b # op.b /\ child[b] # NoProc => child[b] \in Proc /\ child[b] # child[op.b] /\ child[b] # op.spare
  BY <1>1, NullAssumption DEF OwnerInv, TypeOK, Owned
<1> QED BY <1>1, <1>2 DEF OwnerInv, Calls

\* No process changes its session, and the call goes on with the same command.
LEMMA DistinctKeeps ==
  ASSUME OwnerInv, Distinct, UNCHANGED <<child, own>>, \A c \in Proc : procs'[c].session = procs[c].session,
         op'.b = op.b, op'.spare = op.spare, IsIdle' <=> IsIdle
  PROVE  Distinct'
<1>1. \A b \in Backend : child[b] # NoProc => child[b] \in Proc
  BY DEF OwnerInv, TypeOK
<1>2. ~IsIdle => child[op.b] \in Proc /\ (op.spare # NoProc => op.spare \in Proc)
  BY CallBackend
<1>3. CASE IsIdle
  BY <1>1, <1>3 DEF Distinct
<1>4. CASE ~IsIdle
  BY <1>1, <1>2, <1>4 DEF Distinct, Source
<1> QED BY <1>3, <1>4

\* Between calls each backend's process is on its session.
LEMMA IdleApart ==
  ASSUME op' = Idle, \A b \in Backend : child'[b] # NoProc => procs'[child'[b]].session = own'[b],
         \A b1, b2 \in Backend : own'[b1] = own'[b2] /\ own'[b1] # NoSid => b1 = b2
  PROVE  SessionInv'
BY DEF SessionInv, Distinct, Reached, Idle, IsIdle

LEMMA RaiseApart ==
  ASSUME OwnerInv, SessionInv, ~IsIdle, NEW ps, \A c \in Proc : ps[c].session = procs[c].session,
         NEW closed \in SUBSET {op.c}, Raise(ps, closed),
         child[op.b] \in closed \/ op.stage = "child" \/ Source.session = own[op.b]
  PROVE  SessionInv'
<1> DEFINE shut == closed \cup CASE op.stage \in {"ready", "clone"} -> {op.spare}
                                 [] op.stage = "child" -> {child[op.b]}
                                 [] OTHER -> {}
           new == IF op.stage = "child" THEN op.spare
                  ELSE IF child[op.b] \in closed THEN NoProc ELSE child[op.b]
<1>1. procs' = Without(ps, shut) /\ child' = [child EXCEPT ![op.b] = new] /\ op' = Idle /\ own' = own
  BY DEF Raise
<1>2. /\ op.b \in Backend /\ op.c \in {op.spare, child[op.b]} /\ child[op.b] \in Proc
      /\ \A b \in Backend : b # op.b /\ child[b] # NoProc => child[b] \in Proc /\ child[b] # child[op.b] /\ child[b] # op.spare
      /\ op.stage \in {"ready", "clone", "child"} => op.spare \in Proc /\ op.spare # child[op.b]
      /\ op.stage # "ready" => op.c = child[op.b]
  BY CallBackend
<1>3. shut \subseteq {op.spare, child[op.b]}
  BY <1>2
<1>4. new # NoProc => /\ new \in Proc /\ new \notin shut
                      /\ procs[new].session = own[op.b]
  <2>1. CASE op.stage = "child"
    <3>1. new = op.spare /\ shut = {child[op.b]}
      BY <1>2, <2>1
    <3>2. procs[op.spare].session = own[op.b]
      BY <2>1 DEF SessionInv, Reached
    <3> QED BY <1>2, <2>1, <3>1, <3>2
  <2>2. CASE op.stage # "child"
    <3>1. child[op.b] \in closed => new = NoProc
      BY <2>2
    <3>2. child[op.b] \notin closed => new = child[op.b] /\ Source.session = own[op.b] /\ child[op.b] \notin shut
      BY <1>2, <2>2
    <3> QED BY <1>2, <3>1, <3>2 DEF Source
  <2> QED BY <2>1, <2>2
<1> HIDE DEF shut, new
<1>5. \A c \in Proc : c \notin shut => procs'[c].session = procs[c].session
  BY <1>1 DEF Without
<1>6. ASSUME NEW b \in Backend, child'[b] # NoProc PROVE procs'[child'[b]].session = own'[b]
  <2>1. CASE b = op.b
    <3>1. child'[b] = new
      BY <1>1, <1>2, <2>1 DEF OwnerInv, TypeOK
    <3> QED BY <1>1, <1>4, <1>5, <1>6, <2>1, <3>1
  <2>2. CASE b # op.b
    <3>1. child'[b] = child[b]
      BY <1>1, <2>2 DEF OwnerInv, TypeOK
    <3>2. child[b] \in Proc /\ child[b] \notin shut
      BY <1>2, <1>3, <1>6, <2>2, <3>1
    <3> QED BY <1>1, <1>5, <1>6, <2>2, <3>1, <3>2 DEF SessionInv, Distinct
  <2> QED BY <2>1, <2>2
<1>7. \A b1, b2 \in Backend : own'[b1] = own'[b2] /\ own'[b1] # NoSid => b1 = b2
  BY <1>1 DEF SessionInv, Distinct
<1> QED BY <1>1, <1>6, <1>7, IdleApart

LEMMA OpenApart == ASSUME OwnerInv, SessionInv, NEW b \in Backend, Open(b) PROVE SessionInv'
<1> DEFINE c == NewProc
           s == NewSid
<1>1. /\ c \in Proc /\ procs[c].status = "none" /\ s \in Sid
      /\ \A x \in Backend : own[x] # s
  BY DEF Open, NewProc, FreeProc, NewSid, FreeSid
<1>2. /\ procs' = [procs EXCEPT ![c] = Started(s)] /\ child' = [child EXCEPT ![b] = c]
      /\ own' = [own EXCEPT ![b] = s] /\ op' = Idle /\ op = Idle
  BY DEF Open, OwnerInv, Calls
<1> HIDE DEF c, s
<1>3. \A x \in Backend : /\ child'[x] = IF x = b THEN c ELSE child[x]
                         /\ own'[x] = IF x = b THEN s ELSE own[x]
  BY <1>2 DEF OwnerInv, TypeOK
<1>4. \A d \in Proc : procs'[d] = IF d = c THEN Started(s) ELSE procs[d]
  BY <1>2 DEF OwnerInv, TypeOK
<1>5. \A x \in Backend : child[x] # NoProc => child[x] \in Proc /\ child[x] # c /\ procs[child[x]].session = own[x]
  BY <1>1, <1>2, NullAssumption DEF OwnerInv, Owned, TypeOK, SessionInv, Distinct, Idle
<1>6. \A x \in Backend : child'[x] # NoProc => procs'[child'[x]].session = own'[x]
  BY <1>1, <1>3, <1>4, <1>5, StartedTyped
<1>7. \A b1, b2 \in Backend : own'[b1] = own'[b2] /\ own'[b1] # NoSid => b1 = b2
  BY <1>1, <1>3 DEF SessionInv, Distinct
<1> QED BY <1>2, <1>6, <1>7, IdleApart

\* A backend closed, or found dead.
LEMMA CloseApart ==
  ASSUME OwnerInv, SessionInv, NEW b \in Backend, IsIdle, UNCHANGED op,
         procs' = Without(procs, {child[b]}), child' = [child EXCEPT ![b] = NoProc],
         own' = own \/ own' = [own EXCEPT ![b] = NoSid]
  PROVE  SessionInv'
<1>1. op = Idle /\ op' = Idle
  BY DEF OwnerInv, Calls
<1>2. \A x \in Backend : /\ child'[x] = IF x = b THEN NoProc ELSE child[x]
                         /\ x # b => own'[x] = own[x]
                         /\ own'[x] # NoSid => own'[x] = own[x]
  BY DEF OwnerInv, TypeOK
<1>3. \A x \in Backend : x # b /\ child[x] # NoProc =>
         child[x] \in Proc /\ child[x] # child[b] /\ procs[child[x]].session = own[x]
  BY <1>1, NullAssumption DEF OwnerInv, Owned, TypeOK, SessionInv, Distinct, Idle
<1>4. \A x \in Backend : child'[x] # NoProc => procs'[child'[x]].session = own'[x]
  BY <1>2, <1>3 DEF Without
<1>5. \A b1, b2 \in Backend : own'[b1] = own'[b2] /\ own'[b1] # NoSid => b1 = b2
  BY <1>2 DEF SessionInv, Distinct
<1> QED BY <1>1, <1>4, <1>5, IdleApart

LEMMA BeginApart ==
  ASSUME OwnerInv, SessionInv, NEW b \in Backend, NEW stage \in {"prompt", "new_session", "query", "parent"}, Begin(b, stage)
  PROVE  SessionInv'
<1>1. CASE IsLive(child[b])
  <2>1. /\ op' = [Idle EXCEPT !.stage = stage, !.b = b, !.c = child[b], !.n = count + 1]
        /\ UNCHANGED <<procs, child, own>> /\ op = Idle /\ child[b] # NoProc
    BY <1>1 DEF Begin, OwnerInv, Calls
  <2>2. op'.stage = stage /\ op'.b = b /\ op'.c = child[b] /\ op'.spare = NoProc /\ op'.pc = "write"
    BY <2>1 DEF Idle
  <2>3. \A x \in Backend : child[x] # NoProc => procs[child[x]].session = own[x]
    BY <2>1, NullAssumption DEF SessionInv, Distinct, Idle
  <2>4. Distinct'
    <3>1. \A x \in Backend : x # b /\ own[x] # NoSid => procs[child[b]].session # own[x]
      BY <2>1, <2>3 DEF SessionInv, Distinct
    <3> QED BY <2>1, <2>2, <2>3, <3>1 DEF SessionInv, Distinct, Source
  <2>5. Reached'
    BY <2>1, <2>2, <2>3 DEF Reached, Source
  <2> QED BY <2>4, <2>5 DEF SessionInv
<1>2. CASE ~IsLive(child[b])
  BY <1>2, CloseApart DEF Begin
<1> QED BY <1>1, <1>2

-----------------------------------------------------------------------------
(* SessionInv through commands, answers and failures. *)

\* The sessions and what the call knows of them stay, and it is not answered.
LEMMA StaysApart ==
  ASSUME OwnerInv, SessionInv, ~IsIdle, UNCHANGED <<child, own>>,
         \A c \in Proc : procs'[c].session = procs[c].session,
         op'.stage = op.stage, op'.b = op.b, op'.c = op.c, op'.spare = op.spare, op'.parent = op.parent,
         ~Changed' => ~Changed,
         op.stage # "prompt" /\ op'.pc = "wait" =>
            \A k \in DOMAIN procs'[op.c].out : procs'[op.c].out[k].session = procs[op.c].session,
         op.stage # "prompt" /\ op'.pc = "deliver" => op'.id = procs[op.c].session
  PROVE  SessionInv'
<1>1. op.c \in Proc /\ child[op.b] \in Proc /\ (op.stage \in {"clone", "child"} => op.spare \in Proc)
  BY CallBackend
<1>2. Distinct'
  BY DistinctKeeps DEF SessionInv, IsIdle
<1>3. Reached'
  BY <1>1 DEF SessionInv, Reached, Source, IsIdle
<1> QED BY <1>2, <1>3 DEF SessionInv

LEMMA WriteApart == ASSUME OwnerInv, TrafficInv, SessionInv, Write PROVE SessionInv'
<1>1. /\ ~IsIdle /\ op \in CallState /\ op.pc = "write" /\ op.c \in Proc /\ child[op.b] \in Proc
      /\ op.stage # "ready" => op.c = child[op.b]
  BY CallNow, CallBackend DEF Write
<1>2. CASE procs[op.c].status = "live"
  <2>1. /\ procs' = [procs EXCEPT ![op.c].inbox = Append(@, MainRequest)] /\ op' = [op EXCEPT !.pc = "wait"]
        /\ UNCHANGED <<child, own>>
    BY <1>2 DEF Write, WriteTo
  <2>2. /\ op'.stage = op.stage /\ op'.b = op.b /\ op'.c = op.c /\ op'.spare = op.spare
        /\ op'.parent = op.parent /\ op'.pc = "wait"
    BY <1>1, <2>1 DEF CallState
  <2>3. \A c \in Proc : procs'[c].session = procs[c].session /\ procs'[c].out = procs[c].out
    BY <2>1 DEF OwnerInv, TypeOK, Process
  <2>4. procs'[op.c].out = <<>>
    BY <1>1, <2>3 DEF TrafficInv, Calm
  <2>5. ~Changed
    BY <1>1 DEF Changed
  <2> QED BY <1>1, <2>1, <2>2, <2>3, <2>4, <2>5, StaysApart
<1>3. CASE procs[op.c].status # "live"
  <2>1. op.stage # "child" => Source.session = own[op.b]
    BY <1>1 DEF SessionInv, Reached, Changed
  <2> QED BY <1>1, <1>3, <2>1, RaiseApart DEF Write, WriteTo
<1> QED BY <1>2, <1>3

LEMMA FailureApart == ASSUME OwnerInv, SessionInv, Eof \/ Timeout \/ Interrupt PROVE SessionInv'
<1>1. ~IsIdle /\ Raise(procs, {op.c})
  BY CallNow DEF Eof, Timeout, Interrupt
<1>2. op.stage # "ready" => op.c = child[op.b]
  BY <1>1, CallBackend
<1>3. op.stage = "ready" => Source.session = own[op.b]
  BY <1>1 DEF SessionInv, Reached, Changed
<1> QED BY <1>1, <1>2, <1>3, RaiseApart

\* A prompt goes on, or fails for a process found dead.
LEMMA PromptApart ==
  ASSUME OwnerInv, SessionInv, ~IsIdle, op.stage = "prompt",
         \/ Raise(Taken, {op.c})
         \/ /\ UNCHANGED <<child, own>> /\ \A c \in Proc : procs'[c].session = procs[c].session
            /\ op'.stage = op.stage /\ op'.b = op.b /\ op'.c = op.c /\ op'.spare = op.spare /\ op'.parent = op.parent
  PROVE  SessionInv'
<1>1. op.c = child[op.b] /\ ~Changed
  BY CallBackend DEF Changed
<1>2. CASE Raise(Taken, {op.c})
  <2>1. \A c \in Proc : Taken[c].session = procs[c].session
    BY CallBackend DEF Taken, OwnerInv, TypeOK, Process
  <2> QED BY <1>1, <1>2, <2>1, RaiseApart
<1>3. CASE ~Raise(Taken, {op.c})
  BY <1>1, <1>3, StaysApart
<1> QED BY <1>2, <1>3

LEMMA ReceiveApart == ASSUME OwnerInv, TrafficInv, SessionInv, Receive PROVE SessionInv'
<1> DEFINE p == procs[op.c]
           e == Head(p.out)
<1>1. /\ ~IsIdle /\ op \in CallState /\ op.stage \in Asks /\ op.c \in Proc /\ p \in Process
      /\ Waiting(op, p, truth) /\ p.out \in Seq(Message) /\ p.out # <<>> /\ op.pc = "wait"
  BY CallNow, CallHasProc DEF OwnerInv, TypeOK, TrafficInv, Process, Receive
<1>2. e = p.out[1] /\ 1 \in DOMAIN p.out /\ e \in Message
  BY <1>1, Read
<1>3. /\ \A c \in Proc : Taken[c].session = procs[c].session
      /\ \A c \in Proc : c # op.c => Taken[c] = procs[c]
      /\ \A r : \A c \in Proc : [Taken EXCEPT ![op.c].inbox = Append(@, r)][c].session = procs[c].session
  BY <1>1 DEF Taken, OwnerInv, TypeOK, Process
<1>4. CASE op.stage = "prompt"
  <2>1. ASSUME NEW r, NEW o, WriteTo(Taken, r, o), o.stage = op.stage, o.b = op.b, o.c = op.c, o.spare = op.spare, o.parent = op.parent
        PROVE  SessionInv'
    <3>1. CASE Taken[op.c].status = "live"
      <4>1. procs' = [Taken EXCEPT ![op.c].inbox = Append(@, r)] /\ op' = o /\ UNCHANGED <<child, own>>
        BY <2>1, <3>1 DEF WriteTo
      <4>2. \A c \in Proc : procs'[c].session = procs[c].session
        BY <1>3, <4>1
      <4> QED BY <1>1, <1>4, <2>1, <4>1, <4>2, PromptApart
    <3>2. CASE Taken[op.c].status # "live"
      BY <1>1, <1>4, <2>1, <3>2, PromptApart DEF WriteTo
    <3> QED BY <3>1, <3>2
  <2>2. ASSUME NEW o \in CallState, Keep(o), o.stage = op.stage, o.b = op.b, o.c = op.c, o.spare = op.spare, o.parent = op.parent
        PROVE  SessionInv'
    <3>1. /\ op'.stage = op.stage /\ op'.b = op.b /\ op'.c = op.c /\ op'.spare = op.spare /\ op'.parent = op.parent
          /\ procs' = Taken /\ UNCHANGED <<child, own>>
      BY <2>2 DEF Keep, Proceed, CallState
    <3> QED BY <1>1, <1>3, <1>4, <3>1, PromptApart
  <2>3. CASE e.type = "response" /\ ReceiveResponse(e)
    <3>1. CASE Raise(Taken, {})
      <4>1. Source.session = own[op.b]
        BY <1>1, <1>4 DEF SessionInv, Reached, Changed
      <4> QED BY <1>1, <1>3, <3>1, <4>1, RaiseApart
    <3>2. CASE Raise(Taken, {op.c})
      BY <1>1, <1>4, <3>2, PromptApart
    <3>3. CASE e.ok /\ WriteTo(Taken, StateRequest, [op EXCEPT !.got = TRUE, !.cancelled = e.cancelled, !.id = e.session])
      <4> DEFINE o == [op EXCEPT !.got = TRUE, !.cancelled = e.cancelled, !.id = e.session]
      <4>1. o.stage = op.stage /\ o.b = op.b /\ o.c = op.c /\ o.spare = op.spare /\ o.parent = op.parent
        BY <1>1 DEF CallState
      <4> HIDE DEF o
      <4>2. WriteTo(Taken, StateRequest, o)
        BY <3>3 DEF o
      <4> QED BY <2>1, <4>1, <4>2
    <3>4. CASE e.ok /\ Keep([op EXCEPT !.streaming = IF e.streaming THEN "yes" ELSE "no"])
      <4> DEFINE o == [op EXCEPT !.streaming = IF e.streaming THEN "yes" ELSE "no"]
      <4>1. /\ o.stage = op.stage /\ o.b = op.b /\ o.c = op.c /\ o.spare = op.spare /\ o.parent = op.parent
            /\ o \in CallState
        BY <1>1 DEF CallState
      <4> HIDE DEF o
      <4>2. Keep(o)
        BY <3>4 DEF o
      <4> QED BY <2>2, <4>1, <4>2
    <3> QED BY <1>4, <2>3, <3>1, <3>2, <3>3, <3>4 DEF ReceiveResponse
  <2>4. CASE e.type # "response" /\ ReceiveEvent(e)
    <3> DEFINE o == Gather(e)
    <3>1. /\ o.stage = op.stage /\ o.b = op.b /\ o.c = op.c /\ o.spare = op.spare /\ o.parent = op.parent
          /\ o \in CallState
      BY <1>1, <1>2, <2>4, GatherTyped
    <3> HIDE DEF o
    <3>2. /\ Proceed(o).stage = op.stage /\ Proceed(o).b = op.b /\ Proceed(o).c = op.c
          /\ Proceed(o).spare = op.spare /\ Proceed(o).parent = op.parent
      BY <3>1 DEF Proceed, CallState
    <3>3. WriteTo(Taken, [n |-> op.n, cmd |-> "cancel"], Proceed(o)) \/ Keep(o)
      BY <1>4, <2>4 DEF ReceiveEvent, o
    <3>4. CASE WriteTo(Taken, [n |-> op.n, cmd |-> "cancel"], Proceed(o))
      BY <2>1, <3>2, <3>4
    <3>5. CASE Keep(o)
      BY <2>2, <3>1, <3>5
    <3> QED BY <3>3, <3>4, <3>5
  <2> QED BY <2>3, <2>4 DEF Receive
<1>5. CASE op.stage # "prompt"
  <2>1. Answered(op, p, truth) /\ Len(p.out) = 1 /\ ~op.got
    BY <1>1, <1>5 DEF Waiting, Unanswered, Answered, Unheard
  <2>2. e.type = "response" /\ e.r = MainRequest /\ ReceiveResponse(e)
    BY <1>2, <2>1 DEF Answered, IsResponse, Main, MainRequest, Receive
  <2>3. \A k \in DOMAIN p.out : p.out[k] = e
    BY <1>1, <1>2, <2>1
  <2>4. e.session = p.session
    BY <1>1, <1>2, <1>5 DEF SessionInv, Reached
  <2>5. /\ op.stage # "ready" => op.c = child[op.b] /\ p = Source
        /\ op.stage = "ready" => ~Changed
    BY <1>1, CallBackend DEF Source, Changed
  <2>6. CASE ~e.ok /\ Raise(Taken, {})
    <3>1. ~Changed
      BY <1>1, <2>3, <2>5, <2>6 DEF Changed
    <3> QED BY <1>1, <1>3, <2>6, <3>1, RaiseApart DEF SessionInv, Reached
  <2>7. CASE Keep([op EXCEPT !.got = TRUE, !.cancelled = e.cancelled, !.id = e.session]) /\ e.ok
    <3> DEFINE o == [op EXCEPT !.got = TRUE, !.cancelled = e.cancelled, !.id = e.session]
    <3>1. /\ o.got /\ o.stage = op.stage /\ o.b = op.b /\ o.c = op.c /\ o.spare = op.spare /\ o.parent = op.parent
          /\ o.cancelled = e.cancelled /\ o.id = e.session /\ o \in CallState
      BY <1>1, <1>2, <2>2 DEF CallState, Message
    <3> HIDE DEF o
    <3>2. Completed(o) /\ procs' = Taken /\ UNCHANGED <<child, own>> /\ op' = [o EXCEPT !.pc = "deliver"]
      BY <1>5, <2>7, <3>1 DEF Keep, Proceed, Completed, o
    <3>3. /\ op'.stage = op.stage /\ op'.b = op.b /\ op'.c = op.c /\ op'.spare = op.spare /\ op'.parent = op.parent
          /\ op'.cancelled = e.cancelled /\ op'.id = e.session /\ op'.pc = "deliver"
      BY <3>1, <3>2 DEF CallState
    <3>4. ~Changed' => ~Changed
      BY <1>1, <2>3, <2>5, <2>7, <3>3 DEF Changed
    <3> QED BY <1>1, <1>3, <2>4, <3>2, <3>3, <3>4, StaysApart
  <2>8. CASE Raise(Taken, {op.c})
    <3>1. child[op.b] \in {op.c} \/ Source.session = own[op.b]
      BY <1>1, <2>5 DEF SessionInv, Reached, Asks
    <3> QED BY <1>1, <1>3, <2>8, <3>1, RaiseApart
  <2> QED BY <1>5, <2>1, <2>2, <2>6, <2>7, <2>8 DEF ReceiveResponse
<1> QED BY <1>4, <1>5

-----------------------------------------------------------------------------
(* SessionInv when a call takes its answer. *)

\* A call that ends on the process it used, moved or not.
LEMMA DoneApart == ASSUME OwnerInv, SessionInv, op.pc = "deliver", DeliverAsk \/ DeliverQuery \/ DeliverReset PROVE SessionInv'
<1>1. /\ ~IsIdle /\ op.b \in Backend /\ op.c = child[op.b] /\ child[op.b] \in Proc
      /\ \A b \in Backend : b # op.b /\ child[b] # NoProc => procs[child[b]].session = own[b]
  BY CallNow, CallBackend DEF DeliverAsk, DeliverQuery, DeliverReset, SessionInv, Distinct
<1>2. UNCHANGED <<procs, child>> /\ op' = Idle
  BY DEF DeliverAsk, DeliverQuery, DeliverReset, Done
<1>3. CASE UNCHANGED own /\ Source.session = own[op.b]
  <2>1. \A b \in Backend : child'[b] # NoProc => procs'[child'[b]].session = own'[b]
    BY <1>1, <1>2, <1>3 DEF Source
  <2>2. \A b1, b2 \in Backend : own'[b1] = own'[b2] /\ own'[b1] # NoSid => b1 = b2
    BY <1>3 DEF SessionInv, Distinct
  <2> QED BY <1>2, <2>1, <2>2, IdleApart
<1>4. CASE own' = [own EXCEPT ![op.b] = Source.session]
  <2>1. \A b \in Backend : own'[b] = IF b = op.b THEN Source.session ELSE own[b]
    BY <1>4 DEF OwnerInv, TypeOK
  <2>2. \A b \in Backend : child'[b] # NoProc => procs'[child'[b]].session = own'[b]
    BY <1>1, <1>2, <2>1 DEF Source
  <2>3. \A b1, b2 \in Backend : own'[b1] = own'[b2] /\ own'[b1] # NoSid => b1 = b2
    BY <1>1, <2>1 DEF SessionInv, Distinct
  <2> QED BY <1>2, <2>2, <2>3, IdleApart
<1>5. CASE DeliverAsk \/ DeliverQuery
  BY <1>1, <1>3, <1>5 DEF DeliverAsk, DeliverQuery, SessionInv, Reached, Changed
<1>6. CASE DeliverReset
  <2>1. op.cancelled => Source.session = own[op.b]
    BY <1>1, <1>6 DEF DeliverReset, SessionInv, Reached, Changed
  <2>2. op.id = Source.session
    BY <1>1, <1>6 DEF DeliverReset, SessionInv, Reached, Source
  <2> QED BY <1>3, <1>4, <1>6, <2>1, <2>2 DEF DeliverReset
<1> QED BY <1>5, <1>6

LEMMA ParentApart == ASSUME OwnerInv, SessionInv, op.pc = "deliver", DeliverParent PROVE SessionInv'
<1>1. /\ ~IsIdle /\ op.stage = "parent" /\ op.b \in Backend /\ op.c = child[op.b] /\ child[op.b] \in Proc
      /\ Source.session = own[op.b] /\ op.id = own[op.b]
  BY CallNow, CallBackend DEF DeliverParent, SessionInv, Reached, Changed, Source
<1>2. NewProc \in Proc /\ procs[NewProc].status = "none"
  BY <1>1 DEF OwnerInv, Calls, NewProc, FreeProc
<1> DEFINE c == NewProc
<1>3. CASE Raise(procs, {op.c}) \/ Raise(procs, {})
  BY <1>1, <1>3, RaiseApart
<1>4. ASSUME NEW s, \A b \in Backend : b # op.b /\ own[b] # NoSid => s # own[b],
             procs' = [procs EXCEPT ![c] = Started(s)],
             op' = [Idle EXCEPT !.stage = "ready", !.b = op.b, !.c = c, !.n = op.n, !.parent = op.id, !.spare = c],
             UNCHANGED <<child, own>>
      PROVE  SessionInv'
  <2>1. op'.stage = "ready" /\ op'.pc = "write" /\ op'.b = op.b /\ op'.spare = c /\ op'.parent = op.id
    BY <1>4 DEF Idle
  <2>2. c \in Proc /\ \A d \in Proc : procs'[d].session = IF d = c THEN s ELSE procs[d].session
    BY <1>2, <1>4 DEF OwnerInv, TypeOK, Started, Gone
  <2>3. \A b \in Backend : child[b] # NoProc => child[b] \in Proc /\ child[b] # c
    BY <1>2 DEF OwnerInv, Owned, TypeOK
  <2> HIDE DEF c
  <2>4. Source'.session = own[op.b]
    BY <1>1, <1>4, <2>1, <2>2, <2>3, NullAssumption DEF Source
  <2>5. Distinct'
    <3>1. \A b \in Backend : b # op.b /\ child[b] # NoProc => procs'[child[b]].session = own[b]
      BY <2>2, <2>3 DEF SessionInv, Distinct
    <3>2. \A b \in Backend : b # op.b /\ own[b] # NoSid => Source'.session # own[b] /\ procs'[c].session # own[b]
      BY <1>1, <1>4, <2>2, <2>4 DEF SessionInv, Distinct
    <3>3. \A b1, b2 \in Backend : own[b1] = own[b2] /\ own[b1] # NoSid => b1 = b2
      BY DEF SessionInv, Distinct
    <3> QED BY <1>4, <2>1, <3>1, <3>2, <3>3 DEF Distinct
  <2>6. Reached'
    BY <1>1, <1>4, <2>1, <2>4 DEF Reached
  <2> QED BY <2>5, <2>6 DEF SessionInv
<1>5. CASE \/ procs' = [procs EXCEPT ![c] = Started(op.id)]
           \/ FreeSid # {} /\ procs' = [procs EXCEPT ![c] = Started(NewSid)]
  <2>1. \A b \in Backend : b # op.b /\ own[b] # NoSid => op.id # own[b]
    BY <1>1 DEF SessionInv, Distinct
  <2>2. FreeSid # {} => \A b \in Backend : own[b] # NewSid
    BY DEF FreeSid, NewSid
  <2>3. CASE Raise(procs, {op.c}) \/ Raise(procs, {})
    BY <1>3, <2>3
  <2>4. CASE /\ op' = [Idle EXCEPT !.stage = "ready", !.b = op.b, !.c = c, !.n = op.n, !.parent = op.id, !.spare = c]
             /\ UNCHANGED <<child, own>>
    BY <1>4, <1>5, <2>1, <2>2, <2>4
  <2> QED BY <2>3, <2>4 DEF DeliverParent
<1> QED BY <1>3, <1>5 DEF DeliverParent

\* The next command of a fork that got this far, to the source.
LEMMA ThenApart ==
  ASSUME OwnerInv, SessionInv, ~IsIdle, NEW stage \in {"clone", "child"}, op.stage \in {"ready", "clone"},
         Then(stage, child[op.b]), UNCHANGED <<procs, child, own>>,
         op.parent = own[op.b], procs[op.spare].session = op.parent,
         stage = "clone" => Source.session = own[op.b]
  PROVE  SessionInv'
<1>1. /\ op'.stage = stage /\ op'.b = op.b /\ op'.c = child[op.b] /\ op'.spare = op.spare /\ op'.parent = op.parent
      /\ op'.pc = "write"
  BY DEF Then, Idle
<1>2. Distinct'
  BY <1>1, DistinctKeeps DEF SessionInv, IsIdle
<1>3. Reached'
  BY <1>1 DEF Reached, Source, Changed
<1> QED BY <1>2, <1>3 DEF SessionInv

LEMMA ReadyCloneApart == ASSUME OwnerInv, SessionInv, op.pc = "deliver", DeliverReady \/ DeliverClone PROVE SessionInv'
<1>1. /\ ~IsIdle /\ op.b \in Backend /\ child[op.b] \in Proc /\ op.stage \in {"ready", "clone"}
      /\ op.stage = "ready" => op.c = op.spare
      /\ op.stage = "clone" => op.c = child[op.b]
      /\ op.parent = own[op.b]
  BY CallNow, CallBackend DEF DeliverReady, DeliverClone, SessionInv, Reached
<1>2. op.stage = "ready" \/ op.cancelled => Source.session = own[op.b]
  BY <1>1 DEF SessionInv, Reached, Changed
<1>3. CASE DeliverReady
  <2>1. op.stage = "ready"
    BY <1>3 DEF DeliverReady
  <2>2. CASE Raise(procs, {op.spare})
    <3>1. Raise(procs, {op.c}) /\ op.c = op.spare
      BY <1>1, <2>1, <2>2
    <3> QED BY <1>1, <1>2, <2>1, <3>1, RaiseApart
  <2>3. CASE op.id = op.parent /\ Then("clone", child[op.b]) /\ UNCHANGED <<procs, child, own>>
    <3>1. procs[op.spare].session = op.parent
      BY <1>1, <2>1, <2>3 DEF SessionInv, Reached
    <3> QED BY <1>1, <1>2, <2>1, <2>3, <3>1, ThenApart
  <2> QED BY <1>3, <2>2, <2>3 DEF DeliverReady
<1>4. CASE DeliverClone
  <2>1. op.stage = "clone"
    BY <1>4 DEF DeliverClone
  <2>2. CASE op.cancelled /\ Raise(procs, {})
    BY <1>1, <1>2, <2>2, RaiseApart
  <2>3. CASE Then("child", op.c) /\ UNCHANGED <<procs, child, own>>
    <3>1. procs[op.spare].session = op.parent
      BY <1>1, <2>1 DEF SessionInv, Reached
    <3> QED BY <1>1, <2>1, <2>3, <3>1, ThenApart
  <2> QED BY <1>4, <2>2, <2>3 DEF DeliverClone
<1> QED BY <1>3, <1>4

\* The fork succeeds: the source is on the parent, the new backend on the clone.
LEMMA ChildApart == ASSUME OwnerInv, SessionInv, op.pc = "deliver", DeliverChild PROVE SessionInv'
<1> DEFINE b == CHOOSE free \in Backend : own[free] = NoSid
<1>1. /\ ~IsIdle /\ op.stage = "child" /\ op.b \in Backend /\ own[op.b] # NoSid /\ op.c = child[op.b]
      /\ child[op.b] \in Proc /\ op.spare \in Proc /\ op.parent = own[op.b]
      /\ procs[op.spare].session = op.parent /\ op.id = Source.session
  BY CallNow, CallBackend DEF DeliverChild, SessionInv, Reached, Source
<1>2. b \in Backend /\ own[b] = NoSid /\ b # op.b
  BY <1>1 DEF OwnerInv, Calls, InFork
<1> HIDE DEF b
<1>3. CASE Raise(procs, {op.c})
  BY <1>1, <1>3, RaiseApart
<1>4. CASE /\ op.id # op.parent /\ child' = [child EXCEPT ![op.b] = op.spare, ![b] = op.c]
           /\ own' = [own EXCEPT ![b] = op.id] /\ op' = Idle /\ UNCHANGED procs
  <2>1. \A x \in Backend : /\ child'[x] = IF x = b THEN op.c ELSE IF x = op.b THEN op.spare ELSE child[x]
                           /\ own'[x] = IF x = b THEN op.id ELSE own[x]
    BY <1>1, <1>2, <1>4 DEF OwnerInv, TypeOK
  <2>2. \A x \in Backend : child'[x] # NoProc => procs'[child'[x]].session = own'[x]
    <3>1. \A x \in Backend : x # op.b /\ child[x] # NoProc => procs[child[x]].session = own[x]
      BY DEF SessionInv, Distinct
    <3>2. procs[op.c].session = op.id /\ procs[op.spare].session = own[op.b]
      BY <1>1 DEF Source
    <3> SUFFICES ASSUME NEW x \in Backend, child'[x] # NoProc PROVE procs[child'[x]].session = own'[x]
      BY <1>4
    <3>3. CASE x = b
      BY <2>1, <3>2, <3>3
    <3>4. CASE x = op.b
      BY <1>2, <2>1, <3>2, <3>4
    <3>5. CASE x # b /\ x # op.b
      BY <2>1, <3>1, <3>5
    <3> QED BY <3>3, <3>4, <3>5
  <2>3. \A x \in Backend : own[x] # NoSid => op.id # own[x]
    BY <1>1, <1>4 DEF SessionInv, Distinct
  <2>4. \A b1, b2 \in Backend : own'[b1] = own'[b2] /\ own'[b1] # NoSid => b1 = b2
    BY <2>1, <2>3 DEF SessionInv, Distinct
  <2> QED BY <1>4, <2>2, <2>4, IdleApart
<1> QED BY <1>3, <1>4 DEF DeliverChild, Done, b

LEMMA DeliverApart == ASSUME OwnerInv, SessionInv, Deliver PROVE SessionInv'
BY DoneApart, ParentApart, ReadyCloneApart, ChildApart DEF Deliver

-----------------------------------------------------------------------------
(* SessionInv through the steps of Pi. *)

\* Until its reply a command of a call is the only thing in the pipes.
LEMMA BeforeReply ==
  ASSUME OwnerInv, TrafficInv, NEW c \in Proc, procs[c].inbox # <<>>
  PROVE  /\ op.stage # "prompt" => procs[c].out = <<>> /\ procs[c].inbox = <<MainRequest>>
         /\ op.stage = "prompt" => Head(procs[c].inbox).cmd \in {"prompt", "state", "cancel"}
<1> DEFINE p == procs[c]
<1>1. op \in CallState /\ Waiting(op, p, truth)
  BY OnlyCalled
<1>2. CASE op.stage # "prompt"
  <2>1. Unanswered(op, p)
    BY <1>1, <1>2 DEF Waiting, Answered
  <2> QED BY <1>2, <2>1 DEF Unanswered, Main, MainRequest
<1>3. CASE op.stage = "prompt"
  <2>1. p.inbox \in {<<Main(op)>>, <<State(op)>>, <<Cancel(op)>>, <<State(op), Cancel(op)>>}
    BY <1>1 DEF Waiting, Unanswered, Answered, Stated
  <2>2. Head(p.inbox) \in {Main(op), State(op), Cancel(op)}
    BY <2>1
  <2> QED BY <1>3, <2>2 DEF Main, State, Cancel
<1> QED BY <1>2, <1>3

LEMMA ReplyApart == ASSUME OwnerInv, TrafficInv, SessionInv, NEW c \in Proc, PiReply(c) PROVE SessionInv'
<1> DEFINE p == procs[c]
           r == Head(p.inbox)
<1>1. /\ c = op.c /\ ~IsIdle /\ op.pc = "wait" /\ op \in CallState /\ p \in Process /\ p.inbox # <<>>
      /\ UNCHANGED <<child, own, op>>
  BY OnlyCalled DEF PiReply, OwnerInv, TypeOK
<1>2. CASE r.cmd = "cancel" /\ \A d \in Proc : procs'[d].session = procs[d].session
  <2>1. op.stage = "prompt"
    BY <1>1, <1>2, BeforeReply DEF MainRequest, CallState, Asks
  <2> QED BY <1>1, <1>2, <2>1, StaysApart DEF Changed
<1>3. ASSUME NEW x \in Process, NEW e, procs' = [procs EXCEPT ![c] = [x EXCEPT !.out = Append(@, e)]],
             x.out = p.out, e.session = x.session,
             \/ x.session = p.session
             \/ /\ r.cmd \in {"new_session", "clone"} /\ e.ok /\ ~e.cancelled
                /\ FreeSid # {} /\ x.session = NewSid
      PROVE  SessionInv'
  <2>1. \A d \in Proc : /\ d # c => procs'[d] = procs[d]
                        /\ d = c => procs'[d].session = x.session /\ procs'[d].out = Append(p.out, e)
    BY <1>3 DEF OwnerInv, TypeOK, Process
  <2>2. CASE op.stage = "prompt"
    <3>1. x.session = p.session
      BY <1>1, <1>3, <2>2, BeforeReply
    <3>2. \A d \in Proc : procs'[d].session = procs[d].session
      BY <2>1, <3>1
    <3> QED BY <1>1, <2>2, <3>2, StaysApart DEF Changed
  <2>3. CASE op.stage # "prompt"
    <3>1. p.out = <<>> /\ r = MainRequest
      BY <1>1, <2>3, BeforeReply
    <3>2. procs'[c].out = <<e>> /\ DOMAIN procs'[c].out = {1} /\ procs'[c].out[1] = e
      BY <2>1, <3>1
    <3>3. ~Changed
      BY <1>1, <3>1, CallBackend DEF Changed, Source
    <3>4. CASE x.session = p.session
      <4>1. \A d \in Proc : procs'[d].session = procs[d].session
        BY <2>1, <3>4
      <4>2. \A k \in DOMAIN procs'[op.c].out : procs'[op.c].out[k].session = procs[op.c].session
        BY <1>1, <1>3, <3>2, <3>4
      <4> QED BY <1>1, <3>3, <4>1, <4>2, StaysApart
    <3>5. CASE r.cmd \in {"new_session", "clone"} /\ e.ok /\ ~e.cancelled /\ FreeSid # {} /\ x.session = NewSid
      <4>1. op.stage \in {"new_session", "clone"} /\ c = child[op.b]
        BY <1>1, <3>1, <3>5, CallBackend DEF MainRequest
      <4>2. \A b \in Backend : own[b] # NewSid
        BY <3>5 DEF FreeSid, NewSid
      <4>3. /\ \A b \in Backend : b # op.b /\ child[b] # NoProc => child[b] \in Proc /\ child[b] # c
            /\ op.spare # NoProc => op.spare \in Proc /\ op.spare # c
        BY <1>1, <4>1, CallBackend
      <4>4. Source'.session = NewSid /\ Source' = procs'[c]
        BY <1>1, <2>1, <3>5, <4>1 DEF Source
      <4>5. Distinct'
        BY <1>1, <2>1, <4>2, <4>3, <4>4 DEF SessionInv, Distinct, IsIdle
      <4>6. Changed'
        BY <1>1, <3>2, <3>5, <4>1, <4>4 DEF Changed
      <4>7. Reached'
        <5>1. op.stage = "clone" => op.parent = own[op.b] /\ procs'[op.spare].session = op.parent
          BY <1>1, <2>1, <4>3, CallBackend DEF SessionInv, Reached
        <5>2. procs'[op.c].session = x.session /\ \A k \in DOMAIN procs'[op.c].out : procs'[op.c].out[k].session = x.session
          BY <1>1, <1>3, <2>1, <3>2
        <5>3. UNCHANGED <<child, own, op>> /\ op.pc = "wait"
          BY <1>1
        <5> QED BY <4>1, <4>6, <5>1, <5>2, <5>3 DEF Reached
      <4> QED BY <4>5, <4>7 DEF SessionInv
    <3> QED BY <1>3, <3>4, <3>5
  <2> QED BY <2>2, <2>3
<1> DEFINE read == [p EXCEPT !.inbox = Tail(@)]
           begun == [read EXCEPT !.run = [Quiet EXCEPT !.on = TRUE, !.n = r.n]]
           other == [read EXCEPT !.session = NewSid]
<1>4. /\ read \in Process /\ read.out = p.out /\ read.session = p.session
      /\ begun \in Process /\ begun.out = p.out /\ begun.session = p.session
      /\ FreeSid # {} => other \in Process /\ other.out = p.out /\ other.session = NewSid
  <2>1. Tail(p.inbox) \in Seq(Request) /\ r \in Request
    BY <1>1, Read DEF Process
  <2>2. read \in Process /\ read.out = p.out /\ read.session = p.session
    BY <1>1, <2>1 DEF Process
  <2>3. [Quiet EXCEPT !.on = TRUE, !.n = r.n] \in RunState
    BY <2>1, QuietTyped DEF RunState, Request
  <2>4. begun \in Process /\ begun.out = p.out /\ begun.session = p.session
    BY <2>2, <2>3 DEF Process
  <2>5. FreeSid # {} => NewSid \in Sid
    BY DEF NewSid, FreeSid
  <2> QED BY <2>2, <2>4, <2>5 DEF Process
<1>5. \A ok, cancelled, x : /\ Response(r, ok, cancelled, x).session = x.session
                            /\ Response(r, ok, cancelled, x).ok = ok
                            /\ Response(r, ok, cancelled, x).cancelled = cancelled
  BY DEF Response
<1> HIDE DEF begun, other
<1>6. \/ /\ r.cmd = "cancel" /\ procs' = [procs EXCEPT ![c] = [read EXCEPT !.run.dialog = "closed"]]
      \/ \E ok, cancelled : procs' = [procs EXCEPT ![c] = [read EXCEPT !.out = Append(@, Response(r, ok, cancelled, read))]]
      \/ procs' = [procs EXCEPT ![c] = [begun EXCEPT !.out = Append(@, Response(r, TRUE, FALSE, begun))]]
      \/ /\ r.cmd \in {"new_session", "clone"} /\ FreeSid # {}
         /\ procs' = [procs EXCEPT ![c] = [other EXCEPT !.out = Append(@, Response(r, TRUE, FALSE, other))]]
  BY DEF PiReply, Emit, begun, other
<1>7. CASE r.cmd = "cancel" /\ procs' = [procs EXCEPT ![c] = [read EXCEPT !.run.dialog = "closed"]]
  BY <1>1, <1>2, <1>4, <1>7 DEF OwnerInv, TypeOK, Process
<1> HIDE DEF read, r
<1>8. ASSUME NEW ok, NEW cancelled,
             procs' = [procs EXCEPT ![c] = [read EXCEPT !.out = Append(@, Response(r, ok, cancelled, read))]]
      PROVE  SessionInv'
  <2> DEFINE e == Response(r, ok, cancelled, read)
  <2>1. procs' = [procs EXCEPT ![c] = [read EXCEPT !.out = Append(@, e)]] /\ e.session = read.session
    BY <1>5, <1>8
  <2> HIDE DEF e
  <2> QED BY <1>3, <1>4, <2>1
<1>9. CASE procs' = [procs EXCEPT ![c] = [begun EXCEPT !.out = Append(@, Response(r, TRUE, FALSE, begun))]]
  <2> DEFINE e == Response(r, TRUE, FALSE, begun)
  <2>1. procs' = [procs EXCEPT ![c] = [begun EXCEPT !.out = Append(@, e)]]
    BY <1>9
  <2>2. e.session = begun.session
    BY DEF Response
  <2> HIDE DEF e
  <2> QED BY <1>3, <1>4, <2>1, <2>2
<1>10. CASE /\ r.cmd \in {"new_session", "clone"} /\ FreeSid # {}
            /\ procs' = [procs EXCEPT ![c] = [other EXCEPT !.out = Append(@, Response(r, TRUE, FALSE, other))]]
  <2> DEFINE e == Response(r, TRUE, FALSE, other)
  <2>1. procs' = [procs EXCEPT ![c] = [other EXCEPT !.out = Append(@, e)]]
    BY <1>10
  <2>2. e.session = other.session /\ e.ok /\ ~e.cancelled
    BY DEF Response
  <2> HIDE DEF e
  <2> QED BY <1>3, <1>4, <1>10, <2>1, <2>2
<1> QED BY <1>6, <1>7, <1>8, <1>9, <1>10

LEMMA RunApart == ASSUME OwnerInv, TrafficInv, SessionInv, NEW c \in Proc, PiRun(c) PROVE SessionInv'
<1>1. /\ c = op.c /\ ~IsIdle /\ UNCHANGED <<child, own, op>>
      /\ procs[c].run.on /\ Waiting(op, procs[c], truth) /\ procs[c] \in Process
  BY OnlyCalled DEF PiRun, OwnerInv, TypeOK
<1>2. op.stage = "prompt"
  BY <1>1 DEF Waiting, Unanswered, Answered
<1>3. PICK new, e : procs' = [procs EXCEPT ![c] = [[procs[c] EXCEPT !.run = new] EXCEPT !.out = Append(@, e)]]
  BY DEF PiRun, Emit
<1>4. \A d \in Proc : procs'[d].session = procs[d].session
  BY <1>1, <1>3 DEF OwnerInv, TypeOK, Process
<1> QED BY <1>1, <1>2, <1>4, StaysApart DEF Changed

LEMMA ExitApart == ASSUME OwnerInv, SessionInv, NEW c \in Proc, PiExits(c) PROVE SessionInv'
<1>1. /\ UNCHANGED <<child, own, op>>
      /\ \A d \in Proc : procs'[d].session = procs[d].session /\ procs'[d].out = procs[d].out
  BY DEF PiExits, OwnerInv, TypeOK, Process
<1>2. CASE IsIdle
  <2>1. op' = Idle /\ \A b \in Backend : child[b] # NoProc => child[b] \in Proc /\ procs[child[b]].session = own[b]
    BY <1>1, <1>2, NullAssumption DEF OwnerInv, TypeOK, Calls, SessionInv, Distinct, Idle
  <2> QED BY <1>1, <2>1, IdleApart DEF SessionInv, Distinct
<1>3. CASE ~IsIdle
  <2>1. op.c \in Proc /\ child[op.b] \in Proc
    BY <1>3, CallBackend
  <2>2. Changed' <=> Changed
    BY <1>1, <2>1 DEF Changed, Source
  <2> QED BY <1>1, <1>3, <2>1, <2>2, StaysApart DEF SessionInv, Reached
<1> QED BY <1>2, <1>3

-----------------------------------------------------------------------------
(* SessionInv is inductive; the theorems about it. *)

LEMMA SessionNext == OwnerInv /\ TrafficInv /\ SessionInv /\ [Next]_vars => SessionInv'
<1> SUFFICES ASSUME OwnerInv, TrafficInv, SessionInv, [Next]_vars PROVE SessionInv'
  OBVIOUS
<1>1. CASE \E b \in Backend : \/ Open(b) \/ Close(b)
                              \/ \E stage \in {"prompt", "new_session", "query", "parent"} : Begin(b, stage)
  <2>1. ASSUME NEW b \in Backend, Close(b) PROVE SessionInv'
    BY <2>1, CloseApart DEF Close
  <2> QED BY <1>1, <2>1, OpenApart, BeginApart
<1>2. CASE Write \/ Receive \/ Deliver
  BY <1>2, WriteApart, ReceiveApart, DeliverApart
<1>3. CASE Eof \/ Timeout \/ Interrupt
  BY <1>3, FailureApart
<1>4. CASE \E c \in Proc : Pi(c) \/ PiExits(c)
  BY <1>4, ReplyApart, RunApart, ExitApart DEF Pi
<1>5. CASE UNCHANGED vars
  BY <1>5 DEF vars, SessionInv, Distinct, Reached, Changed, Source, IsIdle
<1> QED BY <1>1, <1>2, <1>3, <1>4, <1>5 DEF Next, Call

LEMMA SessionInit == Init => SessionInv
BY NullAssumption DEF Init, SessionInv, Distinct, Reached, Idle, IsIdle

\* Between calls each backend whose process runs is on the session it was given,
\* whatever step of a reset or of a fork failed, timed out or was interrupted.
THEOREM SessionsOwn == Spec => []OwnSession
<1>1. OwnerInv /\ SessionInv => OwnSession
  BY NullAssumption DEF OwnerInv, Calls, SessionInv, Distinct, OwnSession, Idle
<1>2. OwnerInv /\ [Next]_vars => OwnerInv'
  BY OwnerNext
<1>3. OwnerInv /\ TrafficInv /\ [Next]_vars => TrafficInv'
  BY TrafficNext
<1> QED BY <1>1, <1>2, <1>3, OwnerInit, TrafficInit, SessionNext, SessionInit, PTL DEF Spec

\* No two backends are ever on one session, at any moment of a reset or of a fork.
THEOREM SessionsNeverShared == Spec => []SessionsApart
<1>1. OwnerInv /\ SessionInv => SessionsApart
  <2> SUFFICES ASSUME OwnerInv, SessionInv, NEW b1 \in Backend, NEW b2 \in Backend,
                      b1 # b2, child[b1] # NoProc, child[b2] # NoProc
               PROVE  procs[child[b1]].session # procs[child[b2]].session
    BY DEF SessionsApart
  <2>1. own[b1] # NoSid /\ own[b2] # NoSid
    BY DEF OwnerInv, Owned
  <2>2. own[b1] # own[b2]
    BY <2>1 DEF SessionInv, Distinct
  <2>3. CASE b1 # op.b /\ b2 # op.b
    BY <2>2, <2>3 DEF SessionInv, Distinct
  <2>4. ASSUME NEW b \in Backend, b # op.b, child[b] # NoProc, own[b] # NoSid, op.b \in Backend
        PROVE  procs[child[b]].session # procs[child[op.b]].session
    <3>1. ~IsIdle
      BY <2>4, NullAssumption DEF OwnerInv, Calls, Idle
    <3> QED BY <2>4, <3>1 DEF SessionInv, Distinct, Source
  <2> QED BY <2>1, <2>3, <2>4
<1>2. OwnerInv /\ [Next]_vars => OwnerInv'
  BY OwnerNext
<1>3. OwnerInv /\ TrafficInv /\ [Next]_vars => TrafficInv'
  BY TrafficNext
<1> QED BY <1>1, <1>2, <1>3, OwnerInit, TrafficInit, SessionNext, SessionInit, PTL DEF Spec
=============================================================================
