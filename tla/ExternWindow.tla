---------------------------- MODULE ExternWindow ----------------------------
(* Calls of Python functions by AgL (runtime/externs.py, eval/ir_interpreter.py,
   util/recursion.py): an extern call opens its interpreter's window, Python calls
   back into AgL, starts threads, runs further interpreters and keeps state, which
   is closed where its interpreter's run ends.

   A thread is a stack of frames.  Python code in an extern, in the factory or the
   closer of a state value, or of the host below every frame, does what it likes:
   it holds a callback of every interpreter. *)
EXTENDS Naturals, Sequences, SequencesExt

CONSTANTS Interp,       \* interpreters: one per program or REPL entry
          Lent,         \* those that a host gave its own state, as the REPL does
          Host,         \* the name of that state
          Target,       \* the recursion limit each run needs
          BaseLimit,    \* the limit the process starts with
          Thread,
          Nowhere,      \* no thread, no call
          Key,          \* the names of state values
          MaxDepth,     \* bound: frames of one thread
          MaxValues,    \* bound: state values of one interpreter or host
          LooseState    \* whether threads, and factories that come back, use state

ASSUME InterpAssumption == /\ Lent \subseteq Interp /\ Host \notin Interp
                           /\ Target \in [Interp -> Nat] /\ BaseLimit \in Nat
                           /\ Nowhere \notin Thread \cup Interp
ASSUME ExternBoundAssumption == MaxDepth \in Nat /\ MaxValues \in Nat /\ LooseState \in BOOLEAN

VARIABLES stack,      \* the frames of each thread, innermost last
          active,     \* the interpreter whose call is active in each thread's context
          window,     \* each interpreter's depth and owning thread
          limit,      \* the process's recursion limit, its holders, what to restore
          bag,        \* ExternRuntimeState._entries, in the order of creation
          made,       \* how many values each state got
          closed,     \* the values closed, in order
          begun,      \* interpreters that ran
          over        \* whether the host closed its state

state == <<bag, made, closed>>
externVars == <<stack, active, window, limit, state, begun, over>>

Bag == Interp \cup {Host}
StateOf(i) == IF i \in Lent THEN Host ELSE i

\* of: an interpreter, or the state of a factory or closer; saved: the active call
\* to return to; todo: values to close.
Frame == [kind : {"run", "extern", "body", "factory", "closing"}, of : Bag,
          saved : Interp \cup {Nowhere}, key : Key \cup {Nowhere}, todo : Seq(Nat)]

NewFrame(kind, of) == [kind |-> kind, of |-> of, saved |-> Nowhere, key |-> Nowhere, todo |-> <<>>]

ExternInit == /\ stack = [t \in Thread |-> <<>>] /\ active = [t \in Thread |-> Nowhere]
              /\ window = [i \in Interp |-> [depth |-> 0, thread |-> Nowhere]]
              /\ limit = [now |-> BaseLimit, holders |-> 0, original |-> 0]
              /\ bag = [b \in Bag |-> <<>>] /\ made = [b \in Bag |-> 0] /\ closed = [b \in Bag |-> <<>>]
              /\ begun = {} /\ over = FALSE

\* Below every frame is the Python code that started the thread.
Inner(t) == IF stack[t] = <<>> THEN NewFrame("python", Host) ELSE Last(stack[t])
InPython(t) == Inner(t).kind \in {"python", "extern", "factory", "closing"}
InAgl(t)    == Inner(t).kind \in {"run", "body"}

Push(t, f) == Len(stack[t]) < MaxDepth /\ stack' = [stack EXCEPT ![t] = Append(@, f)]
Pop(t)     == stack' = [stack EXCEPT ![t] = Front(@)]
Innermost(t, f) == stack' = [stack EXCEPT ![t] = Append(Front(@), f)]

OnStack(f) == \E t \in Thread : \E n \in DOMAIN stack[t] : stack[t][n].kind = f.kind /\ stack[t][n].of = f.of
Running(i) == OnStack(NewFrame("run", i)) \/ (i \notin Lent /\ OnStack(NewFrame("closing", i)))

-----------------------------------------------------------------------------
(* raised_recursion_limit. *)

Higher(m, n) == IF m > n THEN m ELSE n

Raised(target) == [now |-> Higher(limit.now, target), holders |-> limit.holders + 1,
                   original |-> IF limit.holders = 0 THEN limit.now ELSE limit.original]

\* Mutant of Lowered: every holder restores.
LoweredAlways == [limit EXCEPT !.holders = @ - 1, !.now = limit.original]

Lowered == [limit EXCEPT !.holders = @ - 1, !.now = IF limit.holders = 1 THEN limit.original ELSE @]

-----------------------------------------------------------------------------
(* A run, and the closing of its state on every way out of it. *)

RunProgram == \E t \in Thread, i \in Interp \ begun :
    /\ InPython(t) /\ (i \in Lent => ~over /\ ~\E j \in Lent : Running(j))
    /\ Push(t, NewFrame("run", i))
    /\ begun' = begun \cup {i} /\ limit' = Raised(Target[i])
    /\ UNCHANGED <<active, window, state, over>>

InBag(b) == [n \in DOMAIN bag[b] |-> bag[b][n][2]]
Closing(b) == [NewFrame("closing", b) EXCEPT !.todo = Reverse(InBag(b))]
Cleared(b) == bag' = [bag EXCEPT ![b] = <<>>] /\ UNCHANGED <<made, closed>>

EndRun == \E t \in Thread :
    /\ Inner(t).kind = "run"
    /\ LET i == Inner(t).of IN
       IF i \in Lent THEN Pop(t) /\ limit' = Lowered /\ UNCHANGED state
       ELSE Innermost(t, Closing(i)) /\ Cleared(i) /\ UNCHANGED limit
    /\ UNCHANGED <<active, window, begun, over>>

\* ReplSession.close.
HostCloses == \E t \in Thread :
    /\ InPython(t) /\ ~over /\ over' = TRUE /\ ~\E i \in Lent : Running(i)
    /\ Push(t, Closing(Host)) /\ Cleared(Host)
    /\ UNCHANGED <<active, window, limit, begun>>

\* One closer after another, whatever each raises.
CloseValue == \E t \in Thread :
    /\ Inner(t).kind = "closing" /\ Inner(t).todo # <<>>
    /\ LET f == Inner(t) IN
       /\ closed' = [closed EXCEPT ![f.of] = Append(@, Head(f.todo))]
       /\ Innermost(t, [f EXCEPT !.todo = Tail(@)])
    /\ UNCHANGED <<active, window, limit, bag, made, begun, over>>

AllClosed == \E t \in Thread :
    /\ Inner(t).kind = "closing" /\ Inner(t).todo = <<>>
    /\ Pop(t)
    /\ limit' = IF Inner(t).of = Host THEN limit ELSE Lowered
    /\ UNCHANGED <<active, window, state, begun, over>>

-----------------------------------------------------------------------------
(* Extern calls and callbacks. *)

\* Mutant of Owns: any thread, while some call is active.
OwnsOpen(t, i) == window[i].depth # 0

\* require_active.
Owns(t, i) == window[i].depth # 0 /\ window[i].thread = t

Opens(t, i) ==
    /\ window[i].thread \in {t, Nowhere}
    /\ window' = [window EXCEPT ![i] = [depth |-> window[i].depth + 1, thread |-> t]]
    /\ Push(t, [NewFrame("extern", i) EXCEPT !.saved = active[t]])
    /\ active' = [active EXCEPT ![t] = i]
    /\ UNCHANGED <<limit, state, begun, over>>

CallExtern == \E t \in Thread : InAgl(t) /\ Opens(t, Inner(t).of)

\* Mutant of Previous: the context keeps the call that ended.
StaysActive(t, f) == f.of

\* ScopedVar.__exit__.
Previous(t, f) == f.saved

ReturnExtern == \E t \in Thread :
    /\ Inner(t).kind = "extern" /\ Pop(t)
    /\ LET f == Inner(t) IN
       /\ active' = [active EXCEPT ![t] = Previous(t, f)]
       /\ window' = [window EXCEPT ![f.of] = [depth |-> window[f.of].depth - 1, thread |-> IF window[f.of].depth = 1 THEN Nowhere ELSE t]]
    /\ UNCHANGED <<limit, state, begun, over>>

\* A callback of any interpreter, which Python kept from an earlier call: a closure,
\* or a function that is itself an extern.
Callback == \E t \in Thread, i \in Interp :
    /\ InPython(t) /\ Owns(t, i)
    /\ \/ Push(t, NewFrame("body", i)) /\ UNCHANGED <<active, window, limit, state, begun, over>>
       \/ Opens(t, i)

ReturnCallback == \E t \in Thread :
    /\ Inner(t).kind = "body" /\ Pop(t)
    /\ UNCHANGED <<active, window, limit, state, begun, over>>

\* A thread starts in an empty context or in a copy of its parent's.
Spawn == \E t, u \in Thread :
    /\ t # u /\ InPython(t) /\ stack[u] = <<>>
    /\ \E c \in {Nowhere, active[t]} : active' = [active EXCEPT ![u] = c]
    /\ UNCHANGED <<stack, window, limit, state, begun, over>>

-----------------------------------------------------------------------------
(* get_or_create. *)

Making(b, k) == \E t \in Thread : \E n \in DOMAIN stack[t] :
    stack[t][n].kind = "factory" /\ stack[t][n].of = b /\ stack[t][n].key = k

\* Whether the thread runs an extern call, and not in a copy of another's context.
InCall(t) == \E n \in DOMAIN stack[t] : stack[t][n].kind = "extern"

UseState == \E t \in Thread, k \in Key :
    /\ InPython(t) /\ active[t] # Nowhere
    /\ LET b == StateOf(active[t]) IN
       /\ LooseState \/ (InCall(t) /\ ~Making(b, k))
       /\ made[b] < MaxValues /\ \A n \in DOMAIN bag[b] : bag[b][n][1] # k
       /\ Push(t, [NewFrame("factory", b) EXCEPT !.key = k])
    /\ UNCHANGED <<active, window, limit, state, begun, over>>

\* The value is stored under its key, over one that came in between.
Stored(entries, k, v) ==
    IF \E n \in DOMAIN entries : entries[n][1] = k
    THEN [n \in DOMAIN entries |-> IF entries[n][1] = k THEN <<k, v>> ELSE entries[n]]
    ELSE Append(entries, <<k, v>>)

Create == \E t \in Thread :
    /\ Inner(t).kind = "factory" /\ Pop(t)
    /\ LET b == Inner(t).of IN
       \/ /\ made' = [made EXCEPT ![b] = @ + 1]
          /\ bag' = [bag EXCEPT ![b] = Stored(@, Inner(t).key, made[b] + 1)]
       \/ UNCHANGED <<bag, made>>     \* the factory raises
    /\ UNCHANGED <<active, window, limit, closed, begun, over>>

-----------------------------------------------------------------------------
ExternNext == \/ RunProgram \/ EndRun \/ HostCloses \/ CloseValue \/ AllClosed
              \/ CallExtern \/ ReturnExtern \/ Callback \/ ReturnCallback \/ Spawn
              \/ UseState \/ Create

ExternSpec == ExternInit /\ [][ExternNext]_externVars

-----------------------------------------------------------------------------
ExternTypeOK ==
    /\ stack \in [Thread -> Seq(Frame)] /\ active \in [Thread -> Interp \cup {Nowhere}]
    /\ window \in [Interp -> [depth : Nat, thread : Thread \cup {Nowhere}]]
    /\ limit \in [now : Nat, holders : Nat, original : Nat]
    /\ bag \in [Bag -> Seq(Key \X Nat)] /\ made \in [Bag -> Nat] /\ closed \in [Bag -> Seq(Nat)]
    /\ begun \subseteq Interp /\ over \in BOOLEAN

\* AgL code of an interpreter runs on one thread at a time, and a callback only
\* above an open extern call of the interpreter it belongs to.
Frames(i) == {f \in UNION {{t} \X DOMAIN stack[t] : t \in Thread} : stack[f[1]][f[2]].of = i
                                                    /\ stack[f[1]][f[2]].kind \in {"run", "extern", "body"}}
CallbackInWindow == \A i \in Interp :
    /\ \A f, g \in Frames(i) : f[1] = g[1]
    /\ \A f \in Frames(i) : stack[f[1]][f[2]].kind = "body" =>
           \E g \in Frames(i) : g[2] < f[2] /\ stack[g[1]][g[2]].kind = "extern"

\* While runs overlap, on one thread or several, the recursion limit is what each of
\* them asked for; when the last ends it is what it was before the first.
LimitKept == /\ \A i \in Interp : Running(i) => limit.now >= Target[i]
             /\ limit.holders = 0 => limit.now = BaseLimit

\* When an interpreter's run, or the host's session, is over, each value made in its
\* state was closed, once, and before the values made earlier, which it may use.  So
\* it is with LooseState FALSE, without threads in copied contexts and factories that
\* come back for their own key.
Finished(b) == IF b = Host THEN over /\ ~OnStack(NewFrame("closing", Host)) ELSE b \in begun \ Lent /\ ~Running(b)
StateClosed == \A b \in Bag : Finished(b) => closed[b] = [n \in 1..made[b] |-> made[b] + 1 - n]
=============================================================================
