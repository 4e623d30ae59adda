------------------------------ MODULE Closures ------------------------------
(* How AgL code finds its variables (lower/lowerer.py, eval/ir_interpreter.py): a
   lambda captures, when it is made, what its body refers to of the functions around
   it; a call pushes a frame of what was captured and of the arguments; a reference
   is looked for in the frames from the last one down.  What the language means, a
   body sees the variables that were in scope where it was made, is kept beside.

   A slot is the number of the binding that made it: the value of a let, the cell of
   a var. *)
EXTENDS Naturals, Sequences, FiniteSets, Functions

CONSTANTS Fn, Main,      \* functions and lambdas, and the body of the module
          Outer,        \* what each one is written in
          Params, Lets,  \* the variables each one declares
          Mutable,       \* those that are var
          Static,        \* the public ones of the module, which are in no closure
          Refers,        \* the variables each body reads or assigns
          MaxCalls,      \* bound: frames above the module's
          MaxClosures,   \* bound: closures of lambdas
          MaxBindings    \* bound: bindings

Own(f) == Params[f] \union Lets[f]

\* What is written in a function, at any depth.
Written(T) == \A g \in Fn \ {Main} : Outer[g] \in T => g \in T
Inside(f)  == {g \in Fn : \A T \in SUBSET Fn : f \in T /\ Written(T) => g \in T}

\* Variables are distinct, as the code makes their symbols; nothing is written in
\* itself; scope checking has found each reference in a function around it.
ASSUME FnAssumption ==
    /\ Main \in Fn /\ Outer \in [Fn \ {Main} -> Fn]
    /\ Params[Main] = {} /\ Static \subseteq Lets[Main]
    /\ \A f, g \in Fn : f # g => Own(f) \intersect Own(g) = {}
    /\ \A f \in Fn : /\ IsFiniteSet(Params[f])
                     /\ (Lets[f] \union Mutable) \intersect Params[f] = {}
    /\ \A f \in Fn \ {Main} : Outer[f] \notin Inside(f)
    /\ \A f \in Fn : \A v \in Refers[f] : \E g \in Fn : f \in Inside(g) /\ v \in Own(g)
ASSUME BoundAssumption == {MaxCalls, MaxClosures, MaxBindings} \subseteq Nat

VARIABLES frames,    \* _frames
          closures,  \* the closures there are, which any code may have been given
          bindings   \* bindings made

closureVars == <<frames, closures, bindings>>

-----------------------------------------------------------------------------
\* _compute_captures_for: what a body refers to outside itself, but the module's
\* own variables, which are looked for in the first frame.  The scan stops at the
\* lambdas inside.
Captures(f) == (Refers[f] \ Own(f)) \ Static

\* A def captures nothing, and is there before any code runs.
Def(f)  == f # Main /\ Outer[f] = Main /\ Captures(f) = {}
Lambdas == {f \in Fn \ {Main} : ~Def(f)}

ClosuresInit == /\ frames = <<[fn |-> Main, slots |-> <<>>, env |-> <<>>]>>
                /\ closures = {[fn |-> f, slots |-> <<>>, env |-> <<>>] :
                                    f \in {g \in Fn \ {Main} : Def(g)}}
                /\ bindings = 0

Top == frames[Len(frames)]

\* Bindings put over others.
Over(new, old) == [v \in DOMAIN new \union DOMAIN old |->
                      IF v \in DOMAIN new THEN new[v] ELSE old[v]]

\* IrBind, of a let or a var of the body that runs, again in each round of a loop.
IrBind ==
        /\ bindings < MaxBindings
        /\ \E v \in Lets[Top.fn] :
              LET new == [x \in {v} |-> bindings + 1]
              IN  frames' = [frames EXCEPT ![Len(frames)] =
                                [fn |-> Top.fn, slots |-> Over(new, Top.slots),
                                 env |-> Over(new, Top.env)]]
        /\ bindings' = bindings + 1
        /\ UNCHANGED closures

\* The variables of the functions around it that a body, or a lambda in it, refers
\* to: they are bound by the time it is made.
Needed(f) == (UNION {Captures(g) : g \in Inside(f)}) \ (UNION {Own(g) : g \in Inside(f)})

Makes(f) == f \in Lambdas /\ Outer[f] = Top.fn /\ Needed(f) \subseteq DOMAIN Top.env

\* A var is captured with its cell; the value a cell had is no binding.
NeverByCell(v) == FALSE
ByCell(v)      == v \in Mutable
Taken(v)       == IF v \in Mutable /\ ~ByCell(v) THEN 0 ELSE Top.slots[v]

\* IrMakeClosure: what is captured is taken from the frame of the code around it.
IrMakeClosure ==
    /\ Cardinality(closures) < Cardinality({f \in Fn \ {Main} : Def(f)}) + MaxClosures
    /\ \E f \in Lambdas :
          /\ Makes(f) /\ Captures(f) \subseteq DOMAIN Top.slots
          /\ closures' = closures \union {[fn |-> f, env |-> Top.env,
                                           slots |-> [v \in Captures(f) |-> Taken(v)]]}
    /\ UNCHANGED <<frames, bindings>>

\* _bind_and_invoke: each parameter gets a binding of its own.
Call == /\ Len(frames) <= MaxCalls
        /\ \E c \in closures :
              LET n == Cardinality(Params[c.fn])
              IN  /\ bindings + n <= MaxBindings
                  /\ \E args \in Bijection(Params[c.fn], (bindings + 1)..(bindings + n)) :
                        frames' = Append(frames, [fn |-> c.fn, slots |-> Over(args, c.slots),
                                                  env |-> Over(args, c.env)])
                  /\ bindings' = bindings + n
        /\ UNCHANGED closures

\* The end of a body, a return or an exception on its way.
Leave == /\ Len(frames) > 1
         /\ frames' = SubSeq(frames, 1, Len(frames) - 1)
         /\ UNCHANGED <<closures, bindings>>

ClosuresNext == IrBind \/ IrMakeClosure \/ Call \/ Leave

ClosuresSpec == ClosuresInit /\ [][ClosuresNext]_closureVars

-----------------------------------------------------------------------------
\* IrLoad: the last frame that has the variable.
HasIt(v)  == {i \in DOMAIN frames : v \in DOMAIN frames[i].slots}
IrLoad(v)  == IF HasIt(v) = {} THEN 0
              ELSE frames[CHOOSE i \in HasIt(v) : \A j \in HasIt(v) : j <= i].slots[v]

\* IrAssign: the last frame, or the module's.
IrAssign(v) == IF v \in DOMAIN Top.slots THEN Top.slots[v]
              ELSE IF v \in DOMAIN frames[1].slots THEN frames[1].slots[v] ELSE 0

\* What the variable of a body is.
Meant(v) == IF v \in Static THEN frames[1].slots[v] ELSE Top.env[v]
InScope  == {v \in Refers[Top.fn] :
                v \in IF v \in Static THEN DOMAIN frames[1].slots ELSE DOMAIN Top.env}

ClosuresTypeOK == /\ Len(frames) \in 1..(MaxCalls + 1) /\ bindings \in 0..MaxBindings
                  /\ \A c \in closures : c.fn \in Fn \ {Main}

\* "Capture-through ... works automatically because IrMakeClosure is evaluated in the
\* ENCLOSING frame" (_lower_lambda): wherever a lambda is made, the frame has what the
\* lambda captures.
CaptureThrough == \A f \in Lambdas : Makes(f) => Captures(f) \subseteq DOMAIN Top.slots

\* "Lambda bodies close over their definition environment": whoever calls, however
\* deep and however late, a body reads and assigns the bindings that were in scope
\* where its closure was made, though the code looks for them in the frames of its
\* callers; and what a new closure captures is there, which holds where no lambda needs
\* a variable for a lambda inside it alone.
ClosesOverDefinition ==
    /\ \A v \in InScope : IrLoad(v) = Meant(v) /\ (v \in Mutable => IrAssign(v) = Meant(v))
    /\ CaptureThrough
=============================================================================
