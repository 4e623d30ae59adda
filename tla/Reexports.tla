----------------------------- MODULE Reexports -----------------------------
(* How the modules of an import cycle settle what they export (scope/program.py,
   _resolve_reexports): each export declaration forwards names of another module,
   under new ones or without the hidden ones, until no pass over the declarations
   changes anything.  A name is a path, <<"S", "f">> for S::f, and stands for the
   declaration that its origin, a module and a path in it, names.

   Aliases are left out, and a scope is what names begin with: an item reaches, and
   a hiding removes, the names that begin with its path. *)
EXTENDS Naturals, Sequences, FiniteSets, SequencesExt, FiniteSetsExt

CONSTANTS Cycle,       \* the modules that import each other, in the order of their names
          Outside,     \* modules they import, whose exports are final
          Public,      \* the paths that each module declares
          TypePaths,   \* those of types, which may be scopes as well
          MayExport,   \* the export declarations each module of the cycle may make
          MaxExports   \* bound: declarations in the cycle

InCycle     == Range(Cycle)
Modules  == InCycle \union Outside
Begins(p, q) == IsPrefix(p, q)

\* An export of the targets, rooted in the path of a region: some items, each a path
\* and what renames it, or everything but what is hidden.
ExportDecl(to, region, items, hidden) ==
    [to |-> to, region |-> region, items |-> items, hidden |-> hidden]

ASSUME ExportAssumption ==
    /\ Cycle # <<>> /\ Cycle \in Seq(InCycle) /\ IsInjective(Cycle)
    /\ IsFiniteSet(Outside) /\ InCycle \intersect Outside = {}
    /\ \A m \in Modules : IsFiniteSet(Public[m])
    /\ MaxExports \in Nat
    /\ \A m \in Outside : MayExport[m] = {}
    /\ \A m \in InCycle : \A d \in MayExport[m] :
          /\ d.to \subseteq Modules \ {m} /\ IsFiniteSet(d.items)
          /\ d.items = {} \/ d.hidden = {}

VARIABLES exporting,  \* the export declarations of each module of the cycle
          surface,    \* export_maps: <<name, origin>> pairs
          withheld,   \* <<name, origin>>: what is hidden beneath an exported name, or under a hidden one
          passes,     \* steps of _converge
          verdict     \* none yet, or how the resolution ended

exportVars == <<exporting, surface, withheld, passes, verdict>>

Declared(m) == {<<p, <<m, p>>>> : p \in Public[m]}
NamesIn(s)  == {e[1] : e \in s}

ReexportsInit ==
    /\ exporting = [m \in Modules |-> {}]
    /\ surface = [m \in Modules |-> Declared(m)]
    /\ withheld = [m \in Modules |-> {}]
    /\ passes = 0 /\ verdict = "none"

DeclarationCount == Cardinality(UNION {{m} \X exporting[m] : m \in InCycle})

\* A module of the cycle is written with one more export.
AddExport ==
    /\ passes = 0 /\ DeclarationCount < MaxExports
    /\ \E m \in InCycle : \E d \in MayExport[m] \ exporting[m] :
          exporting' = [exporting EXCEPT ![m] = @ \union {d}]
    /\ UNCHANGED <<surface, withheld, passes, verdict>>

-----------------------------------------------------------------------------
(* A pass over the modules of the cycle, one after another. *)

Matching(s, path) == {e \in s : Begins(path, e[1])}
HeldAt(h, name)   == {e[2] : e \in {x \in h : x[1] = name}}
Beneath(o, removed) == \E r \in removed : r[1] = o[1] /\ Begins(r[2], o[2])

\* Mutant of HidingKnown: a hidden path that matches nothing yet hides nothing.
PartlyKnown(d, s) == TRUE

\* A hidden path that matches nothing yet may match later: nothing is forwarded before.
HidingKnown(d, s) == \A p \in d.hidden : Matching(s, p) # {}
Removed(d, s)     == {e[2] : e \in UNION {Matching(s, p) : p \in d.hidden}}

Renamed(item, name) == IF item.rename = "" THEN name
                       ELSE <<item.rename>> \o SubSeq(name, Len(item.path) + 1, Len(name))

\* What d forwards of a target, and what each name it forwards withholds.
Forwards(d, s, h) ==
    IF d.items # {}
    THEN UNION {{[name |-> d.region \o Renamed(i, e[1]), origin |-> e[2], kept |-> HeldAt(h, e[1])] :
                    e \in Matching(s, i.path)} : i \in d.items}
    ELSE IF ~HidingKnown(d, s) THEN {}
    ELSE {[name |-> d.region \o e[1], origin |-> e[2], kept |-> HeldAt(h, e[1]) \union Removed(d, s)] :
            e \in {x \in s : ~Beneath(x[2], Removed(d, s))}}

\* The names d keeps from being forwarded, or its target does.
Hides(d, s, h) ==
    IF d.items # {} \/ ~HidingKnown(d, s) THEN {}
    ELSE {<<d.region \o e[1], e[2]>> :
            e \in {x \in s : Beneath(x[2], Removed(d, s))} \union {x \in h : x[1] \notin NamesIn(s)}}

Uses(m) == UNION {{<<d, t>> : t \in d.to} : d \in exporting[m]}

Found(now, m) == UNION {Forwards(u[1], now.surface[u[2]], now.withheld[u[2]]) : u \in Uses(m)}

\* The exports of one module, with the others as the pass has left them: a name that
\* several declarations forward withholds only what each of them does, one of the
\* module's own nothing.
Visit(now, m) ==
    LET found  == Found(now, m)
        hidden == UNION {Hides(u[1], now.surface[u[2]], now.withheld[u[2]]) : u \in Uses(m)}
        all    == now.surface[m] \union {<<f.name, f.origin>> : f \in found}
        kept(n) == IF n \in Public[m] THEN {}
                   ELSE {q \in UNION {f.kept : f \in found} : \A f \in found : f.name = n => q \in f.kept}
    IN  [surface |-> [now.surface EXCEPT ![m] = all],
         withheld |-> [now.withheld EXCEPT ![m] =
                          UNION {{n} \X kept(n) : n \in {f.name : f \in found}}
                          \union {e \in hidden : e[1] \notin NamesIn(all)}]]

Visited[k \in 0..Len(Cycle)] ==
    IF k = 0 THEN [surface |-> surface, withheld |-> withheld] ELSE Visit(Visited[k - 1], Cycle[k])
Propagated == Visited[Len(Cycle)]

\* Two origins under one name, or a declaration that is no type where a scope is.  The
\* code raises at the first addition that conflicts, here the whole pass is looked at:
\* no addition is taken back, so the error is the same.
Clash(s) ==
    \/ \E e, f \in s : e[1] = f[1] /\ e[2] # f[2]
    \/ \E e, f \in s : e[1] # f[1] /\ Begins(e[1], f[1]) /\ e[2] \notin TypePaths

\* Every item and every hidden path names something, once all is settled.
AllNamed ==
    \A m \in InCycle : \A u \in Uses(m) :
        /\ \A i \in u[1].items : Matching(surface[u[2]], i.path) # {}
        /\ HidingKnown(u[1], surface[u[2]])

\* A step of _converge: an error at once, the end when nothing changes, and an error
\* when that has not happened within the steps.
Propagate ==
    /\ verdict = "none"
    /\ surface' = Propagated.surface /\ withheld' = Propagated.withheld
    /\ passes' = passes + 1
    /\ verdict' = IF \E m \in InCycle : Clash(surface'[m]) THEN "conflict"
                  ELSE IF surface' = surface /\ withheld' = withheld
                       THEN IF AllNamed THEN "settled" ELSE "unknown"
                  ELSE IF passes' > DeclarationCount THEN "diverges" ELSE "none"
    /\ UNCHANGED exporting

ReexportsNext == AddExport \/ Propagate

ReexportsSpec == ReexportsInit /\ [][ReexportsNext]_exportVars

-----------------------------------------------------------------------------
ReexportsTypeOK ==
    /\ \A m \in Modules : exporting[m] \subseteq MayExport[m]
    /\ passes \in 0..(MaxExports + 1)
    /\ verdict \in {"none", "conflict", "settled", "unknown", "diverges"}
    /\ \A m \in Modules : Declared(m) \subseteq surface[m]

(* What the surfaces should be. *)

\* The names an export makes of another, whatever it hides.
Spelled(d, name) == IF d.items = {} THEN {d.region \o name}
                    ELSE {d.region \o Renamed(i, name) : i \in {j \in d.items : Begins(j.path, name)}}

\* What one more export makes of what lies at the ends of some chains, past what it
\* hides of the surface its target has now; and what n exports or fewer lead to.
Onwards(c) ==
    [m \in Modules |->
        Declared(m) \union
        UNION {UNION {Spelled(u[1], e[1]) \X {e[2]} :
                      e \in {x \in c[u[2]] : ~Beneath(x[2], Removed(u[1], surface[u[2]]))}} : u \in Uses(m)}]
Chains[n \in Nat] == IF n = 0 THEN [m \in Modules |-> Declared(m)] ELSE Onwards(Chains[n - 1])

\* The same without hiding, and with the exports of the chain, none of them twice.
Lengthened(c, m, d) == {[at |-> m, name |-> x, by |-> c.by \union {<<m, d>>}] : x \in Spelled(d, c.name)}
Links == UNION {{<<m, u[1], u[2]>> : u \in Uses(m)} : m \in InCycle}
Unlinked == UNION {{[at |-> m, name |-> p, by |-> {}] : p \in Public[m]} : m \in Modules}
Linked(o) ==
    o \union UNION {Lengthened(x[1], x[2][1], x[2][2]) :
                    x \in {y \in o \X Links : y[1].at = y[2][3] /\ <<y[2][1], y[2][2]>> \notin y[1].by}}
Once[n \in Nat] == IF n = 0 THEN Unlinked ELSE Linked(Once[n - 1])

\* An export that is applied again to what it made gives a name nothing else gives.
FeedsItself ==
    LET once == Once[DeclarationCount]
    IN  \E c \in once, l \in Links :
            /\ c.at = l[3]
            /\ \E x \in Spelled(l[2], c.name) : ~\E o \in once : o.at = l[1] /\ o.name = x

\* "Every module in a cycle sees the same exports, re-exports included, as it would
\* outside the cycle" (modules.md:466): whatever the order of modules and passes, a
\* settled module exports what some chain of exports leads to, past what the final
\* surfaces make each of them hide, and nothing else; and the steps suffice unless
\* "continued growth ... can only depend on reapplying a declaration through a cycle".
\* It fails where a hidden path comes to match more after something was forwarded past
\* it: the instances keep to hidden paths that match at once all they ever will.
SurfacesSettle ==
    /\ verdict = "settled" =>
          LET n == Cardinality(UNION {{m} \X surface[m] : m \in Modules})
          IN  \A m \in InCycle : surface[m] = Chains[n][m]
    /\ verdict = "diverges" => FeedsItself
=============================================================================
