---------------------------- MODULE ReplSession ----------------------------
(* The AgL REPL (repl/session.py, repl/entry_pipeline.py, lower/repl.py): an entry
   loads library modules, is lowered into a link image that outlives it, runs the
   initialisers of the new modules and its own one by one, and keeps what
   completed when it fails.

   An entry is a sequence of items.  What an expression computes is left out, what
   it refers to is kept.  The closures of one module are one initialiser. *)
EXTENDS Naturals, Sequences, FiniteSets, Functions

CONSTANTS Module,          \* library modules
          Rank,            \* the loader's order: dependencies first, any order in a cycle
          Imports,         \* the modules each one imports
          Parts,           \* the initialisers of each: 0 for its closures, then 1, 2...
          Boot,            \* the prelude, which every entry imports
          Entry,           \* the entries a user may type
          Name,            \* names they declare
          MaxEntries,      \* bound: entries of one session
          InterruptEarly   \* whether Ctrl-C may come before every closure is there

Item == [kind : {"let", "fun", "type", "stmt"}, name : Name,
         needs : SUBSET Nat,      \* items of the same entry it refers to
         reads : SUBSET Name,     \* declarations of earlier entries it refers to
         uses : SUBSET Module]    \* modules it refers to at run time

ASSUME ModuleAssumption == /\ Boot \subseteq Module
                           /\ Rank \in [Module -> Nat] /\ IsInjective(Rank)
                           /\ Imports \in [Module -> SUBSET Module]
                           /\ Parts \in [Module -> SUBSET Nat]
ASSUME EntryAssumption == \A e \in Entry : /\ e.imports \subseteq Module
                                           /\ e.items \in Seq(Item)
ASSUME SessionAssumption == MaxEntries \in Nat /\ InterruptEarly \in BOOLEAN

VARIABLES phase,       \* before open, between entries, in one, after the REPL's end
          entries,     \* entries submitted
          loaded,      \* _loaded_lib_modules
          linked,      \* LinkImage._linked_modules
          link,        \* how often each module's symbols were allocated
          ran,         \* initialisers that ran in each module's latest allocation
          frame,       \* declarations with a value in _ir_base_frame
          scope,       \* the declaration each session name stands for
          decls,       \* the declarations promoted, with what they refer to
          imports,     \* _accumulated_imports
          nextId,      \* _next_node_id
          nominals,    \* the extern registry: the type behind each node id
          cur,         \* the entry being evaluated and the modules of its program
          completed    \* its items whose initialisers completed

library   == <<loaded, linked, link, ran>>
promotion == <<scope, decls, imports>>
replVars  == <<phase, entries, library, frame, promotion, nextId, nominals, cur, completed>>

ReplInit == /\ phase = "closed" /\ entries = 0
            /\ loaded = {} /\ linked = {}
            /\ link = [m \in Module |-> 0] /\ ran = [m \in Module |-> {}]
            /\ frame = {} /\ scope = <<>> /\ decls = <<>> /\ imports = {}
            /\ nextId = 0 /\ nominals = <<>>
            /\ cur = <<>> /\ completed = {}

-----------------------------------------------------------------------------
\* What a set of modules reaches by imports, and the part of a set that needs
\* nothing outside: the two fixed points that the code computes by worklists.
ImportClosed(T) == \A m \in T : Imports[m] \subseteq T

Reach(S) == {m \in Module : \A T \in SUBSET Module : S \subseteq T /\ ImportClosed(T) => m \in T}

Closed(S, dep) == UNION {T \in SUBSET S : \A x \in T : dep[x] \subseteq T}

\* The modules of an entry's program: every cached one, and all it reaches.
Graph(e) == Reach(loaded \union Boot \union imports \union e.imports)

\* Linked modules are not lowered, and so not run, again.
FreshAll(mods) == mods
Fresh(mods)    == mods \ linked

Items(e)     == DOMAIN e.items
Of(e, kinds) == {i \in Items(e) : e.items[i].kind \in kinds}
Inits(e)     == Of(e, {"let", "stmt"})
Named(e)     == Of(e, {"let", "fun", "type"})
IdOf(i)      == cur.base + i

\* Scope checking: a name is a declaration of the session or of the entry itself.
Resolves(e) == \A i \in Items(e) : /\ e.items[i].reads \subseteq DOMAIN scope
                                   /\ e.items[i].uses \subseteq Graph(e)

\* Wiring the externs registers the entry's types; the registry only grows.
Registered(e) ==
    [id \in DOMAIN nominals \union {nextId + i : i \in Of(e, {"type"})} |->
        IF id \in DOMAIN nominals THEN nominals[id] ELSE e.items[id - nextId]]

\* The ids a rejected entry has used.
KeepsIds(e)   == nextId' = nextId
ConsumeIds(e) == nextId' = nextId + Len(e.items)

Accepts(e) == phase = "idle" /\ entries < MaxEntries /\ Resolves(e)

-----------------------------------------------------------------------------
\* open: the prelude is loaded and checked, not linked.  Its unit entry has one id.
Open == /\ phase = "closed"
        /\ phase' = "idle" /\ loaded' = Reach(Boot) /\ nextId' = nextId + 1
        /\ UNCHANGED <<entries, linked, link, ran, frame, promotion, nominals, cur, completed>>

\* An entry that is lowered, wired and about to run.  Its new modules get new
\* symbols, whether or not an earlier entry left them some.
Submit(e) ==
    /\ Accepts(e)
    /\ entries' = entries + 1 /\ phase' = "run"
    /\ cur' = [entry |-> e, base |-> nextId, mods |-> Graph(e), fresh |-> Fresh(Graph(e))]
    /\ completed' = {}
    /\ link' = [m \in Module |-> link[m] + IF m \in Fresh(Graph(e)) THEN 1 ELSE 0]
    /\ ran' = [m \in Module |-> IF m \in Fresh(Graph(e)) THEN {} ELSE ran[m]]
    /\ nominals' = Registered(e)
    /\ UNCHANGED <<loaded, linked, frame, promotion, nextId>>

\* A companion or a setting is rejected after the wiring: the link image is put
\* back, and the ids the registry may have seen are consumed.  A rejection before
\* the wiring puts the link image back and changes nothing.
Reject(e) ==
    /\ Accepts(e)
    /\ entries' = entries + 1
    /\ nominals' = Registered(e) /\ ConsumeIds(e)
    /\ UNCHANGED <<phase, library, frame, promotion, cur, completed>>

-----------------------------------------------------------------------------
\* interp.run: the closures of every new module and of the entry, then the other
\* initialisers of each module in its rank, then the entry's.
First(S)  == CHOOSE m \in S : \A n \in S : Rank[m] <= Rank[n]
Least(S)  == CHOOSE i \in S : \A j \in S : i <= j

Unclosed  == {m \in cur.fresh : 0 \in Parts[m] \ ran[m]}
Unrun     == {m \in cur.fresh : ran[m] # Parts[m]}
Installed == Unclosed = {} /\ Of(cur.entry, {"fun"}) \subseteq completed
Left      == Inits(cur.entry) \ completed

InstallModule ==
    /\ phase = "run" /\ Unclosed # {}
    /\ ran' = [ran EXCEPT ![First(Unclosed)] = @ \union {0}]
    /\ UNCHANGED <<phase, entries, loaded, linked, link, frame, promotion, nextId, nominals,
                   cur, completed>>

InstallEntry ==
    /\ phase = "run" /\ Unclosed = {} /\ ~Installed
    /\ completed' = Of(cur.entry, {"fun"})
    /\ frame' = frame \union {IdOf(i) : i \in Of(cur.entry, {"fun"})}
    /\ UNCHANGED <<phase, entries, library, promotion, nextId, nominals, cur>>

RunModule ==
    /\ phase = "run" /\ Installed /\ Unrun # {}
    /\ LET m == First(Unrun)
       IN  ran' = [ran EXCEPT ![m] = @ \union {Least(Parts[m] \ @)}]
    /\ UNCHANGED <<phase, entries, loaded, linked, link, frame, promotion, nextId, nominals,
                   cur, completed>>

RunEntry ==
    /\ phase = "run" /\ Installed /\ Unrun = {} /\ Left # {}
    /\ completed' = completed \union {Least(Left)}
    /\ frame' = frame \union {IdOf(Least(Left))}
    /\ UNCHANGED <<phase, entries, library, promotion, nextId, nominals, cur>>

-----------------------------------------------------------------------------
\* Items before the first initialiser that did not complete: declarations without
\* an initialiser of their own count as completed by then.
Frontier == IF Left = {} THEN Len(cur.entry.items) + 1 ELSE Least(Left)

Reached == (completed \union {i \in Items(cur.entry) : i < Frontier}) \intersect Named(cur.entry)

\* completed_declaration_ids: those whose modules are available and that need no
\* declaration of the entry outside.
PromotableReached(available) ==
    {i \in Reached : cur.entry.items[i].uses \subseteq available}
Promotable(available) ==
    Closed({i \in Reached : cur.entry.items[i].uses \subseteq available},
           [i \in Reached |-> cur.entry.items[i].needs])

\* completed_library_module_ids: those that ran and depend on none that did not.
InitialisedAlone == {m \in cur.mods : ran[m] = Parts[m]}
InitialisedOrNone == IF Unrun = {} THEN cur.mods ELSE linked
Initialised == Closed({m \in cur.mods : ran[m] = Parts[m]}, Imports)

\* _promote_ir_state: names come to stand for the new declarations, and the link
\* image keeps what they refer to.
Promoted(i) ==
    LET item == cur.entry.items[i]
    IN  [item  |-> item,
         needs |-> {IdOf(j) : j \in item.needs} \union {scope[n] : n \in item.reads},
         uses  |-> [m \in item.uses |-> link[m]]]

Promote(S) ==
    LET names == {cur.entry.items[i].name : i \in S}
        ids   == {IdOf(i) : i \in S}
    IN  /\ scope' = [n \in DOMAIN scope \union names |->
                        IF n \in names THEN IdOf(CHOOSE i \in S : cur.entry.items[i].name = n)
                        ELSE scope[n]]
        /\ decls' = [id \in DOMAIN decls \union ids |->
                        IF id \in ids THEN Promoted(id - cur.base) ELSE decls[id]]
        /\ nextId' = cur.base + Len(cur.entry.items)

\* retain_library_state.
RetainProgram(mods) == loaded' = loaded \union mods /\ linked' = linked \union cur.mods
Retain(mods) == loaded' = loaded \union mods /\ linked' = linked \union mods

EndEntry == /\ phase' = "idle" /\ cur' = <<>> /\ completed' = {}
            /\ UNCHANGED <<entries, link, ran, frame, nominals>>

\* Every initialiser ran.
Finish ==
    /\ phase = "run" /\ Installed /\ Unrun = {} /\ Left = {}
    /\ Promote(Promotable(cur.mods)) /\ Retain(cur.mods)
    /\ imports' = imports \union cur.entry.imports
    /\ EndEntry

\* partial_failure: an initialiser raised, a host value was missing, an agent call
\* was cancelled or the user interrupted the entry, perhaps after its last one.
Fail ==
    /\ phase = "run" /\ (InterruptEarly \/ Installed)
    /\ Promote(Promotable(Initialised)) /\ Retain(Initialised)
    /\ UNCHANGED imports
    /\ EndEntry

\* :quit, end of input, or an exit from a running entry.
Quit == /\ phase \in {"idle", "run"}
        /\ phase' = "over" /\ cur' = <<>> /\ completed' = {}
        /\ UNCHANGED <<entries, library, frame, promotion, nextId, nominals>>

\* :reset clears the session, the registry and the ids, and does not open again.
Reset == /\ phase = "idle" /\ loaded # {}
         /\ loaded' = {} /\ linked' = {}
         /\ link' = [m \in Module |-> 0] /\ ran' = [m \in Module |-> {}]
         /\ frame' = {} /\ scope' = <<>> /\ decls' = <<>> /\ imports' = {}
         /\ nextId' = 0 /\ nominals' = <<>>
         /\ UNCHANGED <<phase, entries, cur, completed>>

ReplNext == \/ Open \/ InstallModule \/ InstallEntry \/ RunModule \/ RunEntry
            \/ Finish \/ Fail \/ Quit \/ Reset
            \/ \E e \in Entry : (Submit(e) \/ Reject(e))

ReplSpec == ReplInit /\ [][ReplNext]_replVars

-----------------------------------------------------------------------------
ReplTypeOK ==
    /\ phase \in {"closed", "idle", "run", "over"}
    /\ entries \in 0..MaxEntries /\ nextId \in Nat
    /\ linked \subseteq loaded /\ loaded \subseteq Module /\ imports \subseteq Module
    /\ link \in [Module -> Nat] /\ ran \in [Module -> SUBSET Nat]
    /\ frame \subseteq Nat
    /\ Range(scope) \subseteq DOMAIN decls
    /\ DOMAIN decls \union DOMAIN nominals \subseteq Nat
    /\ phase = "run" => completed \subseteq Items(cur.entry)

\* Whatever entries failed, and wherever (but for an interrupt before the closures
\* are installed, InterruptEarly), a declaration the session has can be used: it has its value, so has everything it refers to, and the modules it
\* calls are linked under the symbols it was compiled against.
PromotedUsable ==
    \A id \in DOMAIN decls :
        /\ decls[id].item.kind \in {"let", "fun"} => id \in frame
        /\ decls[id].needs \subseteq DOMAIN decls
        /\ \A m \in DOMAIN decls[id].uses : m \in linked /\ decls[id].uses[m] = link[m]

\* A linked module never runs again, so all of it has run, and so has all of every
\* module it imports, whatever the order within a cycle.
LinkedReady ==
    \A m \in linked : ran[m] = Parts[m] /\ Imports[m] \subseteq linked

\* A node id the extern registry has seen under one type never comes to mean
\* another: a Python companion would get the abandoned type's class.
NominalOwn ==
    \A id \in DOMAIN decls :
        decls[id].item.kind = "type" => nominals[id] = decls[id].item

\* A module's effects happen once: linked, it is not lowered or run again.
RunsOnce ==
    [][\A m \in linked \intersect linked' : link'[m] = link[m] /\ ran'[m] = ran[m]]_replVars

\* "Completed runtime initializers are promoted even when a later initializer
\* fails": a failure loses no module that ran with all it imports, and no
\* declaration that completed with all it needs.
KeepsCompleted ==
    [][phase = "run" /\ phase' = "idle" =>
        /\ \A S \in SUBSET {m \in cur.mods : ran[m] = Parts[m]} :
                ImportClosed(S) => S \subseteq linked'
        /\ \A S \in SUBSET (completed \intersect Named(cur.entry)) :
                (\A i \in S : /\ cur.entry.items[i].needs \subseteq S
                              /\ cur.entry.items[i].uses \subseteq linked')
                    => {IdOf(i) : i \in S} \subseteq DOMAIN decls'
      ]_replVars
=============================================================================
