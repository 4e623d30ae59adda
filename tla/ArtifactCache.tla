--------------------------- MODULE ArtifactCache ---------------------------
(* What one compilation of AgL modules reuses of another (agl/artifact_cache.py,
   artifact_storage.py, modules/parsed_module_cache.py, repl/session.py): parsed,
   resolved and checked modules in the memory of a process, resolved and checked
   ones on disk, and what a REPL session and its bootstrap keep of their own.

   A text is a model value that fixes what the module imports; an object is a text
   parsed once; an artifact is known by the texts it was derived from.  Processes
   run one after another: on disk they meet only files renamed into place.  The
   capabilities, a part of every key, do not change. *)
EXTENDS Naturals, FiniteSets, Sequences, Functions

CONSTANTS Mod, ModOrder,    \* modules, and their order by id
          Text, Absent,     \* source texts
          Versions,         \* the texts each file may have, or Absent
          FirstFiles,       \* what the files may be at the start
          Explicit,         \* the modules each text imports by name
          Wild,             \* the modules each one's wildcard covers
          Roots,            \* what the programs and the entries of the host import
          BootRoots,        \* what the prelude of a session imports
          MaxCompiles,      \* bound: compilations
          MaxMoves,         \* bound: edits and evictions between two of them
          SessionReloads    \* whether modules change under a session that has artifacts of them

ASSUME TextAssumption == /\ IsFiniteSet(Mod) /\ Absent \notin Text
                         /\ Explicit \in [Mod -> [Text -> SUBSET Mod]]
                         /\ Versions \in [Mod -> SUBSET (Text \union {Absent})]
                         /\ FirstFiles \subseteq [Mod -> Text \union {Absent}]
                         /\ \A f \in FirstFiles : \A m \in Mod : f[m] \in Versions[m]
                         /\ Wild \in [Mod -> SUBSET Mod]
                         /\ Roots \subseteq SUBSET Mod /\ BootRoots \subseteq Mod
ASSUME OrderAssumption == ModOrder \in Seq(Mod) /\ Range(ModOrder) = Mod /\ IsInjective(ModOrder)
ASSUME CompileAssumption == MaxCompiles \in Nat /\ MaxMoves \in Nat /\ SessionReloads \in BOOLEAN

VARIABLES files,      \* the text of each module, if its file is there
          parsed,     \* _PARSED_MODULES: an object for a module
          resolved,   \* _RESOLVED: an artifact for a module and its sources
          checked,    \* _CHECKED
          slots,      \* the disk cache
          session,    \* a REPL's loaded modules and retained artifacts
          boot,       \* _bootstrap_cache: the image of one session
          work,       \* the compilation going on
          clock       \* compilations begun

memory    == <<parsed, resolved, checked, boot>>
cacheVars == <<files, memory, slots, session, work, clock>>

NoSession == [open |-> FALSE, loaded |-> <<>>, resolved |-> <<>>, checked |-> <<>>]
IdleWork  == [at |-> "idle", moves |-> 0]

CacheInit == /\ files \in FirstFiles
             /\ parsed = <<>> /\ resolved = <<>> /\ checked = <<>> /\ boot = <<>>
             /\ slots = <<>> /\ session = NoSession /\ work = IdleWork /\ clock = 0

\* A store as an update leaves it.
Onto(new, store) ==
    [m \in DOMAIN new \union DOMAIN store |-> IF m \in DOMAIN new THEN new[m] ELSE store[m]]

-----------------------------------------------------------------------------
\* The loader.  A module a session has is not read again, though its wildcard is
\* expanded anew; any other is read, and parsed unless the cache has that text.
Present == {m \in Mod : files[m] # Absent}

\* Each wildcard of these modules finds those of them it covers.
AnyWildcards(mods)  == TRUE
SameWildcards(mods) == \A m \in mods : Wild[m] \intersect Present = Wild[m] \intersect mods

Loaded(m) ==
    CASE m \in DOMAIN session.loaded -> session.loaded[m]
      [] m \in DOMAIN parsed /\ parsed[m].text = files[m] /\ m \notin DOMAIN session.loaded -> parsed[m]
      [] OTHER -> [text |-> files[m], born |-> clock + 1]

Deps(m) == IF Loaded(m).text = Absent THEN {}
           ELSE Explicit[m][Loaded(m).text] \union (Wild[m] \intersect Present)

\* What one gets to from S along dep: the least closed set around it.
ClosedUnder(T, dep) == \A m \in T : dep[m] \subseteq T
Reachable(S, dep) ==
    {m \in Mod : \A T \in SUBSET Mod : S \subseteq T /\ ClosedUnder(T, dep) => m \in T}

GraphOf(roots) == Reachable(roots \union DOMAIN session.loaded, [m \in Mod |-> Deps(m)])

\* A missing module ends the compilation with an error.
Load(roots, booting) ==
    /\ work.at = "idle" /\ clock < MaxCompiles
    /\ \A m \in GraphOf(roots) : Loaded(m).text # Absent
    /\ clock' = clock + 1
    /\ work' = [at |-> "loaded", booting |-> booting,
                graph |-> [m \in GraphOf(roots) |-> Loaded(m)],
                reach |-> [m \in GraphOf(roots) |-> Reachable({m}, [d \in Mod |-> Deps(d)])]]
    /\ parsed' = Onto([m \in GraphOf(roots) \ DOMAIN session.loaded |-> Loaded(m)], parsed)
    /\ UNCHANGED <<files, resolved, checked, slots>>

-----------------------------------------------------------------------------
\* retained_module_sources: an artifact may depend on all its module reaches.
Members    == DOMAIN work.graph
Closure(m) == work.reach[m]
OwnSource(m) == [d \in {m} |-> work.graph[d]]
Sources(m) == [d \in Closure(m) |-> work.graph[d]]
Texts(m)   == [d \in Closure(m) |-> work.graph[d].text]
Group(m)   == {n \in Members : Closure(n) = Closure(m)}

\* _ArtifactStore.get and put, for a module of the compilation.
Hit(store, m)    == m \in DOMAIN store /\ store[m].sources = Sources(m)
Put(store, art)  == Onto([m \in DOMAIN art |-> [sources |-> Sources(m), art |-> art[m]]], store)

\* read_payload: a slot is whole, or a miss.
Slot(stage, m)   == <<stage, Texts(m)>>
Readable(slot)   == slot \in DOMAIN slots /\ slots[slot].whole
Payload(slot)    == slots[slot].arts

\* _served reads the slot of a group one of whose members memory lacks.
OnDisk(stage, store, m) ==
    /\ \E n \in Group(m) : ~Hit(store, n)
    /\ Readable(Slot(stage, m)) /\ m \in DOMAIN Payload(Slot(stage, m))

\* _retain writes the slot of a group one of whose members memory lacked.
Saved(stage, store, served, arts) ==
    LET stale == {m \in Members : \E k \in Group(m) : ~Hit(store, k) /\ k \notin served}
    IN  Onto([slot \in {Slot(stage, m) : m \in stale} |->
                 [whole |-> TRUE,
                  arts |-> [m \in {n \in Members : Slot(stage, n) = slot} |-> arts[m]]]], slots)

-----------------------------------------------------------------------------
\* resolve_program.  A resolution is reused while its Program is the one loaded.
Restored == [m \in {n \in Members : OnDisk("scope", resolved, n)} |->
                [from |-> Payload(Slot("scope", m))[m].from, program |-> work.graph[m], id |-> clock]]

Resolution == LET memoryHit == [m \in {n \in Members : Hit(resolved, n)} |-> resolved[m].art]
              IN  Onto(session.resolved, Onto(Restored, memoryHit))

Reusable(m) == m \in DOMAIN Resolution /\ Resolution[m].program = work.graph[m]

Resolve ==
    /\ work.at = "loaded"
    /\ LET used == [m \in Members |->
                       IF Reusable(m) THEN Resolution[m]
                       ELSE [from |-> Texts(m), program |-> work.graph[m], id |-> clock]]
       IN  /\ work' = [at |-> "resolved", booting |-> work.booting, graph |-> work.graph,
                       reach |-> work.reach, resolved |-> used]
           /\ resolved' = Put(resolved, used)
           /\ slots' = Saved("scope", resolved, DOMAIN Restored,
                             [m \in Members |-> [from |-> used[m].from]])
    /\ UNCHANGED <<files, parsed, checked, boot, session, clock>>

-----------------------------------------------------------------------------
\* check_program.  An image on disk refers to resolutions by their place in a table
\* of anchors, built when it is written and again when it is read.
AsTable(mods)     == SelectSeq(ModOrder, LAMBDA d : d \in mods)
ProgramAnchors(m) == AsTable({d \in Members : Hit(resolved, d)})
Anchors(m)        == AsTable({d \in Closure(m) : Hit(resolved, d)})

Place(table, d) == CHOOSE i \in DOMAIN table : table[i] = d
Places(table)   == [d \in Range(table) |-> Place(table, d)]

Image(m, art) == [from |-> art.from, refs |-> Places(Anchors(m))]

\* persistent_load: a reference past the table is a miss.
Fits(m) == \A i \in Range(Payload(Slot("checked", m))[m].refs) : i \in DOMAIN Anchors(m)

CheckedRestored ==
    [m \in {n \in Members : OnDisk("checked", checked, n) /\ Fits(n)} |->
        LET image == Payload(Slot("checked", m))[m]
        IN  [from |-> image.from, image |-> TRUE, of |-> 0,
             anchors |-> [d \in DOMAIN image.refs |-> Anchors(m)[image.refs[d]]]]]

\* A full object in memory follows its module's resolution in memory.
CheckedInMemory ==
    [m \in {n \in Members : Hit(checked, n)} |->
        IF checked[m].art.image THEN checked[m].art
        ELSE [checked[m].art EXCEPT !.of = resolved[m].art.id]]

Checking == Onto(session.checked, Onto(CheckedRestored, CheckedInMemory))

\* A full object is reused with the very resolution it was checked from, an image
\* with any of its sources.
CheckReusable(m) == /\ m \in DOMAIN Checking
                    /\ Checking[m].image \/ Checking[m].of = work.resolved[m].id

\* A session's checks read its own declarations: they are not retained for others.
Check ==
    /\ work.at = "resolved"
    /\ LET used == [m \in Members |->
                       IF CheckReusable(m)
                       THEN [Checking[m] EXCEPT !.image = FALSE, !.of = work.resolved[m].id]
                       ELSE [from |-> work.resolved[m].from, image |-> FALSE,
                             of |-> work.resolved[m].id, anchors |-> [d \in Closure(m) |-> d]]]
       IN  /\ work' = [at |-> "checked", booting |-> work.booting, graph |-> work.graph,
                       reach |-> work.reach, resolved |-> work.resolved, checked |-> used]
           /\ IF session.open
              THEN /\ checked' = Put(checked, CheckedRestored) /\ UNCHANGED slots
                   /\ session' = [session EXCEPT !.resolved = Onto(work.resolved, @),
                                                 !.checked = Onto(used, @)]
              ELSE /\ checked' = Put(checked, used) /\ UNCHANGED session
                   /\ slots' = Saved("checked", checked, DOMAIN CheckedRestored,
                                     [m \in Members |-> Image(m, used[m])])
    /\ UNCHANGED <<files, parsed, resolved, boot, clock>>

-----------------------------------------------------------------------------
\* A program of agm exec, run or check, or an entry of a session.
CompileProgram == \E roots \in Roots : Load(roots, FALSE) /\ UNCHANGED <<boot, session>>

EndProgram == /\ work.at = "checked" /\ ~session.open
              /\ work' = IdleWork
              /\ UNCHANGED <<files, memory, slots, session, clock>>

\* An entry that runs, or the prelude that open loads.
Keep == /\ work.at = "checked" /\ session.open
        /\ session' = [session EXCEPT !.loaded = work.graph]
        /\ boot' = IF work.booting THEN session' ELSE boot
        /\ work' = IdleWork
        /\ UNCHANGED <<files, parsed, resolved, checked, slots, clock>>

\* An entry rejected after the check, or whose modules failed: they are not kept.
Drop == /\ work.at = "checked" /\ session.open /\ ~work.booting
        /\ work' = IdleWork
        /\ UNCHANGED <<files, memory, slots, session, clock>>

\* :reset drops the loaded modules, not the retained artifacts.
ResetSession == /\ work.at = "idle" /\ session.open /\ session.loaded # <<>>
                /\ session' = [session EXCEPT !.loaded = <<>>]
                /\ UNCHANGED <<files, memory, slots, work, clock>>

\* open.  An image is as good as new if its texts are still there, and each
\* wildcard still finds what it found.
BootValid == /\ boot # <<>>
             /\ \A m \in DOMAIN boot.loaded : files[m] = boot.loaded[m].text
             /\ SameWildcards(DOMAIN boot.loaded)

OpenCached == /\ work.at = "idle" /\ ~session.open /\ BootValid
              /\ session' = boot
              /\ UNCHANGED <<files, memory, slots, work, clock>>

OpenFresh == /\ ~session.open /\ ~BootValid
             /\ Load(BootRoots, TRUE)
             /\ session' = [NoSession EXCEPT !.open = TRUE]
             /\ boot' = <<>>

Close == /\ work.at = "idle" /\ session.open
         /\ session' = NoSession
         /\ UNCHANGED <<files, memory, slots, work, clock>>

-----------------------------------------------------------------------------
\* Between compilations, each of which reads a file once, a user edits, adds or
\* removes a file, or a store in memory drops what it used least recently.
Moves == work.at = "idle" /\ work.moves < MaxMoves /\ work' = [work EXCEPT !.moves = @ + 1]

\* Unless sessions meet changes, none touches what a session has artifacts of, nor
\* what a wildcard of theirs covers.
Editable == IF SessionReloads THEN Mod
            ELSE Mod \ UNION {{m} \union Wild[m] : m \in DOMAIN session.resolved}

Edit == /\ Moves
        /\ \E m \in Editable : \E t \in Versions[m] \ {files[m]} : files' = [files EXCEPT ![m] = t]
        /\ UNCHANGED <<memory, slots, session, clock>>

Without(store, m) == Restrict(store, DOMAIN store \ {m})

EvictParsed == /\ Moves /\ \E m \in DOMAIN parsed : parsed' = Without(parsed, m)
               /\ UNCHANGED <<files, resolved, checked, boot, slots, session, clock>>

EvictResolved == /\ Moves /\ \E m \in DOMAIN resolved : resolved' = Without(resolved, m)
                 /\ UNCHANGED <<files, parsed, checked, boot, slots, session, clock>>

EvictChecked == /\ Moves /\ \E m \in DOMAIN checked : checked' = Without(checked, m)
                /\ UNCHANGED <<files, parsed, resolved, boot, slots, session, clock>>

\* The process ends, anywhere, and the machine perhaps with it: a slot renamed into
\* place may not have its bytes.
Exit == /\ clock \in 1..(MaxCompiles - 1)
        /\ parsed' = <<>> /\ resolved' = <<>> /\ checked' = <<>> /\ boot' = <<>>
        /\ session' = NoSession /\ work' = IdleWork
        /\ \/ UNCHANGED slots
           \/ \E slot \in DOMAIN slots : slots' = [slots EXCEPT ![slot].whole = FALSE]
        /\ UNCHANGED <<files, clock>>

CacheNext == \/ CompileProgram \/ Resolve \/ Check \/ EndProgram \/ Keep \/ Drop \/ ResetSession
             \/ OpenCached \/ OpenFresh \/ Close \/ Edit
             \/ EvictParsed \/ EvictResolved \/ EvictChecked \/ Exit

CacheSpec == CacheInit /\ [][CacheNext]_cacheVars

-----------------------------------------------------------------------------
CacheTypeOK ==
    /\ files \in [Mod -> Text \union {Absent}] /\ \A m \in Mod : files[m] \in Versions[m]
    /\ clock \in 0..MaxCompiles
    /\ \A store \in {parsed, resolved, checked, session.loaded} : DOMAIN store \subseteq Mod
    /\ work.at \in {"idle", "loaded", "resolved", "checked"}
    /\ work.at # "idle" => Members \subseteq Mod

\* Whatever a compilation reuses, from memory, from disk or from its session, is
\* what it would have derived from the sources it loaded.
ServedFresh ==
    /\ work.at \in {"resolved", "checked"} => \A m \in Members : work.resolved[m].from = Texts(m)
    /\ work.at = "checked" => \A m \in Members : work.checked[m].from = Texts(m)

\* An image read back refers to the resolutions it was written with, though the
\* table of anchors is another one, in another process, for another program.
AnchoredRight ==
    work.at = "checked" =>
        \A m \in Members : \A d \in DOMAIN work.checked[m].anchors : work.checked[m].anchors[d] = d

\* A session that starts from the bootstrap's image starts from what the files are.
BootCurrent ==
    [][OpenCached =>
        /\ DOMAIN session'.loaded = GraphOf(BootRoots)
        /\ \A m \in DOMAIN session'.loaded : session'.loaded[m].text = files[m]]_cacheVars

\* What is on disk under the identity of some sources was derived from them.
SlotsHonest ==
    \A slot \in DOMAIN slots : \A m \in DOMAIN slots[slot].arts : slots[slot].arts[m].from = slot[2]
=============================================================================
