------------------------ MODULE ArtifactCacheProofs ------------------------
(* Whatever a compilation reuses, of any modules, imports, texts and edits, is of the
   sources it loaded, as long as no file changes under a session that has artifacts
   of it.  CacheInv is the inductive invariant: what the stores, the session, its
   image and the compilation going on hold, in terms of the files as they are. *)
EXTENDS ArtifactCache, TLAPS

-----------------------------------------------------------------------------
(* Closures of imports, and stores. *)

LEMMA ReachableClosed ==
  ASSUME NEW S \in SUBSET Mod, NEW dep, \A m \in Mod : dep[m] \subseteq Mod
  PROVE  /\ S \subseteq Reachable(S, dep) /\ Reachable(S, dep) \subseteq Mod
         /\ ClosedUnder(Reachable(S, dep), dep)
<1>1. S \subseteq Reachable(S, dep) /\ Reachable(S, dep) \subseteq Mod
  BY DEF Reachable
<1>2. ASSUME NEW m \in Reachable(S, dep), NEW d \in dep[m] PROVE d \in Reachable(S, dep)
  BY <1>2 DEF Reachable, ClosedUnder
<1> QED BY <1>1, <1>2 DEF ClosedUnder

LEMMA ReachableLeast ==
  ASSUME NEW S, NEW dep, NEW T \in SUBSET Mod, S \subseteq T, ClosedUnder(T, dep)
  PROVE  Reachable(S, dep) \subseteq T
BY DEF Reachable

\* What is reached inside a closed set does not depend on anything outside.
LEMMA ReachableWithin ==
  ASSUME NEW S, NEW dep, NEW other, NEW T \in SUBSET Mod, S \subseteq T, ClosedUnder(T, dep),
         \A m \in T : other[m] = dep[m]
  PROVE  Reachable(S, other) = Reachable(S, dep)
<1>1. ASSUME NEW m \in Reachable(S, other), NEW U \in SUBSET Mod, S \subseteq U, ClosedUnder(U, dep) PROVE m \in U
  <2>1. U \intersect T \in SUBSET Mod /\ S \subseteq U \intersect T /\ ClosedUnder(U \intersect T, other)
    BY <1>1 DEF ClosedUnder
  <2> QED BY <2>1 DEF Reachable
<1>2. ASSUME NEW m \in Reachable(S, dep), NEW U \in SUBSET Mod, S \subseteq U, ClosedUnder(U, other) PROVE m \in U
  <2>1. U \intersect T \in SUBSET Mod /\ S \subseteq U \intersect T /\ ClosedUnder(U \intersect T, dep)
    BY <1>2 DEF ClosedUnder
  <2> QED BY <2>1 DEF Reachable
<1>3. Reachable(S, other) \subseteq Mod /\ Reachable(S, dep) \subseteq Mod
  BY DEF Reachable
<1> QED BY <1>1, <1>2, <1>3 DEF Reachable

\* A place in a table is where its module is.
LEMMA PlacesFit ==
  ASSUME NEW table
  PROVE  /\ DOMAIN Places(table) = Range(table)
         /\ \A d \in Range(table) : Places(table)[d] \in DOMAIN table /\ table[Places(table)[d]] = d
<1>1. DOMAIN Places(table) = Range(table)
  BY DEF Places
<1>2. ASSUME NEW d \in Range(table) PROVE Places(table)[d] \in DOMAIN table /\ table[Places(table)[d]] = d
  <2>1. \E i \in DOMAIN table : table[i] = d
    BY DEF Range
  <2>2. Place(table, d) \in DOMAIN table /\ table[Place(table, d)] = d
    BY <2>1 DEF Place
  <2> QED BY <2>2 DEF Places
<1> QED BY <1>1, <1>2

-----------------------------------------------------------------------------
(* The inductive invariant. *)

\* What a module imports by the files, and what it reaches.
FileDeps == [m \in Mod |-> IF files[m] = Absent THEN {} ELSE Explicit[m][files[m]] \union (Wild[m] \intersect Present)]
FileTexts(m) == [d \in Reachable({m}, FileDeps) |-> files[d]]

\* The same by the modules an image loaded, whose wildcards found only each other.
ImageDeps(own) ==
    [m \in Mod |-> IF m \in DOMAIN own
                   THEN Explicit[m][own[m].text] \union (Wild[m] \intersect DOMAIN own) ELSE {}]
ImageTexts(own, m) == [d \in Reachable({m}, ImageDeps(own)) |-> own[d].text]

\* An artifact derived from some texts; a checked one refers to each module by itself.
FromTexts(art, texts) == "from" \in DOMAIN art /\ art.from = texts
Anchored(art) == "anchors" \in DOMAIN art /\ \A d \in DOMAIN art.anchors : art.anchors[d] = d
CheckedFrom(art, texts) == FromTexts(art, texts) /\ Anchored(art)
TextsOf(sources) == [d \in DOMAIN sources |-> sources[d].text]

\* What memory and the disk hold was derived from what it is kept under.
MemoryHonest ==
    /\ \A m \in DOMAIN resolved : FromTexts(resolved[m].art, TextsOf(resolved[m].sources))
    /\ \A m \in DOMAIN checked : CheckedFrom(checked[m].art, TextsOf(checked[m].sources))
ImagesAnchored ==
    \A slot \in DOMAIN slots :
        /\ "arts" \in DOMAIN slots[slot]
        /\ slot[1] = "checked" =>
               \A m \in DOMAIN slots[slot].arts : slots[slot].arts[m].refs = Places(AsTable(DOMAIN slot[2]))
StoresInv == MemoryHonest /\ SlotsHonest /\ ImagesAnchored

\* What a session holds is of the files as they are.
SessionFields == {"open", "loaded", "resolved", "checked"}
SessionCurrent ==
    /\ DOMAIN session = SessionFields /\ session.open \in BOOLEAN
    /\ ~session.open => session = NoSession
    /\ DOMAIN session.loaded \subseteq DOMAIN session.resolved
    /\ DOMAIN session.checked \subseteq DOMAIN session.resolved
    /\ DOMAIN session.resolved \subseteq Present /\ ClosedUnder(DOMAIN session.resolved, FileDeps)
    /\ \A m \in DOMAIN session.loaded : session.loaded[m].text = files[m]
    /\ \A m \in DOMAIN session.resolved : FromTexts(session.resolved[m], FileTexts(m))
    /\ \A m \in DOMAIN session.checked : CheckedFrom(session.checked[m], FileTexts(m))

\* The image of a session is of what that session loaded, from its roots on.
ImageCurrent ==
    boot # <<>> =>
        /\ DOMAIN boot = SessionFields /\ boot.open = TRUE
        /\ DOMAIN boot.resolved = DOMAIN boot.loaded /\ DOMAIN boot.checked \subseteq DOMAIN boot.loaded
        /\ DOMAIN boot.loaded = Reachable(BootRoots, ImageDeps(boot.loaded))
        /\ \A m \in DOMAIN boot.loaded : boot.loaded[m].text # Absent /\ FromTexts(boot.resolved[m], ImageTexts(boot.loaded, m))
        /\ \A m \in DOMAIN boot.checked : CheckedFrom(boot.checked[m], ImageTexts(boot.loaded, m))

\* The compilation going on is of the files as they are, and so far of its own sources.
Loading ==
    /\ DOMAIN work.reach = Members
    /\ Members \subseteq Present /\ ClosedUnder(Members, FileDeps)
    /\ \A m \in Members : work.graph[m].text = files[m] /\ work.reach[m] = Reachable({m}, FileDeps)
    /\ work.booting => Members = Reachable(BootRoots, FileDeps) /\ session.open
    /\ work.booting /\ work.at # "checked" => DOMAIN session.resolved = {} /\ DOMAIN session.checked = {}
Resolving ==
    /\ DOMAIN work.resolved = Members
    /\ \A m \in Members : FromTexts(work.resolved[m], Texts(m))
    /\ work.at = "resolved" => \A m \in Members : Hit(resolved, m)
CheckDone ==
    /\ DOMAIN work.checked = Members
    /\ \A m \in Members : CheckedFrom(work.checked[m], Texts(m))
    /\ session.open => Members \subseteq DOMAIN session.resolved
    /\ work.booting => Members = DOMAIN session.resolved

WorkCurrent ==
    /\ work.at \in {"idle", "loaded", "resolved", "checked"}
    /\ work.at = "idle" => "at" \in DOMAIN work
    /\ work.at # "idle" => Loading
    /\ work.at \in {"resolved", "checked"} => Resolving
    /\ work.at = "checked" => CheckDone

CacheInv ==
    /\ files \in [Mod -> Text \union {Absent}]
    /\ StoresInv /\ SessionCurrent /\ ImageCurrent /\ WorkCurrent


LEMMA FileDepsTyped ==
  ASSUME files \in [Mod -> Text \union {Absent}]
  PROVE  \A m \in Mod : FileDeps[m] \subseteq Mod
<1>1. \A m \in Mod : files[m] # Absent => Explicit[m][files[m]] \subseteq Mod
  BY TextAssumption
<1> QED BY <1>1 DEF FileDeps, Present

\* A session's modules are as the files are, so the loader loads the files.
LEMMA LoadedCurrent ==
  ASSUME SessionCurrent, NEW m \in Mod
  PROVE  Loaded(m).text = files[m]
BY DEF SessionCurrent, Loaded

LEMMA DepsCurrent ==
  ASSUME SessionCurrent
  PROVE  /\ [m \in Mod |-> Deps(m)] = FileDeps
         /\ \A roots : GraphOf(roots) = Reachable(roots \union DOMAIN session.loaded, FileDeps)
<1>1. ASSUME NEW m \in Mod PROVE Deps(m) = FileDeps[m]
  BY LoadedCurrent DEF Deps, FileDeps
<1>2. [m \in Mod |-> Deps(m)] = FileDeps
  BY <1>1 DEF FileDeps
<1> QED BY <1>2 DEF GraphOf

\* What the texts of a module are, in terms of the files.
LEMMA TextsCurrent ==
  ASSUME Loading, NEW m \in Members, files \in [Mod -> Text \union {Absent}]
  PROVE  /\ Texts(m) = FileTexts(m) /\ TextsOf(Sources(m)) = Texts(m)
         /\ Closure(m) \subseteq Members /\ DOMAIN Texts(m) = Closure(m)
<1>1. Members \subseteq Mod /\ Closure(m) = Reachable({m}, FileDeps)
  BY DEF Loading, Present, Closure
<1>2. Closure(m) \subseteq Members
  BY <1>1, ReachableLeast DEF Loading
<1>3. \A d \in Closure(m) : work.graph[d].text = files[d]
  BY <1>2 DEF Loading
<1>4. Texts(m) = FileTexts(m)
  BY <1>1, <1>3 DEF Texts, FileTexts
<1>5. DOMAIN Sources(m) = Closure(m) /\ \A d \in Closure(m) : Sources(m)[d] = work.graph[d]
  BY DEF Sources
<1>6. TextsOf(Sources(m)) = Texts(m)
  BY <1>5 DEF TextsOf, Texts
<1> QED BY <1>2, <1>4, <1>6 DEF Texts

-----------------------------------------------------------------------------
(* Steps that leave a part of it alone. *)

LEMMA SameFiles ==
  ASSUME UNCHANGED files
  PROVE  Present' = Present /\ FileDeps' = FileDeps /\ \A m : FileTexts(m)' = FileTexts(m)
BY DEF Present, FileDeps, FileTexts

LEMMA SessionStays ==
  ASSUME SessionCurrent, UNCHANGED <<files, session>>
  PROVE  SessionCurrent'
<1>1. Present' = Present /\ FileDeps' = FileDeps /\ \A m : FileTexts(m)' = FileTexts(m)
  BY SameFiles
<1> QED BY <1>1 DEF SessionCurrent

LEMMA SessionEnds ==
  ASSUME session' = NoSession
  PROVE  SessionCurrent'
BY DEF SessionCurrent, NoSession, SessionFields, ClosedUnder

LEMMA ImageStays ==
  ASSUME ImageCurrent, UNCHANGED boot
  PROVE  ImageCurrent'
BY DEF ImageCurrent

LEMMA StoresStay ==
  ASSUME StoresInv, UNCHANGED <<resolved, checked, slots>>
  PROVE  StoresInv'
BY DEF StoresInv, MemoryHonest, SlotsHonest, ImagesAnchored

LEMMA WorkEnds ==
  ASSUME work' = IdleWork
  PROVE  WorkCurrent'
BY DEF WorkCurrent, IdleWork

LEMMA IdleStays ==
  ASSUME WorkCurrent, work.at = "idle", UNCHANGED work \/ Moves
  PROVE  WorkCurrent'
BY DEF WorkCurrent, Moves

LEMMA LoadingStays ==
  ASSUME Loading, UNCHANGED files, UNCHANGED <<work.graph, work.reach, work.booting>>,
         work.booting => session'.open,
         work.booting /\ work'.at # "checked" => work.at # "checked" /\ UNCHANGED session
  PROVE  Loading'
<1>1. Present' = Present /\ FileDeps' = FileDeps
  BY SameFiles
<1> QED BY <1>1 DEF Loading, Members

-----------------------------------------------------------------------------
(* Loading. *)

LEMMA LoadKeeps ==
  ASSUME CacheInv, NEW roots \in SUBSET Mod, NEW booting \in BOOLEAN, Load(roots, booting),
         booting => /\ roots = BootRoots /\ session.loaded = <<>>
                    /\ session'.open /\ DOMAIN session'.resolved = {} /\ DOMAIN session'.checked = {}
  PROVE  StoresInv' /\ WorkCurrent' /\ files' \in [Mod -> Text \union {Absent}]
<1>0. SessionCurrent /\ files \in [Mod -> Text \union {Absent}] /\ UNCHANGED <<files, resolved, checked, slots>>
  BY DEF CacheInv, Load
<1>1. StoresInv'
  BY <1>0, StoresStay DEF CacheInv
<1> DEFINE G == GraphOf(roots)
<1>2. G = Reachable(roots \union DOMAIN session.loaded, FileDeps) /\ [d \in Mod |-> Deps(d)] = FileDeps
  BY <1>0, DepsCurrent
<1>3. roots \union DOMAIN session.loaded \in SUBSET Mod
  BY <1>0 DEF SessionCurrent, Present
<1>4. G \subseteq Mod /\ ClosedUnder(G, FileDeps)
  <2>1. \A m \in Mod : FileDeps[m] \subseteq Mod
    BY <1>0, FileDepsTyped
  <2>2. Reachable(roots \union DOMAIN session.loaded, FileDeps) \subseteq Mod
        /\ ClosedUnder(Reachable(roots \union DOMAIN session.loaded, FileDeps), FileDeps)
    BY <1>3, <2>1, ReachableClosed
  <2> QED BY <1>2, <2>2
<1>5. \A m \in G : Loaded(m).text = files[m] /\ files[m] # Absent
  BY <1>0, <1>4, LoadedCurrent DEF Load
<1>6. G \subseteq Present
  BY <1>4, <1>5 DEF Present
<1>7. /\ work'.at = "loaded" /\ work'.booting = booting
      /\ DOMAIN work'.graph = G /\ \A m \in G : work'.graph[m] = Loaded(m)
      /\ DOMAIN work'.reach = G /\ \A m \in G : work'.reach[m] = Reachable({m}, FileDeps)
  BY <1>2 DEF Load
<1>8. booting => G = Reachable(BootRoots, FileDeps)
  <2>1. booting => roots \union DOMAIN session.loaded = BootRoots
    OBVIOUS
  <2> QED BY <1>2, <2>1
<1> HIDE DEF G
<1>9. Present' = Present /\ FileDeps' = FileDeps
  BY <1>0, SameFiles
<1>10. Loading'
  BY <1>0, <1>4, <1>5, <1>6, <1>7, <1>8, <1>9 DEF Loading, Members
<1> QED BY <1>0, <1>1, <1>7, <1>10 DEF WorkCurrent

LEMMA CompileKeeps == CacheInv /\ CompileProgram => CacheInv'
<1> SUFFICES ASSUME CacheInv, NEW roots \in Roots, Load(roots, FALSE), UNCHANGED <<boot, session>> PROVE CacheInv'
  BY DEF CompileProgram
<1>1. roots \in SUBSET Mod /\ UNCHANGED files
  BY TextAssumption DEF Load
<1>2. StoresInv' /\ WorkCurrent' /\ files' \in [Mod -> Text \union {Absent}]
  BY <1>1, LoadKeeps
<1> QED BY <1>1, <1>2, SessionStays, ImageStays DEF CacheInv

LEMMA OpenFreshKeeps == CacheInv /\ OpenFresh => CacheInv'
<1> SUFFICES ASSUME CacheInv, OpenFresh PROVE CacheInv'
  OBVIOUS
<1>1. session = NoSession /\ BootRoots \in SUBSET Mod /\ UNCHANGED files /\ boot' = <<>> /\ Load(BootRoots, TRUE)
  BY TextAssumption DEF OpenFresh, Load, CacheInv, SessionCurrent
<1>2. session' = [open |-> TRUE, loaded |-> <<>>, resolved |-> <<>>, checked |-> <<>>]
  BY DEF OpenFresh, NoSession
<1>3. StoresInv' /\ WorkCurrent' /\ files' \in [Mod -> Text \union {Absent}]
  <2>1. session.loaded = <<>> /\ session'.open /\ DOMAIN session'.resolved = {} /\ DOMAIN session'.checked = {}
    BY <1>1, <1>2 DEF NoSession
  <2> QED BY <1>1, <2>1, LoadKeeps
<1>4. SessionCurrent'
  BY <1>2 DEF SessionCurrent, SessionFields, ClosedUnder
<1>5. ImageCurrent'
  BY <1>1 DEF ImageCurrent
<1> QED BY <1>3, <1>4, <1>5 DEF CacheInv

-----------------------------------------------------------------------------
(* Resolving and checking. *)

\* A payload written for a compilation is of the sources of each of its modules.
LEMMA SavedHonest ==
  ASSUME Loading, files \in [Mod -> Text \union {Absent}], SlotsHonest, ImagesAnchored,
         NEW stage, NEW store, NEW served, NEW arts, slots' = Saved(stage, store, served, arts),
         \A m \in Members : arts[m].from = Texts(m)
                            /\ (stage = "checked" => arts[m].refs = Places(AsTable(Closure(m))))
  PROVE  SlotsHonest' /\ ImagesAnchored'
<1> DEFINE stale == {n \in Members : \E k \in Group(n) : ~Hit(store, k) /\ k \notin served}
           new == [s \in {Slot(stage, n) : n \in stale} |->
                      [whole |-> TRUE, arts |-> [n \in {k \in Members : Slot(stage, k) = s} |-> arts[n]]]]
<1>0. slots' = Onto(new, slots)
  BY DEF Saved
<1>1. \A s \in DOMAIN new : "arts" \in DOMAIN new[s]
                            /\ new[s].arts = [n \in {k \in Members : Slot(stage, k) = s} |-> arts[n]]
  OBVIOUS
<1> HIDE DEF new
<1>2. ASSUME NEW slot \in DOMAIN slots'
      PROVE  (slot \in DOMAIN new /\ slots'[slot] = new[slot]) \/ (slot \in DOMAIN slots /\ slots'[slot] = slots[slot])
  BY <1>0, <1>2, Zenon DEF Onto
<1>3. ASSUME NEW slot \in DOMAIN slots' PROVE "arts" \in DOMAIN slots'[slot]
  BY <1>1, <1>2, <1>3 DEF ImagesAnchored
<1>4. ASSUME NEW slot \in DOMAIN slots', NEW m \in DOMAIN slots'[slot].arts
      PROVE  /\ slots'[slot].arts[m].from = slot[2]
             /\ slot[1] = "checked" => slots'[slot].arts[m].refs = Places(AsTable(DOMAIN slot[2]))
  <2>1. CASE slots'[slot].arts = [n \in {k \in Members : Slot(stage, k) = slot} |-> arts[n]]
    <3>1. m \in Members /\ Slot(stage, m) = slot /\ slots'[slot].arts[m] = arts[m]
      BY <1>4, <2>1
    <3>2. slot[1] = stage /\ slot[2] = Texts(m)
      BY <3>1 DEF Slot
    <3>3. DOMAIN Texts(m) = Closure(m)
      BY DEF Texts
    <3> QED BY <3>1, <3>2, <3>3
  <2>2. CASE slot \in DOMAIN slots /\ slots'[slot] = slots[slot]
    BY <1>4, <2>2 DEF SlotsHonest, ImagesAnchored
  <2> QED BY <1>1, <1>2, <2>1, <2>2
<1> QED BY <1>3, <1>4 DEF SlotsHonest, ImagesAnchored

\* A payload read back is of the sources of the module it is read for.
LEMMA PayloadHonest ==
  ASSUME StoresInv, NEW stage, NEW store, NEW m, OnDisk(stage, store, m)
  PROVE  /\ Payload(Slot(stage, m))[m].from = Texts(m)
         /\ stage = "checked" => Payload(Slot(stage, m))[m].refs = Places(AsTable(Closure(m)))
<1>1. Slot(stage, m) \in DOMAIN slots /\ m \in DOMAIN slots[Slot(stage, m)].arts
  BY DEF OnDisk, Readable, Payload
<1>2. Slot(stage, m)[1] = stage /\ Slot(stage, m)[2] = Texts(m) /\ DOMAIN Texts(m) = Closure(m)
  BY DEF Slot, Texts
<1> QED BY <1>1, <1>2 DEF StoresInv, SlotsHonest, ImagesAnchored, Payload

LEMMA ResolutionFresh ==
  ASSUME CacheInv, Loading, NEW m \in Members, Reusable(m)
  PROVE  FromTexts(Resolution[m], Texts(m))
<1>0. Texts(m) = FileTexts(m) /\ TextsOf(Sources(m)) = Texts(m)
  BY TextsCurrent DEF CacheInv
<1> DEFINE hits == [n \in {k \in Members : Hit(resolved, k)} |-> resolved[n].art]
           rest == Onto(Restored, hits)
<1>1. Resolution = Onto(session.resolved, rest) /\ m \in DOMAIN Resolution
  BY DEF Resolution, Reusable
<1>2. CASE m \in DOMAIN session.resolved
  <2>1. Resolution[m] = session.resolved[m]
    BY <1>1, <1>2, Zenon DEF Onto
  <2> QED BY <1>0, <1>2, <2>1 DEF CacheInv, SessionCurrent
<1>3. CASE m \notin DOMAIN session.resolved /\ m \in DOMAIN Restored
  <2>1. m \in DOMAIN rest /\ rest[m] = Restored[m]
    BY <1>3, Zenon DEF Onto
  <2> HIDE DEF rest
  <2>4. Resolution[m] = Restored[m]
    BY <1>1, <1>3, <2>1, Zenon DEF Onto
  <2>2. OnDisk("scope", resolved, m) /\ Restored[m] = [from |-> Payload(Slot("scope", m))[m].from,
                                                       program |-> work.graph[m], id |-> clock]
    BY <1>3 DEF Restored
  <2>3. Payload(Slot("scope", m))[m].from = Texts(m)
    BY <2>2, PayloadHonest DEF CacheInv
  <2> QED BY <2>4, <2>2, <2>3 DEF FromTexts
<1>4. CASE m \notin DOMAIN session.resolved /\ m \notin DOMAIN Restored
  <2>3. m \in DOMAIN rest
    <3> HIDE DEF rest
    <3> QED BY <1>1, <1>4, Zenon DEF Onto
  <2>4. m \in DOMAIN hits /\ rest[m] = hits[m]
    <3> HIDE DEF hits
    <3> QED BY <1>4, <2>3, Zenon DEF Onto
  <2>5. Resolution[m] = rest[m]
    <3> HIDE DEF rest
    <3> QED BY <1>1, <1>4, <2>3, Zenon DEF Onto
  <2>1. m \in DOMAIN hits /\ Resolution[m] = hits[m]
    BY <2>4, <2>5
  <2>2. Hit(resolved, m) /\ Resolution[m] = resolved[m].art
    BY <2>1
  <2> QED BY <1>0, <2>2 DEF Hit, CacheInv, StoresInv, MemoryHonest
<1> QED BY <1>2, <1>3, <1>4

\* What is put into memory is of the sources it is put under.
LEMMA PutHonest ==
  ASSUME NEW store, NEW arts, DOMAIN arts \subseteq Members
  PROVE  /\ DOMAIN Put(store, arts) = DOMAIN arts \union DOMAIN store
         /\ \A m \in DOMAIN arts : Put(store, arts)[m] = [sources |-> Sources(m), art |-> arts[m]]
         /\ \A m \in DOMAIN store \ DOMAIN arts : Put(store, arts)[m] = store[m]
<1> DEFINE new == [m \in DOMAIN arts |-> [sources |-> Sources(m), art |-> arts[m]]]
<1>1. Put(store, arts) = Onto(new, store) /\ DOMAIN new = DOMAIN arts
  BY DEF Put
<1>2. \A m \in DOMAIN arts : new[m] = [sources |-> Sources(m), art |-> arts[m]]
  OBVIOUS
<1> HIDE DEF new
<1> QED BY <1>1, <1>2, Zenon DEF Onto

LEMMA ResolveKeeps == CacheInv /\ Resolve => CacheInv'
<1> SUFFICES ASSUME CacheInv, Resolve PROVE CacheInv'
  OBVIOUS
<1>0. UNCHANGED <<files, checked, boot, session>> /\ work.at = "loaded" /\ Loading /\ StoresInv
      /\ files \in [Mod -> Text \union {Absent}]
  BY DEF Resolve, CacheInv, WorkCurrent
<1> DEFINE used == [m \in Members |-> IF Reusable(m) THEN Resolution[m]
                       ELSE [from |-> Texts(m), program |-> work.graph[m], id |-> clock]]
<1>1. /\ work' = [at |-> "resolved", booting |-> work.booting, graph |-> work.graph,
                  reach |-> work.reach, resolved |-> used]
      /\ resolved' = Put(resolved, used)
      /\ slots' = Saved("scope", resolved, DOMAIN Restored, [m \in Members |-> [from |-> used[m].from]])
  BY Zenon DEF Resolve
<1>2. ASSUME NEW m \in Members PROVE FromTexts(used[m], Texts(m))
  BY <1>0, ResolutionFresh DEF FromTexts
<1>3. DOMAIN used = Members
  OBVIOUS
<1> HIDE DEF used
<1>10. /\ DOMAIN Put(resolved, used) = DOMAIN used \union DOMAIN resolved
       /\ \A m \in DOMAIN used : Put(resolved, used)[m] = [sources |-> Sources(m), art |-> used[m]]
       /\ \A m \in DOMAIN resolved \ DOMAIN used : Put(resolved, used)[m] = resolved[m]
  BY <1>3, PutHonest, ZenonT(30)
<1>4. SlotsHonest' /\ ImagesAnchored'
  <2> DEFINE arts == [m \in Members |-> [from |-> used[m].from]]
  <2>1. \A m \in Members : arts[m].from = Texts(m)
    BY <1>2 DEF FromTexts
  <2> HIDE DEF arts
  <2>2. slots' = Saved("scope", resolved, DOMAIN Restored, arts)
    BY <1>1 DEF arts
  <2> QED BY <1>0, <2>1, <2>2, SavedHonest DEF StoresInv
<1>5. MemoryHonest'
  <2>1. ASSUME NEW m \in DOMAIN resolved' PROVE FromTexts(resolved'[m].art, TextsOf(resolved'[m].sources))
    <3>1. CASE m \in Members
      <4>1. resolved'[m] = [sources |-> Sources(m), art |-> used[m]]
        BY <1>1, <1>3, <3>1, <1>10
      <4> QED BY <1>0, <1>2, <3>1, <4>1, TextsCurrent
    <3>2. CASE m \notin Members
      <4>1. m \in DOMAIN resolved /\ resolved'[m] = resolved[m]
        BY <1>1, <1>3, <2>1, <3>2, <1>10
      <4> QED BY <1>0, <4>1 DEF StoresInv, MemoryHonest
    <3> QED BY <3>1, <3>2
  <2> QED BY <1>0, <2>1 DEF StoresInv, MemoryHonest
<1>6. Members' = Members /\ \A m : Closure(m)' = Closure(m) /\ Texts(m)' = Texts(m) /\ Sources(m)' = Sources(m)
  BY <1>1 DEF Members, Closure, Texts, Sources
<1>7. Loading'
  BY <1>0, <1>1, LoadingStays DEF Loading
<1>8. Resolving'
  <2>1. \A m \in Members : m \in DOMAIN resolved' /\ resolved'[m].sources = Sources(m)
    BY <1>1, <1>3, <1>10
  <2>2. \A m \in Members : Hit(resolved, m)'
    BY <1>6, <2>1 DEF Hit
  <2>3. work'.resolved = used
    BY <1>1
  <2> QED BY <1>2, <1>3, <1>6, <2>2, <2>3 DEF Resolving
<1>9. WorkCurrent'
  BY <1>1, <1>7, <1>8 DEF WorkCurrent
<1> QED BY <1>0, <1>4, <1>5, <1>9, SessionStays, ImageStays DEF CacheInv, StoresInv

\* While modules are checked every one is resolved in memory: the table of anchors
\* is that of the closure.
LEMMA AnchorsWhole ==
  ASSUME CacheInv, work.at = "resolved", NEW m \in Members
  PROVE  Anchors(m) = AsTable(Closure(m))
<1>1. Closure(m) \subseteq Members /\ \A n \in Members : Hit(resolved, n)
  BY TextsCurrent DEF CacheInv, WorkCurrent, Resolving
<1>2. {d \in Closure(m) : Hit(resolved, d)} = Closure(m)
  BY <1>1
<1> QED BY <1>2 DEF Anchors

LEMMA RestoredFresh ==
  ASSUME CacheInv, work.at = "resolved", NEW m \in DOMAIN CheckedRestored
  PROVE  m \in Members /\ CheckedFrom(CheckedRestored[m], Texts(m))
<1>1. m \in Members /\ OnDisk("checked", checked, m)
  BY DEF CheckedRestored
<1> DEFINE image == Payload(Slot("checked", m))[m]
<1>2. image.from = Texts(m) /\ image.refs = Places(Anchors(m))
  BY <1>1, PayloadHonest, AnchorsWhole DEF CacheInv
<1>3. CheckedRestored[m] = [from |-> image.from, image |-> TRUE, of |-> 0,
                            anchors |-> [d \in DOMAIN image.refs |-> Anchors(m)[image.refs[d]]]]
  BY DEF CheckedRestored
<1> HIDE DEF image
<1>4. DOMAIN image.refs = Range(Anchors(m)) /\ \A d \in Range(Anchors(m)) : Anchors(m)[image.refs[d]] = d
  BY <1>2, PlacesFit
<1> QED BY <1>1, <1>2, <1>3, <1>4 DEF CheckedFrom, FromTexts, Anchored

LEMMA CheckingFresh ==
  ASSUME CacheInv, work.at = "resolved", NEW m \in Members, m \in DOMAIN Checking
  PROVE  CheckedFrom(Checking[m], Texts(m))
<1>0. Texts(m) = FileTexts(m) /\ TextsOf(Sources(m)) = Texts(m)
  BY TextsCurrent DEF CacheInv, WorkCurrent
<1> DEFINE rest == Onto(CheckedRestored, CheckedInMemory)
<1>1. Checking = Onto(session.checked, rest)
  BY DEF Checking
<1>2. CASE m \in DOMAIN session.checked
  <2>1. Checking[m] = session.checked[m]
    BY <1>1, <1>2, Zenon DEF Onto
  <2> QED BY <1>0, <1>2, <2>1 DEF CacheInv, SessionCurrent
<1>3. CASE m \notin DOMAIN session.checked
  <2>1. m \in DOMAIN rest /\ Checking[m] = rest[m]
    <3> HIDE DEF rest
    <3> QED BY <1>1, <1>3, Zenon DEF Onto
  <2>2. CASE m \in DOMAIN CheckedRestored
    <3>1. rest[m] = CheckedRestored[m]
      BY <2>1, <2>2, Zenon DEF Onto
    <3> QED BY <2>1, <2>2, <3>1, RestoredFresh
  <2>3. CASE m \notin DOMAIN CheckedRestored
    <3>1. m \in DOMAIN CheckedInMemory /\ rest[m] = CheckedInMemory[m]
      BY <2>1, <2>3, Zenon DEF Onto
    <3> DEFINE art == checked[m].art
    <3>2. Hit(checked, m) /\ CheckedInMemory[m] = IF art.image THEN art ELSE [art EXCEPT !.of = resolved[m].art.id]
      BY <3>1 DEF CheckedInMemory
    <3>3. CheckedFrom(art, Texts(m))
      BY <1>0, <3>2 DEF Hit, CacheInv, StoresInv, MemoryHonest
    <3> HIDE DEF art
    <3>4. CheckedFrom([art EXCEPT !.of = resolved[m].art.id], Texts(m))
      BY <3>3 DEF CheckedFrom, FromTexts, Anchored
    <3> QED BY <2>1, <3>1, <3>2, <3>3, <3>4
  <2> QED BY <2>2, <2>3
<1> QED BY <1>2, <1>3

LEMMA CheckKeeps == CacheInv /\ Check => CacheInv'
<1> SUFFICES ASSUME CacheInv, Check PROVE CacheInv'
  OBVIOUS
<1>0. UNCHANGED <<files, parsed, resolved, boot, clock>> /\ work.at = "resolved" /\ Loading /\ Resolving
      /\ StoresInv /\ SessionCurrent /\ files \in [Mod -> Text \union {Absent}]
  <2>1. UNCHANGED <<files, parsed, resolved, boot, clock>> /\ work.at = "resolved"
    BY Zenon DEF Check
  <2> QED BY <2>1 DEF CacheInv, WorkCurrent
<1> DEFINE used == [m \in Members |->
                       IF CheckReusable(m)
                       THEN [Checking[m] EXCEPT !.image = FALSE, !.of = work.resolved[m].id]
                       ELSE [from |-> work.resolved[m].from, image |-> FALSE,
                             of |-> work.resolved[m].id, anchors |-> [d \in Closure(m) |-> d]]]
<1>1. /\ work' = [at |-> "checked", booting |-> work.booting, graph |-> work.graph,
                  reach |-> work.reach, resolved |-> work.resolved, checked |-> used]
      /\ \/ /\ session.open /\ checked' = Put(checked, CheckedRestored) /\ UNCHANGED slots
            /\ session' = [session EXCEPT !.resolved = Onto(work.resolved, @), !.checked = Onto(used, @)]
         \/ /\ ~session.open /\ checked' = Put(checked, used) /\ UNCHANGED session
            /\ slots' = Saved("checked", checked, DOMAIN CheckedRestored, [m \in Members |-> Image(m, used[m])])
  BY Zenon DEF Check
<1>2. ASSUME NEW m \in Members PROVE CheckedFrom(used[m], Texts(m))
  <2>1. CASE CheckReusable(m)
    <3>1. CheckedFrom(Checking[m], Texts(m))
      BY <1>0, <2>1, CheckingFresh DEF CheckReusable
    <3>2. used[m] = [Checking[m] EXCEPT !.image = FALSE, !.of = work.resolved[m].id]
      BY <2>1
    <3> HIDE DEF used
    <3> QED BY <3>1, <3>2 DEF CheckedFrom, FromTexts, Anchored
  <2>2. CASE ~CheckReusable(m)
    <3>1. used[m] = [from |-> work.resolved[m].from, image |-> FALSE,
                     of |-> work.resolved[m].id, anchors |-> [d \in Closure(m) |-> d]]
      BY <2>2
    <3>2. work.resolved[m].from = Texts(m)
      BY <1>0 DEF Resolving, FromTexts
    <3> HIDE DEF used
    <3> QED BY <3>1, <3>2 DEF CheckedFrom, FromTexts, Anchored
  <2> QED BY <2>1, <2>2
<1>3. DOMAIN used = Members
  OBVIOUS
<1> HIDE DEF used
<1>4. ASSUME NEW arts, DOMAIN arts \subseteq Members, \A m \in DOMAIN arts : CheckedFrom(arts[m], Texts(m)),
             checked' = Put(checked, arts)
      PROVE  MemoryHonest'
  <2>0. /\ DOMAIN Put(checked, arts) = DOMAIN arts \union DOMAIN checked
        /\ \A m \in DOMAIN arts : Put(checked, arts)[m] = [sources |-> Sources(m), art |-> arts[m]]
        /\ \A m \in DOMAIN checked \ DOMAIN arts : Put(checked, arts)[m] = checked[m]
    BY <1>4, PutHonest, ZenonT(30)
  <2>1. ASSUME NEW m \in DOMAIN checked' PROVE CheckedFrom(checked'[m].art, TextsOf(checked'[m].sources))
    <3>1. CASE m \in DOMAIN arts
      <4>1. checked'[m] = [sources |-> Sources(m), art |-> arts[m]]
        BY <1>4, <2>0, <3>1
      <4>2. TextsOf(Sources(m)) = Texts(m)
        BY <1>0, <1>4, <3>1, TextsCurrent
      <4> QED BY <1>4, <3>1, <4>1, <4>2
    <3>2. CASE m \notin DOMAIN arts
      <4>1. m \in DOMAIN checked /\ checked'[m] = checked[m]
        BY <1>4, <2>0, <2>1, <3>2
      <4> QED BY <1>0, <4>1 DEF StoresInv, MemoryHonest
    <3> QED BY <3>1, <3>2
  <2> QED BY <1>0, <2>1 DEF StoresInv, MemoryHonest
<1>5. StoresInv'
  <2>1. CASE session.open
    <3>1. checked' = Put(checked, CheckedRestored) /\ UNCHANGED slots
      BY <1>1, <2>1
    <3>2. DOMAIN CheckedRestored \subseteq Members /\ \A m \in DOMAIN CheckedRestored : CheckedFrom(CheckedRestored[m], Texts(m))
      BY <1>0, RestoredFresh
    <3>3. MemoryHonest'
      BY <1>4, <3>1, <3>2
    <3> QED BY <1>0, <3>1, <3>3 DEF StoresInv, SlotsHonest, ImagesAnchored
  <2>2. CASE ~session.open
    <3>1. MemoryHonest'
      BY <1>1, <1>2, <1>3, <1>4, <2>2
    <3> DEFINE arts == [m \in Members |-> Image(m, used[m])]
    <3>2. \A m \in Members : arts[m].from = Texts(m) /\ arts[m].refs = Places(AsTable(Closure(m)))
      <4>1. \A m \in Members : Anchors(m) = AsTable(Closure(m))
        BY <1>0, AnchorsWhole
      <4> QED BY <1>2, <4>1 DEF Image, CheckedFrom, FromTexts
    <3>3. slots' = Saved("checked", checked, DOMAIN CheckedRestored, arts)
      BY <1>1, <2>2
    <3> HIDE DEF arts
    <3>4. SlotsHonest' /\ ImagesAnchored'
      BY <1>0, <3>2, <3>3, SavedHonest DEF StoresInv
    <3> QED BY <3>1, <3>4 DEF StoresInv
  <2> QED BY <2>1, <2>2
<1>6. Members' = Members /\ (\A m : Closure(m)' = Closure(m) /\ Texts(m)' = Texts(m))
      /\ Present' = Present /\ FileDeps' = FileDeps /\ \A m : FileTexts(m)' = FileTexts(m)
  BY <1>0, <1>1, SameFiles DEF Members, Closure, Texts
<1>7. SessionCurrent' /\ (session.open => session'.open /\ DOMAIN session'.resolved = Members \union DOMAIN session.resolved)
  <2>1. CASE ~session.open
    BY <1>0, <1>1, <2>1, SessionStays
  <2>2. CASE session.open
    <3>1. DOMAIN session = SessionFields
          /\ session' = [session EXCEPT !.resolved = Onto(work.resolved, @), !.checked = Onto(used, @)]
      BY <1>0, <1>1, <2>2 DEF SessionCurrent
    <3>2. /\ DOMAIN session' = SessionFields /\ session'.open /\ session'.loaded = session.loaded
          /\ session'.resolved = Onto(work.resolved, session.resolved) /\ session'.checked = Onto(used, session.checked)
      BY <2>2, <3>1 DEF SessionFields
    <3>3. /\ DOMAIN session'.resolved = Members \union DOMAIN session.resolved
          /\ \A m \in Members : session'.resolved[m] = work.resolved[m]
          /\ \A m \in DOMAIN session.resolved \ Members : session'.resolved[m] = session.resolved[m]
      <4>1. DOMAIN work.resolved = Members
        BY <1>0 DEF Resolving
      <4> QED BY <3>2, <4>1, ZenonT(30) DEF Onto
    <3>4. /\ DOMAIN session'.checked = Members \union DOMAIN session.checked
          /\ \A m \in Members : session'.checked[m] = used[m]
          /\ \A m \in DOMAIN session.checked \ Members : session'.checked[m] = session.checked[m]
      BY <1>3, <3>2, Zenon DEF Onto
    <3>5. \A m \in Members : Texts(m) = FileTexts(m)
      BY <1>0, TextsCurrent
    <3>6. \A m \in DOMAIN session'.resolved : FromTexts(session'.resolved[m], FileTexts(m))
      BY <1>0, <3>3, <3>5 DEF SessionCurrent, Resolving
    <3>7. \A m \in DOMAIN session'.checked : CheckedFrom(session'.checked[m], FileTexts(m))
      BY <1>0, <1>2, <3>4, <3>5 DEF SessionCurrent
    <3>8. DOMAIN session'.resolved \subseteq Present /\ ClosedUnder(DOMAIN session'.resolved, FileDeps)
      BY <1>0, <3>3 DEF SessionCurrent, Loading, ClosedUnder
    <3> QED BY <1>0, <1>6, <3>2, <3>3, <3>4, <3>6, <3>7, <3>8 DEF SessionCurrent
  <2> QED BY <2>1, <2>2
<1>8. Loading'
  <2>1. work.booting => session'.open
    BY <1>0, <1>7 DEF Loading
  <2> QED BY <1>0, <1>1, <2>1, LoadingStays
<1>9. Resolving' /\ CheckDone'
  <2>1. DOMAIN work'.resolved = Members /\ \A m \in Members : FromTexts(work'.resolved[m], Texts(m))
    BY <1>0, <1>1 DEF Resolving
  <2>2. work'.checked = used /\ work'.at = "checked" /\ work'.booting = work.booting
    BY <1>1
  <2>3. session'.open => session.open
    BY <1>1
  <2>4. work.booting => session.open /\ DOMAIN session.resolved = {}
    BY <1>0 DEF Loading
  <2>5. (session'.open => Members \subseteq DOMAIN session'.resolved) /\ (work.booting => Members = DOMAIN session'.resolved)
    BY <1>7, <2>3, <2>4
  <2> QED BY <1>2, <1>3, <1>6, <2>1, <2>2, <2>5 DEF Resolving, CheckDone
<1>10. WorkCurrent'
  BY <1>1, <1>8, <1>9 DEF WorkCurrent
<1> QED BY <1>0, <1>5, <1>7, <1>10, ImageStays DEF CacheInv

-----------------------------------------------------------------------------
(* Sessions, their image, edits and evictions. *)

LEMMA EndKeeps == CacheInv /\ (EndProgram \/ Drop) => CacheInv'
<1> SUFFICES ASSUME CacheInv, EndProgram \/ Drop PROVE CacheInv'
  OBVIOUS
<1>1. UNCHANGED <<files, resolved, checked, boot, slots, session>> /\ work' = IdleWork
  BY DEF EndProgram, Drop, memory
<1>2. WorkCurrent'
  BY <1>1, WorkEnds
<1> QED BY <1>1, <1>2, SessionStays, ImageStays, StoresStay DEF CacheInv

\* An image is kept with what its wildcards found: each other.
LEMMA KeepKeeps == CacheInv /\ Keep => CacheInv'
<1> SUFFICES ASSUME CacheInv, Keep PROVE CacheInv'
  OBVIOUS
<1>0. /\ UNCHANGED <<files, resolved, checked, slots>> /\ work' = IdleWork /\ work.at = "checked" /\ session.open
      /\ Loading /\ Resolving /\ CheckDone /\ SessionCurrent /\ files \in [Mod -> Text \union {Absent}]
      /\ session' = [session EXCEPT !.loaded = work.graph] /\ boot' = IF work.booting THEN session' ELSE boot
  BY DEF Keep, CacheInv, WorkCurrent
<1>1. WorkCurrent'
  BY <1>0, WorkEnds
<1>2. /\ DOMAIN session' = SessionFields /\ session'.open = TRUE /\ session'.loaded = work.graph
      /\ session'.resolved = session.resolved /\ session'.checked = session.checked
  BY <1>0 DEF SessionCurrent, SessionFields
<1>3. Present' = Present /\ FileDeps' = FileDeps /\ \A m : FileTexts(m)' = FileTexts(m)
  BY <1>0, SameFiles
<1>4. SessionCurrent'
  BY ZenonT(60), <1>0, <1>2, <1>3 DEF SessionCurrent, Loading, CheckDone, Members
<1>5. ASSUME work.booting PROVE ImageCurrent'
  <2> DEFINE own == work.graph
  <2>1. DOMAIN own = Members /\ Members \subseteq Present /\ Members \subseteq Mod /\ ClosedUnder(Members, FileDeps)
        /\ \A m \in Members : own[m].text = files[m] /\ files[m] # Absent
    BY <1>0 DEF Loading, Members, Present
  <2> HIDE DEF own
  <2>2. \A m \in Members : ImageDeps(own)[m] = FileDeps[m]
    <3> SUFFICES ASSUME NEW m \in Members PROVE ImageDeps(own)[m] = FileDeps[m]
      OBVIOUS
    <3>1. FileDeps[m] = Explicit[m][files[m]] \union (Wild[m] \intersect Present)
      BY <2>1 DEF FileDeps
    <3>2. ImageDeps(own)[m] = Explicit[m][files[m]] \union (Wild[m] \intersect Members)
      BY <2>1 DEF ImageDeps
    <3>3. Wild[m] \intersect Present \subseteq Members
      BY <2>1, <3>1 DEF ClosedUnder
    <3> QED BY <2>1, <3>1, <3>2, <3>3
  <2>3. BootRoots \subseteq Members /\ Members = Reachable(BootRoots, FileDeps)
    <3>1. Members = Reachable(BootRoots, FileDeps) /\ BootRoots \in SUBSET Mod
      BY <1>0, <1>5, TextAssumption DEF Loading
    <3> QED BY <3>1 DEF Reachable
  <2>4. Members = Reachable(BootRoots, ImageDeps(own))
    BY <2>1, <2>2, <2>3, ReachableWithin
  <2>5. ASSUME NEW m \in Members PROVE ImageTexts(own, m) = FileTexts(m)
    <3>1. Reachable({m}, ImageDeps(own)) = Reachable({m}, FileDeps)
      BY <2>1, <2>2, ReachableWithin
    <3>2. Reachable({m}, FileDeps) \subseteq Members
      BY <2>1, ReachableLeast
    <3> QED BY <2>1, <3>1, <3>2 DEF ImageTexts, FileTexts
  <2>6. Members = DOMAIN session.resolved
    BY <1>0, <1>5 DEF CheckDone
  <2>7. boot' = session' /\ session'.loaded = own
    BY <1>0, <1>2, <1>5 DEF own
  <2>8. \A m \in DOMAIN own : FromTexts(session.resolved[m], ImageTexts(own, m))
    BY <1>0, <2>1, <2>5, <2>6 DEF SessionCurrent
  <2>9. DOMAIN session.checked \subseteq DOMAIN own
        /\ \A m \in DOMAIN session.checked : CheckedFrom(session.checked[m], ImageTexts(own, m))
    BY <1>0, <2>1, <2>5, <2>6 DEF SessionCurrent
  <2> QED BY <1>2, <2>1, <2>4, <2>6, <2>7, <2>8, <2>9 DEF ImageCurrent
<1>6. ASSUME ~work.booting PROVE ImageCurrent'
  BY <1>0, <1>6, ImageStays DEF CacheInv
<1> QED BY <1>0, <1>1, <1>4, <1>5, <1>6, StoresStay DEF CacheInv

\* A valid image, read by the files: its modules, what they import, and their texts.
LEMMA ImageByFiles ==
  ASSUME ImageCurrent, BootValid, files \in [Mod -> Text \union {Absent}]
  PROVE  /\ DOMAIN boot.loaded = Reachable(BootRoots, FileDeps)
         /\ DOMAIN boot.loaded \subseteq Present /\ ClosedUnder(DOMAIN boot.loaded, FileDeps)
         /\ \A m \in DOMAIN boot.loaded : ImageTexts(boot.loaded, m) = FileTexts(m)
<1> DEFINE own == boot.loaded
<1>1. DOMAIN own = Reachable(BootRoots, ImageDeps(own)) /\ \A m \in DOMAIN own : own[m].text # Absent
  BY DEF ImageCurrent, BootValid
<1>2. (\A m \in DOMAIN own : files[m] = own[m].text) /\ \A m \in DOMAIN own : Wild[m] \intersect Present = Wild[m] \intersect DOMAIN own
  BY DEF BootValid, SameWildcards
<1> HIDE DEF own
<1>3. DOMAIN own \subseteq Mod
  BY <1>1 DEF Reachable
<1>4. \A m \in DOMAIN own : FileDeps[m] = ImageDeps(own)[m]
  <2> SUFFICES ASSUME NEW m \in DOMAIN own PROVE FileDeps[m] = ImageDeps(own)[m]
    OBVIOUS
  <2>1. m \in Mod /\ files[m] = own[m].text /\ files[m] # Absent /\ Wild[m] \intersect Present = Wild[m] \intersect DOMAIN own
    BY <1>1, <1>2, <1>3
  <2>2. FileDeps[m] = Explicit[m][files[m]] \union (Wild[m] \intersect Present)
    BY <2>1 DEF FileDeps
  <2>3. ImageDeps(own)[m] = Explicit[m][own[m].text] \union (Wild[m] \intersect DOMAIN own)
    BY <2>1 DEF ImageDeps
  <2> QED BY <2>1, <2>2, <2>3
<1>5. \A m \in Mod : ImageDeps(own)[m] \subseteq Mod
  <2>1. \A m \in Mod : FileDeps[m] \subseteq Mod
    BY FileDepsTyped
  <2>2. \A m \in Mod \ DOMAIN own : ImageDeps(own)[m] = {}
    BY DEF ImageDeps
  <2> QED BY <1>4, <2>1, <2>2
<1>6. BootRoots \subseteq DOMAIN own /\ ClosedUnder(DOMAIN own, ImageDeps(own))
  <2>1. BootRoots \in SUBSET Mod
    BY TextAssumption
  <2> QED BY <1>1, <1>5, <2>1, ReachableClosed
<1>7. ClosedUnder(DOMAIN own, FileDeps)
  BY <1>4, <1>6 DEF ClosedUnder
<1>8. Reachable(BootRoots, FileDeps) = Reachable(BootRoots, ImageDeps(own))
  BY <1>3, <1>4, <1>6, ReachableWithin
<1>9. ASSUME NEW m \in DOMAIN own PROVE ImageTexts(own, m) = FileTexts(m)
  <2>1. Reachable({m}, FileDeps) = Reachable({m}, ImageDeps(own))
    BY <1>3, <1>4, <1>6, ReachableWithin
  <2>2. Reachable({m}, FileDeps) \subseteq DOMAIN own
    BY <1>3, <1>7, ReachableLeast
  <2> QED BY <1>2, <2>1, <2>2 DEF ImageTexts, FileTexts
<1>10. DOMAIN own \subseteq Present
  BY <1>1, <1>2, <1>3 DEF Present
<1> QED BY <1>1, <1>7, <1>8, <1>9, <1>10 DEF own

LEMMA OpenCachedKeeps == CacheInv /\ OpenCached => CacheInv'
<1> SUFFICES ASSUME CacheInv, OpenCached PROVE CacheInv'
  OBVIOUS
<1>0. /\ UNCHANGED <<files, resolved, checked, boot, slots, work>> /\ work.at = "idle" /\ session' = boot
      /\ BootValid /\ ImageCurrent /\ files \in [Mod -> Text \union {Absent}]
  BY DEF OpenCached, CacheInv, memory
<1>1. Present' = Present /\ FileDeps' = FileDeps /\ \A m : FileTexts(m)' = FileTexts(m)
  BY <1>0, SameFiles
<1>2. /\ DOMAIN boot.loaded \subseteq Present /\ ClosedUnder(DOMAIN boot.loaded, FileDeps)
      /\ \A m \in DOMAIN boot.loaded : ImageTexts(boot.loaded, m) = FileTexts(m)
  BY <1>0, ImageByFiles
<1>3. /\ DOMAIN boot = SessionFields /\ boot.open = TRUE /\ DOMAIN boot.resolved = DOMAIN boot.loaded
      /\ DOMAIN boot.checked \subseteq DOMAIN boot.loaded
      /\ \A m \in DOMAIN boot.loaded : FromTexts(boot.resolved[m], ImageTexts(boot.loaded, m))
      /\ \A m \in DOMAIN boot.checked : CheckedFrom(boot.checked[m], ImageTexts(boot.loaded, m))
      /\ \A m \in DOMAIN boot.loaded : boot.loaded[m].text = files[m]
  BY <1>0 DEF ImageCurrent, BootValid
<1>4. SessionCurrent'
  BY <1>0, <1>1, <1>2, <1>3 DEF SessionCurrent
<1>5. WorkCurrent'
  BY <1>0, IdleStays DEF CacheInv
<1> QED BY <1>0, <1>4, <1>5, ImageStays, StoresStay DEF CacheInv

LEMMA CloseKeeps == CacheInv /\ (Close \/ ResetSession) => CacheInv'
<1> SUFFICES ASSUME CacheInv, Close \/ ResetSession PROVE CacheInv'
  OBVIOUS
<1>0. UNCHANGED <<files, resolved, checked, boot, slots, work>> /\ work.at = "idle"
  BY DEF Close, ResetSession, memory
<1>1. Present' = Present /\ FileDeps' = FileDeps /\ \A m : FileTexts(m)' = FileTexts(m)
  BY <1>0, SameFiles
<1>2. SessionCurrent'
  <2>1. CASE Close
    BY <2>1, SessionEnds DEF Close
  <2>2. CASE ResetSession
    <3>1. SessionCurrent /\ session.open /\ session' = [session EXCEPT !.loaded = <<>>]
      BY <2>2 DEF CacheInv, ResetSession
    <3>2. /\ DOMAIN session' = SessionFields /\ session'.open = session.open /\ session'.loaded = <<>>
          /\ session'.resolved = session.resolved /\ session'.checked = session.checked
      BY <3>1 DEF SessionCurrent, SessionFields
    <3>3. /\ DOMAIN session.checked \subseteq DOMAIN session.resolved
          /\ DOMAIN session.resolved \subseteq Present /\ ClosedUnder(DOMAIN session.resolved, FileDeps)
          /\ \A m \in DOMAIN session.resolved : FromTexts(session.resolved[m], FileTexts(m))
          /\ \A m \in DOMAIN session.checked : CheckedFrom(session.checked[m], FileTexts(m))
      BY <3>1 DEF SessionCurrent
    <3>4. \A m \in DOMAIN session'.checked : CheckedFrom(session'.checked[m], FileTexts(m)')
      BY <1>1, <3>2, <3>3
    <3>5. \A m \in DOMAIN session'.resolved : FromTexts(session'.resolved[m], FileTexts(m)')
      BY <1>1, <3>2, <3>3
    <3>6. /\ DOMAIN session'.loaded = {} /\ DOMAIN session'.checked \subseteq DOMAIN session'.resolved
          /\ DOMAIN session'.resolved \subseteq Present' /\ ClosedUnder(DOMAIN session'.resolved, FileDeps')
      BY <1>1, <3>2, <3>3
    <3> QED BY <3>1, <3>2, <3>4, <3>5, <3>6 DEF SessionCurrent
  <2> QED BY <2>1, <2>2
<1>3. WorkCurrent'
  BY <1>0, IdleStays DEF CacheInv
<1> QED BY <1>0, <1>2, <1>3, ImageStays, StoresStay DEF CacheInv

\* An edit changes nothing that a module of the session reaches.
LEMMA EditKeeps == CacheInv /\ ~SessionReloads /\ Edit => CacheInv'
<1> SUFFICES ASSUME CacheInv, ~SessionReloads, Edit PROVE CacheInv'
  OBVIOUS
<1>0. UNCHANGED <<resolved, checked, boot, slots, session>> /\ work.at = "idle" /\ Moves
  BY DEF Edit, Moves, memory
<1>1. PICK m \in Editable : \E t \in Versions[m] : files' = [files EXCEPT ![m] = t]
  BY DEF Edit
<1>2. PICK t \in Versions[m] : files' = [files EXCEPT ![m] = t]
  BY <1>1
<1> DEFINE D == DOMAIN session.resolved
<1>3. m \in Mod /\ \A d \in D : m # d /\ m \notin Wild[d]
  BY <1>1 DEF Editable
<1>4. files \in [Mod -> Text \union {Absent}] /\ SessionCurrent /\ t \in Text \union {Absent}
  BY <1>2, <1>3, TextAssumption DEF CacheInv
<1>5. files' \in [Mod -> Text \union {Absent}] /\ \A d \in Mod \ {m} : files'[d] = files[d]
  BY <1>2, <1>3, <1>4
<1>6. D \subseteq Mod /\ D \subseteq Present /\ ClosedUnder(D, FileDeps) /\ DOMAIN session.loaded \subseteq D /\ DOMAIN session.checked \subseteq D
  BY <1>4 DEF SessionCurrent, Present
<1> HIDE DEF D
<1>7. \A d \in Mod \ {m} : d \in Present' <=> d \in Present
  BY <1>5 DEF Present
<1>8. \A d \in D : FileDeps'[d] = FileDeps[d]
  <2> SUFFICES ASSUME NEW d \in D PROVE FileDeps'[d] = FileDeps[d]
    OBVIOUS
  <2>1. files'[d] = files[d] /\ d \in Mod /\ m \notin Wild[d] /\ Wild[d] \subseteq Mod
    BY <1>3, <1>5, <1>6, TextAssumption
  <2>2. Wild[d] \intersect Present' = Wild[d] \intersect Present
    BY <1>7, <2>1
  <2> QED BY <2>1, <2>2 DEF FileDeps
<1>9. ClosedUnder(D, FileDeps') /\ D \subseteq Present' /\ \A d \in D : files'[d] = files[d]
  BY <1>3, <1>5, <1>6, <1>7, <1>8 DEF ClosedUnder
<1>10. ASSUME NEW d \in D PROVE FileTexts(d)' = FileTexts(d)
  <2>1. Reachable({d}, FileDeps') = Reachable({d}, FileDeps)
    BY <1>6, <1>8, ReachableWithin
  <2>2. Reachable({d}, FileDeps) \subseteq D
    BY <1>6, ReachableLeast
  <2> QED BY <1>9, <2>1, <2>2 DEF FileTexts
<1>11. SessionCurrent'
  <2>1. \A d \in DOMAIN session.resolved : FromTexts(session.resolved[d], FileTexts(d)')
    BY <1>4, <1>10 DEF SessionCurrent, D
  <2>2. \A d \in DOMAIN session.checked : CheckedFrom(session.checked[d], FileTexts(d)')
    BY <1>4, <1>6, <1>10 DEF SessionCurrent
  <2>3. \A d \in DOMAIN session.loaded : session.loaded[d].text = files'[d]
    BY <1>4, <1>6, <1>9 DEF SessionCurrent
  <2>4. session' = session
    BY <1>0
  <2> QED BY <1>4, <1>9, <2>1, <2>2, <2>3, <2>4 DEF SessionCurrent, D
<1>12. WorkCurrent'
  BY <1>0, IdleStays DEF CacheInv
<1> QED BY <1>0, <1>5, <1>11, <1>12, ImageStays, StoresStay DEF CacheInv

LEMMA EvictionKeeps == CacheInv /\ (EvictParsed \/ EvictResolved \/ EvictChecked) => CacheInv'
<1> SUFFICES ASSUME CacheInv, EvictParsed \/ EvictResolved \/ EvictChecked PROVE CacheInv'
  OBVIOUS
<1>0. UNCHANGED <<files, boot, slots, session>> /\ work.at = "idle" /\ Moves
  BY DEF EvictParsed, EvictResolved, EvictChecked, Moves
<1>1. ASSUME NEW store, NEW m PROVE /\ DOMAIN Without(store, m) \subseteq DOMAIN store
                                    /\ \A n \in DOMAIN Without(store, m) : Without(store, m)[n] = store[n]
  BY DEF Without, Restrict
<1>2. /\ DOMAIN resolved' \subseteq DOMAIN resolved /\ \A n \in DOMAIN resolved' : resolved'[n] = resolved[n]
      /\ DOMAIN checked' \subseteq DOMAIN checked /\ \A n \in DOMAIN checked' : checked'[n] = checked[n]
  BY <1>1 DEF EvictParsed, EvictResolved, EvictChecked
<1>3. MemoryHonest'
  BY <1>2 DEF CacheInv, StoresInv, MemoryHonest
<1>4. SlotsHonest' /\ ImagesAnchored'
  BY <1>0 DEF CacheInv, StoresInv, SlotsHonest, ImagesAnchored
<1>5. WorkCurrent'
  BY <1>0, IdleStays DEF CacheInv
<1> QED BY <1>0, <1>3, <1>4, <1>5, SessionStays, ImageStays DEF CacheInv, StoresInv

\* A torn slot is still of its identity.
LEMMA ExitKeeps == CacheInv /\ Exit => CacheInv'
<1> SUFFICES ASSUME CacheInv, Exit PROVE CacheInv'
  OBVIOUS
<1>0. /\ UNCHANGED files /\ resolved' = <<>> /\ checked' = <<>> /\ boot' = <<>>
      /\ session' = NoSession /\ work' = IdleWork
  BY DEF Exit
<1>1. MemoryHonest'
  BY <1>0 DEF MemoryHonest
<1>2. SlotsHonest' /\ ImagesAnchored'
  <2>1. CASE UNCHANGED slots
    BY <2>1 DEF CacheInv, StoresInv, SlotsHonest, ImagesAnchored
  <2>2. CASE \E torn \in DOMAIN slots : slots' = [slots EXCEPT ![torn].whole = FALSE]
    <3>1. PICK torn \in DOMAIN slots : slots' = [slots EXCEPT ![torn].whole = FALSE]
      BY <2>2
    <3>2. DOMAIN slots' = DOMAIN slots /\ (\A slot \in DOMAIN slots \ {torn} : slots'[slot] = slots[slot])
          /\ slots'[torn] = [slots[torn] EXCEPT !.whole = FALSE]
      BY <3>1
    <3>3. \A slot \in DOMAIN slots : slots'[slot].arts = slots[slot].arts
      BY <3>2 DEF CacheInv, StoresInv, ImagesAnchored
    <3>4. \A slot \in DOMAIN slots : "arts" \in DOMAIN slots'[slot]
      BY <3>2 DEF CacheInv, StoresInv, ImagesAnchored
    <3> QED BY <3>2, <3>3, <3>4 DEF CacheInv, StoresInv, SlotsHonest, ImagesAnchored
  <2> QED BY <2>1, <2>2 DEF Exit
<1>3. ImageCurrent'
  BY <1>0 DEF ImageCurrent
<1>4. SessionCurrent' /\ WorkCurrent'
  BY <1>0, SessionEnds, WorkEnds
<1> QED BY <1>0, <1>1, <1>2, <1>3, <1>4 DEF CacheInv, StoresInv

LEMMA CacheInitially == CacheInit => CacheInv
<1> SUFFICES ASSUME CacheInit PROVE CacheInv
  OBVIOUS
<1>1. files \in [Mod -> Text \union {Absent}]
  BY TextAssumption DEF CacheInit
<1>2. StoresInv /\ ImageCurrent
  BY DEF CacheInit, StoresInv, MemoryHonest, SlotsHonest, ImagesAnchored, ImageCurrent
<1>3. SessionCurrent
  BY DEF CacheInit, SessionCurrent, NoSession, SessionFields, ClosedUnder
<1>4. WorkCurrent
  BY DEF CacheInit, WorkCurrent, IdleWork
<1> QED BY <1>1, <1>2, <1>3, <1>4 DEF CacheInv

LEMMA CacheStep == CacheInv /\ ~SessionReloads /\ [CacheNext]_cacheVars => CacheInv'
<1> SUFFICES ASSUME CacheInv, ~SessionReloads, [CacheNext]_cacheVars PROVE CacheInv'
  OBVIOUS
<1>1. CASE UNCHANGED cacheVars
  <2>1. UNCHANGED <<files, resolved, checked, boot, slots, session, work>>
    BY <1>1 DEF cacheVars, memory
  <2>2. WorkCurrent'
    <3>1. Present' = Present /\ FileDeps' = FileDeps /\ Members' = Members
          /\ \A m : Texts(m)' = Texts(m) /\ (Hit(resolved, m) <=> Hit(resolved, m)')
      BY <2>1, SameFiles DEF Members, Texts, Closure, Hit, Sources
    <3> QED BY <2>1, <3>1 DEF CacheInv, WorkCurrent, Loading, Resolving, CheckDone
  <2> QED BY <2>1, <2>2, SessionStays, ImageStays, StoresStay DEF CacheInv
<1> QED BY <1>1, CompileKeeps, ResolveKeeps, CheckKeeps, EndKeeps, KeepKeeps, OpenCachedKeeps, OpenFreshKeeps, CloseKeeps,
           EditKeeps, EvictionKeeps, ExitKeeps DEF CacheNext

THEOREM CachesCurrent == ~SessionReloads /\ CacheSpec => []CacheInv
<1> SUFFICES ASSUME ~SessionReloads PROVE CacheSpec => []CacheInv
  OBVIOUS
<1>1. CacheInv /\ [CacheNext]_cacheVars => CacheInv'
  BY CacheStep
<1> QED BY <1>1, CacheInitially, PTL DEF CacheSpec

\* Whatever a compilation reuses, from memory, from disk or from its session, is what
\* it would have derived from the sources it loaded, as long as no file changes under
\* a session that has artifacts of it (AglStale has what happens when one does).
THEOREM ReusedIsFresh == ~SessionReloads /\ CacheSpec => []ServedFresh
<1>1. CacheInv => ServedFresh
  BY DEF CacheInv, WorkCurrent, Resolving, CheckDone, CheckedFrom, FromTexts, ServedFresh
<1> QED BY <1>1, CachesCurrent, PTL

\* An image read back refers to the resolutions it was written with, in any process
\* and for any program.
THEOREM ImagesAnchorRight == ~SessionReloads /\ CacheSpec => []AnchoredRight
<1>1. CacheInv => AnchoredRight
  BY DEF CacheInv, WorkCurrent, CheckDone, CheckedFrom, Anchored, AnchoredRight
<1> QED BY <1>1, CachesCurrent, PTL

\* What is on disk under the identity of some sources was derived from them.
THEOREM DiskHonest == ~SessionReloads /\ CacheSpec => []SlotsHonest
<1>1. CacheInv => SlotsHonest
  BY DEF CacheInv, StoresInv
<1> QED BY <1>1, CachesCurrent, PTL

\* A session that starts from the image of another starts from what the files are.
THEOREM BootedCurrent == ~SessionReloads /\ CacheSpec => BootCurrent
<1>1. ASSUME CacheInv, OpenCached
      PROVE  /\ DOMAIN session'.loaded = GraphOf(BootRoots)
             /\ \A m \in DOMAIN session'.loaded : session'.loaded[m].text = files[m]
  <2>0. session = NoSession /\ session' = boot /\ BootValid /\ ImageCurrent /\ SessionCurrent
        /\ files \in [Mod -> Text \union {Absent}]
    BY <1>1 DEF OpenCached, CacheInv, SessionCurrent
  <2>1. BootRoots \union DOMAIN session.loaded = BootRoots
    BY <2>0 DEF NoSession
  <2>2. GraphOf(BootRoots) = Reachable(BootRoots, FileDeps)
    BY <2>0, <2>1, DepsCurrent
  <2>3. DOMAIN boot.loaded = Reachable(BootRoots, FileDeps)
    BY <2>0, ImageByFiles
  <2> QED BY <2>0, <2>2, <2>3 DEF BootValid
<1>2. CacheInv => [OpenCached =>
        /\ DOMAIN session'.loaded = GraphOf(BootRoots)
        /\ \A m \in DOMAIN session'.loaded : session'.loaded[m].text = files[m]]_cacheVars
  BY <1>1
<1> QED BY <1>2, CachesCurrent, PTL DEF BootCurrent


-----------------------------------------------------------------------------
(* Types, whatever changes under a session. *)

CacheTypes ==
    /\ files \in [Mod -> Text \union {Absent}] /\ \A m \in Mod : files[m] \in Versions[m]
    /\ clock \in 0..MaxCompiles
    /\ DOMAIN parsed \subseteq Mod /\ DOMAIN resolved \subseteq Mod /\ DOMAIN checked \subseteq Mod
    /\ DOMAIN session = SessionFields /\ DOMAIN session.loaded \subseteq Mod
    /\ boot # <<>> => DOMAIN boot = SessionFields /\ DOMAIN boot.loaded \subseteq Mod
    /\ work.at \in {"idle", "loaded", "resolved", "checked"}
    /\ work.at = "idle" => "moves" \in DOMAIN work /\ "at" \in DOMAIN work
    /\ work.at # "idle" => Members \subseteq Mod

LEMMA OntoWithin ==
  ASSUME NEW new, NEW store, DOMAIN new \subseteq Mod, DOMAIN store \subseteq Mod
  PROVE  DOMAIN Onto(new, store) \subseteq Mod
BY DEF Onto

LEMMA LoadTypes ==
  ASSUME CacheTypes, NEW roots, NEW booting, Load(roots, booting)
  PROVE  /\ files' = files /\ clock' \in 0..MaxCompiles /\ DOMAIN parsed' \subseteq Mod
         /\ resolved' = resolved /\ checked' = checked /\ work'.at = "loaded" /\ Members' \subseteq Mod
<1>1. GraphOf(roots) \subseteq Mod
  BY DEF GraphOf, Reachable
<1>2. clock < MaxCompiles /\ clock' = clock + 1 /\ UNCHANGED <<files, resolved, checked, slots>>
  BY DEF Load
<1>3. DOMAIN parsed' \subseteq Mod
  <2> DEFINE read == [m \in GraphOf(roots) \ DOMAIN session.loaded |-> Loaded(m)]
  <2>1. parsed' = Onto(read, parsed) /\ DOMAIN read \subseteq Mod
    BY <1>1 DEF Load
  <2> HIDE DEF read
  <2> QED BY <2>1, OntoWithin DEF CacheTypes
<1>4. work'.at = "loaded" /\ DOMAIN work'.graph = GraphOf(roots)
  BY DEF Load
<1> QED BY <1>1, <1>2, <1>3, <1>4, CompileAssumption DEF CacheTypes, Members

LEMMA PutWithin ==
  ASSUME NEW store, DOMAIN store \subseteq Mod, NEW art, DOMAIN art \subseteq Mod
  PROVE  DOMAIN Put(store, art) \subseteq Mod
BY OntoWithin DEF Put

LEMMA CacheTypesStep ==
  ASSUME CacheTypes, [CacheNext]_cacheVars
  PROVE  CacheTypes'
<1>1. CASE CompileProgram
  <2>1. PICK roots \in Roots : Load(roots, FALSE) /\ UNCHANGED <<boot, session>>
    BY <1>1 DEF CompileProgram
  <2> QED BY <2>1, LoadTypes DEF CacheTypes
<1>2. CASE OpenFresh
  <2>1. Load(BootRoots, TRUE) /\ session' = [NoSession EXCEPT !.open = TRUE] /\ boot' = <<>>
    BY <1>2 DEF OpenFresh
  <2>2. DOMAIN session' = SessionFields /\ DOMAIN session'.loaded = {}
    BY <2>1 DEF NoSession, SessionFields
  <2> QED BY <2>1, <2>2, LoadTypes DEF CacheTypes
<1>3. CASE Resolve
  <2> DEFINE used == [m \in Members |->
                       IF Reusable(m) THEN Resolution[m]
                       ELSE [from |-> Texts(m), program |-> work.graph[m], id |-> clock]]
  <2>1. /\ work' = [at |-> "resolved", booting |-> work.booting, graph |-> work.graph,
                    reach |-> work.reach, resolved |-> used]
        /\ resolved' = Put(resolved, used) /\ work.at = "loaded"
        /\ UNCHANGED <<files, parsed, checked, boot, session, clock>>
    BY <1>3 DEF Resolve
  <2>2. DOMAIN used = Members
    OBVIOUS
  <2> HIDE DEF used
  <2>3. DOMAIN resolved' \subseteq Mod
    BY <2>1, <2>2, PutWithin DEF CacheTypes
  <2>4. work'.at = "resolved" /\ Members' = Members
    BY <2>1 DEF Members
  <2> QED BY <2>1, <2>3, <2>4 DEF CacheTypes
<1>4. CASE Check
  <2> DEFINE used == [m \in Members |->
                       IF CheckReusable(m)
                       THEN [Checking[m] EXCEPT !.image = FALSE, !.of = work.resolved[m].id]
                       ELSE [from |-> work.resolved[m].from, image |-> FALSE,
                             of |-> work.resolved[m].id, anchors |-> [d \in Closure(m) |-> d]]]
  <2>1. /\ work' = [at |-> "checked", booting |-> work.booting, graph |-> work.graph,
                    reach |-> work.reach, resolved |-> work.resolved, checked |-> used]
        /\ \/ checked' = Put(checked, CheckedRestored)
              /\ session' = [session EXCEPT !.resolved = Onto(work.resolved, @), !.checked = Onto(used, @)]
           \/ checked' = Put(checked, used) /\ UNCHANGED session
        /\ work.at = "resolved" /\ UNCHANGED <<files, parsed, resolved, boot, clock>>
    BY <1>4 DEF Check
  <2>2. DOMAIN used = Members /\ DOMAIN CheckedRestored \subseteq Members
    BY DEF CheckedRestored
  <2> HIDE DEF used
  <2>3. DOMAIN checked' \subseteq Mod
    BY <2>1, <2>2, PutWithin DEF CacheTypes
  <2>4. work'.at = "checked" /\ Members' = Members
    BY <2>1 DEF Members
  <2>5. DOMAIN session' = SessionFields /\ session'.loaded = session.loaded
    BY <2>1 DEF CacheTypes, SessionFields
  <2> QED BY <2>1, <2>3, <2>4, <2>5 DEF CacheTypes
<1>5. CASE EndProgram \/ Drop
  BY <1>5 DEF EndProgram, Drop, CacheTypes, memory, IdleWork
<1>6. CASE Keep
  <2>1. session' = [session EXCEPT !.loaded = work.graph] /\ work' = IdleWork /\ work.at = "checked"
    BY <1>6 DEF Keep
  <2>2. DOMAIN session' = SessionFields /\ DOMAIN session'.loaded \subseteq Mod
    BY <2>1 DEF CacheTypes, SessionFields, Members
  <2>3. (boot' = session' \/ boot' = boot) /\ UNCHANGED <<files, parsed, resolved, checked, slots, clock>>
    BY <1>6 DEF Keep
  <2> QED BY <2>1, <2>2, <2>3 DEF CacheTypes, IdleWork
<1>7. CASE ResetSession
  <2>1. session' = [session EXCEPT !.loaded = <<>>] /\ UNCHANGED <<files, memory, slots, work, clock>>
    BY <1>7 DEF ResetSession
  <2>2. DOMAIN session' = SessionFields /\ DOMAIN session'.loaded = {}
    BY <2>1 DEF CacheTypes, SessionFields
  <2> QED BY <2>1, <2>2 DEF CacheTypes, memory, Members
<1>8. CASE OpenCached
  BY <1>8 DEF OpenCached, BootValid, CacheTypes, memory, Members
<1>9. CASE Close
  <2>1. session' = NoSession /\ UNCHANGED <<files, memory, slots, work, clock>>
    BY <1>9 DEF Close
  <2>2. DOMAIN session' = SessionFields /\ DOMAIN session'.loaded = {}
    BY <2>1 DEF NoSession, SessionFields
  <2> QED BY <2>1, <2>2 DEF CacheTypes, memory, Members
<1>10. ASSUME Moves PROVE work'.at = "idle" /\ "moves" \in DOMAIN work' /\ "at" \in DOMAIN work'
  BY <1>10 DEF Moves, CacheTypes
<1>11. CASE Edit
  <2>1. PICK m \in Mod : \E t \in Versions[m] : files' = [files EXCEPT ![m] = t]
    BY <1>11 DEF Edit, Editable
  <2>2. PICK t \in Versions[m] : files' = [files EXCEPT ![m] = t]
    BY <2>1
  <2>3. files' \in [Mod -> Text \union {Absent}] /\ \A n \in Mod : files'[n] \in Versions[n]
    BY <2>2, TextAssumption DEF CacheTypes
  <2>4. Moves /\ UNCHANGED <<memory, slots, session, clock>>
    BY <1>11 DEF Edit
  <2> QED BY <1>10, <2>3, <2>4 DEF CacheTypes, memory
<1>12. CASE EvictParsed \/ EvictResolved \/ EvictChecked
  <2>1. ASSUME NEW store, DOMAIN store \subseteq Mod, NEW m PROVE DOMAIN Without(store, m) \subseteq Mod
    BY <2>1 DEF Without, Restrict
  <2>2. Moves /\ UNCHANGED <<files, boot, slots, session, clock>>
    BY <1>12 DEF EvictParsed, EvictResolved, EvictChecked
  <2>3. DOMAIN parsed' \subseteq Mod /\ DOMAIN resolved' \subseteq Mod /\ DOMAIN checked' \subseteq Mod
    BY <1>12, <2>1 DEF EvictParsed, EvictResolved, EvictChecked, CacheTypes
  <2> QED BY <1>10, <2>2, <2>3 DEF CacheTypes
<1>13. CASE Exit
  <2>1. /\ parsed' = <<>> /\ resolved' = <<>> /\ checked' = <<>> /\ boot' = <<>>
        /\ session' = NoSession /\ work' = IdleWork /\ UNCHANGED <<files, clock>>
    BY <1>13 DEF Exit
  <2> QED BY <2>1 DEF CacheTypes, NoSession, SessionFields, IdleWork
<1>14. CASE UNCHANGED cacheVars
  BY <1>14 DEF cacheVars, memory, CacheTypes, Members
<1> QED BY <1>1, <1>2, <1>3, <1>4, <1>5, <1>6, <1>7, <1>8, <1>9, <1>11, <1>12, <1>13, <1>14 DEF CacheNext

\* Stores, session and compilation are over modules, though files change under a
\* session and a process may end anywhere.
THEOREM CacheTyped == CacheSpec => []CacheTypeOK
<1>1. CacheInit => CacheTypes
  BY TextAssumption, CompileAssumption DEF CacheInit, CacheTypes, NoSession, SessionFields, IdleWork
<1>2. CacheTypes => CacheTypeOK
  BY DEF CacheTypes, CacheTypeOK
<1> QED BY <1>1, <1>2, CacheTypesStep, PTL DEF CacheSpec
=============================================================================
