------------------------- MODULE ReplSessionProofs -------------------------
(* What a REPL session keeps is whole, for any library, any entries and any order of
   failures: SessionInv is the inductive invariant, Valued what it takes besides for
   promoted declarations to have their values. *)
EXTENDS ReplSession, WellFoundedInduction, TLAPS

-----------------------------------------------------------------------------
(* The two fixed points, and the choice of a least element. *)

\* What a set of modules reaches contains it and is closed under imports.
LEMMA ReachCloses ==
  ASSUME NEW S \in SUBSET Module
  PROVE  S \subseteq Reach(S) /\ Reach(S) \subseteq Module /\ ImportClosed(Reach(S))
<1>1. ASSUME NEW m \in Reach(S), NEW n \in Imports[m] PROVE n \in Reach(S)
  <2>1. n \in Module
    BY <1>1, ModuleAssumption DEF Reach
  <2>2. ASSUME NEW T \in SUBSET Module, S \subseteq T, ImportClosed(T) PROVE n \in T
    BY <1>1, <2>2 DEF Reach, ImportClosed
  <2> QED BY <2>1, <2>2 DEF Reach
<1> QED BY <1>1 DEF Reach, ImportClosed

\* Closed is the greatest part of a set that needs nothing outside.
LEMMA ClosedIsGreatest ==
  ASSUME NEW S, NEW dep
  PROVE  /\ Closed(S, dep) \subseteq S
         /\ \A x \in Closed(S, dep) : dep[x] \subseteq Closed(S, dep)
         /\ \A T \in SUBSET S : (\A x \in T : dep[x] \subseteq T) => T \subseteq Closed(S, dep)
BY DEF Closed

LEMMA LeastExists ==
  ASSUME NEW S \in SUBSET Nat, S # {}
  PROVE  \E x \in S : \A n \in S : x <= n
<1> DEFINE R == OpToRel(<, Nat)
<1>1. IsWellFoundedOn(R, Nat)
  BY NatLessThanWellFounded
<1>2. \A x, y \in Nat : x < y => <<x, y>> \in R
  BY DEF OpToRel
<1> HIDE DEF R
<1>3. PICK x \in S : \A y \in S : ~(<<y, x>> \in R)
  BY <1>1, WFMin
<1>4. ASSUME NEW n \in S PROVE ~(n < x)
  BY <1>2, <1>3, Zenon
<1>5. ASSUME NEW n \in S PROVE x <= n
  BY <1>4
<1> QED BY <1>5

LEMMA LeastIsLeast ==
  ASSUME NEW S \in SUBSET Nat, S # {}
  PROVE  Least(S) \in S /\ \A n \in S : Least(S) <= n
BY LeastExists DEF Least

LEMMA FirstIsIn ==
  ASSUME NEW S \in SUBSET Module, S # {}
  PROVE  First(S) \in S
<1> DEFINE ranks == {Rank[m] : m \in S}
<1>0. ranks \in SUBSET Nat /\ ranks # {}
  BY ModuleAssumption
<1> HIDE DEF ranks
<1>1. PICK x \in ranks : \A n \in ranks : x <= n
  BY <1>0, LeastExists
<1> USE DEF ranks
<1>2. \E m \in S : \A n \in S : Rank[m] <= Rank[n]
  BY <1>1
<1> QED BY <1>2 DEF First

-----------------------------------------------------------------------------
(* The invariant. *)

SessionTypes ==
    /\ phase \in {"closed", "idle", "run", "over"}
    /\ entries \in 0..MaxEntries /\ nextId \in Nat
    /\ linked \subseteq loaded /\ loaded \subseteq Module /\ imports \subseteq Module
    /\ link \in [Module -> Nat] /\ ran \in [Module -> SUBSET Nat]
    /\ \A m \in Module : ran[m] \subseteq Parts[m]
    /\ frame \subseteq Nat
    /\ DOMAIN decls \union DOMAIN nominals \subseteq Nat
    /\ phase = "closed" => loaded = {}

\* Names and declarations refer to declarations, under the link image there is.
References ==
    /\ \A n \in DOMAIN scope : scope[n] \in DOMAIN decls
    /\ \A id \in DOMAIN decls :
          /\ decls[id].needs \subseteq DOMAIN decls
          /\ \A m \in DOMAIN decls[id].uses : m \in linked /\ decls[id].uses[m] = link[m]

\* Types of promoted declarations are registered; ids to come are not.
Registry ==
    /\ \A id \in DOMAIN decls :
          decls[id].item.kind = "type" => id \in DOMAIN nominals /\ nominals[id] = decls[id].item
    /\ phase \in {"closed", "idle"} => \A id \in DOMAIN nominals : id <= nextId

\* While an entry runs, its program is closed under imports and contains what is
\* linked, and it refers to nothing else.
Running ==
    phase = "run" =>
        /\ cur.entry \in Entry /\ cur.base = nextId
        /\ cur.mods \subseteq Module /\ ImportClosed(cur.mods) /\ linked \subseteq cur.mods
        /\ cur.fresh = cur.mods \ linked
        /\ \A i \in Items(cur.entry) : /\ cur.entry.items[i].reads \subseteq DOMAIN scope
                                       /\ cur.entry.items[i].uses \subseteq cur.mods
        /\ completed \subseteq Items(cur.entry)
        /\ \A i \in completed : IdOf(i) \in frame
        /\ \A i \in Of(cur.entry, {"type"}) :
              IdOf(i) \in DOMAIN nominals /\ nominals[IdOf(i)] = cur.entry.items[i]
        /\ \A id \in DOMAIN nominals : id <= nextId + Len(cur.entry.items)

SessionInv == SessionTypes /\ References /\ Registry /\ Running /\ LinkedReady

\* The values of promoted declarations.
Valued == \A id \in DOMAIN decls : decls[id].item.kind \in {"let", "fun"} => id \in frame

LEMMA ItemTypes ==
  ASSUME NEW e \in Entry
  PROVE  /\ e.imports \subseteq Module
         /\ Len(e.items) \in Nat /\ Items(e) = 1..Len(e.items)
         /\ \A i \in Items(e) : e.items[i] \in Item
<1>1. e.imports \subseteq Module /\ e.items \in Seq(Item)
  BY EntryAssumption
<1> QED BY <1>1 DEF Items

LEMMA GraphCloses ==
  ASSUME SessionTypes, NEW e \in Entry
  PROVE  /\ Graph(e) \subseteq Module /\ ImportClosed(Graph(e))
         /\ loaded \subseteq Graph(e) /\ imports \subseteq Graph(e)
<1>1. loaded \union Boot \union imports \union e.imports \in SUBSET Module
  BY ModuleAssumption, ItemTypes DEF SessionTypes
<1> QED BY <1>1, ReachCloses DEF Graph

LEMMA InitSession == ReplInit => SessionInv /\ Valued
BY SessionAssumption
   DEF ReplInit, SessionInv, SessionTypes, References, Registry, Running, LinkedReady, Valued

-----------------------------------------------------------------------------
(* Before an entry runs. *)

LEMMA OpenKeeps == ASSUME SessionInv, Open PROVE SessionInv'
<1>1. Reach(Boot) \subseteq Module
  BY ReachCloses, ModuleAssumption
<1>2. linked = {}
  BY DEF SessionInv, SessionTypes, Open
<1> USE DEF Open, SessionInv, library, promotion
<1>3. SessionTypes'
  BY <1>1, <1>2 DEF SessionTypes
<1>4. References'
  BY DEF References
<1>5. Registry'
  BY DEF Registry, SessionTypes
<1>6. Running' /\ LinkedReady'
  BY DEF Running, LinkedReady
<1> QED BY <1>3, <1>4, <1>5, <1>6

\* Registering an entry's types changes none that is registered, and gives each of
\* its own ids its own type.
LEMMA RegisterTypes ==
  ASSUME SessionInv, phase = "idle", NEW e \in Entry, nominals' = Registered(e)
  PROVE  /\ \A id \in DOMAIN nominals : id \in DOMAIN nominals' /\ nominals'[id] = nominals[id]
         /\ \A i \in Of(e, {"type"}) :
               nextId + i \in DOMAIN nominals' /\ nominals'[nextId + i] = e.items[i]
         /\ \A id \in DOMAIN nominals' : id \in Nat /\ id <= nextId + Len(e.items)
<1>1. Items(e) = 1..Len(e.items) /\ Len(e.items) \in Nat /\ nextId \in Nat
  BY ItemTypes DEF SessionInv, SessionTypes
<1>2. Of(e, {"type"}) \subseteq 1..Len(e.items)
  BY <1>1 DEF Of
<1>3. DOMAIN nominals' = DOMAIN nominals \union {nextId + i : i \in Of(e, {"type"})}
  BY DEF Registered
<1>4. ASSUME NEW i \in Of(e, {"type"})
      PROVE  nextId + i \in DOMAIN nominals' /\ nominals'[nextId + i] = e.items[i]
  <2> DEFINE own == nextId + i
  <2>1. own \notin DOMAIN nominals /\ own \in DOMAIN nominals' /\ own - nextId = i
    BY <1>1, <1>2, <1>3 DEF SessionInv, Registry, SessionTypes
  <2>2. \A id \in DOMAIN nominals' : id \notin DOMAIN nominals => nominals'[id] = e.items[id - nextId]
    BY DEF Registered
  <2> HIDE DEF own
  <2>3. nominals'[own] = e.items[own - nextId]
    BY <2>1, <2>2
  <2> USE DEF own
  <2> QED BY <2>1, <2>3
<1>5. ASSUME NEW id \in DOMAIN nominals' PROVE id \in Nat /\ id <= nextId + Len(e.items)
  <2>1. CASE id \in DOMAIN nominals
    BY <1>1, <2>1 DEF SessionInv, Registry, SessionTypes
  <2>2. CASE \E i \in Of(e, {"type"}) : id = nextId + i
    BY <1>1, <1>2, <2>2
  <2> QED BY <1>3, <2>1, <2>2
<1> QED BY <1>4, <1>5 DEF Registered

LEMMA SubmitKeeps == ASSUME SessionInv, NEW e \in Entry, Submit(e) PROVE SessionInv'
<1> USE DEF Submit, Accepts
<1>0. phase = "idle" /\ entries \in 0..MaxEntries /\ nextId \in Nat
  BY DEF SessionInv, SessionTypes
<1>1. /\ Graph(e) \subseteq Module /\ ImportClosed(Graph(e)) /\ linked \subseteq Graph(e)
  BY GraphCloses DEF SessionInv, SessionTypes
<1>2. /\ \A id \in DOMAIN nominals : id \in DOMAIN nominals' /\ nominals'[id] = nominals[id]
      /\ \A i \in Of(e, {"type"}) :
            nextId + i \in DOMAIN nominals' /\ nominals'[nextId + i] = e.items[i]
      /\ \A id \in DOMAIN nominals' : id \in Nat /\ id <= nextId + Len(e.items)
  BY <1>0, RegisterTypes
<1>3. \A m \in Module : m \notin Fresh(Graph(e)) => link'[m] = link[m] /\ ran'[m] = ran[m]
  BY DEF SessionInv, SessionTypes
<1>4. \A m \in linked : m \in Module /\ m \notin Fresh(Graph(e))
  BY DEF Fresh, SessionInv, SessionTypes
<1>5. SessionTypes'
  <2>1. link' \in [Module -> Nat] /\ ran' \in [Module -> SUBSET Nat]
    BY DEF SessionInv, SessionTypes
  <2>2. \A m \in Module : ran'[m] \subseteq Parts[m]
    BY DEF SessionInv, SessionTypes
  <2>3. entries' \in 0..MaxEntries
    BY <1>0, SessionAssumption
  <2>4. DOMAIN decls' \union DOMAIN nominals' \subseteq Nat
    BY <1>2 DEF promotion, SessionInv, SessionTypes
  <2> QED BY <2>1, <2>2, <2>3, <2>4 DEF SessionInv, SessionTypes, promotion
<1>6. References'
  BY <1>3, <1>4 DEF References, SessionInv, promotion
<1>7. Registry'
  BY <1>2 DEF Registry, SessionInv, promotion
<1>8. Running'
  <2>1. /\ cur'.entry = e /\ cur'.base = nextId /\ cur'.mods = Graph(e)
        /\ cur'.fresh = Graph(e) \ linked
    BY DEF Fresh
  <2>2. /\ completed' = {} /\ linked' = linked /\ scope' = scope /\ nextId' = nextId
    BY DEF promotion
  <2>3. \A i \in Items(e) : e.items[i].reads \subseteq DOMAIN scope /\ e.items[i].uses \subseteq Graph(e)
    BY DEF Resolves
  <2> QED BY <1>1, <1>2, <2>1, <2>2, <2>3 DEF Running, IdOf
<1>9. LinkedReady'
  BY <1>3, <1>4 DEF LinkedReady, SessionInv
<1> QED BY <1>5, <1>6, <1>7, <1>8, <1>9 DEF SessionInv

LEMMA RejectKeeps == ASSUME SessionInv, NEW e \in Entry, Reject(e) PROVE SessionInv'
<1> USE DEF Reject, Accepts, library, promotion, ConsumeIds
<1>0. phase = "idle" /\ entries \in 0..MaxEntries /\ nextId \in Nat /\ Len(e.items) \in Nat
  BY ItemTypes DEF SessionInv, SessionTypes
<1>1. /\ \A id \in DOMAIN nominals : id \in DOMAIN nominals' /\ nominals'[id] = nominals[id]
      /\ \A id \in DOMAIN nominals' : id \in Nat /\ id <= nextId + Len(e.items)
  BY <1>0, RegisterTypes
<1>2. entries' \in 0..MaxEntries /\ nextId' \in Nat
  BY <1>0, SessionAssumption
<1>3. SessionTypes'
  BY <1>1, <1>2 DEF SessionInv, SessionTypes
<1>4. References' /\ LinkedReady'
  BY DEF References, LinkedReady, SessionInv
<1>5. Registry'
  BY <1>1 DEF Registry, SessionInv
<1>6. Running'
  BY <1>0 DEF Running
<1> QED BY <1>3, <1>4, <1>5, <1>6 DEF SessionInv

-----------------------------------------------------------------------------
(* While an entry runs: only modules that are not linked, and values of the entry,
   change. *)

LEMMA ModulesRun ==
  ASSUME SessionInv, phase = "run", NEW m \in cur.fresh, NEW part \in Parts[m],
         ran' = [ran EXCEPT ![m] = @ \union {part}],
         UNCHANGED <<phase, entries, loaded, linked, link, frame, promotion, nextId, nominals,
                     cur, completed>>
  PROVE  SessionInv'
<1>1. m \in Module /\ m \notin linked
  BY DEF SessionInv, Running
<1>2. ran' \in [Module -> SUBSET Nat] /\ \A n \in Module : ran'[n] \subseteq Parts[n]
  BY <1>1, ModuleAssumption DEF SessionInv, SessionTypes
<1>3. \A n \in linked : ran'[n] = ran[n]
  BY <1>1 DEF SessionInv, SessionTypes
<1> USE DEF SessionInv, promotion
<1>4. SessionTypes'
  BY <1>2 DEF SessionTypes
<1>5. References' /\ Registry' /\ LinkedReady'
  BY <1>3 DEF References, Registry, LinkedReady
<1>6. Running'
  BY DEF Running, IdOf
<1> QED BY <1>4, <1>5, <1>6

LEMMA FreshIsModules ==
  ASSUME SessionInv, phase = "run"
  PROVE  Unclosed \in SUBSET Module /\ Unrun \in SUBSET Module /\ cur.fresh \subseteq Module
BY DEF SessionInv, Running, Unclosed, Unrun

LEMMA InstallModuleKeeps == ASSUME SessionInv, InstallModule PROVE SessionInv'
<1> DEFINE m == First(Unclosed)
<1>1. phase = "run" /\ m \in Unclosed
  BY FreshIsModules, FirstIsIn DEF InstallModule
<1>2. m \in cur.fresh /\ 0 \in Parts[m]
  BY <1>1 DEF Unclosed
<1>3. ran' = [ran EXCEPT ![m] = @ \union {0}]
  BY DEF InstallModule
<1> HIDE DEF m
<1> QED BY <1>1, <1>2, <1>3, ModulesRun DEF InstallModule

LEMMA RunModuleKeeps == ASSUME SessionInv, RunModule PROVE SessionInv'
<1> DEFINE m == First(Unrun)
           part == Least(Parts[m] \ ran[m])
<1>1. phase = "run" /\ m \in Unrun
  BY FreshIsModules, FirstIsIn DEF RunModule
<1>2. m \in cur.fresh /\ m \in Module /\ ran[m] # Parts[m]
  BY <1>1, FreshIsModules DEF Unrun
<1>3. Parts[m] \ ran[m] \in SUBSET Nat /\ Parts[m] \ ran[m] # {}
  BY <1>2, ModuleAssumption DEF SessionInv, SessionTypes
<1>4. ran' = [ran EXCEPT ![m] = @ \union {part}]
  BY <1>2 DEF RunModule, SessionInv, SessionTypes
<1> HIDE DEF m
<1>5. part \in Parts[m]
  BY <1>3, LeastIsLeast
<1> HIDE DEF part
<1> QED BY <1>1, <1>2, <1>4, <1>5, ModulesRun DEF RunModule

\* Initialisers of the entry complete.
LEMMA EntryRuns ==
  ASSUME SessionInv, phase = "run", NEW S \in SUBSET Items(cur.entry),
         completed' \subseteq completed \union S,
         frame' = frame \union {IdOf(i) : i \in S},
         UNCHANGED <<phase, entries, library, promotion, nextId, nominals, cur>>
  PROVE  SessionInv'
<1> USE DEF SessionInv, promotion, library
<1>1. S \subseteq Nat /\ cur.base \in Nat
  BY ItemTypes DEF Running, SessionTypes
<1>2. frame' \subseteq Nat
  <2>1. \A i \in S : IdOf(i) \in Nat
    BY <1>1 DEF IdOf
  <2> QED BY <2>1 DEF SessionTypes
<1>3. SessionTypes'
  BY <1>2 DEF SessionTypes
<1>4. References' /\ Registry' /\ LinkedReady'
  BY DEF References, Registry, LinkedReady
<1>5. Running'
  BY DEF Running, IdOf
<1> QED BY <1>3, <1>4, <1>5

LEMMA InstallEntryKeeps == ASSUME SessionInv, InstallEntry PROVE SessionInv'
<1> DEFINE S == Of(cur.entry, {"fun"})
<1>1. S \in SUBSET Items(cur.entry)
  BY DEF Of
<1>2. /\ phase = "run" /\ completed' \subseteq completed \union S
      /\ frame' = frame \union {IdOf(i) : i \in S}
      /\ UNCHANGED <<phase, entries, library, promotion, nextId, nominals, cur>>
  BY DEF InstallEntry
<1> HIDE DEF S
<1> QED BY <1>1, <1>2, EntryRuns

LEMMA LeftIsItems ==
  ASSUME SessionInv, phase = "run"
  PROVE  Left \in SUBSET Items(cur.entry) /\ Left \in SUBSET Nat
BY ItemTypes DEF Left, Inits, Of, SessionInv, Running

LEMMA RunEntryKeeps == ASSUME SessionInv, RunEntry PROVE SessionInv'
<1> DEFINE S == {Least(Left)}
<1>1. phase = "run" /\ Left # {}
  BY DEF RunEntry
<1>2. S \in SUBSET Items(cur.entry)
  BY <1>1, LeftIsItems, LeastIsLeast
<1>3. /\ completed' = completed \union S
      /\ frame' = frame \union {IdOf(i) : i \in S}
      /\ UNCHANGED <<phase, entries, library, promotion, nextId, nominals, cur>>
  BY DEF RunEntry
<1> HIDE DEF S
<1> QED BY <1>1, <1>2, <1>3, EntryRuns

-----------------------------------------------------------------------------
(* What an entry leaves. *)

\* Only whole declarations are promoted: what completed or needed no initialiser.
LEMMA PromotableIsWhole ==
  ASSUME SessionInv, phase = "run", NEW mods, NEW i \in Promotable(mods)
  PROVE  /\ i \in Items(cur.entry) /\ cur.entry.items[i].kind \in {"let", "fun", "type"}
         /\ cur.entry.items[i].uses \subseteq mods
         /\ cur.entry.items[i].needs \subseteq Promotable(mods)
         /\ cur.entry.items[i].kind = "let" => i \in completed
<1> DEFINE S   == {j \in Reached : cur.entry.items[j].uses \subseteq mods}
           dep == [j \in Reached |-> cur.entry.items[j].needs]
<1>1. Promotable(mods) = Closed(S, dep)
  BY DEF Promotable
<1>2. i \in S
  BY <1>1, ClosedIsGreatest
<1>3. dep[i] = cur.entry.items[i].needs
  BY <1>2
<1>4. cur.entry.items[i].needs \subseteq Promotable(mods)
  <2> HIDE DEF dep, S
  <2> QED BY <1>1, <1>3, ClosedIsGreatest
<1>5. i \in Items(cur.entry) /\ cur.entry.items[i].kind \in {"let", "fun", "type"}
  BY <1>2 DEF Reached, Named, Of
<1>6. ASSUME cur.entry.items[i].kind = "let", i \notin completed PROVE FALSE
  <2>1. i \in Left /\ i < Frontier
    BY <1>2, <1>5, <1>6 DEF Left, Inits, Of, Reached
  <2>2. Frontier = Least(Left)
    BY <2>1 DEF Frontier
  <2>3. Least(Left) \in Nat /\ i \in Nat /\ Least(Left) <= i
    BY <2>1, LeftIsItems, LeastIsLeast
  <2> QED BY <2>1, <2>2, <2>3
<1> QED BY <1>2, <1>4, <1>5, <1>6

\* The session's tables after a promotion.
LEMMA PromoteTables ==
  ASSUME SessionInv, phase = "run", NEW S \in SUBSET Items(cur.entry), Promote(S)
  PROVE  /\ DOMAIN decls' = DOMAIN decls \union {IdOf(i) : i \in S}
         /\ \A id \in DOMAIN decls' :
               \/ id \in DOMAIN decls /\ decls'[id] = decls[id]
               \/ \E i \in S : id = IdOf(i) /\ decls'[id] = Promoted(i)
         /\ \A n \in DOMAIN scope' : scope'[n] \in DOMAIN decls'
<1> DEFINE names == {cur.entry.items[i].name : i \in S}
           ids   == {IdOf(i) : i \in S}
<1>1. /\ scope' = [n \in DOMAIN scope \union names |->
                      IF n \in names THEN IdOf(CHOOSE i \in S : cur.entry.items[i].name = n)
                      ELSE scope[n]]
      /\ decls' = [id \in DOMAIN decls \union ids |->
                      IF id \in ids THEN Promoted(id - cur.base) ELSE decls[id]]
  BY DEF Promote
<1>2. \A i \in S : IdOf(i) - cur.base = i
  BY ItemTypes DEF SessionInv, SessionTypes, Running, IdOf
<1>3. DOMAIN decls' = DOMAIN decls \union ids
  BY <1>1
<1>4. ASSUME NEW id \in DOMAIN decls'
      PROVE  \/ id \in DOMAIN decls /\ decls'[id] = decls[id]
             \/ \E i \in S : id = IdOf(i) /\ decls'[id] = Promoted(i)
  <2>1. CASE id \in ids
    <3>1. PICK i \in S : id = IdOf(i)
      BY <2>1
    <3>2. decls'[id] = Promoted(id - cur.base)
      BY <1>1, <2>1
    <3> QED BY <1>2, <3>1, <3>2
  <2>2. CASE id \notin ids
    BY <1>1, <1>3, <2>2
  <2> QED BY <2>1, <2>2
<1>5. ASSUME NEW n \in DOMAIN scope' PROVE scope'[n] \in DOMAIN decls'
  <2>1. CASE n \in names
    <3>1. (CHOOSE i \in S : cur.entry.items[i].name = n) \in S
      BY <2>1
    <3> QED BY <1>1, <1>3, <2>1, <3>1
  <2>2. CASE n \notin names
    BY <1>1, <1>3, <2>2 DEF SessionInv, References
  <2> QED BY <2>1, <2>2
<1> QED BY <1>3, <1>4, <1>5

\* An end that keeps what ran with all it imports keeps the session whole.
LEMMA EndKeeps ==
  ASSUME SessionInv, phase = "run", NEW mods \in SUBSET cur.mods, ImportClosed(mods),
         \A m \in mods : ran[m] = Parts[m],
         Promote(Promotable(mods)), Retain(mods), EndEntry, imports' \subseteq Module
  PROVE  SessionInv'
<1> USE DEF EndEntry, Retain
<1> DEFINE S == Promotable(mods)
<1>1. S \in SUBSET Items(cur.entry)
  BY PromotableIsWhole
<1>2. /\ DOMAIN decls' = DOMAIN decls \union {IdOf(i) : i \in S}
      /\ \A id \in DOMAIN decls' :
            \/ id \in DOMAIN decls /\ decls'[id] = decls[id]
            \/ \E i \in S : id = IdOf(i) /\ decls'[id] = Promoted(i)
      /\ \A n \in DOMAIN scope' : scope'[n] \in DOMAIN decls'
  BY <1>1, PromoteTables
<1>3. /\ cur.base = nextId /\ nextId \in Nat /\ Len(cur.entry.items) \in Nat
      /\ \A i \in Items(cur.entry) : i \in Nat
      /\ nextId' = nextId + Len(cur.entry.items)
  BY ItemTypes DEF SessionInv, SessionTypes, Running, Promote
<1>4. SessionTypes'
  <2>1. DOMAIN decls' \subseteq Nat
    <3>1. \A i \in S : IdOf(i) \in Nat
      BY <1>1, <1>3 DEF IdOf
    <3> QED BY <1>2, <3>1 DEF SessionInv, SessionTypes
  <2>2. linked' \subseteq loaded' /\ loaded' \subseteq Module
    BY DEF SessionInv, SessionTypes, Running
  <2>3. nextId' \in Nat
    BY <1>3
  <2> QED BY <2>1, <2>2, <2>3 DEF SessionInv, SessionTypes
<1>5. ASSUME NEW i \in S
      PROVE  /\ Promoted(i).needs \subseteq DOMAIN decls'
             /\ \A m \in DOMAIN Promoted(i).uses :
                   m \in linked' /\ Promoted(i).uses[m] = link'[m]
  <2>1. /\ i \in Items(cur.entry) /\ cur.entry.items[i].uses \subseteq mods
        /\ cur.entry.items[i].needs \subseteq S
    BY <1>5, PromotableIsWhole
  <2>2. cur.entry.items[i].reads \subseteq DOMAIN scope
    BY <2>1 DEF SessionInv, Running
  <2>3. \A n \in cur.entry.items[i].reads : scope[n] \in DOMAIN decls'
    BY <1>2, <2>2 DEF SessionInv, References
  <2>4. \A j \in cur.entry.items[i].needs : IdOf(j) \in DOMAIN decls'
    BY <1>2, <2>1
  <2> QED BY <2>1, <2>3, <2>4 DEF Promoted
<1>6. References'
  <2>1. ASSUME NEW id \in DOMAIN decls'
        PROVE  /\ decls'[id].needs \subseteq DOMAIN decls'
               /\ \A m \in DOMAIN decls'[id].uses :
                     m \in linked' /\ decls'[id].uses[m] = link'[m]
    <3>1. CASE id \in DOMAIN decls /\ decls'[id] = decls[id]
      BY <1>2, <3>1 DEF SessionInv, References
    <3>2. CASE \E i \in S : id = IdOf(i) /\ decls'[id] = Promoted(i)
      BY <1>5, <3>2
    <3> QED BY <1>2, <2>1, <3>1, <3>2
  <2> QED BY <1>2, <2>1 DEF References
<1>7. Registry'
  <2>1. ASSUME NEW id \in DOMAIN decls', decls'[id].item.kind = "type"
        PROVE  id \in DOMAIN nominals' /\ nominals'[id] = decls'[id].item
    <3>1. CASE id \in DOMAIN decls /\ decls'[id] = decls[id]
      BY <2>1, <3>1 DEF SessionInv, Registry
    <3>2. CASE \E i \in S : id = IdOf(i) /\ decls'[id] = Promoted(i)
      <4>1. PICK i \in S : id = IdOf(i) /\ decls'[id] = Promoted(i)
        BY <3>2
      <4>2. decls'[id].item = cur.entry.items[i]
        BY <4>1 DEF Promoted
      <4>3. i \in Of(cur.entry, {"type"})
        BY <1>1, <2>1, <4>2 DEF Of
      <4> QED BY <4>1, <4>2, <4>3 DEF SessionInv, Running
    <3> QED BY <1>2, <2>1, <3>1, <3>2
  <2>2. \A id \in DOMAIN nominals' : id <= nextId'
    BY <1>3 DEF SessionInv, Running
  <2> QED BY <2>1, <2>2 DEF Registry
<1>8. Running'
  BY DEF Running
<1>9. LinkedReady'
  BY DEF LinkedReady, SessionInv, ImportClosed
<1> QED BY <1>4, <1>6, <1>7, <1>8, <1>9 DEF SessionInv

\* When nothing is left to run, the whole program has run.
LEMMA ProgramRan ==
  ASSUME SessionInv, phase = "run", Unrun = {}
  PROVE  \A m \in cur.mods : ran[m] = Parts[m]
BY DEF SessionInv, Running, LinkedReady, Unrun

LEMMA FinishKeeps == ASSUME SessionInv, Finish PROVE SessionInv'
<1>1. imports' \subseteq Module
  BY ItemTypes DEF SessionInv, SessionTypes, Running, Finish
<1>2. ImportClosed(cur.mods) /\ \A m \in cur.mods : ran[m] = Parts[m]
  BY ProgramRan DEF SessionInv, Running, Finish
<1> QED BY <1>1, <1>2, EndKeeps DEF Finish

\* The modules a failure retains, and no fewer than are linked.
LEMMA InitialisedIsWhole ==
  ASSUME SessionInv, phase = "run"
  PROVE  /\ Initialised \subseteq cur.mods /\ ImportClosed(Initialised)
         /\ \A m \in Initialised : ran[m] = Parts[m]
         /\ \A T \in SUBSET {m \in cur.mods : ran[m] = Parts[m]} :
               ImportClosed(T) => T \subseteq Initialised
         /\ linked \subseteq Initialised
<1> DEFINE whole == {m \in cur.mods : ran[m] = Parts[m]}
<1>1. linked \in SUBSET whole /\ ImportClosed(linked)
  BY DEF SessionInv, Running, LinkedReady, ImportClosed
<1>2. Initialised = Closed(whole, Imports)
  BY DEF Initialised
<1>3. /\ Closed(whole, Imports) \subseteq whole
      /\ ImportClosed(Closed(whole, Imports))
      /\ \A T \in SUBSET whole : ImportClosed(T) => T \subseteq Closed(whole, Imports)
  <2> HIDE DEF whole
  <2> QED BY ClosedIsGreatest DEF ImportClosed
<1> QED BY <1>1, <1>2, <1>3

LEMMA FailKeeps == ASSUME SessionInv, Fail PROVE SessionInv'
<1>1. phase = "run" /\ imports' \subseteq Module
  BY DEF SessionInv, SessionTypes, Fail
<1> QED BY <1>1, InitialisedIsWhole, EndKeeps DEF Fail

LEMMA QuitKeeps == ASSUME SessionInv, Quit PROVE SessionInv'
<1> USE DEF Quit, SessionInv, library, promotion
<1>1. SessionTypes'
  BY DEF SessionTypes
<1>2. References' /\ Registry' /\ Running' /\ LinkedReady'
  BY DEF References, Registry, Running, LinkedReady
<1> QED BY <1>1, <1>2

LEMMA ResetKeeps == ASSUME SessionInv, Reset PROVE SessionInv'
<1> USE DEF Reset, SessionInv
<1>1. SessionTypes'
  BY ModuleAssumption DEF SessionTypes
<1>2. References' /\ Registry' /\ Running' /\ LinkedReady'
  BY DEF References, Registry, Running, LinkedReady
<1> QED BY <1>1, <1>2

LEMMA StutterKeeps == ASSUME SessionInv, UNCHANGED replVars PROVE SessionInv'
<1> USE DEF replVars, library, promotion, SessionInv
<1>1. SessionTypes' /\ References' /\ Registry' /\ LinkedReady'
  BY DEF SessionTypes, References, Registry, LinkedReady
<1>2. Running'
  BY DEF Running, IdOf
<1> QED BY <1>1, <1>2

LEMMA SessionInductive == SessionInv /\ [ReplNext]_replVars => SessionInv'
BY OpenKeeps, SubmitKeeps, RejectKeeps, InstallModuleKeeps, InstallEntryKeeps, RunModuleKeeps,
   RunEntryKeeps, FinishKeeps, FailKeeps, QuitKeeps, ResetKeeps, StutterKeeps
   DEF ReplNext

-----------------------------------------------------------------------------
(* The values of promoted declarations. *)

\* An end at which every function of the entry has its closure promotes nothing
\* without its value.
LEMMA EndValued ==
  ASSUME SessionInv, Valued, phase = "run", Installed, NEW mods,
         Promote(Promotable(mods)), frame' = frame
  PROVE  Valued'
<1> DEFINE S == Promotable(mods)
<1>1. S \in SUBSET Items(cur.entry)
  BY PromotableIsWhole
<1>2. \A id \in DOMAIN decls' :
            \/ id \in DOMAIN decls /\ decls'[id] = decls[id]
            \/ \E i \in S : id = IdOf(i) /\ decls'[id] = Promoted(i)
  BY <1>1, PromoteTables
<1>3. ASSUME NEW i \in S, Promoted(i).item.kind \in {"let", "fun"} PROVE IdOf(i) \in frame
  <2>1. Promoted(i).item = cur.entry.items[i]
    BY DEF Promoted
  <2>2. i \in completed
    BY <1>1, <1>3, <2>1, PromotableIsWhole DEF Installed, Of
  <2> QED BY <2>2 DEF SessionInv, Running
<1> QED BY <1>2, <1>3 DEF Valued

LEMMA ValuedInductive ==
  ASSUME ~InterruptEarly
  PROVE  SessionInv /\ Valued /\ [ReplNext]_replVars => Valued'
<1> SUFFICES ASSUME SessionInv, Valued, [ReplNext]_replVars PROVE Valued'
  OBVIOUS
<1>1. CASE Finish
  BY <1>1, EndValued DEF Finish, EndEntry
<1>2. CASE Fail
  BY <1>2, EndValued DEF Fail, EndEntry
<1>3. CASE Reset
  BY <1>3 DEF Reset, Valued
<1>4. CASE /\ UNCHANGED decls /\ frame \subseteq frame'
  BY <1>4 DEF Valued
<1>5. CASE Open \/ InstallModule \/ InstallEntry \/ RunModule \/ RunEntry \/ Quit
  BY <1>4, <1>5 DEF Open, InstallModule, InstallEntry, RunModule, RunEntry, Quit, promotion
<1>6. CASE \E e \in Entry : Submit(e) \/ Reject(e)
  BY <1>4, <1>6 DEF Submit, Reject, promotion
<1>7. CASE UNCHANGED replVars
  BY <1>4, <1>7 DEF replVars, promotion
<1> QED BY <1>1, <1>2, <1>3, <1>5, <1>6, <1>7 DEF ReplNext

-----------------------------------------------------------------------------
(* What completed is kept. *)

\* An end that is given every whole module keeps every whole declaration.
LEMMA EndComplete ==
  ASSUME SessionInv, phase = "run", NEW mods \in SUBSET cur.mods, linked \subseteq mods,
         \A T \in SUBSET {m \in cur.mods : ran[m] = Parts[m]} : ImportClosed(T) => T \subseteq mods,
         Promote(Promotable(mods)), Retain(mods)
  PROVE  /\ \A S \in SUBSET {m \in cur.mods : ran[m] = Parts[m]} :
               ImportClosed(S) => S \subseteq linked'
         /\ \A S \in SUBSET (completed \intersect Named(cur.entry)) :
               (\A i \in S : /\ cur.entry.items[i].needs \subseteq S
                             /\ cur.entry.items[i].uses \subseteq linked')
                   => {IdOf(i) : i \in S} \subseteq DOMAIN decls'
<1>1. linked' = mods
  BY DEF Retain
<1>2. DOMAIN decls' = DOMAIN decls \union {IdOf(i) : i \in Promotable(mods)}
  <2>1. Promotable(mods) \in SUBSET Items(cur.entry)
    BY PromotableIsWhole
  <2> QED BY <2>1, PromoteTables
<1>3. ASSUME NEW S \in SUBSET (completed \intersect Named(cur.entry)),
             \A i \in S : cur.entry.items[i].needs \subseteq S /\ cur.entry.items[i].uses \subseteq mods
      PROVE  S \subseteq Promotable(mods)
  <2> DEFINE whole == {i \in Reached : cur.entry.items[i].uses \subseteq mods}
             dep   == [i \in Reached |-> cur.entry.items[i].needs]
  <2>1. S \in SUBSET whole /\ \A i \in S : dep[i] \subseteq S
    BY <1>3 DEF Reached
  <2>2. Promotable(mods) = Closed(whole, dep)
    BY DEF Promotable
  <2> HIDE DEF whole, dep
  <2> QED BY <2>1, <2>2, ClosedIsGreatest
<1> QED BY <1>1, <1>2, <1>3

-----------------------------------------------------------------------------
(* The theorems. *)

LEMMA SessionAlways == ReplSpec => []SessionInv
BY InitSession, SessionInductive, PTL DEF ReplSpec

\* The session's state keeps its shape (ReplTypeOK), whatever is typed.
THEOREM SessionTyped == ReplSpec => []ReplTypeOK
<1>1. SessionInv => ReplTypeOK
  BY DEF SessionInv, SessionTypes, References, Running, ReplTypeOK, Range
<1> QED BY <1>1, SessionAlways, PTL

\* A linked library module has run to its end, and so has all it imports: no
\* failure or interrupt of an entry (session.py, completed_library_module_ids) leaves
\* one that later entries would find half initialised.
THEOREM LinkedStaysReady == ReplSpec => []LinkedReady
BY SessionAlways, PTL DEF SessionInv

\* The extern registry has each promoted type under its own node id, whatever
\* entries were rejected after they had registered theirs (consume_entry_ids).
THEOREM NominalsOwned == ReplSpec => []NominalOwn
<1>1. SessionInv => NominalOwn
  BY DEF SessionInv, Registry, NominalOwn
<1> QED BY <1>1, SessionAlways, PTL

\* No linked module is lowered or run a second time while it stays linked.
THEOREM LinkedRunsOnce == ReplSpec => RunsOnce
<1> DEFINE Once == \A m \in linked \intersect linked' : link'[m] = link[m] /\ ran'[m] = ran[m]
<1>1. SessionInv /\ [ReplNext]_replVars => [Once]_replVars
  <2> SUFFICES ASSUME SessionInv, ReplNext PROVE Once
    OBVIOUS
  <2>1. CASE \E e \in Entry : Submit(e)
    <3>1. PICK e \in Entry : Submit(e)
      BY <2>1
    <3>2. \A m \in linked : m \in Module /\ m \notin Fresh(Graph(e))
      BY DEF Fresh, SessionInv, SessionTypes
    <3>3. \A m \in Module : m \notin Fresh(Graph(e)) => link'[m] = link[m] /\ ran'[m] = ran[m]
      BY <3>1 DEF Submit, SessionInv, SessionTypes
    <3> QED BY <3>2, <3>3
  <2>2. CASE InstallModule
    <3>1. First(Unclosed) \notin linked
      BY <2>2, FreshIsModules, FirstIsIn DEF InstallModule, Unclosed, SessionInv, Running
    <3> QED BY <2>2, <3>1 DEF InstallModule, SessionInv, SessionTypes
  <2>3. CASE RunModule
    <3>1. First(Unrun) \notin linked
      BY <2>3, FreshIsModules, FirstIsIn DEF RunModule, Unrun, SessionInv, Running
    <3> QED BY <2>3, <3>1 DEF RunModule, SessionInv, SessionTypes
  <2>4. CASE Reset
    BY <2>4 DEF Reset
  <2>5. CASE UNCHANGED <<link, ran>>
    BY <2>5
  <2>6. CASE Open \/ InstallEntry \/ RunEntry \/ Finish \/ Fail \/ Quit
    BY <2>5, <2>6 DEF Open, InstallEntry, RunEntry, Finish, Fail, Quit, EndEntry, library
  <2>7. CASE \E e \in Entry : Reject(e)
    BY <2>5, <2>7 DEF Reject, library
  <2> QED BY <2>1, <2>2, <2>3, <2>4, <2>6, <2>7 DEF ReplNext
<1> QED BY <1>1, SessionAlways, PTL DEF ReplSpec, RunsOnce

\* When entries are not interrupted before their closures are installed, every
\* promoted declaration has its value, what it refers to, and the modules it calls
\* under the symbols it was compiled against.
THEOREM PromotedAlwaysUsable ==
  ASSUME ~InterruptEarly
  PROVE  ReplSpec => []PromotedUsable
<1>1. SessionInv /\ Valued => PromotedUsable
  BY DEF SessionInv, References, Valued, PromotedUsable
<1>2. SessionInv /\ Valued /\ [ReplNext]_replVars => Valued'
  BY ValuedInductive
<1> QED BY <1>1, <1>2, InitSession, SessionInductive, PTL DEF ReplSpec

\* However an entry ends, the modules that ran with all they import stay linked, and
\* the declarations that completed with all they need are promoted.
THEOREM CompletedKept == ReplSpec => KeepsCompleted
<1> DEFINE Kept == phase = "run" /\ phase' = "idle" =>
        /\ \A S \in SUBSET {m \in cur.mods : ran[m] = Parts[m]} :
                ImportClosed(S) => S \subseteq linked'
        /\ \A S \in SUBSET (completed \intersect Named(cur.entry)) :
                (\A i \in S : /\ cur.entry.items[i].needs \subseteq S
                              /\ cur.entry.items[i].uses \subseteq linked')
                    => {IdOf(i) : i \in S} \subseteq DOMAIN decls'
<1>1. SessionInv /\ [ReplNext]_replVars => [Kept]_replVars
  <2> SUFFICES ASSUME SessionInv, ReplNext, phase = "run", phase' = "idle" PROVE Kept
    OBVIOUS
  <2>1. CASE Finish
    <3>1. linked \subseteq cur.mods
      BY DEF SessionInv, Running
    <3> QED BY <2>1, <3>1, EndComplete DEF Finish
  <2>2. CASE Fail
    BY <2>2, InitialisedIsWhole, EndComplete DEF Fail
  <2>3. Finish \/ Fail
    BY DEF ReplNext, Open, Submit, Accepts, Reject, InstallModule, InstallEntry, RunModule,
           RunEntry, Quit, Reset
  <2> QED BY <2>1, <2>2, <2>3
<1> QED BY <1>1, SessionAlways, PTL DEF ReplSpec, KeepsCompleted
=============================================================================
