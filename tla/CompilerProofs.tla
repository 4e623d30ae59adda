--------------------------- MODULE CompilerProofs ---------------------------
(* What AgL's names mean, for any modules, exports, functions and calls.

   Exports: a pass over a cycle only adds what some export leads to from what is
   there (PassWithin), all of it once it settles (UnchangedSettles), and each pass
   gets every chain of exports one further (PassLengthens).

   Variables: they are lexical, if each function refers itself to what the lambdas
   written in it need (CapturesThrough): the code looks for a variable in the frames
   of the callers, and finds its own.  FramesKeep, the inductive invariant, says that
   a frame has, of the variables in scope of its body, exactly those of the function
   and those it captures.

   Cases: to replace a column of a matrix by the fields of a head, in the rows with
   that head or none, keeps which rows fit a value and what they bind (RowMoves,
   NarrowedStands).  MatchInv, the inductive invariant, says what the edges of a
   decision lead to and demand (Edged, Decided), and that the decision the code of a
   case has come to stands for all that the arms have to do with the value (Stand).

   Issues: the decisions are a graph a case walks from the first to a leaf or a failure
   (MatchGraph), no occurrence is tested twice on the way (Separate), and values for the
   columns that a decision's edge leads to can be put together to values for its own
   (LiftsAlong).  So some value comes to each leaf (LeafReached), and what is told of a
   failure describes values with no arm, and at least one (FailuresTold). *)
EXTENDS Closures, Reexports, MatchCompile, FiniteSetTheorems, SequenceTheorems, WellFoundedInduction, TLAPS

LEMMA LeastNat ==
  ASSUME NEW S \in SUBSET Nat, S # {}
  PROVE  \E x \in S : \A n \in S : x <= n
<1> DEFINE R == OpToRel(<, Nat)
<1>1. IsWellFoundedOn(R, Nat)
  BY NatLessThanWellFounded
<1>2. \A x, y \in Nat : x < y => <<x, y>> \in R
  BY DEF OpToRel
<1> HIDE DEF R
<1>3. PICK x \in S : \A y \in S : ~(<<y, x>> \in R)
  BY <1>1, WFMin
<1>4. ASSUME NEW n \in S PROVE ~(n < x)
  BY <1>2, <1>3, Zenon
<1>5. ASSUME NEW n \in S PROVE x <= n
  BY <1>4
<1> QED BY <1>5

\* Induction, for a set of numbers.
LEMMA AllNumbers ==
  ASSUME NEW S, 0 \in S, \A n \in Nat : n \in S => n + 1 \in S
  PROVE  Nat \subseteq S
<1> SUFFICES ASSUME Nat \ S # {} PROVE FALSE
  OBVIOUS
<1>1. PICK x \in Nat \ S : \A n \in Nat \ S : x <= n
  BY LeastNat
<1>2. x # 0 /\ x - 1 \in Nat /\ x - 1 \in S
  <2>1. x # 0
    BY <1>1
  <2>2. x - 1 \in Nat /\ ~(x <= x - 1)
    BY <1>1, <2>1
  <2> QED BY <1>1, <2>1, <2>2
<1> QED BY <1>1, <1>2

\* A recursive definition over a range is one of a function that exists.
LEMMA VisitedUnfolds ==
  /\ Visited[0] = [surface |-> surface, withheld |-> withheld]
  /\ \A k \in 1..Len(Cycle) : Visited[k] = Visit(Visited[k - 1], Cycle[k])
<1> DEFINE start == [surface |-> surface, withheld |-> withheld]
           Step(v, k) == Visit(v, Cycle[k])
           Is(g, n) == g = [k \in 0..n |-> IF k = 0 THEN start ELSE Step(g[k - 1], k)]
           S == {n \in Nat : \E g : Is(g, n)}
<1>0. Visited = CHOOSE g : Is(g, Len(Cycle))
  BY DEF Visited
<1>00. Len(Cycle) \in Nat
  BY ExportAssumption
<1> HIDE DEF start, Step
<1>1. 0 \in S
  <2>1. Is([k \in 0..0 |-> start], 0)
    OBVIOUS
  <2> QED BY <2>1
<1>2. ASSUME NEW n \in Nat, n \in S PROVE n + 1 \in S
  <2>1. PICK g : Is(g, n)
    BY <1>2
  <2> DEFINE h == [k \in 0..(n + 1) |-> IF k = n + 1 THEN Step(g[n], n + 1) ELSE g[k]]
  <2>2. ASSUME NEW k \in 0..(n + 1)
        PROVE  h[k] = IF k = 0 THEN start ELSE Step(h[k - 1], k)
    <3>1. CASE k = n + 1
      <4>1. h[k - 1] = g[n]
        BY <3>1
      <4> QED BY <3>1, <4>1
    <3>2. CASE k \in 0..n /\ k # 0
      <4>1. h[k - 1] = g[k - 1] /\ h[k] = g[k]
        BY <3>2
      <4> QED BY <2>1, <3>2, <4>1
    <3>3. CASE k = 0
      BY <2>1, <3>3
    <3> QED BY <3>1, <3>2, <3>3
  <2>3. h = [k \in 0..(n + 1) |-> IF k = 0 THEN start ELSE Step(h[k - 1], k)]
    BY <2>2
  <2> HIDE DEF h
  <2> QED BY <2>3
<1>3. Is(Visited, Len(Cycle))
  <2>1. Len(Cycle) \in S
    <3> HIDE DEF S
    <3> QED BY <1>00, <1>1, <1>2, AllNumbers
  <2>2. \E g : Is(g, Len(Cycle))
    BY <2>1
  <2> HIDE DEF Is
  <2> QED BY <1>0, <2>2
<1>4. Visited[0] = start
  BY <1>00, <1>3
<1>5. \A k \in 1..Len(Cycle) : Visited[k] = Step(Visited[k - 1], k)
  BY <1>00, <1>3
<1> QED BY <1>4, <1>5 DEF start, Step
LEMMA ChainsUnfolds ==
  /\ Chains[0] = [m \in Modules |-> Declared(m)]
  /\ \A n \in Nat : Chains[n + 1] = Onwards(Chains[n])
<1> DEFINE start == [m \in Modules |-> Declared(m)]
           Is(g, n) == g = [k \in 0..n |-> IF k = 0 THEN start ELSE Onwards(g[k - 1])]
           S == {n \in Nat : \E g : Is(g, n)}
           Defines(g) == g = [n \in Nat |-> IF n = 0 THEN start ELSE Onwards(g[n - 1])]
<1>0. Chains = CHOOSE g : Defines(g)
  BY DEF Chains
<1> HIDE DEF start
<1>1. 0 \in S
  <2>1. Is([k \in 0..0 |-> start], 0)
    OBVIOUS
  <2> QED BY <2>1
<1>2. ASSUME NEW n \in Nat, n \in S PROVE n + 1 \in S
  <2>1. PICK g : Is(g, n)
    BY <1>2
  <2> DEFINE h == [k \in 0..(n + 1) |-> IF k = n + 1 THEN Onwards(g[n]) ELSE g[k]]
  <2>2. ASSUME NEW k \in 0..(n + 1)
        PROVE  h[k] = IF k = 0 THEN start ELSE Onwards(h[k - 1])
    <3>1. CASE k = n + 1
      <4>1. h[k - 1] = g[n]
        BY <3>1
      <4> QED BY <3>1, <4>1
    <3>2. CASE k \in 0..n /\ k # 0
      <4>1. h[k - 1] = g[k - 1] /\ h[k] = g[k]
        BY <3>2
      <4> QED BY <2>1, <3>2, <4>1
    <3>3. CASE k = 0
      BY <2>1, <3>3
    <3> QED BY <3>1, <3>2, <3>3
  <2>3. h = [k \in 0..(n + 1) |-> IF k = 0 THEN start ELSE Onwards(h[k - 1])]
    BY <2>2
  <2> HIDE DEF h
  <2> QED BY <2>3
<1>3. ASSUME NEW n \in Nat PROVE \E g : Is(g, n)
  <2>1. n \in S
    <3> HIDE DEF S
    <3> QED BY <1>1, <1>2, AllNumbers
  <2> QED BY <2>1
<1>4. ASSUME NEW n \in Nat, NEW g, NEW h, Is(g, n), Is(h, n + 1) PROVE g[n] = h[n]
  <2> DEFINE E == {k \in Nat : k <= n => g[k] = h[k]}
  <2>1. 0 \in E
    BY <1>4
  <2>2. ASSUME NEW k \in Nat, k \in E PROVE k + 1 \in E
    <3>1. ASSUME k + 1 <= n PROVE g[k + 1] = h[k + 1]
      <4>1. g[k + 1] = Onwards(g[k])
        BY <1>4, <3>1
      <4>2. h[k + 1] = Onwards(h[k])
        BY <1>4, <3>1
      <4>3. g[k] = h[k]
        BY <2>2, <3>1
      <4> QED BY <4>1, <4>2, <4>3
    <3> QED BY <3>1
  <2>3. n \in E
    <3> HIDE DEF E
    <3> QED BY <2>1, <2>2, AllNumbers
  <2> QED BY <2>3
<1> DEFINE F(n) == CHOOSE g : Is(g, n)
<1>5. ASSUME NEW n \in Nat PROVE Is(F(n), n)
  <2> HIDE DEF Is
  <2> QED BY <1>3
<1> HIDE DEF F
<1>6. F(0)[0] = start
  <2>1. Is(F(0), 0)
    BY <1>5
  <2> QED BY <2>1
<1>7. ASSUME NEW n \in Nat PROVE F(n + 1)[n + 1] = Onwards(F(n)[n])
  <2>1. Is(F(n), n) /\ Is(F(n + 1), n + 1)
    <3> HIDE DEF Is
    <3> QED BY <1>5
  <2>2. F(n)[n] = F(n + 1)[n]
    BY <1>4, <2>1
  <2>3. F(n + 1)[n + 1] = Onwards(F(n + 1)[n])
    BY <2>1
  <2> QED BY <2>2, <2>3
<1> DEFINE f == [n \in Nat |-> F(n)[n]]
<1>8. ASSUME NEW n \in Nat PROVE f[n] = IF n = 0 THEN start ELSE Onwards(f[n - 1])
  <2>1. CASE n = 0
    BY <1>6, <2>1
  <2>2. CASE n # 0
    <3>1. n - 1 \in Nat /\ (n - 1) + 1 = n
      BY <2>2
    <3>2. F(n)[n] = Onwards(F(n - 1)[n - 1])
      BY <1>7, <3>1
    <3> QED BY <2>2, <3>1, <3>2
  <2> QED BY <2>1, <2>2
<1>9. Defines(f)
  <2> HIDE DEF f
  <2>1. f = [n \in Nat |-> f[n]]
    BY DEF f
  <2> QED BY <1>8, <2>1
<1>10. Defines(Chains)
  <2> HIDE DEF f, Defines
  <2> QED BY <1>0, <1>9
<1>11. Chains[0] = start
  BY <1>10
<1>12. \A n \in Nat : Chains[n + 1] = Onwards(Chains[n])
  BY <1>10
<1> QED BY <1>11, <1>12 DEF start

LEMMA OnceUnfolds ==
  /\ Once[0] = Unlinked
  /\ \A n \in Nat : Once[n + 1] = Linked(Once[n])
<1> DEFINE start == Unlinked
           Is(g, n) == g = [k \in 0..n |-> IF k = 0 THEN start ELSE Linked(g[k - 1])]
           S == {n \in Nat : \E g : Is(g, n)}
           Defines(g) == g = [n \in Nat |-> IF n = 0 THEN start ELSE Linked(g[n - 1])]
<1>0. Once = CHOOSE g : Defines(g)
  BY DEF Once
<1> HIDE DEF start
<1>1. 0 \in S
  <2>1. Is([k \in 0..0 |-> start], 0)
    OBVIOUS
  <2> QED BY <2>1
<1>2. ASSUME NEW n \in Nat, n \in S PROVE n + 1 \in S
  <2>1. PICK g : Is(g, n)
    BY <1>2
  <2> DEFINE h == [k \in 0..(n + 1) |-> IF k = n + 1 THEN Linked(g[n]) ELSE g[k]]
  <2>2. ASSUME NEW k \in 0..(n + 1)
        PROVE  h[k] = IF k = 0 THEN start ELSE Linked(h[k - 1])
    <3>1. CASE k = n + 1
      <4>1. h[k - 1] = g[n]
        BY <3>1
      <4> QED BY <3>1, <4>1
    <3>2. CASE k \in 0..n /\ k # 0
      <4>1. h[k - 1] = g[k - 1] /\ h[k] = g[k]
        BY <3>2
      <4> QED BY <2>1, <3>2, <4>1
    <3>3. CASE k = 0
      BY <2>1, <3>3
    <3> QED BY <3>1, <3>2, <3>3
  <2>3. h = [k \in 0..(n + 1) |-> IF k = 0 THEN start ELSE Linked(h[k - 1])]
    BY <2>2
  <2> HIDE DEF h
  <2> QED BY <2>3
<1>3. ASSUME NEW n \in Nat PROVE \E g : Is(g, n)
  <2>1. n \in S
    <3> HIDE DEF S
    <3> QED BY <1>1, <1>2, AllNumbers
  <2> QED BY <2>1
<1>4. ASSUME NEW n \in Nat, NEW g, NEW h, Is(g, n), Is(h, n + 1) PROVE g[n] = h[n]
  <2> DEFINE E == {k \in Nat : k <= n => g[k] = h[k]}
  <2>1. 0 \in E
    BY <1>4
  <2>2. ASSUME NEW k \in Nat, k \in E PROVE k + 1 \in E
    <3>1. ASSUME k + 1 <= n PROVE g[k + 1] = h[k + 1]
      <4>1. g[k + 1] = Linked(g[k])
        BY <1>4, <3>1
      <4>2. h[k + 1] = Linked(h[k])
        BY <1>4, <3>1
      <4>3. g[k] = h[k]
        BY <2>2, <3>1
      <4> QED BY <4>1, <4>2, <4>3
    <3> QED BY <3>1
  <2>3. n \in E
    <3> HIDE DEF E
    <3> QED BY <2>1, <2>2, AllNumbers
  <2> QED BY <2>3
<1> DEFINE F(n) == CHOOSE g : Is(g, n)
<1>5. ASSUME NEW n \in Nat PROVE Is(F(n), n)
  <2> HIDE DEF Is
  <2> QED BY <1>3
<1> HIDE DEF F
<1>6. F(0)[0] = start
  <2>1. Is(F(0), 0)
    BY <1>5
  <2> QED BY <2>1
<1>7. ASSUME NEW n \in Nat PROVE F(n + 1)[n + 1] = Linked(F(n)[n])
  <2>1. Is(F(n), n) /\ Is(F(n + 1), n + 1)
    <3> HIDE DEF Is
    <3> QED BY <1>5
  <2>2. F(n)[n] = F(n + 1)[n]
    BY <1>4, <2>1
  <2>3. F(n + 1)[n + 1] = Linked(F(n + 1)[n])
    BY <2>1
  <2> QED BY <2>2, <2>3
<1> DEFINE f == [n \in Nat |-> F(n)[n]]
<1>8. ASSUME NEW n \in Nat PROVE f[n] = IF n = 0 THEN start ELSE Linked(f[n - 1])
  <2>1. CASE n = 0
    BY <1>6, <2>1
  <2>2. CASE n # 0
    <3>1. n - 1 \in Nat /\ (n - 1) + 1 = n
      BY <2>2
    <3>2. F(n)[n] = Linked(F(n - 1)[n - 1])
      BY <1>7, <3>1
    <3> QED BY <2>2, <3>1, <3>2
  <2> QED BY <2>1, <2>2
<1>9. Defines(f)
  <2> HIDE DEF f
  <2>1. f = [n \in Nat |-> f[n]]
    BY DEF f
  <2> QED BY <1>8, <2>1
<1>10. Defines(Once)
  <2> HIDE DEF f, Defines
  <2> QED BY <1>0, <1>9
<1>11. Once[0] = start
  BY <1>10
<1>12. \A n \in Nat : Once[n + 1] = Linked(Once[n])
  BY <1>10
<1> QED BY <1>11, <1>12 DEF start
-----------------------------------------------------------------------------
(* One export, one visit, one pass. *)

Pairs(F)      == {<<f.name, f.origin>> : f \in F}
Plain(d)      == d.items = {} \/ d.hidden = {}
IsSurfaces(f) == f = [m \in Modules |-> f[m]]

\* What one export forwards is what it spells of what it does not hide, once it knows
\* what that is; what its target withholds has no part in it.
LEMMA ForwardsSpelled ==
  ASSUME NEW d, Plain(d), NEW s, NEW h, NEW z
  PROVE  z \in Pairs(Forwards(d, s, h)) <=>
           /\ HidingKnown(d, s)
           /\ \E e \in s : ~Beneath(e[2], Removed(d, s)) /\ z \in Spelled(d, e[1]) \X {e[2]}
<1>1. CASE d.items # {}
  <2>1. d.hidden = {}
    BY <1>1 DEF Plain
  <2>2. HidingKnown(d, s) /\ Removed(d, s) = {}
    BY <2>1 DEF HidingKnown, Removed
  <2>3. \A o : ~Beneath(o, Removed(d, s))
    BY <2>2 DEF Beneath
  <2>4. z \in Pairs(Forwards(d, s, h)) <=>
          \E i \in d.items : \E e \in Matching(s, i.path) : z = <<d.region \o Renamed(i, e[1]), e[2]>>
    <3> DEFINE G(i, e) == [name |-> d.region \o Renamed(i, e[1]), origin |-> e[2], kept |-> HeldAt(h, e[1])]
    <3>1. Forwards(d, s, h) = UNION {{G(i, e) : e \in Matching(s, i.path)} : i \in d.items}
      BY <1>1 DEF Forwards
    <3>2. \A i, e : <<G(i, e).name, G(i, e).origin>> = <<d.region \o Renamed(i, e[1]), e[2]>>
      OBVIOUS
    <3> HIDE DEF G
    <3>3. z \in Pairs(Forwards(d, s, h)) <=>
            \E i \in d.items : \E e \in Matching(s, i.path) : z = <<G(i, e).name, G(i, e).origin>>
      BY <3>1 DEF Pairs
    <3> QED BY <3>2, <3>3
  <2>5. (\E e \in s : z \in Spelled(d, e[1]) \X {e[2]}) <=>
          \E i \in d.items : \E e \in Matching(s, i.path) : z = <<d.region \o Renamed(i, e[1]), e[2]>>
    <3> DEFINE N(i, e) == d.region \o Renamed(i, e[1])
    <3>1. \A e : Spelled(d, e[1]) = {N(i, e) : i \in {j \in d.items : Begins(j.path, e[1])}}
      BY <1>1 DEF Spelled
    <3> HIDE DEF N
    <3>2. ASSUME NEW e
          PROVE  z \in Spelled(d, e[1]) \X {e[2]} <=> \E x \in Spelled(d, e[1]) : z = <<x, e[2]>>
      OBVIOUS
    <3>3. \A e : z \in Spelled(d, e[1]) \X {e[2]} <=>
                 \E i \in d.items : Begins(i.path, e[1]) /\ z = <<N(i, e), e[2]>>
      BY <3>1, <3>2
    <3>4. (\E e \in s : z \in Spelled(d, e[1]) \X {e[2]}) <=>
            \E i \in d.items : \E e \in s : Begins(i.path, e[1]) /\ z = <<N(i, e), e[2]>>
      BY <3>3, Zenon
    <3> USE DEF N
    <3> QED BY <3>4, Zenon DEF Matching
  <2> QED BY <2>2, <2>3, <2>4, <2>5
<1>2. CASE d.items = {}
  <2>1. CASE ~HidingKnown(d, s)
    BY <1>2, <2>1 DEF Forwards, Pairs
  <2>2. CASE HidingKnown(d, s)
    <3> DEFINE G(e) == [name |-> d.region \o e[1], origin |-> e[2],
                        kept |-> HeldAt(h, e[1]) \union Removed(d, s)]
               K == {e \in s : ~Beneath(e[2], Removed(d, s))}
    <3>1. Forwards(d, s, h) = {G(e) : e \in K}
      BY <1>2, <2>2 DEF Forwards
    <3>2. \A e : <<G(e).name, G(e).origin>> = <<d.region \o e[1], e[2]>>
      OBVIOUS
    <3>3. \A e : Spelled(d, e[1]) = {d.region \o e[1]}
      BY <1>2 DEF Spelled
    <3> HIDE DEF G
    <3>4. z \in Pairs(Forwards(d, s, h)) <=> \E e \in K : z = <<G(e).name, G(e).origin>>
      BY <3>1 DEF Pairs
    <3>5. ASSUME NEW e
          PROVE  z \in Spelled(d, e[1]) \X {e[2]} <=> z = <<d.region \o e[1], e[2]>>
      <4> DEFINE n == d.region \o e[1]
      <4>1. Spelled(d, e[1]) = {n}
        BY <3>3
      <4> HIDE DEF n
      <4>2. z \in Spelled(d, e[1]) \X {e[2]} <=> z = <<n, e[2]>>
        BY <4>1
      <4> QED BY <4>2 DEF n
    <3>6. z \in Pairs(Forwards(d, s, h)) <=> \E e \in K : z \in Spelled(d, e[1]) \X {e[2]}
      BY <3>2, <3>4, <3>5
    <3> QED BY <2>2, <3>6
  <2> QED BY <2>1, <2>2
<1> QED BY <1>1, <1>2

\* A visit adds to the exports of its module alone.
LEMMA VisitAdds ==
  ASSUME NEW now, IsSurfaces(now.surface), NEW m \in Modules
  PROVE  /\ IsSurfaces(Visit(now, m).surface)
         /\ Visit(now, m).surface[m] = now.surface[m] \union Pairs(Found(now, m))
         /\ \A n \in Modules \ {m} : Visit(now, m).surface[n] = now.surface[n]
<1> DEFINE all == now.surface[m] \union Pairs(Found(now, m))
<1>1. Visit(now, m).surface = [now.surface EXCEPT ![m] = all]
  BY DEF Visit, Pairs
<1> HIDE DEF all
<1> QED BY <1>1 DEF IsSurfaces, all

LEMMA UsesTyped ==
  ASSUME NEW m \in InCycle, exporting[m] \subseteq MayExport[m], NEW u \in Uses(m)
  PROVE  u[1] \in exporting[m] /\ u[1] \in MayExport[m] /\ u[2] \in u[1].to /\ u[2] \in Modules \ {m} /\ Plain(u[1])
BY ExportAssumption DEF Uses, Plain

LEMMA CycleTyped ==
  /\ Len(Cycle) \in Nat
  /\ \A k \in 1..Len(Cycle) : Cycle[k] \in InCycle /\ Cycle[k] \in Modules
  /\ \A m \in InCycle : \E k \in 1..Len(Cycle) : Cycle[k] = m
BY ExportAssumption DEF InCycle, Modules, Range

\* Within a pass the surfaces only grow, those of the cycle alone.
LEMMA PassGrows ==
  ASSUME IsSurfaces(surface), NEW k \in 0..Len(Cycle)
  PROVE  /\ IsSurfaces(Visited[k].surface)
         /\ \A j \in 0..k : \A m \in Modules : Visited[j].surface[m] \subseteq Visited[k].surface[m]
         /\ \A m \in Outside : Visited[k].surface[m] = surface[m]
<1> DEFINE P(n) == /\ IsSurfaces(Visited[n].surface)
                   /\ \A j \in 0..n : \A m \in Modules : Visited[j].surface[m] \subseteq Visited[n].surface[m]
                   /\ \A m \in Outside : Visited[n].surface[m] = surface[m]
           S == {n \in Nat : n <= Len(Cycle) => P(n)}
<1>1. 0 \in S
  <2>1. Visited[0].surface = surface
    BY VisitedUnfolds
  <2>2. \A j \in 0..0 : j = 0
    OBVIOUS
  <2>3. P(0)
    BY <2>1, <2>2
  <2> HIDE DEF P
  <2> QED BY <2>3
<1>2. ASSUME NEW n \in Nat, n \in S PROVE n + 1 \in S
  <2> SUFFICES ASSUME n + 1 <= Len(Cycle) PROVE P(n + 1)
    OBVIOUS
  <2>1. n + 1 \in 1..Len(Cycle) /\ Cycle[n + 1] \in InCycle /\ Cycle[n + 1] \in Modules /\ (n + 1) - 1 = n
    BY CycleTyped
  <2>2. P(n)
    <3> HIDE DEF P
    <3> QED BY <1>2, CycleTyped
  <2>3. Visited[n + 1] = Visit(Visited[n], Cycle[n + 1])
    BY <2>1, VisitedUnfolds
  <2> DEFINE c == Cycle[n + 1]
  <2>4. /\ IsSurfaces(Visited[n + 1].surface)
        /\ Visited[n + 1].surface[c] = Visited[n].surface[c] \union Pairs(Found(Visited[n], c))
        /\ \A m \in Modules \ {c} : Visited[n + 1].surface[m] = Visited[n].surface[m]
    BY <2>1, <2>2, <2>3, VisitAdds
  <2> HIDE DEF c
  <2>5. ASSUME NEW m \in Modules PROVE Visited[n].surface[m] \subseteq Visited[n + 1].surface[m]
    BY <2>4
  <2>6. ASSUME NEW j \in 0..(n + 1), NEW m \in Modules
        PROVE  Visited[j].surface[m] \subseteq Visited[n + 1].surface[m]
    <3>1. CASE j = n + 1
      BY <3>1
    <3>2. CASE j \in 0..n
      BY <2>2, <2>5, <3>2
    <3> QED BY <3>1, <3>2
  <2>7. ASSUME NEW m \in Outside PROVE Visited[n + 1].surface[m] = surface[m]
    <3>1. m \in Modules \ {c}
      BY <2>1, ExportAssumption DEF Modules, c
    <3> QED BY <2>2, <2>4, <3>1
  <2> QED BY <2>4, <2>6, <2>7
<1>3. k \in S
  <2> HIDE DEF S
  <2> QED BY <1>1, <1>2, AllNumbers, CycleTyped
<1> HIDE DEF P
<1>4. P(k)
  BY <1>3, CycleTyped
<1> QED BY <1>4 DEF P

\* Each module of the cycle gets, at its turn, what its exports forward of the
\* surfaces as they are by then.
LEMMA PassVisits ==
  ASSUME IsSurfaces(surface), NEW m \in InCycle
  PROVE  \E k \in 1..Len(Cycle) :
            /\ \A n \in Modules : /\ surface[n] \subseteq Visited[k - 1].surface[n]
                                  /\ Visited[k - 1].surface[n] \subseteq Propagated.surface[n]
            /\ Pairs(Found(Visited[k - 1], m)) \subseteq Propagated.surface[m]
<1>1. PICK k \in 1..Len(Cycle) : Cycle[k] = m
  BY CycleTyped
<1>2. /\ k - 1 \in 0..Len(Cycle) /\ k \in 0..Len(Cycle) /\ Len(Cycle) \in 0..Len(Cycle)
      /\ 0 \in 0..(k - 1) /\ k - 1 \in 0..Len(Cycle) /\ m \in Modules
  BY CycleTyped DEF Modules
<1>3. Visited[0].surface = surface
  BY VisitedUnfolds
<1>4. ASSUME NEW n \in Modules
      PROVE  /\ surface[n] \subseteq Visited[k - 1].surface[n]
             /\ Visited[k - 1].surface[n] \subseteq Propagated.surface[n]
  <2>1. Visited[0].surface[n] \subseteq Visited[k - 1].surface[n]
    BY <1>2, PassGrows
  <2>2. Visited[k - 1].surface[n] \subseteq Visited[Len(Cycle)].surface[n]
    BY <1>2, PassGrows
  <2> QED BY <1>3, <2>1, <2>2 DEF Propagated
<1>5. Pairs(Found(Visited[k - 1], m)) \subseteq Visited[k].surface[m]
  <2>1. IsSurfaces(Visited[k - 1].surface)
    BY <1>2, PassGrows
  <2>2. Visited[k] = Visit(Visited[k - 1], m)
    BY <1>1, VisitedUnfolds
  <2> QED BY <1>2, <2>1, <2>2, VisitAdds
<1>6. Visited[k].surface[m] \subseteq Propagated.surface[m]
  BY <1>2, PassGrows DEF Propagated
<1> QED BY <1>4, <1>5, <1>6

LEMMA FoundPairs ==
  ASSUME NEW now, NEW m, NEW z
  PROVE  z \in Pairs(Found(now, m)) <=>
           \E u \in Uses(m) : z \in Pairs(Forwards(u[1], now.surface[u[2]], now.withheld[u[2]]))
<1> DEFINE F(u) == Forwards(u[1], now.surface[u[2]], now.withheld[u[2]])
<1>1. Found(now, m) = UNION {F(u) : u \in Uses(m)}
  BY DEF Found
<1> HIDE DEF F
<1>2. z \in Pairs(Found(now, m)) <=> \E u \in Uses(m) : z \in Pairs(F(u))
  BY <1>1 DEF Pairs
<1> QED BY <1>2 DEF F

-----------------------------------------------------------------------------
(* What a settled cycle exports. *)

\* Every export has forwarded all that it forwards of the surfaces as they are.
Settled ==
    \A m \in InCycle : \A u \in Uses(m) :
        /\ HidingKnown(u[1], surface[u[2]])
        /\ \A e \in surface[u[2]] :
              ~Beneath(e[2], Removed(u[1], surface[u[2]])) => Spelled(u[1], e[1]) \X {e[2]} \subseteq surface[m]

Exporting == \A m \in Modules : exporting[m] \subseteq MayExport[m]

LEMMA UnchangedSettles ==
  ASSUME IsSurfaces(surface), Exporting, Propagated.surface = surface, AllNamed
  PROVE  Settled
<1> SUFFICES ASSUME NEW m \in InCycle, NEW u \in Uses(m), NEW e \in surface[u[2]],
                    ~Beneath(e[2], Removed(u[1], surface[u[2]])), NEW z \in Spelled(u[1], e[1]) \X {e[2]}
             PROVE  z \in surface[m]
  BY Zenon DEF Settled, AllNamed
<1>1. m \in Modules /\ u[2] \in Modules /\ Plain(u[1]) /\ HidingKnown(u[1], surface[u[2]])
  BY UsesTyped DEF Exporting, AllNamed, Modules
<1>2. PICK k \in 1..Len(Cycle) :
          /\ \A n \in Modules : /\ surface[n] \subseteq Visited[k - 1].surface[n]
                                /\ Visited[k - 1].surface[n] \subseteq Propagated.surface[n]
          /\ Pairs(Found(Visited[k - 1], m)) \subseteq Propagated.surface[m]
  BY PassVisits
<1> DEFINE s == Visited[k - 1].surface[u[2]]
           h == Visited[k - 1].withheld[u[2]]
<1>3. s = surface[u[2]]
  BY <1>1, <1>2
<1>4. z \in Pairs(Forwards(u[1], s, h))
  BY <1>1, <1>3, ForwardsSpelled
<1>5. z \in Pairs(Found(Visited[k - 1], m))
  BY <1>4, FoundPairs
<1> QED BY <1>2, <1>5

\* Whatever is closed under the exports of the cycle, past what the surfaces make each
\* of them hide.
DerivesFrom(T) ==
    /\ \A m \in Modules : Declared(m) \subseteq T[m]
    /\ \A m \in InCycle : \A u \in Uses(m) : \A e \in T[u[2]] :
          ~Beneath(e[2], Removed(u[1], surface[u[2]])) => Spelled(u[1], e[1]) \X {e[2]} \subseteq T[m]

\* Only exports of modules outside the cycle, which are final, hide anything.
HidesFinal == \A m \in InCycle : \A d \in MayExport[m] : d.hidden = {} \/ d.to \subseteq Outside

\* A pass adds nothing but what exports lead to.
LEMMA PassWithin ==
  ASSUME IsSurfaces(surface), Exporting, HidesFinal,
         NEW T, DerivesFrom(T), \A m \in Modules : surface[m] \subseteq T[m]
  PROVE  \A m \in Modules : Propagated.surface[m] \subseteq T[m]
<1> DEFINE P(n) == \A m \in Modules : Visited[n].surface[m] \subseteq T[m]
           S == {n \in Nat : n <= Len(Cycle) => P(n)}
<1>1. 0 \in S
  <2>1. P(0)
    BY VisitedUnfolds
  <2> HIDE DEF P
  <2> QED BY <2>1
<1>2. ASSUME NEW n \in Nat, n \in S PROVE n + 1 \in S
  <2> SUFFICES ASSUME n + 1 <= Len(Cycle) PROVE P(n + 1)
    OBVIOUS
  <2>1. /\ n + 1 \in 1..Len(Cycle) /\ n \in 0..Len(Cycle) /\ (n + 1) - 1 = n
        /\ Cycle[n + 1] \in InCycle /\ Cycle[n + 1] \in Modules
    BY CycleTyped
  <2>2. P(n)
    <3> HIDE DEF P
    <3> QED BY <1>2, CycleTyped
  <2>3. Visited[n + 1] = Visit(Visited[n], Cycle[n + 1])
    BY <2>1, VisitedUnfolds
  <2> DEFINE c == Cycle[n + 1]
  <2>4. IsSurfaces(Visited[n].surface) /\ \A t \in Outside : Visited[n].surface[t] = surface[t]
    BY <2>1, PassGrows
  <2>5. /\ Visited[n + 1].surface[c] = Visited[n].surface[c] \union Pairs(Found(Visited[n], c))
        /\ \A m \in Modules \ {c} : Visited[n + 1].surface[m] = Visited[n].surface[m]
    BY <2>1, <2>3, <2>4, VisitAdds
  <2>6. c \in InCycle /\ c \in Modules
    BY <2>1
  <2> HIDE DEF c
  <2>7. ASSUME NEW z \in Pairs(Found(Visited[n], c)) PROVE z \in T[c]
    <3>1. PICK u \in Uses(c) : z \in Pairs(Forwards(u[1], Visited[n].surface[u[2]], Visited[n].withheld[u[2]]))
      BY FoundPairs
    <3>2. u[1] \in MayExport[c] /\ u[2] \in u[1].to /\ u[2] \in Modules /\ Plain(u[1])
      BY <2>6, UsesTyped DEF Exporting
    <3>3. PICK e \in Visited[n].surface[u[2]] :
              /\ ~Beneath(e[2], Removed(u[1], Visited[n].surface[u[2]]))
              /\ z \in Spelled(u[1], e[1]) \X {e[2]}
      BY <3>1, <3>2, ForwardsSpelled
    <3>4. Removed(u[1], Visited[n].surface[u[2]]) = Removed(u[1], surface[u[2]])
      <4>1. CASE u[1].hidden = {}
        BY <4>1 DEF Removed
      <4>2. CASE u[1].to \subseteq Outside
        BY <2>4, <3>2, <4>2
      <4> QED BY <2>6, <3>2, <4>1, <4>2 DEF HidesFinal
    <3>5. e \in T[u[2]]
      BY <2>2, <3>2
    <3> QED BY <2>6, <3>3, <3>4, <3>5 DEF DerivesFrom
  <2>8. ASSUME NEW m \in Modules PROVE Visited[n + 1].surface[m] \subseteq T[m]
    <3>1. CASE m = c
      BY <2>2, <2>5, <2>7, <3>1
    <3>2. CASE m # c
      BY <2>2, <2>5, <3>2
    <3> QED BY <3>1, <3>2
  <2> QED BY <2>8
<1>3. Len(Cycle) \in S
  <2> HIDE DEF S
  <2> QED BY <1>1, <1>2, AllNumbers, CycleTyped
<1> HIDE DEF P
<1>4. P(Len(Cycle))
  BY <1>3, CycleTyped
<1> QED BY <1>4 DEF P, Propagated

LEMMA OnwardsLeads ==
  ASSUME NEW c, NEW m \in Modules, NEW z
  PROVE  z \in Onwards(c)[m] <=>
           \/ z \in Declared(m)
           \/ \E u \in Uses(m) : \E e \in c[u[2]] :
                 ~Beneath(e[2], Removed(u[1], surface[u[2]])) /\ z \in Spelled(u[1], e[1]) \X {e[2]}
<1> DEFINE X(u, e) == Spelled(u[1], e[1]) \X {e[2]}
           K(u) == {x \in c[u[2]] : ~Beneath(x[2], Removed(u[1], surface[u[2]]))}
<1>1. Onwards(c)[m] = Declared(m) \union UNION {UNION {X(u, e) : e \in K(u)} : u \in Uses(m)}
  BY DEF Onwards
<1> HIDE DEF X
<1>2. z \in Onwards(c)[m] <=> z \in Declared(m) \/ \E u \in Uses(m) : \E e \in K(u) : z \in X(u, e)
  BY <1>1
<1> QED BY <1>2 DEF X

LEMMA OutsideUsesNothing ==
  ASSUME Exporting, NEW m \in Modules, NEW u \in Uses(m)
  PROVE  m \in InCycle
BY ExportAssumption DEF Exporting, Uses, Modules

LEMMA ChainsStart ==
  ASSUME NEW m \in Modules PROVE Chains[0][m] = Declared(m)
BY ChainsUnfolds

\* A settled module has all that chains of exports lead to.
LEMMA ChainsWithin ==
  ASSUME Exporting, Settled, \A m \in Modules : Declared(m) \subseteq surface[m], NEW n \in Nat
  PROVE  \A m \in Modules : Chains[n][m] \subseteq surface[m]
<1> DEFINE S == {i \in Nat : \A m \in Modules : Chains[i][m] \subseteq surface[m]}
<1>1. 0 \in S
  BY ChainsStart
<1>2. ASSUME NEW i \in Nat, i \in S PROVE i + 1 \in S
  <2> SUFFICES ASSUME NEW m \in Modules, NEW z \in Chains[i + 1][m] PROVE z \in surface[m]
    OBVIOUS
  <2>1. z \in Onwards(Chains[i])[m]
    BY ChainsUnfolds
  <2>2. CASE z \in Declared(m)
    BY <2>2
  <2>3. CASE \E u \in Uses(m) : \E e \in Chains[i][u[2]] :
               ~Beneath(e[2], Removed(u[1], surface[u[2]])) /\ z \in Spelled(u[1], e[1]) \X {e[2]}
    <3>1. PICK u \in Uses(m) : \E e \in Chains[i][u[2]] :
               ~Beneath(e[2], Removed(u[1], surface[u[2]])) /\ z \in Spelled(u[1], e[1]) \X {e[2]}
      BY <2>3
    <3>2. PICK e \in Chains[i][u[2]] :
               ~Beneath(e[2], Removed(u[1], surface[u[2]])) /\ z \in Spelled(u[1], e[1]) \X {e[2]}
      BY <3>1
    <3>3. m \in InCycle
      BY OutsideUsesNothing
    <3>4. u[2] \in Modules
      BY <3>3, UsesTyped DEF Exporting
    <3>5. e \in surface[u[2]]
      BY <1>2, <3>4
    <3> QED BY <3>2, <3>3, <3>5 DEF Settled
  <2> QED BY <2>1, <2>2, <2>3, OnwardsLeads
<1>3. n \in S
  <2> HIDE DEF S
  <2> QED BY <1>1, <1>2, AllNumbers
<1> QED BY <1>3

LEMMA ChainsAreSurfaces ==
  ASSUME NEW n \in Nat PROVE IsSurfaces(Chains[n])
<1>1. CASE n = 0
  BY <1>1, ChainsUnfolds DEF IsSurfaces
<1>2. CASE n # 0
  <2>1. n - 1 \in Nat /\ (n - 1) + 1 = n
    BY <1>2
  <2>2. Chains[n] = Onwards(Chains[n - 1])
    BY <2>1, ChainsUnfolds
  <2> QED BY <2>2 DEF Onwards, IsSurfaces
<1> QED BY <1>1, <1>2

LEMMA ChainsGrow ==
  ASSUME Exporting, NEW n \in Nat
  PROVE  \A m \in Modules : Chains[n][m] \subseteq Chains[n + 1][m]
<1> DEFINE S == {i \in Nat : \A m \in Modules : Chains[i][m] \subseteq Chains[i + 1][m]}
<1>1. 0 \in S
  <2>1. \A m \in Modules : Declared(m) \subseteq Chains[0 + 1][m]
    BY ChainsUnfolds, OnwardsLeads
  <2> QED BY <2>1, ChainsStart
<1>2. ASSUME NEW i \in Nat, i \in S PROVE i + 1 \in S
  <2> SUFFICES ASSUME NEW m \in Modules, NEW z \in Chains[i + 1][m] PROVE z \in Chains[(i + 1) + 1][m]
    OBVIOUS
  <2>1. z \in Onwards(Chains[i])[m]
    BY ChainsUnfolds
  <2>2. \A u \in Uses(m) : u[2] \in Modules
    BY OutsideUsesNothing, UsesTyped DEF Exporting
  <2>3. \A u \in Uses(m) : Chains[i][u[2]] \subseteq Chains[i + 1][u[2]]
    BY <1>2, <2>2
  <2> DEFINE Led(c) == \/ z \in Declared(m)
                        \/ \E u \in Uses(m) : \E e \in c[u[2]] :
                              ~Beneath(e[2], Removed(u[1], surface[u[2]])) /\ z \in Spelled(u[1], e[1]) \X {e[2]}
  <2>6. Led(Chains[i])
    BY <2>1, OnwardsLeads
  <2>7. Led(Chains[i + 1])
    BY <2>3, <2>6
  <2>4. z \in Onwards(Chains[i + 1])[m]
    BY <2>7, OnwardsLeads
  <2>5. Chains[(i + 1) + 1] = Onwards(Chains[i + 1])
    BY ChainsUnfolds
  <2> QED BY <2>4, <2>5
<1>3. n \in S
  <2> HIDE DEF S
  <2> QED BY <1>1, <1>2, AllNumbers
<1> QED BY <1>3

\* Chains longer than the surfaces have elements lead to nothing new.
LEMMA ChainsEnd ==
  ASSUME Exporting, Settled, \A m \in Modules : Declared(m) \subseteq surface[m],
         IsFiniteSet(UNION {{m} \X surface[m] : m \in Modules}),
         NEW N, N = Cardinality(UNION {{m} \X surface[m] : m \in Modules})
  PROVE  Onwards(Chains[N]) = Chains[N]
<1> DEFINE Z == UNION {{m} \X surface[m] : m \in Modules}
           C(n) == UNION {{m} \X Chains[n][m] : m \in Modules}
           Same(n) == Chains[n + 1] = Chains[n]
           S == {n \in Nat : (\A j \in 0..(n - 1) : ~Same(j)) => Cardinality(C(n)) >= n}
<1>0. N \in Nat /\ IsFiniteSet(Z) /\ Cardinality(Z) = N
  BY FS_CardinalityType
<1>1. ASSUME NEW n \in Nat PROVE C(n) \subseteq Z
  BY ChainsWithin
<1> HIDE DEF Z
<1>2. ASSUME NEW n \in Nat PROVE IsFiniteSet(C(n)) /\ Cardinality(C(n)) \in Nat /\ Cardinality(C(n)) <= N
  <2> HIDE DEF C
  <2> QED BY <1>0, <1>1, FS_Subset, FS_CardinalityType
<1>3. 0 \in S
  <2>1. Cardinality(C(0)) \in Nat
    <3> HIDE DEF C
    <3> QED BY <1>2
  <2> HIDE DEF C
  <2> QED BY <2>1
<1>4. ASSUME NEW n \in Nat, n \in S PROVE n + 1 \in S
  <2> SUFFICES ASSUME \A j \in 0..n : ~Same(j) PROVE Cardinality(C(n + 1)) >= n + 1
    OBVIOUS
  <2>1. Cardinality(C(n)) >= n
    <3> HIDE DEF C, Same
    <3> QED BY <1>4
  <2>2. PICK m \in Modules : Chains[n + 1][m] # Chains[n][m]
    <3>1. Chains[n + 1] # Chains[n]
      BY n \in 0..n
    <3>2. IsSurfaces(Chains[n + 1]) /\ IsSurfaces(Chains[n])
      BY ChainsAreSurfaces
    <3> QED BY <3>1, <3>2 DEF IsSurfaces
  <2>3. PICK e \in Chains[n + 1][m] : e \notin Chains[n][m]
    BY <2>2, ChainsGrow
  <2>4. <<m, e>> \in C(n + 1) /\ <<m, e>> \notin C(n) /\ C(n) \subseteq C(n + 1)
    BY <2>3, ChainsGrow
  <2> HIDE DEF C
  <2>5. Cardinality(C(n) \union {<<m, e>>}) = Cardinality(C(n)) + 1
    BY <1>2, <2>4, FS_AddElement
  <2>6. C(n) \union {<<m, e>>} \subseteq C(n + 1)
    BY <2>4
  <2>7. Cardinality(C(n) \union {<<m, e>>}) <= Cardinality(C(n + 1))
    BY <1>2, <2>6, FS_Subset
  <2> QED BY <1>2, <2>1, <2>5, <2>7
<1>5. N + 1 \in S
  <2> HIDE DEF S
  <2> QED BY <1>0, <1>3, <1>4, AllNumbers
<1>6. PICK j \in 0..N : Same(j)
  <2> HIDE DEF C, Same
  <2>1. Cardinality(C(N + 1)) <= N /\ Cardinality(C(N + 1)) \in Nat
    BY <1>0, <1>2
  <2>2. (N + 1) - 1 = N
    BY <1>0
  <2>3. (\A i \in 0..N : ~Same(i)) => Cardinality(C(N + 1)) >= N + 1
    BY <1>5, <2>2
  <2>4. ~(Cardinality(C(N + 1)) >= N + 1)
    BY <1>0, <2>1
  <2> QED BY <2>3, <2>4, Zenon
<1> DEFINE R == {n \in Nat : n >= j => Same(n)}
<1>7. 0 \in R
  BY <1>6
<1>8. ASSUME NEW n \in Nat, n \in R PROVE n + 1 \in R
  <2>1. CASE n + 1 = j
    BY <1>6, <2>1
  <2>2. CASE n >= j
    <3>1. Chains[n + 1] = Chains[n]
      BY <1>8, <2>2
    <3>2. Chains[(n + 1) + 1] = Chains[n + 1]
      BY <3>1, ChainsUnfolds
    <3> QED BY <3>2
  <2>3. CASE n + 1 < j
    BY <2>3
  <2> QED BY <1>0, <1>6, <2>1, <2>2, <2>3
<1>9. N \in R
  <2> HIDE DEF R
  <2> QED BY <1>0, <1>7, <1>8, AllNumbers
<1>10. Same(N)
  BY <1>0, <1>6, <1>9
<1> QED BY <1>0, <1>10, ChainsUnfolds

-----------------------------------------------------------------------------
(* All of it is finite. *)

LEMMA FiniteMap ==
  ASSUME NEW S, IsFiniteSet(S), NEW f
  PROVE  IsFiniteSet({f[x] : x \in S})
<1> DEFINE R == {f[x] : x \in S}
           g == [x \in S |-> f[x]]
<1>1. g \in Surjection(S, R)
  BY DEF Surjection
<1> QED BY <1>1, FS_Surjection

LEMMA FiniteUnion ==
  ASSUME NEW S, IsFiniteSet(S), NEW f, \A x \in S : IsFiniteSet(f[x])
  PROVE  IsFiniteSet(UNION {f[x] : x \in S})
<1> DEFINE R == {f[x] : x \in S}
<1>1. IsFiniteSet(R)
  BY FiniteMap
<1>2. \A T \in R : IsFiniteSet(T)
  OBVIOUS
<1> HIDE DEF R
<1>3. IsFiniteSet(UNION R)
  BY <1>1, <1>2, FS_UNION
<1> QED BY <1>3 DEF R

LEMMA ModulesFinite == IsFiniteSet(Modules)
<1>1. IsFiniteSet(1..Len(Cycle))
  BY CycleTyped, FS_Interval
<1>2. InCycle = {Cycle[k] : k \in 1..Len(Cycle)}
  BY ExportAssumption DEF InCycle, Range
<1>3. IsFiniteSet(InCycle)
  BY <1>1, <1>2, FiniteMap
<1> QED BY <1>3, FS_Union, ExportAssumption DEF Modules

LEMMA SpelledFinite ==
  ASSUME NEW d, IsFiniteSet(d.items), NEW name
  PROVE  IsFiniteSet(Spelled(d, name))
<1>1. CASE d.items = {}
  BY <1>1, FS_Singleton DEF Spelled
<1>2. CASE d.items # {}
  <2> DEFINE J == {j \in d.items : Begins(j.path, name)}
             f == [i \in J |-> d.region \o Renamed(i, name)]
  <2>1. IsFiniteSet(J)
    BY FS_Subset
  <2>2. Spelled(d, name) = {f[i] : i \in J}
    BY <1>2 DEF Spelled
  <2> HIDE DEF J, f
  <2> QED BY <2>1, <2>2, FiniteMap
<1> QED BY <1>1, <1>2

LEMMA ForwardsFinite ==
  ASSUME NEW d, Plain(d), IsFiniteSet(d.items), NEW s, IsFiniteSet(s), NEW h
  PROVE  IsFiniteSet(Pairs(Forwards(d, s, h)))
<1> DEFINE f == [e \in s |-> Spelled(d, e[1]) \X {e[2]}]
           all == UNION {f[e] : e \in s}
<1>1. ASSUME NEW e \in s PROVE IsFiniteSet(f[e])
  BY SpelledFinite, FS_Product, FS_Singleton
<1>2. Pairs(Forwards(d, s, h)) \subseteq all
  BY ForwardsSpelled
<1> HIDE DEF f
<1>3. IsFiniteSet(all)
  BY <1>1, FiniteUnion
<1> HIDE DEF all
<1> QED BY <1>2, <1>3, FS_Subset

LEMMA UsesFinite ==
  ASSUME Exporting, NEW m \in InCycle, IsFiniteSet(exporting[m])
  PROVE  IsFiniteSet(Uses(m))
<1> DEFINE f == [d \in exporting[m] |-> {<<d, t>> : t \in d.to}]
<1>1. ASSUME NEW d \in exporting[m] PROVE IsFiniteSet(f[d])
  <2>1. d.to \subseteq Modules
    BY ExportAssumption DEF Exporting, Modules
  <2>2. IsFiniteSet(d.to)
    BY <2>1, ModulesFinite, FS_Subset
  <2> DEFINE g == [t \in d.to |-> <<d, t>>]
  <2>3. f[d] = {g[t] : t \in d.to}
    OBVIOUS
  <2> HIDE DEF g, f
  <2> QED BY <2>2, <2>3, FiniteMap
<1>2. Uses(m) = UNION {f[d] : d \in exporting[m]}
  BY DEF Uses
<1> HIDE DEF f
<1> QED BY <1>1, <1>2, FiniteUnion

LEMMA PassFinite ==
  ASSUME IsSurfaces(surface), Exporting,
         \A m \in Modules : IsFiniteSet(exporting[m]) /\ IsFiniteSet(surface[m])
  PROVE  \A m \in Modules : IsFiniteSet(Propagated.surface[m])
<1> DEFINE P(n) == \A m \in Modules : IsFiniteSet(Visited[n].surface[m])
           S == {n \in Nat : n <= Len(Cycle) => P(n)}
<1>1. 0 \in S
  <2>1. P(0)
    BY VisitedUnfolds
  <2> HIDE DEF P
  <2> QED BY <2>1
<1>2. ASSUME NEW n \in Nat, n \in S PROVE n + 1 \in S
  <2> SUFFICES ASSUME n + 1 <= Len(Cycle) PROVE P(n + 1)
    OBVIOUS
  <2>1. /\ n + 1 \in 1..Len(Cycle) /\ n \in 0..Len(Cycle) /\ (n + 1) - 1 = n
        /\ Cycle[n + 1] \in InCycle /\ Cycle[n + 1] \in Modules
    BY CycleTyped
  <2>2. P(n)
    <3> HIDE DEF P
    <3> QED BY <1>2, CycleTyped
  <2>3. Visited[n + 1] = Visit(Visited[n], Cycle[n + 1])
    BY <2>1, VisitedUnfolds
  <2> DEFINE c == Cycle[n + 1]
  <2>4. IsSurfaces(Visited[n].surface)
    BY <2>1, PassGrows
  <2>5. /\ Visited[n + 1].surface[c] = Visited[n].surface[c] \union Pairs(Found(Visited[n], c))
        /\ \A m \in Modules \ {c} : Visited[n + 1].surface[m] = Visited[n].surface[m]
    BY <2>1, <2>3, <2>4, VisitAdds
  <2>6. c \in InCycle /\ c \in Modules
    BY <2>1
  <2> HIDE DEF c
  <2> DEFINE f == [u \in Uses(c) |-> Pairs(Forwards(u[1], Visited[n].surface[u[2]], Visited[n].withheld[u[2]]))]
  <2>7. ASSUME NEW u \in Uses(c) PROVE IsFiniteSet(f[u])
    <3>1. u[1] \in MayExport[c] /\ u[2] \in Modules /\ Plain(u[1])
      BY <2>6, UsesTyped DEF Exporting
    <3>2. IsFiniteSet(u[1].items) /\ IsFiniteSet(Visited[n].surface[u[2]])
      BY <2>2, <2>6, <3>1, ExportAssumption
    <3> QED BY <3>1, <3>2, ForwardsFinite
  <2>8. Pairs(Found(Visited[n], c)) = UNION {f[u] : u \in Uses(c)}
    <3>1. \A z : z \in Pairs(Found(Visited[n], c)) <=> \E u \in Uses(c) : z \in f[u]
      BY FoundPairs
    <3> HIDE DEF f
    <3> QED BY <3>1
  <2> HIDE DEF f
  <2>9. IsFiniteSet(Pairs(Found(Visited[n], c)))
    BY <2>6, <2>7, <2>8, UsesFinite, FiniteUnion
  <2>10. IsFiniteSet(Visited[n + 1].surface[c])
    <3>1. IsFiniteSet(Visited[n].surface[c])
      BY <2>2, <2>6
    <3>2. IsFiniteSet(Visited[n].surface[c] \union Pairs(Found(Visited[n], c)))
      BY <3>1, <2>9, FS_Union
    <3> QED BY <3>2, <2>5
  <2>11. ASSUME NEW m \in Modules PROVE IsFiniteSet(Visited[n + 1].surface[m])
    <3>1. CASE m = c
      BY <2>10, <3>1
    <3>2. CASE m # c
      BY <2>2, <2>5, <3>2
    <3> QED BY <3>1, <3>2
  <2> QED BY <2>11
<1>3. Len(Cycle) \in S
  <2> HIDE DEF S
  <2> QED BY <1>1, <1>2, AllNumbers, CycleTyped
<1> HIDE DEF P
<1>4. P(Len(Cycle))
  BY <1>3, CycleTyped
<1> QED BY <1>4 DEF P, Propagated

-----------------------------------------------------------------------------
(* Chains in which no export occurs twice. *)

\* No export hides anything.
NothingHidden == \A m \in InCycle : \A d \in MayExport[m] : d.hidden = {}

LEMMA HidesNothing ==
  ASSUME Exporting, NothingHidden, NEW m \in InCycle, NEW u \in Uses(m), NEW s
  PROVE  HidingKnown(u[1], s) /\ Removed(u[1], s) = {} /\ \A o : ~Beneath(o, Removed(u[1], s))
<1>1. u[1].hidden = {}
  BY UsesTyped DEF Exporting, NothingHidden, Modules
<1>2. HidingKnown(u[1], s) /\ Removed(u[1], s) = {}
  BY <1>1 DEF HidingKnown, Removed
<1> QED BY <1>2 DEF Beneath

LEMMA LinkedMembers ==
  ASSUME NEW o, NEW z
  PROVE  z \in Linked(o) <=>
           \/ z \in o
           \/ \E c \in o : \E l \in Links :
                 c.at = l[3] /\ <<l[1], l[2]>> \notin c.by /\ z \in Lengthened(c, l[1], l[2])
<1> DEFINE X(c, l) == Lengthened(c, l[1], l[2])
           Y == {y \in o \X Links : y[1].at = y[2][3] /\ <<y[2][1], y[2][2]>> \notin y[1].by}
<1>1. Linked(o) = o \union UNION {X(y[1], y[2]) : y \in Y}
  BY DEF Linked
<1> HIDE DEF X
<1>2. z \in Linked(o) <=> z \in o \/ \E y \in Y : z \in X(y[1], y[2])
  BY <1>1
<1>3. (\E y \in Y : z \in X(y[1], y[2])) <=>
        \E c \in o : \E l \in Links : c.at = l[3] /\ <<l[1], l[2]>> \notin c.by /\ z \in X(c, l)
  <2>1. ASSUME NEW y \in Y, z \in X(y[1], y[2])
        PROVE  \E c \in o : \E l \in Links : c.at = l[3] /\ <<l[1], l[2]>> \notin c.by /\ z \in X(c, l)
    <3>1. y[1] \in o /\ y[2] \in Links
      OBVIOUS
    <3> QED BY <2>1, <3>1
  <2>2. ASSUME NEW c \in o, NEW l \in Links,
               c.at = l[3], <<l[1], l[2]>> \notin c.by, z \in X(c, l)
        PROVE  \E y \in Y : z \in X(y[1], y[2])
    <3>1. <<c, l>> \in Y /\ <<c, l>>[1] = c /\ <<c, l>>[2] = l
      BY <2>2
    <3> QED BY <2>2, <3>1
  <2> QED BY <2>1, <2>2
<1> QED BY <1>2, <1>3 DEF X

LEMMA LinksMembers ==
  ASSUME NEW l
  PROVE  l \in Links <=> \E m \in InCycle : \E u \in Uses(m) : l = <<m, u[1], u[2]>>
BY DEF Links

LEMMA UnlinkedInOnce ==
  ASSUME NEW n \in Nat
  PROVE  Unlinked \subseteq Once[n]
<1> DEFINE S == {i \in Nat : Unlinked \subseteq Once[i]}
<1>1. 0 \in S
  BY OnceUnfolds
<1>2. ASSUME NEW i \in Nat, i \in S PROVE i + 1 \in S
  <2>1. Once[i] \subseteq Once[i + 1]
    BY OnceUnfolds, LinkedMembers
  <2> QED BY <1>2, <2>1
<1>3. n \in S
  <2> HIDE DEF S
  <2> QED BY <1>1, <1>2, AllNumbers
<1> QED BY <1>3

LEMMA PropagatedGrows ==
  ASSUME IsSurfaces(surface)
  PROVE  /\ IsSurfaces(Propagated.surface)
         /\ \A m \in Modules : surface[m] \subseteq Propagated.surface[m]
         /\ \A m \in Outside : Propagated.surface[m] = surface[m]
<1>1. Len(Cycle) \in 0..Len(Cycle) /\ 0 \in 0..Len(Cycle)
  BY CycleTyped
<1>2. Visited[0].surface = surface
  BY VisitedUnfolds
<1> QED BY <1>1, <1>2, PassGrows DEF Propagated

LEMMA PassWithholds ==
  ASSUME IsSurfaces(withheld)
  PROVE  IsSurfaces(Propagated.withheld)
<1> DEFINE S == {n \in Nat : n <= Len(Cycle) => IsSurfaces(Visited[n].withheld)}
<1>1. 0 \in S
  BY VisitedUnfolds
<1>2. ASSUME NEW n \in Nat, n \in S PROVE n + 1 \in S
  <2> SUFFICES ASSUME n + 1 <= Len(Cycle) PROVE IsSurfaces(Visited[n + 1].withheld)
    OBVIOUS
  <2>1. n + 1 \in 1..Len(Cycle) /\ (n + 1) - 1 = n
    BY CycleTyped
  <2>2. Visited[n + 1] = Visit(Visited[n], Cycle[n + 1])
    BY <2>1, VisitedUnfolds
  <2>3. IsSurfaces(Visited[n].withheld)
    BY <1>2, CycleTyped
  <2>4. PICK w : Visit(Visited[n], Cycle[n + 1]).withheld = [Visited[n].withheld EXCEPT ![Cycle[n + 1]] = w]
    BY DEF Visit
  <2> QED BY <2>2, <2>3, <2>4 DEF IsSurfaces
<1>3. Len(Cycle) \in S
  <2> HIDE DEF S
  <2> QED BY <1>1, <1>2, AllNumbers, CycleTyped
<1> QED BY <1>3, CycleTyped DEF Propagated

OnceNamed(n, s) == \A o \in Once[n] : o.at \in Modules /\ \E e \in s[o.at] : e[1] = o.name

\* A pass gets every chain one export further.
LEMMA PassLengthens ==
  ASSUME IsSurfaces(surface), Exporting, NothingHidden, NEW n \in Nat, OnceNamed(n, surface)
  PROVE  OnceNamed(n + 1, Propagated.surface)
<1> SUFFICES ASSUME NEW o \in Once[n + 1]
             PROVE  o.at \in Modules /\ \E e \in Propagated.surface[o.at] : e[1] = o.name
  BY DEF OnceNamed
<1>1. o \in Linked(Once[n])
  BY OnceUnfolds
<1>2. CASE o \in Once[n]
  <2>1. o.at \in Modules /\ \E e \in surface[o.at] : e[1] = o.name
    BY <1>2 DEF OnceNamed
  <2> QED BY <2>1, PropagatedGrows
<1>3. CASE \E c \in Once[n] : \E l \in Links :
              c.at = l[3] /\ <<l[1], l[2]>> \notin c.by /\ o \in Lengthened(c, l[1], l[2])
  <2>1. PICK c \in Once[n], l \in Links : c.at = l[3] /\ o \in Lengthened(c, l[1], l[2])
    BY <1>3
  <2>2. PICK m \in InCycle : \E u \in Uses(m) : l = <<m, u[1], u[2]>>
    BY LinksMembers
  <2>3. PICK u \in Uses(m) : l = <<m, u[1], u[2]>>
    BY <2>2
  <2>4. l[1] = m /\ l[2] = u[1] /\ l[3] = u[2]
    BY <2>3
  <2>5. o.at = m /\ o.name \in Spelled(u[1], c.name)
    BY <2>1, <2>4 DEF Lengthened
  <2>6. u[2] \in Modules /\ Plain(u[1]) /\ m \in Modules
    BY UsesTyped DEF Exporting, Modules
  <2>7. PICK e \in surface[u[2]] : e[1] = c.name
    BY <2>1, <2>4 DEF OnceNamed
  <2>8. PICK k \in 1..Len(Cycle) :
          /\ \A i \in Modules : /\ surface[i] \subseteq Visited[k - 1].surface[i]
                                /\ Visited[k - 1].surface[i] \subseteq Propagated.surface[i]
          /\ Pairs(Found(Visited[k - 1], m)) \subseteq Propagated.surface[m]
    BY PassVisits
  <2> DEFINE s == Visited[k - 1].surface[u[2]]
             z == <<o.name, e[2]>>
  <2>9. e \in s
    BY <2>6, <2>8
  <2>10. z \in Spelled(u[1], e[1]) \X {e[2]}
    BY <2>5, <2>7
  <2>11. HidingKnown(u[1], s) /\ ~Beneath(e[2], Removed(u[1], s))
    BY HidesNothing
  <2>12. z \in Pairs(Forwards(u[1], s, Visited[k - 1].withheld[u[2]]))
    <3> HIDE DEF s, z
    <3> QED BY <2>6, <2>9, <2>10, <2>11, ForwardsSpelled
  <2>13. z \in Propagated.surface[m]
    <3> HIDE DEF z
    <3> QED BY <2>8, <2>12, FoundPairs
  <2>14. z[1] = o.name
    OBVIOUS
  <2> QED BY <2>5, <2>6, <2>13, <2>14
<1> QED BY <1>1, <1>2, <1>3, LinkedMembers

\* Unless an export feeds itself, what the chains without repetition spell is closed.
Origins == UNION {{<<m, p>> : p \in Public[m]} : m \in Modules}
OnceNames(m) == {o.name : o \in {x \in Once[DeclarationCount] : x.at = m}}

LEMMA OnceDerives ==
  ASSUME Exporting, NothingHidden, DeclarationCount \in Nat, ~FeedsItself
  PROVE  DerivesFrom([m \in Modules |-> OnceNames(m) \X Origins])
<1> DEFINE T == [m \in Modules |-> OnceNames(m) \X Origins]
<1>1. ASSUME NEW m \in Modules, NEW e \in Declared(m) PROVE e \in T[m]
  <2>1. PICK p \in Public[m] : e = <<p, <<m, p>>>>
    BY DEF Declared
  <2>2. [at |-> m, name |-> p, by |-> {}] \in Unlinked
    <3> DEFINE R(i, q) == [at |-> i, name |-> q, by |-> {}]
    <3>1. Unlinked = UNION {{R(i, q) : q \in Public[i]} : i \in Modules}
      BY DEF Unlinked
    <3> HIDE DEF R
    <3>2. R(m, p) \in Unlinked
      BY <3>1
    <3> QED BY <3>2 DEF R
  <2>3. [at |-> m, name |-> p, by |-> {}] \in Once[DeclarationCount]
    BY <2>2, UnlinkedInOnce
  <2>4. p \in OnceNames(m)
    BY <2>3 DEF OnceNames
  <2>5. <<m, p>> \in Origins
    BY DEF Origins
  <2> QED BY <2>1, <2>4, <2>5
<1>2. ASSUME NEW m \in InCycle, NEW u \in Uses(m), NEW e \in T[u[2]], NEW z \in Spelled(u[1], e[1]) \X {e[2]}
      PROVE  z \in T[m]
  <2>1. m \in Modules /\ u[2] \in Modules
    BY UsesTyped DEF Exporting, Modules
  <2>2. e[1] \in OnceNames(u[2]) /\ e[2] \in Origins
    BY <2>1
  <2>3. PICK c \in Once[DeclarationCount] : c.at = u[2] /\ c.name = e[1]
    BY <2>2 DEF OnceNames
  <2>4. PICK x \in Spelled(u[1], c.name) : z = <<x, e[2]>>
    BY <2>3
  <2> DEFINE l == <<m, u[1], u[2]>>
  <2>5. l \in Links /\ l[1] = m /\ l[2] = u[1] /\ l[3] = u[2]
    BY LinksMembers
  <2> HIDE DEF l
  <2>6. \E o \in Once[DeclarationCount] : o.at = l[1] /\ o.name = x
    BY <2>3, <2>4, <2>5 DEF FeedsItself
  <2>7. x \in OnceNames(m)
    BY <2>5, <2>6 DEF OnceNames
  <2> QED BY <2>1, <2>2, <2>4, <2>7
<1> HIDE DEF T
<1>3. DerivesFrom(T)
  BY <1>1, <1>2 DEF DerivesFrom
<1> QED BY <1>3 DEF T

-----------------------------------------------------------------------------
(* The inductive invariant. *)

ExportTypes ==
    /\ IsSurfaces(exporting) /\ IsSurfaces(surface) /\ IsSurfaces(withheld)
    /\ Exporting
    /\ \A m \in Modules : IsFiniteSet(exporting[m]) /\ IsFiniteSet(surface[m])
    /\ \A m \in Modules : Declared(m) \subseteq surface[m]
    /\ \A m \in Outside : surface[m] = Declared(m)
    /\ passes \in Nat /\ DeclarationCount \in 0..MaxExports /\ passes <= DeclarationCount + 1
    /\ verdict \in {"none", "conflict", "settled", "unknown", "diverges"}
    /\ verdict = "none" => passes <= DeclarationCount
    /\ passes = 0 => verdict = "none" /\ \A m \in Modules : surface[m] = Declared(m)

LEMMA CountUnchanged ==
  ASSUME exporting' = exporting
  PROVE  DeclarationCount' = DeclarationCount /\ \A m : Uses(m)' = Uses(m)
BY DEF DeclarationCount, Uses

LEMMA InitTypes == ReexportsInit => ExportTypes
<1> SUFFICES ASSUME ReexportsInit PROVE ExportTypes
  OBVIOUS
<1>1. \A m \in Modules : exporting[m] = {} /\ surface[m] = Declared(m)
  BY DEF ReexportsInit
<1>2. IsSurfaces(exporting) /\ IsSurfaces(surface) /\ IsSurfaces(withheld)
  BY DEF ReexportsInit, IsSurfaces
<1>3. DeclarationCount = 0
  <2>1. UNION {{m} \X exporting[m] : m \in InCycle} = {}
    BY <1>1 DEF Modules
  <2> QED BY <2>1, FS_EmptySet DEF DeclarationCount
<1>4. \A m \in Modules : IsFiniteSet(Declared(m))
  <2> SUFFICES ASSUME NEW m \in Modules PROVE IsFiniteSet(Declared(m))
    OBVIOUS
  <2> DEFINE f == [p \in Public[m] |-> <<p, <<m, p>>>>]
  <2>1. Declared(m) = {f[p] : p \in Public[m]}
    BY DEF Declared
  <2> HIDE DEF f
  <2> QED BY <2>1, FiniteMap, ExportAssumption
<1>5. \A m \in Modules : IsFiniteSet(exporting[m]) /\ IsFiniteSet(surface[m])
  BY <1>1, <1>4, FS_EmptySet
<1>6. \A m \in Outside : m \in Modules
  BY DEF Modules
<1> QED BY <1>1, <1>2, <1>3, <1>5, <1>6, ExportAssumption DEF ExportTypes, ReexportsInit, Exporting

LEMMA AddExportTypes ==
  ASSUME ExportTypes, AddExport
  PROVE  ExportTypes'
<1>0. PICK m \in InCycle : \E d \in MayExport[m] \ exporting[m] :
          exporting' = [exporting EXCEPT ![m] = @ \union {d}]
  BY DEF AddExport
<1>1. PICK d \in MayExport[m] \ exporting[m] :
          exporting' = [exporting EXCEPT ![m] = @ \union {d}]
  BY <1>0
<1>2. m \in Modules
  BY DEF Modules
<1>3. exporting'[m] = exporting[m] \union {d} /\ \A n \in Modules \ {m} : exporting'[n] = exporting[n]
  BY <1>1, <1>2 DEF ExportTypes, IsSurfaces
<1>4. IsSurfaces(exporting')
  BY <1>1, <1>2 DEF ExportTypes, IsSurfaces
<1>5. Exporting'
  BY <1>2, <1>3 DEF ExportTypes, Exporting
<1>6. \A n \in Modules : IsFiniteSet(exporting'[n])
  <2>1. IsFiniteSet(exporting'[m])
    BY <1>2, <1>3, FS_AddElement DEF ExportTypes
  <2> QED BY <1>3, <2>1 DEF ExportTypes
<1>7. DeclarationCount' \in 0..MaxExports /\ DeclarationCount' >= DeclarationCount
  <2> DEFINE Made == UNION {{n} \X exporting[n] : n \in InCycle}
  <2>1. IsFiniteSet(Made)
    <3> DEFINE f == [n \in InCycle |-> {n} \X exporting[n]]
    <3>1. \A n \in InCycle : IsFiniteSet(f[n])
      BY FS_Product, FS_Singleton DEF ExportTypes, Modules
    <3>2. IsFiniteSet(InCycle)
      BY ModulesFinite, FS_Subset DEF Modules
    <3>3. Made = UNION {f[n] : n \in InCycle}
      OBVIOUS
    <3> HIDE DEF f, Made
    <3> QED BY <3>1, <3>2, <3>3, FiniteUnion
  <2>2. Made' = Made \union {<<m, d>>}
    BY <1>2, <1>3 DEF Modules
  <2>3. <<m, d>> \notin Made
    BY <1>1
  <2> HIDE DEF Made
  <2>4. Cardinality(Made') = Cardinality(Made) + 1
    BY <2>1, <2>2, <2>3, FS_AddElement
  <2>5. DeclarationCount' = Cardinality(Made') /\ DeclarationCount = Cardinality(Made)
    BY DEF DeclarationCount, Made
  <2>6. DeclarationCount \in 0..MaxExports /\ DeclarationCount < MaxExports /\ MaxExports \in Nat
    BY ExportAssumption DEF ExportTypes, AddExport
  <2> QED BY <2>4, <2>5, <2>6
<1>8. passes' = passes /\ verdict' = verdict /\ surface' = surface /\ withheld' = withheld /\ passes = 0
  BY DEF AddExport
<1>9. IsSurfaces(surface') /\ IsSurfaces(withheld') /\ \A m1 \in Modules : IsFiniteSet(surface'[m1])
  BY <1>8 DEF ExportTypes
<1>10. /\ \A m1 \in Modules : Declared(m1) \subseteq surface'[m1]
       /\ \A m1 \in Outside : surface'[m1] = Declared(m1)
       /\ verdict' = "none" /\ \A m1 \in Modules : surface'[m1] = Declared(m1)
  <2>1. verdict = "none" /\ \A m1 \in Modules : surface[m1] = Declared(m1)
    BY <1>8 DEF ExportTypes
  <2> QED BY <2>1, <1>8 DEF ExportTypes
<1>11. /\ passes' \in Nat /\ passes' <= DeclarationCount' + 1
       /\ verdict' \in {"none", "conflict", "settled", "unknown", "diverges"}
       /\ verdict' = "none" => passes' <= DeclarationCount'
  <2>1. MaxExports \in Nat /\ DeclarationCount' \in Nat
    BY <1>7, ExportAssumption
  <2>2. passes' = 0 /\ verdict' = "none"
    BY <1>8, <1>10
  <2>3. \A k \in Nat : 0 <= k /\ 0 <= k + 1
    OBVIOUS
  <2>4. passes' <= DeclarationCount' + 1 /\ passes' <= DeclarationCount'
    BY <2>1, <2>2, <2>3
  <2> QED BY <2>2, <2>4
<1> QED BY <1>4, <1>5, <1>6, <1>7, <1>9, <1>10, <1>11 DEF ExportTypes

LEMMA PropagateTypes ==
  ASSUME ExportTypes, Propagate
  PROVE  ExportTypes'
<1>1. exporting' = exporting /\ surface' = Propagated.surface /\ withheld' = Propagated.withheld
      /\ passes' = passes + 1 /\ verdict = "none"
  BY DEF Propagate
<1>2. DeclarationCount' = DeclarationCount
  BY <1>1, CountUnchanged
<1>3. IsSurfaces(surface') /\ \A m \in Modules : surface[m] \subseteq surface'[m]
  BY <1>1, PropagatedGrows DEF ExportTypes
<1>4. \A m \in Outside : surface'[m] = surface[m]
  BY <1>1, PropagatedGrows DEF ExportTypes
<1>5. \A m \in Modules : IsFiniteSet(surface'[m])
  BY <1>1, PassFinite DEF ExportTypes
<1>6. IsSurfaces(withheld')
  BY <1>1, PassWithholds DEF ExportTypes
<1>7. verdict' \in {"none", "conflict", "settled", "unknown", "diverges"}
  BY Zenon DEF Propagate
<1>8. verdict' = "none" => passes' <= DeclarationCount
  <2>1. verdict' = "none" => ~(passes' > DeclarationCount)
    BY Zenon DEF Propagate
  <2> QED BY <1>1, <2>1 DEF ExportTypes
<1>9. passes' \in Nat /\ passes' <= DeclarationCount + 1 /\ passes' # 0
  BY <1>1 DEF ExportTypes
<1>10. /\ IsSurfaces(exporting') /\ Exporting' /\ \A m \in Modules : IsFiniteSet(exporting'[m])
       /\ DeclarationCount' \in 0..MaxExports
  BY <1>1, <1>2 DEF ExportTypes, Exporting
<1>11. /\ \A m \in Modules : Declared(m) \subseteq surface'[m]
       /\ \A m \in Outside : surface'[m] = Declared(m)
  BY <1>3, <1>4 DEF ExportTypes
<1> QED BY <1>2, <1>3, <1>5, <1>6, <1>7, <1>8, <1>9, <1>10, <1>11 DEF ExportTypes

\* A cycle that has settled is closed under its exports.
Settling == verdict = "settled" => Settled

LEMMA SettlingStep ==
  ASSUME ExportTypes, Settling, [ReexportsNext]_exportVars
  PROVE  Settling'
<1> SUFFICES ASSUME verdict' = "settled" PROVE Settled'
  BY DEF Settling
<1>1. CASE AddExport
  BY <1>1 DEF AddExport, ExportTypes
<1>2. CASE Propagate
  <2>1. surface' = surface /\ withheld' = withheld /\ AllNamed
    BY <1>2, Zenon DEF Propagate
  <2>2. Propagated.surface = surface /\ exporting' = exporting
    BY <1>2, <2>1 DEF Propagate
  <2>3. Settled
    BY <2>1, <2>2, UnchangedSettles DEF ExportTypes
  <2> QED BY <2>1, <2>2, <2>3 DEF Settled, Uses
<1>3. CASE UNCHANGED exportVars
  <2>1. Settled
    BY <1>3 DEF Settling, exportVars
  <2> QED BY <1>3, <2>1 DEF Settled, exportVars, Uses
<1> QED BY <1>1, <1>2, <1>3 DEF ReexportsNext

\* What is exported is within all that is closed under the exports of the cycle.
Sound == \A T : DerivesFrom(T) => \A m \in Modules : surface[m] \subseteq T[m]

LEMMA SameHidden ==
  ASSUME ExportTypes, HidesFinal, NEW s, \A m \in Outside : s[m] = surface[m],
         NEW m \in InCycle, NEW u \in Uses(m)
  PROVE  Removed(u[1], s[u[2]]) = Removed(u[1], surface[u[2]])
<1>1. u[1] \in MayExport[m] /\ u[2] \in u[1].to
  BY UsesTyped DEF ExportTypes, Exporting, Modules
<1>2. CASE u[1].hidden = {}
  BY <1>2 DEF Removed
<1>3. CASE u[1].to \subseteq Outside
  BY <1>1, <1>3
<1> QED BY <1>1, <1>2, <1>3 DEF HidesFinal

LEMMA SoundStep ==
  ASSUME ExportTypes, HidesFinal, Sound, [ReexportsNext]_exportVars
  PROVE  Sound'
<1> SUFFICES ASSUME NEW T, DerivesFrom(T)' PROVE \A m \in Modules : surface'[m] \subseteq T[m]
  BY DEF Sound
<1>0. \A m \in Modules : Declared(m) \subseteq T[m]
  BY DEF DerivesFrom, Declared
<1>1. CASE AddExport
  <2>1. surface' = surface /\ passes = 0
    BY <1>1 DEF AddExport
  <2> QED BY <1>0, <2>1 DEF ExportTypes
<1>2. CASE Propagate
  <2>1. exporting' = exporting /\ surface' = Propagated.surface
    BY <1>2 DEF Propagate
  <2>2. \A m \in Outside : surface'[m] = surface[m]
    BY <2>1, PropagatedGrows DEF ExportTypes
  <2>3. \A m \in InCycle : \A u \in Uses(m) : Removed(u[1], surface'[u[2]]) = Removed(u[1], surface[u[2]])
    BY <2>2, SameHidden
  <2>4. \A m \in InCycle : \A u \in Uses(m) : \A e \in T[u[2]] :
          ~Beneath(e[2], Removed(u[1], surface'[u[2]])) => Spelled(u[1], e[1]) \X {e[2]} \subseteq T[m]
    BY <2>1 DEF DerivesFrom, Uses
  <2>5. DerivesFrom(T)
    BY <1>0, <2>3, <2>4, Zenon DEF DerivesFrom
  <2> QED BY <2>1, <2>5, PassWithin DEF Sound, ExportTypes
<1>3. CASE UNCHANGED exportVars
  <2>1. DerivesFrom(T)
    BY <1>3 DEF DerivesFrom, exportVars, Uses
  <2> QED BY <1>3, <2>1 DEF Sound, exportVars
<1> QED BY <1>1, <1>2, <1>3 DEF ReexportsNext

LEMMA TypesStep ==
  ASSUME ExportTypes, [ReexportsNext]_exportVars
  PROVE  ExportTypes'
<1>1. CASE UNCHANGED exportVars
  BY <1>1, CountUnchanged DEF exportVars, ExportTypes, Exporting
<1> QED BY <1>1, AddExportTypes, PropagateTypes DEF ReexportsNext

LEMMA SettledChains ==
  ASSUME ExportTypes, Settled
  PROVE  LET n == Cardinality(UNION {{m} \X surface[m] : m \in Modules})
         IN  /\ \A k \in Nat : \A m \in Modules : Chains[k][m] \subseteq surface[m]
             /\ Sound => \A m \in Modules : surface[m] = Chains[n][m]
<1> DEFINE Z == UNION {{m} \X surface[m] : m \in Modules}
           n == Cardinality(Z)
<1>1. IsFiniteSet(Z)
  <2> DEFINE f == [m \in Modules |-> {m} \X surface[m]]
  <2>1. \A m \in Modules : IsFiniteSet(f[m])
    BY FS_Product, FS_Singleton DEF ExportTypes
  <2>2. Z = UNION {f[m] : m \in Modules}
    OBVIOUS
  <2> HIDE DEF f, Z
  <2> QED BY <2>1, <2>2, ModulesFinite, FiniteUnion
<1>2. \A k \in Nat : \A m \in Modules : Chains[k][m] \subseteq surface[m]
  BY ChainsWithin DEF ExportTypes
<1>3. n \in Nat /\ Onwards(Chains[n]) = Chains[n]
  BY <1>1, ChainsEnd, FS_CardinalityType DEF ExportTypes
<1> HIDE DEF n
<1>4. DerivesFrom(Chains[n])
  <2>1. ASSUME NEW m \in Modules PROVE Declared(m) \subseteq Chains[n][m]
    BY <1>3, OnwardsLeads
  <2>2. ASSUME NEW m \in InCycle, NEW u \in Uses(m), NEW e \in Chains[n][u[2]],
               ~Beneath(e[2], Removed(u[1], surface[u[2]]))
        PROVE  Spelled(u[1], e[1]) \X {e[2]} \subseteq Chains[n][m]
    <3>1. m \in Modules
      BY DEF Modules
    <3>2. Spelled(u[1], e[1]) \X {e[2]} \subseteq Onwards(Chains[n])[m]
      BY <2>2, <3>1, OnwardsLeads
    <3> QED BY <1>3, <3>2
  <2> QED BY <2>1, <2>2 DEF DerivesFrom
<1>5. ASSUME Sound, NEW m \in Modules PROVE surface[m] = Chains[n][m]
  <2>1. surface[m] \subseteq Chains[n][m]
    BY <1>4, <1>5 DEF Sound
  <2>2. Chains[n][m] \subseteq surface[m]
    BY <1>2, <1>3
  <2> QED BY <2>1, <2>2
<1> QED BY <1>2, <1>5 DEF n

\* Without hiding nothing is withheld, and after n passes the exports have the names of
\* the chains of n exports.
Unhidden == /\ \A m \in Modules : withheld[m] = {}
            /\ OnceNamed(passes, surface)

LEMMA FindsOpen ==
  ASSUME Exporting, NothingHidden, NEW now, \A t \in Modules : now.withheld[t] = {},
         NEW m \in InCycle, NEW u \in Uses(m)
  PROVE  /\ \A f \in Forwards(u[1], now.surface[u[2]], now.withheld[u[2]]) : f.kept = {}
         /\ Hides(u[1], now.surface[u[2]], now.withheld[u[2]]) = {}
<1>1. u[2] \in Modules
  BY UsesTyped DEF Exporting, Modules
<1> DEFINE d == u[1]
           s == now.surface[u[2]]
           h == now.withheld[u[2]]
<1>2. h = {} /\ HidingKnown(d, s) /\ Removed(d, s) = {} /\ \A o : ~Beneath(o, Removed(d, s))
  BY <1>1, HidesNothing
<1> HIDE DEF d, s, h
<1>3. \A n : HeldAt(h, n) = {}
  BY <1>2 DEF HeldAt
<1>4. Hides(d, s, h) = {}
  BY <1>2 DEF Hides
<1>5. ASSUME NEW f \in Forwards(d, s, h) PROVE f.kept = {}
  <2>1. CASE d.items # {}
    <3> DEFINE G(i, e) == [name |-> d.region \o Renamed(i, e[1]), origin |-> e[2], kept |-> HeldAt(h, e[1])]
    <3>1. Forwards(d, s, h) = UNION {{G(i, e) : e \in Matching(s, i.path)} : i \in d.items}
      BY <2>1 DEF Forwards
    <3>2. \A i, e : G(i, e).kept = {}
      BY <1>3
    <3> HIDE DEF G
    <3> QED BY <3>1, <3>2
  <2>2. CASE d.items = {}
    <3> DEFINE G(e) == [name |-> d.region \o e[1], origin |-> e[2], kept |-> HeldAt(h, e[1]) \union Removed(d, s)]
    <3>1. Forwards(d, s, h) = {G(e) : e \in {x \in s : ~Beneath(x[2], Removed(d, s))}}
      BY <1>2, <2>2 DEF Forwards
    <3>2. \A e : G(e).kept = {}
      BY <1>2, <1>3
    <3> HIDE DEF G
    <3> QED BY <3>1, <3>2
  <2> QED BY <2>1, <2>2
<1> QED BY <1>4, <1>5 DEF d, s, h

LEMMA VisitOpens ==
  ASSUME Exporting, NothingHidden, NEW now, IsSurfaces(now.withheld),
         \A t \in Modules : now.withheld[t] = {}, NEW m \in InCycle
  PROVE  IsSurfaces(Visit(now, m).withheld) /\ \A t \in Modules : Visit(now, m).withheld[t] = {}
<1> DEFINE F(u) == Forwards(u[1], now.surface[u[2]], now.withheld[u[2]])
           H(u) == Hides(u[1], now.surface[u[2]], now.withheld[u[2]])
           found == Found(now, m)
           hidden == UNION {H(u) : u \in Uses(m)}
           all == now.surface[m] \union {<<f.name, f.origin>> : f \in found}
           kept(n) == IF n \in Public[m] THEN {}
                      ELSE {q \in UNION {f.kept : f \in found} : \A f \in found : f.name = n => q \in f.kept}
           w == UNION {{n} \X kept(n) : n \in {f.name : f \in found}}
                \union {e \in hidden : e[1] \notin NamesIn(all)}
<1>1. Visit(now, m).withheld = [now.withheld EXCEPT ![m] = w]
  BY DEF Visit
<1>2. \A u \in Uses(m) : H(u) = {} /\ \A f \in F(u) : f.kept = {}
  BY FindsOpen
<1>3. found = UNION {F(u) : u \in Uses(m)}
  BY DEF Found
<1> HIDE DEF F, H, found
<1>4. \A f \in found : f.kept = {}
  BY <1>2, <1>3
<1>5. hidden = {}
  BY <1>2
<1>6. \A n : kept(n) = {}
  BY <1>4
<1> HIDE DEF kept, hidden, all
<1>7. w = {}
  BY <1>5, <1>6
<1> HIDE DEF w
<1> QED BY <1>1, <1>7 DEF IsSurfaces

LEMMA PassOpens ==
  ASSUME ExportTypes, NothingHidden, \A m \in Modules : withheld[m] = {}
  PROVE  \A m \in Modules : Propagated.withheld[m] = {}
<1> DEFINE P(n) == IsSurfaces(Visited[n].withheld) /\ \A t \in Modules : Visited[n].withheld[t] = {}
           S == {n \in Nat : n <= Len(Cycle) => P(n)}
<1>1. 0 \in S
  BY VisitedUnfolds DEF ExportTypes
<1>2. ASSUME NEW n \in Nat, n \in S PROVE n + 1 \in S
  <2> SUFFICES ASSUME n + 1 <= Len(Cycle) PROVE P(n + 1)
    OBVIOUS
  <2>1. n + 1 \in 1..Len(Cycle) /\ (n + 1) - 1 = n /\ Cycle[n + 1] \in InCycle
    BY CycleTyped
  <2>2. Visited[n + 1] = Visit(Visited[n], Cycle[n + 1])
    BY <2>1, VisitedUnfolds
  <2>3. P(n)
    <3> HIDE DEF P
    <3> QED BY <1>2, CycleTyped
  <2> QED BY <2>1, <2>2, <2>3, VisitOpens DEF ExportTypes
<1>3. Len(Cycle) \in S
  <2> HIDE DEF S
  <2> QED BY <1>1, <1>2, AllNumbers, CycleTyped
<1> QED BY <1>3, CycleTyped DEF Propagated

\* The chains are those of the declarations, which a pass leaves alone.
LEMMA SameChains ==
  ASSUME exporting' = exporting
  PROVE  Once' = Once /\ (FeedsItself' <=> FeedsItself) /\ Links' = Links
<1>1. Links' = Links
  BY DEF Links, Uses
<1>2. \A o : Linked(o)' = Linked(o)
  BY <1>1 DEF Linked
<1>3. Once' = Once
  BY <1>1 DEF Once, Linked, Unlinked
<1> QED BY <1>1, <1>3, CountUnchanged DEF FeedsItself

LEMMA StartNamed ==
  (\A m \in Modules : surface[m] = Declared(m)) => OnceNamed(0, surface)
<1> SUFFICES ASSUME \A m \in Modules : surface[m] = Declared(m), NEW o \in Once[0]
             PROVE  o.at \in Modules /\ \E e \in surface[o.at] : e[1] = o.name
  BY Zenon DEF OnceNamed
<1> DEFINE R(i, q) == [at |-> i, name |-> q, by |-> {}]
<1>1. o \in UNION {{R(i, q) : q \in Public[i]} : i \in Modules}
  BY OnceUnfolds DEF Unlinked
<1>2. \A i, q : R(i, q).at = i /\ R(i, q).name = q
  OBVIOUS
<1> HIDE DEF R
<1>3. PICK i \in Modules : \E q \in Public[i] : o = R(i, q)
  BY <1>1
<1>4. PICK q \in Public[i] : o = R(i, q)
  BY <1>3
<1>5. <<q, <<i, q>>>> \in surface[i]
  BY DEF Declared
<1>6. <<q, <<i, q>>>>[1] = q
  OBVIOUS
<1> QED BY <1>2, <1>4, <1>5, <1>6

LEMMA UnhiddenStep ==
  ASSUME ExportTypes, NothingHidden, Unhidden, [ReexportsNext]_exportVars
  PROVE  Unhidden'
<1>1. CASE AddExport
  <2>1. surface' = surface /\ withheld' = withheld /\ passes = 0 /\ passes' = passes
    BY <1>1 DEF AddExport
  <2>2. \A m \in Modules : surface'[m] = Declared(m)'
    BY <2>1 DEF ExportTypes, Declared
  <2>3. ((\A m \in Modules : surface[m] = Declared(m)) => OnceNamed(0, surface))'
    BY StartNamed, PTL
  <2>4. OnceNamed(0, surface)'
    BY <2>2, <2>3
  <2> QED BY <2>1, <2>4 DEF Unhidden, OnceNamed
<1>2. CASE Propagate
  <2>1. /\ surface' = Propagated.surface /\ withheld' = Propagated.withheld
        /\ passes' = passes + 1 /\ exporting' = exporting
    BY <1>2 DEF Propagate
  <2>2. \A m \in Modules : withheld'[m] = {}
    BY <2>1, PassOpens DEF Unhidden
  <2>3. OnceNamed(passes + 1, Propagated.surface)
    BY PassLengthens DEF Unhidden, ExportTypes
  <2>4. Once' = Once
    BY <2>1, SameChains
  <2> QED BY <2>1, <2>2, <2>3, <2>4 DEF Unhidden, OnceNamed
<1>3. CASE UNCHANGED exportVars
  <2>1. Once' = Once
    BY <1>3, SameChains DEF exportVars
  <2> QED BY <1>3, <2>1 DEF Unhidden, OnceNamed, exportVars
<1> QED BY <1>1, <1>2, <1>3 DEF ReexportsNext

\* Once the chains without repetition have had their passes, a name that is new is
\* that of a chain that repeats an export.
LEMMA DivergingFeeds ==
  ASSUME ExportTypes, NothingHidden, Unhidden, Sound, Propagate, verdict' = "diverges"
  PROVE  FeedsItself'
<1>0. exporting' = exporting /\ surface' = Propagated.surface /\ withheld' = Propagated.withheld
      /\ passes' = passes + 1 /\ verdict = "none"
  BY DEF Propagate
<1> SUFFICES ASSUME ~FeedsItself PROVE FALSE
  BY <1>0, SameChains
<1>1. /\ \A m \in InCycle : ~Clash(surface'[m])
      /\ ~(surface' = surface /\ withheld' = withheld)
      /\ passes' > DeclarationCount
  BY Zenon DEF Propagate
<1>2. passes = DeclarationCount /\ DeclarationCount \in Nat
  BY <1>0, <1>1 DEF ExportTypes
<1>3. withheld' = withheld
  <2>1. IsSurfaces(withheld) /\ IsSurfaces(withheld')
    BY <1>0, PassWithholds DEF ExportTypes
  <2>2. \A m \in Modules : withheld[m] = {} /\ withheld'[m] = {}
    BY <1>0, PassOpens DEF Unhidden
  <2> QED BY <2>1, <2>2 DEF IsSurfaces
<1> DEFINE T == [m \in Modules |-> OnceNames(m) \X Origins]
<1>4. DerivesFrom(T)
  BY <1>2, OnceDerives DEF ExportTypes
<1>5. \A m \in Modules : T[m] = OnceNames(m) \X Origins
  OBVIOUS
<1> HIDE DEF T
<1>6. HidesFinal
  BY DEF HidesFinal, NothingHidden
<1>7. \A m \in Modules : surface[m] \subseteq T[m]
  BY <1>4 DEF Sound
<1>8. \A m \in Modules : surface'[m] \subseteq T[m]
  BY <1>0, <1>4, <1>6, <1>7, PassWithin DEF ExportTypes
<1>9. /\ IsSurfaces(surface') /\ IsSurfaces(surface)
      /\ \A m \in Modules : surface[m] \subseteq surface'[m]
      /\ \A m \in Outside : surface'[m] = surface[m]
  BY <1>0, PropagatedGrows DEF ExportTypes
<1>10. PICK m \in Modules : surface'[m] # surface[m]
  BY <1>1, <1>3, <1>9 DEF IsSurfaces
<1>11. m \in InCycle
  BY <1>9, <1>10 DEF Modules
<1>12. PICK e \in surface'[m] : e \notin surface[m]
  BY <1>9, <1>10
<1>13. e \in OnceNames(m) \X Origins
  BY <1>5, <1>8, <1>12
<1>14. PICK g \in surface[m] : g[1] = e[1]
  <2>1. e[1] \in OnceNames(m)
    BY <1>13
  <2>2. PICK o \in Once[DeclarationCount] : o.at = m /\ o.name = e[1]
    BY <2>1 DEF OnceNames
  <2> QED BY <1>2, <2>2 DEF Unhidden, OnceNamed
<1>15. g \in OnceNames(m) \X Origins /\ g \in surface'[m]
  BY <1>5, <1>7, <1>9
<1>16. g[2] # e[2]
  BY <1>12, <1>13, <1>14, <1>15
<1>17. Clash(surface'[m])
  BY <1>12, <1>14, <1>15, <1>16, Zenon DEF Clash
<1> QED BY <1>1, <1>11, <1>17

LEMMA InitUnhidden ==
  ASSUME ReexportsInit
  PROVE  Unhidden /\ Sound /\ Settling /\ verdict = "none"
<1>1. \A m \in Modules : surface[m] = Declared(m) /\ withheld[m] = {}
  BY DEF ReexportsInit
<1>2. passes = 0 /\ verdict = "none"
  BY DEF ReexportsInit
<1> QED BY <1>1, <1>2, StartNamed DEF Unhidden, Sound, Settling, DerivesFrom

LEMMA SettlesStep ==
  ASSUME ExportTypes, NothingHidden, Unhidden, Sound, verdict = "diverges" => FeedsItself,
         [ReexportsNext]_exportVars, verdict' = "diverges"
  PROVE  FeedsItself'
<1>1. CASE AddExport
  BY <1>1 DEF AddExport, ExportTypes
<1>2. CASE Propagate
  BY <1>2, DivergingFeeds
<1>3. CASE UNCHANGED exportVars
  BY <1>3, SameChains DEF exportVars
<1> QED BY <1>1, <1>2, <1>3 DEF ReexportsNext

-----------------------------------------------------------------------------
\* Every surface keeps what its module declares, an outside module gets nothing more,
\* and _converge makes one step more than there are declarations at most.
THEOREM ExportsTyped == ReexportsSpec => [](ReexportsTypeOK /\ passes <= DeclarationCount + 1)
<1>1. ReexportsSpec => []ExportTypes
  BY InitTypes, TypesStep, PTL DEF ReexportsSpec
<1>2. ExportTypes => ReexportsTypeOK /\ passes <= DeclarationCount + 1
  <2> SUFFICES ASSUME ExportTypes PROVE ReexportsTypeOK /\ passes <= DeclarationCount + 1
    OBVIOUS
  <2>1. passes \in 0..(MaxExports + 1)
    BY ExportAssumption DEF ExportTypes
  <2> QED BY <2>1 DEF ExportTypes, Exporting, ReexportsTypeOK
<1> QED BY <1>1, <1>2, PTL

\* However it is ordered and whatever it hides, a settled cycle exports all that chains
\* of exports lead to past what its surfaces hide: no pass was left out.
THEOREM AllForwarded ==
  ReexportsSpec => [](verdict = "settled" => \A n \in Nat : \A m \in Modules : Chains[n][m] \subseteq surface[m])
<1>1. ReexportsInit => ExportTypes /\ Settling
  BY InitTypes, InitUnhidden
<1>2. ExportTypes /\ Settling /\ [ReexportsNext]_exportVars => (ExportTypes /\ Settling)'
  BY TypesStep, SettlingStep
<1>3. ExportTypes /\ Settling =>
        (verdict = "settled" => \A n \in Nat : \A m \in Modules : Chains[n][m] \subseteq surface[m])
  BY SettledChains DEF Settling
<1> QED BY <1>1, <1>2, <1>3, PTL DEF ReexportsSpec

\* Where only exports of modules outside the cycle hide anything, a settled cycle exports
\* nothing else.
THEOREM NothingElse ==
  ASSUME HidesFinal
  PROVE  ReexportsSpec =>
           [](verdict = "settled" =>
                LET n == Cardinality(UNION {{m} \X surface[m] : m \in Modules})
                IN  \A m \in Modules : surface[m] = Chains[n][m])
<1> DEFINE Inv == ExportTypes /\ Settling /\ Sound
           Exact == verdict = "settled" =>
                      LET n == Cardinality(UNION {{m} \X surface[m] : m \in Modules})
                      IN  \A m \in Modules : surface[m] = Chains[n][m]
<1>1. ReexportsInit => Inv
  BY InitTypes, InitUnhidden
<1>2. Inv /\ [ReexportsNext]_exportVars => Inv'
  BY TypesStep, SettlingStep, SoundStep
<1>3. Inv => Exact
  BY SettledChains DEF Settling
<1>4. ReexportsSpec => []Exact
  <2> HIDE DEF Inv, Exact
  <2> QED BY <1>1, <1>2, <1>3, PTL DEF ReexportsSpec
<1> QED BY <1>4

\* Without hiding, the surfaces settle as the documentation says, and the steps of
\* _converge suffice unless an export feeds itself.
THEOREM CyclesSettle ==
  ASSUME NothingHidden
  PROVE  ReexportsSpec => []SurfacesSettle
<1> DEFINE Feeds == verdict = "diverges" => FeedsItself
           Inv == ExportTypes /\ Settling /\ Sound /\ Unhidden /\ Feeds
<1>1. ReexportsInit => Inv
  <2>1. ReexportsInit => ExportTypes /\ Settling /\ Sound /\ Unhidden /\ verdict = "none"
    BY InitTypes, InitUnhidden
  <2> QED BY <2>1
<1>2. HidesFinal
  BY DEF HidesFinal, NothingHidden
<1>3. Inv /\ [ReexportsNext]_exportVars => Inv'
  <2> SUFFICES ASSUME Inv, [ReexportsNext]_exportVars PROVE Inv'
    OBVIOUS
  <2>1. (ExportTypes /\ Settling /\ Sound /\ Unhidden)'
    BY <1>2, TypesStep, SettlingStep, SoundStep, UnhiddenStep
  <2>2. Feeds'
    BY SettlesStep
  <2> QED BY <2>1, <2>2
<1>4. Inv => SurfacesSettle
  <2> SUFFICES ASSUME Inv PROVE SurfacesSettle
    OBVIOUS
  <2> DEFINE n == Cardinality(UNION {{m} \X surface[m] : m \in Modules})
  <2>1. ASSUME verdict = "settled", NEW m \in InCycle PROVE surface[m] = Chains[n][m]
    <3>1. Settled /\ m \in Modules
      BY <2>1 DEF Settling, Modules
    <3> QED BY <3>1, SettledChains
  <2> QED BY <2>1 DEF SurfacesSettle
<1>5. ReexportsSpec => []SurfacesSettle
  <2> HIDE DEF Inv
  <2> QED BY <1>1, <1>3, <1>4, PTL DEF ReexportsSpec
<1> QED BY <1>5

-----------------------------------------------------------------------------
CapturesThrough == \A f \in Fn \ {Main} : Needed(f) \subseteq Captures(f)

-----------------------------------------------------------------------------
(* Nesting. *)

LEMMA InsideCloses ==
  ASSUME NEW f \in Fn
  PROVE  /\ f \in Inside(f) /\ Inside(f) \subseteq Fn /\ Written(Inside(f))
         /\ \A T \in SUBSET Fn : f \in T /\ Written(T) => Inside(f) \subseteq T
<1>1. ASSUME NEW g \in Fn \ {Main}, Outer[g] \in Inside(f) PROVE g \in Inside(f)
  <2>1. ASSUME NEW T \in SUBSET Fn, f \in T, Written(T) PROVE g \in T
    BY <1>1, <2>1 DEF Inside, Written
  <2> QED BY <2>1 DEF Inside
<1> QED BY <1>1 DEF Inside, Written

LEMMA InsideIsTransitive ==
  ASSUME NEW f \in Fn, NEW g \in Inside(f)
  PROVE  Inside(g) \subseteq Inside(f)
<1>1. g \in Fn
  BY InsideCloses
<1> QED BY <1>1, InsideCloses

LEMMA OuterContains ==
  ASSUME NEW f \in Fn \ {Main}
  PROVE  Outer[f] \in Fn /\ f \in Inside(Outer[f])
<1>1. Outer[f] \in Fn
  BY FnAssumption
<1> QED BY <1>1, InsideCloses DEF Written

\* The body of the module is inside nothing else.
LEMMA MainIsOutside ==
  ASSUME NEW g \in Fn, Main \in Inside(g)
  PROVE  g = Main
<1> SUFFICES ASSUME g # Main PROVE FALSE
  OBVIOUS
<1> DEFINE T == Inside(g) \ {Main}
<1>1. T \in SUBSET Fn /\ g \in T
  BY InsideCloses
<1>2. Written(T)
  BY InsideCloses DEF Written
<1> HIDE DEF T
<1>3. Inside(g) \subseteq T
  BY <1>1, <1>2, InsideCloses
<1> USE DEF T
<1> QED BY <1>3

\* A function is inside another because what it is written in is.
LEMMA InsideByOuter ==
  ASSUME NEW g \in Fn, NEW f \in Inside(g), f # g
  PROVE  f # Main /\ Outer[f] \in Inside(g)
<1>1. f \in Fn /\ f # Main
  BY InsideCloses, MainIsOutside
<1> SUFFICES ASSUME Outer[f] \notin Inside(g) PROVE FALSE
  BY <1>1
<1> DEFINE T == Inside(g) \ {f}
<1>2. T \in SUBSET Fn /\ g \in T
  BY InsideCloses
<1>3. Written(T)
  BY InsideCloses DEF Written
<1> HIDE DEF T
<1>4. Inside(g) \subseteq T
  BY <1>2, <1>3, InsideCloses
<1> USE DEF T
<1> QED BY <1>4

LEMMA InsideIsAntisymmetric ==
  ASSUME NEW f \in Fn, NEW g \in Fn, f \in Inside(g), g \in Inside(f)
  PROVE  f = g
<1> SUFFICES ASSUME f # g PROVE FALSE
  OBVIOUS
<1>1. f # Main /\ Outer[f] \in Inside(g)
  BY InsideByOuter
<1>2. Outer[f] \in Inside(f)
  BY <1>1, InsideIsTransitive
<1> QED BY <1>1, <1>2, FnAssumption

\* A variable in scope of a body is declared around it, once.
LEMMA OneOwner ==
  ASSUME NEW f \in Fn, NEW g \in Fn, NEW v, v \in Own(f), v \in Own(g)
  PROVE  f = g
BY FnAssumption

-----------------------------------------------------------------------------
(* Slots and frames. *)

Variables == UNION {Own(f) : f \in Fn}
Slots     == UNION {[D -> Nat] : D \in SUBSET Variables}
Frame     == [fn : Fn, slots : Slots, env : Slots]

\* Each variable is one of a function around the one that runs.
Around(f, env) == \A v \in DOMAIN env : \E g \in Fn : f \in Inside(g) /\ v \in Own(g)

FrameKeeps(fr) ==
    /\ \A v \in DOMAIN fr.slots : /\ v \in DOMAIN fr.env /\ fr.slots[v] = fr.env[v]
                                  /\ v \in Own(fr.fn) \union Captures(fr.fn)
    /\ \A v \in DOMAIN fr.env : v \in Own(fr.fn) \union Captures(fr.fn) => v \in DOMAIN fr.slots
    /\ Around(fr.fn, fr.env)

ClosureKeeps(c) ==
    /\ c.fn # Main /\ DOMAIN c.slots = Captures(c.fn)
    /\ \A v \in DOMAIN c.slots : v \in DOMAIN c.env /\ c.slots[v] = c.env[v]
    /\ Around(c.fn, c.env) /\ \A v \in DOMAIN c.env : v \notin Own(c.fn)

FramesKeep ==
    /\ frames \in Seq(Frame) /\ frames # <<>>
    /\ \A i \in DOMAIN frames : FrameKeeps(frames[i]) /\ (frames[i].fn = Main <=> i = 1)
    /\ closures \subseteq Frame /\ \A c \in closures : ClosureKeeps(c)
    /\ bindings \in Nat

LEMMA SlotsAre ==
  ASSUME NEW s
  PROVE  s \in Slots <=> \E D \in SUBSET Variables : s \in [D -> Nat]
BY DEF Slots

IsOver(s, new, old) ==
    /\ s \in Slots /\ DOMAIN s = DOMAIN new \union DOMAIN old
    /\ \A v \in DOMAIN new : s[v] = new[v]
    /\ \A v \in DOMAIN old : v \notin DOMAIN new => s[v] = old[v]

LEMMA OverIs ==
  ASSUME NEW new \in Slots, NEW old \in Slots
  PROVE  IsOver(Over(new, old), new, old)
<1> DEFINE s == Over(new, old)
<1>1. PICK D \in SUBSET Variables : new \in [D -> Nat]
  BY SlotsAre
<1>2. PICK E \in SUBSET Variables : old \in [E -> Nat]
  BY SlotsAre
<1>3. s \in [D \union E -> Nat]
  BY <1>1, <1>2 DEF Over
<1>4. D \union E \in SUBSET Variables
  OBVIOUS
<1>5. s \in Slots
  BY <1>3, <1>4, SlotsAre
<1> QED BY <1>5 DEF Over, IsOver

LEMMA TopIs ==
  ASSUME FramesKeep
  PROVE  /\ Len(frames) \in DOMAIN frames /\ Len(frames) \in Nat /\ DOMAIN frames = 1..Len(frames)
         /\ Top \in Frame /\ FrameKeeps(Top) /\ (Top.fn = Main <=> Len(frames) = 1)
<1>1. Len(frames) \in Nat /\ DOMAIN frames = 1..Len(frames) /\ Len(frames) # 0
  BY DEF FramesKeep
<1>2. Len(frames) \in DOMAIN frames
  BY <1>1
<1> QED BY <1>1, <1>2 DEF FramesKeep, Top

LEMMA EmptyIsSlots == <<>> \in Slots /\ DOMAIN <<>> = {}
<1>1. <<>> \in [{} -> Nat]
  OBVIOUS
<1> QED BY <1>1, SlotsAre

LEMMA InitKeeps == ClosuresInit => FramesKeep
<1> SUFFICES ASSUME ClosuresInit PROVE FramesKeep
  OBVIOUS
<1> DEFINE first == [fn |-> Main, slots |-> <<>>, env |-> <<>>]
<1>1. first \in Frame /\ FrameKeeps(first)
  BY EmptyIsSlots, FnAssumption DEF Frame, FrameKeeps, Around
<1>2. frames = <<first>> /\ bindings = 0
  BY DEF ClosuresInit
<1>3. ASSUME NEW c \in closures PROVE c \in Frame /\ ClosureKeeps(c)
  <2>1. PICK f \in {g \in Fn \ {Main} : Def(g)} : c = [fn |-> f, slots |-> <<>>, env |-> <<>>]
    BY DEF ClosuresInit
  <2>2. f \in Fn /\ f # Main /\ Captures(f) = {}
    BY DEF Def
  <2> QED BY <2>1, <2>2, EmptyIsSlots DEF Frame, ClosureKeeps, Around
<1>4. first.fn = Main
  OBVIOUS
<1> HIDE DEF first
<1> QED BY <1>1, <1>2, <1>3, <1>4 DEF FramesKeep

-----------------------------------------------------------------------------
(* The steps. *)

LEMMA IrBindKeeps == ASSUME FramesKeep, IrBind PROVE FramesKeep'
<1> DEFINE n == Len(frames)
<1>1. PICK v \in Lets[Top.fn] :
        LET new == [x \in {v} |-> bindings + 1]
        IN  frames' = [frames EXCEPT ![Len(frames)] =
                          [fn |-> Top.fn, slots |-> Over(new, Top.slots),
                           env |-> Over(new, Top.env)]]
  BY DEF IrBind
<1> DEFINE new == [x \in {v} |-> bindings + 1]
           top == [fn |-> Top.fn, slots |-> Over(new, Top.slots), env |-> Over(new, Top.env)]
<1>2. /\ n \in DOMAIN frames /\ Top = frames[n] /\ Top \in Frame /\ FrameKeeps(Top)
      /\ Top.fn \in Fn /\ Top.slots \in Slots /\ Top.env \in Slots
  BY TopIs DEF Frame, Top
<1>3. v \in Own(Top.fn) /\ v \in Variables
  BY <1>2 DEF Own, Variables
<1>4. new \in Slots /\ DOMAIN new = {v}
  <2>1. new \in [{v} -> Nat]
    BY DEF FramesKeep
  <2> QED BY <1>3, <2>1, SlotsAre
<1>5. frames' = [frames EXCEPT ![n] = top]
  BY <1>1
<1> HIDE DEF new
<1>6. top \in Frame /\ FrameKeeps(top)
  <2>0. IsOver(top.slots, new, Top.slots) /\ IsOver(top.env, new, Top.env)
    <3>1. new \in Slots /\ Top.slots \in Slots /\ Top.env \in Slots
      BY <1>2, <1>4
    <3>2. IsOver(Over(new, Top.slots), new, Top.slots) /\ IsOver(Over(new, Top.env), new, Top.env)
      BY <3>1, OverIs
    <3> QED BY <3>2
  <2>1. top = [fn |-> Top.fn, slots |-> top.slots, env |-> top.env] /\ top.fn = Top.fn
    OBVIOUS
  <2> HIDE DEF top
  <2>3. top.fn = Top.fn /\ top \in Frame
    BY <1>2, <2>0, <2>1 DEF Frame, IsOver
  <2>4. Around(top.fn, top.env)
    BY <1>2, <1>3, <1>4, <2>0, <2>3, InsideCloses DEF FrameKeeps, Around, IsOver
  <2> QED BY <1>2, <1>3, <1>4, <2>0, <2>3, <2>4 DEF FrameKeeps, IsOver
<1>7. top.fn = Top.fn
  OBVIOUS
<1> HIDE DEF top
<1>8. frames' \in Seq(Frame) /\ frames' # <<>> /\ DOMAIN frames' = DOMAIN frames
  BY <1>2, <1>5, <1>6 DEF FramesKeep
<1>9. \A i \in DOMAIN frames' : FrameKeeps(frames'[i]) /\ (frames'[i].fn = Main <=> i = 1)
  BY <1>2, <1>5, <1>6, <1>7, <1>8 DEF FramesKeep
<1>10. closures' = closures /\ bindings' \in Nat
  BY DEF IrBind, FramesKeep
<1> QED BY <1>8, <1>9, <1>10 DEF FramesKeep

LEMMA IrMakeClosureKeeps == ASSUME FramesKeep, IrMakeClosure PROVE FramesKeep'
<1>1. PICK f \in Lambdas :
        /\ Makes(f) /\ Captures(f) \subseteq DOMAIN Top.slots
        /\ closures' = closures \union {[fn |-> f, env |-> Top.env,
                                         slots |-> [v \in Captures(f) |-> Taken(v)]]}
  BY DEF IrMakeClosure
<1> DEFINE c == [fn |-> f, env |-> Top.env, slots |-> [v \in Captures(f) |-> Taken(v)]]
<1>2. /\ Top \in Frame /\ FrameKeeps(Top) /\ Top.slots \in Slots /\ Top.env \in Slots
  BY TopIs DEF Frame
<1>3. f \in Fn /\ f # Main /\ Outer[f] = Top.fn
  BY <1>1 DEF Lambdas, Makes
<1>4. \A v \in Captures(f) : Taken(v) = Top.slots[v]
  BY DEF Taken, ByCell
<1>5. c.slots \in Slots
  <2>1. PICK D \in SUBSET Variables : Top.slots \in [D -> Nat]
    BY <1>2, SlotsAre
  <2>2. Captures(f) \in SUBSET Variables /\ c.slots \in [Captures(f) -> Nat]
    BY <1>1, <1>4, <2>1
  <2> QED BY <2>2, SlotsAre
<1>6. c \in Frame
  BY <1>2, <1>3, <1>5 DEF Frame
<1>7. Around(f, Top.env)
  <2>1. \A g \in Fn : Top.fn \in Inside(g) => f \in Inside(g)
    BY <1>3, InsideCloses DEF Written
  <2> QED BY <1>2, <2>1 DEF FrameKeeps, Around
<1>8. \A v \in DOMAIN Top.env : v \notin Own(f)
  <2> SUFFICES ASSUME NEW v \in DOMAIN Top.env, v \in Own(f) PROVE FALSE
    OBVIOUS
  <2>1. PICK g \in Fn : Top.fn \in Inside(g) /\ v \in Own(g)
    BY <1>2 DEF FrameKeeps, Around
  <2>2. g = f
    BY <1>3, <2>1, OneOwner
  <2> QED BY <1>3, <2>1, <2>2, FnAssumption
<1>9. ClosureKeeps(c)
  <2>1. \A v \in Captures(f) : v \in DOMAIN Top.env /\ Top.slots[v] = Top.env[v]
    BY <1>1, <1>2 DEF FrameKeeps
  <2> QED BY <1>3, <1>4, <1>7, <1>8, <2>1 DEF ClosureKeeps
<1>10. closures' = closures \union {c} /\ frames' = frames /\ bindings' = bindings
  BY <1>1 DEF IrMakeClosure
<1> HIDE DEF c
<1> QED BY <1>6, <1>9, <1>10 DEF FramesKeep

LEMMA CallKeeps == ASSUME FramesKeep, Call PROVE FramesKeep'
<1>1. PICK c \in closures :
        LET n == Cardinality(Params[c.fn])
        IN  /\ bindings + n <= MaxBindings
            /\ \E args \in Bijection(Params[c.fn], (bindings + 1)..(bindings + n)) :
                  frames' = Append(frames, [fn |-> c.fn, slots |-> Over(args, c.slots),
                                            env |-> Over(args, c.env)])
            /\ bindings' = bindings + n
  BY DEF Call
<1> DEFINE n == Cardinality(Params[c.fn])
<1>2. PICK args \in Bijection(Params[c.fn], (bindings + 1)..(bindings + n)) :
        frames' = Append(frames, [fn |-> c.fn, slots |-> Over(args, c.slots),
                                  env |-> Over(args, c.env)])
  BY <1>1
<1> DEFINE top == [fn |-> c.fn, slots |-> Over(args, c.slots), env |-> Over(args, c.env)]
<1>3. /\ c \in Frame /\ ClosureKeeps(c) /\ c.fn \in Fn /\ c.slots \in Slots /\ c.env \in Slots
  BY DEF FramesKeep, Frame
<1>4. n \in Nat /\ bindings \in Nat
  BY <1>3, FnAssumption, FS_CardinalityType DEF FramesKeep
<1>5. args \in [Params[c.fn] -> Nat]
  <2>1. args \in [Params[c.fn] -> (bindings + 1)..(bindings + n)]
    BY <1>2 DEF Bijection, Injection, Surjection
  <2> QED BY <1>4, <2>1
<1>6. Params[c.fn] \in SUBSET Variables /\ Params[c.fn] \subseteq Own(c.fn)
  BY <1>3 DEF Variables, Own
<1>7. args \in Slots /\ DOMAIN args = Params[c.fn]
  BY <1>5, <1>6, SlotsAre
<1>8. top \in Frame /\ FrameKeeps(top) /\ top.fn # Main
  <2>0. IsOver(top.slots, args, c.slots) /\ IsOver(top.env, args, c.env)
    <3>1. args \in Slots /\ c.slots \in Slots /\ c.env \in Slots
      BY <1>3, <1>7
    <3>2. IsOver(Over(args, c.slots), args, c.slots) /\ IsOver(Over(args, c.env), args, c.env)
      BY <3>1, OverIs
    <3> QED BY <3>2
  <2>1. top = [fn |-> c.fn, slots |-> top.slots, env |-> top.env] /\ top.fn = c.fn
    OBVIOUS
  <2> HIDE DEF top
  <2>3. top.fn = c.fn /\ top \in Frame
    BY <1>3, <2>0, <2>1 DEF Frame, IsOver
  <2>4. Around(top.fn, top.env)
    BY <1>3, <1>6, <1>7, <2>0, <2>3, InsideCloses DEF ClosureKeeps, Around, IsOver
  <2> QED BY <1>3, <1>6, <1>7, <2>0, <2>3, <2>4 DEF FrameKeeps, ClosureKeeps, IsOver
<1>9. frames' = Append(frames, top) /\ bindings' = bindings + n
  BY <1>1, <1>2
<1> HIDE DEF top, n
<1>10. /\ frames' \in Seq(Frame) /\ frames' # <<>> /\ DOMAIN frames' = 1..(Len(frames) + 1)
       /\ \A i \in DOMAIN frames : frames'[i] = frames[i]
       /\ frames'[Len(frames) + 1] = top
  BY <1>8, <1>9 DEF FramesKeep
<1>11. \A i \in DOMAIN frames' : FrameKeeps(frames'[i]) /\ (frames'[i].fn = Main <=> i = 1)
  <2> SUFFICES ASSUME NEW i \in DOMAIN frames'
               PROVE  FrameKeeps(frames'[i]) /\ (frames'[i].fn = Main <=> i = 1)
    OBVIOUS
  <2>1. CASE i \in DOMAIN frames
    BY <1>10, <2>1 DEF FramesKeep
  <2>2. CASE i = Len(frames) + 1
    BY <1>8, <1>10, <2>2, TopIs
  <2> QED BY <1>10, <2>1, <2>2, TopIs
<1>12. closures' = closures /\ bindings' \in Nat
  BY <1>4, <1>9 DEF Call
<1> QED BY <1>10, <1>11, <1>12 DEF FramesKeep

LEMMA LeaveKeeps == ASSUME FramesKeep, Leave PROVE FramesKeep'
<1>1. /\ frames' \in Seq(Frame) /\ DOMAIN frames' = 1..(Len(frames) - 1) /\ Len(frames) > 1
      /\ \A i \in DOMAIN frames' : i \in DOMAIN frames /\ frames'[i] = frames[i]
  BY DEF Leave, FramesKeep
<1>2. frames' # <<>>
  BY <1>1, TopIs
<1> QED BY <1>1, <1>2 DEF Leave, FramesKeep

LEMMA FramesInductive == FramesKeep /\ [ClosuresNext]_closureVars => FramesKeep'
<1> SUFFICES ASSUME FramesKeep, [ClosuresNext]_closureVars PROVE FramesKeep'
  OBVIOUS
<1>1. CASE UNCHANGED closureVars
  BY <1>1 DEF FramesKeep, closureVars
<1> QED BY <1>1, IrBindKeeps, IrMakeClosureKeeps, CallKeeps, LeaveKeeps DEF ClosuresNext

-----------------------------------------------------------------------------
(* What a frame that keeps to this means. *)

\* Only the module's frame has the static variables, and only itself as its scope.
LEMMA StaticIsFirst ==
  ASSUME FramesKeep, NEW v \in Static, NEW i \in DOMAIN frames, v \in DOMAIN frames[i].slots
  PROVE  i = 1
<1>1. frames[i] \in Frame /\ FrameKeeps(frames[i]) /\ (frames[i].fn = Main <=> i = 1)
  BY DEF FramesKeep
<1>2. v \in Own(Main) /\ Main \in Fn
  BY FnAssumption DEF Own
<1>3. v \in Own(frames[i].fn)
  BY <1>1 DEF FrameKeeps, Captures
<1>4. frames[i].fn = Main
  BY <1>1, <1>2, <1>3, OneOwner DEF Frame
<1> QED BY <1>1, <1>4

\* A lookup that finds the variable in one frame and in none above it.
LEMMA LoadsFrom ==
  ASSUME NEW v, NEW i \in DOMAIN frames, DOMAIN frames \subseteq Nat, v \in DOMAIN frames[i].slots,
         \A j \in DOMAIN frames : v \in DOMAIN frames[j].slots => j <= i
  PROVE  IrLoad(v) = frames[i].slots[v]
<1>1. i \in HasIt(v) /\ \A j \in HasIt(v) : j <= i
  BY DEF HasIt
<1>2. (CHOOSE k \in HasIt(v) : \A j \in HasIt(v) : j <= k) = i
  <2>1. \A k \in HasIt(v) : (\A j \in HasIt(v) : j <= k) => k = i
    BY <1>1 DEF HasIt
  <2> QED BY <1>1, <2>1
<1> QED BY <1>1, <1>2 DEF IrLoad

LEMMA StaticLoads ==
  ASSUME FramesKeep, NEW v \in Static, v \in DOMAIN frames[1].slots
  PROVE  IrLoad(v) = frames[1].slots[v] /\ IrAssign(v) = frames[1].slots[v]
<1>1. 1 \in DOMAIN frames /\ DOMAIN frames \subseteq Nat /\ Len(frames) \in DOMAIN frames
  BY TopIs
<1>2. \A j \in DOMAIN frames : v \in DOMAIN frames[j].slots => j <= 1
  BY StaticIsFirst
<1>3. v \in DOMAIN Top.slots => Top = frames[1]
  BY <1>1, StaticIsFirst DEF Top
<1> QED BY <1>1, <1>2, <1>3, LoadsFrom DEF IrAssign

LEMMA OwnLoads ==
  ASSUME FramesKeep, NEW v \in DOMAIN Top.env, v \in Own(Top.fn) \union Captures(Top.fn)
  PROVE  IrLoad(v) = Top.env[v] /\ IrAssign(v) = Top.env[v]
<1>1. v \in DOMAIN Top.slots /\ Top.slots[v] = Top.env[v]
  BY TopIs DEF FrameKeeps
<1>2. /\ Len(frames) \in DOMAIN frames /\ DOMAIN frames \subseteq Nat
      /\ \A j \in DOMAIN frames : j <= Len(frames)
  BY TopIs
<1>3. IrLoad(v) = Top.slots[v]
  BY <1>1, <1>2, LoadsFrom DEF Top
<1> QED BY <1>1, <1>3 DEF IrAssign

LEMMA NeededIs ==
  ASSUME NEW f, NEW g \in Inside(f), NEW v \in Captures(g), \A k \in Inside(f) : v \notin Own(k)
  PROVE  v \in Needed(f)
<1> DEFINE around == UNION {Captures(k) : k \in Inside(f)}
           own    == UNION {Own(k) : k \in Inside(f)}
<1>1. v \in around
  OBVIOUS
<1>2. v \notin own
  OBVIOUS
<1>3. Needed(f) = around \ own
  BY DEF Needed
<1> HIDE DEF around, own
<1> QED BY <1>1, <1>2, <1>3

\* What a lambda captures is in the frame of the code that makes it.
LEMMA CapturesAreThere ==
  ASSUME CapturesThrough, FramesKeep, NEW f \in Lambdas, Makes(f), NEW v \in Captures(f)
  PROVE  v \in DOMAIN Top.slots
<1> DEFINE h == Top.fn
<1>1. f \in Fn /\ f # Main /\ Outer[f] = h /\ Needed(f) \subseteq DOMAIN Top.env
  BY DEF Lambdas, Makes
<1>2. h \in Fn /\ FrameKeeps(Top) /\ f \in Inside(h)
  BY <1>1, TopIs, OuterContains DEF Frame
<1>3. v \in Refers[f] /\ v \notin Own(f)
  BY DEF Captures
<1>4. PICK o \in Fn : f \in Inside(o) /\ v \in Own(o)
  BY <1>1, <1>3, FnAssumption
<1>5. v \in DOMAIN Top.env
  <2>1. f \in Inside(f)
    BY <1>1, InsideCloses
  <2>2. ASSUME NEW g \in Inside(f) PROVE v \notin Own(g)
    <3> SUFFICES ASSUME v \in Own(g) PROVE FALSE
      OBVIOUS
    <3>1. g \in Fn
      BY <1>1, InsideCloses
    <3>2. g = o
      BY <1>4, <3>1, OneOwner
    <3>3. g = f
      BY <1>1, <1>4, <2>2, <3>1, <3>2, InsideIsAntisymmetric
    <3> QED BY <1>3, <3>3
  <2>3. v \in Needed(f)
    BY <2>1, <2>2, NeededIs
  <2> QED BY <1>1, <2>3
<1>6. PICK g \in Fn : h \in Inside(g) /\ v \in Own(g)
  BY <1>2, <1>5 DEF FrameKeeps, Around
<1>7. CASE g = h
  BY <1>2, <1>5, <1>6, <1>7 DEF FrameKeeps
<1>8. CASE g # h
  <2>1. h # Main
    BY <1>6, <1>8, MainIsOutside
  <2>2. ASSUME NEW k \in Inside(h) PROVE v \notin Own(k)
    <3> SUFFICES ASSUME v \in Own(k) PROVE FALSE
      OBVIOUS
    <3>1. k \in Fn
      BY <1>2, InsideCloses
    <3>2. k = g
      BY <1>6, <3>1, OneOwner
    <3> QED BY <1>2, <1>6, <1>8, <2>2, <3>2, InsideIsAntisymmetric
  <2>3. v \in Needed(h)
    BY <1>2, <2>2, NeededIs
  <2>4. v \in Captures(h)
    BY <1>2, <2>1, <2>3 DEF CapturesThrough
  <2> QED BY <1>2, <1>5, <2>4 DEF FrameKeeps
<1> QED BY <1>7, <1>8

LEMMA FramesAreLexical ==
  ASSUME CapturesThrough, FramesKeep
  PROVE  ClosesOverDefinition
<1>1. ASSUME NEW v \in InScope
      PROVE  IrLoad(v) = Meant(v) /\ (v \in Mutable => IrAssign(v) = Meant(v))
  <2>1. CASE v \in Static
    BY <2>1, StaticLoads DEF InScope, Meant
  <2>2. CASE v \notin Static
    <3>1. v \in Refers[Top.fn] /\ v \in DOMAIN Top.env
      BY <2>2 DEF InScope
    <3>2. v \in Own(Top.fn) \union Captures(Top.fn)
      BY <2>2, <3>1 DEF Captures
    <3> QED BY <2>2, <3>1, <3>2, OwnLoads DEF Meant
  <2> QED BY <2>1, <2>2
<1> QED BY <1>1, CapturesAreThere DEF ClosesOverDefinition, CaptureThrough

-----------------------------------------------------------------------------
\* "Lambda bodies close over their definition environment"
\* (docs/agl/reference/bindings-and-scope.md), for any nesting in which each function
\* refers itself to what the lambdas written in it need.  Where one does not,
\* _scan_captures leaves out what only the inner lambda uses.
THEOREM LexicalVariables ==
  ASSUME CapturesThrough
  PROVE  ClosuresSpec => []ClosesOverDefinition
<1>1. FramesKeep => ClosesOverDefinition
  BY FramesAreLexical
<1> QED BY <1>1, InitKeeps, FramesInductive, PTL DEF ClosuresSpec

\* Frames and closures stay within the bounds, and no closure is of the module's body.
THEOREM ClosuresTyped == ClosuresSpec => []ClosuresTypeOK
<1> DEFINE Bounded == ClosuresTypeOK /\ FramesKeep
<1>0. FramesKeep => \A c \in closures : c.fn \in Fn \ {Main}
  BY DEF FramesKeep, ClosureKeeps, Frame
<1>1. ClosuresInit => Bounded
  <2> SUFFICES ASSUME ClosuresInit PROVE Bounded
    OBVIOUS
  <2>1. Len(frames) = 1 /\ bindings = 0 /\ FramesKeep
    BY InitKeeps DEF ClosuresInit
  <2> QED BY <1>0, <2>1, BoundAssumption DEF ClosuresTypeOK
<1>2. Bounded /\ [ClosuresNext]_closureVars => Bounded'
  <2> SUFFICES ASSUME Bounded, [ClosuresNext]_closureVars PROVE Bounded'
    OBVIOUS
  <2>1. FramesKeep'
    BY FramesInductive
  <2>2. frames \in Seq(Frame) /\ frames # <<>> /\ bindings \in Nat
    BY DEF FramesKeep
  <2>3. Len(frames') \in 1..(MaxCalls + 1) /\ bindings' \in 0..MaxBindings
    <3>1. CASE IrBind
      BY <2>1, <2>2, <3>1, BoundAssumption DEF IrBind, ClosuresTypeOK, FramesKeep
    <3>2. CASE IrMakeClosure
      BY <3>2 DEF IrMakeClosure, ClosuresTypeOK
    <3>3. CASE Call
      <4>1. PICK c \in closures : \E args \in Bijection(Params[c.fn], (bindings + 1)..(bindings + Cardinality(Params[c.fn]))) :
              /\ bindings + Cardinality(Params[c.fn]) <= MaxBindings
              /\ bindings' = bindings + Cardinality(Params[c.fn])
              /\ frames' = Append(frames, [fn |-> c.fn, slots |-> Over(args, c.slots), env |-> Over(args, c.env)])
        BY <3>3 DEF Call
      <4>2. Cardinality(Params[c.fn]) \in Nat
        BY FS_CardinalityType, FnAssumption DEF ClosuresTypeOK
      <4>3. Len(frames) <= MaxCalls /\ Len(frames') = Len(frames) + 1
        BY <2>2, <3>3, <4>1 DEF Call
      <4> QED BY <2>2, <4>1, <4>2, <4>3, BoundAssumption
    <3>4. CASE Leave
      BY <2>2, <3>4, BoundAssumption DEF Leave, ClosuresTypeOK
    <3>5. CASE UNCHANGED closureVars
      BY <3>5 DEF closureVars, ClosuresTypeOK
    <3> QED BY <3>1, <3>2, <3>3, <3>4, <3>5 DEF ClosuresNext
  <2>4. \A c \in closures' : c.fn \in Fn \ {Main}
    BY <2>1 DEF FramesKeep, ClosureKeeps, Frame
  <2> QED BY <2>1, <2>3, <2>4 DEF ClosuresTypeOK
<1>3. ClosuresSpec => []ClosuresTypeOK
  <2> HIDE DEF Bounded
  <2>1. Bounded => ClosuresTypeOK
    BY DEF Bounded
  <2> QED BY <1>1, <1>2, <2>1, PTL DEF ClosuresSpec
<1> QED BY <1>3

-----------------------------------------------------------------------------
\* A set of numbers has an order.
LEMMA InOrderExists ==
  ASSUME NEW S \in SUBSET Nat, IsFiniteSet(S)
  PROVE  \E s \in [1..Cardinality(S) -> S] : Range(s) = S /\ \A i, j \in DOMAIN s : i < j => s[i] < s[j]
<1> DEFINE Ordered(s, T) == /\ s \in [1..Cardinality(T) -> T] /\ Range(s) = T
                            /\ \A i, j \in DOMAIN s : i < j => s[i] < s[j]
           N == {n \in Nat : \A T \in SUBSET Nat : IsFiniteSet(T) /\ Cardinality(T) = n => \E s : Ordered(s, T)}
<1>1. 0 \in N
  <2> SUFFICES ASSUME NEW T \in SUBSET Nat, IsFiniteSet(T), Cardinality(T) = 0 PROVE \E s : Ordered(s, T)
    OBVIOUS
  <2>1. T = {}
    BY FS_EmptySet
  <2>2. Cardinality(T) = 0 /\ <<>> \in [1..0 -> T] /\ DOMAIN <<>> = {} /\ 1..0 = {}
    OBVIOUS
  <2>3. Range(<<>>) = T
    BY <2>1, <2>2 DEF Range
  <2>4. Ordered(<<>>, T)
    BY <2>2, <2>3
  <2> QED BY <2>4
<1>2. ASSUME NEW n \in Nat, n \in N PROVE n + 1 \in N
  <2> SUFFICES ASSUME NEW T \in SUBSET Nat, IsFiniteSet(T), Cardinality(T) = n + 1 PROVE \E s : Ordered(s, T)
    OBVIOUS
  <2>1. T # {}
    BY FS_EmptySet
  <2>2. PICK x \in T : \A y \in T : x <= y
    BY <2>1, LeastNat
  <2>3. IsFiniteSet(T \ {x}) /\ Cardinality(T \ {x}) = n
    <3>1. IsFiniteSet(T \ {x}) /\ Cardinality(T \ {x}) = Cardinality(T) - 1
      BY <2>2, FS_RemoveElement
    <3> QED BY <3>1
  <2>4. PICK s : Ordered(s, T \ {x})
    BY <1>2, <2>3
  <2> DEFINE t == [i \in 1..(n + 1) |-> IF i = 1 THEN x ELSE s[i - 1]]
  <2>5. s \in [1..n -> T \ {x}] /\ Range(s) = T \ {x} /\ \A i, j \in 1..n : i < j => s[i] < s[j]
    BY <2>3, <2>4
  <2>6. t \in [1..(n + 1) -> T]
    <3> SUFFICES ASSUME NEW i \in 1..(n + 1) PROVE t[i] \in T
      OBVIOUS
    <3>1. i # 1 => i - 1 \in 1..n
      OBVIOUS
    <3> QED BY <2>5, <3>1
  <2>7. ASSUME NEW y \in T PROVE \E i \in 1..(n + 1) : t[i] = y
    <3>1. CASE y = x
      <4>1. 1 \in 1..(n + 1) /\ t[1] = x
        OBVIOUS
      <4> QED BY <3>1, <4>1
    <3>2. CASE y # x
      <4>1. PICK i \in 1..n : s[i] = y
        BY <3>2, <2>5 DEF Range
      <4>2. i + 1 \in 1..(n + 1) /\ t[i + 1] = y
        BY <4>1
      <4> QED BY <4>2
    <3> QED BY <3>1, <3>2
  <2>8. Range(t) = T
    <3>1. DOMAIN t = 1..(n + 1)
      OBVIOUS
    <3> HIDE DEF t
    <3> QED BY <2>6, <2>7, <3>1 DEF Range
  <2>9. ASSUME NEW i \in 1..(n + 1), NEW j \in 1..(n + 1), i < j PROVE t[i] < t[j]
    <3>1. j - 1 \in 1..n /\ t[j] = s[j - 1] /\ s[j - 1] \in T \ {x}
      BY <2>5, <2>9
    <3>2. CASE i = 1
      <4>1. t[i] = x /\ s[j - 1] \in T /\ s[j - 1] # x
        BY <3>1, <3>2
      <4>2. x <= s[j - 1] /\ x \in Nat /\ s[j - 1] \in Nat
        BY <4>1, <2>2
      <4> QED BY <3>1, <4>1, <4>2
    <3>3. CASE i # 1
      <4>1. i - 1 \in 1..n /\ t[i] = s[i - 1] /\ i - 1 < j - 1
        BY <3>3, <2>9
      <4> QED BY <4>1, <3>1, <2>5
    <3> QED BY <3>2, <3>3
  <2>10. DOMAIN t = 1..(n + 1)
    OBVIOUS
  <2> HIDE DEF t
  <2>11. Ordered(t, T)
    BY <2>6, <2>8, <2>9, <2>10
  <2> QED BY <2>11
<1> HIDE DEF N
<1>3. Nat \subseteq N
  BY <1>1, <1>2, AllNumbers
<1>4. Cardinality(S) \in N
  BY <1>3, FS_CardinalityType
<1> QED BY <1>4 DEF N

\* What Picked picks.
LEMMA InOrderIs ==
  ASSUME NEW n \in Nat, NEW S \in SUBSET (1..n)
  PROVE  /\ Cardinality(S) \in Nat /\ InOrder(S) \in [1..Cardinality(S) -> S]
         /\ \A i \in S : \E k \in 1..Cardinality(S) : InOrder(S)[k] = i
         /\ \A j, k \in 1..Cardinality(S) : j < k => InOrder(S)[j] < InOrder(S)[k]
<1>1. IsFiniteSet(S) /\ S \in SUBSET Nat
  <2>1. IsFiniteSet(1..n)
    BY FS_Interval
  <2>2. IsFiniteSet(S)
    BY <2>1, FS_Subset
  <2> QED BY <2>2
<1>2. /\ InOrder(S) \in [1..Cardinality(S) -> S] /\ Range(InOrder(S)) = S
      /\ \A i, j \in DOMAIN InOrder(S) : i < j => InOrder(S)[i] < InOrder(S)[j]
  BY <1>1, InOrderExists DEF InOrder
<1> QED BY <1>1, <1>2, FS_CardinalityType DEF Range

IsSeq(s) == Len(s) \in Nat /\ s = [i \in 1..Len(s) |-> s[i]]

LEMMA SeqIs ==
  ASSUME NEW n \in Nat, NEW s, DOMAIN s = 1..n, s = [i \in DOMAIN s |-> s[i]]
  PROVE  IsSeq(s) /\ Len(s) = n
<1>1. s \in Seq({s[i] : i \in 1..n})
  OBVIOUS
<1>2. Len(s) = n
  BY <1>1
<1> QED BY <1>2 DEF IsSeq

IsPicked(s, S, t) ==
    /\ IsSeq(t) /\ DOMAIN t = 1..Len(t)
    /\ \A k \in DOMAIN t : InOrder(S)[k] \in S /\ t[k] = s[InOrder(S)[k]]
    /\ \A i \in S : \E k \in DOMAIN t : InOrder(S)[k] = i
    /\ \A j, k \in DOMAIN t : j < k => InOrder(S)[j] < InOrder(S)[k]

LEMMA PickedIs ==
  ASSUME NEW n \in Nat, NEW s, NEW S, S \in SUBSET (1..n)
  PROVE  IsPicked(s, S, Picked(s, S))
<1>1. Picked(s, S) = [k \in 1..Cardinality(S) |-> s[InOrder(S)[k]]]
  BY InOrderIs DEF Picked
<1>2. IsSeq(Picked(s, S)) /\ Len(Picked(s, S)) = Cardinality(S)
  BY <1>1, InOrderIs, SeqIs
<1> QED BY <1>1, <1>2, InOrderIs DEF IsPicked

-----------------------------------------------------------------------------
\* Trees: what is under a position.
LEMMA PrefixOf ==
  ASSUME NEW q \in Seq(Nat), NEW s \in Seq(Nat), IsPrefix(q, s)
  PROVE  SubSeq(s, Len(q) + 1, Len(s)) \in Seq(Nat) /\ q \o SubSeq(s, Len(q) + 1, Len(s)) = s
<1>1. Len(q) <= Len(s) /\ SubSeq(q, 1, Len(q)) = SubSeq(s, 1, Len(q))
  BY DEF IsPrefix
<1> DEFINE r == SubSeq(s, Len(q) + 1, Len(s))
<1>2. r \in Seq(Nat) /\ Len(r) = Len(s) - Len(q) /\ \A i \in 1..Len(r) : r[i] = s[Len(q) + i]
  BY <1>1
<1>3. ASSUME NEW i \in 1..Len(q) PROVE q[i] = s[i]
  <2>1. SubSeq(q, 1, Len(q))[i] = q[i] /\ SubSeq(s, 1, Len(q))[i] = s[i]
    BY <1>1
  <2> QED BY <2>1, <1>1
<1> HIDE DEF r
<1>4. q \o r \in Seq(Nat) /\ Len(q \o r) = Len(s)
  BY <1>1, <1>2
<1>5. ASSUME NEW i \in 1..Len(s) PROVE (q \o r)[i] = s[i]
  <2>1. CASE i <= Len(q)
    <3>1. (q \o r)[i] = q[i] /\ i \in 1..Len(q)
      BY <2>1, <1>2
    <3> QED BY <3>1, <1>3
  <2>2. CASE ~(i <= Len(q))
    <3>1. (q \o r)[i] = r[i - Len(q)] /\ i - Len(q) \in 1..Len(r)
      BY <2>2, <1>1, <1>2
    <3> QED BY <3>1, <1>2
  <2> QED BY <2>1, <2>2
<1>6. q \o r = s
  BY <1>4, <1>5, SeqEqual
<1> QED BY <1>2, <1>6 DEF r

LEMMA SuffixOf ==
  ASSUME NEW q \in Seq(Nat), NEW r \in Seq(Nat)
  PROVE  /\ q \o r \in Seq(Nat) /\ IsPrefix(q, q \o r)
         /\ SubSeq(q \o r, Len(q) + 1, Len(q \o r)) = r
<1>1. q \o r \in Seq(Nat) /\ Len(q \o r) = Len(q) + Len(r) /\ Len(q) \in Nat /\ Len(r) \in Nat
  OBVIOUS
<1>2. \A i \in 1..Len(q) : (q \o r)[i] = q[i]
  OBVIOUS
<1>3. \A i \in 1..Len(r) : (q \o r)[Len(q) + i] = r[i]
  OBVIOUS
<1> DEFINE s == q \o r
<1> HIDE DEF s
<1>4. s \in Seq(Nat) /\ Len(s) = Len(q) + Len(r) /\ \A i \in 1..Len(q) : s[i] = q[i]
  BY <1>1, <1>2 DEF s
<1>5. SubSeq(q, 1, Len(q)) = SubSeq(s, 1, Len(q))
  BY <1>4, <1>1
<1>6. \A i \in 1..Len(r) : s[Len(q) + i] = r[i]
  BY <1>3 DEF s
<1>7. SubSeq(s, Len(q) + 1, Len(s)) = r
  <2> DEFINE u == SubSeq(s, Len(q) + 1, Len(s))
  <2>1. u \in Seq(Nat) /\ Len(u) = Len(r) /\ \A i \in 1..Len(r) : u[i] = s[Len(q) + i]
    <3>1. \A i \in (Len(q) + 1)..Len(s) : s[i] \in Nat
      BY <1>4, <1>1
    <3>2. Len(q) + 1 \in Int /\ Len(s) \in Int
      BY <1>4, <1>1
    <3>3. /\ u \in Seq(Nat)
          /\ Len(u) = IF Len(q) + 1 <= Len(s) THEN Len(s) - (Len(q) + 1) + 1 ELSE 0
          /\ \A i \in 1..(Len(s) - (Len(q) + 1) + 1) : u[i] = s[Len(q) + 1 + i - 1]
      BY <3>1, <3>2, SubSeqProperties
    <3> HIDE DEF u
    <3>4. Len(u) = Len(r)
      BY <3>3, <1>4, <1>1
    <3>5. ASSUME NEW i \in 1..Len(r) PROVE u[i] = s[Len(q) + i]
      <4>1. i \in 1..(Len(s) - (Len(q) + 1) + 1) /\ Len(q) + 1 + i - 1 = Len(q) + i
        BY <1>4, <1>1
      <4> QED BY <4>1, <3>3
    <3> QED BY <3>3, <3>4, <3>5
  <2> HIDE DEF u
  <2>2. u = r
    BY <2>1, <1>6, SeqEqual
  <2> QED BY <2>2 DEF u
<1> QED BY <1>1, <1>4, <1>5, <1>7 DEF s, IsPrefix

LEMMA UnderIs ==
  ASSUME NEW t, DOMAIN t \subseteq Seq(Nat), NEW q \in Seq(Nat)
  PROVE  /\ Under(t, q) = [r \in DOMAIN Under(t, q) |-> Under(t, q)[r]]
         /\ DOMAIN Under(t, q) \subseteq Seq(Nat)
         /\ \A r \in Seq(Nat) : r \in DOMAIN Under(t, q) <=> q \o r \in DOMAIN t
         /\ \A r \in DOMAIN Under(t, q) : Under(t, q)[r] = t[q \o r]
<1> DEFINE D == {SubSeq(s, Len(q) + 1, Len(s)) : s \in {s \in DOMAIN t : IsPrefix(q, s)}}
<1>1. Under(t, q) = [r \in D |-> t[q \o r]]
  BY DEF Under
<1>2. ASSUME NEW r \in D PROVE r \in Seq(Nat) /\ q \o r \in DOMAIN t
  <2>1. PICK s \in DOMAIN t : IsPrefix(q, s) /\ r = SubSeq(s, Len(q) + 1, Len(s))
    OBVIOUS
  <2> QED BY <2>1, PrefixOf
<1>3. ASSUME NEW r \in Seq(Nat), q \o r \in DOMAIN t PROVE r \in D
  BY <1>3, SuffixOf
<1> HIDE DEF D
<1> QED BY <1>1, <1>2, <1>3

LEMMA SamePositions ==
  ASSUME NEW s, NEW t, s = [q \in DOMAIN s |-> s[q]], t = [q \in DOMAIN t |-> t[q]],
         DOMAIN s \subseteq Seq(Nat), DOMAIN t \subseteq Seq(Nat),
         \A q \in Seq(Nat) : q \in DOMAIN s <=> q \in DOMAIN t,
         \A q \in DOMAIN s : s[q] = t[q]
  PROVE  s = t
<1>1. DOMAIN s = DOMAIN t
  OBVIOUS
<1> QED BY <1>1, Zenon

LEMMA UnderRoot ==
  ASSUME NEW t, t = [q \in DOMAIN t |-> t[q]], DOMAIN t \subseteq Seq(Nat)
  PROVE  Under(t, <<>>) = t
<1>1. <<>> \in Seq(Nat) /\ \A q \in Seq(Nat) : <<>> \o q = q
  OBVIOUS
<1>2. /\ Under(t, <<>>) = [r \in DOMAIN Under(t, <<>>) |-> Under(t, <<>>)[r]]
      /\ DOMAIN Under(t, <<>>) \subseteq Seq(Nat)
      /\ \A r \in Seq(Nat) : r \in DOMAIN Under(t, <<>>) <=> <<>> \o r \in DOMAIN t
      /\ \A r \in DOMAIN Under(t, <<>>) : Under(t, <<>>)[r] = t[<<>> \o r]
  BY <1>1, UnderIs
<1>3. \A q \in Seq(Nat) : q \in DOMAIN Under(t, <<>>) <=> q \in DOMAIN t
  BY <1>1, <1>2
<1>4. \A q \in DOMAIN Under(t, <<>>) : Under(t, <<>>)[q] = t[q]
  BY <1>1, <1>2
<1> QED BY <1>2, <1>3, <1>4, SamePositions

LEMMA JoinsAgree ==
  ASSUME NEW p \in Seq(Nat), NEW q \in Seq(Nat), NEW r \in Seq(Nat)
  PROVE  (p \o q) \o r = p \o (q \o r)
BY ConcatAssociative, SMTT(20)

LEMMA UnderUnder ==
  ASSUME NEW t, DOMAIN t \subseteq Seq(Nat), NEW p \in Seq(Nat), NEW q \in Seq(Nat)
  PROVE  Under(Under(t, p), q) = Under(t, p \o q)
<1> DEFINE u == Under(t, p)
<1>0. p \o q \in Seq(Nat)
  OBVIOUS
<1>1. ASSUME NEW r \in Seq(Nat) PROVE q \o r \in Seq(Nat) /\ p \o (q \o r) = (p \o q) \o r
  <2>1. q \o r \in Seq(Nat)
    OBVIOUS
  <2>2. (p \o q) \o r = p \o (q \o r)
    BY JoinsAgree
  <2> QED BY <2>1, <2>2
<1>2. DOMAIN u \subseteq Seq(Nat)
      /\ (\A r \in Seq(Nat) : r \in DOMAIN u <=> p \o r \in DOMAIN t)
      /\ \A r \in DOMAIN u : u[r] = t[p \o r]
  BY UnderIs
<1> HIDE DEF u
<1>3. /\ Under(u, q) = [r \in DOMAIN Under(u, q) |-> Under(u, q)[r]]
      /\ DOMAIN Under(u, q) \subseteq Seq(Nat)
      /\ \A r \in Seq(Nat) : r \in DOMAIN Under(u, q) <=> q \o r \in DOMAIN u
      /\ \A r \in DOMAIN Under(u, q) : Under(u, q)[r] = u[q \o r]
  BY <1>2, UnderIs
<1>4. /\ Under(t, p \o q) = [r \in DOMAIN Under(t, p \o q) |-> Under(t, p \o q)[r]]
      /\ DOMAIN Under(t, p \o q) \subseteq Seq(Nat)
      /\ \A r \in Seq(Nat) : r \in DOMAIN Under(t, p \o q) <=> (p \o q) \o r \in DOMAIN t
      /\ \A r \in DOMAIN Under(t, p \o q) : Under(t, p \o q)[r] = t[(p \o q) \o r]
  BY <1>0, UnderIs
<1>5. ASSUME NEW r \in Seq(Nat) PROVE r \in DOMAIN Under(u, q) <=> r \in DOMAIN Under(t, p \o q)
  BY <1>1, <1>2, <1>3, <1>4
<1>6. ASSUME NEW r \in DOMAIN Under(u, q) PROVE Under(u, q)[r] = Under(t, p \o q)[r]
  <2>1. r \in Seq(Nat) /\ r \in DOMAIN Under(t, p \o q) /\ q \o r \in DOMAIN u
    BY <1>3, <1>5
  <2> QED BY <2>1, <1>1, <1>2, <1>3, <1>4
<1>7. Under(u, q) = Under(t, p \o q)
  BY <1>3, <1>4, <1>5, <1>6, SamePositions
<1> QED BY <1>7 DEF u

\* A position is the field of the root it goes through, and a position under it.
LEMMA Descends ==
  ASSUME NEW t, IsTree(t), NEW q \in DOMAIN t, q # <<>>
  PROVE  /\ q[1] \in Arity(t[<<>>].head) /\ q[1] \in Nat /\ Tail(q) \in Seq(Nat)
         /\ q = <<q[1]>> \o Tail(q) /\ Tail(q) \in DOMAIN Under(t, <<q[1]>>)
<1>1. DOMAIN t \subseteq Seq(Nat)
      /\ \A s \in DOMAIN t \ {<<>>} : Front(s) \in DOMAIN t /\ Last(s) \in Arity(t[Front(s)].head)
  BY DEF IsTree
<1> DEFINE N == {n \in Nat : \A s \in DOMAIN t : Len(s) = n + 1 => s[1] \in Arity(t[<<>>].head)}
<1>2. 0 \in N
  <2> SUFFICES ASSUME NEW s \in DOMAIN t, Len(s) = 1 PROVE s[1] \in Arity(t[<<>>].head)
    OBVIOUS
  <2>1. s \in Seq(Nat) /\ s # <<>>
    <3>1. Len(<<>>) = 0 /\ s \in Seq(Nat)
      BY <1>1, EmptySeq
    <3> QED BY <3>1
  <2>2. Front(s) = <<>> /\ Last(s) = s[1]
    BY <2>1, SubSeqEmpty DEF Front, Last
  <2> QED BY <2>1, <2>2, <1>1
<1>3. ASSUME NEW n \in Nat, n \in N PROVE n + 1 \in N
  <2> SUFFICES ASSUME NEW s \in DOMAIN t, Len(s) = n + 2 PROVE s[1] \in Arity(t[<<>>].head)
    OBVIOUS
  <2>1. s \in Seq(Nat) /\ s # <<>> /\ Len(Front(s)) = n + 1 /\ Front(s)[1] = s[1]
    BY <1>1 DEF Front
  <2>2. Front(s) \in DOMAIN t
    BY <2>1, <1>1
  <2> QED BY <2>1, <2>2, <1>3
<1> HIDE DEF N
<1>4. Nat \subseteq N
  BY <1>2, <1>3, AllNumbers
<1>5. q \in Seq(Nat) /\ Len(q) \in Nat /\ Len(q) # 0
  BY <1>1
<1>6. Len(q) - 1 \in N
  BY <1>4, <1>5
<1>7. q[1] \in Arity(t[<<>>].head)
  BY <1>5, <1>6 DEF N
<1>8. q[1] \in Nat /\ Tail(q) \in Seq(Nat) /\ q = <<q[1]>> \o Tail(q)
  BY <1>5
<1>9. <<q[1]>> \in Seq(Nat)
  BY <1>8
<1> QED BY <1>1, <1>7, <1>8, <1>9, UnderIs

LEMMA FrontIs ==
  ASSUME NEW z \in Seq(Nat), NEW n \in Nat, Len(z) = n + 1
  PROVE  Front(z) \in Seq(Nat) /\ Len(Front(z)) = n /\ \A k \in 1..n : Front(z)[k] = z[k]
<1>1. Front(z) = SubSeq(z, 1, n)
  BY DEF Front
<1>2. 1 \in Int /\ n \in Int /\ \A k \in 1..n : z[k] \in Nat
  OBVIOUS
<1>3. /\ SubSeq(z, 1, n) \in Seq(Nat)
      /\ Len(SubSeq(z, 1, n)) = IF 1 <= n THEN n - 1 + 1 ELSE 0
      /\ \A k \in 1..(n - 1 + 1) : SubSeq(z, 1, n)[k] = z[1 + k - 1]
  BY <1>2, SubSeqProperties
<1>4. (IF 1 <= n THEN n - 1 + 1 ELSE 0) = n
  OBVIOUS
<1>5. ASSUME NEW k \in 1..n PROVE SubSeq(z, 1, n)[k] = z[k]
  <2>1. k \in 1..(n - 1 + 1) /\ 1 + k - 1 = k
    OBVIOUS
  <2> QED BY <2>1, <1>3
<1> QED BY <1>1, <1>3, <1>4, <1>5

LEMMA FieldTree ==
  ASSUME NEW t, IsTree(t), NEW i \in Arity(t[<<>>].head)
  PROVE  /\ i \in Nat /\ <<i>> \in DOMAIN t /\ IsTree(Under(t, <<i>>))
         /\ \A r \in DOMAIN Under(t, <<i>>) : <<i>> \o r \in DOMAIN t /\ Under(t, <<i>>)[r] = t[<<i>> \o r]
         /\ \A r \in DOMAIN Under(t, <<i>>) \ {<<>>} :
               /\ Front(<<i>> \o r) = <<i>> \o Front(r) /\ Last(<<i>> \o r) = Last(r)
               /\ <<i>> \o r # <<>>
<1> DEFINE u == Under(t, <<i>>)
<1>1. /\ t = [q \in DOMAIN t |-> t[q]] /\ <<>> \in DOMAIN t /\ DOMAIN t \subseteq Seq(Nat)
      /\ \A q \in DOMAIN t : \A j \in Arity(t[q].head) : Append(q, j) \in DOMAIN t
      /\ \A q \in DOMAIN t \ {<<>>} : Front(q) \in DOMAIN t /\ Last(q) \in Arity(t[Front(q)].head)
  BY DEF IsTree
<1>2. <<i>> \in DOMAIN t
  <2>1. Append(<<>>, i) = <<i>>
    OBVIOUS
  <2> QED BY <1>1, <2>1
<1>3. i \in Nat /\ <<i>> \in Seq(Nat)
  <2>1. <<i>> \in Seq(Nat)
    BY <1>1, <1>2
  <2>2. <<i>>[1] \in Nat
    BY <2>1
  <2> QED BY <2>1, <2>2
<1>4. /\ u = [r \in DOMAIN u |-> u[r]] /\ DOMAIN u \subseteq Seq(Nat)
      /\ \A r \in Seq(Nat) : r \in DOMAIN u <=> <<i>> \o r \in DOMAIN t
      /\ \A r \in DOMAIN u : u[r] = t[<<i>> \o r]
  BY <1>1, <1>3, UnderIs
<1> HIDE DEF u
<1>5. <<>> \in DOMAIN u
  <2>1. <<i>> \o <<>> = <<i>> /\ <<>> \in Seq(Nat)
    OBVIOUS
  <2> QED BY <2>1, <1>2, <1>4
<1>6. ASSUME NEW r \in DOMAIN u, NEW j \in Arity(u[r].head) PROVE Append(r, j) \in DOMAIN u
  <2>1. r \in Seq(Nat) /\ <<i>> \o r \in DOMAIN t /\ u[r] = t[<<i>> \o r]
    BY <1>4
  <2>2. Append(<<i>> \o r, j) \in DOMAIN t
    BY <2>1, <1>1
  <2>3. Append(<<i>> \o r, j) \in Seq(Nat) /\ Len(<<i>> \o r) = Len(r) + 1
    <3>1. Append(<<i>> \o r, j) \in Seq(Nat)
      BY <2>2, <1>1
    <3>2. Len(<<i>> \o r) = Len(r) + 1
      BY <2>1, <1>3
    <3> QED BY <3>1, <3>2
  <2>4. j \in Nat
    <3>1. Append(<<i>> \o r, j)[Len(r) + 2] = j /\ Len(Append(<<i>> \o r, j)) = Len(r) + 2
      BY <2>1, <2>3, <1>3
    <3> QED BY <3>1, <2>3, <2>1
  <2>5. Append(<<i>> \o r, j) = <<i>> \o Append(r, j) /\ Append(r, j) \in Seq(Nat)
    BY <2>1, <2>4, <1>3
  <2> QED BY <2>2, <2>5, <1>4
<1>7. ASSUME NEW r \in DOMAIN u \ {<<>>}
      PROVE  /\ Front(<<i>> \o r) = <<i>> \o Front(r) /\ Last(<<i>> \o r) = Last(r)
             /\ <<i>> \o r # <<>> /\ Front(r) \in Seq(Nat)
  <2>1. r \in Seq(Nat) /\ Len(r) \in Nat /\ Len(r) # 0
    BY <1>4
  <2> DEFINE s == <<i>> \o r
  <2>2. s \in Seq(Nat) /\ Len(s) = Len(r) + 1 /\ s[1] = i /\ \A k \in 1..Len(r) : s[k + 1] = r[k]
    BY <2>1, <1>3
  <2> HIDE DEF s
  <2>3. /\ Front(r) \in Seq(Nat) /\ Len(Front(r)) = Len(r) - 1 /\ \A k \in 1..(Len(r) - 1) : Front(r)[k] = r[k]
        /\ Front(s) \in Seq(Nat) /\ Len(Front(s)) = Len(r) /\ \A k \in 1..Len(r) : Front(s)[k] = s[k]
    <3>1. Len(r) - 1 \in Nat /\ Len(r) = (Len(r) - 1) + 1
      BY <2>1
    <3>2. Len(r) \in Nat /\ Len(s) = Len(r) + 1
      BY <2>1, <2>2
    <3> QED BY <2>1, <2>2, <3>1, <3>2, FrontIs
  <2> DEFINE f == <<i>> \o Front(r)
  <2>4. f \in Seq(Nat) /\ Len(f) = Len(r) /\ f[1] = i /\ \A k \in 1..(Len(r) - 1) : f[k + 1] = r[k]
    BY <2>1, <2>3, <1>3
  <2> HIDE DEF f
  <2>5. ASSUME NEW k \in 1..Len(r) PROVE Front(s)[k] = f[k]
    <3>1. CASE k = 1
      BY <3>1, <2>1, <2>2, <2>3, <2>4
    <3>2. CASE k # 1
      <4>1. k - 1 \in 1..(Len(r) - 1) /\ k - 1 \in 1..Len(r) /\ (k - 1) + 1 = k
        BY <3>2, <2>1
      <4>2. s[k] = r[k - 1] /\ f[k] = r[k - 1]
        BY <4>1, <2>2, <2>4
      <4> QED BY <4>2, <2>3
    <3> QED BY <3>1, <3>2
  <2>6. Front(s) = f
    BY <2>3, <2>4, <2>5, SeqEqual
  <2>7. Last(s) = Last(r) /\ s # <<>>
    BY <2>1, <2>2 DEF Last
  <2> QED BY <2>6, <2>7, <2>3 DEF s, f
<1>8. ASSUME NEW r \in DOMAIN u \ {<<>>} PROVE Front(r) \in DOMAIN u /\ Last(r) \in Arity(u[Front(r)].head)
  <2>1. <<i>> \o r \in DOMAIN t \ {<<>>}
    BY <1>4, <1>7
  <2>2. <<i>> \o Front(r) \in DOMAIN t /\ Last(r) \in Arity(t[<<i>> \o Front(r)].head)
    BY <2>1, <1>1, <1>7
  <2> QED BY <2>2, <1>4, <1>7
<1>9. IsTree(u)
  BY <1>4, <1>5, <1>6, <1>8 DEF IsTree
<1> QED BY <1>2, <1>3, <1>4, <1>7, <1>9 DEF u


-----------------------------------------------------------------------------
\* What a pattern means, by the fields of its head.
IsPattern(p) == IsTree(p) /\ \A q \in DOMAIN p : p[q].head \in DOMAIN Fields \union {Blank}

LEMMA PatternFields ==
  ASSUME NEW p, IsPattern(p), NEW i \in Arity(p[<<>>].head)
  PROVE  IsPattern(Under(p, <<i>>))
<1>1. IsTree(p)
  BY DEF IsPattern
<1>2. /\ IsTree(Under(p, <<i>>))
      /\ \A r \in DOMAIN Under(p, <<i>>) : <<i>> \o r \in DOMAIN p /\ Under(p, <<i>>)[r] = p[<<i>> \o r]
  BY <1>1, FieldTree
<1> QED BY <1>2 DEF IsPattern

LEMMA WildcardIs ==
  /\ IsPattern(Wildcard) /\ IsWild(Wildcard) /\ DOMAIN Wildcard = {<<>>}
  /\ Wildcard[<<>>].head = Blank /\ Wildcard[<<>>].binders = {}
<1>1. Arity(Blank) = {}
  BY TypeAssumption DEF Arity
<1>2. DOMAIN Wildcard = {<<>>} /\ Wildcard[<<>>] = [head |-> Blank, binders |-> {}]
      /\ Wildcard = [q \in {<<>>} |-> Wildcard[q]]
  BY DEF Wildcard
<1>3. <<>> \in Seq(Nat)
  OBVIOUS
<1> QED BY <1>1, <1>2, <1>3 DEF IsPattern, IsTree, IsWild, HeadIn

\* A wildcard has nothing under it.
LEMMA WildIsRoot ==
  ASSUME NEW p, IsPattern(p), p[<<>>].head = Blank
  PROVE  DOMAIN p = {<<>>}
<1>1. Arity(Blank) = {}
  BY TypeAssumption DEF Arity
<1>2. \A q \in DOMAIN p : q = <<>>
  BY <1>1, Descends DEF IsPattern
<1> QED BY <1>2 DEF IsPattern, IsTree

LEMMA WildMatches ==
  ASSUME NEW p, IsPattern(p), p[<<>>].head = Blank, NEW v, IsTree(v)
  PROVE  Matches(p, v) /\ Names(p, v) = {<<b, v>> : b \in p[<<>>].binders}
<1>1. DOMAIN p = {<<>>}
  BY WildIsRoot
<1>2. Under(v, <<>>) = v
  BY UnderRoot DEF IsTree
<1>3. Names(p, v) = {<<b, Under(v, <<>>)>> : b \in p[<<>>].binders}
  BY <1>1 DEF Names
<1> QED BY <1>1, <1>2, <1>3 DEF Matches

LEMMA OtherHeadFails ==
  ASSUME NEW p, IsPattern(p), p[<<>>].head # Blank, NEW v, p[<<>>].head # v[<<>>].head
  PROVE  ~Matches(p, v)
BY DEF Matches, IsPattern, IsTree

LEMMA MatchesFields ==
  ASSUME NEW p, IsPattern(p), NEW v, IsTree(v), p[<<>>].head = v[<<>>].head
  PROVE  Matches(p, v) <=> \A i \in Arity(v[<<>>].head) : Matches(Under(p, <<i>>), Under(v, <<i>>))
<1>1. IsTree(p)
  BY DEF IsPattern
<1>2. ASSUME Matches(p, v), NEW i \in Arity(v[<<>>].head), NEW r \in DOMAIN Under(p, <<i>>),
             Under(p, <<i>>)[r].head # Blank
      PROVE  r \in DOMAIN Under(v, <<i>>) /\ Under(v, <<i>>)[r].head = Under(p, <<i>>)[r].head
  <2>1. <<i>> \o r \in DOMAIN p /\ Under(p, <<i>>)[r] = p[<<i>> \o r] /\ i \in Nat
    BY <1>1, FieldTree
  <2>2. <<i>> \o r \in DOMAIN v /\ v[<<i>> \o r].head = p[<<i>> \o r].head
    BY <1>2, <2>1 DEF Matches
  <2>3. r \in Seq(Nat) /\ <<i>> \in Seq(Nat)
    BY <1>1, <2>1, FieldTree DEF IsTree
  <2>4. r \in DOMAIN Under(v, <<i>>) /\ Under(v, <<i>>)[r] = v[<<i>> \o r]
    BY <2>2, <2>3, UnderIs DEF IsTree
  <2> QED BY <2>1, <2>2, <2>4
<1>3. ASSUME \A i \in Arity(v[<<>>].head) : Matches(Under(p, <<i>>), Under(v, <<i>>)),
             NEW q \in DOMAIN p, p[q].head # Blank
      PROVE  q \in DOMAIN v /\ v[q].head = p[q].head
  <2>1. CASE q = <<>>
    BY <2>1 DEF IsTree
  <2>2. CASE q # <<>>
    <3> DEFINE i == q[1]
               r == Tail(q)
    <3>1. i \in Arity(p[<<>>].head) /\ r \in DOMAIN Under(p, <<i>>) /\ q = <<i>> \o r
      BY <2>2, <1>1, Descends
    <3> HIDE DEF i, r
    <3>2. Under(p, <<i>>)[r] = p[q]
      BY <3>1, <1>1, FieldTree
    <3>3. r \in DOMAIN Under(v, <<i>>) /\ Under(v, <<i>>)[r].head = p[q].head
      BY <3>1, <3>2, <1>3 DEF Matches
    <3>4. <<i>> \o r \in DOMAIN v /\ Under(v, <<i>>)[r] = v[<<i>> \o r]
      BY <3>1, <3>3, FieldTree
    <3> QED BY <3>1, <3>3, <3>4
  <2> QED BY <2>1, <2>2
<1>4. ASSUME Matches(p, v), NEW i \in Arity(v[<<>>].head) PROVE Matches(Under(p, <<i>>), Under(v, <<i>>))
  BY <1>2, <1>4 DEF Matches
<1>5. ASSUME \A i \in Arity(v[<<>>].head) : Matches(Under(p, <<i>>), Under(v, <<i>>)) PROVE Matches(p, v)
  BY <1>3, <1>5 DEF Matches
<1> QED BY <1>4, <1>5

LEMMA NamesFields ==
  ASSUME NEW p, IsPattern(p), NEW v, IsTree(v), p[<<>>].head = v[<<>>].head
  PROVE  Names(p, v) = {<<b, v>> : b \in p[<<>>].binders}
                       \union UNION {Names(Under(p, <<i>>), Under(v, <<i>>)) : i \in Arity(v[<<>>].head)}
<1>1. IsTree(p) /\ <<>> \in DOMAIN p
  BY DEF IsPattern, IsTree
<1>2. Under(v, <<>>) = v
  BY UnderRoot DEF IsTree
<1>3. ASSUME NEW i \in Arity(v[<<>>].head), NEW r \in DOMAIN Under(p, <<i>>)
      PROVE  /\ <<i>> \o r \in DOMAIN p /\ Under(p, <<i>>)[r] = p[<<i>> \o r]
             /\ Under(Under(v, <<i>>), r) = Under(v, <<i>> \o r)
  <2>0. /\ i \in Nat /\ IsTree(Under(p, <<i>>))
        /\ \A q \in DOMAIN Under(p, <<i>>) : <<i>> \o q \in DOMAIN p /\ Under(p, <<i>>)[q] = p[<<i>> \o q]
    BY <1>1, FieldTree
  <2>1. <<i>> \o r \in DOMAIN p /\ Under(p, <<i>>)[r] = p[<<i>> \o r] /\ i \in Nat /\ r \in Seq(Nat)
    BY <2>0 DEF IsTree
  <2>2. <<i>> \in Seq(Nat)
    BY <2>1
  <2> QED BY <2>1, <2>2, UnderUnder DEF IsTree
<1>4. ASSUME NEW x \in Names(p, v)
      PROVE  \/ x \in {<<b, v>> : b \in p[<<>>].binders}
             \/ \E i \in Arity(v[<<>>].head) : x \in Names(Under(p, <<i>>), Under(v, <<i>>))
  <2>1. PICK q \in DOMAIN p : x \in {<<b, Under(v, q)>> : b \in p[q].binders}
    BY DEF Names
  <2>2. CASE q = <<>>
    BY <2>1, <2>2, <1>2
  <2>3. CASE q # <<>>
    <3> DEFINE i == q[1]
               r == Tail(q)
    <3>1. i \in Arity(v[<<>>].head) /\ r \in DOMAIN Under(p, <<i>>) /\ q = <<i>> \o r
      BY <2>3, <1>1, Descends
    <3> HIDE DEF i, r
    <3>2. x \in {<<b, Under(Under(v, <<i>>), r)>> : b \in Under(p, <<i>>)[r].binders}
      BY <2>1, <3>1, <1>3
    <3>3. x \in Names(Under(p, <<i>>), Under(v, <<i>>))
      BY <3>1, <3>2 DEF Names
    <3> QED BY <3>1, <3>3
  <2> QED BY <2>2, <2>3
<1>5. ASSUME NEW x \in {<<b, v>> : b \in p[<<>>].binders} PROVE x \in Names(p, v)
  BY <1>1, <1>2 DEF Names
<1>6. ASSUME NEW i \in Arity(v[<<>>].head), NEW x \in Names(Under(p, <<i>>), Under(v, <<i>>))
      PROVE  x \in Names(p, v)
  <2>1. PICK r \in DOMAIN Under(p, <<i>>) :
            x \in {<<b, Under(Under(v, <<i>>), r)>> : b \in Under(p, <<i>>)[r].binders}
    BY DEF Names
  <2>2. x \in {<<b, Under(v, <<i>> \o r)>> : b \in p[<<i>> \o r].binders} /\ <<i>> \o r \in DOMAIN p
    BY <2>1, <1>3
  <2> QED BY <2>2 DEF Names
<1> QED BY <1>4, <1>5, <1>6

\* A part of a value is a value of its field's type.
LEMMA ValueFields ==
  ASSUME NEW v, NEW t, IsValue(v, t), NEW i \in Arity(v[<<>>].head)
  PROVE  IsValue(Under(v, <<i>>), Fields[v[<<>>].head][i])
<1> DEFINE u == Under(v, <<i>>)
           f == Fields[v[<<>>].head][i]
<1>1. IsTree(v) /\ IsTree(u) /\ <<i>> \in DOMAIN v /\ <<i>> # <<>>
  BY FieldTree DEF IsValue
<1>2. ASSUME NEW q \in DOMAIN u
      PROVE  u[q] = v[<<i>> \o q] /\ <<i>> \o q \in DOMAIN v /\ TypeAt(u, f, q) = TypeAt(v, t, <<i>> \o q)
  <2>1. u[q] = v[<<i>> \o q] /\ <<i>> \o q \in DOMAIN v
    BY <1>1, FieldTree
  <2>2. CASE q = <<>>
    <3>1. <<i>> \o q = <<i>> /\ Front(<<i>>) = <<>> /\ Last(<<i>>) = i
      BY <2>2, SubSeqEmpty DEF Front, Last
    <3> QED BY <2>1, <2>2, <3>1, <1>1 DEF TypeAt
  <2>3. CASE q # <<>>
    <3>1. Front(<<i>> \o q) = <<i>> \o Front(q) /\ Last(<<i>> \o q) = Last(q) /\ <<i>> \o q # <<>>
      BY <2>3, <1>1, FieldTree
    <3>2. Front(q) \in DOMAIN u
      BY <2>3, <1>1 DEF IsTree
    <3>3. u[Front(q)] = v[<<i>> \o Front(q)]
      BY <3>2, <1>1, FieldTree
    <3> QED BY <2>1, <2>3, <3>1, <3>3 DEF TypeAt
  <2> QED BY <2>2, <2>3
<1> HIDE DEF u, f
<1>3. IsValue(u, f)
  BY <1>1, <1>2 DEF IsValue
<1> QED BY <1>3 DEF u, f

\* A pattern that matches a value of a type inhabits it.
LEMMA MatchingInhabits ==
  ASSUME NEW p, IsPattern(p), NEW v, NEW t, IsValue(v, t), Matches(p, v)
  PROVE  Inhabits(p, t)
<1> SUFFICES ASSUME NEW q \in DOMAIN p, p[q].head # Blank PROVE HeadOf(p[q].head, TypeAt(p, t, q))
  BY DEF Inhabits
<1>1. q \in DOMAIN v /\ v[q].head = p[q].head
  BY DEF Matches
<1>2. TypeAt(p, t, q) = TypeAt(v, t, q)
  <2>1. CASE q = <<>>
    BY <2>1 DEF TypeAt
  <2>2. CASE q # <<>>
    <3>1. Front(q) \in DOMAIN p /\ Last(q) \in Arity(p[Front(q)].head)
      BY <2>2 DEF IsPattern, IsTree
    <3>2. p[Front(q)].head # Blank
      BY <3>1, TypeAssumption DEF Arity
    <3>3. v[Front(q)].head = p[Front(q)].head
      BY <3>1, <3>2 DEF Matches
    <3> QED BY <2>2, <3>3 DEF TypeAt
  <2> QED BY <2>1, <2>2
<1>3. p[q].head # Other
  BY TypeAssumption DEF IsPattern
<1> QED BY <1>1, <1>2, <1>3 DEF IsValue


-----------------------------------------------------------------------------
\* Columns: cells and occurrences that others take the place of.
LEMMA SeqFits ==
  ASSUME NEW s, IsSeq(s), NEW T, \A i \in 1..Len(s) : s[i] \in T
  PROVE  s \in Seq(T)
<1>1. Len(s) \in Nat /\ s = [i \in 1..Len(s) |-> s[i]]
  BY DEF IsSeq
<1>2. s \in [1..Len(s) -> T]
  BY <1>1
<1> QED BY <1>1, <1>2, SeqDef

LEMMA SeqsAre ==
  ASSUME NEW T, NEW s \in Seq(T)
  PROVE  IsSeq(s) /\ DOMAIN s = 1..Len(s) /\ \A i \in 1..Len(s) : s[i] \in T
<1>1. Len(s) \in Nat /\ s \in [1..Len(s) -> T] /\ DOMAIN s = 1..Len(s)
  BY LenProperties
<1> QED BY <1>1 DEF IsSeq

InPlace(s, col, a, t) ==
    /\ IsSeq(t) /\ Len(t) = Len(s) - 1 + Len(a)
    /\ \A k \in 1..(col - 1) : t[k] = s[k]
    /\ \A k \in 1..Len(a) : t[col - 1 + k] = a[k]
    /\ \A k \in (col + 1)..Len(s) : t[k - 1 + Len(a)] = s[k]

LEMMA ReplacedIs ==
  ASSUME NEW s, IsSeq(s), NEW col, col \in 1..Len(s), NEW a, IsSeq(a)
  PROVE  InPlace(s, col, a, Replaced(s, col, a))
<1> DEFINE T == {s[i] : i \in 1..Len(s)} \union {a[i] : i \in 1..Len(a)}
           n == Len(s)
           l == SubSeq(s, 1, col - 1)
           r == SubSeq(s, col + 1, n)
<1>1. s \in Seq(T) /\ a \in Seq(T)
  BY SeqFits
<1>2. n \in Nat /\ Len(a) \in Nat /\ col \in Nat /\ 1 <= col /\ col <= n
  BY DEF IsSeq
<1> HIDE DEF T, n
<1>3. \A i \in 1..n : s[i] \in T
  BY <1>1, ElementOfSeq DEF n
<1>4. /\ l \in Seq(T) /\ Len(l) = IF 1 <= col - 1 THEN col - 1 - 1 + 1 ELSE 0
      /\ \A i \in 1..(col - 1 - 1 + 1) : l[i] = s[1 + i - 1]
  <2>1. 1 \in Int /\ col - 1 \in Int /\ \A i \in 1..(col - 1) : s[i] \in T
    BY <1>2, <1>3
  <2> QED BY <2>1, SubSeqProperties
<1>5. /\ r \in Seq(T) /\ Len(r) = IF col + 1 <= n THEN n - (col + 1) + 1 ELSE 0
      /\ \A i \in 1..(n - (col + 1) + 1) : r[i] = s[col + 1 + i - 1]
  <2>1. col + 1 \in Int /\ n \in Int /\ \A i \in (col + 1)..n : s[i] \in T
    BY <1>2, <1>3
  <2> QED BY <2>1, SubSeqProperties
<1> HIDE DEF l, r
<1>6. Len(l) = col - 1 /\ \A i \in 1..(col - 1) : l[i] = s[i]
  <2>1. (IF 1 <= col - 1 THEN col - 1 - 1 + 1 ELSE 0) = col - 1
    BY <1>2
  <2>2. ASSUME NEW i \in 1..(col - 1) PROVE l[i] = s[i]
    <3>1. i \in 1..(col - 1 - 1 + 1) /\ 1 + i - 1 = i
      BY <1>2
    <3> QED BY <3>1, <1>4
  <2> QED BY <2>1, <2>2, <1>4
<1>7. Len(r) = n - col /\ \A i \in 1..(n - col) : r[i] = s[col + i]
  <2>1. (IF col + 1 <= n THEN n - (col + 1) + 1 ELSE 0) = n - col
    BY <1>2
  <2>2. ASSUME NEW i \in 1..(n - col) PROVE r[i] = s[col + i]
    <3>1. i \in 1..(n - (col + 1) + 1) /\ col + 1 + i - 1 = col + i
      BY <1>2
    <3> QED BY <3>1, <1>5
  <2> QED BY <2>1, <2>2, <1>5
<1> DEFINE la == l \o a
           t == la \o r
<1>8. /\ la \in Seq(T) /\ Len(la) = Len(l) + Len(a)
      /\ \A i \in 1..Len(l) + Len(a) : la[i] = IF i <= Len(l) THEN l[i] ELSE a[i - Len(l)]
  BY <1>1, <1>4, ConcatProperties
<1> HIDE DEF la
<1>9. /\ t \in Seq(T) /\ Len(t) = Len(la) + Len(r)
      /\ \A i \in 1..Len(la) + Len(r) : t[i] = IF i <= Len(la) THEN la[i] ELSE r[i - Len(la)]
  <2>1. la \in Seq(T) /\ r \in Seq(T)
    BY <1>8, <1>5
  <2> QED BY <2>1, ConcatProperties
<1>10. Replaced(s, col, a) = t
  BY DEF Replaced, l, r, la, n
<1> HIDE DEF t
<1>11. IsSeq(t) /\ Len(t) = n - 1 + Len(a)
  <2>1. IsSeq(t)
    BY <1>9, SeqsAre
  <2> QED BY <2>1, <1>9, <1>8, <1>6, <1>7, <1>2
<1>12. ASSUME NEW k \in 1..(col - 1) PROVE t[k] = s[k]
  <2>1. k \in 1..Len(la) + Len(r) /\ k <= Len(la) /\ k \in 1..Len(l) + Len(a) /\ k <= Len(l)
    BY <1>2, <1>6, <1>7, <1>8
  <2> QED BY <2>1, <1>6, <1>8, <1>9
<1>13. ASSUME NEW k \in 1..Len(a) PROVE t[col - 1 + k] = a[k]
  <2> DEFINE j == col - 1 + k
  <2>1. j \in 1..Len(la) + Len(r) /\ j <= Len(la) /\ j \in 1..Len(l) + Len(a) /\ ~(j <= Len(l)) /\ j - Len(l) = k
    BY <1>2, <1>6, <1>7, <1>8
  <2> HIDE DEF j
  <2>2. t[j] = la[j] /\ la[j] = a[k]
    BY <2>1, <1>8, <1>9
  <2> QED BY <2>2 DEF j
<1>14. ASSUME NEW k \in (col + 1)..n PROVE t[k - 1 + Len(a)] = s[k]
  <2> DEFINE j == k - 1 + Len(a)
             i == k - col
  <2>1. j \in 1..Len(la) + Len(r) /\ ~(j <= Len(la)) /\ j - Len(la) = i /\ i \in 1..(n - col) /\ col + i = k
    BY <1>2, <1>6, <1>7, <1>8
  <2> HIDE DEF j, i
  <2>2. t[j] = r[i] /\ r[i] = s[k]
    BY <2>1, <1>7, <1>9
  <2> QED BY <2>2 DEF j
<1> QED BY <1>10, <1>11, <1>12, <1>13, <1>14 DEF n, InPlace

Columns(s, t) == {<<s[k], t[k]>> : k \in 1..Len(t)}

LEMMA ReplacedColumns ==
  ASSUME NEW s, IsSeq(s), NEW t, IsSeq(t), Len(s) = Len(t), NEW col \in 1..Len(t),
         NEW a, IsSeq(a), NEW b, IsSeq(b), Len(a) = Len(b)
  PROVE  Columns(Replaced(s, col, a), Replaced(t, col, b))
            = {<<s[k], t[k]>> : k \in (1..Len(t)) \ {col}} \union Columns(a, b)
<1>a. InPlace(s, col, a, Replaced(s, col, a)) /\ InPlace(t, col, b, Replaced(t, col, b))
  <2>1. col \in 1..Len(s) /\ col \in 1..Len(t)
    OBVIOUS
  <2> QED BY <2>1, ReplacedIs, Zenon
<1> DEFINE x == Replaced(s, col, a)
           y == Replaced(t, col, b)
           n == Len(t)
           m == Len(b)
<1>0. n \in Nat /\ m \in Nat /\ col \in Nat /\ 1 <= col /\ col <= n /\ Len(s) = n /\ Len(a) = m
  BY DEF IsSeq
<1>1. /\ \A k \in 1..(col - 1) : x[k] = s[k]
      /\ \A k \in 1..m : x[col - 1 + k] = a[k]
      /\ \A k \in (col + 1)..n : x[k - 1 + m] = s[k]
  BY <1>a, <1>0 DEF InPlace
<1>2. /\ Len(y) = n - 1 + m
      /\ \A k \in 1..(col - 1) : y[k] = t[k]
      /\ \A k \in 1..m : y[col - 1 + k] = b[k]
      /\ \A k \in (col + 1)..n : y[k - 1 + m] = t[k]
  BY <1>a, <1>0 DEF InPlace
<1> DEFINE Old == {<<s[k], t[k]>> : k \in (1..n) \ {col}}
           New == {<<a[k], b[k]>> : k \in 1..m}
           All == {<<x[k], y[k]>> : k \in 1..(n - 1 + m)}
<1>3. Columns(x, y) = All /\ Columns(a, b) = New
  BY <1>2 DEF Columns
<1> HIDE DEF x, y, n, m
<1>4. ASSUME NEW k \in 1..(n - 1 + m) PROVE <<x[k], y[k]>> \in Old \union New
  <2>1. CASE k \in 1..(col - 1)
    <3>1. k \in (1..n) \ {col} /\ x[k] = s[k] /\ y[k] = t[k]
      BY <2>1, <1>0, <1>1, <1>2
    <3> QED BY <3>1
  <2>2. CASE k \in col..(col - 1 + m)
    <3> DEFINE j == k - col + 1
    <3>1. j \in 1..m /\ col - 1 + j = k
      BY <2>2, <1>0
    <3> HIDE DEF j
    <3>2. x[k] = a[j] /\ y[k] = b[j]
      BY <3>1, <1>1, <1>2
    <3> QED BY <3>1, <3>2
  <2>3. CASE k \in (col + m)..(n - 1 + m)
    <3> DEFINE j == k + 1 - m
    <3>1. j \in (col + 1)..n /\ j - 1 + m = k /\ j \in (1..n) \ {col}
      BY <2>3, <1>0
    <3> HIDE DEF j
    <3>2. x[k] = s[j] /\ y[k] = t[j]
      BY <3>1, <1>1, <1>2
    <3> QED BY <3>1, <3>2
  <2> QED BY <2>1, <2>2, <2>3, <1>0
<1>5. ASSUME NEW k \in (1..n) \ {col} PROVE <<s[k], t[k]>> \in All
  <2>1. CASE k \in 1..(col - 1)
    <3>1. k \in 1..(n - 1 + m) /\ x[k] = s[k] /\ y[k] = t[k]
      BY <2>1, <1>0, <1>1, <1>2
    <3> QED BY <3>1
  <2>2. CASE k \in (col + 1)..n
    <3> DEFINE j == k - 1 + m
    <3>1. j \in 1..(n - 1 + m)
      BY <2>2, <1>0
    <3>2. x[j] = s[k] /\ y[j] = t[k]
      BY <2>2, <1>1, <1>2
    <3> HIDE DEF j
    <3> QED BY <3>1, <3>2
  <2> QED BY <2>1, <2>2, <1>0
<1>6. ASSUME NEW k \in 1..m PROVE <<a[k], b[k]>> \in All
  <2> DEFINE j == col - 1 + k
  <2>1. j \in 1..(n - 1 + m)
    BY <1>0
  <2>2. x[j] = a[k] /\ y[j] = b[k]
    BY <1>1, <1>2
  <2> HIDE DEF j
  <2> QED BY <2>1, <2>2
<1>7. All = Old \union New
  BY <1>4, <1>5, <1>6
<1> QED BY <1>3, <1>7 DEF n, x, y

-----------------------------------------------------------------------------
\* What a row stands for, of the values that occurrences have.
IsRow(row, n) == /\ IsSeq(row.cells) /\ Len(row.cells) = n
                 /\ \A k \in 1..n : IsPattern(row.cells[k])

Fits(row, occs, V)  == \A x \in Columns(row.cells, occs) : Matches(x[1], V[x[2]])
Gives(row, occs, V) == {<<b[1], V[b[2]]>> : b \in row.bound}
                       \union UNION {Names(x[1], V[x[2]]) : x \in Columns(row.cells, occs)}

\* Cells a, at parts b, say of a value u what the cell they take the place of says.
Opens(cell, u, a, b, W) ==
    /\ IsSeq(a) /\ Len(a) = Len(b)
    /\ Matches(cell, u) <=> \A x \in Columns(a, b) : Matches(x[1], W[x[2]])
    /\ Names(cell, u) = {<<n, u>> : n \in cell[<<>>].binders} \union UNION {Names(x[1], W[x[2]]) : x \in Columns(a, b)}

LEMMA RowMoves ==
  ASSUME NEW m, IsSeq(m.occs), NEW row, IsRow(row, Len(m.occs)), NEW col, col \in 1..Len(m.occs),
         NEW a, NEW b, IsSeq(b), NEW V, NEW W,
         \A k \in 1..Len(m.occs) : W[m.occs[k]] = V[m.occs[k]],
         \A x \in row.bound : W[x[2]] = V[x[2]],
         Opens(row.cells[col], V[m.occs[col]], a, b, W)
  PROVE  /\ Fits(Moved(m, row, col, a), Replaced(m.occs, col, b), W) <=> Fits(row, m.occs, V)
         /\ Gives(Moved(m, row, col, a), Replaced(m.occs, col, b), W) = Gives(row, m.occs, V)
<1> DEFINE new == Moved(m, row, col, a)
           occs == Replaced(m.occs, col, b)
           n == Len(m.occs)
           Others == {<<row.cells[k], m.occs[k]>> : k \in (1..n) \ {col}}
           o == m.occs[col]
           cell == row.cells[col]
<1>0. IsSeq(a) /\ Len(a) = Len(b)
  BY DEF Opens
<1>1. new.cells = Replaced(row.cells, col, a) /\ new.bound = Migrated(m, row, col)
  BY DEF Moved
<1>2. Columns(new.cells, occs) = Others \union Columns(a, b)
  <2>1. IsSeq(row.cells) /\ Len(row.cells) = n
    BY DEF IsRow
  <2> DEFINE s == row.cells
             t == m.occs
  <2>2. IsSeq(s) /\ IsSeq(t) /\ Len(s) = Len(t) /\ col \in 1..Len(t)
    BY <2>1
  <2> HIDE DEF s, t
  <2>3. Columns(Replaced(s, col, a), Replaced(t, col, b))
          = {<<s[k], t[k]>> : k \in (1..Len(t)) \ {col}} \union Columns(a, b)
    BY <1>0, <2>2, ReplacedColumns
  <2> QED BY <1>1, <2>3 DEF s, t
<1>3. Columns(row.cells, m.occs) = Others \union {<<cell, o>>}
  BY DEF Columns
<1>4. \A x \in Others : W[x[2]] = V[x[2]]
  OBVIOUS
<1>5. W[o] = V[o]
  OBVIOUS
<1> DEFINE P == Columns(a, b)
           Q == Columns(row.cells, m.occs)
           R == Columns(new.cells, occs)
<1>6. new.bound = row.bound \union {<<y, o>> : y \in cell[<<>>].binders}
  BY <1>1 DEF Migrated
<1>7. Matches(cell, V[o]) <=> \A x \in P : Matches(x[1], W[x[2]])
  BY DEF Opens
<1>8. Names(cell, V[o]) = {<<y, V[o]>> : y \in cell[<<>>].binders} \union UNION {Names(x[1], W[x[2]]) : x \in P}
  BY DEF Opens
<1>9. \A x \in row.bound : W[x[2]] = V[x[2]]
  OBVIOUS
<1> HIDE DEF Others, P, Q, R, o, cell
<1>10. Fits(new, occs, W) <=> \A x \in R : Matches(x[1], W[x[2]])
  BY DEF Fits, R
<1>11. Fits(row, m.occs, V) <=> \A x \in Q : Matches(x[1], V[x[2]])
  BY DEF Fits, Q
<1>12. R = Others \union P /\ Q = Others \union {<<cell, o>>}
  BY <1>2, <1>3 DEF P, Q, R
<1>13. Gives(new, occs, W) = {<<y[1], W[y[2]]>> : y \in new.bound} \union UNION {Names(x[1], W[x[2]]) : x \in R}
  BY DEF Gives, R
<1>14. Gives(row, m.occs, V) = {<<y[1], V[y[2]]>> : y \in row.bound} \union UNION {Names(x[1], V[x[2]]) : x \in Q}
  BY DEF Gives, Q
<1> HIDE DEF new, occs
<1>15. <<cell, o>>[1] = cell /\ <<cell, o>>[2] = o
  OBVIOUS
<1>16. Fits(new, occs, W) <=> Fits(row, m.occs, V)
  <2>1. (\A x \in R : Matches(x[1], W[x[2]]))
           <=> (\A x \in Others : Matches(x[1], V[x[2]])) /\ Matches(cell, V[o])
    BY <1>4, <1>7, <1>12, Zenon
  <2>2. (\A x \in Q : Matches(x[1], V[x[2]]))
           <=> (\A x \in Others : Matches(x[1], V[x[2]])) /\ Matches(cell, V[o])
    BY <1>12, <1>15, Zenon
  <2> QED BY <1>10, <1>11, <2>1, <2>2
<1>17. ASSUME NEW z PROVE z \in Gives(new, occs, W) <=> z \in Gives(row, m.occs, V)
  <2> DEFINE Bound == \E y \in row.bound : z = <<y[1], V[y[2]]>>
             Here  == z \in Names(cell, V[o])
             There == \E x \in Others : z \in Names(x[1], V[x[2]])
  <2>1. z \in {<<y[1], W[y[2]]>> : y \in new.bound} \union UNION {Names(x[1], W[x[2]]) : x \in P} <=> Bound \/ Here
    <3>1. ASSUME NEW y \in new.bound, z = <<y[1], W[y[2]]>> PROVE Bound \/ Here
      <4>1. CASE y \in row.bound
        BY <3>1, <4>1, <1>9
      <4>2. CASE y \in {<<x, o>> : x \in cell[<<>>].binders}
        BY <3>1, <4>2, <1>5, <1>8
      <4> QED BY <4>1, <4>2, <1>6
    <3>2. ASSUME NEW x \in P, z \in Names(x[1], W[x[2]]) PROVE Here
      BY <3>2, <1>8
    <3>3. ASSUME NEW y \in row.bound, z = <<y[1], V[y[2]]>> PROVE z \in {<<x[1], W[x[2]]>> : x \in new.bound}
      BY <3>3, <1>6, <1>9
    <3>4. ASSUME NEW y \in cell[<<>>].binders, z = <<y, V[o]>> PROVE z \in {<<x[1], W[x[2]]>> : x \in new.bound}
      <4>1. <<y, o>> \in new.bound /\ z = <<<<y, o>>[1], W[<<y, o>>[2]]>>
        BY <3>4, <1>5, <1>6
      <4> QED BY <4>1
    <3> QED BY <3>1, <3>2, <3>3, <3>4, <1>8
  <2>2. z \in UNION {Names(x[1], W[x[2]]) : x \in R} <=> There \/ z \in UNION {Names(x[1], W[x[2]]) : x \in P}
    BY <1>4, <1>12
  <2>3. z \in Gives(new, occs, W) <=> Bound \/ Here \/ There
    BY <2>1, <2>2, <1>13, Zenon
  <2>4. z \in UNION {Names(x[1], V[x[2]]) : x \in Q} <=> There \/ Here
    <3> DEFINE c == <<cell, o>>
    <3>1. c \in Q /\ c[1] = cell /\ c[2] = o /\ \A x \in Q : x \in Others \/ x = c
      BY <1>12
    <3> HIDE DEF c
    <3>2. z \in UNION {Names(x[1], V[x[2]]) : x \in Q} <=> \E x \in Q : z \in Names(x[1], V[x[2]])
      OBVIOUS
    <3>3. Others \subseteq Q
      BY <1>12
    <3>4. (\E x \in Q : z \in Names(x[1], V[x[2]])) <=> There \/ Here
      BY <3>1, <3>3, Zenon
    <3> QED BY <3>2, <3>4
  <2>5. z \in Gives(row, m.occs, V) <=> Bound \/ Here \/ There
    BY <2>4, <1>14, Zenon
  <2> QED BY <2>3, <2>5
<1>18. Gives(new, occs, W) = Gives(row, m.occs, V)
  BY <1>17
<1> QED BY <1>16, <1>18 DEF new, occs

-----------------------------------------------------------------------------
\* The fields of a value whose head a row has, or passes over.
LEMMA ColumnsOf ==
  ASSUME NEW n \in Nat, NEW a, NEW b, Len(b) = n
  PROVE  \A x : x \in Columns(a, b) <=> \E i \in 1..n : x = <<a[i], b[i]>>
BY DEF Columns

LEMMA ArgumentsFit ==
  ASSUME NEW cell, IsPattern(cell), NEW w, IsTree(w), NEW c \in DOMAIN Fields, w[<<>>].head = c,
         cell[<<>>].head \in {c, Blank}, NEW b, IsSeq(b), Len(b) = Len(Fields[c]),
         NEW W, \A i \in 1..Len(b) : W[b[i]] = Under(w, <<i>>)
  PROVE  /\ Opens(cell, w, Arguments(cell, c), b, W)
         /\ \A i \in 1..Len(b) : IsPattern(Arguments(cell, c)[i])
<1> DEFINE n == Len(b)
           a == Arguments(cell, c)
<1>1. n \in Nat /\ DOMAIN Fields[c] = 1..n /\ Arity(c) = 1..n
  <2>1. Fields[c] \in Seq(DOMAIN Signature \union DOMAIN Literals)
    BY TypeAssumption
  <2>2. DOMAIN Fields[c] = 1..Len(Fields[c]) /\ Len(Fields[c]) \in Nat
    BY <2>1, LenProperties
  <2> QED BY <2>2 DEF Arity
<1>2. a = [i \in 1..n |-> IF IsWild(cell) THEN Wildcard ELSE Under(cell, <<i>>)]
  BY <1>1 DEF Arguments
<1> HIDE DEF a, n
<1>3. IsSeq(a) /\ Len(a) = n
  BY <1>1, <1>2, SeqIs
<1>4. \A x : x \in Columns(a, b) <=> \E i \in 1..n : x = <<a[i], b[i]>>
  BY <1>1, ColumnsOf DEF n
<1>5. \A i \in 1..n : W[b[i]] = Under(w, <<i>>) /\ IsTree(Under(w, <<i>>))
  <2>1. \A i \in 1..n : W[b[i]] = Under(w, <<i>>)
    BY DEF n
  <2>2. \A i \in 1..n : IsTree(Under(w, <<i>>))
    BY <1>1, FieldTree
  <2> QED BY <2>1, <2>2
<1>6. (\A x \in Columns(a, b) : Matches(x[1], W[x[2]])) <=> \A i \in 1..n : Matches(a[i], Under(w, <<i>>))
  <2>1. ASSUME \A x \in Columns(a, b) : Matches(x[1], W[x[2]]), NEW i \in 1..n PROVE Matches(a[i], Under(w, <<i>>))
    <3>1. <<a[i], b[i]>> \in Columns(a, b) /\ <<a[i], b[i]>>[1] = a[i] /\ <<a[i], b[i]>>[2] = b[i]
      BY <1>4
    <3> QED BY <3>1, <2>1, <1>5
  <2>2. ASSUME \A i \in 1..n : Matches(a[i], Under(w, <<i>>)), NEW x \in Columns(a, b) PROVE Matches(x[1], W[x[2]])
    <3>1. PICK i \in 1..n : x = <<a[i], b[i]>>
      BY <1>4
    <3>2. x[1] = a[i] /\ x[2] = b[i]
      BY <3>1
    <3> QED BY <3>2, <2>2, <1>5
  <2> QED BY <2>1, <2>2
<1>7. UNION {Names(x[1], W[x[2]]) : x \in Columns(a, b)} = UNION {Names(a[i], Under(w, <<i>>)) : i \in 1..n}
  <2>1. ASSUME NEW z, NEW x \in Columns(a, b), z \in Names(x[1], W[x[2]])
        PROVE  \E i \in 1..n : z \in Names(a[i], Under(w, <<i>>))
    <3>1. PICK i \in 1..n : x = <<a[i], b[i]>>
      BY <1>4
    <3>2. x[1] = a[i] /\ x[2] = b[i]
      BY <3>1
    <3> QED BY <3>2, <2>1, <1>5
  <2>2. ASSUME NEW z, NEW i \in 1..n, z \in Names(a[i], Under(w, <<i>>))
        PROVE  \E x \in Columns(a, b) : z \in Names(x[1], W[x[2]])
    <3>1. <<a[i], b[i]>> \in Columns(a, b) /\ <<a[i], b[i]>>[1] = a[i] /\ <<a[i], b[i]>>[2] = b[i]
      BY <1>4
    <3> QED BY <3>1, <2>2, <1>5
  <2> QED BY <2>1, <2>2
<1>8. CASE IsWild(cell)
  <2>1. cell[<<>>].head = Blank
    BY <1>8 DEF IsWild, HeadIn
  <2>2. \A i \in 1..n : a[i] = Wildcard
    BY <1>2, <1>8
  <2>3. \A i \in 1..n : IsPattern(a[i]) /\ Matches(a[i], Under(w, <<i>>)) /\ Names(a[i], Under(w, <<i>>)) = {}
    <3> SUFFICES ASSUME NEW i \in 1..n
                 PROVE  IsPattern(a[i]) /\ Matches(a[i], Under(w, <<i>>)) /\ Names(a[i], Under(w, <<i>>)) = {}
      OBVIOUS
    <3>1. IsTree(Under(w, <<i>>))
      BY <1>5
    <3>2. Matches(Wildcard, Under(w, <<i>>)) /\ Names(Wildcard, Under(w, <<i>>)) = {}
      <4>1. Matches(Wildcard, Under(w, <<i>>))
            /\ Names(Wildcard, Under(w, <<i>>)) = {<<y, Under(w, <<i>>)>> : y \in Wildcard[<<>>].binders}
        BY <3>1, WildcardIs, WildMatches
      <4> QED BY <4>1, WildcardIs
    <3> QED BY <3>2, <2>2, WildcardIs
  <2>4. Matches(cell, w) /\ Names(cell, w) = {<<y, w>> : y \in cell[<<>>].binders}
    BY <2>1, WildMatches
  <2>5. UNION {Names(a[i], Under(w, <<i>>)) : i \in 1..n} = {}
    BY <2>3
  <2>6. Names(cell, w) = {<<y, w>> : y \in cell[<<>>].binders} \union UNION {Names(x[1], W[x[2]]) : x \in Columns(a, b)}
    BY <2>4, <2>5, <1>7
  <2> QED BY <2>3, <2>4, <2>6, <1>3, <1>6 DEF a, n, Opens
<1>9. CASE ~IsWild(cell)
  <2>1. cell[<<>>].head = c
    BY <1>9 DEF IsWild, HeadIn
  <2>2. \A i \in 1..n : a[i] = Under(cell, <<i>>)
    BY <1>2, <1>9
  <2>3. ASSUME NEW i \in 1..n PROVE IsPattern(a[i])
    <3>1. i \in Arity(cell[<<>>].head)
      BY <2>1, <1>1
    <3>2. IsPattern(Under(cell, <<i>>))
      BY <3>1, PatternFields
    <3> QED BY <3>2, <2>2
  <2>4. Matches(cell, w) <=> \A i \in 1..n : Matches(a[i], Under(w, <<i>>))
    <3>1. Matches(cell, w) <=> \A i \in 1..n : Matches(Under(cell, <<i>>), Under(w, <<i>>))
      BY <2>1, <1>1, MatchesFields
    <3> QED BY <3>1, <2>2
  <2>5. Names(cell, w) = {<<y, w>> : y \in cell[<<>>].binders} \union UNION {Names(a[i], Under(w, <<i>>)) : i \in 1..n}
    <3>1. Names(cell, w) = {<<y, w>> : y \in cell[<<>>].binders}
                           \union UNION {Names(Under(cell, <<i>>), Under(w, <<i>>)) : i \in 1..n}
      BY <2>1, <1>1, NamesFields
    <3>2. UNION {Names(Under(cell, <<i>>), Under(w, <<i>>)) : i \in 1..n}
             = UNION {Names(a[i], Under(w, <<i>>)) : i \in 1..n}
      BY <2>2
    <3> QED BY <3>1, <3>2
  <2>6. Names(cell, w) = {<<y, w>> : y \in cell[<<>>].binders} \union UNION {Names(x[1], W[x[2]]) : x \in Columns(a, b)}
    BY <2>5, <1>7
  <2> QED BY <2>3, <2>4, <2>6, <1>3, <1>6 DEF a, n, Opens
<1> QED BY <1>8, <1>9

-----------------------------------------------------------------------------
\* Matrices: their rows, in the order of the arms, and what they stand for when the
\* occurrences have values V and the case looks at v.
IsMatrix(m) ==
    /\ IsSeq(m.occs) /\ IsSeq(m.rows)
    /\ \A r \in 1..Len(m.rows) : IsRow(m.rows[r], Len(m.occs)) /\ m.rows[r].arm \in Nat
    /\ \A q, r \in 1..Len(m.rows) : q < r => m.rows[q].arm < m.rows[r].arm

Within(m, D) ==
    /\ \A k \in 1..Len(m.occs) : m.occs[k] \in D
    /\ \A r \in 1..Len(m.rows) : \A x \in m.rows[r].bound : x[2] \in D

Stand(m, V, v) ==
    /\ \A r \in 1..Len(m.rows) : Fits(m.rows[r], m.occs, V) =>
          m.rows[r].arm \in ArmsFor(v) /\ Gives(m.rows[r], m.occs, V) = Names(arms[m.rows[r].arm], v)
    /\ \A i \in ArmsFor(v) : \E r \in 1..Len(m.rows) : m.rows[r].arm = i /\ Fits(m.rows[r], m.occs, V)

\* What specialize and default_matrix have in common: the rows S are kept, each
\* with cells a[r] in place of a cell, and the occurrences b.
Narrowed(m, col, S, a, b) ==
    [occs |-> Replaced(m.occs, col, b),
     rows |-> [k \in DOMAIN Picked(m.rows, S) |-> Moved(m, Picked(m.rows, S)[k], col, a[InOrder(S)[k]])]]

IsNarrowed(m, col, S, a, b, x) ==
    /\ x.occs = Replaced(m.occs, col, b)
    /\ IsSeq(x.rows)
    /\ \A k \in 1..Len(x.rows) : /\ InOrder(S)[k] \in S
                                 /\ x.rows[k] = Moved(m, m.rows[InOrder(S)[k]], col, a[InOrder(S)[k]])
    /\ \A r \in S : \E k \in 1..Len(x.rows) : InOrder(S)[k] = r
    /\ \A j, k \in 1..Len(x.rows) : j < k => InOrder(S)[j] < InOrder(S)[k]

LEMMA NarrowedIs ==
  ASSUME NEW m, IsMatrix(m), NEW col, NEW S, S \in SUBSET (1..Len(m.rows)), NEW a, NEW b
  PROVE  IsNarrowed(m, col, S, a, b, Narrowed(m, col, S, a, b))
<1> DEFINE P == Picked(m.rows, S)
           x == Narrowed(m, col, S, a, b)
<1>1. Len(m.rows) \in Nat
  BY DEF IsMatrix, IsSeq
<1>2. IsPicked(m.rows, S, P)
  BY <1>1, PickedIs, Zenon
<1>3. x.occs = Replaced(m.occs, col, b) /\ x.rows = [k \in DOMAIN P |-> Moved(m, P[k], col, a[InOrder(S)[k]])]
  BY DEF Narrowed
<1> HIDE DEF P, x
<1>4. IsSeq(x.rows) /\ Len(x.rows) = Len(P)
  <2>1. Len(P) \in Nat /\ DOMAIN x.rows = 1..Len(P)
    BY <1>2, <1>3 DEF IsPicked, IsSeq
  <2> QED BY <2>1, <1>3, SeqIs
<1> QED BY <1>2, <1>3, <1>4 DEF x, IsPicked, IsNarrowed

LEMMA NarrowedIsMatrix ==
  ASSUME NEW m, IsMatrix(m), NEW col, col \in 1..Len(m.occs), NEW S \in SUBSET (1..Len(m.rows)),
         NEW b, IsSeq(b), NEW a,
         \A r \in S : IsSeq(a[r]) /\ Len(a[r]) = Len(b) /\ \A k \in 1..Len(b) : IsPattern(a[r][k])
  PROVE  IsMatrix(Narrowed(m, col, S, a, b))
<1> DEFINE x == Narrowed(m, col, S, a, b)
           n == Len(m.occs)
           l == Len(b)
<1>0. IsNarrowed(m, col, S, a, b, x)
  BY NarrowedIs, Zenon
<1>2. IsSeq(m.occs) /\ n \in Nat /\ l \in Nat /\ col \in 1..n
  BY DEF IsMatrix, IsSeq
<1> HIDE DEF x
<1>1. /\ x.occs = Replaced(m.occs, col, b)
      /\ IsSeq(x.rows)
      /\ \A k \in 1..Len(x.rows) : /\ InOrder(S)[k] \in S
                                   /\ x.rows[k] = Moved(m, m.rows[InOrder(S)[k]], col, a[InOrder(S)[k]])
      /\ \A j, k \in 1..Len(x.rows) : j < k => InOrder(S)[j] < InOrder(S)[k]
  BY <1>0 DEF IsNarrowed
<1>a. InPlace(m.occs, col, b, x.occs)
  BY <1>1, <1>2, ReplacedIs, Zenon
<1>3. IsSeq(x.occs) /\ Len(x.occs) = n - 1 + l
  BY <1>a DEF InPlace
<1>4. ASSUME NEW k \in 1..Len(x.rows)
      PROVE  /\ IsRow(x.rows[k], Len(x.occs)) /\ x.rows[k].arm = m.rows[InOrder(S)[k]].arm
             /\ x.rows[k].arm \in Nat
  <2> DEFINE r == InOrder(S)[k]
             row == m.rows[r]
             cells == Replaced(row.cells, col, a[r])
  <2>1. r \in S /\ x.rows[k] = Moved(m, row, col, a[r])
    BY <1>1
  <2>2. r \in 1..Len(m.rows)
    BY <2>1
  <2>3. x.rows[k].cells = cells /\ x.rows[k].arm = row.arm
    BY <2>1 DEF Moved
  <2>4. row.arm \in Nat /\ IsSeq(row.cells) /\ Len(row.cells) = n /\ \A j \in 1..n : IsPattern(row.cells[j])
    BY <2>2 DEF IsMatrix, IsRow
  <2>5. IsSeq(a[r]) /\ Len(a[r]) = l /\ \A j \in 1..l : IsPattern(a[r][j])
    BY <2>1
  <2>6. InPlace(row.cells, col, a[r], cells)
    <3>1. col \in 1..Len(row.cells)
      BY <2>4, <1>2
    <3> QED BY <3>1, <2>4, <2>5, ReplacedIs, Zenon
  <2> HIDE DEF r, cells, row
  <2>7. IsSeq(cells) /\ Len(cells) = n - 1 + l
    BY <2>4, <2>5, <2>6 DEF InPlace
  <2>8. ASSUME NEW j \in 1..(n - 1 + l) PROVE IsPattern(cells[j])
    <3>1. CASE j \in 1..(col - 1)
      <4>1. cells[j] = row.cells[j] /\ j \in 1..n
        BY <3>1, <2>6, <1>2 DEF InPlace
      <4> QED BY <4>1, <2>4
    <3>2. CASE j \in col..(col - 1 + l)
      <4> DEFINE i == j - col + 1
      <4>1. i \in 1..l /\ col - 1 + i = j
        BY <3>2, <1>2
      <4> HIDE DEF i
      <4>2. cells[j] = a[r][i]
        BY <4>1, <2>5, <2>6 DEF InPlace
      <4> QED BY <4>1, <4>2, <2>5
    <3>3. CASE j \in (col + l)..(n - 1 + l)
      <4> DEFINE i == j + 1 - l
      <4>1. i \in (col + 1)..n /\ i - 1 + l = j /\ i \in 1..n
        BY <3>3, <1>2
      <4> HIDE DEF i
      <4>2. cells[j] = row.cells[i]
        BY <4>1, <2>4, <2>5, <2>6 DEF InPlace
      <4> QED BY <4>1, <4>2, <2>4
    <3> QED BY <3>1, <3>2, <3>3, <1>2
  <2> QED BY <2>3, <2>4, <2>7, <2>8, <1>3 DEF IsRow, r, row
<1>5. ASSUME NEW j \in 1..Len(x.rows), NEW k \in 1..Len(x.rows), j < k PROVE x.rows[j].arm < x.rows[k].arm
  <2>1. InOrder(S)[j] \in 1..Len(m.rows) /\ InOrder(S)[k] \in 1..Len(m.rows) /\ InOrder(S)[j] < InOrder(S)[k]
    BY <1>1, <1>5
  <2>2. m.rows[InOrder(S)[j]].arm < m.rows[InOrder(S)[k]].arm
    BY <2>1 DEF IsMatrix
  <2> QED BY <2>2, <1>4
<1>6. IsMatrix(x)
  BY <1>1, <1>3, <1>4, <1>5 DEF IsMatrix
<1> QED BY <1>6 DEF x

LEMMA NarrowedWithin ==
  ASSUME NEW m, IsMatrix(m), NEW col, col \in 1..Len(m.occs), NEW S \in SUBSET (1..Len(m.rows)),
         NEW b, IsSeq(b), NEW a, NEW D, Within(m, D), \A k \in 1..Len(b) : b[k] \in D
  PROVE  Within(Narrowed(m, col, S, a, b), D)
<1> DEFINE x == Narrowed(m, col, S, a, b)
           n == Len(m.occs)
           l == Len(b)
<1>0. IsNarrowed(m, col, S, a, b, x)
  BY NarrowedIs, Zenon
<1>2. IsSeq(m.occs) /\ n \in Nat /\ l \in Nat /\ col \in 1..n /\ \A k \in 1..n : m.occs[k] \in D
  BY DEF IsMatrix, IsSeq, Within
<1> HIDE DEF x
<1>1. /\ x.occs = Replaced(m.occs, col, b)
      /\ \A k \in 1..Len(x.rows) : /\ InOrder(S)[k] \in S
                                   /\ x.rows[k] = Moved(m, m.rows[InOrder(S)[k]], col, a[InOrder(S)[k]])
  BY <1>0 DEF IsNarrowed
<1>3. InPlace(m.occs, col, b, x.occs)
  BY <1>1, <1>2, ReplacedIs, Zenon
<1>4. ASSUME NEW j \in 1..Len(x.occs) PROVE x.occs[j] \in D
  <2>0. Len(x.occs) = n - 1 + l
    BY <1>3 DEF InPlace
  <2>1. CASE j \in 1..(col - 1)
    <3>1. x.occs[j] = m.occs[j] /\ j \in 1..n
      BY <2>1, <1>2, <1>3 DEF InPlace
    <3> QED BY <3>1, <1>2
  <2>2. CASE j \in col..(col - 1 + l)
    <3> DEFINE i == j - col + 1
    <3>1. i \in 1..l /\ col - 1 + i = j
      BY <2>2, <1>2
    <3> HIDE DEF i
    <3>2. x.occs[j] = b[i]
      BY <3>1, <1>3 DEF InPlace
    <3> QED BY <3>1, <3>2
  <2>3. CASE j \in (col + l)..(n - 1 + l)
    <3> DEFINE i == j + 1 - l
    <3>1. i \in (col + 1)..n /\ i - 1 + l = j /\ i \in 1..n
      BY <2>3, <1>2
    <3> HIDE DEF i
    <3>2. x.occs[j] = m.occs[i]
      BY <3>1, <1>3 DEF InPlace
    <3> QED BY <3>1, <3>2, <1>2
  <2> QED BY <2>0, <2>1, <2>2, <2>3, <1>2
<1>5. ASSUME NEW k \in 1..Len(x.rows), NEW y \in x.rows[k].bound PROVE y[2] \in D
  <2> DEFINE row == m.rows[InOrder(S)[k]]
  <2>0. InOrder(S)[k] \in S /\ x.rows[k] = Moved(m, row, col, a[InOrder(S)[k]])
    BY <1>1
  <2>a. x.rows[k].bound = Migrated(m, row, col)
    BY <2>0 DEF Moved
  <2>1. InOrder(S)[k] \in 1..Len(m.rows) /\ y \in Migrated(m, row, col)
    BY <2>0, <2>a
  <2>2. m.occs[col] \in D
    BY <1>2
  <2>3. \A z \in row.bound : z[2] \in D
    BY <2>1 DEF Within
  <2> QED BY <2>1, <2>2, <2>3 DEF Migrated
<1>6. Within(x, D)
  BY <1>4, <1>5 DEF Within
<1> QED BY <1>6 DEF x

LEMMA NarrowedStands ==
  ASSUME NEW m, IsMatrix(m), NEW col, col \in 1..Len(m.occs), NEW S, S \in SUBSET (1..Len(m.rows)),
         NEW b, IsSeq(b), NEW a, NEW V, NEW W, NEW v, Stand(m, V, v),
         \A k \in 1..Len(m.occs) : W[m.occs[k]] = V[m.occs[k]],
         \A r \in 1..Len(m.rows) : \A x \in m.rows[r].bound : W[x[2]] = V[x[2]],
         \A r \in S : Opens(m.rows[r].cells[col], V[m.occs[col]], a[r], b, W),
         \A r \in (1..Len(m.rows)) \ S : ~Fits(m.rows[r], m.occs, V)
  PROVE  Stand(Narrowed(m, col, S, a, b), W, v)
<1> DEFINE x == Narrowed(m, col, S, a, b)
           n == Len(m.rows)
           l == Len(x.rows)
           At(k) == InOrder(S)[k]
<1>0. IsNarrowed(m, col, S, a, b, x)
  BY NarrowedIs, Zenon
<1> HIDE DEF x
<1>1. /\ x.occs = Replaced(m.occs, col, b)
      /\ \A k \in 1..l : At(k) \in S /\ x.rows[k] = Moved(m, m.rows[At(k)], col, a[At(k)])
      /\ \A r \in S : \E k \in 1..l : At(k) = r
  BY <1>0 DEF IsNarrowed
<1> HIDE DEF l, At
<1>2. ASSUME NEW k \in 1..l
      PROVE  /\ At(k) \in 1..n /\ x.rows[k].arm = m.rows[At(k)].arm
             /\ Fits(x.rows[k], x.occs, W) <=> Fits(m.rows[At(k)], m.occs, V)
             /\ Gives(x.rows[k], x.occs, W) = Gives(m.rows[At(k)], m.occs, V)
  <2> DEFINE r == At(k)
  <2>1. r \in S /\ r \in 1..n /\ x.rows[k] = Moved(m, m.rows[r], col, a[r])
    BY <1>1
  <2> HIDE DEF r
  <2>2. x.rows[k].arm = m.rows[r].arm
    BY <2>1 DEF Moved
  <2>3. IsSeq(m.occs) /\ IsRow(m.rows[r], Len(m.occs))
    BY <2>1 DEF IsMatrix
  <2>4. \A y \in m.rows[r].bound : W[y[2]] = V[y[2]]
    BY <2>1
  <2>5. Opens(m.rows[r].cells[col], V[m.occs[col]], a[r], b, W)
    BY <2>1
  <2>6. /\ Fits(Moved(m, m.rows[r], col, a[r]), Replaced(m.occs, col, b), W) <=> Fits(m.rows[r], m.occs, V)
        /\ Gives(Moved(m, m.rows[r], col, a[r]), Replaced(m.occs, col, b), W) = Gives(m.rows[r], m.occs, V)
    <3> DEFINE row == m.rows[r]
               aa == a[r]
    <3>1. IsRow(row, Len(m.occs)) /\ (\A y \in row.bound : W[y[2]] = V[y[2]]) /\ IsSeq(m.occs)
          /\ Opens(row.cells[col], V[m.occs[col]], aa, b, W)
      BY <2>3, <2>4, <2>5
    <3> HIDE DEF row, aa
    <3>2. /\ Fits(Moved(m, row, col, aa), Replaced(m.occs, col, b), W) <=> Fits(row, m.occs, V)
          /\ Gives(Moved(m, row, col, aa), Replaced(m.occs, col, b), W) = Gives(row, m.occs, V)
      BY <3>1, RowMoves
    <3> QED BY <3>2 DEF row, aa
  <2> QED BY <1>1, <2>1, <2>2, <2>6 DEF r
<1>3. ASSUME NEW k \in 1..l, Fits(x.rows[k], x.occs, W)
      PROVE  x.rows[k].arm \in ArmsFor(v) /\ Gives(x.rows[k], x.occs, W) = Names(arms[x.rows[k].arm], v)
  BY <1>2, <1>3 DEF Stand
<1>4. ASSUME NEW i \in ArmsFor(v) PROVE \E k \in 1..l : x.rows[k].arm = i /\ Fits(x.rows[k], x.occs, W)
  <2>1. PICK r \in 1..n : m.rows[r].arm = i /\ Fits(m.rows[r], m.occs, V)
    BY DEF Stand
  <2>2. r \in S
    BY <2>1
  <2>3. PICK k \in 1..l : At(k) = r
    BY <2>2, <1>1
  <2> QED BY <2>1, <2>3, <1>2
<1>5. Stand(x, W, v)
  BY <1>3, <1>4 DEF Stand, l
<1> QED BY <1>5 DEF x

\* What specialize and default_matrix do is narrowing.
Kept(m, col, H) == {r \in 1..Len(m.rows) : HeadAt(m, r, col) \in H}

LEMMA KeptIs ==
  ASSUME NEW m, IsMatrix(m), NEW col, NEW H
  PROVE  /\ DOMAIN m.rows = 1..Len(m.rows)
         /\ Kept(m, col, H) \in SUBSET (1..Len(m.rows))
         /\ IsPicked(m.rows, Kept(m, col, H), Picked(m.rows, Kept(m, col, H)))
<1>1. DOMAIN m.rows = 1..Len(m.rows) /\ Len(m.rows) \in Nat
  BY DEF IsMatrix, IsSeq
<1>2. Kept(m, col, H) \in SUBSET (1..Len(m.rows))
  BY DEF Kept
<1> QED BY <1>1, <1>2, PickedIs, Zenon

LEMMA ArgumentsAre ==
  ASSUME NEW cell, IsPattern(cell), NEW c \in DOMAIN Fields, cell[<<>>].head \in {c, Blank}
  PROVE  /\ IsSeq(Arguments(cell, c)) /\ Len(Arguments(cell, c)) = Len(Fields[c])
         /\ \A i \in 1..Len(Fields[c]) : IsPattern(Arguments(cell, c)[i])
<1> DEFINE n == Len(Fields[c])
           a == Arguments(cell, c)
<1>1. n \in Nat /\ DOMAIN Fields[c] = 1..n /\ Arity(c) = 1..n
  <2>1. Fields[c] \in Seq(DOMAIN Signature \union DOMAIN Literals)
    BY TypeAssumption
  <2>2. DOMAIN Fields[c] = 1..Len(Fields[c]) /\ Len(Fields[c]) \in Nat
    BY <2>1, LenProperties
  <2> QED BY <2>2 DEF Arity
<1>2. a = [i \in 1..n |-> IF IsWild(cell) THEN Wildcard ELSE Under(cell, <<i>>)]
  BY <1>1 DEF Arguments
<1> HIDE DEF a, n
<1>3. IsSeq(a) /\ Len(a) = n
  BY <1>1, <1>2, SeqIs
<1>4. ASSUME NEW i \in 1..n PROVE IsPattern(a[i])
  <2>1. CASE IsWild(cell)
    BY <2>1, <1>2, WildcardIs
  <2>2. CASE ~IsWild(cell)
    <3>1. cell[<<>>].head = c
      BY <2>2 DEF IsWild, HeadIn
    <3> QED BY <3>1, <2>2, <1>1, <1>2, PatternFields
  <2> QED BY <2>1, <2>2
<1> QED BY <1>3, <1>4 DEF a, n

\* The parts of the fields of a head.
LEMMA FieldsAre ==
  ASSUME NEW L, NEW o, NEW c \in DOMAIN Fields
  PROVE  IsSeq(FieldsOf(L, o, c)) /\ Len(FieldsOf(L, o, c)) = Len(Fields[c])
<1>1. DOMAIN Fields[c] = 1..Len(Fields[c]) /\ Len(Fields[c]) \in Nat
  BY TypeAssumption, LenProperties
<1> DEFINE b == FieldsOf(L, o, c)
<1>2. DOMAIN b = 1..Len(Fields[c]) /\ b = [i \in DOMAIN b |-> b[i]]
  BY <1>1 DEF FieldsOf
<1> HIDE DEF b
<1>3. IsSeq(b) /\ Len(b) = Len(Fields[c])
  BY <1>1, <1>2, SeqIs
<1> QED BY <1>3 DEF b

OfRows(m, col, c) == [r \in 1..Len(m.rows) |-> Arguments(m.rows[r].cells[col], c)]

LEMMA SpecializeIs ==
  ASSUME NEW m, IsMatrix(m), NEW col, NEW c, NEW L
  PROVE  Specialize(m, col, c, L) =
            Narrowed(m, col, Kept(m, col, {c, Blank}), OfRows(m, col, c), FieldsOf(L, m.occs[col], c))
<1> DEFINE S == Kept(m, col, {c, Blank})
           P == Picked(m.rows, S)
           a == OfRows(m, col, c)
<1>1. DOMAIN m.rows = 1..Len(m.rows) /\ S \in SUBSET (1..Len(m.rows)) /\ IsPicked(m.rows, S, P)
  BY KeptIs, Zenon
<1>0. S = {r \in DOMAIN m.rows : HeadAt(m, r, col) \in {c, Blank}}
  BY <1>1 DEF Kept
<1>2. Specialize(m, col, c, L) =
        [occs |-> Replaced(m.occs, col, FieldsOf(L, m.occs[col], c)),
         rows |-> [k \in DOMAIN P |-> Moved(m, P[k], col, Arguments(P[k].cells[col], c))]]
  BY <1>0 DEF Specialize
<1> HIDE DEF S, P
<1>3. ASSUME NEW k \in DOMAIN P
      PROVE  Moved(m, P[k], col, Arguments(P[k].cells[col], c)) = Moved(m, P[k], col, a[InOrder(S)[k]])
  <2>1. InOrder(S)[k] \in 1..Len(m.rows) /\ P[k] = m.rows[InOrder(S)[k]]
    BY <1>1 DEF IsPicked
  <2>2. Arguments(P[k].cells[col], c) = a[InOrder(S)[k]]
    BY <2>1 DEF OfRows
  <2> QED BY <2>2
<1>4. [k \in DOMAIN P |-> Moved(m, P[k], col, Arguments(P[k].cells[col], c))]
         = [k \in DOMAIN P |-> Moved(m, P[k], col, a[InOrder(S)[k]])]
  BY <1>3
<1>5. Narrowed(m, col, S, a, FieldsOf(L, m.occs[col], c)) =
        [occs |-> Replaced(m.occs, col, FieldsOf(L, m.occs[col], c)),
         rows |-> [k \in DOMAIN P |-> Moved(m, P[k], col, a[InOrder(S)[k]])]]
  BY DEF Narrowed, P
<1> QED BY <1>2, <1>4, <1>5 DEF S

LEMMA DefaultIs ==
  ASSUME NEW m, IsMatrix(m), NEW col
  PROVE  Default(m, col) = Narrowed(m, col, Kept(m, col, {Blank}), [r \in 1..Len(m.rows) |-> <<>>], <<>>)
<1> DEFINE S == Kept(m, col, {Blank})
           P == Picked(m.rows, S)
           a == [r \in 1..Len(m.rows) |-> <<>>]
<1>1. DOMAIN m.rows = 1..Len(m.rows) /\ S \in SUBSET (1..Len(m.rows)) /\ IsPicked(m.rows, S, P)
  BY KeptIs, Zenon
<1>0. S = {r \in DOMAIN m.rows : HeadAt(m, r, col) = Blank}
  BY <1>1 DEF Kept
<1>2. Default(m, col) =
        [occs |-> Replaced(m.occs, col, <<>>), rows |-> [k \in DOMAIN P |-> Moved(m, P[k], col, <<>>)]]
  BY <1>0 DEF Default
<1> HIDE DEF S
<1> HIDE DEF P
<1>3. ASSUME NEW k \in DOMAIN P PROVE Moved(m, P[k], col, <<>>) = Moved(m, P[k], col, a[InOrder(S)[k]])
  <2>1. InOrder(S)[k] \in 1..Len(m.rows)
    BY <1>1 DEF IsPicked
  <2>2. a[InOrder(S)[k]] = <<>>
    BY <2>1
  <2> QED BY <2>2
<1>4. [k \in DOMAIN P |-> Moved(m, P[k], col, <<>>)] = [k \in DOMAIN P |-> Moved(m, P[k], col, a[InOrder(S)[k]])]
  BY <1>3
<1>5. Narrowed(m, col, S, a, <<>>) =
        [occs |-> Replaced(m.occs, col, <<>>),
         rows |-> [k \in DOMAIN P |-> Moved(m, P[k], col, a[InOrder(S)[k]])]]
  BY DEF Narrowed, P
<1> QED BY <1>2, <1>4, <1>5 DEF S

LEMMA SpecializeIsMatrix ==
  ASSUME NEW m, IsMatrix(m), NEW col, col \in 1..Len(m.occs), NEW c \in DOMAIN Fields, NEW L
  PROVE  IsMatrix(Specialize(m, col, c, L))
<1> DEFINE S == Kept(m, col, {c, Blank})
           a == OfRows(m, col, c)
           b == FieldsOf(L, m.occs[col], c)
<1>1. IsSeq(b) /\ Len(b) = Len(Fields[c])
  BY FieldsAre
<1>2. S \in SUBSET (1..Len(m.rows))
  BY KeptIs
<1>3. ASSUME NEW r \in S PROVE IsSeq(a[r]) /\ Len(a[r]) = Len(b) /\ \A k \in 1..Len(b) : IsPattern(a[r][k])
  <2> DEFINE cell == m.rows[r].cells[col]
  <2>1. r \in 1..Len(m.rows) /\ a[r] = Arguments(cell, c)
    BY DEF OfRows, Kept
  <2>2. IsPattern(cell) /\ cell[<<>>].head \in {c, Blank}
    BY <2>1 DEF IsMatrix, IsRow, Kept, HeadAt, HeadIn
  <2> HIDE DEF a, b, cell, S
  <2> QED BY <2>1, <2>2, <1>1, ArgumentsAre
<1> HIDE DEF S, a, b
<1>4. IsMatrix(Narrowed(m, col, S, a, b))
  BY <1>1, <1>2, <1>3, NarrowedIsMatrix
<1> QED BY <1>4, SpecializeIs DEF S, a, b

LEMMA DefaultIsMatrix ==
  ASSUME NEW m, IsMatrix(m), NEW col, col \in 1..Len(m.occs)
  PROVE  IsMatrix(Default(m, col))
<1> DEFINE S == Kept(m, col, {Blank})
           a == [r \in 1..Len(m.rows) |-> <<>>]
<1>1. IsSeq(<<>>) /\ Len(<<>>) = 0
  BY DEF IsSeq
<1>2. S \in SUBSET (1..Len(m.rows))
  BY KeptIs
<1>3. \A r \in S : a[r] = <<>>
  BY <1>2
<1> HIDE DEF S, a
<1>4. \A r \in S : IsSeq(a[r]) /\ Len(a[r]) = Len(<<>>) /\ \A k \in 1..Len(<<>>) : IsPattern(a[r][k])
  BY <1>1, <1>3
<1>5. IsMatrix(Narrowed(m, col, S, a, <<>>))
  BY <1>1, <1>2, <1>4, NarrowedIsMatrix
<1> QED BY <1>5, DefaultIs DEF S, a

LEMMA SpecializeWithin ==
  ASSUME NEW m, IsMatrix(m), NEW col, col \in 1..Len(m.occs), NEW c \in DOMAIN Fields, NEW L, NEW D,
         Within(m, D), \A i \in DOMAIN Fields[c] : FieldsOf(L, m.occs[col], c)[i] \in D
  PROVE  Within(Specialize(m, col, c, L), D)
<1> DEFINE S == Kept(m, col, {c, Blank})
           a == OfRows(m, col, c)
           b == FieldsOf(L, m.occs[col], c)
<1>1. IsSeq(b) /\ Len(b) = Len(Fields[c]) /\ DOMAIN Fields[c] = 1..Len(Fields[c])
  BY FieldsAre, TypeAssumption, LenProperties
<1>2. S \in SUBSET (1..Len(m.rows))
  BY KeptIs
<1>3. \A k \in 1..Len(b) : b[k] \in D
  BY <1>1
<1> HIDE DEF S, a, b
<1>4. Within(Narrowed(m, col, S, a, b), D)
  BY <1>1, <1>2, <1>3, NarrowedWithin
<1> QED BY <1>4, SpecializeIs DEF S, a, b

LEMMA DefaultWithin ==
  ASSUME NEW m, IsMatrix(m), NEW col, col \in 1..Len(m.occs), NEW D, Within(m, D)
  PROVE  Within(Default(m, col), D)
<1> DEFINE S == Kept(m, col, {Blank})
           a == [r \in 1..Len(m.rows) |-> <<>>]
<1>1. IsSeq(<<>>) /\ \A k \in 1..Len(<<>>) : <<>>[k] \in D
  BY DEF IsSeq
<1>2. S \in SUBSET (1..Len(m.rows))
  BY KeptIs
<1> HIDE DEF S, a
<1>4. Within(Narrowed(m, col, S, a, <<>>), D)
  BY <1>1, <1>2, NarrowedWithin
<1> QED BY <1>4, DefaultIs DEF S, a

\* A row whose cell no value with this head has fits none.
LEMMA CellFails ==
  ASSUME NEW m, IsMatrix(m), NEW col, col \in 1..Len(m.occs), NEW r \in 1..Len(m.rows), NEW V,
         ~Matches(m.rows[r].cells[col], V[m.occs[col]])
  PROVE  ~Fits(m.rows[r], m.occs, V)
<1> DEFINE x == <<m.rows[r].cells[col], m.occs[col]>>
<1>1. x \in Columns(m.rows[r].cells, m.occs)
  BY DEF Columns
<1>2. x[1] = m.rows[r].cells[col] /\ x[2] = m.occs[col]
  OBVIOUS
<1> QED BY <1>1, <1>2 DEF Fits

Loaded(m, col, c, L, V, W, v, w) ==
    /\ IsMatrix(m) /\ col \in 1..Len(m.occs) /\ Stand(m, V, v) /\ w = V[m.occs[col]] /\ IsTree(w)
    /\ c \in DOMAIN Fields /\ w[<<>>].head = c
    /\ \A k \in 1..Len(m.occs) : W[m.occs[k]] = V[m.occs[k]]
    /\ \A r \in 1..Len(m.rows) : \A x \in m.rows[r].bound : W[x[2]] = V[x[2]]
    /\ \A i \in DOMAIN Fields[c] : W[FieldsOf(L, m.occs[col], c)[i]] = Under(w, <<i>>)

LEMMA SpecializeStands ==
  ASSUME NEW m, NEW col, NEW c, NEW L, NEW V, NEW W, NEW v, NEW w, Loaded(m, col, c, L, V, W, v, w)
  PROVE  Stand(Specialize(m, col, c, L), W, v)
<1> USE DEF Loaded
<1> DEFINE S == Kept(m, col, {c, Blank})
           a == OfRows(m, col, c)
           b == FieldsOf(L, m.occs[col], c)
<1>1. IsSeq(b) /\ Len(b) = Len(Fields[c]) /\ DOMAIN Fields[c] = 1..Len(Fields[c])
  BY FieldsAre, TypeAssumption, LenProperties
<1>2. S \in SUBSET (1..Len(m.rows))
  BY KeptIs
<1>3. \A i \in 1..Len(b) : W[b[i]] = Under(w, <<i>>)
  BY <1>1
<1>4. ASSUME NEW r \in 1..Len(m.rows)
      PROVE  /\ IsPattern(m.rows[r].cells[col])
             /\ r \in S <=> m.rows[r].cells[col][<<>>].head \in {c, Blank}
             /\ a[r] = Arguments(m.rows[r].cells[col], c)
  BY DEF IsMatrix, IsRow, Kept, HeadAt, HeadIn, OfRows
<1> HIDE DEF S, a, b
<1>5. ASSUME NEW r \in S PROVE Opens(m.rows[r].cells[col], V[m.occs[col]], a[r], b, W)
  <2> DEFINE cell == m.rows[r].cells[col]
  <2>1. IsPattern(cell) /\ cell[<<>>].head \in {c, Blank} /\ a[r] = Arguments(cell, c)
    BY <1>2, <1>4
  <2> HIDE DEF cell
  <2>2. Opens(cell, w, Arguments(cell, c), b, W)
    BY <2>1, <1>1, <1>3, ArgumentsFit
  <2> QED BY <2>1, <2>2 DEF cell
<1>6. ASSUME NEW r \in (1..Len(m.rows)) \ S PROVE ~Fits(m.rows[r], m.occs, V)
  <2>1. IsPattern(m.rows[r].cells[col]) /\ ~(m.rows[r].cells[col][<<>>].head \in {c, Blank})
    BY <1>4
  <2>2. ~Matches(m.rows[r].cells[col], w)
    BY <2>1, OtherHeadFails
  <2> QED BY <2>2, CellFails
<1>7. Stand(Narrowed(m, col, S, a, b), W, v)
  BY <1>1, <1>2, <1>5, <1>6, NarrowedStands
<1> QED BY <1>7, SpecializeIs DEF S, a, b

LEMMA DefaultStands ==
  ASSUME NEW m, IsMatrix(m), NEW col, col \in 1..Len(m.occs), NEW V, NEW v, Stand(m, V, v),
         NEW w, w = V[m.occs[col]], IsTree(w), w[<<>>].head \notin HeadSet(m, col)
  PROVE  Stand(Default(m, col), V, v)
<1> DEFINE S == Kept(m, col, {Blank})
           a == [r \in 1..Len(m.rows) |-> <<>>]
<1>1. IsSeq(<<>>) /\ Len(<<>>) = 0
  BY DEF IsSeq
<1>2. S \in SUBSET (1..Len(m.rows)) /\ DOMAIN m.rows = 1..Len(m.rows)
  BY KeptIs
<1>3. \A r \in S : a[r] = <<>>
  BY <1>2
<1>4. ASSUME NEW r \in 1..Len(m.rows)
      PROVE  /\ IsPattern(m.rows[r].cells[col])
             /\ r \in S <=> m.rows[r].cells[col][<<>>].head = Blank
             /\ r \notin S => m.rows[r].cells[col][<<>>].head \in HeadSet(m, col)
  BY <1>2 DEF IsMatrix, IsRow, Kept, HeadAt, HeadIn, HeadSet
<1> HIDE DEF S, a
<1>5. ASSUME NEW r \in S PROVE Opens(m.rows[r].cells[col], V[m.occs[col]], a[r], <<>>, V)
  <2> DEFINE cell == m.rows[r].cells[col]
  <2>1. IsPattern(cell) /\ cell[<<>>].head = Blank /\ a[r] = <<>>
    BY <1>2, <1>3, <1>4
  <2> HIDE DEF cell
  <2>2. Matches(cell, w) /\ Names(cell, w) = {<<y, w>> : y \in cell[<<>>].binders}
    BY <2>1, WildMatches
  <2>3. Columns(<<>>, <<>>) = {}
    BY <1>1 DEF Columns
  <2>4. Opens(cell, w, <<>>, <<>>, V)
    BY <1>1, <2>2, <2>3 DEF Opens
  <2> QED BY <2>1, <2>4 DEF cell
<1>6. ASSUME NEW r \in (1..Len(m.rows)) \ S PROVE ~Fits(m.rows[r], m.occs, V)
  <2>1. /\ IsPattern(m.rows[r].cells[col]) /\ m.rows[r].cells[col][<<>>].head # Blank
        /\ m.rows[r].cells[col][<<>>].head # w[<<>>].head
    BY <1>4
  <2>2. ~Matches(m.rows[r].cells[col], w)
    BY <2>1, OtherHeadFails
  <2> QED BY <2>2, CellFails
<1>7. Stand(Narrowed(m, col, S, a, <<>>), V, v)
  BY <1>1, <1>2, <1>5, <1>6, NarrowedStands
<1> QED BY <1>7, DefaultIs DEF S, a

\* The matrix of a case, and what it stands for.
ArmsAre == IsSeq(arms) /\ \A i \in 1..Len(arms) : IsPattern(arms[i])

LEMMA RootRows ==
  ASSUME ArmsAre
  PROVE  LET S == {i \in 1..Len(arms) : Inhabits(arms[i], site)}
             m == Matrix(site, arms)
         IN  /\ m.occs = <<Root>> /\ IsSeq(m.rows)
             /\ \A r \in 1..Len(m.rows) :
                   /\ InOrder(S)[r] \in S
                   /\ m.rows[r].cells = <<arms[InOrder(S)[r]]>> /\ m.rows[r].arm = InOrder(S)[r] /\ m.rows[r].bound = {}
             /\ \A i \in S : \E r \in 1..Len(m.rows) : InOrder(S)[r] = i
             /\ \A q, r \in 1..Len(m.rows) : q < r => InOrder(S)[q] < InOrder(S)[r]
<1> DEFINE n == Len(arms)
           S == {i \in 1..n : Inhabits(arms[i], site)}
           f == [i \in 1..n |-> [cells |-> <<arms[i]>>, arm |-> i, bound |-> {}]]
           P == Picked(f, S)
           m == Matrix(site, arms)
<1>1. n \in Nat /\ DOMAIN arms = 1..n
  BY DEF ArmsAre, IsSeq
<1>2. m.occs = <<Root>> /\ m.rows = P
  BY <1>1 DEF Matrix
<1>3. S \in SUBSET (1..n)
  OBVIOUS
<1> HIDE DEF m, P, S, n
<1>4. IsPicked(f, S, P)
  BY <1>1, <1>3, PickedIs, Zenon DEF P
<1>5. \A i \in S : f[i].cells = <<arms[i]>> /\ f[i].arm = i /\ f[i].bound = {}
  BY <1>3
<1> HIDE DEF f
<1>6. \A k \in 1..Len(P) : P[k] = f[InOrder(S)[k]] /\ InOrder(S)[k] \in S
  BY <1>4 DEF IsPicked
<1>7. /\ IsSeq(P) /\ \A i \in S : \E k \in 1..Len(P) : InOrder(S)[k] = i
      /\ \A j, k \in 1..Len(P) : j < k => InOrder(S)[j] < InOrder(S)[k]
  BY <1>4 DEF IsPicked
<1>8. ASSUME NEW r \in 1..Len(m.rows)
      PROVE  /\ InOrder(S)[r] \in S
             /\ m.rows[r].cells = <<arms[InOrder(S)[r]]>> /\ m.rows[r].arm = InOrder(S)[r] /\ m.rows[r].bound = {}
  <2>1. P[r] = f[InOrder(S)[r]] /\ InOrder(S)[r] \in S
    BY <1>2, <1>6
  <2> QED BY <2>1, <1>2, <1>5
<1>9. /\ m.occs = <<Root>> /\ IsSeq(m.rows)
      /\ \A i \in S : \E r \in 1..Len(m.rows) : InOrder(S)[r] = i
      /\ \A q, r \in 1..Len(m.rows) : q < r => InOrder(S)[q] < InOrder(S)[r]
  BY <1>2, <1>7
<1> QED BY <1>8, <1>9 DEF m, S, n

LEMMA RootIsMatrix ==
  ASSUME ArmsAre
  PROVE  IsMatrix(Matrix(site, arms)) /\ Within(Matrix(site, arms), {Root})
<1> DEFINE S == {i \in 1..Len(arms) : Inhabits(arms[i], site)}
           m == Matrix(site, arms)
<1>1. /\ m.occs = <<Root>> /\ IsSeq(m.rows)
      /\ \A r \in 1..Len(m.rows) :
            /\ InOrder(S)[r] \in S
            /\ m.rows[r].cells = <<arms[InOrder(S)[r]]>> /\ m.rows[r].arm = InOrder(S)[r] /\ m.rows[r].bound = {}
      /\ \A q, r \in 1..Len(m.rows) : q < r => InOrder(S)[q] < InOrder(S)[r]
  BY RootRows
<1>2. \A i \in S : i \in Nat /\ IsPattern(arms[i])
  BY DEF ArmsAre, IsSeq
<1> HIDE DEF S, m
<1>3. \A x : IsSeq(<<x>>) /\ Len(<<x>>) = 1 /\ <<x>>[1] = x
  BY DEF IsSeq
<1>4. IsSeq(m.occs) /\ Len(m.occs) = 1 /\ m.occs[1] = Root
  BY <1>1, <1>3
<1>5. ASSUME NEW r \in 1..Len(m.rows) PROVE IsRow(m.rows[r], 1) /\ m.rows[r].arm \in Nat /\ m.rows[r].bound = {}
  <2> DEFINE i == InOrder(S)[r]
  <2>1. i \in S /\ m.rows[r].cells = <<arms[i]>> /\ m.rows[r].arm = i /\ m.rows[r].bound = {}
    BY <1>1
  <2> HIDE DEF i
  <2>2. IsPattern(arms[i]) /\ i \in Nat
    BY <2>1, <1>2
  <2>3. IsSeq(m.rows[r].cells) /\ Len(m.rows[r].cells) = 1 /\ m.rows[r].cells[1] = arms[i]
    BY <2>1, <1>3
  <2> QED BY <2>1, <2>2, <2>3 DEF IsRow
<1>6. \A q, r \in 1..Len(m.rows) : q < r => m.rows[q].arm < m.rows[r].arm
  BY <1>1
<1>7. IsMatrix(m)
  BY <1>1, <1>4, <1>5, <1>6 DEF IsMatrix
<1>8. Within(m, {Root})
  BY <1>4, <1>5 DEF Within
<1> QED BY <1>7, <1>8 DEF m

LEMMA RootStands ==
  ASSUME ArmsAre, NEW v, IsValue(v, site), NEW V, V[Root] = v
  PROVE  Stand(Matrix(site, arms), V, v)
<1> DEFINE S == {i \in 1..Len(arms) : Inhabits(arms[i], site)}
           m == Matrix(site, arms)
           n == Len(arms)
<1>1. /\ m.occs = <<Root>> /\ IsSeq(m.rows)
      /\ \A r \in 1..Len(m.rows) :
            /\ InOrder(S)[r] \in S
            /\ m.rows[r].cells = <<arms[InOrder(S)[r]]>> /\ m.rows[r].arm = InOrder(S)[r] /\ m.rows[r].bound = {}
      /\ \A i \in S : \E r \in 1..Len(m.rows) : InOrder(S)[r] = i
  BY RootRows
<1>2. \A i \in 1..n : IsPattern(arms[i]) /\ (Matches(arms[i], v) => i \in S)
  BY MatchingInhabits DEF ArmsAre
<1>3. ArmsFor(v) = {i \in 1..n : Matches(arms[i], v)} /\ S \subseteq 1..n
  BY DEF ArmsFor, ArmsAre, IsSeq
<1> HIDE DEF S, m
<1>4. ASSUME NEW r \in 1..Len(m.rows)
      PROVE  /\ m.rows[r].arm = InOrder(S)[r]
             /\ Fits(m.rows[r], m.occs, V) <=> Matches(arms[InOrder(S)[r]], v)
             /\ Gives(m.rows[r], m.occs, V) = Names(arms[InOrder(S)[r]], v)
  <2> DEFINE p == arms[InOrder(S)[r]]
             x == <<p, Root>>
  <2>1. m.rows[r].cells = <<p>> /\ m.rows[r].arm = InOrder(S)[r] /\ m.rows[r].bound = {}
    BY <1>1
  <2> HIDE DEF p
  <2>2. Columns(<<p>>, <<Root>>) = {x} /\ x[1] = p /\ x[2] = Root
    BY DEF Columns
  <2> HIDE DEF x
  <2>3. Fits(m.rows[r], m.occs, V) <=> Matches(p, v)
    BY <1>1, <2>1, <2>2 DEF Fits
  <2>4. Gives(m.rows[r], m.occs, V) = UNION {Names(y[1], V[y[2]]) : y \in {x}}
    BY <1>1, <2>1, <2>2 DEF Gives
  <2>5. Gives(m.rows[r], m.occs, V) = Names(p, v)
    BY <2>2, <2>4
  <2> QED BY <2>1, <2>3, <2>5 DEF p
<1>5. ASSUME NEW r \in 1..Len(m.rows), Fits(m.rows[r], m.occs, V)
      PROVE  m.rows[r].arm \in ArmsFor(v) /\ Gives(m.rows[r], m.occs, V) = Names(arms[m.rows[r].arm], v)
  <2>1. InOrder(S)[r] \in 1..n
    BY <1>1, <1>3
  <2> QED BY <2>1, <1>3, <1>4, <1>5
<1>6. ASSUME NEW i \in ArmsFor(v) PROVE \E r \in 1..Len(m.rows) : m.rows[r].arm = i /\ Fits(m.rows[r], m.occs, V)
  <2>1. i \in S /\ Matches(arms[i], v)
    BY <1>2, <1>3
  <2>2. PICK r \in 1..Len(m.rows) : InOrder(S)[r] = i
    BY <2>1, <1>1
  <2> QED BY <2>1, <2>2, <1>4
<1>7. Stand(m, V, v)
  BY <1>5, <1>6 DEF Stand
<1> QED BY <1>7 DEF m

-----------------------------------------------------------------------------
\* select_qba_column: some column comes first.
LEMMA LeastOf ==
  ASSUME NEW C, C # {}, NEW g, \A x \in C : g[x] \in Nat
  PROVE  \E x \in C : \A y \in C : g[x] <= g[y]
<1> DEFINE N == {g[x] : x \in C}
<1>1. N \in SUBSET Nat /\ N # {}
  OBVIOUS
<1>2. PICK n \in N : \A k \in N : n <= k
  BY <1>1, LeastNat
<1> QED BY <1>2

Foremost(C, x, e, f, g, h) ==
    \A y \in C : /\ e[x] <= e[y]
                 /\ e[x] = e[y] => f[x] <= f[y]
                 /\ e[x] = e[y] /\ f[x] = f[y] => g[x] <= g[y]
                 /\ e[x] = e[y] /\ f[x] = f[y] /\ g[x] = g[y] => h[x] <= h[y]

LEMMA LeastOfAll ==
  ASSUME NEW C, C # {}, NEW e, NEW f, NEW g, NEW h,
         \A x \in C : e[x] \in Nat /\ f[x] \in Nat /\ g[x] \in Nat /\ h[x] \in Nat
  PROVE  \E x \in C : Foremost(C, x, e, f, g, h)
<1>1. PICK a \in C : \A y \in C : e[a] <= e[y]
  BY LeastOf
<1> DEFINE A == {x \in C : e[x] = e[a]}
<1>2. A # {} /\ \A x \in A : f[x] \in Nat
  OBVIOUS
<1>3. PICK b \in A : \A y \in A : f[b] <= f[y]
  BY <1>2, LeastOf
<1> DEFINE B == {x \in A : f[x] = f[b]}
<1>4. B # {} /\ \A x \in B : g[x] \in Nat
  OBVIOUS
<1>5. PICK c \in B : \A y \in B : g[c] <= g[y]
  BY <1>4, LeastOf
<1> DEFINE D == {x \in B : g[x] = g[c]}
<1>6. D # {} /\ \A x \in D : h[x] \in Nat
  OBVIOUS
<1>7. PICK d \in D : \A y \in D : h[d] <= h[y]
  BY <1>6, LeastOf
<1>8. ASSUME NEW y \in C
      PROVE  /\ e[d] <= e[y]
             /\ e[d] = e[y] => f[d] <= f[y]
             /\ e[d] = e[y] /\ f[d] = f[y] => g[d] <= g[y]
             /\ e[d] = e[y] /\ f[d] = f[y] /\ g[d] = g[y] => h[d] <= h[y]
  BY <1>1, <1>3, <1>5, <1>7
<1> QED BY <1>8 DEF Foremost

LEMMA RangeFinite ==
  ASSUME NEW S, IsFiniteSet(S), NEW f, f = [x \in S |-> f[x]], NEW R, R = {f[x] : x \in S}
  PROVE  IsFiniteSet(R)
<1>1. f \in Surjection(S, R)
  BY DEF Surjection
<1> QED BY <1>1, FS_Surjection

LEMMA ScoreIs ==
  ASSUME NEW m, IsMatrix(m), NEW col, col \in 1..Len(m.occs)
  PROVE  /\ Prefix(m, col) \in Nat /\ Prefix(m, col) <= Len(m.rows)
         /\ Cardinality(HeadSet(m, col)) \in Nat
         /\ NewColumns(m, col) \in Nat
<1> DEFINE n == Len(m.rows)
<1>1. n \in Nat /\ DOMAIN m.rows = 1..n
  BY DEF IsMatrix, IsSeq
<1>2. IsFiniteSet(1..n) /\ Cardinality(1..n) = n
  <2>0. 1 \in Int /\ n \in Int
    BY <1>1
  <2> HIDE DEF n
  <2>1. IsFiniteSet(1..n) /\ Cardinality(1..n) = IF 1 > n THEN 0 ELSE n - 1 + 1
    BY <2>0, FS_Interval
  <2> QED BY <2>1, <1>1
<1>3. Prefix(m, col) \in Nat /\ Prefix(m, col) <= n
  <2> DEFINE S == {r \in 1..n : \A q \in 1..r : HeadAt(m, q, col) # Blank}
  <2>1. S \in SUBSET (1..n)
    OBVIOUS
  <2> HIDE DEF S
  <2>2. IsFiniteSet(S) /\ Cardinality(S) <= Cardinality(1..n)
    BY <2>1, <1>2, FS_Subset
  <2>3. Prefix(m, col) = Cardinality(S)
    BY <1>1 DEF Prefix, S
  <2> QED BY <2>2, <2>3, <1>2, FS_CardinalityType
<1>4. IsFiniteSet(HeadSet(m, col)) /\ Cardinality(HeadSet(m, col)) \in Nat
  <2> DEFINE f == [r \in 1..n |-> HeadAt(m, r, col)]
             S == {f[r] : r \in 1..n}
  <2>1. HeadSet(m, col) \in SUBSET S
    BY <1>1 DEF HeadSet
  <2>a. f = [r \in 1..n |-> f[r]] /\ IsFiniteSet(1..n)
    BY <1>2
  <2> HIDE DEF f
  <2>2. IsFiniteSet(S)
    BY <2>a, RangeFinite
  <2> HIDE DEF S
  <2>3. IsFiniteSet(HeadSet(m, col))
    BY <2>1, <2>2, FS_Subset
  <2> QED BY <2>3, FS_CardinalityType
<1>5. \A c \in HeadSet(m, col) : c \in DOMAIN Fields
  <2>1. ASSUME NEW r \in 1..n PROVE HeadAt(m, r, col) \in DOMAIN Fields \union {Blank}
    BY DEF IsMatrix, IsRow, IsPattern, IsTree, HeadAt, HeadIn
  <2> QED BY <2>1, <1>1 DEF HeadSet
<1>6. \A c \in HeadSet(m, col) : IsFiniteSet({c} \X DOMAIN Fields[c])
  <2> SUFFICES ASSUME NEW c \in HeadSet(m, col) PROVE IsFiniteSet({c} \X DOMAIN Fields[c])
    OBVIOUS
  <2>1. DOMAIN Fields[c] = 1..Len(Fields[c]) /\ Len(Fields[c]) \in Nat
    BY <1>5, TypeAssumption, LenProperties
  <2>2. IsFiniteSet(1..Len(Fields[c]))
    BY <2>1, FS_Interval
  <2>3. IsFiniteSet({c})
    BY FS_Singleton
  <2> QED BY <2>1, <2>2, <2>3, FS_Product
<1>7. NewColumns(m, col) \in Nat
  <2> DEFINE H == HeadSet(m, col)
             f == [c \in H |-> {c} \X DOMAIN Fields[c]]
             S == {f[c] : c \in H}
  <2>1. \A c \in H : IsFiniteSet(f[c])
    BY <1>6
  <2>2. NewColumns(m, col) = Cardinality(UNION S)
    BY DEF NewColumns
  <2>a. f = [c \in H |-> f[c]] /\ IsFiniteSet(H)
    BY <1>4
  <2> HIDE DEF f, H
  <2>3. IsFiniteSet(S)
    BY <2>a, RangeFinite
  <2>4. \A T \in S : IsFiniteSet(T)
    BY <2>1
  <2> HIDE DEF S
  <2>5. IsFiniteSet(UNION S)
    BY <2>3, <2>4, FS_UNION
  <2> QED BY <2>2, <2>5, FS_CardinalityType
<1> QED BY <1>3, <1>4, <1>7

LEMMA SelectedIs ==
  ASSUME NEW m, IsMatrix(m), \A k \in 1..Len(m.occs) : m.occs[k] \in Nat,
         NEW k \in 1..Len(m.occs), HeadSet(m, k) # {}
  PROVE  Selected(m) \in 1..Len(m.occs)
<1> DEFINE C == {col \in DOMAIN m.occs : HeadSet(m, col) # {}}
           n == Len(m.rows)
           e == [col \in C |-> n - Prefix(m, col)]
           f == [col \in C |-> Cardinality(HeadSet(m, col))]
           g == [col \in C |-> NewColumns(m, col)]
           h == [col \in C |-> m.occs[col]]
<1>1. DOMAIN m.occs = 1..Len(m.occs) /\ C \subseteq 1..Len(m.occs) /\ C # {} /\ n \in Nat
  BY DEF IsMatrix, IsSeq
<1>a. ASSUME NEW x \in C
      PROVE  /\ e[x] \in Nat /\ f[x] \in Nat /\ g[x] \in Nat /\ h[x] \in Nat
             /\ -Prefix(m, x) = e[x] - n /\ Cardinality(HeadSet(m, x)) = f[x]
             /\ NewColumns(m, x) = g[x] /\ m.occs[x] = h[x]
  <2>1. x \in 1..Len(m.occs)
    BY <1>1
  <2>2. /\ Prefix(m, x) \in Nat /\ Prefix(m, x) <= n /\ Cardinality(HeadSet(m, x)) \in Nat
        /\ NewColumns(m, x) \in Nat /\ m.occs[x] \in Nat
    BY <2>1, ScoreIs
  <2>3. e[x] = n - Prefix(m, x) /\ f[x] = Cardinality(HeadSet(m, x)) /\ g[x] = NewColumns(m, x) /\ h[x] = m.occs[x]
    OBVIOUS
  <2> HIDE DEF e, f, g, h, n, C
  <2>4. n - Prefix(m, x) \in Nat /\ -Prefix(m, x) = n - Prefix(m, x) - n
    BY <1>1, <2>2
  <2> QED BY <2>2, <2>3, <2>4
<1>2. \A x \in C : e[x] \in Nat /\ f[x] \in Nat /\ g[x] \in Nat /\ h[x] \in Nat
  BY <1>a
<1>4. \A x \in C : /\ -Prefix(m, x) = e[x] - n /\ Cardinality(HeadSet(m, x)) = f[x]
                   /\ NewColumns(m, x) = g[x] /\ m.occs[x] = h[x]
  BY <1>a
<1>5. Selected(m) = CHOOSE x \in C : \A y \in C : ~Precedes(Score(m, y), Score(m, x))
  BY DEF Selected
<1> HIDE DEF C, e, f, g, h
<1>9. PICK x \in C : Foremost(C, x, e, f, g, h)
  BY <1>1, <1>2, LeastOfAll
<1>6. \A y \in C : /\ e[x] <= e[y]
                   /\ e[x] = e[y] => f[x] <= f[y]
                   /\ e[x] = e[y] /\ f[x] = f[y] => g[x] <= g[y]
                   /\ e[x] = e[y] /\ f[x] = f[y] /\ g[x] = g[y] => h[x] <= h[y]
  BY <1>9 DEF Foremost
<1>7. ASSUME NEW y \in C, Precedes(Score(m, y), Score(m, x)) PROVE FALSE
  <2>1. Score(m, y) = <<e[y] - n, f[y], g[y], h[y]>> /\ Score(m, x) = <<e[x] - n, f[x], g[x], h[x]>>
    BY <1>4 DEF Score
  <2>2. PICK i \in 1..4 : /\ Score(m, y)[i] < Score(m, x)[i]
                          /\ \A j \in 1..(i - 1) : Score(m, y)[j] = Score(m, x)[j]
    BY <1>7, <2>1 DEF Precedes
  <2>3. /\ e[y] \in Nat /\ f[y] \in Nat /\ g[y] \in Nat /\ h[y] \in Nat
        /\ e[x] \in Nat /\ f[x] \in Nat /\ g[x] \in Nat /\ h[x] \in Nat
    BY <1>2
  <2>4. /\ Score(m, y)[1] = e[y] - n /\ Score(m, x)[1] = e[x] - n
        /\ Score(m, y)[2] = f[y] /\ Score(m, x)[2] = f[x]
        /\ Score(m, y)[3] = g[y] /\ Score(m, x)[3] = g[x]
        /\ Score(m, y)[4] = h[y] /\ Score(m, x)[4] = h[x]
    BY <2>1
  <2>5. /\ e[x] <= e[y] /\ (e[x] = e[y] => f[x] <= f[y])
        /\ (e[x] = e[y] /\ f[x] = f[y] => g[x] <= g[y])
        /\ (e[x] = e[y] /\ f[x] = f[y] /\ g[x] = g[y] => h[x] <= h[y])
    BY <1>6
  <2>6. e[y] - n = e[x] - n => e[y] = e[x]
    BY <1>1, <2>3
  <2>7. ASSUME i = 1 PROVE FALSE
    <3>1. e[y] - n < e[x] - n
      BY <2>2, <2>4, <2>7
    <3> QED BY <3>1, <2>3, <2>5, <1>1
  <2>8. ASSUME i = 2 PROVE FALSE
    <3>1. f[y] < f[x] /\ e[y] - n = e[x] - n
      BY <2>2, <2>4, <2>8
    <3> QED BY <3>1, <2>3, <2>5, <2>6
  <2>9. ASSUME i = 3 PROVE FALSE
    <3>1. g[y] < g[x] /\ e[y] - n = e[x] - n /\ f[y] = f[x]
      BY <2>2, <2>4, <2>9
    <3> QED BY <3>1, <2>3, <2>5, <2>6
  <2>10. ASSUME i = 4 PROVE FALSE
    <3>1. h[y] < h[x] /\ e[y] - n = e[x] - n /\ f[y] = f[x] /\ g[y] = g[x]
      BY <2>2, <2>4, <2>10
    <3> QED BY <3>1, <2>3, <2>5, <2>6
  <2> QED BY <2>7, <2>8, <2>9, <2>10
<1>8. Selected(m) \in C
  BY <1>5, <1>6, <1>7
<1> QED BY <1>1, <1>8

-----------------------------------------------------------------------------
\* The ledger: occurrences stay what they are, and the fields of an occurrence under
\* a head are all there or not at all.
Complete(L, o, c) == \A i \in DOMAIN Fields[c] : \E k \in Children(L, o, c) : L[k].field = i

Ledgered(L) ==
    /\ IsSeq(L) /\ Len(L) >= 1 /\ L[1].type = site /\ L[1].parent = 0
    /\ \A k \in 2..Len(L) : /\ L[k].parent \in 1..(k - 1) /\ L[k].head \in DOMAIN Fields
                            /\ L[k].field \in DOMAIN Fields[L[k].head]
                            /\ L[k].type = Fields[L[k].head][L[k].field]
                            /\ Complete(L, L[k].parent, L[k].head)

Extends(L, E) ==
    /\ Len(L) <= Len(E) /\ \A k \in 1..Len(L) : E[k] = L[k]
    /\ \A o, c : Complete(L, o, c) => Children(E, o, c) = Children(L, o, c)

Joined(s, t, u) ==
    /\ IsSeq(u) /\ Len(u) = Len(s) + Len(t)
    /\ \A k \in 1..Len(s) : u[k] = s[k]
    /\ \A k \in 1..Len(t) : u[Len(s) + k] = t[k]

LEMMA JoinedIs ==
  ASSUME NEW s, IsSeq(s), NEW t, IsSeq(t)
  PROVE  Joined(s, t, s \o t)
<1> DEFINE T == {s[i] : i \in 1..Len(s)} \union {t[i] : i \in 1..Len(t)}
           u == s \o t
           m == Len(s)
           n == Len(t)
<1>1. s \in Seq(T) /\ t \in Seq(T) /\ m \in Nat /\ n \in Nat
  BY SeqFits DEF IsSeq
<1>2. /\ u \in Seq(T) /\ Len(u) = m + n
      /\ \A i \in 1..m + n : u[i] = IF i <= m THEN s[i] ELSE t[i - m]
  BY <1>1, ConcatProperties
<1> HIDE DEF T, u, m, n
<1>3. IsSeq(u)
  BY <1>2, SeqsAre
<1>4. ASSUME NEW k \in 1..m PROVE u[k] = s[k]
  <2>1. k \in 1..m + n /\ k <= m
    BY <1>1
  <2> QED BY <2>1, <1>2
<1>5. ASSUME NEW k \in 1..n PROVE u[m + k] = t[k]
  <2> DEFINE j == m + k
  <2>1. j \in 1..m + n /\ ~(j <= m) /\ j - m = k
    BY <1>1
  <2> HIDE DEF j
  <2>2. u[j] = t[j - m]
    BY <2>1, <1>2
  <2> QED BY <2>1, <2>2 DEF j
<1> QED BY <1>2, <1>3, <1>4, <1>5 DEF Joined, u, m, n

LEMMA ExtendedIs ==
  ASSUME NEW L, Ledgered(L), NEW o \in 1..Len(L), NEW c \in DOMAIN Fields
  PROVE  /\ Ledgered(Extended(L, o, c)) /\ Extends(L, Extended(L, o, c))
         /\ Complete(Extended(L, o, c), o, c)
<1> DEFINE E == Extended(L, o, c)
<1>1. CASE Children(L, o, c) # {}
  <2>1. E = L
    BY <1>1 DEF Extended
  <2> HIDE DEF E
  <2>2. Extends(L, L)
    BY DEF Extends, Ledgered, IsSeq
  <2>3. PICK k \in DOMAIN L : L[k].parent = o /\ L[k].head = c
    BY <1>1 DEF Children
  <2>4. DOMAIN L = 1..Len(L) /\ L[1].parent = 0 /\ Len(L) \in Nat /\ o # 0
    BY DEF Ledgered, IsSeq
  <2>5. k \in 2..Len(L)
    BY <2>3, <2>4
  <2>6. Complete(L, o, c)
    BY <2>3, <2>5 DEF Ledgered
  <2>7. Ledgered(E) /\ Extends(L, E) /\ Complete(E, o, c)
    BY <2>1, <2>2, <2>6
  <2> QED BY <2>7 DEF E
<1>2. CASE Children(L, o, c) = {}
  <2> DEFINE n == Len(Fields[c])
             l == Len(L)
             new == [i \in DOMAIN Fields[c] |-> [parent |-> o, head |-> c, field |-> i, type |-> Fields[c][i]]]
  <2>1. DOMAIN Fields[c] = 1..n /\ n \in Nat
    BY TypeAssumption, LenProperties
  <2>2. E = L \o new
    BY <1>2 DEF Extended
  <2>3. IsSeq(new) /\ Len(new) = n
    <3>1. DOMAIN new = 1..n /\ new = [i \in DOMAIN new |-> new[i]]
      BY <2>1
    <3> HIDE DEF new, n
    <3> QED BY <3>1, <2>1, SeqIs
  <2>4. \A i \in 1..n : /\ new[i].parent = o /\ new[i].head = c /\ new[i].field = i
                        /\ new[i].type = Fields[c][i]
    BY <2>1
  <2> HIDE DEF E, new, n
  <2>5. IsSeq(L) /\ l \in Nat /\ l >= 1 /\ DOMAIN L = 1..l
    BY DEF Ledgered, IsSeq
  <2>6. Joined(L, new, E)
    BY <2>2, <2>3, <2>5, JoinedIs, Zenon
  <2>7. /\ IsSeq(E) /\ Len(E) = l + n /\ DOMAIN E = 1..(l + n)
        /\ \A k \in 1..l : E[k] = L[k]
        /\ \A k \in 1..n : E[l + k] = new[k]
    BY <2>3, <2>6 DEF Joined, IsSeq
  <2> HIDE DEF l
  <2>8. \A k \in (l + 1)..(l + n) : /\ E[k].parent = o /\ E[k].head = c /\ E[k].field = k - l
                                    /\ E[k].type = Fields[c][k - l] /\ k - l \in 1..n
    <3> SUFFICES ASSUME NEW k \in (l + 1)..(l + n)
                 PROVE  /\ E[k].parent = o /\ E[k].head = c /\ E[k].field = k - l
                        /\ E[k].type = Fields[c][k - l] /\ k - l \in 1..n
      OBVIOUS
    <3> DEFINE i == k - l
    <3>1. i \in 1..n /\ l + i = k
      BY <2>1, <2>5
    <3> HIDE DEF i
    <3>2. E[k] = new[i]
      BY <3>1, <2>7
    <3>3. E[k].parent = o /\ E[k].head = c /\ E[k].field = i /\ E[k].type = Fields[c][i]
      BY <3>1, <3>2, <2>4
    <3> QED BY <3>1, <3>3 DEF i
  <2>9. Complete(E, o, c)
    <3> SUFFICES ASSUME NEW i \in 1..n PROVE \E k \in Children(E, o, c) : E[k].field = i
      BY <2>1 DEF Complete
    <3>1. l + i \in DOMAIN E /\ E[l + i] = new[i]
      BY <2>1, <2>5, <2>7
    <3>2. E[l + i].parent = o /\ E[l + i].head = c /\ E[l + i].field = i
      BY <3>1, <2>4
    <3> QED BY <3>1, <3>2 DEF Children
  <2>10. ASSUME NEW p, NEW d, Complete(L, p, d) PROVE Children(E, p, d) = Children(L, p, d)
    <3>1. CASE p = o /\ d = c
      <4>1. \A i \in 1..n : FALSE
        BY <3>1, <2>10, <1>2, <2>1 DEF Complete
      <4>2. l + n = l
        BY <4>1, <2>1, <2>5
      <4>3. \A k \in 1..l : E[k] = L[k]
        BY <2>7
      <4> QED BY <4>2, <4>3, <2>5, <2>7 DEF Children
    <3>2. CASE ~(p = o /\ d = c)
      <4>1. ASSUME NEW k \in 1..(l + n), E[k].parent = p, E[k].head = d PROVE k \in 1..l
        <5>1. k \notin (l + 1)..(l + n)
          BY <4>1, <3>2, <2>8
        <5> QED BY <5>1, <2>1, <2>5
      <4>2. \A k \in 1..l : k \in 1..(l + n) /\ E[k] = L[k]
        BY <2>1, <2>5, <2>7
      <4> QED BY <4>1, <4>2, <2>5, <2>7 DEF Children
    <3> QED BY <3>1, <3>2
  <2>11. Extends(L, E)
    <3>1. l <= l + n
      BY <2>1, <2>5
    <3> QED BY <3>1, <2>7, <2>10 DEF Extends, l
  <2>12. ASSUME NEW k \in 2..(l + n)
         PROVE  /\ E[k].parent \in 1..(k - 1) /\ E[k].head \in DOMAIN Fields
                /\ E[k].field \in DOMAIN Fields[E[k].head]
                /\ E[k].type = Fields[E[k].head][E[k].field]
                /\ Complete(E, E[k].parent, E[k].head)
    <3>1. CASE k \in 2..l
      <4>1. E[k] = L[k]
        BY <3>1, <2>5, <2>7
      <4>2. /\ L[k].parent \in 1..(k - 1) /\ L[k].head \in DOMAIN Fields
            /\ L[k].field \in DOMAIN Fields[L[k].head]
            /\ L[k].type = Fields[L[k].head][L[k].field]
            /\ Complete(L, L[k].parent, L[k].head)
        BY <3>1 DEF Ledgered, l
      <4>3. Children(E, L[k].parent, L[k].head) = Children(L, L[k].parent, L[k].head)
        BY <4>2, <2>10
      <4>4. Complete(E, L[k].parent, L[k].head)
        <5> DEFINE S == Children(L, L[k].parent, L[k].head)
        <5>1. \A j \in S : E[j] = L[j]
          BY <2>5, <2>7 DEF Children
        <5> HIDE DEF S
        <5> QED BY <5>1, <4>2, <4>3 DEF Complete, S
      <4> QED BY <4>1, <4>2, <4>4
    <3>2. CASE k \in (l + 1)..(l + n)
      <4>1. /\ E[k].parent = o /\ E[k].head = c /\ E[k].field = k - l
            /\ E[k].type = Fields[c][k - l] /\ k - l \in 1..n
        BY <3>2, <2>8
      <4>2. o \in 1..(k - 1)
        BY <3>2, <2>1, <2>5 DEF l
      <4> QED BY <4>1, <4>2, <2>1, <2>9
    <3> QED BY <3>1, <3>2, <2>1, <2>5
  <2>13. Ledgered(E)
    <3>1. E[1] = L[1] /\ l + n >= 1
      BY <2>1, <2>5, <2>7
    <3>2. E[1].type = site /\ E[1].parent = 0
      BY <3>1 DEF Ledgered
    <3> QED BY <3>1, <3>2, <2>7, <2>12 DEF Ledgered
  <2> QED BY <2>9, <2>11, <2>13 DEF E
<1> QED BY <1>1, <1>2

-----------------------------------------------------------------------------
\* Decisions N with the ledger L: what one looks at and has edges for, and what a
\* matrix mentions, all that may be demanded before it.
OccOf(d)     == d.matrix.occs[d.col]
KeysAt(d, L) == Keys(d.matrix, d.col, L[OccOf(d)].type)

Mentions(m) == {m.occs[k] : k \in 1..Len(m.occs)} \union UNION {{x[2] : x \in m.rows[r].bound} : r \in 1..Len(m.rows)}

IsNode(d) ==
    /\ d = [kind |-> d.kind, matrix |-> d.matrix, col |-> d.col, to |-> d.to, else |-> d.else, free |-> d.free]
    /\ d.kind \in {"fail", "leaf", "open", "test"}
    /\ IsMatrix(d.matrix)
    /\ d.free \subseteq Mentions(d.matrix)
    /\ d.kind \in {"fail", "leaf"} => d.to = <<>> /\ d.else = <<>>
    /\ d.kind = "fail" => d.matrix.rows = <<>>
    /\ d.kind = "leaf" => Len(d.matrix.rows) >= 1 /\ \A k \in 1..Len(d.matrix.occs) : HeadAt(d.matrix, 1, k) = Blank

\* Its edges lead to the decisions of the matrices that specialize and default_matrix make.
Edged(L, N, d) ==
    /\ d.col \in 1..Len(d.matrix.occs)
    /\ IsSeq(d.to) /\ Len(d.to) <= Len(KeysAt(d, L))
    /\ \A i \in 1..Len(d.to) : /\ d.to[i][1] = KeysAt(d, L)[i] /\ Complete(L, OccOf(d), d.to[i][1])
                               /\ d.to[i][2] \in 1..Len(N)
                               /\ N[d.to[i][2]].matrix = Specialize(d.matrix, d.col, d.to[i][1], L)
    /\ \A k \in Range(d.else) : k \in 1..Len(N) /\ N[k].matrix = Default(d.matrix, d.col)

Decided(L, N, d) ==
    /\ Len(d.to) = Len(KeysAt(d, L))
    /\ NeedsDefault(d.matrix, d.col, L[OccOf(d)].type) => d.else # <<>>
    /\ OccOf(d) \in d.free
    /\ \A i \in 1..Len(d.to) : /\ N[d.to[i][2]].kind # "open"
                               /\ N[d.to[i][2]].free \subseteq d.free \union Children(L, OccOf(d), d.to[i][1])
    /\ \A k \in Range(d.else) : N[k].kind # "open" /\ N[k].free \subseteq d.free

\* What an open decision leads to is decided, or was come to after it.
Ahead(N, n, d) ==
    /\ \A i \in 1..Len(d.to) : d.to[i][2] > n \/ N[d.to[i][2]].kind # "open"
    /\ \A k \in Range(d.else) : k > n \/ N[k].kind # "open"

NodeOK(L, N, n) ==
    /\ IsNode(N[n]) /\ Mentions(N[n].matrix) \subseteq 1..Len(L)
    /\ N[n].kind \in {"open", "test"} => Edged(L, N, N[n])
    /\ N[n].kind = "test" => Decided(L, N, N[n])
    /\ N[n].kind = "open" => Ahead(N, n, N[n])

\* The code has come to a decision that stands for what the case has to do with its
\* value, and has the parts of the value it mentions.
Walk ==
    /\ point \in 1..Len(nodes)
    /\ Root \in DOMAIN parts /\ DOMAIN parts \subseteq 1..Len(ledger) /\ parts[Root] \in Values[site]
    /\ \A k \in DOMAIN parts : /\ IsValue(parts[k], ledger[k].type)
                               /\ k # Root => /\ ledger[k].parent \in DOMAIN parts
                                              /\ parts[k] = Under(parts[ledger[k].parent], <<ledger[k].field>>)
    /\ Mentions(nodes[point].matrix) \subseteq DOMAIN parts
    /\ Stand(nodes[point].matrix, parts, parts[Root])
    /\ nodes[point].free \subseteq stored /\ stored \subseteq DOMAIN parts

MatchInv ==
    /\ site \in DOMAIN Arms /\ IsSeq(arms) /\ \A i \in 1..Len(arms) : arms[i] \in Arms[site]
    /\ Len(arms) <= MaxArms /\ IsSeq(nodes)
    /\ nodes = <<>> => ledger = <<>>
    /\ nodes # <<>> =>
          /\ Ledgered(ledger) /\ \A n \in 1..Len(nodes) : NodeOK(ledger, nodes, n)
          /\ nodes[1].matrix = Matrix(site, arms)
          /\ nodes[1].kind # "open" => \A n \in 1..Len(nodes) : nodes[n].kind # "open"
    /\ point # 0 => nodes # <<>> /\ nodes[1].kind # "open" /\ Walk
    /\ point = 0 => parts = <<>> /\ stored = {}

-----------------------------------------------------------------------------
\* The keys of a test.
LEMMA HeadsAre ==
  ASSUME NEW m, IsMatrix(m), NEW col, col \in 1..Len(m.occs)
  PROVE  /\ IsSeq(Heads(m, col)) /\ \A i \in 1..Len(Heads(m, col)) : Heads(m, col)[i] \in HeadSet(m, col)
         /\ \A h \in HeadSet(m, col) : \E i \in 1..Len(Heads(m, col)) : Heads(m, col)[i] = h
<1> DEFINE n == Len(m.rows)
           f == [r \in 1..n |-> HeadAt(m, r, col)]
           S == {r \in 1..n : f[r] # Blank /\ \A q \in 1..(r - 1) : f[q] # f[r]}
           P == Picked(f, S)
<1>1. n \in Nat /\ DOMAIN m.rows = 1..n
  BY DEF IsMatrix, IsSeq
<1>2. Heads(m, col) = P
  BY <1>1 DEF Heads
<1>3. HeadSet(m, col) = {f[r] : r \in 1..n} \ {Blank}
  BY <1>1 DEF HeadSet
<1> HIDE DEF n, f
<1>4. S \in SUBSET (1..n)
  OBVIOUS
<1>5. ASSUME NEW h \in HeadSet(m, col) PROVE \E r \in S : f[r] = h
  <2> DEFINE T == {r \in 1..n : f[r] = h}
  <2>1. T \in SUBSET Nat /\ T # {} /\ h # Blank
    BY <1>3
  <2>2. PICK r \in T : \A q \in T : r <= q
    BY <2>1, LeastNat
  <2>3. ASSUME NEW q \in 1..(r - 1) PROVE f[q] # f[r]
    <3>1. q \in 1..n /\ ~(r <= q)
      BY <1>1, <2>2
    <3> QED BY <3>1, <2>2
  <2> QED BY <2>1, <2>2, <2>3
<1>6. \A r \in S : f[r] \in HeadSet(m, col)
  BY <1>3
<1> HIDE DEF S
<1>7. IsPicked(f, S, P)
  BY <1>1, <1>4, PickedIs, Zenon
<1> HIDE DEF P
<1> QED BY <1>2, <1>5, <1>6, <1>7 DEF IsPicked

LEMMA HeadsTyped ==
  ASSUME NEW m, IsMatrix(m), NEW col, col \in 1..Len(m.occs)
  PROVE  \A c \in HeadSet(m, col) : c \in DOMAIN Fields
<1>1. DOMAIN m.rows = 1..Len(m.rows)
  BY DEF IsMatrix, IsSeq
<1>2. ASSUME NEW r \in 1..Len(m.rows) PROVE HeadAt(m, r, col) \in DOMAIN Fields \union {Blank}
  BY DEF IsMatrix, IsRow, IsPattern, IsTree, HeadAt, HeadIn
<1> QED BY <1>1, <1>2 DEF HeadSet

Type(t) == t \in DOMAIN Signature \union DOMAIN Literals

Covers(m, col, t, keys) ==
    /\ IsSeq(keys) /\ \A i \in 1..Len(keys) : keys[i] \in DOMAIN Fields
    /\ \A h : HeadOf(h, t) /\ h \in HeadSet(m, col) => \E i \in 1..Len(keys) : keys[i] = h
    /\ \A h : ~NeedsDefault(m, col, t) /\ HeadOf(h, t) => \E i \in 1..Len(keys) : keys[i] = h
    /\ ~NeedsDefault(m, col, t) => IsClosed(t)

LEMMA KeysCover ==
  ASSUME NEW m, IsMatrix(m), NEW col, col \in 1..Len(m.occs), NEW t, Type(t)
  PROVE  Covers(m, col, t, Keys(m, col, t))
<1>1. ASSUME IsClosed(t)
      PROVE  /\ Signature[t] \in Seq(DOMAIN Fields) /\ DOMAIN Signature[t] = 1..Len(Signature[t])
             /\ Len(Signature[t]) \in Nat /\ IsSeq(Signature[t])
             /\ \A i \in 1..Len(Signature[t]) : Signature[t][i] \in DOMAIN Fields
             /\ \A h : HeadOf(h, t) <=> \E i \in 1..Len(Signature[t]) : Signature[t][i] = h
  <2>1. Signature[t] \in Seq(DOMAIN Fields)
    BY <1>1, TypeAssumption DEF IsClosed
  <2>2. IsSeq(Signature[t]) /\ DOMAIN Signature[t] = 1..Len(Signature[t])
        /\ \A i \in 1..Len(Signature[t]) : Signature[t][i] \in DOMAIN Fields
    BY <2>1, SeqsAre
  <2>3. t \in DOMAIN Signature /\ t \notin DOMAIN Literals
    BY <1>1, TypeAssumption DEF IsClosed
  <2>4. \A h : HeadOf(h, t) <=> \E i \in 1..Len(Signature[t]) : Signature[t][i] = h
    BY <2>2, <2>3 DEF HeadOf, Range
  <2> QED BY <2>1, <2>2, <2>4 DEF IsSeq
<1>2. CASE IsSingle(t)
  <2>1. IsClosed(t) /\ Keys(m, col, t) = Signature[t]
    BY <1>2 DEF Keys, IsSingle
  <2> QED BY <2>1, <1>1 DEF Covers
<1>3. CASE IsClosed(t) /\ ~IsSingle(t)
  <2> DEFINE s == Signature[t]
             S == {i \in 1..Len(s) : s[i] \in HeadSet(m, col)}
             P == Picked(s, S)
  <2>1. Keys(m, col, t) = P
    BY <1>1, <1>3 DEF Keys
  <2>2. Len(s) \in Nat /\ S \in SUBSET (1..Len(s))
    BY <1>1, <1>3
  <2> HIDE DEF P
  <2>3. IsPicked(s, S, P)
    BY <2>2, PickedIs, Zenon DEF P
  <2>4. /\ \A i \in 1..Len(s) : s[i] \in DOMAIN Fields
        /\ \A h : HeadOf(h, t) <=> \E i \in 1..Len(s) : s[i] = h
    BY <1>1, <1>3
  <2>5. ~NeedsDefault(m, col, t) => HeadSet(m, col) = {s[i] : i \in 1..Len(s)}
    BY <1>1, <1>3 DEF NeedsDefault, Range
  <2> HIDE DEF s
  <2>6. IsSeq(P) /\ \A i \in 1..Len(P) : P[i] \in DOMAIN Fields
    BY <2>3, <2>4 DEF IsPicked
  <2>7. ASSUME NEW h, HeadOf(h, t), h \in HeadSet(m, col) PROVE \E i \in 1..Len(P) : P[i] = h
    <3>1. PICK i \in S : s[i] = h
      BY <2>4, <2>7
    <3>2. PICK k \in 1..Len(P) : InOrder(S)[k] = i
      BY <2>3 DEF IsPicked
    <3>3. P[k] = s[i]
      BY <2>3, <3>2 DEF IsPicked
    <3> QED BY <3>1, <3>3
  <2>8. ASSUME NEW h, ~NeedsDefault(m, col, t), HeadOf(h, t) PROVE h \in HeadSet(m, col)
    BY <2>4, <2>5, <2>8
  <2> QED BY <1>3, <2>1, <2>6, <2>7, <2>8 DEF Covers
<1>4. CASE ~IsClosed(t)
  <2>1. Keys(m, col, t) = Heads(m, col) /\ NeedsDefault(m, col, t)
    BY <1>4 DEF Keys, NeedsDefault, IsSingle
  <2>2. /\ IsSeq(Heads(m, col)) /\ \A i \in 1..Len(Heads(m, col)) : Heads(m, col)[i] \in HeadSet(m, col)
        /\ \A h \in HeadSet(m, col) : \E i \in 1..Len(Heads(m, col)) : Heads(m, col)[i] = h
    BY HeadsAre
  <2> QED BY <2>1, <2>2, HeadsTyped DEF Covers
<1> QED BY <1>2, <1>3, <1>4

LEMMA TypesAre ==
  ASSUME NEW L, Ledgered(L), site \in DOMAIN Arms, NEW o \in 1..Len(L)
  PROVE  Type(L[o].type)
<1>1. CASE o = 1
  BY <1>1, ArmAssumption DEF Ledgered, Type
<1>2. CASE o # 1
  <2>1. o \in 2..Len(L)
    BY <1>2 DEF Ledgered, IsSeq
  <2>2. /\ L[o].head \in DOMAIN Fields /\ L[o].field \in DOMAIN Fields[L[o].head]
        /\ L[o].type = Fields[L[o].head][L[o].field]
    BY <2>1 DEF Ledgered
  <2>3. Fields[L[o].head] \in Seq(DOMAIN Signature \union DOMAIN Literals)
    BY <2>2, TypeAssumption
  <2> QED BY <2>2, <2>3, SeqsAre DEF Type
<1> QED BY <1>1, <1>2

-----------------------------------------------------------------------------
\* What the matrices that are made mention.
LEMMA FieldsIn ==
  ASSUME NEW L, NEW o, NEW c \in DOMAIN Fields, Complete(L, o, c), NEW i \in DOMAIN Fields[c]
  PROVE  FieldsOf(L, o, c)[i] \in Children(L, o, c) /\ L[FieldsOf(L, o, c)[i]].field = i
<1>1. FieldsOf(L, o, c)[i] = CHOOSE k \in Children(L, o, c) : L[k].field = i
  BY DEF FieldsOf
<1>2. \E k \in Children(L, o, c) : L[k].field = i
  BY DEF Complete
<1> QED BY <1>1, <1>2

LEMMA MentionsWithin ==
  ASSUME NEW m, NEW D
  PROVE  Within(m, D) <=> Mentions(m) \subseteq D
BY DEF Within, Mentions

LEMMA SpecializeMentions ==
  ASSUME NEW m, IsMatrix(m), NEW col, col \in 1..Len(m.occs), NEW c \in DOMAIN Fields, NEW L,
         Complete(L, m.occs[col], c)
  PROVE  Mentions(Specialize(m, col, c, L)) \subseteq Mentions(m) \union Children(L, m.occs[col], c)
<1> DEFINE D == Mentions(m) \union Children(L, m.occs[col], c)
<1>1. \A i \in DOMAIN Fields[c] : FieldsOf(L, m.occs[col], c)[i] \in D
  BY FieldsIn
<1>2. Mentions(m) \subseteq D
  OBVIOUS
<1> HIDE DEF D
<1>3. Within(m, D)
  BY <1>2, MentionsWithin
<1>4. Within(Specialize(m, col, c, L), D)
  BY <1>1, <1>3, SpecializeWithin
<1> QED BY <1>4, MentionsWithin DEF D

LEMMA DefaultMentions ==
  ASSUME NEW m, IsMatrix(m), NEW col, col \in 1..Len(m.occs)
  PROVE  Mentions(Default(m, col)) \subseteq Mentions(m)
<1>1. Within(m, Mentions(m))
  BY MentionsWithin
<1>2. Within(Default(m, col), Mentions(m))
  BY <1>1, DefaultWithin
<1> QED BY <1>2, MentionsWithin

-----------------------------------------------------------------------------
\* A ledger that grows leaves the matrices what they are.
LEMMA ChosenSame ==
  ASSUME NEW S, NEW E, NEW L, \A k \in S : E[k] = L[k], NEW i
  PROVE  (CHOOSE k \in S : E[k].field = i) = (CHOOSE k \in S : L[k].field = i)
<1>1. \A k : (k \in S /\ E[k].field = i) <=> (k \in S /\ L[k].field = i)
  OBVIOUS
<1> QED BY <1>1

LEMMA SpecializeSame ==
  ASSUME NEW L, Ledgered(L), NEW E, Extends(L, E), NEW m, NEW col, NEW c, Complete(L, m.occs[col], c)
  PROVE  /\ Specialize(m, col, c, E) = Specialize(m, col, c, L)
         /\ Complete(E, m.occs[col], c)
         /\ Children(E, m.occs[col], c) = Children(L, m.occs[col], c)
<1> DEFINE o == m.occs[col]
           S == Children(L, o, c)
<1>1. Children(E, o, c) = S
  BY DEF Extends
<1>2. \A k \in S : k \in 1..Len(L) /\ E[k] = L[k]
  BY DEF Extends, Ledgered, IsSeq, Children
<1> HIDE DEF S
<1>3. Complete(E, o, c)
  BY <1>1, <1>2 DEF Complete, S
<1>4. ASSUME NEW i \in DOMAIN Fields[c]
      PROVE  (CHOOSE k \in Children(E, o, c) : E[k].field = i) = (CHOOSE k \in Children(L, o, c) : L[k].field = i)
  BY <1>1, <1>2, ChosenSame DEF S
<1>5. FieldsOf(E, o, c) = FieldsOf(L, o, c)
  BY <1>4 DEF FieldsOf
<1> QED BY <1>1, <1>3, <1>5 DEF Specialize, S

Grows(N, M) ==
    /\ Len(N) \in Nat /\ Len(M) \in Nat /\ Len(N) <= Len(M)
    /\ \A k \in 1..Len(N) : M[k].matrix = N[k].matrix /\ (N[k].kind # "open" => M[k] = N[k])

LEMMA EdgesKeep ==
  ASSUME NEW L, Ledgered(L), NEW E, Ledgered(E), Extends(L, E), NEW N, NEW M, Grows(N, M),
         NEW d, Mentions(d.matrix) \subseteq 1..Len(L), Edged(L, N, d)
  PROVE  /\ Edged(E, M, d) /\ E[OccOf(d)] = L[OccOf(d)] /\ KeysAt(d, E) = KeysAt(d, L)
         /\ Decided(L, N, d) => Decided(E, M, d)
         /\ \A n : Ahead(N, n, d) => Ahead(M, n, d)
<1> DEFINE o == OccOf(d)
<1>3. ASSUME NEW k \in 1..Len(N)
      PROVE  k \in 1..Len(M) /\ M[k].matrix = N[k].matrix /\ (N[k].kind # "open" => M[k] = N[k])
  BY DEF Grows
<1>4. E[o] = L[o] /\ KeysAt(d, E) = KeysAt(d, L)
  <2>1. o \in Mentions(d.matrix)
    BY DEF Edged, Mentions, OccOf
  <2>2. o \in 1..Len(L)
    BY <2>1
  <2>3. E[o] = L[o]
    BY <2>2 DEF Extends
  <2> QED BY <2>3 DEF KeysAt
<1>5. ASSUME NEW i \in 1..Len(d.to)
      PROVE  /\ Specialize(d.matrix, d.col, d.to[i][1], E) = Specialize(d.matrix, d.col, d.to[i][1], L)
             /\ Complete(E, o, d.to[i][1])
             /\ Children(E, o, d.to[i][1]) = Children(L, o, d.to[i][1])
  <2>1. Complete(L, d.matrix.occs[d.col], d.to[i][1])
    BY DEF Edged, OccOf
  <2> DEFINE m == d.matrix
             col == d.col
             c == d.to[i][1]
  <2>2. Complete(L, m.occs[col], c)
    BY <2>1
  <2> HIDE DEF m, col, c
  <2>3. /\ Specialize(m, col, c, E) = Specialize(m, col, c, L)
        /\ Complete(E, m.occs[col], c)
        /\ Children(E, m.occs[col], c) = Children(L, m.occs[col], c)
    BY <2>2, SpecializeSame
  <2> QED BY <2>3 DEF m, col, c, OccOf
<1>6. Edged(E, M, d)
  <2>1. ASSUME NEW i \in 1..Len(d.to)
        PROVE  /\ d.to[i][1] = KeysAt(d, E)[i] /\ Complete(E, o, d.to[i][1]) /\ d.to[i][2] \in 1..Len(M)
               /\ M[d.to[i][2]].matrix = Specialize(d.matrix, d.col, d.to[i][1], E)
    <3>1. /\ d.to[i][1] = KeysAt(d, L)[i] /\ d.to[i][2] \in 1..Len(N)
          /\ N[d.to[i][2]].matrix = Specialize(d.matrix, d.col, d.to[i][1], L)
      BY DEF Edged
    <3>2. d.to[i][2] \in 1..Len(M) /\ M[d.to[i][2]].matrix = N[d.to[i][2]].matrix
      BY <3>1, <1>3
    <3> QED BY <3>1, <3>2, <1>4, <1>5
  <2>2. ASSUME NEW k \in Range(d.else) PROVE k \in 1..Len(M) /\ M[k].matrix = Default(d.matrix, d.col)
    <3>1. k \in 1..Len(N) /\ N[k].matrix = Default(d.matrix, d.col)
      BY DEF Edged
    <3> QED BY <3>1, <1>3
  <2>3. d.col \in 1..Len(d.matrix.occs) /\ IsSeq(d.to) /\ Len(d.to) <= Len(KeysAt(d, E))
    BY <1>4 DEF Edged
  <2> QED BY <2>1, <2>2, <2>3 DEF Edged
<1>7. ASSUME Decided(L, N, d) PROVE Decided(E, M, d)
  <2>1. ASSUME NEW i \in 1..Len(d.to)
        PROVE  /\ M[d.to[i][2]].kind # "open"
               /\ M[d.to[i][2]].free \subseteq d.free \union Children(E, o, d.to[i][1])
    <3>1. d.to[i][2] \in 1..Len(N)
      BY DEF Edged
    <3>2. N[d.to[i][2]].kind # "open" /\ N[d.to[i][2]].free \subseteq d.free \union Children(L, o, d.to[i][1])
      BY <1>7 DEF Decided
    <3>3. M[d.to[i][2]] = N[d.to[i][2]]
      BY <3>1, <3>2, <1>3
    <3> QED BY <3>2, <3>3, <1>5
  <2>2. ASSUME NEW k \in Range(d.else) PROVE M[k].kind # "open" /\ M[k].free \subseteq d.free
    <3>1. k \in 1..Len(N)
      BY DEF Edged
    <3>2. N[k].kind # "open" /\ N[k].free \subseteq d.free
      BY <1>7 DEF Decided
    <3>3. M[k] = N[k]
      BY <3>1, <3>2, <1>3
    <3> QED BY <3>2, <3>3
  <2>3. /\ Len(d.to) = Len(KeysAt(d, E)) /\ o \in d.free
        /\ NeedsDefault(d.matrix, d.col, E[o].type) => d.else # <<>>
    BY <1>4, <1>7 DEF Decided
  <2> QED BY <2>1, <2>2, <2>3 DEF Decided
<1>8. ASSUME NEW n, Ahead(N, n, d) PROVE Ahead(M, n, d)
  <2>1. ASSUME NEW i \in 1..Len(d.to) PROVE d.to[i][2] > n \/ M[d.to[i][2]].kind # "open"
    <3>1. d.to[i][2] \in 1..Len(N)
      BY DEF Edged
    <3>2. d.to[i][2] > n \/ N[d.to[i][2]].kind # "open"
      BY <1>8 DEF Ahead
    <3> QED BY <3>1, <3>2, <1>3
  <2>2. ASSUME NEW k \in Range(d.else) PROVE k > n \/ M[k].kind # "open"
    <3>1. k \in 1..Len(N)
      BY DEF Edged
    <3>2. k > n \/ N[k].kind # "open"
      BY <1>8 DEF Ahead
    <3> QED BY <3>1, <3>2, <1>3
  <2> QED BY <2>1, <2>2 DEF Ahead
<1> QED BY <1>4, <1>6, <1>7, <1>8

LEMMA NodeKeeps ==
  ASSUME NEW L, Ledgered(L), NEW E, Ledgered(E), Extends(L, E), NEW N, NEW M, Grows(N, M),
         NEW n \in 1..Len(N), NodeOK(L, N, n), M[n] = N[n]
  PROVE  NodeOK(E, M, n)
<1> DEFINE d == N[n]
<1>1. Len(L) \in Nat /\ Len(E) \in Nat /\ Len(L) <= Len(E)
  BY DEF Ledgered, IsSeq, Extends
<1>2. /\ IsNode(d) /\ Mentions(d.matrix) \subseteq 1..Len(L)
      /\ d.kind \in {"open", "test"} => Edged(L, N, d)
      /\ d.kind = "test" => Decided(L, N, d)
      /\ d.kind = "open" => Ahead(N, n, d)
      /\ M[n] = d
  BY DEF NodeOK
<1> HIDE DEF d
<1>3. Mentions(d.matrix) \subseteq 1..Len(E)
  BY <1>1, <1>2
<1>4. Edged(L, N, d) => /\ Edged(E, M, d)
                        /\ Decided(L, N, d) => Decided(E, M, d)
                        /\ Ahead(N, n, d) => Ahead(M, n, d)
  BY <1>2, EdgesKeep
<1> QED BY <1>2, <1>3, <1>4 DEF NodeOK

LEMMA NoneIs ==
  ASSUME NEW s, IsSeq(s)
  PROVE  s = <<>> <=> Len(s) = 0
<1>1. Len(<<>>) = 0
  BY EmptySeq
<1>2. ASSUME Len(s) = 0 PROVE s = <<>>
  <2>1. s = [i \in 1..0 |-> s[i]]
    BY <1>2 DEF IsSeq
  <2> QED BY <2>1
<1> QED BY <1>1, <1>2

\* The decision compile makes of a matrix.
LEMMA NodeIs ==
  ASSUME NEW L, Ledgered(L), site \in DOMAIN Arms, NEW m, IsMatrix(m), Mentions(m) \subseteq 1..Len(L),
         NEW N, NEW n, N[n] = Node(m)
  PROVE  NodeOK(L, N, n) /\ Node(m).matrix = m
<1> DEFINE d == Node(m)
<1>1. /\ Len(<<>>) = 0 /\ IsSeq(<<>>) /\ Range(<<>>) = {}
  BY EmptySeq DEF IsSeq, Range
<1>2. IsSeq(m.rows) /\ IsSeq(m.occs) /\ DOMAIN m.occs = 1..Len(m.occs) /\ Len(L) \in Nat
  BY DEF IsMatrix, Ledgered, IsSeq
<1>3. ASSUME NEW kind, NEW col, NEW free, d = NodeOf(kind, m, col, free)
      PROVE  /\ d = [kind |-> d.kind, matrix |-> d.matrix, col |-> d.col, to |-> d.to, else |-> d.else, free |-> d.free]
             /\ d.kind = kind /\ d.matrix = m /\ d.col = col /\ d.to = <<>> /\ d.else = <<>> /\ d.free = free
  <2> HIDE DEF d
  <2> QED BY <1>3 DEF NodeOf
<1>4. CASE m.rows = <<>>
  <2>1. d = NodeOf("fail", m, 0, {})
    BY <1>4 DEF Node
  <2>2. IsNode(d) /\ d.kind = "fail" /\ d.matrix = m
    <3>1. /\ d = [kind |-> d.kind, matrix |-> d.matrix, col |-> d.col, to |-> d.to, else |-> d.else, free |-> d.free]
          /\ d.kind = "fail" /\ d.matrix = m /\ d.free = {} /\ d.to = <<>> /\ d.else = <<>>
      BY <2>1, <1>3
    <3> HIDE DEF d
    <3> QED BY <3>1, <1>4 DEF IsNode
  <2> HIDE DEF d
  <2> QED BY <2>2 DEF NodeOK, d
<1>5. CASE m.rows # <<>> /\ \A col \in DOMAIN m.occs : HeadAt(m, 1, col) = Blank
  <2> DEFINE free == {b[2] : b \in LeafBinders(m)}
  <2>1. d = NodeOf("leaf", m, 0, free)
    BY <1>5 DEF Node
  <2>2. Len(m.rows) >= 1
    <3>1. Len(m.rows) # 0 /\ Len(m.rows) \in Nat
      BY <1>2, <1>5, NoneIs DEF IsSeq
    <3> QED BY <3>1
  <2>3. free \subseteq Mentions(m)
    <3>1. ASSUME NEW b \in m.rows[1].bound PROVE b[2] \in Mentions(m)
      <4>1. 1 \in 1..Len(m.rows)
        BY <2>2, <1>2 DEF IsSeq
      <4> QED BY <4>1 DEF Mentions
    <3>2. ASSUME NEW col \in 1..Len(m.occs), NEW b \in Migrated(m, m.rows[1], col) PROVE b[2] \in Mentions(m)
      <4>1. CASE b \in m.rows[1].bound
        BY <4>1, <3>1
      <4>2. CASE b \notin m.rows[1].bound
        <5>1. b[2] = m.occs[col]
          BY <4>2 DEF Migrated
        <5> QED BY <5>1 DEF Mentions
      <4> QED BY <4>1, <4>2
    <3>3. ASSUME NEW b \in LeafBinders(m) PROVE b[2] \in Mentions(m)
      BY <3>1, <3>2, <1>2 DEF LeafBinders
    <3> QED BY <3>3
  <2>4. IsNode(d) /\ d.kind = "leaf" /\ d.matrix = m
    <3>1. /\ d = [kind |-> d.kind, matrix |-> d.matrix, col |-> d.col, to |-> d.to, else |-> d.else, free |-> d.free]
          /\ d.kind = "leaf" /\ d.matrix = m /\ d.free = free /\ d.to = <<>> /\ d.else = <<>>
      BY <2>1, <1>3
    <3> HIDE DEF d, free
    <3> QED BY <3>1, <2>2, <2>3, <1>2, <1>5 DEF IsNode
  <2> HIDE DEF d
  <2> QED BY <2>4 DEF NodeOK, d
<1>6. CASE m.rows # <<>> /\ ~\A col \in DOMAIN m.occs : HeadAt(m, 1, col) = Blank
  <2>1. d = NodeOf("open", m, Selected(m), {})
    BY <1>6 DEF Node
  <2>2. PICK k \in 1..Len(m.occs) : HeadAt(m, 1, k) # Blank
    BY <1>2, <1>6
  <2>3. HeadSet(m, k) # {}
    <3>1. 1 \in DOMAIN m.rows
      <4>1. Len(m.rows) # 0 /\ Len(m.rows) \in Nat
        BY <1>2, <1>6, NoneIs DEF IsSeq
      <4> QED BY <4>1, <1>2 DEF IsSeq
    <3> QED BY <3>1, <2>2 DEF HeadSet
  <2>4. \A j \in 1..Len(m.occs) : m.occs[j] \in 1..Len(L) /\ m.occs[j] \in Nat
    <3> SUFFICES ASSUME NEW j \in 1..Len(m.occs) PROVE m.occs[j] \in 1..Len(L) /\ m.occs[j] \in Nat
      OBVIOUS
    <3>1. m.occs[j] \in Mentions(m)
      BY DEF Mentions
    <3>2. m.occs[j] \in 1..Len(L)
      BY <3>1
    <3> QED BY <3>2, <1>2
  <2>5. Selected(m) \in 1..Len(m.occs)
    BY <2>3, <2>4, SelectedIs
  <2>6. /\ d = [kind |-> d.kind, matrix |-> d.matrix, col |-> d.col, to |-> d.to, else |-> d.else, free |-> d.free]
        /\ d.kind = "open" /\ d.matrix = m /\ d.col = Selected(m) /\ d.to = <<>> /\ d.else = <<>> /\ d.free = {}
    BY <2>1, <1>3
  <2>7. Type(L[m.occs[Selected(m)]].type)
    BY <2>4, <2>5, TypesAre
  <2>8. Covers(m, Selected(m), L[m.occs[Selected(m)]].type, Keys(m, Selected(m), L[m.occs[Selected(m)]].type))
    BY <2>5, <2>7, KeysCover
  <2> HIDE DEF d
  <2>9. IsSeq(KeysAt(d, L))
    BY <2>6, <2>8 DEF Covers, KeysAt, OccOf
  <2>10. Edged(L, N, d)
    BY <2>5, <2>6, <2>9, <1>1 DEF Edged, IsSeq
  <2>11. IsNode(d)
    BY <2>6 DEF IsNode
  <2>12. N[n] = d
    BY DEF d
  <2>13. Ahead(N, n, d)
    BY <2>6, <2>12, <1>1 DEF Ahead
  <2> QED BY <2>6, <2>10, <2>11, <2>12, <2>13 DEF NodeOK, d
<1> QED BY <1>4, <1>5, <1>6

-----------------------------------------------------------------------------
\* A step of the compiler changes one open decision and may add another.
Changed(N, n, d, P) ==
    /\ IsSeq(P) /\ Len(P) = Len(N) /\ P[n] = d
    /\ \A k \in 1..Len(N) : k # n => P[k] = N[k]

RecordOf(kind, m, col, to, else, free) ==
    [kind |-> kind, matrix |-> m, col |-> col, to |-> to, else |-> else, free |-> free]

LEMMA ExceptIs ==
  ASSUME NEW N, IsSeq(N), NEW n \in 1..Len(N), NEW d
  PROVE  Changed(N, n, d, [N EXCEPT ![n] = d])
<1> DEFINE P == [N EXCEPT ![n] = d]
<1>1. Len(N) \in Nat /\ DOMAIN N = 1..Len(N)
  BY DEF IsSeq
<1>2. DOMAIN P = 1..Len(N) /\ P = [k \in DOMAIN P |-> P[k]] /\ P[n] = d /\ \A k \in 1..Len(N) : k # n => P[k] = N[k]
  BY <1>1
<1> HIDE DEF P
<1>3. IsSeq(P) /\ Len(P) = Len(N)
  BY <1>1, <1>2, SeqIs
<1> QED BY <1>2, <1>3 DEF Changed, P

LEMMA EdgeAdded ==
  ASSUME NEW N, IsSeq(N), NEW n \in 1..Len(N), NEW e, IsNode(N[n])
  PROVE  Changed(N, n, RecordOf(N[n].kind, N[n].matrix, N[n].col, Append(N[n].to, e), N[n].else, N[n].free),
                 [N EXCEPT ![n].to = Append(@, e)])
<1> DEFINE d == N[n]
           r == RecordOf(d.kind, d.matrix, d.col, Append(d.to, e), d.else, d.free)
<1>1. [N EXCEPT ![n].to = Append(@, e)] = [N EXCEPT ![n] = [d EXCEPT !.to = Append(d.to, e)]]
  OBVIOUS
<1>2. [d EXCEPT !.to = Append(d.to, e)] = r
  <2> DEFINE t == RecordOf(d.kind, d.matrix, d.col, d.to, d.else, d.free)
  <2>1. d = t
    BY DEF IsNode, RecordOf
  <2> DEFINE z == Append(d.to, e)
  <2>2. r = RecordOf(d.kind, d.matrix, d.col, z, d.else, d.free)
    OBVIOUS
  <2> HIDE DEF d, z
  <2>3. [t EXCEPT !.to = z] = RecordOf(d.kind, d.matrix, d.col, z, d.else, d.free)
    BY DEF RecordOf
  <2> HIDE DEF t, r
  <2>4. [d EXCEPT !.to = z] = r
    BY <2>1, <2>2, <2>3
  <2> QED BY <2>4 DEF z
<1>3. Changed(N, n, r, [N EXCEPT ![n] = r])
  BY ExceptIs
<1> QED BY <1>1, <1>2, <1>3

LEMMA DefaultAdded ==
  ASSUME NEW N, IsSeq(N), NEW n \in 1..Len(N), NEW e, IsNode(N[n])
  PROVE  Changed(N, n, RecordOf(N[n].kind, N[n].matrix, N[n].col, N[n].to, e, N[n].free), [N EXCEPT ![n].else = e])
<1> DEFINE d == N[n]
           r == RecordOf(d.kind, d.matrix, d.col, d.to, e, d.free)
<1>1. [N EXCEPT ![n].else = e] = [N EXCEPT ![n] = [d EXCEPT !.else = e]]
  OBVIOUS
<1>2. [d EXCEPT !.else = e] = r
  BY DEF IsNode, RecordOf
<1>3. Changed(N, n, r, [N EXCEPT ![n] = r])
  BY ExceptIs
<1> QED BY <1>1, <1>2, <1>3

LEMMA TestMade ==
  ASSUME NEW N, IsSeq(N), NEW n \in 1..Len(N), NEW free, IsNode(N[n])
  PROVE  Changed(N, n, RecordOf("test", N[n].matrix, N[n].col, N[n].to, N[n].else, free),
                 [N EXCEPT ![n].kind = "test", ![n].free = free])
<1> DEFINE d == N[n]
           r == RecordOf("test", d.matrix, d.col, d.to, d.else, free)
<1>1. [N EXCEPT ![n].kind = "test", ![n].free = free]
         = [N EXCEPT ![n] = [[d EXCEPT !.kind = "test"] EXCEPT !.free = free]]
  OBVIOUS
<1>2. [[d EXCEPT !.kind = "test"] EXCEPT !.free = free] = r
  <2> DEFINE t == RecordOf("test", d.matrix, d.col, d.to, d.else, d.free)
  <2>1. [d EXCEPT !.kind = "test"] = t
    BY DEF IsNode, RecordOf
  <2>2. [t EXCEPT !.free = free] = r
    BY DEF RecordOf
  <2> HIDE DEF t, r, d
  <2> QED BY <2>1, <2>2
<1>3. Changed(N, n, r, [N EXCEPT ![n] = r])
  BY ExceptIs
<1> QED BY <1>1, <1>2, <1>3

LEMMA NodesGrow ==
  ASSUME NEW L, Ledgered(L), NEW E, Ledgered(E), Extends(L, E), site \in DOMAIN Arms,
         NEW N, IsSeq(N), \A k \in 1..Len(N) : NodeOK(L, N, k),
         NEW n \in 1..Len(N), N[n].kind = "open", NEW d, d.matrix = N[n].matrix,
         NEW P, Changed(N, n, d, P),
         NEW X, IsSeq(X),
         \A i \in 1..Len(X) : \E m : X[i] = Node(m) /\ IsMatrix(m) /\ Mentions(m) \subseteq 1..Len(E)
  PROVE  /\ Joined(P, X, P \o X) /\ Grows(N, P \o X) /\ (P \o X)[n] = d
         /\ NodeOK(E, P \o X, n) => \A k \in 1..Len(P \o X) : NodeOK(E, P \o X, k)
<1> DEFINE M == P \o X
<1>1. IsSeq(P) /\ Len(P) = Len(N) /\ P[n] = d /\ \A k \in 1..Len(N) : k # n => P[k] = N[k]
  BY DEF Changed
<1>2. Joined(P, X, M)
  BY <1>1, JoinedIs
<1> HIDE DEF M
<1>3. /\ IsSeq(M) /\ Len(M) = Len(N) + Len(X) /\ \A k \in 1..Len(N) : M[k] = P[k]
      /\ \A k \in 1..Len(X) : M[Len(N) + k] = X[k]
  BY <1>1, <1>2 DEF Joined
<1>4. Len(N) \in Nat /\ Len(X) \in Nat /\ Len(M) \in Nat
  BY <1>3 DEF IsSeq
<1>5. M[n] = d /\ \A k \in 1..Len(N) : k # n => M[k] = N[k]
  BY <1>1, <1>3
<1>6. Grows(N, M)
  BY <1>3, <1>4, <1>5 DEF Grows
<1>7. ASSUME NodeOK(E, M, n), NEW k \in 1..Len(M) PROVE NodeOK(E, M, k)
  <2>1. CASE k = n
    BY <1>7, <2>1
  <2>2. CASE k \in 1..Len(N) /\ k # n
    <3>1. NodeOK(L, N, k) /\ M[k] = N[k]
      BY <2>2, <1>5
    <3> QED BY <3>1, <2>2, <1>6, NodeKeeps
  <2>3. CASE k \notin 1..Len(N)
    <3> DEFINE i == k - Len(N)
    <3>1. i \in 1..Len(X) /\ Len(N) + i = k
      BY <2>3, <1>3, <1>4
    <3> HIDE DEF i
    <3>2. M[k] = X[i]
      BY <3>1, <1>3
    <3>3. PICK m : X[i] = Node(m) /\ IsMatrix(m) /\ Mentions(m) \subseteq 1..Len(E)
      BY <3>1
    <3> QED BY <3>2, <3>3, NodeIs
  <2> QED BY <2>1, <2>2, <2>3
<1> QED BY <1>2, <1>5, <1>6, <1>7 DEF M

\* The decision of a matrix: one that is there, or the one that is added.
Decides(N, M, m, k) ==
    k \in 1..Len(M) /\ M[k].matrix = m /\ (k > Len(N) \/ M[k].kind # "open")

LEMMA DecisionIs ==
  ASSUME NEW L, Ledgered(L), site \in DOMAIN Arms, IsSeq(nodes), NEW m, IsMatrix(m), Mentions(m) \subseteq 1..Len(L)
  PROVE  /\ IsSeq(Compiled(m))
         /\ \A i \in 1..Len(Compiled(m)) : \E x : Compiled(m)[i] = Node(x) /\ IsMatrix(x) /\ Mentions(x) \subseteq 1..Len(L)
         /\ \A P, M : Joined(P, Compiled(m), M) /\ Grows(nodes, M) /\ Len(P) = Len(nodes) =>
               Decides(nodes, M, m, Decision(m))
<1>1. DOMAIN nodes = 1..Len(nodes) /\ Len(nodes) \in Nat
  BY DEF IsSeq
<1>2. CASE Memo(m) = {}
  <2>1. Compiled(m) = <<Node(m)>> /\ Decision(m) = Len(nodes) + 1
    BY <1>2 DEF Compiled, Decision
  <2>2. IsSeq(<<Node(m)>>) /\ Len(<<Node(m)>>) = 1 /\ <<Node(m)>>[1] = Node(m)
    BY DEF IsSeq
  <2>3. Node(m).matrix = m
    <3> DEFINE N == [k \in {1} |-> Node(m)]
    <3>1. N[1] = Node(m)
      OBVIOUS
    <3> HIDE DEF N
    <3> QED BY <3>1, NodeIs
  <2>4. ASSUME NEW P, NEW M, Joined(P, Compiled(m), M), Grows(nodes, M), Len(P) = Len(nodes)
        PROVE  Decides(nodes, M, m, Decision(m))
    <3>1. Len(M) = Len(nodes) + 1 /\ M[Len(nodes) + 1] = Node(m)
      <4>1. /\ Len(M) = Len(P) + Len(Compiled(m))
            /\ \A k \in 1..Len(Compiled(m)) : M[Len(P) + k] = Compiled(m)[k]
        BY <2>4 DEF Joined
      <4> QED BY <4>1, <2>1, <2>2, <2>4
    <3> QED BY <3>1, <2>1, <2>3, <1>1 DEF Decides
  <2> QED BY <2>1, <2>2, <2>4
<1>3. CASE Memo(m) # {}
  <2>1. Compiled(m) = <<>> /\ Decision(m) \in Memo(m)
    BY <1>3 DEF Compiled, Decision
  <2>2. Decision(m) \in 1..Len(nodes) /\ nodes[Decision(m)].kind # "open" /\ nodes[Decision(m)].matrix = m
    BY <2>1, <1>1 DEF Memo
  <2>3. ASSUME NEW M, Grows(nodes, M) PROVE Decides(nodes, M, m, Decision(m))
    BY <2>2, <2>3 DEF Grows, Decides
  <2>4. IsSeq(<<>>) /\ Len(<<>>) = 0
    BY EmptySeq DEF IsSeq
  <2> QED BY <2>1, <2>3, <2>4
<1> QED BY <1>2, <1>3

-----------------------------------------------------------------------------
\* The steps of the compiler.
LEMMA AppendIs ==
  ASSUME NEW s, IsSeq(s), NEW e
  PROVE  /\ IsSeq(Append(s, e)) /\ Len(Append(s, e)) = Len(s) + 1
         /\ \A i \in 1..Len(s) : Append(s, e)[i] = s[i]
         /\ Append(s, e)[Len(s) + 1] = e
<1> DEFINE T == {s[i] : i \in 1..Len(s)} \union {e}
<1>1. s \in Seq(T) /\ e \in T /\ Len(s) \in Nat
  BY SeqFits DEF IsSeq
<1> HIDE DEF T
<1>2. /\ Append(s, e) \in Seq(T) /\ Len(Append(s, e)) = Len(s) + 1
      /\ \A i \in 1..Len(s) : Append(s, e)[i] = s[i]
      /\ Append(s, e)[Len(s) + 1] = e
  BY <1>1, AppendProperties
<1> QED BY <1>2, SeqsAre

Opened(m, E, d, M) ==
    /\ IsSeq(M) /\ Len(M) >= 1 /\ Grows(nodes, M) /\ M[1].matrix = nodes[1].matrix
    /\ nodes[1].kind = "open" => M[1].kind = "open"
    /\ Decides(nodes, M, m, Decision(m))

LEMMA OpenGrows ==
  ASSUME Ledgered(ledger), NEW E, Ledgered(E), Extends(ledger, E), site \in DOMAIN Arms,
         IsSeq(nodes), \A k \in 1..Len(nodes) : NodeOK(ledger, nodes, k),
         NEW n \in 1..Len(nodes), nodes[n].kind = "open",
         NEW d, d.matrix = nodes[n].matrix, d.kind = "open",
         NEW m, IsMatrix(m), Mentions(m) \subseteq 1..Len(E),
         NEW P, Changed(nodes, n, d, P)
  PROVE  /\ Opened(m, E, d, P \o Compiled(m)) /\ (P \o Compiled(m))[n] = d
         /\ NodeOK(E, P \o Compiled(m), n) =>
               \A k \in 1..Len(P \o Compiled(m)) : NodeOK(E, P \o Compiled(m), k)
<1> DEFINE X == Compiled(m)
           M == P \o X
<1>1. /\ IsSeq(X)
      /\ \A i \in 1..Len(X) : \E x : X[i] = Node(x) /\ IsMatrix(x) /\ Mentions(x) \subseteq 1..Len(E)
      /\ \A Q, R : Joined(Q, X, R) /\ Grows(nodes, R) /\ Len(Q) = Len(nodes) => Decides(nodes, R, m, Decision(m))
  BY DecisionIs
<1> HIDE DEF X
<1>2. /\ Joined(P, X, M) /\ Grows(nodes, M) /\ M[n] = d
      /\ NodeOK(E, M, n) => \A k \in 1..Len(M) : NodeOK(E, M, k)
  BY <1>1, NodesGrow
<1> HIDE DEF M
<1>3. /\ IsSeq(P) /\ Len(P) = Len(nodes) /\ P[n] = d
      /\ \A k \in 1..Len(nodes) : k # n => P[k] = nodes[k]
  BY DEF Changed
<1>4. Decides(nodes, M, m, Decision(m))
  BY <1>1, <1>2, <1>3
<1>5. /\ IsSeq(M) /\ Len(M) >= 1 /\ 1 \in 1..Len(nodes) /\ M[1] = P[1]
  BY <1>2, <1>3 DEF Joined, Grows
<1>6. M[1].matrix = nodes[1].matrix /\ (nodes[1].kind = "open" => M[1].kind = "open")
  <2>1. CASE n = 1
    BY <2>1, <1>3, <1>5
  <2>2. CASE n # 1
    BY <2>2, <1>3, <1>5
  <2> QED BY <2>1, <2>2
<1> QED BY <1>2, <1>4, <1>5, <1>6 DEF Opened, M, X

LEMMA EdgeOK ==
  ASSUME NEW E, NEW M, NEW n, NEW old, IsNode(old), old.kind = "open", Mentions(old.matrix) \subseteq 1..Len(E),
         Edged(E, M, old), Ahead(M, n, old),
         NEW c, Len(old.to) < Len(KeysAt(old, E)), Len(KeysAt(old, E)) \in Nat,
         c = KeysAt(old, E)[Len(old.to) + 1], Complete(E, OccOf(old), c),
         NEW k, k \in 1..Len(M), M[k].matrix = Specialize(old.matrix, old.col, c, E), k > n \/ M[k].kind # "open",
         M[n] = RecordOf(old.kind, old.matrix, old.col, Append(old.to, <<c, k>>), old.else, old.free)
  PROVE  NodeOK(E, M, n)
<1> DEFINE d == M[n]
           to == old.to
           e == <<c, k>>
<1>1. /\ d = [kind |-> d.kind, matrix |-> d.matrix, col |-> d.col, to |-> d.to, else |-> d.else, free |-> d.free]
      /\ d.kind = "open" /\ d.matrix = old.matrix /\ d.col = old.col /\ d.to = Append(to, e)
      /\ d.else = old.else /\ d.free = old.free
  BY DEF RecordOf
<1>2. e[1] = c /\ e[2] = k
  OBVIOUS
<1>3. IsSeq(to) /\ Len(to) \in Nat
  BY DEF Edged, IsSeq
<1> HIDE DEF e, to
<1>4. /\ IsSeq(Append(to, e)) /\ Len(Append(to, e)) = Len(to) + 1
      /\ \A i \in 1..Len(to) : Append(to, e)[i] = to[i]
      /\ Append(to, e)[Len(to) + 1] = e
  BY <1>3, AppendIs
<1>5. OccOf(d) = OccOf(old) /\ KeysAt(d, E) = KeysAt(old, E)
  BY <1>1 DEF OccOf, KeysAt
<1>6. d = M[n]
  OBVIOUS
<1> HIDE DEF d
<1>7. ASSUME NEW i \in 1..Len(d.to)
      PROVE  /\ d.to[i][1] = KeysAt(d, E)[i] /\ Complete(E, OccOf(d), d.to[i][1]) /\ d.to[i][2] \in 1..Len(M)
             /\ M[d.to[i][2]].matrix = Specialize(d.matrix, d.col, d.to[i][1], E)
             /\ d.to[i][2] > n \/ M[d.to[i][2]].kind # "open"
  <2>1. i \in 1..Len(to) \/ i = Len(to) + 1
    BY <1>1, <1>3, <1>4
  <2>2. CASE i \in 1..Len(to)
    <3>1. d.to[i] = to[i]
      BY <2>2, <1>1, <1>4
    <3>2. /\ to[i][1] = KeysAt(old, E)[i] /\ Complete(E, OccOf(old), to[i][1]) /\ to[i][2] \in 1..Len(M)
          /\ M[to[i][2]].matrix = Specialize(old.matrix, old.col, to[i][1], E)
          /\ to[i][2] > n \/ M[to[i][2]].kind # "open"
      BY <2>2 DEF Edged, Ahead, to
    <3> QED BY <3>1, <3>2, <1>1, <1>5
  <2>3. CASE i = Len(to) + 1
    <3>1. d.to[i] = e
      BY <2>3, <1>1, <1>4
    <3>2. c = KeysAt(d, E)[i]
      BY <2>3, <1>5 DEF to
    <3> QED BY <3>1, <3>2, <1>1, <1>2, <1>5
  <2> QED BY <2>1, <2>2, <2>3
<1>8. Edged(E, M, d)
  <2>1. \A j \in Range(d.else) : j \in 1..Len(M) /\ M[j].matrix = Default(d.matrix, d.col)
    BY <1>1 DEF Edged
  <2>2. d.col \in 1..Len(d.matrix.occs)
    BY <1>1 DEF Edged
  <2>3. IsSeq(d.to) /\ Len(d.to) <= Len(KeysAt(d, E))
    BY <1>1, <1>3, <1>4, <1>5 DEF to
  <2> QED BY <1>7, <2>1, <2>2, <2>3 DEF Edged
<1>9. Ahead(M, n, d)
  BY <1>1, <1>7 DEF Ahead
<1>10. IsNode(d) /\ Mentions(d.matrix) \subseteq 1..Len(E)
  BY <1>1 DEF IsNode
<1> QED BY <1>1, <1>6, <1>8, <1>9, <1>10 DEF NodeOK

LEMMA DefaultOK ==
  ASSUME NEW E, NEW M, NEW n, NEW old, IsNode(old), old.kind = "open", Mentions(old.matrix) \subseteq 1..Len(E),
         Edged(E, M, old), Ahead(M, n, old),
         NEW k, k \in 1..Len(M), M[k].matrix = Default(old.matrix, old.col), k > n \/ M[k].kind # "open",
         M[n] = RecordOf(old.kind, old.matrix, old.col, old.to, <<k>>, old.free)
  PROVE  NodeOK(E, M, n)
<1> DEFINE d == M[n]
<1>1. /\ d = [kind |-> d.kind, matrix |-> d.matrix, col |-> d.col, to |-> d.to, else |-> d.else, free |-> d.free]
      /\ d.kind = "open" /\ d.matrix = old.matrix /\ d.col = old.col /\ d.to = old.to
      /\ d.else = <<k>> /\ d.free = old.free
  BY DEF RecordOf
<1>2. Range(<<k>>) = {k}
  BY DEF Range
<1>3. OccOf(d) = OccOf(old) /\ KeysAt(d, E) = KeysAt(old, E) /\ d = M[n]
  BY <1>1 DEF OccOf, KeysAt
<1> HIDE DEF d
<1>4. \A j \in Range(d.else) : /\ j \in 1..Len(M) /\ M[j].matrix = Default(d.matrix, d.col)
                               /\ j > n \/ M[j].kind # "open"
  BY <1>1, <1>2
<1>5. Edged(E, M, d)
  BY <1>1, <1>3, <1>4 DEF Edged
<1>6. Ahead(M, n, d)
  BY <1>1, <1>4 DEF Ahead
<1>7. IsNode(d) /\ Mentions(d.matrix) \subseteq 1..Len(E)
  BY <1>1 DEF IsNode
<1> QED BY <1>1, <1>3, <1>5, <1>6, <1>7 DEF NodeOK

\* What is known of an open decision.
LEMMA OpenIs ==
  ASSUME MatchInv, NEW n \in DOMAIN nodes, nodes[n].kind = "open"
  PROVE  /\ nodes # <<>> /\ n \in 1..Len(nodes) /\ nodes[1].kind = "open" /\ point = 0
         /\ Ledgered(ledger) /\ NodeOK(ledger, nodes, n)
         /\ IsNode(nodes[n]) /\ Mentions(nodes[n].matrix) \subseteq 1..Len(ledger) /\ Edged(ledger, nodes, nodes[n])
         /\ Ahead(nodes, n, nodes[n]) /\ IsMatrix(nodes[n].matrix) /\ nodes[n].col \in 1..Len(nodes[n].matrix.occs)
         /\ Occ(n) \in 1..Len(ledger) /\ OccOf(nodes[n]) = Occ(n)
         /\ KeysOf(n) = KeysAt(nodes[n], ledger)
         /\ Covers(nodes[n].matrix, nodes[n].col, ledger[Occ(n)].type, KeysOf(n))
<1>1. n \in 1..Len(nodes) /\ Len(nodes) \in Nat
  BY DEF MatchInv, IsSeq
<1>2. nodes # <<>>
  <2>1. Len(nodes) # 0
    BY <1>1
  <2> QED BY <2>1, NoneIs DEF MatchInv
<1>3. nodes[1].kind = "open" /\ Ledgered(ledger) /\ NodeOK(ledger, nodes, n)
  BY <1>1, <1>2 DEF MatchInv
<1>4. point = 0
  BY <1>3 DEF MatchInv
<1>5. /\ IsNode(nodes[n]) /\ Mentions(nodes[n].matrix) \subseteq 1..Len(ledger) /\ Edged(ledger, nodes, nodes[n])
      /\ Ahead(nodes, n, nodes[n])
  BY <1>3 DEF NodeOK
<1>6. IsMatrix(nodes[n].matrix) /\ nodes[n].col \in 1..Len(nodes[n].matrix.occs)
  BY <1>5 DEF IsNode, Edged
<1>7. Occ(n) \in Mentions(nodes[n].matrix) /\ OccOf(nodes[n]) = Occ(n) /\ KeysOf(n) = KeysAt(nodes[n], ledger)
  BY <1>6 DEF Mentions, Occ, OccOf, KeysOf, KeysAt
<1>8. Occ(n) \in 1..Len(ledger)
  BY <1>5, <1>7
<1>9. Type(ledger[Occ(n)].type)
  BY <1>3, <1>8, TypesAre DEF MatchInv
<1>10. Covers(nodes[n].matrix, nodes[n].col, ledger[Occ(n)].type, KeysOf(n))
  BY <1>6, <1>9, KeysCover DEF KeysOf
<1> QED BY <1>1, <1>2, <1>3, <1>4, <1>5, <1>6, <1>7, <1>8, <1>10

LEMMA BranchStep ==
  ASSUME MatchInv, NEW n \in DOMAIN nodes, CompileBranch(n)
  PROVE  MatchInv'
<1> DEFINE old == nodes[n]
           c == KeysOf(n)[Len(old.to) + 1]
           E == Extended(ledger, Occ(n), c)
           m == Specialize(old.matrix, old.col, c, E)
           e == <<c, Decision(m)>>
           d == RecordOf(old.kind, old.matrix, old.col, Append(old.to, e), old.else, old.free)
           P == [nodes EXCEPT ![n].to = Append(@, e)]
           M == P \o Compiled(m)
<1>1. nodes[n].kind = "open"
  BY DEF CompileBranch, Current
<1>2. /\ n \in 1..Len(nodes) /\ nodes[1].kind = "open" /\ point = 0 /\ nodes # <<>>
      /\ Ledgered(ledger) /\ IsSeq(nodes) /\ site \in DOMAIN Arms
      /\ IsNode(old) /\ Mentions(old.matrix) \subseteq 1..Len(ledger) /\ Edged(ledger, nodes, old)
      /\ Ahead(nodes, n, old) /\ IsMatrix(old.matrix) /\ old.col \in 1..Len(old.matrix.occs)
      /\ Occ(n) \in 1..Len(ledger) /\ OccOf(old) = Occ(n) /\ KeysOf(n) = KeysAt(old, ledger)
      /\ Covers(old.matrix, old.col, ledger[Occ(n)].type, KeysOf(n))
      /\ \A k \in 1..Len(nodes) : NodeOK(ledger, nodes, k)
  BY <1>1, OpenIs DEF MatchInv
<1>3. /\ Len(old.to) < Len(KeysOf(n)) /\ ledger' = E /\ nodes' = M
      /\ UNCHANGED <<site, arms, point, parts, stored>>
  BY DEF CompileBranch
<1>4. c \in DOMAIN Fields /\ Len(KeysOf(n)) \in Nat
  <2>1. Len(old.to) \in Nat /\ Len(KeysOf(n)) \in Nat
    BY <1>2 DEF Covers, Edged, IsSeq
  <2>2. Len(old.to) + 1 \in 1..Len(KeysOf(n))
    BY <2>1, <1>3
  <2> QED BY <2>1, <2>2, <1>2 DEF Covers
<1>5. Ledgered(E) /\ Extends(ledger, E) /\ Complete(E, Occ(n), c)
  BY <1>2, <1>4, ExtendedIs
<1>6. Occ(n) = old.matrix.occs[old.col]
  BY DEF Occ
<1> HIDE DEF old, E, c
<1>7. Len(ledger) \in Nat /\ Len(E) \in Nat /\ Len(ledger) <= Len(E)
  BY <1>2, <1>5 DEF Ledgered, IsSeq, Extends
<1>8. IsMatrix(m)
  BY <1>2, <1>4, SpecializeIsMatrix
<1>9. Mentions(m) \subseteq 1..Len(E)
  <2>1. Mentions(m) \subseteq Mentions(old.matrix) \union Children(E, Occ(n), c)
    BY <1>2, <1>4, <1>5, <1>6, SpecializeMentions
  <2>2. Children(E, Occ(n), c) \subseteq 1..Len(E)
    BY <1>5 DEF Children, Ledgered, IsSeq
  <2>3. Mentions(old.matrix) \subseteq 1..Len(E)
    BY <1>2, <1>7
  <2> QED BY <2>1, <2>2, <2>3
<1>10. m = Specialize(old.matrix, old.col, c, E)
  OBVIOUS
<1> HIDE DEF m
<1>11. Changed(nodes, n, d, P)
  BY <1>2, EdgeAdded DEF old
<1>12. d.matrix = nodes[n].matrix /\ d.kind = "open"
  BY <1>1 DEF RecordOf, old
<1> HIDE DEF d, P
<1>13. /\ Opened(m, E, d, M) /\ M[n] = d
       /\ NodeOK(E, M, n) => \A k \in 1..Len(M) : NodeOK(E, M, k)
  BY <1>1, <1>2, <1>5, <1>8, <1>9, <1>11, <1>12, OpenGrows
<1> HIDE DEF M
<1>14. Grows(nodes, M) /\ Decides(nodes, M, m, Decision(m)) /\ IsSeq(M) /\ Len(M) >= 1
       /\ M[1].matrix = nodes[1].matrix /\ M[1].kind = "open"
  BY <1>2, <1>13 DEF Opened
<1>15. Edged(E, M, old) /\ KeysAt(old, E) = KeysAt(old, ledger) /\ Ahead(M, n, old)
  BY <1>2, <1>5, <1>14, EdgesKeep
<1>16. NodeOK(E, M, n)
  <2>1. Len(old.to) < Len(KeysAt(old, E)) /\ Len(KeysAt(old, E)) \in Nat /\ c = KeysAt(old, E)[Len(old.to) + 1]
    BY <1>2, <1>3, <1>4, <1>15 DEF c
  <2>2. Mentions(old.matrix) \subseteq 1..Len(E) /\ old.kind = "open" /\ Complete(E, OccOf(old), c)
    BY <1>1, <1>2, <1>5, <1>7 DEF old
  <2>3. /\ Decision(m) \in 1..Len(M) /\ M[Decision(m)].matrix = Specialize(old.matrix, old.col, c, E)
        /\ Decision(m) > n \/ M[Decision(m)].kind # "open"
    <3>1. n <= Len(nodes) /\ n \in Nat /\ Len(nodes) \in Nat /\ Len(M) \in Nat
      BY <1>2, <1>14 DEF IsSeq
    <3> QED BY <3>1, <1>10, <1>14 DEF Decides
  <2>4. M[n] = RecordOf(old.kind, old.matrix, old.col, Append(old.to, <<c, Decision(m)>>), old.else, old.free)
    BY <1>13 DEF d
  <2> QED BY <2>1, <2>2, <2>3, <2>4, <1>2, <1>15, EdgeOK
<1>17. \A k \in 1..Len(M) : NodeOK(E, M, k)
  BY <1>13, <1>16
<1> QED BY <1>2, <1>3, <1>5, <1>14, <1>17 DEF MatchInv, Ledgered

LEMMA DefaultStep ==
  ASSUME MatchInv, NEW n \in DOMAIN nodes, CompileDefault(n)
  PROVE  MatchInv'
<1> DEFINE old == nodes[n]
           E == ledger
           m == Default(old.matrix, old.col)
           d == RecordOf(old.kind, old.matrix, old.col, old.to, <<Decision(m)>>, old.free)
           P == [nodes EXCEPT ![n].else = <<Decision(m)>>]
           M == P \o Compiled(m)
<1>1. nodes[n].kind = "open"
  BY DEF CompileDefault, Current
<1>2. /\ n \in 1..Len(nodes) /\ nodes[1].kind = "open" /\ point = 0 /\ nodes # <<>>
      /\ Ledgered(ledger) /\ IsSeq(nodes) /\ site \in DOMAIN Arms
      /\ IsNode(old) /\ Mentions(old.matrix) \subseteq 1..Len(ledger) /\ Edged(ledger, nodes, old)
      /\ Ahead(nodes, n, old) /\ IsMatrix(old.matrix) /\ old.col \in 1..Len(old.matrix.occs)
      /\ \A k \in 1..Len(nodes) : NodeOK(ledger, nodes, k)
  BY <1>1, OpenIs DEF MatchInv
<1>3. nodes' = M /\ UNCHANGED <<site, arms, ledger, point, parts, stored>>
  BY DEF CompileDefault
<1> HIDE DEF old
<1>5. Extends(E, E)
  BY <1>2 DEF Extends, Ledgered, IsSeq
<1>8. IsMatrix(m) /\ Mentions(m) \subseteq Mentions(old.matrix)
  BY <1>2, DefaultIsMatrix, DefaultMentions
<1>9. Mentions(m) \subseteq 1..Len(E)
  BY <1>2, <1>8
<1>10. m = Default(old.matrix, old.col)
  OBVIOUS
<1> HIDE DEF m
<1>11. Changed(nodes, n, d, P)
  BY <1>2, DefaultAdded DEF old
<1>12. d.matrix = nodes[n].matrix /\ d.kind = "open"
  BY <1>1 DEF RecordOf, old
<1> HIDE DEF d, P
<1>13. /\ Opened(m, E, d, M) /\ M[n] = d
       /\ NodeOK(E, M, n) => \A k \in 1..Len(M) : NodeOK(E, M, k)
  BY <1>1, <1>2, <1>5, <1>8, <1>9, <1>11, <1>12, OpenGrows
<1> HIDE DEF M
<1>14. Grows(nodes, M) /\ Decides(nodes, M, m, Decision(m)) /\ IsSeq(M) /\ Len(M) >= 1
       /\ M[1].matrix = nodes[1].matrix /\ M[1].kind = "open"
  BY <1>2, <1>13 DEF Opened
<1>15. Edged(E, M, old) /\ Ahead(M, n, old)
  BY <1>2, <1>5, <1>14, EdgesKeep
<1>16. NodeOK(E, M, n)
  <2>1. old.kind = "open"
    BY <1>1 DEF old
  <2>2. /\ Decision(m) \in 1..Len(M) /\ M[Decision(m)].matrix = Default(old.matrix, old.col)
        /\ Decision(m) > n \/ M[Decision(m)].kind # "open"
    <3>1. n <= Len(nodes) /\ n \in Nat /\ Len(nodes) \in Nat /\ Len(M) \in Nat
      BY <1>2, <1>14 DEF IsSeq
    <3> QED BY <3>1, <1>10, <1>14 DEF Decides
  <2>3. M[n] = RecordOf(old.kind, old.matrix, old.col, old.to, <<Decision(m)>>, old.free)
    BY <1>13 DEF d
  <2> QED BY <2>1, <2>2, <2>3, <1>2, <1>15, DefaultOK
<1>17. \A k \in 1..Len(M) : NodeOK(E, M, k)
  BY <1>13, <1>16
<1> QED BY <1>2, <1>3, <1>14, <1>17 DEF MatchInv, Ledgered

LEMMA NoExtra ==
  ASSUME NEW P, IsSeq(P)
  PROVE  P \o <<>> = P
<1>1. P \in Seq({P[i] : i \in 1..Len(P)})
  BY SeqFits
<1> QED BY <1>1, ConcatEmptySeq

LEMMA DecideStep ==
  ASSUME MatchInv, NEW n \in DOMAIN nodes, Decide(n)
  PROVE  MatchInv'
<1> DEFINE old == nodes[n]
           L == ledger
           free == FreeBefore(n)
           d == RecordOf("test", old.matrix, old.col, old.to, old.else, free)
           P == [nodes EXCEPT ![n].kind = "test", ![n].free = free]
<1>1. nodes[n].kind = "open" /\ \A k \in DOMAIN nodes : nodes[k].kind = "open" => k <= n
  BY DEF Decide, Current
<1>2. /\ n \in 1..Len(nodes) /\ nodes[1].kind = "open" /\ point = 0 /\ nodes # <<>>
      /\ Ledgered(L) /\ IsSeq(nodes) /\ site \in DOMAIN Arms
      /\ IsNode(old) /\ Mentions(old.matrix) \subseteq 1..Len(L) /\ Edged(L, nodes, old)
      /\ Ahead(nodes, n, old) /\ IsMatrix(old.matrix) /\ old.col \in 1..Len(old.matrix.occs)
      /\ KeysOf(n) = KeysAt(old, L) /\ OccOf(old) = Occ(n)
      /\ Covers(old.matrix, old.col, L[Occ(n)].type, KeysOf(n))
      /\ \A k \in 1..Len(nodes) : NodeOK(L, nodes, k)
  BY <1>1, OpenIs DEF MatchInv
<1>3. /\ Len(old.to) = Len(KeysAt(old, L))
      /\ NeedsDefault(old.matrix, old.col, L[OccOf(old)].type) => old.else # <<>>
      /\ nodes' = P /\ UNCHANGED <<site, arms, ledger, point, parts, stored>>
  BY <1>2 DEF Decide, Partial, Occ, OccOf
<1>4. DOMAIN nodes = 1..Len(nodes) /\ Len(nodes) \in Nat
  BY <1>2 DEF IsSeq
<1>5. Range(old.to) = {old.to[i] : i \in 1..Len(old.to)} /\ Len(old.to) \in Nat
  BY <1>2 DEF Edged, IsSeq, Range
\* Nothing it leads to is open.
<1>6. ASSUME NEW i \in 1..Len(old.to)
      PROVE  /\ old.to[i][2] \in 1..Len(nodes) /\ nodes[old.to[i][2]].kind # "open"
             /\ nodes[old.to[i][2]].matrix = Specialize(old.matrix, old.col, old.to[i][1], L)
             /\ old.to[i][1] \in DOMAIN Fields /\ Complete(L, Occ(n), old.to[i][1])
  <2>1. /\ old.to[i][2] \in 1..Len(nodes) /\ old.to[i][1] = KeysAt(old, L)[i] /\ Complete(L, Occ(n), old.to[i][1])
        /\ nodes[old.to[i][2]].matrix = Specialize(old.matrix, old.col, old.to[i][1], L)
    BY <1>2 DEF Edged
  <2>2. old.to[i][2] > n \/ nodes[old.to[i][2]].kind # "open"
    BY <1>2 DEF Ahead
  <2>3. old.to[i][1] \in DOMAIN Fields
    <3>1. i \in 1..Len(KeysOf(n))
      <4>1. Len(KeysOf(n)) = Len(old.to)
        BY <1>2, <1>3, Zenon
      <4> QED BY <4>1
    <3> QED BY <3>1, <2>1, <1>2 DEF Covers
  <2> QED BY <2>1, <2>2, <2>3, <1>1, <1>2, <1>4
<1>7. ASSUME NEW k \in Range(old.else)
      PROVE  k \in 1..Len(nodes) /\ nodes[k].kind # "open" /\ nodes[k].matrix = Default(old.matrix, old.col)
  <2>1. k \in 1..Len(nodes) /\ nodes[k].matrix = Default(old.matrix, old.col)
    BY <1>2 DEF Edged
  <2>2. k > n \/ nodes[k].kind # "open"
    BY <1>2 DEF Ahead
  <2> QED BY <2>1, <2>2, <1>1, <1>2, <1>4
\* Nothing is demanded that its matrix does not mention.
<1>8. ASSUME NEW k \in 1..Len(nodes) PROVE nodes[k].free \subseteq Mentions(nodes[k].matrix)
  BY <1>2 DEF NodeOK, IsNode
<1>9. /\ Occ(n) \in free
      /\ \A i \in 1..Len(old.to) : nodes[old.to[i][2]].free \ Children(L, Occ(n), old.to[i][1]) \subseteq free
      /\ \A k \in Range(old.else) : nodes[k].free \subseteq free
      /\ \A D : /\ Occ(n) \in D
                /\ \A i \in 1..Len(old.to) : nodes[old.to[i][2]].free \ Children(L, Occ(n), old.to[i][1]) \subseteq D
                /\ \A k \in Range(old.else) : nodes[k].free \subseteq D
                => free \subseteq D
  <2> DEFINE F(e) == nodes[e[2]].free \ Children(L, Occ(n), e[1])
  <2>1. free = {Occ(n)} \union (UNION {F(e) : e \in Range(old.to)}) \union UNION {nodes[k].free : k \in Range(old.else)}
    BY DEF FreeBefore
  <2>2. UNION {F(e) : e \in Range(old.to)} = UNION {F(old.to[i]) : i \in 1..Len(old.to)}
    BY <1>5
  <2> HIDE DEF free, old, L
  <2>3. free = {Occ(n)} \union (UNION {F(old.to[i]) : i \in 1..Len(old.to)}) \union UNION {nodes[k].free : k \in Range(old.else)}
    BY <2>1, <2>2
  <2> HIDE DEF F
  <2>4. /\ Occ(n) \in free /\ \A i \in 1..Len(old.to) : F(old.to[i]) \subseteq free
        /\ \A k \in Range(old.else) : nodes[k].free \subseteq free
        /\ \A D : /\ Occ(n) \in D /\ \A i \in 1..Len(old.to) : F(old.to[i]) \subseteq D
                  /\ \A k \in Range(old.else) : nodes[k].free \subseteq D
                  => free \subseteq D
    <3>1. ASSUME NEW D, Occ(n) \in D, \A i \in 1..Len(old.to) : F(old.to[i]) \subseteq D,
                 \A k \in Range(old.else) : nodes[k].free \subseteq D, NEW x \in free
          PROVE  x \in D
      <4>1. CASE x = Occ(n)
        BY <3>1, <4>1
      <4>2. CASE x \in UNION {F(old.to[i]) : i \in 1..Len(old.to)}
        <5>1. PICK i \in 1..Len(old.to) : x \in F(old.to[i])
          BY <4>2
        <5> QED BY <3>1, <5>1
      <4>3. CASE x \in UNION {nodes[k].free : k \in Range(old.else)}
        BY <3>1, <4>3
      <4> QED BY <2>3, <4>1, <4>2, <4>3, <3>1
    <3>2. Occ(n) \in free
      BY <2>3
    <3>3. ASSUME NEW i \in 1..Len(old.to) PROVE F(old.to[i]) \subseteq free
      BY <2>3
    <3>4. ASSUME NEW k \in Range(old.else) PROVE nodes[k].free \subseteq free
      BY <2>3
    <3> QED BY <3>1, <3>2, <3>3, <3>4
  <2> QED BY <2>4 DEF F
<1> HIDE DEF free
<1>10. free \subseteq Mentions(old.matrix)
  <2>1. Occ(n) \in Mentions(old.matrix)
    BY <1>2 DEF Mentions, Occ
  <2>2. ASSUME NEW i \in 1..Len(old.to)
        PROVE  nodes[old.to[i][2]].free \ Children(L, Occ(n), old.to[i][1]) \subseteq Mentions(old.matrix)
    <3> DEFINE c == old.to[i][1]
               m == old.matrix
               col == old.col
    <3>1. nodes[old.to[i][2]].free \subseteq Mentions(Specialize(m, col, c, L))
      BY <1>6, <1>8
    <3>2. c \in DOMAIN Fields /\ Complete(L, m.occs[col], c) /\ IsMatrix(m) /\ col \in 1..Len(m.occs)
      BY <1>2, <1>6 DEF Occ
    <3>3. Occ(n) = m.occs[col]
      BY DEF Occ
    <3> HIDE DEF c, m, col
    <3>4. Mentions(Specialize(m, col, c, L)) \subseteq Mentions(m) \union Children(L, m.occs[col], c)
      BY <3>2, SpecializeMentions
    <3> QED BY <3>1, <3>3, <3>4 DEF c, m
  <2>3. ASSUME NEW k \in Range(old.else) PROVE nodes[k].free \subseteq Mentions(old.matrix)
    <3>1. nodes[k].free \subseteq Mentions(Default(old.matrix, old.col))
      BY <1>7, <1>8
    <3>2. Mentions(Default(old.matrix, old.col)) \subseteq Mentions(old.matrix)
      BY <1>2, DefaultMentions
    <3> QED BY <3>1, <3>2
  <2> HIDE DEF old, L
  <2> QED BY <2>1, <2>2, <2>3, <1>9
<1>11. Decided(L, nodes, d)
  <2>1. d.to = old.to /\ d.else = old.else /\ d.matrix = old.matrix /\ d.col = old.col /\ d.free = free
    BY DEF RecordOf
  <2>2. OccOf(d) = OccOf(old) /\ KeysAt(d, L) = KeysAt(old, L)
    BY <2>1 DEF OccOf, KeysAt
  <2>3. ASSUME NEW i \in 1..Len(old.to)
        PROVE  nodes[old.to[i][2]].free \subseteq free \union Children(L, OccOf(old), old.to[i][1])
    <3>1. nodes[old.to[i][2]].free \ Children(L, Occ(n), old.to[i][1]) \subseteq free /\ OccOf(old) = Occ(n)
      BY <1>2, <1>9
    <3> QED BY <3>1
  <2>4. \A k \in Range(old.else) : nodes[k].free \subseteq free
    BY <1>9
  <2>5. Occ(n) \in free
    BY <1>9
  <2> HIDE DEF d, old
  <2> QED BY <2>1, <2>2, <2>3, <2>4, <2>5, <1>2, <1>3, <1>6, <1>7 DEF Decided
<1>12. Edged(L, nodes, d)
  <2>1. d.to = old.to /\ d.else = old.else /\ d.matrix = old.matrix /\ d.col = old.col
    BY DEF RecordOf
  <2>2. OccOf(d) = OccOf(old) /\ KeysAt(d, L) = KeysAt(old, L)
    BY <2>1 DEF OccOf, KeysAt
  <2> HIDE DEF d, old
  <2> QED BY <2>1, <2>2, <1>2 DEF Edged
<1>13. Changed(nodes, n, d, P)
  <2> HIDE DEF free
  <2> QED BY <1>2, TestMade
<1>14. d.matrix = old.matrix /\ d.kind = "test" /\ d.free = free
       /\ d = [kind |-> d.kind, matrix |-> d.matrix, col |-> d.col, to |-> d.to, else |-> d.else, free |-> d.free]
  BY DEF RecordOf
<1> HIDE DEF d, P
<1>15. IsNode(d)
  BY <1>2, <1>10, <1>14 DEF IsNode
<1>16. Extends(L, L)
  BY <1>2 DEF Extends, Ledgered, IsSeq
<1>17. /\ IsSeq(P) /\ Len(P) = Len(nodes) /\ P[n] = d /\ \A k \in 1..Len(nodes) : k # n => P[k] = nodes[k]
  BY <1>13 DEF Changed
<1>18. Grows(nodes, P)
  BY <1>1, <1>4, <1>14, <1>17 DEF Grows
<1>19. NodeOK(L, P, n)
  <2>1. Mentions(d.matrix) \subseteq 1..Len(L)
    BY <1>2, <1>14
  <2>2. Edged(L, P, d) /\ Decided(L, P, d)
    BY <2>1, <1>2, <1>11, <1>12, <1>16, <1>18, EdgesKeep
  <2> QED BY <2>1, <2>2, <1>14, <1>15, <1>17 DEF NodeOK
<1>20. ASSUME NEW k \in 1..Len(P) PROVE NodeOK(L, P, k)
  <2>1. CASE k = n
    BY <2>1, <1>19
  <2>2. CASE k # n
    <3>1. k \in 1..Len(nodes) /\ NodeOK(L, nodes, k) /\ P[k] = nodes[k]
      BY <2>2, <1>2, <1>17
    <3> QED BY <3>1, <1>2, <1>16, <1>18, NodeKeeps
  <2> QED BY <2>1, <2>2
<1>21. P[1].matrix = nodes[1].matrix
  BY <1>2, <1>4, <1>14, <1>17
\* The decision that was opened first is decided last.
<1>22. ASSUME P[1].kind # "open", NEW k \in 1..Len(P) PROVE P[k].kind # "open"
  <2>1. n = 1
    <3>1. 1 \in 1..Len(nodes)
      BY <1>2, <1>4
    <3> QED BY <3>1, <1>2, <1>17, <1>22
  <2>2. CASE k = 1
    BY <2>2, <1>22
  <2>3. CASE k # 1
    <3>1. k \in DOMAIN nodes /\ ~(k <= n) /\ P[k] = nodes[k]
      BY <2>1, <2>3, <1>4, <1>17
    <3> QED BY <3>1, <1>1
  <2> QED BY <2>2, <2>3
<1> QED BY <1>2, <1>3, <1>17, <1>20, <1>21, <1>22 DEF MatchInv, Ledgered

LEMMA ArmsHold ==
  ASSUME MatchInv
  PROVE  ArmsAre
BY ArmAssumption DEF MatchInv, ArmsAre, IsPattern

LEMMA MatchStarts ==
  ASSUME MatchInit
  PROVE  MatchInv
<1>1. IsSeq(<<>>) /\ Len(<<>>) = 0
  BY EmptySeq DEF IsSeq
<1> QED BY <1>1, ArmAssumption DEF MatchInit, MatchInv

LEMMA ArmStep ==
  ASSUME MatchInv, AddArm
  PROVE  MatchInv'
<1>1. nodes = <<>> /\ Len(arms) < MaxArms /\ UNCHANGED <<site, ledger, nodes, point, parts, stored>>
  BY DEF AddArm
<1>2. PICK p \in Arms[site] : arms' = Append(arms, p)
  BY DEF AddArm
<1>3. point = 0 /\ IsSeq(nodes)
  BY <1>1 DEF MatchInv
<1>4. site \in DOMAIN Arms /\ IsSeq(arms) /\ Len(arms) \in Nat /\ \A i \in 1..Len(arms) : arms[i] \in Arms[site]
  BY DEF MatchInv, IsSeq
<1>5. /\ IsSeq(Append(arms, p)) /\ Len(Append(arms, p)) = Len(arms) + 1
      /\ \A i \in 1..Len(arms) : Append(arms, p)[i] = arms[i]
      /\ Append(arms, p)[Len(arms) + 1] = p
  BY <1>4, AppendIs
<1>6. ASSUME NEW i \in 1..Len(arms') PROVE arms'[i] \in Arms[site]
  <2>1. i \in 1..Len(arms) \/ i = Len(arms) + 1
    BY <1>2, <1>4, <1>5
  <2> QED BY <2>1, <1>2, <1>4, <1>5
<1>7. Len(arms') <= MaxArms
  BY <1>1, <1>2, <1>4, <1>5, ArmAssumption
<1> QED BY <1>1, <1>2, <1>3, <1>4, <1>5, <1>6, <1>7 DEF MatchInv

LEMMA CaseStep ==
  ASSUME MatchInv, CompileCase
  PROVE  MatchInv'
<1> DEFINE e == [parent |-> 0, head |-> Blank, field |-> 0, type |-> site]
           L == <<e>>
           m == Matrix(site, arms)
           N == <<Node(m)>>
<1>1. /\ nodes = <<>> /\ ledger' = L /\ nodes' = N
      /\ UNCHANGED <<site, arms, point, parts, stored>>
  BY DEF CompileCase
<1>2. point = 0 /\ site \in DOMAIN Arms /\ IsSeq(arms) /\ \A i \in 1..Len(arms) : arms[i] \in Arms[site]
  BY <1>1 DEF MatchInv
<1>3. IsMatrix(m) /\ Within(m, {Root})
  BY ArmsHold, RootIsMatrix
<1>4. Ledgered(L) /\ Len(L) = 1
  <2>1. e.parent = 0 /\ e.type = site
    OBVIOUS
  <2> HIDE DEF e
  <2>2. IsSeq(L) /\ Len(L) = 1 /\ L[1] = e
    BY DEF IsSeq
  <2> HIDE DEF L
  <2> QED BY <2>1, <2>2 DEF Ledgered
<1> HIDE DEF L, m
<1>5. Mentions(m) \subseteq 1..Len(L)
  <2>1. Mentions(m) \subseteq {Root}
    BY <1>3, MentionsWithin
  <2> QED BY <2>1, <1>4 DEF Root
<1>6. IsSeq(N) /\ Len(N) = 1 /\ N[1] = Node(m)
  BY DEF IsSeq
<1> HIDE DEF N
<1>7. NodeOK(L, N, 1) /\ Node(m).matrix = m
  BY <1>2, <1>3, <1>4, <1>5, <1>6, NodeIs
<1>8. \A k \in 1..Len(N) : k = 1
  BY <1>6
<1>9. \A k \in 1..Len(N) : NodeOK(L, N, k)
  BY <1>7, <1>8
<1>10. N[1].kind # "open" => \A k \in 1..Len(N) : N[k].kind # "open"
  BY <1>8
<1> QED BY <1>1, <1>2, <1>4, <1>6, <1>7, <1>9, <1>10 DEF MatchInv, Ledgered, m

-----------------------------------------------------------------------------
\* The steps of the code.
LEMMA StartStep ==
  ASSUME MatchInv, StartCase
  PROVE  MatchInv'
<1>1. /\ nodes # <<>> /\ nodes[1].kind # "open" /\ point' = 1 /\ stored' = {Root}
      /\ UNCHANGED <<site, arms, ledger, nodes>>
  BY DEF StartCase, IsCompiled
<1>2. PICK v \in Values[site] : parts' = [o \in {Root} |-> v]
  BY DEF StartCase
<1>3. /\ site \in DOMAIN Arms /\ Ledgered(ledger) /\ IsSeq(nodes) /\ nodes[1].matrix = Matrix(site, arms)
      /\ \A k \in 1..Len(nodes) : NodeOK(ledger, nodes, k)
  BY <1>1 DEF MatchInv
<1>4. IsValue(v, site)
  BY <1>3, ArmAssumption, ValueAssumption
<1>5. 1 \in 1..Len(nodes)
  <2>1. Len(nodes) # 0 /\ Len(nodes) \in Nat
    BY <1>1, <1>3, NoneIs DEF IsSeq
  <2> QED BY <2>1
<1>6. Root \in 1..Len(ledger) /\ ledger[Root].type = site
  BY <1>3 DEF Ledgered, IsSeq, Root
<1>7. DOMAIN parts' = {Root} /\ parts'[Root] = v
  BY <1>2
<1>8. Mentions(nodes[1].matrix) \subseteq {Root}
  BY <1>3, ArmsHold, RootIsMatrix, MentionsWithin
<1>9. nodes[1].free \subseteq {Root}
  <2>1. nodes[1].free \subseteq Mentions(nodes[1].matrix)
    BY <1>3, <1>5 DEF NodeOK, IsNode
  <2> QED BY <2>1, <1>8
<1>10. Stand(nodes[1].matrix, parts', v)
  BY <1>3, <1>4, <1>7, ArmsHold, RootStands
<1>11. Walk'
  <2>1. /\ point' \in 1..Len(nodes') /\ Root \in DOMAIN parts' /\ DOMAIN parts' \subseteq 1..Len(ledger')
        /\ parts'[Root] \in Values[site']
    BY <1>1, <1>5, <1>6, <1>7
  <2>2. ASSUME NEW k \in DOMAIN parts' PROVE k = Root /\ IsValue(parts'[k], ledger'[k].type)
    BY <1>1, <1>4, <1>6, <1>7
  <2>3. Mentions(nodes'[point'].matrix) \subseteq DOMAIN parts'
    BY <1>1, <1>7, <1>8
  <2>4. nodes'[point'].free \subseteq stored' /\ stored' \subseteq DOMAIN parts'
    BY <1>1, <1>7, <1>9
  <2>5. Stand(nodes[point].matrix, parts, parts[Root])'
    BY <1>1, <1>7, <1>10 DEF Stand, ArmsFor
  <2> QED BY <2>1, <2>2, <2>3, <2>4, <2>5 DEF Walk
<1> QED BY <1>1, <1>11 DEF MatchInv, Ledgered

\* What is known of a test the code has come to.
LEMMA TestIs ==
  ASSUME MatchInv, point # 0, nodes[point].kind = "test"
  PROVE  /\ nodes # <<>> /\ point \in 1..Len(nodes) /\ nodes[1].kind # "open" /\ Walk /\ Ledgered(ledger)
         /\ IsSeq(nodes) /\ NodeOK(ledger, nodes, point) /\ Edged(ledger, nodes, nodes[point])
         /\ Decided(ledger, nodes, nodes[point]) /\ IsMatrix(nodes[point].matrix)
         /\ nodes[point].col \in 1..Len(nodes[point].matrix.occs)
         /\ Occ(point) = nodes[point].matrix.occs[nodes[point].col] /\ OccOf(nodes[point]) = Occ(point)
         /\ Occ(point) \in DOMAIN parts /\ IsValue(parts[Occ(point)], ledger[Occ(point)].type)
         /\ KeysOf(point) = KeysAt(nodes[point], ledger) /\ Type(ledger[Occ(point)].type)
         /\ Covers(nodes[point].matrix, nodes[point].col, ledger[Occ(point)].type, KeysOf(point))
         /\ Partial(point) = NeedsDefault(nodes[point].matrix, nodes[point].col, ledger[Occ(point)].type)
<1>1. nodes # <<>> /\ nodes[1].kind # "open" /\ Walk
  BY DEF MatchInv
<1>2. point \in 1..Len(nodes)
  BY <1>1 DEF Walk
<1>3. Ledgered(ledger) /\ NodeOK(ledger, nodes, point) /\ IsSeq(nodes)
  BY <1>1, <1>2 DEF MatchInv
<1>4. Edged(ledger, nodes, nodes[point]) /\ Decided(ledger, nodes, nodes[point]) /\ IsMatrix(nodes[point].matrix)
  BY <1>3 DEF NodeOK, IsNode
<1>5. nodes[point].col \in 1..Len(nodes[point].matrix.occs)
  BY <1>4 DEF Edged
<1>6. /\ Occ(point) = nodes[point].matrix.occs[nodes[point].col] /\ OccOf(nodes[point]) = Occ(point)
      /\ KeysOf(point) = KeysAt(nodes[point], ledger)
      /\ Partial(point) = NeedsDefault(nodes[point].matrix, nodes[point].col, ledger[Occ(point)].type)
  BY DEF Occ, OccOf, KeysOf, KeysAt, Partial
<1>7. Occ(point) \in Mentions(nodes[point].matrix)
  BY <1>5, <1>6 DEF Mentions
<1>8. Occ(point) \in DOMAIN parts /\ Occ(point) \in 1..Len(ledger)
  BY <1>1, <1>7 DEF Walk
<1>9. IsValue(parts[Occ(point)], ledger[Occ(point)].type)
  BY <1>1, <1>8 DEF Walk
<1>10. Type(ledger[Occ(point)].type)
  BY <1>3, <1>8, TypesAre DEF MatchInv
<1>11. Covers(nodes[point].matrix, nodes[point].col, ledger[Occ(point)].type, KeysOf(point))
  BY <1>5, <1>4, <1>10, KeysCover DEF KeysOf, Occ
<1> QED BY <1>1, <1>2, <1>3, <1>4, <1>5, <1>6, <1>8, <1>9, <1>10, <1>11

LEMMA TakeStep ==
  ASSUME MatchInv, point # 0, NEW e \in Range(nodes[point].to), Take(point, e)
  PROVE  MatchInv'
<1> DEFINE d == nodes[point]
           o == Occ(point)
           c == e[1]
           m == d.matrix
           col == d.col
           L == ledger
           S == Children(ledger, o, c)
           V == parts
           W == [k \in S \union DOMAIN parts |-> IF k \in S THEN Under(parts[o], <<ledger[k].field>>) ELSE parts[k]]
           x == nodes[e[2]]
<1>1. /\ d.kind = "test" /\ c = V[o][<<>>].head /\ parts' = W /\ stored' = stored \union (S \intersect x.free)
      /\ point' = e[2] /\ UNCHANGED <<site, arms, ledger, nodes>>
  BY DEF Take, Tests, HeadIn
<1>2. /\ nodes # <<>> /\ nodes[1].kind # "open" /\ Walk /\ Ledgered(L) /\ IsSeq(nodes)
      /\ Edged(L, nodes, d) /\ Decided(L, nodes, d) /\ IsMatrix(m) /\ col \in 1..Len(m.occs)
      /\ o = m.occs[col] /\ OccOf(d) = o /\ o \in DOMAIN parts /\ IsValue(V[o], L[o].type)
      /\ KeysOf(point) = KeysAt(d, L) /\ Covers(m, col, L[o].type, KeysOf(point))
  BY <1>1, TestIs
<1>3. PICK i \in 1..Len(d.to) : d.to[i] = e
  BY <1>2 DEF Edged, IsSeq, Range
<1> HIDE DEF d
<1>4. c \in DOMAIN Fields /\ Complete(L, o, c) /\ e[2] \in 1..Len(nodes) /\ x.matrix = Specialize(m, col, c, L)
  <2>1. /\ c = KeysAt(d, L)[i] /\ Complete(L, OccOf(d), c) /\ e[2] \in 1..Len(nodes)
        /\ x.matrix = Specialize(m, col, c, L) /\ Len(d.to) = Len(KeysAt(d, L))
    BY <1>2, <1>3 DEF Edged, Decided
  <2>2. KeysOf(point)[i] \in DOMAIN Fields
    BY <2>1, <1>2 DEF Covers
  <2> QED BY <2>1, <2>2, <1>2
<1>5. x.free \subseteq stored \union S
  <2>1. x.free \subseteq d.free \union S
    BY <1>2, <1>3 DEF Decided
  <2>2. d.free \subseteq stored
    BY <1>2 DEF Walk, d
  <2> QED BY <2>1, <2>2
<1>6. /\ DOMAIN V \subseteq 1..Len(L) /\ Root \in DOMAIN V /\ V[Root] \in Values[site]
      /\ Mentions(m) \subseteq DOMAIN V /\ Stand(m, V, V[Root]) /\ stored \subseteq DOMAIN V
      /\ \A k \in DOMAIN V : /\ IsValue(V[k], L[k].type)
                             /\ k # Root => L[k].parent \in DOMAIN V /\ V[k] = Under(V[L[k].parent], <<L[k].field>>)
  BY <1>2 DEF Walk, d
<1> HIDE DEF c, m, col, x
\* The fields the test loads.
<1>7. ASSUME NEW k \in S
      PROVE  /\ k \in 1..Len(L) /\ k # Root /\ L[k].parent = o /\ L[k].field \in DOMAIN Fields[c]
             /\ L[k].type = Fields[c][L[k].field]
  <2>1. k \in 1..Len(L) /\ L[k].parent = o /\ L[k].head = c /\ Len(L) \in Nat
    BY <1>2 DEF Children, Ledgered, IsSeq
  <2>2. o \in 1..Len(L)
    BY <1>2, <1>6
  <2>3. k # 1
    BY <2>1, <2>2, <1>2 DEF Ledgered
  <2>4. k \in 2..Len(L)
    BY <2>1, <2>3
  <2> QED BY <2>1, <2>3, <2>4, <1>2 DEF Ledgered, Root
<1>8. ASSUME NEW k \in S
      PROVE  k \in DOMAIN W /\ W[k] = Under(V[o], <<L[k].field>>) /\ IsValue(W[k], L[k].type)
  <2>1. k \in DOMAIN W /\ W[k] = Under(V[o], <<L[k].field>>)
    OBVIOUS
  <2>2. L[k].field \in Arity(V[o][<<>>].head)
    BY <1>1, <1>4, <1>7 DEF Arity
  <2>3. IsValue(Under(V[o], <<L[k].field>>), Fields[c][L[k].field])
    BY <2>2, <1>1, <1>2, ValueFields
  <2> QED BY <2>1, <2>3, <1>7
<1>9. ASSUME NEW k \in DOMAIN V
      PROVE  k \in DOMAIN W /\ W[k] = V[k]
  <2>1. CASE k \notin S
    BY <2>1
  <2>2. CASE k \in S
    <3>1. W[k] = Under(V[o], <<L[k].field>>) /\ k \in DOMAIN W
      BY <2>2
    <3>2. V[k] = Under(V[o], <<L[k].field>>)
      BY <2>2, <1>6, <1>7
    <3> QED BY <3>1, <3>2
  <2> QED BY <2>1, <2>2
<1>10. DOMAIN W = S \union DOMAIN V
  OBVIOUS
<1> HIDE DEF W
<1>11. Stand(Specialize(m, col, c, L), W, V[Root])
  <2>1. IsTree(V[o])
    BY <1>2 DEF IsValue
  <2>2. \A j \in 1..Len(m.occs) : W[m.occs[j]] = V[m.occs[j]]
    BY <1>6, <1>9 DEF Mentions
  <2>3. \A r \in 1..Len(m.rows) : \A b \in m.rows[r].bound : W[b[2]] = V[b[2]]
    <3> SUFFICES ASSUME NEW r \in 1..Len(m.rows), NEW b \in m.rows[r].bound PROVE W[b[2]] = V[b[2]]
      OBVIOUS
    <3>1. b[2] \in Mentions(m)
      BY DEF Mentions
    <3> QED BY <3>1, <1>6, <1>9
  <2>4. ASSUME NEW j \in DOMAIN Fields[c] PROVE W[FieldsOf(L, m.occs[col], c)[j]] = Under(V[o], <<j>>)
    <3> DEFINE k == FieldsOf(L, m.occs[col], c)[j]
    <3>1. k \in S /\ L[k].field = j
      BY <1>2, <1>4, FieldsIn
    <3> HIDE DEF k
    <3>2. W[k] = Under(V[o], <<L[k].field>>)
      BY <3>1, <1>8
    <3> QED BY <3>1, <3>2 DEF k
  <2>5. /\ IsMatrix(m) /\ col \in 1..Len(m.occs) /\ Stand(m, V, V[Root]) /\ V[o] = V[m.occs[col]]
        /\ c \in DOMAIN Fields /\ V[o][<<>>].head = c
    BY <1>1, <1>2, <1>4, <1>6
  <2> DEFINE w == V[o]
             v == V[Root]
  <2>6. w = V[m.occs[col]] /\ IsTree(w) /\ w[<<>>].head = c /\ Stand(m, V, v)
    BY <2>1, <2>5
  <2>7. \A j \in DOMAIN Fields[c] : W[FieldsOf(L, m.occs[col], c)[j]] = Under(w, <<j>>)
    BY <2>4
  <2> HIDE DEF V, L, w, v, o
  <2>8. Stand(Specialize(m, col, c, L), W, v)
    <3>1. Loaded(m, col, c, L, V, W, v, w)
      BY <2>2, <2>3, <2>5, <2>6, <2>7 DEF Loaded
    <3> QED BY <3>1, SpecializeStands
  <2> QED BY <2>8 DEF v
<1>12. Mentions(x.matrix) \subseteq DOMAIN W
  <2>1. Mentions(x.matrix) \subseteq Mentions(m) \union S
    BY <1>2, <1>4, SpecializeMentions
  <2> QED BY <2>1, <1>6, <1>10
<1>13. Walk'
  <2>1. /\ point' \in 1..Len(nodes') /\ Root \in DOMAIN parts' /\ DOMAIN parts' \subseteq 1..Len(ledger')
        /\ parts'[Root] = V[Root] /\ parts'[Root] \in Values[site']
    BY <1>1, <1>4, <1>6, <1>7, <1>9, <1>10
  <2>2. ASSUME NEW k \in DOMAIN parts'
        PROVE  /\ IsValue(parts'[k], ledger'[k].type)
               /\ k # Root => /\ ledger'[k].parent \in DOMAIN parts'
                              /\ parts'[k] = Under(parts'[ledger'[k].parent], <<ledger'[k].field>>)
    <3>1. CASE k \in S
      <4>1. L[k].parent = o /\ W[o] = V[o] /\ o \in DOMAIN W
        BY <3>1, <1>2, <1>7, <1>9
      <4>2. IsValue(W[k], L[k].type) /\ W[k] = Under(V[o], <<L[k].field>>)
        BY <3>1, <1>8
      <4> QED BY <4>1, <4>2, <1>1
    <3>2. CASE k \in DOMAIN V
      <4>1. /\ W[k] = V[k] /\ IsValue(V[k], L[k].type)
            /\ k # Root => L[k].parent \in DOMAIN V /\ V[k] = Under(V[L[k].parent], <<L[k].field>>)
        BY <3>2, <1>6, <1>9
      <4>2. k # Root => L[k].parent \in DOMAIN W /\ W[L[k].parent] = V[L[k].parent]
        BY <4>1, <1>9
      <4> QED BY <4>1, <4>2, <1>1
    <3> QED BY <3>1, <3>2, <1>1, <1>10
  <2>3. Mentions(nodes'[point'].matrix) \subseteq DOMAIN parts'
    BY <1>1, <1>12 DEF x
  <2>4. nodes'[point'].free \subseteq stored' /\ stored' \subseteq DOMAIN parts'
    BY <1>1, <1>5, <1>6, <1>10 DEF x
  <2>5. Stand(x.matrix, W, V[Root])
    BY <1>4, <1>11
  <2>6. Stand(nodes[point].matrix, parts, parts[Root])'
    BY <2>1, <2>5, <1>1 DEF Stand, ArmsFor, x
  <2> QED BY <2>1, <2>2, <2>3, <2>4, <2>6 DEF Walk
<1>14. point' # 0
  BY <1>1, <1>4
<1> QED BY <1>1, <1>2, <1>13, <1>14 DEF MatchInv, Ledgered

LEMMA DefaultTakenStep ==
  ASSUME MatchInv, point # 0, TakeDefault(point)
  PROVE  MatchInv'
<1> DEFINE d == nodes[point]
           o == Occ(point)
           m == d.matrix
           col == d.col
           t == ledger[o].type
<1>1. /\ d.kind = "test" /\ \A e \in Range(d.to) : e[1] # parts[o][<<>>].head
      /\ UNCHANGED <<site, arms, ledger, nodes, parts, stored>>
  BY DEF TakeDefault, Tests, HeadIn
<1>2. PICK k \in Range(d.else) : point' = k
  BY DEF TakeDefault
<1>3. /\ nodes # <<>> /\ nodes[1].kind # "open" /\ Walk /\ IsSeq(nodes)
      /\ Edged(ledger, nodes, d) /\ Decided(ledger, nodes, d) /\ IsMatrix(m) /\ col \in 1..Len(m.occs)
      /\ o = m.occs[col] /\ o \in DOMAIN parts /\ IsValue(parts[o], t)
      /\ KeysOf(point) = KeysAt(d, ledger) /\ Covers(m, col, t, KeysOf(point))
  BY <1>1, TestIs
<1> HIDE DEF d
<1>4. /\ k \in 1..Len(nodes) /\ nodes[k].matrix = Default(m, col) /\ nodes[k].free \subseteq d.free
      /\ Len(d.to) = Len(KeysAt(d, ledger)) /\ IsSeq(d.to)
      /\ \A i \in 1..Len(d.to) : d.to[i][1] = KeysAt(d, ledger)[i]
  BY <1>3 DEF Edged, Decided
\* The head is in no row: a head of the type in one has an edge, no constructor has
\* the head of a value that no literal equals.
<1>5. parts[o][<<>>].head \notin HeadSet(m, col)
  <2> DEFINE h == parts[o][<<>>].head
  <2>1. <<>> \in DOMAIN parts[o] /\ (HeadOf(h, t) \/ h = Other)
    BY <1>3 DEF IsValue, IsTree, TypeAt
  <2>2. ASSUME h \in HeadSet(m, col), HeadOf(h, t) PROVE FALSE
    <3>1. PICK i \in 1..Len(KeysOf(point)) : KeysOf(point)[i] = h
      BY <2>2, <1>3 DEF Covers
    <3>2. i \in 1..Len(d.to) /\ d.to[i][1] = h
      BY <3>1, <1>3, <1>4
    <3>3. d.to[i] \in Range(d.to)
      BY <3>2, <1>4 DEF IsSeq, Range
    <3> QED BY <3>2, <3>3, <1>1
  <2>3. ASSUME h \in HeadSet(m, col), h = Other PROVE FALSE
    BY <2>3, <1>3, HeadsTyped, TypeAssumption
  <2> QED BY <2>1, <2>2, <2>3
<1>6. Stand(m, parts, parts[Root]) /\ Mentions(m) \subseteq DOMAIN parts /\ d.free \subseteq stored
  BY <1>3 DEF Walk, d
<1> HIDE DEF m, col
<1>7. Stand(Default(m, col), parts, parts[Root])
  <2>1. IsTree(parts[o])
    BY <1>3 DEF IsValue
  <2> QED BY <2>1, <1>3, <1>5, <1>6, DefaultStands
<1>8. Mentions(nodes[k].matrix) \subseteq DOMAIN parts
  BY <1>3, <1>4, <1>6, DefaultMentions
<1>9. Stand(nodes[point].matrix, parts, parts[Root])'
  BY <1>1, <1>2, <1>4, <1>7 DEF Stand, ArmsFor
<1>10. nodes[k].free \subseteq stored
  BY <1>4, <1>6
<1>11. Walk'
  BY <1>1, <1>2, <1>3, <1>4, <1>8, <1>9, <1>10 DEF Walk
<1>12. point' # 0
  BY <1>2, <1>4
<1> QED BY <1>1, <1>3, <1>11, <1>12 DEF MatchInv, Ledgered

-----------------------------------------------------------------------------
\* What the decisions the code comes to are worth.
LEMMA TestsGoOn ==
  ASSUME MatchInv, point # 0, nodes[point].kind = "test"
  PROVE  \/ HeadIn(parts[Occ(point)]) \in {e[1] : e \in Range(nodes[point].to)}
         \/ nodes[point].else # <<>>
<1> DEFINE d == nodes[point]
           o == Occ(point)
           t == ledger[o].type
           h == parts[o][<<>>].head
<1>1. /\ Edged(ledger, nodes, d) /\ Decided(ledger, nodes, d) /\ IsValue(parts[o], t)
      /\ KeysOf(point) = KeysAt(d, ledger) /\ Covers(d.matrix, d.col, t, KeysOf(point)) /\ OccOf(d) = o
  BY TestIs
<1> HIDE DEF d
<1>2. /\ Len(d.to) = Len(KeysOf(point)) /\ IsSeq(d.to)
      /\ \A i \in 1..Len(d.to) : d.to[i][1] = KeysOf(point)[i]
      /\ NeedsDefault(d.matrix, d.col, t) => d.else # <<>>
  BY <1>1 DEF Edged, Decided
<1>3. CASE NeedsDefault(d.matrix, d.col, t)
  BY <1>2, <1>3 DEF d
<1>4. CASE ~NeedsDefault(d.matrix, d.col, t)
  <2>1. IsClosed(t) /\ t \notin DOMAIN Literals
    BY <1>1, <1>4, TypeAssumption DEF Covers, IsClosed
  <2>2. <<>> \in DOMAIN parts[o] /\ (HeadOf(h, t) \/ (h = Other /\ t \in DOMAIN Literals))
    BY <1>1 DEF IsValue, IsTree, TypeAt
  <2>3. HeadOf(h, t)
    BY <2>1, <2>2
  <2>4. PICK i \in 1..Len(KeysOf(point)) : KeysOf(point)[i] = h
    BY <1>1, <1>4, <2>3 DEF Covers
  <2>5. i \in 1..Len(d.to) /\ d.to[i][1] = h
    BY <1>2, <2>4
  <2>6. d.to[i] \in Range(d.to)
    BY <1>2, <2>5 DEF IsSeq, Range
  <2> QED BY <2>5, <2>6 DEF d, HeadIn
<1> QED BY <1>3, <1>4

LEMMA FailuresFail ==
  ASSUME MatchInv, point # 0, nodes[point].kind = "fail"
  PROVE  ArmsFor(parts[Root]) = {}
<1> DEFINE m == nodes[point].matrix
<1>1. Stand(m, parts, parts[Root]) /\ point \in 1..Len(nodes) /\ nodes # <<>>
  BY DEF MatchInv, Walk
<1>2. NodeOK(ledger, nodes, point)
  BY <1>1 DEF MatchInv
<1>3. m.rows = <<>>
  BY <1>2 DEF NodeOK, IsNode
<1>4. Len(m.rows) = 0
  BY <1>3, EmptySeq
<1> QED BY <1>1, <1>4 DEF Stand

\* A row of wildcards matches, and binds the names that its leaf binds.
LEMMA LeafGives ==
  ASSUME NEW m, IsMatrix(m), Len(m.rows) >= 1, \A k \in 1..Len(m.occs) : HeadAt(m, 1, k) = Blank,
         NEW V, \A k \in 1..Len(m.occs) : IsTree(V[m.occs[k]])
  PROVE  /\ Fits(m.rows[1], m.occs, V)
         /\ {<<b[1], V[b[2]]>> : b \in LeafBinders(m)} = Gives(m.rows[1], m.occs, V)
<1> DEFINE row == m.rows[1]
           n == Len(m.occs)
           cell(k) == row.cells[k]
           E == {<<b[1], V[b[2]]>> : b \in LeafBinders(m)}
           G == Gives(row, m.occs, V)
<1>1. IsRow(row, n) /\ DOMAIN m.occs = 1..n
  BY DEF IsMatrix, IsSeq
<1>2. ASSUME NEW k \in 1..n
      PROVE  /\ Matches(cell(k), V[m.occs[k]])
             /\ Names(cell(k), V[m.occs[k]]) = {<<b, V[m.occs[k]]>> : b \in cell(k)[<<>>].binders}
  <2>1. IsPattern(cell(k)) /\ cell(k)[<<>>].head = Blank
    BY <1>1 DEF IsRow, HeadAt, HeadIn
  <2>2. IsTree(V[m.occs[k]])
    OBVIOUS
  <2> QED BY <2>1, <2>2, WildMatches
<1>3. Columns(row.cells, m.occs) = {<<cell(k), m.occs[k]>> : k \in 1..n}
  BY DEF Columns
<1>4. Fits(row, m.occs, V)
  <2> SUFFICES ASSUME NEW x \in Columns(row.cells, m.occs) PROVE Matches(x[1], V[x[2]])
    BY DEF Fits
  <2>1. PICK k \in 1..n : x = <<cell(k), m.occs[k]>>
    BY <1>3
  <2>2. x[1] = cell(k) /\ x[2] = m.occs[k]
    BY <2>1
  <2> QED BY <2>2, <1>2
<1>5. ASSUME NEW z \in E PROVE z \in G
  <2>1. PICK b \in LeafBinders(m) : z = <<b[1], V[b[2]]>>
    OBVIOUS
  <2>2. CASE b \in row.bound
    BY <2>1, <2>2 DEF Gives
  <2>3. CASE b \notin row.bound
    <3>1. PICK k \in 1..n : b \in Migrated(m, row, k)
      BY <2>3, <1>1 DEF LeafBinders
    <3>2. PICK a \in cell(k)[<<>>].binders : b = <<a, m.occs[k]>>
      BY <2>3, <3>1 DEF Migrated
    <3>3. z = <<a, V[m.occs[k]]>>
      BY <2>1, <3>2
    <3>4. z \in Names(cell(k), V[m.occs[k]])
      BY <3>3, <1>2
    <3>5. PICK x \in Columns(row.cells, m.occs) : x = <<cell(k), m.occs[k]>>
      BY <1>3
    <3>6. x[1] = cell(k) /\ x[2] = m.occs[k]
      BY <3>5
    <3>7. z \in Names(x[1], V[x[2]])
      BY <3>4, <3>6
    <3> QED BY <3>7 DEF Gives
  <2> QED BY <2>2, <2>3
<1>6. ASSUME NEW z \in G PROVE z \in E
  <2>1. CASE z \in {<<b[1], V[b[2]]>> : b \in row.bound}
    BY <2>1 DEF LeafBinders
  <2>2. CASE z \notin {<<b[1], V[b[2]]>> : b \in row.bound}
    <3>1. PICK x \in Columns(row.cells, m.occs) : z \in Names(x[1], V[x[2]])
      BY <2>2 DEF Gives
    <3>2. PICK k \in 1..n : x = <<cell(k), m.occs[k]>>
      BY <1>3
    <3>3. x[1] = cell(k) /\ x[2] = m.occs[k]
      BY <3>2
    <3>4. z \in Names(cell(k), V[m.occs[k]])
      BY <3>1, <3>3
    <3>5. PICK a \in cell(k)[<<>>].binders : z = <<a, V[m.occs[k]]>>
      BY <3>4, <1>2
    <3> DEFINE b == <<a, m.occs[k]>>
    <3>6. b[1] = a /\ b[2] = m.occs[k] /\ b \in Migrated(m, row, k)
      BY DEF Migrated
    <3> HIDE DEF b
    <3>7. b \in LeafBinders(m)
      BY <3>6, <1>1 DEF LeafBinders
    <3>8. z = <<b[1], V[b[2]]>>
      BY <3>5, <3>6
    <3> QED BY <3>7, <3>8
  <2> QED BY <2>1, <2>2
<1> QED BY <1>4, <1>5, <1>6

LEMMA LeavesSelect ==
  ASSUME MatchInv, point # 0, nodes[point].kind = "leaf"
  PROVE  /\ nodes[point].matrix.rows[1].arm \in ArmsFor(parts[Root])
         /\ \A i \in ArmsFor(parts[Root]) : nodes[point].matrix.rows[1].arm <= i
         /\ {<<b[1], parts[b[2]]>> : b \in LeafBinders(nodes[point].matrix)}
              = Names(arms[nodes[point].matrix.rows[1].arm], parts[Root])
<1> DEFINE m == nodes[point].matrix
           v == parts[Root]
           n == Len(m.rows)
<1>1. /\ Stand(m, parts, v) /\ point \in 1..Len(nodes) /\ nodes # <<>> /\ Mentions(m) \subseteq DOMAIN parts
      /\ \A k \in DOMAIN parts : IsValue(parts[k], ledger[k].type)
  BY DEF MatchInv, Walk
<1>2. NodeOK(ledger, nodes, point)
  BY <1>1 DEF MatchInv
<1>3. IsMatrix(m) /\ n >= 1 /\ \A k \in 1..Len(m.occs) : HeadAt(m, 1, k) = Blank
  BY <1>2 DEF NodeOK, IsNode
<1> HIDE DEF m
<1>4. \A k \in 1..Len(m.occs) : IsTree(parts[m.occs[k]])
  <2> SUFFICES ASSUME NEW k \in 1..Len(m.occs) PROVE IsTree(parts[m.occs[k]])
    OBVIOUS
  <2>1. m.occs[k] \in Mentions(m)
    BY DEF Mentions
  <2> QED BY <2>1, <1>1 DEF IsValue
<1>5. /\ Fits(m.rows[1], m.occs, parts)
      /\ {<<b[1], parts[b[2]]>> : b \in LeafBinders(m)} = Gives(m.rows[1], m.occs, parts)
  BY <1>3, <1>4, LeafGives
<1>6. n \in Nat /\ \A r \in 1..n : m.rows[r].arm \in Nat
  BY <1>3 DEF IsMatrix, IsSeq
<1>7. 1 \in 1..n
  BY <1>3, <1>6
<1>8. m.rows[1].arm \in ArmsFor(v) /\ Gives(m.rows[1], m.occs, parts) = Names(arms[m.rows[1].arm], v)
  BY <1>1, <1>5, <1>7 DEF Stand
<1>9. ASSUME NEW i \in ArmsFor(v) PROVE m.rows[1].arm <= i
  <2>1. PICK r \in 1..n : m.rows[r].arm = i
    BY <1>1 DEF Stand
  <2>2. CASE r = 1
    BY <2>1, <2>2, <1>6, <1>7
  <2>3. CASE r # 1
    <3>1. 1 < r
      BY <2>3, <1>6
    <3>2. m.rows[1].arm < m.rows[r].arm
      BY <3>1, <1>3, <1>7 DEF IsMatrix
    <3> QED BY <3>2, <2>1, <1>6, <1>7
  <2> QED BY <2>2, <2>3
<1> QED BY <1>5, <1>8, <1>9 DEF m

LEMMA SelectedFirst ==
  ASSUME MatchInv
  PROVE  SelectsFirst
<1> SUFFICES ASSUME point # 0
             PROVE  /\ nodes[point].free \subseteq stored
                    /\ nodes[point].kind = "test" =>
                          \/ HeadIn(parts[Occ(point)]) \in {e[1] : e \in Range(nodes[point].to)}
                          \/ nodes[point].else # <<>>
                    /\ nodes[point].kind = "fail" => ArmsFor(parts[Root]) = {}
                    /\ nodes[point].kind = "leaf" =>
                          /\ nodes[point].matrix.rows[1].arm \in ArmsFor(parts[Root])
                          /\ \A i \in ArmsFor(parts[Root]) : nodes[point].matrix.rows[1].arm <= i
                          /\ {<<b[1], parts[b[2]]>> : b \in LeafBinders(nodes[point].matrix)}
                               = Names(arms[nodes[point].matrix.rows[1].arm], parts[Root])
  BY Zenon DEF SelectsFirst
<1>1. nodes[point].free \subseteq stored
  BY DEF MatchInv, Walk
<1> QED BY <1>1, TestsGoOn, FailuresFail, LeavesSelect, Zenon

LEMMA MatchStays ==
  ASSUME MatchInv, UNCHANGED matchVars
  PROVE  MatchInv'
BY DEF MatchInv, matchVars, Walk, Ledgered, Stand, ArmsFor, Complete, Children

LEMMA MatchSteps ==
  ASSUME MatchInv, [MatchNext]_matchVars
  PROVE  MatchInv'
<1>1. CASE UNCHANGED matchVars
  BY <1>1, MatchStays
<1>2. CASE \E n \in DOMAIN nodes : CompileBranch(n) \/ CompileDefault(n) \/ Decide(n)
  BY <1>2, BranchStep, DefaultStep, DecideStep
<1>3. CASE point # 0 /\ ((\E e \in Range(nodes[point].to) : Take(point, e)) \/ TakeDefault(point))
  BY <1>3, TakeStep, DefaultTakenStep
<1> QED BY <1>1, <1>2, <1>3, ArmStep, CaseStep, StartStep DEF MatchNext

\* The code of a case, however its tests are reordered and shared and whichever
\* fields it leaves unstored, loads only what is stored, never stops at a test, and ends
\* at the first arm that matches, its names bound to the parts of the value they stand
\* at, or fails when no arm matches.
THEOREM FirstArmSelected == MatchSpec => []SelectsFirst
<1>1. MatchInit => MatchInv
  BY MatchStarts
<1>2. MatchInv /\ [MatchNext]_matchVars => MatchInv'
  BY MatchSteps
<1>3. MatchInv => SelectsFirst
  BY SelectedFirst
<1> QED BY <1>1, <1>2, <1>3, PTL DEF MatchSpec

LEMMA MatchIsTyped ==
  ASSUME MatchInv
  PROVE  MatchTypeOK
<1>1. Range(<<>>) = {} /\ DOMAIN <<>> = {} /\ Len(<<>>) = 0
  BY EmptySeq DEF Range
<1>2. site \in DOMAIN Arms /\ Len(arms) <= MaxArms /\ Range(arms) \subseteq Arms[site]
  BY DEF MatchInv, IsSeq, Range
<1>3. CASE nodes = <<>>
  <2>1. ledger = <<>> /\ point = 0
    BY <1>3 DEF MatchInv
  <2>2. parts = <<>> /\ stored = {}
    BY <2>1 DEF MatchInv
  <2> QED BY <1>1, <1>2, <1>3, <2>1, <2>2 DEF MatchTypeOK
<1>4. CASE nodes # <<>>
  <2>1. /\ Ledgered(ledger) /\ DOMAIN ledger = 1..Len(ledger) /\ DOMAIN nodes = 1..Len(nodes)
        /\ \A n \in 1..Len(nodes) : NodeOK(ledger, nodes, n)
    BY <1>4 DEF MatchInv, Ledgered, IsSeq
  <2>2. ASSUME NEW o \in DOMAIN ledger
        PROVE  /\ ledger[o].type \in DOMAIN Signature \union DOMAIN Literals
               /\ o # Root => ledger[o].parent \in 1..(o - 1) /\ ledger[o].field \in DOMAIN Fields[ledger[o].head]
    <3>1. Type(ledger[o].type)
      BY <2>1, <1>2, TypesAre
    <3>2. o # Root => o \in 2..Len(ledger)
      BY <2>1 DEF Root, Ledgered, IsSeq
    <3> QED BY <3>1, <3>2, <2>1 DEF Type, Ledgered
  <2>3. ASSUME NEW n \in DOMAIN nodes
        PROVE  /\ nodes[n].kind \in {"fail", "leaf", "open", "test"}
               /\ nodes[n].free \subseteq DOMAIN ledger
               /\ Range(nodes[n].matrix.occs) \subseteq DOMAIN ledger
               /\ {e[2] : e \in Range(nodes[n].to)} \union Range(nodes[n].else) \subseteq DOMAIN nodes
    <3> DEFINE d == nodes[n]
    <3>1. NodeOK(ledger, nodes, n)
      BY <2>1
    <3>2. IsNode(d) /\ Mentions(d.matrix) \subseteq DOMAIN ledger
      BY <3>1, <2>1 DEF NodeOK
    <3>3. d.kind \in {"fail", "leaf", "open", "test"} /\ d.free \subseteq DOMAIN ledger /\ IsSeq(d.matrix.occs)
      BY <3>2 DEF IsNode, IsMatrix
    <3>4. Range(d.matrix.occs) \subseteq Mentions(d.matrix)
      BY <3>3 DEF IsSeq, Range, Mentions
    <3>5. CASE d.kind \in {"fail", "leaf"}
      <4>1. d.to = <<>> /\ d.else = <<>>
        BY <3>2, <3>5 DEF IsNode
      <4>2. {e[2] : e \in Range(d.to)} \union Range(d.else) \subseteq DOMAIN nodes
        BY <4>1, <1>1
      <4> QED BY <4>2, <3>2, <3>3, <3>4
    <3>6. CASE d.kind \in {"open", "test"}
      <4>1. Edged(ledger, nodes, d)
        BY <3>1, <3>6 DEF NodeOK
      <4>2. \A i \in 1..Len(d.to) : d.to[i][2] \in DOMAIN nodes
        BY <4>1, <2>1 DEF Edged
      <4>3. Range(d.to) = {d.to[i] : i \in 1..Len(d.to)}
        BY <4>1 DEF Edged, IsSeq, Range
      <4>4. Range(d.else) \subseteq DOMAIN nodes
        BY <4>1, <2>1 DEF Edged
      <4> QED BY <4>2, <4>3, <4>4, <3>2, <3>3, <3>4
    <3> QED BY <3>3, <3>5, <3>6
  <2>4. /\ point \in DOMAIN nodes \union {0}
        /\ stored \subseteq DOMAIN parts /\ DOMAIN parts \subseteq DOMAIN ledger
    <3>1. CASE point = 0
      <4>1. parts = <<>> /\ stored = {}
        BY <3>1 DEF MatchInv
      <4> QED BY <4>1, <3>1, <1>1
    <3>2. CASE point # 0
      <4>1. Walk
        BY <3>2 DEF MatchInv
      <4> QED BY <4>1, <2>1 DEF Walk
    <3> QED BY <3>1, <3>2
  <2> QED BY <1>2, <2>2, <2>3, <2>4 DEF MatchTypeOK
<1> QED BY <1>3, <1>4

\* Occurrences come after the part they are a field of, and what the decisions and the
\* run of a case mention is there.
THEOREM MatchTyped == MatchSpec => []MatchTypeOK
<1>1. MatchInit => MatchInv
  BY MatchStarts
<1>2. MatchInv /\ [MatchNext]_matchVars => MatchInv'
  BY MatchSteps
<1>3. MatchInv => MatchTypeOK
  BY MatchIsTyped
<1> QED BY <1>1, <1>2, <1>3, PTL DEF MatchSpec

-----------------------------------------------------------------------------
\* The graph of decisions: each but the first is led to by an earlier one, a default
\* is there where one is needed, and a test is above what it leads to.
Leads(d, k) == (\E i \in 1..Len(d.to) : d.to[i][2] = k) \/ k \in Range(d.else)

Above(N, b, g) ==
    /\ g \in [1..Len(N) -> 0..b]
    /\ \A n \in 1..Len(N) : N[n].kind = "test" => \A k \in 1..Len(N) : Leads(N[n], k) => g[k] < g[n]

Rests(d) == d.else = <<>> \/ \E k : d.else = <<k>>

Grounded(L, N) ==
    /\ \A n \in 2..Len(N) : \E j \in 1..(n - 1) : Leads(N[j], n)
    /\ \A n \in 1..Len(N) : N[n].else # <<>> => NeedsDefault(N[n].matrix, N[n].col, L[OccOf(N[n])].type)
    /\ \A n \in 1..Len(N) : Rests(N[n])
    /\ \E b \in Nat : \E g : Above(N, b, g)

LEMMA NodeStarts ==
  ASSUME NEW m
  PROVE  Node(m).to = <<>> /\ Node(m).else = <<>> /\ Node(m).kind # "test"
<1>1. CASE m.rows = <<>>
  BY <1>1 DEF Node, NodeOf
<1>2. CASE m.rows # <<>> /\ \A col \in DOMAIN m.occs : HeadAt(m, 1, col) = Blank
  BY <1>2 DEF Node, NodeOf
<1>3. CASE m.rows # <<>> /\ ~(\A col \in DOMAIN m.occs : HeadAt(m, 1, col) = Blank)
  BY <1>3 DEF Node, NodeOf
<1> QED BY <1>1, <1>2, <1>3

LEMMA NodeLeads ==
  ASSUME NEW L, NEW N, IsSeq(N), NEW n \in 1..Len(N), NodeOK(L, N, n), NEW k, Leads(N[n], k)
  PROVE  k \in 1..Len(N) /\ N[n].kind \in {"open", "test"}
<1>1. N[n].kind \in {"open", "test"}
  <2> SUFFICES ASSUME N[n].kind \in {"fail", "leaf"} PROVE FALSE
    BY DEF NodeOK, IsNode
  <2>1. N[n].to = <<>> /\ N[n].else = <<>>
    BY DEF NodeOK, IsNode
  <2>2. Len(<<>>) = 0 /\ Range(<<>>) = {}
    BY EmptySeq DEF Range
  <2> QED BY <2>1, <2>2 DEF Leads
<1>2. Edged(L, N, N[n])
  BY <1>1 DEF NodeOK
<1> QED BY <1>1, <1>2 DEF Leads, Edged

LEMMA OpenLinks ==
  ASSUME MatchInv, nodes # <<>>, Grounded(ledger, nodes), NEW n \in 1..Len(nodes), nodes[n].kind = "open",
         NEW E, Ledgered(E), Extends(ledger, E), NEW d, d.kind = "open", d.matrix = nodes[n].matrix, d.col = nodes[n].col,
         NEW m, Leads(d, Decision(m)), \A k : Leads(nodes[n], k) => Leads(d, k),
         d.else # <<>> => NeedsDefault(d.matrix, d.col, ledger[OccOf(d)].type), Rests(d),
         NEW P, Changed(nodes, n, d, P)
  PROVE  Grounded(E, P \o Compiled(m))
<1> DEFINE M == P \o Compiled(m)
           K == Len(nodes)
<1>1. /\ IsSeq(nodes) /\ K \in Nat /\ Ledgered(ledger) /\ \A k \in 1..K : NodeOK(ledger, nodes, k)
  BY DEF MatchInv, IsSeq
<1>2. /\ IsSeq(P) /\ Len(P) = K /\ P[n] = d
      /\ \A k \in 1..K : k # n => P[k] = nodes[k]
  BY DEF Changed
<1>3. /\ IsSeq(M) /\ Len(M) \in Nat /\ Len(M) >= K
      /\ \A k \in 1..K : M[k] = P[k]
      /\ \A k \in 1..Len(M) : k \in 1..K \/ (k = K + 1 /\ k = Decision(m) /\ M[k] = Node(m))
  <2>1. CASE Memo(m) = {}
    <3> DEFINE X == <<Node(m)>>
    <3>1. M = P \o X /\ Decision(m) = K + 1
      BY <2>1 DEF Compiled, Decision
    <3>2. IsSeq(X) /\ Len(X) = 1 /\ X[1] = Node(m)
      BY DEF IsSeq
    <3> HIDE DEF X, M
    <3>3. Joined(P, X, M)
      BY <1>2, <3>1, <3>2, JoinedIs
    <3> QED BY <1>1, <1>2, <3>1, <3>2, <3>3 DEF Joined, IsSeq
  <2>2. CASE Memo(m) # {}
    <3>1. M = P
      BY <2>2, <1>2, NoExtra DEF Compiled
    <3> QED BY <1>1, <1>2, <3>1
  <2> QED BY <2>1, <2>2
<1> HIDE DEF M
<1>4. ASSUME NEW k \in 1..K PROVE (k = n /\ M[k] = d) \/ (k # n /\ M[k] = nodes[k])
  BY <1>2, <1>3
<1>5. ASSUME NEW k \in 2..Len(M) PROVE \E j \in 1..(k - 1) : Leads(M[j], k)
  <2>1. CASE k \in 1..K
    <3>1. PICK j \in 1..(k - 1) : Leads(nodes[j], k)
      BY <2>1, <1>1 DEF Grounded
    <3>2. j \in 1..K
      BY <2>1, <1>1, <3>1
    <3>3. Leads(M[j], k)
      BY <3>1, <3>2, <1>4
    <3> QED BY <3>3
  <2>2. CASE k \notin 1..K
    <3>1. k = K + 1 /\ k = Decision(m)
      BY <2>2, <1>1, <1>3
    <3>2. n \in 1..(k - 1)
      BY <3>1, <1>1
    <3>3. Leads(M[n], k)
      BY <3>1, <1>4
    <3> QED BY <3>2, <3>3
  <2> QED BY <2>1, <2>2
<1>6. ASSUME NEW k \in 1..Len(M), M[k].else # <<>>
      PROVE  NeedsDefault(M[k].matrix, M[k].col, E[OccOf(M[k])].type)
  <2>1. k \in 1..K
    BY <1>3, <1>6, NodeStarts
  <2>2. NodeOK(ledger, nodes, k)
    BY <1>1, <2>1
  <2>3. M[k].matrix = nodes[k].matrix /\ M[k].col = nodes[k].col /\ OccOf(M[k]) = OccOf(nodes[k])
    BY <1>4, <2>1 DEF OccOf
  <2>4. nodes[k].kind \in {"open", "test"}
    <3>1. CASE k = n
      BY <3>1
    <3>2. CASE k # n
      BY <3>2, <2>1, <2>2, <1>4, <1>6 DEF NodeOK, IsNode
    <3> QED BY <3>1, <3>2
  <2>5. nodes[k].col \in 1..Len(nodes[k].matrix.occs) /\ Mentions(nodes[k].matrix) \subseteq 1..Len(ledger)
    BY <2>2, <2>4 DEF NodeOK, Edged
  <2>6. OccOf(nodes[k]) \in 1..Len(ledger)
    BY <2>5 DEF OccOf, Mentions
  <2>7. E[OccOf(M[k])] = ledger[OccOf(nodes[k])]
    BY <2>3, <2>6 DEF Extends
  <2>8. NeedsDefault(nodes[k].matrix, nodes[k].col, ledger[OccOf(nodes[k])].type)
    <3>1. CASE k = n
      <4>1. d.else # <<>> /\ OccOf(d) = OccOf(nodes[n])
        BY <3>1, <1>4, <1>6 DEF OccOf
      <4> QED BY <4>1, <3>1
    <3>2. CASE k # n
      BY <3>2, <2>1, <1>4, <1>6 DEF Grounded
    <3> QED BY <3>1, <3>2
  <2> QED BY <2>3, <2>7, <2>8
<1>8. ASSUME NEW k \in 1..Len(M) PROVE Rests(M[k])
  <2>1. CASE k \in 1..K
    BY <2>1, <1>4 DEF Grounded
  <2>2. CASE k \notin 1..K
    BY <2>2, <1>3, NodeStarts DEF Rests
  <2> QED BY <2>1, <2>2
<1>7. \E b \in Nat : \E g : Above(M, b, g)
  <2>0. PICK b \in Nat : \E g : Above(nodes, b, g)
    BY DEF Grounded
  <2>1. PICK g : Above(nodes, b, g)
    BY <2>0
  <2> DEFINE h == [k \in 1..Len(M) |-> IF k \in 1..K THEN g[k] ELSE 0]
  <2>2. h \in [1..Len(M) -> 0..b]
    BY <2>1 DEF Above
  <2>3. ASSUME NEW j \in 1..Len(M), M[j].kind = "test", NEW k \in 1..Len(M), Leads(M[j], k) PROVE h[k] < h[j]
    <3>1. j \in 1..K /\ j # n /\ M[j] = nodes[j]
      <4>1. j \in 1..K
        BY <2>3, <1>3, NodeStarts
      <4> QED BY <4>1, <2>3, <1>4
    <3>2. k \in 1..K
      BY <2>3, <3>1, <1>1, NodeLeads
    <3>3. g[k] < g[j]
      BY <2>1, <2>3, <3>1, <3>2 DEF Above
    <3> QED BY <3>1, <3>2, <3>3
  <2> HIDE DEF h
  <2>4. Above(M, b, h)
    BY <2>2, <2>3 DEF Above
  <2> QED BY <2>4
<1> QED BY <1>5, <1>6, <1>7, <1>8 DEF Grounded, M

LEMMA BranchGrounds ==
  ASSUME MatchInv, Grounded(ledger, nodes), NEW n \in DOMAIN nodes, CompileBranch(n)
  PROVE  Grounded(ledger', nodes')
<1> DEFINE old == nodes[n]
           c == KeysOf(n)[Len(old.to) + 1]
           E == Extended(ledger, Occ(n), c)
           m == Specialize(old.matrix, old.col, c, E)
           e == <<c, Decision(m)>>
           d == RecordOf(old.kind, old.matrix, old.col, Append(old.to, e), old.else, old.free)
           P == [nodes EXCEPT ![n].to = Append(@, e)]
<1>1. nodes[n].kind = "open"
  BY DEF CompileBranch, Current
<1>2. /\ n \in 1..Len(nodes) /\ nodes # <<>> /\ Ledgered(ledger) /\ IsSeq(nodes)
      /\ IsNode(old) /\ Edged(ledger, nodes, old)
      /\ Occ(n) \in 1..Len(ledger) /\ KeysOf(n) = KeysAt(old, ledger)
      /\ Covers(old.matrix, old.col, ledger[Occ(n)].type, KeysOf(n))
  BY <1>1, OpenIs DEF MatchInv
<1>3. /\ Len(old.to) < Len(KeysOf(n)) /\ ledger' = E /\ nodes' = P \o Compiled(m)
  BY DEF CompileBranch
<1>4. IsSeq(old.to) /\ Len(old.to) \in Nat
  BY <1>2 DEF Edged, IsSeq
<1>5. c \in DOMAIN Fields
  <2>1. Len(KeysOf(n)) \in Nat
    BY <1>2 DEF Covers, IsSeq
  <2>2. Len(old.to) + 1 \in 1..Len(KeysOf(n))
    BY <2>1, <1>3, <1>4
  <2> QED BY <2>2, <1>2 DEF Covers
<1>6. Ledgered(E) /\ Extends(ledger, E)
  BY <1>2, <1>5, ExtendedIs
<1> HIDE DEF c, E, m
<1>7. Changed(nodes, n, d, P)
  BY <1>2, EdgeAdded
<1>8. d.kind = "open" /\ d.matrix = old.matrix /\ d.col = old.col /\ d.else = old.else /\ d.to = Append(old.to, e)
  BY <1>1 DEF RecordOf
<1> HIDE DEF d, P
<1>9. Leads(d, Decision(m)) /\ \A k : Leads(old, k) => Leads(d, k)
  <2>1. /\ Len(d.to) = Len(old.to) + 1 /\ d.to[Len(old.to) + 1] = e
        /\ \A i \in 1..Len(old.to) : d.to[i] = old.to[i]
    BY <1>4, <1>8, AppendIs
  <2>2. e[2] = Decision(m)
    OBVIOUS
  <2>3. Len(old.to) + 1 \in 1..Len(d.to)
    BY <1>4, <2>1
  <2>4. \A i \in 1..Len(old.to) : i \in 1..Len(d.to)
    BY <1>4, <2>1
  <2> HIDE DEF e, old
  <2> QED BY <1>8, <2>1, <2>2, <2>3, <2>4 DEF Leads
<1>10. d.else # <<>> => NeedsDefault(d.matrix, d.col, ledger[OccOf(d)].type)
  BY <1>2, <1>8 DEF Grounded, OccOf
<1>11. Rests(d)
  BY <1>2, <1>8 DEF Grounded, Rests
<1> QED BY <1>1, <1>2, <1>3, <1>6, <1>7, <1>8, <1>9, <1>10, <1>11, OpenLinks

LEMMA DefaultGrounds ==
  ASSUME MatchInv, Grounded(ledger, nodes), NEW n \in DOMAIN nodes, CompileDefault(n)
  PROVE  Grounded(ledger', nodes')
<1> DEFINE old == nodes[n]
           m == Default(old.matrix, old.col)
           d == RecordOf(old.kind, old.matrix, old.col, old.to, <<Decision(m)>>, old.free)
           P == [nodes EXCEPT ![n].else = <<Decision(m)>>]
<1>1. nodes[n].kind = "open"
  BY DEF CompileDefault, Current
<1>2. /\ n \in 1..Len(nodes) /\ nodes # <<>> /\ Ledgered(ledger) /\ IsSeq(nodes) /\ IsNode(old)
      /\ OccOf(old) = Occ(n)
  BY <1>1, OpenIs DEF MatchInv
<1>3. /\ Partial(n) /\ old.else = <<>> /\ nodes' = P \o Compiled(m) /\ ledger' = ledger
  BY DEF CompileDefault
<1>4. Extends(ledger, ledger)
  BY <1>2 DEF Extends, Ledgered, IsSeq
<1> HIDE DEF m
<1>5. Changed(nodes, n, d, P)
  BY <1>2, DefaultAdded
<1>6. d.kind = "open" /\ d.matrix = old.matrix /\ d.col = old.col /\ d.else = <<Decision(m)>> /\ d.to = old.to
  BY <1>1 DEF RecordOf
<1> HIDE DEF d, P
<1>7. Leads(d, Decision(m)) /\ \A k : Leads(old, k) => Leads(d, k)
  <2>1. Range(<<Decision(m)>>) = {Decision(m)} /\ Range(<<>>) = {}
    BY DEF Range
  <2> QED BY <1>3, <1>6, <2>1 DEF Leads
<1>8. NeedsDefault(d.matrix, d.col, ledger[OccOf(d)].type)
  BY <1>2, <1>3, <1>6 DEF Partial, OccOf
<1>9. Rests(d)
  BY <1>6 DEF Rests
<1> QED BY <1>1, <1>2, <1>3, <1>4, <1>5, <1>6, <1>7, <1>8, <1>9, OpenLinks

LEMMA DecideGrounds ==
  ASSUME MatchInv, Grounded(ledger, nodes), NEW n \in DOMAIN nodes, Decide(n)
  PROVE  Grounded(ledger', nodes')
<1> DEFINE old == nodes[n]
           K == Len(nodes)
           free == FreeBefore(n)
           d == RecordOf("test", old.matrix, old.col, old.to, old.else, free)
           P == [nodes EXCEPT ![n].kind = "test", ![n].free = free]
<1>1. nodes[n].kind = "open" /\ \A k \in DOMAIN nodes : nodes[k].kind = "open" => k <= n
  BY DEF Decide, Current
<1>2. /\ n \in 1..K /\ K \in Nat /\ DOMAIN nodes = 1..K /\ nodes # <<>> /\ Ledgered(ledger) /\ IsSeq(nodes) /\ IsNode(old)
      /\ Ahead(nodes, n, old) /\ \A k \in 1..K : NodeOK(ledger, nodes, k)
  BY <1>1, OpenIs DEF MatchInv, IsSeq
<1>3. nodes' = P /\ ledger' = ledger
  BY DEF Decide
<1> HIDE DEF free
<1>4. Changed(nodes, n, d, P)
  BY <1>2, TestMade
<1>5. d.matrix = old.matrix /\ d.col = old.col /\ d.else = old.else /\ d.to = old.to
  BY DEF RecordOf
<1> HIDE DEF d, P
<1>6. /\ Len(P) = K /\ P[n] = d /\ \A k \in 1..K : k # n => P[k] = nodes[k]
  BY <1>4 DEF Changed
<1>7. ASSUME NEW k \in 1..K
      PROVE  /\ P[k].matrix = nodes[k].matrix /\ P[k].col = nodes[k].col /\ P[k].else = nodes[k].else
             /\ P[k].to = nodes[k].to
  BY <1>5, <1>6
<1>8. \A j \in 1..K : \A k : Leads(P[j], k) <=> Leads(nodes[j], k)
  BY <1>7 DEF Leads
<1>9. \A k \in 2..K : \E j \in 1..(k - 1) : Leads(P[j], k)
  <2> SUFFICES ASSUME NEW k \in 2..K PROVE \E j \in 1..(k - 1) : Leads(P[j], k)
    OBVIOUS
  <2>1. PICK j \in 1..(k - 1) : Leads(nodes[j], k)
    BY DEF Grounded
  <2>2. j \in 1..K
    BY <1>2
  <2> QED BY <1>8, <2>1, <2>2
<1>10. \A k \in 1..K : P[k].else # <<>> => NeedsDefault(P[k].matrix, P[k].col, ledger[OccOf(P[k])].type)
  BY <1>7 DEF Grounded, OccOf
<1>12. \A k \in 1..K : Rests(P[k])
  BY <1>7 DEF Grounded, Rests
\* It leads to nothing that is open, so nothing decided leads to it: it may be put on top.
<1>11. \E b \in Nat : \E g : Above(P, b, g)
  <2>0. PICK b \in Nat : \E g : Above(nodes, b, g)
    BY DEF Grounded
  <2>1. PICK g : Above(nodes, b, g)
    BY <2>0
  <2> DEFINE h == [k \in 1..K |-> IF k = n THEN b + 1 ELSE g[k]]
  <2>2. \A k \in 1..K : g[k] \in 0..b
    BY <2>1 DEF Above
  <2>3. h \in [1..Len(P) -> 0..(b + 1)]
    BY <1>6, <2>2
  <2>4. ASSUME NEW j \in 1..K, P[j].kind = "test", NEW k \in 1..K, Leads(P[j], k) PROVE h[k] < h[j]
    <3>1. Leads(nodes[j], k)
      BY <2>4, <1>8
    <3>2. k # n
      <4>1. CASE j = n
        <5>1. k > n \/ nodes[k].kind # "open"
          BY <3>1, <4>1, <1>2 DEF Ahead, Leads
        <5> QED BY <5>1, <1>1, <1>2
      <4>2. CASE j # n
        <5>1. nodes[j].kind = "test" /\ NodeOK(ledger, nodes, j)
          BY <4>2, <2>4, <1>2, <1>6
        <5>2. nodes[k].kind # "open"
          BY <5>1, <3>1 DEF NodeOK, Decided, Leads
        <5> QED BY <5>2, <1>1
      <4> QED BY <4>1, <4>2
    <3>3. CASE j = n
      BY <3>2, <3>3, <2>2
    <3>4. CASE j # n
      <4>1. nodes[j].kind = "test"
        BY <3>4, <2>4, <1>6
      <4>2. g[k] < g[j]
        BY <4>1, <3>1, <2>1 DEF Above
      <4> QED BY <4>2, <3>2, <3>4
    <3> QED BY <3>3, <3>4
  <2> HIDE DEF h
  <2>5. Above(P, b + 1, h)
    BY <1>6, <2>3, <2>4 DEF Above
  <2> QED BY <2>5
<1> QED BY <1>3, <1>6, <1>9, <1>10, <1>11, <1>12 DEF Grounded

LEMMA CaseGrounds ==
  ASSUME CompileCase
  PROVE  Grounded(ledger', nodes')
<1> DEFINE m == Matrix(site, arms)
           N == <<Node(m)>>
<1>1. nodes' = N
  BY DEF CompileCase
<1> HIDE DEF m
<1>2. Len(N) = 1 /\ N[1] = Node(m)
  OBVIOUS
<1> HIDE DEF N
<1>3. \A n \in 2..Len(N) : FALSE
  BY <1>2
<1>4. \A n \in 1..Len(N) : N[n].else = <<>> /\ N[n].kind # "test" /\ Rests(N[n])
  BY <1>2, NodeStarts DEF Rests
<1>5. Above(N, 0, [k \in 1..Len(N) |-> 0])
  BY <1>4 DEF Above
<1>6. \E b \in Nat : \E g : Above(N, b, g)
  BY <1>5
<1> QED BY <1>1, <1>3, <1>4, <1>6 DEF Grounded

MatchGraph == MatchInv /\ (nodes # <<>> => Grounded(ledger, nodes))

LEMMA GraphSteps ==
  ASSUME MatchGraph, [MatchNext]_matchVars
  PROVE  MatchGraph'
<1>1. MatchInv /\ MatchInv' /\ (nodes # <<>> => Grounded(ledger, nodes))
  BY MatchSteps DEF MatchGraph
<1>2. Range(<<>>) = {} /\ DOMAIN <<>> = {}
  BY DEF Range
<1>3. CASE CompileCase
  BY <1>1, <1>3, CaseGrounds DEF MatchGraph, Grounded, Above, Rests
<1>4. CASE \E n \in DOMAIN nodes : CompileBranch(n) \/ CompileDefault(n) \/ Decide(n)
  <2>1. PICK n \in DOMAIN nodes : CompileBranch(n) \/ CompileDefault(n) \/ Decide(n)
    BY <1>4
  <2>2. nodes # <<>>
    BY <1>2, <2>1
  <2>3. Grounded(ledger', nodes')
    BY <1>1, <2>1, <2>2, BranchGrounds, DefaultGrounds, DecideGrounds
  <2> QED BY <1>1, <2>3 DEF MatchGraph, Grounded, Above, Rests
<1>5. CASE UNCHANGED <<ledger, nodes>>
  BY <1>1, <1>5 DEF MatchGraph, Grounded, Above, Rests
<1>6. CASE AddArm \/ StartCase \/ UNCHANGED matchVars
  <2>1. UNCHANGED <<ledger, nodes>>
    BY <1>6 DEF AddArm, StartCase, matchVars
  <2> QED BY <2>1, <1>5
<1>7. CASE point # 0 /\ ((\E e \in Range(nodes[point].to) : Take(point, e)) \/ TakeDefault(point))
  <2>1. UNCHANGED <<ledger, nodes>>
    BY <1>7 DEF Take, TakeDefault
  <2> QED BY <2>1, <1>5
<1> QED BY <1>3, <1>4, <1>6, <1>7 DEF MatchNext

-----------------------------------------------------------------------------
\* What is defined from a parent exists.
Rises(n, up, T, b, F) ==
    /\ n \in Nat /\ b \in T
    /\ \A k \in 2..n : up[k] \in 1..(k - 1) /\ \A x \in T : F[k][x] \in T

Unfolds(f, n, up, T, b, F) ==
    f \in [1..n -> T] /\ \A k \in 1..n : f[k] = IF k = 1 THEN b ELSE F[k][f[up[k]]]

LEMMA FromParents ==
  ASSUME NEW n, NEW up, NEW T, NEW b, NEW F, Rises(n, up, T, b, F)
  PROVE  \E f : Unfolds(f, n, up, T, b, F)
<1> USE DEF Rises, Unfolds
<1> DEFINE Is(f, j) == f \in [1..j -> T] /\ \A k \in 1..j : f[k] = IF k = 1 THEN b ELSE F[k][f[up[k]]]
           S == {j \in Nat : j <= n => \E f : Is(f, j)}
<1>1. 0 \in S
  <2>1. Is([k \in 1..0 |-> b], 0)
    OBVIOUS
  <2> QED BY <2>1
<1>2. ASSUME NEW j \in Nat, j \in S PROVE j + 1 \in S
  <2> SUFFICES ASSUME j + 1 <= n PROVE \E f : Is(f, j + 1)
    OBVIOUS
  <2>1. PICK f : Is(f, j)
    BY <1>2
  <2> DEFINE new == IF j + 1 = 1 THEN b ELSE F[j + 1][f[up[j + 1]]]
             g == [k \in 1..(j + 1) |-> IF k = j + 1 THEN new ELSE f[k]]
  <2>2. new \in T
    <3>1. CASE j = 0
      BY <3>1
    <3>2. CASE j # 0
      <4>1. j + 1 \in 2..n
        BY <3>2
      <4>2. up[j + 1] \in 1..j
        BY <4>1
      <4>3. f[up[j + 1]] \in T
        BY <4>2, <2>1
      <4> QED BY <3>2, <4>1, <4>3
    <3> QED BY <3>1, <3>2
  <2>3. ASSUME NEW k \in 1..(j + 1) PROVE g[k] \in T /\ g[k] = IF k = 1 THEN b ELSE F[k][g[up[k]]]
    <3>1. CASE k = 1 /\ k = j + 1
      BY <2>2, <3>1
    <3>2. CASE k = 1 /\ k # j + 1
      BY <2>1, <3>2
    <3>3. CASE k # 1
      <4>1. up[k] \in 1..(k - 1)
        BY <3>3
      <4>2. up[k] # j + 1 /\ up[k] \in 1..(j + 1)
        BY <4>1
      <4>3. g[up[k]] = f[up[k]]
        BY <4>2
      <4>4. CASE k = j + 1
        BY <2>2, <3>3, <4>3, <4>4
      <4>5. CASE k # j + 1
        <5>1. k \in 1..j /\ g[k] = f[k]
          BY <4>5
        <5>2. f[k] \in T /\ f[k] = IF k = 1 THEN b ELSE F[k][f[up[k]]]
          BY <5>1, <2>1
        <5> QED BY <5>1, <5>2, <4>3, <3>3
      <4> QED BY <4>4, <4>5
    <3> QED BY <3>1, <3>2, <3>3
  <2>4. g \in [1..(j + 1) -> T]
    BY <2>3
  <2> HIDE DEF g
  <2> QED BY <2>3, <2>4
<1>3. n \in S
  <2> HIDE DEF S
  <2> QED BY <1>1, <1>2, AllNumbers
<1>4. PICK f : Is(f, n)
  BY <1>3
<1> QED BY <1>4

LEMMA LedgerIs ==
  ASSUME Ledgered(ledger)
  PROVE  /\ DOMAIN ledger = 1..Len(ledger) /\ Len(ledger) \in Nat /\ Root \in 1..Len(ledger)
         /\ \A k \in 1..Len(ledger) : k # Root => k \in 2..Len(ledger)
         /\ \A k \in 2..Len(ledger) : k # Root /\ ledger[k].parent \in 1..(k - 1) /\ ledger[k].field \in Nat
<1>1. DOMAIN ledger = 1..Len(ledger) /\ Len(ledger) \in Nat /\ Root \in 1..Len(ledger)
  BY DEF Ledgered, IsSeq, Root
<1>2. ASSUME NEW k \in 2..Len(ledger) PROVE k # Root /\ ledger[k].parent \in 1..(k - 1) /\ ledger[k].field \in Nat
  <2>1. ledger[k].parent \in 1..(k - 1) /\ ledger[k].field \in DOMAIN Fields[ledger[k].head] /\ ledger[k].head \in DOMAIN Fields
    BY DEF Ledgered
  <2>2. Fields[ledger[k].head] \in Seq(DOMAIN Signature \union DOMAIN Literals)
    BY <2>1, TypeAssumption
  <2> QED BY <1>1, <2>1, <2>2 DEF Root
<1> QED BY <1>1, <1>2 DEF Root

LEMMA PositionsAre ==
  ASSUME Ledgered(ledger)
  PROVE  /\ PositionOf[Root] = <<>> /\ \A k \in 1..Len(ledger) : PositionOf[k] \in Seq(Nat)
         /\ \A k \in 2..Len(ledger) : PositionOf[k] = PositionOf[ledger[k].parent] \o <<ledger[k].field>>
<1> DEFINE n == Len(ledger)
           up == [k \in 2..n |-> ledger[k].parent]
           T == Seq(Nat)
           F == [k \in 2..n |-> [x \in T |-> Append(x, ledger[k].field)]]
           Is(f) == f = [o \in DOMAIN ledger |-> IF o = Root THEN <<>> ELSE Append(f[ledger[o].parent], ledger[o].field)]
<1>1. /\ DOMAIN ledger = 1..n /\ n \in Nat /\ Root \in 1..n /\ Root = 1
      /\ \A k \in 1..n : k # Root => k \in 2..n
      /\ \A k \in 2..n : k # Root /\ ledger[k].parent \in 1..(k - 1) /\ ledger[k].field \in Nat
  BY LedgerIs DEF Root
<1>2. PositionOf = CHOOSE f : Is(f)
  BY DEF PositionOf
<1>3. /\ \A k \in 2..n : up[k] \in 1..(k - 1) /\ up[k] = ledger[k].parent
      /\ \A k \in 2..n : \A x \in T : F[k][x] = Append(x, ledger[k].field) /\ F[k][x] \in T
      /\ <<>> \in T
  <2>1. ASSUME NEW k \in 2..n, NEW x \in T PROVE F[k][x] = Append(x, ledger[k].field) /\ F[k][x] \in T
    BY <1>1
  <2> QED BY <1>1, <2>1
<1> HIDE DEF up, F
<1>4. PICK f : Unfolds(f, n, up, T, <<>>, F)
  <2>1. Rises(n, up, T, <<>>, F)
    BY <1>1, <1>3 DEF Rises
  <2> QED BY <2>1, FromParents
<1>5. f \in [1..n -> T] /\ \A k \in 1..n : f[k] = IF k = 1 THEN <<>> ELSE F[k][f[up[k]]]
  BY <1>4 DEF Unfolds
<1>6. \E g : Is(g)
  <2>1. ASSUME NEW k \in 1..n PROVE f[k] = IF k = Root THEN <<>> ELSE Append(f[ledger[k].parent], ledger[k].field)
    <3>1. CASE k = 1
      BY <1>1, <1>5, <3>1
    <3>2. CASE k # 1
      <4>1. k \in 2..n /\ up[k] \in 1..n /\ up[k] = ledger[k].parent
        BY <1>1, <1>3, <3>2
      <4>2. f[up[k]] \in T
        BY <4>1, <1>5
      <4>3. f[k] = F[k][f[up[k]]] /\ k # Root
        BY <1>1, <1>5, <3>2, <4>1
      <4>4. F[k][f[up[k]]] = Append(f[up[k]], ledger[k].field)
        BY <1>3, <4>1, <4>2
      <4> QED BY <4>1, <4>3, <4>4
    <3> QED BY <3>1, <3>2
  <2>2. Is(f)
    BY <1>1, <1>5, <2>1
  <2> HIDE DEF Is
  <2> QED BY <2>2
<1>7. Is(PositionOf)
  <2> HIDE DEF Is
  <2> QED BY <1>2, <1>6
<1>8. PositionOf[Root] = <<>> /\ \A k \in 2..n : PositionOf[k] = Append(PositionOf[ledger[k].parent], ledger[k].field)
  <2>1. \A k \in 1..n : PositionOf[k] = IF k = Root THEN <<>> ELSE Append(PositionOf[ledger[k].parent], ledger[k].field)
    <3> HIDE DEF n
    <3> QED BY <1>1, <1>7
  <2>2. \A k \in 2..n : k \in 1..n /\ k # Root
    BY <1>1
  <2> QED BY <1>1, <2>1, <2>2
<1>9. \A k \in 1..n : PositionOf[k] \in T
  <2> SUFFICES ASSUME {k \in 1..n : PositionOf[k] \notin T} # {} PROVE FALSE
    OBVIOUS
  <2> DEFINE C == {k \in 1..n : PositionOf[k] \notin T}
  <2>1. C \in SUBSET Nat /\ C # {}
    OBVIOUS
  <2>2. PICK k \in C : \A j \in C : k <= j
    BY <2>1, LeastNat
  <2>3. k # Root
    <3>1. PositionOf[k] \notin T /\ <<>> \in T
      BY <1>3
    <3> QED BY <3>1, <1>8
  <2>4. k \in 2..n /\ ledger[k].parent \in 1..(k - 1) /\ ledger[k].field \in Nat
    BY <1>1, <2>3
  <2>5. ledger[k].parent \notin C /\ ledger[k].parent \in 1..n
    BY <2>2, <2>4
  <2>6. PositionOf[ledger[k].parent] \in T
    BY <2>5
  <2>7. PositionOf[k] \in T
    <3>1. Append(PositionOf[ledger[k].parent], ledger[k].field) \in T
      BY <2>4, <2>6
    <3> QED BY <3>1, <2>4, <1>8
  <2> QED BY <2>7
<1>10. ASSUME NEW k \in 2..n PROVE PositionOf[k] = PositionOf[ledger[k].parent] \o <<ledger[k].field>>
  <2> DEFINE q == PositionOf[ledger[k].parent]
             i == ledger[k].field
  <2>1. q \in Seq(Nat) /\ i \in Nat
    BY <1>1, <1>9
  <2>2. PositionOf[k] = Append(q, i)
    BY <1>8
  <2> HIDE DEF q, i
  <2>3. Append(q, i) = q \o <<i>>
    BY <2>1
  <2> QED BY <2>2, <2>3 DEF q, i
<1> QED BY <1>8, <1>9, <1>10

\* The parts of a value that its occurrences stand for.
PartAt(v) == [k \in 1..Len(ledger) |-> Under(v, PositionOf[k])]

Spread(v, D) ==
    /\ D \subseteq 1..Len(ledger) /\ Root \in D
    /\ \A k \in 2..Len(ledger) :
          k \in D <=> ledger[k].parent \in D /\ PartAt(v)[ledger[k].parent][<<>>].head = ledger[k].head

Present(v) == CHOOSE D : Spread(v, D)

LEMMA PresentIs ==
  ASSUME Ledgered(ledger), NEW v
  PROVE  Spread(v, Present(v))
<1> DEFINE n == Len(ledger)
           up == [k \in 2..n |-> ledger[k].parent]
           Fit(k) == PartAt(v)[ledger[k].parent][<<>>].head = ledger[k].head
           F == [k \in 2..n |-> [x \in BOOLEAN |-> x /\ Fit(k)]]
<1>1. /\ n \in Nat /\ Root \in 1..n /\ Root = 1
      /\ \A k \in 2..n : k # Root /\ ledger[k].parent \in 1..(k - 1)
  BY LedgerIs DEF Root
<1>2. /\ \A k \in 2..n : up[k] \in 1..(k - 1) /\ up[k] = ledger[k].parent
      /\ \A k \in 2..n : \A x \in BOOLEAN : (F[k][x] <=> x /\ Fit(k)) /\ F[k][x] \in BOOLEAN
  BY <1>1
<1> HIDE DEF up, F, Fit
<1>3. PICK f : Unfolds(f, n, up, BOOLEAN, TRUE, F)
  <2>1. Rises(n, up, BOOLEAN, TRUE, F)
    BY <1>1, <1>2 DEF Rises
  <2> QED BY <2>1, FromParents
<1>4. f \in [1..n -> BOOLEAN] /\ \A k \in 1..n : f[k] = IF k = 1 THEN TRUE ELSE F[k][f[up[k]]]
  BY <1>3 DEF Unfolds
<1> DEFINE D == {k \in 1..n : f[k]}
<1>5. ASSUME NEW k \in 2..n PROVE k \in D <=> ledger[k].parent \in D /\ Fit(k)
  <2>1. k \in 1..n /\ k # 1 /\ up[k] \in 1..n /\ up[k] = ledger[k].parent
    BY <1>1, <1>2
  <2>2. f[k] = F[k][f[up[k]]] /\ f[up[k]] \in BOOLEAN
    BY <2>1, <1>4
  <2>3. f[k] <=> f[up[k]] /\ Fit(k)
    BY <2>2, <1>2
  <2> QED BY <2>1, <2>3
<1>6. Root \in D
  BY <1>1, <1>4
<1>7. Spread(v, D)
  BY <1>5, <1>6 DEF Spread, Fit
<1> HIDE DEF D
<1> QED BY <1>7 DEF Present

Placed(v, k) == /\ PositionOf[k] \in DOMAIN v /\ PartAt(v)[k][<<>>] = v[PositionOf[k]]
                /\ IsValue(PartAt(v)[k], ledger[k].type)

LEMMA RootPlaced ==
  ASSUME Ledgered(ledger), NEW v, IsValue(v, site)
  PROVE  PartAt(v)[Root] = v /\ Placed(v, Root)
<1>1. IsTree(v)
  BY DEF IsValue
<1>2. v = [q \in DOMAIN v |-> v[q]] /\ <<>> \in DOMAIN v /\ DOMAIN v \subseteq Seq(Nat)
  BY <1>1 DEF IsTree
<1>3. Root \in 1..Len(ledger) /\ PositionOf[Root] = <<>> /\ ledger[Root].type = site
  BY LedgerIs, PositionsAre DEF Ledgered, Root
<1>4. PartAt(v)[Root] = v
  <2>1. Under(v, <<>>) = v
    BY <1>2, UnderRoot
  <2> QED BY <2>1, <1>3 DEF PartAt
<1> QED BY <1>2, <1>3, <1>4 DEF Placed

LEMMA ChildPlaced ==
  ASSUME Ledgered(ledger), NEW v, IsValue(v, site), NEW k \in 2..Len(ledger), Placed(v, ledger[k].parent),
         PartAt(v)[ledger[k].parent][<<>>].head = ledger[k].head
  PROVE  Placed(v, k) /\ PartAt(v)[k] = Under(PartAt(v)[ledger[k].parent], <<ledger[k].field>>)
<1> DEFINE p == ledger[k].parent
           i == ledger[k].field
           u == PartAt(v)[p]
           w == PartAt(v)[k]
<1>1. /\ p \in 1..Len(ledger) /\ k \in 1..Len(ledger) /\ i \in Nat
      /\ PositionOf[p] \in Seq(Nat) /\ PositionOf[k] = PositionOf[p] \o <<i>> /\ PositionOf[k] \in Seq(Nat)
  <2>1. p \in 1..(k - 1) /\ i \in Nat
    BY LedgerIs
  <2>2. Len(ledger) \in Nat
    BY LedgerIs
  <2>3. p \in 1..Len(ledger) /\ k \in 1..Len(ledger)
    BY <2>1, <2>2
  <2>4. PositionOf[p] \in Seq(Nat) /\ PositionOf[k] \in Seq(Nat)
    BY <2>3, PositionsAre
  <2>5. PositionOf[k] = PositionOf[p] \o <<i>>
    BY PositionsAre
  <2> QED BY <2>1, <2>3, <2>4, <2>5
<1>2. DOMAIN v \subseteq Seq(Nat)
  BY DEF IsValue, IsTree
<1>3. u = Under(v, PositionOf[p]) /\ w = Under(v, PositionOf[k])
  BY <1>1 DEF PartAt
<1>4. IsValue(u, ledger[p].type) /\ u[<<>>].head = ledger[k].head
  BY DEF Placed
<1>5. /\ ledger[k].head \in DOMAIN Fields /\ i \in DOMAIN Fields[ledger[k].head]
      /\ ledger[k].type = Fields[ledger[k].head][i]
  BY DEF Ledgered
<1> HIDE DEF p, i, u, w
<1>6. w = Under(u, <<i>>)
  <2> DEFINE q == PositionOf[p]
             r == <<i>>
  <2>1. r \in Seq(Nat) /\ q \in Seq(Nat) /\ PositionOf[k] = q \o r
    BY <1>1
  <2>2. u = Under(v, q) /\ w = Under(v, PositionOf[k])
    BY <1>3
  <2> HIDE DEF q, r
  <2>3. Under(Under(v, q), r) = Under(v, q \o r)
    BY <2>1, <1>2, UnderUnder
  <2>4. w = Under(u, r)
    BY <2>1, <2>2, <2>3
  <2> QED BY <2>4 DEF r
<1>7. IsValue(w, ledger[k].type)
  <2>1. i \in Arity(u[<<>>].head)
    BY <1>4, <1>5 DEF Arity
  <2>2. IsValue(Under(u, <<i>>), Fields[u[<<>>].head][i])
    BY <2>1, <1>4, ValueFields
  <2> QED BY <2>2, <1>4, <1>5, <1>6
<1>8. PositionOf[k] \in DOMAIN v /\ w[<<>>] = v[PositionOf[k]]
  <2>1. <<>> \in DOMAIN w /\ <<>> \in Seq(Nat)
    BY <1>7 DEF IsValue, IsTree
  <2>2. PositionOf[k] \o <<>> = PositionOf[k]
    BY <1>1, ConcatEmptySeq
  <2>3. /\ \A r \in Seq(Nat) : r \in DOMAIN w <=> PositionOf[k] \o r \in DOMAIN v
        /\ \A r \in DOMAIN w : w[r] = v[PositionOf[k] \o r]
    BY <1>1, <1>2, <1>3, UnderIs
  <2> QED BY <2>1, <2>2, <2>3
<1> QED BY <1>6, <1>7, <1>8 DEF Placed, w, u, p, i

LEMMA PartsAre ==
  ASSUME Ledgered(ledger), NEW v, IsValue(v, site)
  PROVE  /\ Root \in Present(v) /\ PartAt(v)[Root] = v
         /\ \A k \in Present(v) : k \in 1..Len(ledger) /\ Placed(v, k)
         /\ \A o \in Present(v) : \A k \in Children(ledger, o, PartAt(v)[o][<<>>].head) :
               k \in Present(v) /\ PartAt(v)[k] = Under(PartAt(v)[o], <<ledger[k].field>>)
<1>1. Spread(v, Present(v))
  BY PresentIs
<1>2. ASSUME NEW k \in Present(v) PROVE k \in 1..Len(ledger) /\ Placed(v, k)
  <2>1. \A j \in Present(v) : j \in 1..Len(ledger)
    BY <1>1 DEF Spread
  <2> DEFINE C == {j \in Present(v) : ~Placed(v, j)}
  <2> SUFFICES ASSUME C # {} PROVE FALSE
    BY <2>1
  <2>2. C \in SUBSET Nat
    BY <2>1
  <2>3. PICK j \in C : \A l \in C : j <= l
    BY <2>2, LeastNat
  <2>4. j \in Present(v) /\ ~Placed(v, j) /\ j \in 1..Len(ledger)
    BY <2>1, <2>3
  <2>5. j \in 2..Len(ledger)
    BY <2>4, RootPlaced, LedgerIs
  <2>6. ledger[j].parent \in Present(v) /\ PartAt(v)[ledger[j].parent][<<>>].head = ledger[j].head
    BY <1>1, <2>4, <2>5 DEF Spread
  <2>7. ledger[j].parent \in 1..(j - 1)
    BY <2>5, LedgerIs
  <2>8. ledger[j].parent \notin C
    BY <2>3, <2>5, <2>7
  <2>9. Placed(v, ledger[j].parent)
    BY <2>6, <2>8
  <2> QED BY <2>4, <2>5, <2>6, <2>9, ChildPlaced
<1>3. ASSUME NEW o \in Present(v), NEW k \in Children(ledger, o, PartAt(v)[o][<<>>].head)
      PROVE  k \in Present(v) /\ PartAt(v)[k] = Under(PartAt(v)[o], <<ledger[k].field>>)
  <2>1. k \in 1..Len(ledger) /\ ledger[k].parent = o /\ ledger[k].head = PartAt(v)[o][<<>>].head
    BY LedgerIs DEF Children
  <2>2. o \in 1..Len(ledger) /\ Placed(v, o)
    BY <1>2
  <2>3. k # Root
    BY <2>1, <2>2 DEF Ledgered, Root
  <2>4. k \in 2..Len(ledger)
    BY <2>1, <2>3, LedgerIs
  <2>5. k \in Present(v)
    BY <1>1, <2>1, <2>4 DEF Spread
  <2>6. Placed(v, ledger[k].parent) /\ PartAt(v)[ledger[k].parent][<<>>].head = ledger[k].head
    BY <2>1, <2>2
  <2> QED BY <2>1, <2>4, <2>5, <2>6, ChildPlaced
<1>4. Root \in Present(v) /\ PartAt(v)[Root] = v
  BY <1>1, RootPlaced DEF Spread
<1> QED BY <1>2, <1>3, <1>4

-----------------------------------------------------------------------------
\* The way of a value through the decisions of a case.
CaseDone == MatchInv /\ nodes # <<>> /\ nodes[1].kind # "open" /\ Grounded(ledger, nodes)

OnWay(n, v) == /\ Mentions(nodes[n].matrix) \subseteq Present(v)
               /\ Stand(nodes[n].matrix, PartAt(v), v)

LEMMA DoneIs ==
  ASSUME CaseDone
  PROVE  /\ Ledgered(ledger) /\ IsSeq(nodes) /\ Len(nodes) \in Nat /\ 1 \in 1..Len(nodes) /\ DOMAIN nodes = 1..Len(nodes)
         /\ site \in DOMAIN Arms /\ nodes[1].matrix = Matrix(site, arms) /\ ArmsAre
         /\ \A n \in 1..Len(nodes) : /\ NodeOK(ledger, nodes, n) /\ IsNode(nodes[n]) /\ nodes[n].kind \in {"fail", "leaf", "test"}
                                     /\ IsMatrix(nodes[n].matrix)
<1>1. /\ Ledgered(ledger) /\ IsSeq(nodes) /\ site \in DOMAIN Arms /\ nodes[1].matrix = Matrix(site, arms)
      /\ \A n \in 1..Len(nodes) : NodeOK(ledger, nodes, n) /\ nodes[n].kind # "open"
  BY DEF CaseDone, MatchInv
<1>2. Len(nodes) \in Nat /\ 1 \in 1..Len(nodes) /\ DOMAIN nodes = 1..Len(nodes)
  <2>1. Len(nodes) # 0 /\ Len(nodes) \in Nat /\ DOMAIN nodes = 1..Len(nodes)
    BY <1>1, NoneIs DEF CaseDone, IsSeq
  <2> QED BY <2>1
<1>3. ArmsAre
  BY ArmsHold DEF CaseDone
<1>4. ASSUME NEW n \in 1..Len(nodes)
      PROVE  IsNode(nodes[n]) /\ nodes[n].kind \in {"fail", "leaf", "test"} /\ IsMatrix(nodes[n].matrix)
  BY <1>1 DEF NodeOK, IsNode
<1> QED BY <1>1, <1>2, <1>3, <1>4

LEMMA RootOnWay ==
  ASSUME CaseDone, NEW v, IsValue(v, site)
  PROVE  OnWay(1, v)
<1>1. Ledgered(ledger) /\ nodes[1].matrix = Matrix(site, arms) /\ ArmsAre
  BY DoneIs
<1>2. Root \in Present(v) /\ PartAt(v)[Root] = v
  BY <1>1, PartsAre
<1>3. Mentions(Matrix(site, arms)) \subseteq {Root}
  BY <1>1, RootIsMatrix, MentionsWithin
<1>4. Stand(Matrix(site, arms), PartAt(v), v)
  BY <1>1, <1>2, RootStands
<1> QED BY <1>1, <1>2, <1>3, <1>4 DEF OnWay

\* What is known of a test.
Tested(n) ==
    LET d == nodes[n]
        t == ledger[Occ(n)].type
    IN  /\ Edged(ledger, nodes, d) /\ Decided(ledger, nodes, d) /\ IsMatrix(d.matrix) /\ Type(t)
        /\ d.col \in 1..Len(d.matrix.occs) /\ Occ(n) = d.matrix.occs[d.col] /\ Occ(n) \in Mentions(d.matrix)
        /\ Occ(n) \in 1..Len(ledger)
        /\ IsSeq(d.to) /\ Len(d.to) \in Nat /\ Len(d.to) = Len(KeysOf(n)) /\ Covers(d.matrix, d.col, t, KeysOf(n))
        /\ KeysOf(n) = Keys(d.matrix, d.col, t)
        /\ \A i \in 1..Len(d.to) :
              /\ d.to[i][1] = KeysOf(n)[i] /\ d.to[i][1] \in DOMAIN Fields /\ Complete(ledger, Occ(n), d.to[i][1])
              /\ d.to[i][2] \in 1..Len(nodes)
              /\ nodes[d.to[i][2]].matrix = Specialize(d.matrix, d.col, d.to[i][1], ledger)
        /\ \A k \in Range(d.else) : k \in 1..Len(nodes) /\ nodes[k].matrix = Default(d.matrix, d.col)
        /\ d.else # <<>> <=> NeedsDefault(d.matrix, d.col, t)

LEMMA TestedIs ==
  ASSUME CaseDone, NEW n \in 1..Len(nodes), nodes[n].kind = "test"
  PROVE  Tested(n)
<1> DEFINE d == nodes[n]
           t == ledger[Occ(n)].type
<1>1. NodeOK(ledger, nodes, n) /\ IsMatrix(d.matrix) /\ Ledgered(ledger) /\ site \in DOMAIN Arms
  BY DoneIs
<1>2. Edged(ledger, nodes, d) /\ Decided(ledger, nodes, d) /\ Mentions(d.matrix) \subseteq 1..Len(ledger)
  BY <1>1 DEF NodeOK
<1>3. OccOf(d) = Occ(n) /\ KeysAt(d, ledger) = KeysOf(n) /\ KeysOf(n) = Keys(d.matrix, d.col, t)
  BY DEF OccOf, Occ, KeysAt, KeysOf
<1>4. Occ(n) = d.matrix.occs[d.col]
  BY DEF Occ
<1>5. d.else # <<>> => NeedsDefault(d.matrix, d.col, t)
  BY <1>3 DEF CaseDone, Grounded
<1> HIDE DEF d
<1>6. d.col \in 1..Len(d.matrix.occs) /\ IsSeq(d.to) /\ Len(d.to) \in Nat
  BY <1>2 DEF Edged, IsSeq
<1>7. Occ(n) \in Mentions(d.matrix) /\ Occ(n) \in 1..Len(ledger)
  BY <1>2, <1>4, <1>6 DEF Mentions
<1>8. Type(t)
  BY <1>1, <1>7, TypesAre
<1>9. Covers(d.matrix, d.col, t, KeysOf(n))
  BY <1>1, <1>3, <1>6, <1>8, KeysCover
<1>10. Len(d.to) = Len(KeysOf(n)) /\ (NeedsDefault(d.matrix, d.col, t) => d.else # <<>>)
  BY <1>2, <1>3 DEF Decided
<1>11. ASSUME NEW i \in 1..Len(d.to)
       PROVE  /\ d.to[i][1] = KeysOf(n)[i] /\ d.to[i][1] \in DOMAIN Fields /\ Complete(ledger, Occ(n), d.to[i][1])
              /\ d.to[i][2] \in 1..Len(nodes)
              /\ nodes[d.to[i][2]].matrix = Specialize(d.matrix, d.col, d.to[i][1], ledger)
  <2>1. /\ d.to[i][1] = KeysOf(n)[i] /\ Complete(ledger, Occ(n), d.to[i][1]) /\ d.to[i][2] \in 1..Len(nodes)
        /\ nodes[d.to[i][2]].matrix = Specialize(d.matrix, d.col, d.to[i][1], ledger)
    BY <1>2, <1>3 DEF Edged
  <2>2. KeysOf(n)[i] \in DOMAIN Fields
    BY <1>9, <1>10 DEF Covers
  <2> QED BY <2>1, <2>2
<1>12. \A k \in Range(d.else) : k \in 1..Len(nodes) /\ nodes[k].matrix = Default(d.matrix, d.col)
  BY <1>2 DEF Edged
<1> QED BY <1>1, <1>2, <1>3, <1>4, <1>5, <1>6, <1>7, <1>8, <1>9, <1>10, <1>11, <1>12 DEF Tested, d

\* The head of the part a test looks at.
HeadAtTest(n, v) == PartAt(v)[Occ(n)][<<>>].head

\* A head that a value of the type may have.
Heading(h, t) == HeadOf(h, t) \/ (h = Other /\ t \in DOMAIN Literals)

LEMMA LooksAt ==
  ASSUME CaseDone, NEW n \in 1..Len(nodes), nodes[n].kind = "test", NEW v, IsValue(v, site), OnWay(n, v)
  PROVE  /\ Occ(n) \in Present(v) /\ IsValue(PartAt(v)[Occ(n)], ledger[Occ(n)].type) /\ IsTree(PartAt(v)[Occ(n)])
         /\ Heading(HeadAtTest(n, v), ledger[Occ(n)].type)
<1>1. Occ(n) \in Present(v)
  BY TestedIs DEF Tested, OnWay
<1>2. IsValue(PartAt(v)[Occ(n)], ledger[Occ(n)].type)
  BY <1>1, DoneIs, PartsAre DEF Placed
<1> DEFINE w == PartAt(v)[Occ(n)]
           t == ledger[Occ(n)].type
<1>3. HeadAtTest(n, v) = w[<<>>].head /\ IsValue(w, t)
  BY <1>2 DEF HeadAtTest
<1> HIDE DEF w, t
<1>4. IsTree(w) /\ Heading(w[<<>>].head, t)
  <2>1. IsTree(w) /\ <<>> \in DOMAIN w
    BY <1>3 DEF IsValue, IsTree
  <2>2. TypeAt(w, t, <<>>) = t
    BY DEF TypeAt
  <2> QED BY <2>1, <2>2, <1>3 DEF IsValue, Heading
<1> QED BY <1>1, <1>2, <1>3, <1>4 DEF w, t

LEMMA TakesEdge ==
  ASSUME CaseDone, NEW n \in 1..Len(nodes), nodes[n].kind = "test", NEW v, IsValue(v, site), OnWay(n, v),
         NEW i \in 1..Len(nodes[n].to), nodes[n].to[i][1] = HeadAtTest(n, v)
  PROVE  OnWay(nodes[n].to[i][2], v)
<1> DEFINE d == nodes[n]
           m == d.matrix
           col == d.col
           c == d.to[i][1]
           k == d.to[i][2]
           o == Occ(n)
           V == PartAt(v)
           w == V[o]
<1>1. /\ IsMatrix(m) /\ col \in 1..Len(m.occs) /\ o = m.occs[col]
      /\ c \in DOMAIN Fields /\ Complete(ledger, o, c) /\ nodes[k].matrix = Specialize(m, col, c, ledger)
  BY TestedIs DEF Tested
<1>2. o \in Present(v) /\ IsTree(w) /\ w[<<>>].head = c
  BY LooksAt DEF HeadAtTest
<1>3. \A x \in Children(ledger, o, c) : x \in Present(v) /\ V[x] = Under(w, <<ledger[x].field>>)
  BY <1>2, DoneIs, PartsAre
<1>4. Mentions(m) \subseteq Present(v) /\ Stand(m, V, v)
  BY DEF OnWay
<1>5. ASSUME NEW j \in DOMAIN Fields[c] PROVE V[FieldsOf(ledger, m.occs[col], c)[j]] = Under(w, <<j>>)
  <2> DEFINE x == FieldsOf(ledger, m.occs[col], c)[j]
  <2>1. x \in Children(ledger, o, c) /\ ledger[x].field = j
    BY <1>1, FieldsIn
  <2> HIDE DEF x
  <2> QED BY <2>1, <1>3 DEF x
<1>6. w = V[m.occs[col]]
  BY <1>1
<1> HIDE DEF d, m, col, c, k, o, V, w
<1>7. Loaded(m, col, c, ledger, V, V, v, w)
  BY <1>1, <1>2, <1>4, <1>5, <1>6 DEF Loaded
<1>8. Stand(nodes[k].matrix, V, v)
  BY <1>1, <1>7, SpecializeStands
<1>9. Mentions(nodes[k].matrix) \subseteq Present(v)
  <2>1. Mentions(nodes[k].matrix) \subseteq Mentions(m) \union Children(ledger, o, c)
    BY <1>1, SpecializeMentions
  <2> QED BY <2>1, <1>3, <1>4
<1>10. OnWay(k, v)
  BY <1>8, <1>9 DEF OnWay, V
<1> QED BY <1>10 DEF k, d

LEMMA TakesDefault ==
  ASSUME CaseDone, NEW n \in 1..Len(nodes), nodes[n].kind = "test", NEW v, IsValue(v, site), OnWay(n, v),
         \A i \in 1..Len(nodes[n].to) : nodes[n].to[i][1] # HeadAtTest(n, v)
  PROVE  nodes[n].else # <<>> /\ \A k \in Range(nodes[n].else) : OnWay(k, v)
<1> DEFINE d == nodes[n]
           m == d.matrix
           col == d.col
           o == Occ(n)
           t == ledger[o].type
           V == PartAt(v)
           w == V[o]
           h == w[<<>>].head
<1>1. /\ IsMatrix(m) /\ col \in 1..Len(m.occs) /\ o = m.occs[col] /\ Covers(m, col, t, KeysOf(n)) /\ Type(t)
      /\ Len(d.to) = Len(KeysOf(n)) /\ \A i \in 1..Len(d.to) : d.to[i][1] = KeysOf(n)[i]
      /\ \A k \in Range(d.else) : nodes[k].matrix = Default(m, col)
      /\ d.else # <<>> <=> NeedsDefault(m, col, t)
  BY TestedIs DEF Tested
<1>2. IsTree(w) /\ Heading(h, t)
  BY LooksAt DEF HeadAtTest
<1>3. \A i \in 1..Len(KeysOf(n)) : KeysOf(n)[i] # h
  BY <1>1 DEF HeadAtTest
<1>4. Mentions(m) \subseteq Present(v) /\ Stand(m, V, v)
  BY DEF OnWay
<1>5. w = V[m.occs[col]]
  BY <1>1
<1> HIDE DEF d, m, col, o, t, V, w, h
<1>6. d.else # <<>>
  <2> SUFFICES ASSUME ~NeedsDefault(m, col, t) PROVE FALSE
    BY <1>1
  <2>1. ~HeadOf(h, t) /\ IsClosed(t)
    BY <1>1, <1>3 DEF Covers
  <2> QED BY <2>1, <1>2, TypeAssumption DEF Heading, IsClosed
<1>7. h \notin HeadSet(m, col)
  <2> SUFFICES ASSUME h \in HeadSet(m, col) PROVE FALSE
    OBVIOUS
  <2>1. ~HeadOf(h, t)
    BY <1>1, <1>3 DEF Covers
  <2>2. h = Other
    BY <2>1, <1>2 DEF Heading
  <2> QED BY <2>2, <1>1, HeadsTyped, TypeAssumption
<1>8. Stand(Default(m, col), V, v)
  BY <1>1, <1>2, <1>4, <1>5, <1>7, DefaultStands DEF h
<1>9. Mentions(Default(m, col)) \subseteq Present(v)
  BY <1>1, <1>4, DefaultMentions
<1>10. \A k \in Range(d.else) : OnWay(k, v)
  BY <1>1, <1>8, <1>9 DEF OnWay, V
<1> QED BY <1>6, <1>10 DEF d

\* Where the way ends.
LEMMA FailsOn ==
  ASSUME CaseDone, NEW n \in 1..Len(nodes), nodes[n].kind = "fail", NEW v, OnWay(n, v)
  PROVE  ArmsFor(v) = {}
<1>1. nodes[n].matrix.rows = <<>>
  BY DoneIs DEF IsNode
<1>2. Len(nodes[n].matrix.rows) = 0
  BY <1>1, EmptySeq
<1> QED BY <1>2 DEF OnWay, Stand

LEMMA LeafChooses ==
  ASSUME CaseDone, NEW n \in 1..Len(nodes), nodes[n].kind = "leaf", NEW v, IsValue(v, site), OnWay(n, v)
  PROVE  /\ nodes[n].matrix.rows[1].arm \in ArmsFor(v)
         /\ \A i \in ArmsFor(v) : i \in Nat /\ nodes[n].matrix.rows[1].arm <= i
<1> DEFINE m == nodes[n].matrix
           V == PartAt(v)
<1>1. IsMatrix(m) /\ Len(m.rows) >= 1 /\ \A k \in 1..Len(m.occs) : HeadAt(m, 1, k) = Blank
  BY DoneIs DEF IsNode
<1>2. ASSUME NEW k \in 1..Len(m.occs) PROVE IsTree(V[m.occs[k]])
  <2>1. m.occs[k] \in Present(v)
    BY DEF OnWay, Mentions
  <2> QED BY <2>1, DoneIs, PartsAre DEF Placed, IsValue
<1>3. Stand(m, V, v)
  BY DEF OnWay
<1> HIDE DEF m, V
<1>4. Fits(m.rows[1], m.occs, V)
  BY <1>1, <1>2, LeafGives
<1>5. Len(m.rows) \in Nat /\ 1 \in 1..Len(m.rows) /\ \A r \in 1..Len(m.rows) : m.rows[r].arm \in Nat
  BY <1>1 DEF IsMatrix, IsSeq
<1>6. m.rows[1].arm \in ArmsFor(v)
  BY <1>3, <1>4, <1>5 DEF Stand
<1>7. ASSUME NEW i \in ArmsFor(v) PROVE i \in Nat /\ m.rows[1].arm <= i
  <2>1. PICK r \in 1..Len(m.rows) : m.rows[r].arm = i
    BY <1>3 DEF Stand
  <2>2. r = 1 \/ 1 < r
    BY <1>5, <2>1
  <2>3. 1 < r => m.rows[1].arm < m.rows[r].arm
    BY <1>1, <1>5, <2>1 DEF IsMatrix
  <2> QED BY <2>1, <2>2, <2>3, <1>5
<1> QED BY <1>6, <1>7 DEF m

-----------------------------------------------------------------------------
\* Induction along what tests lead to, from what they lead to, to what they lead to
\* and back up.
LEMMA TestLeads ==
  ASSUME CaseDone, NEW n \in 2..Len(nodes)
  PROVE  \E j \in 1..Len(nodes) : j < n /\ nodes[j].kind = "test" /\ Leads(nodes[j], n)
<1>1. PICK j \in 1..(n - 1) : Leads(nodes[j], n)
  BY DEF CaseDone, Grounded
<1>2. Len(nodes) \in Nat /\ Ledgered(ledger) /\ IsSeq(nodes)
  BY DoneIs
<1>3. j \in 1..Len(nodes) /\ j < n
  BY <1>2
<1>4. NodeOK(ledger, nodes, j) /\ nodes[j].kind \in {"fail", "leaf", "test"}
  BY <1>3, DoneIs
<1>5. nodes[j].kind \in {"open", "test"}
  BY <1>1, <1>2, <1>3, <1>4, NodeLeads
<1> QED BY <1>1, <1>3, <1>4, <1>5

LEMMA Smaller ==
  ASSUME NEW x \in Nat, NEW y \in Nat, x < y
  PROVE  ~(y <= x)
OBVIOUS

LEMMA NodesBottomUp ==
  ASSUME CaseDone, NEW G,
         \A n \in 1..Len(nodes) :
            (nodes[n].kind = "test" => \A k \in 1..Len(nodes) : Leads(nodes[n], k) => k \in G) => n \in G
  PROVE  \A n \in 1..Len(nodes) : n \in G
<1>1. PICK b \in Nat : \E g : Above(nodes, b, g)
  BY DEF CaseDone, Grounded
<1>2. PICK g : Above(nodes, b, g)
  BY <1>1
<1> DEFINE C == {n \in 1..Len(nodes) : n \notin G}
<1> SUFFICES ASSUME C # {} PROVE FALSE
  OBVIOUS
<1>3. \A n \in 1..Len(nodes) : g[n] \in Nat
  <2>1. g \in [1..Len(nodes) -> 0..b]
    BY <1>2 DEF Above
  <2>2. \A x \in 0..b : x \in Nat
    OBVIOUS
  <2> QED BY <2>1, <2>2
<1>4. PICK n \in C : \A k \in C : g[n] <= g[k]
  <2>1. \A n \in C : g[n] \in Nat
    BY <1>3
  <2> HIDE DEF C
  <2> QED BY <2>1, LeastOf
<1>5. ASSUME nodes[n].kind = "test", NEW k \in 1..Len(nodes), Leads(nodes[n], k) PROVE k \in G
  <2>0. n \in 1..Len(nodes)
    BY <1>4
  <2>1. g[k] < g[n]
    BY <2>0, <1>2, <1>5 DEF Above
  <2>2. g[n] \in Nat /\ g[k] \in Nat
    BY <2>0, <1>3
  <2>3. ~(g[n] <= g[k])
    BY <2>1, <2>2, Smaller
  <2> QED BY <2>3, <1>4
<1> QED BY <1>4, <1>5

LEMMA NodesTopDown ==
  ASSUME CaseDone, NEW G, 1 \in G,
         \A n, k \in 1..Len(nodes) : n \in G /\ nodes[n].kind = "test" /\ Leads(nodes[n], k) => k \in G
  PROVE  \A n \in 1..Len(nodes) : n \in G
<1> DEFINE C == {n \in 1..Len(nodes) : n \notin G}
<1> SUFFICES ASSUME C # {} PROVE FALSE
  OBVIOUS
<1>1. C \in SUBSET Nat
  OBVIOUS
<1>2. PICK n \in C : \A k \in C : n <= k
  BY <1>1, LeastNat
<1>3. n \in 2..Len(nodes)
  BY <1>2, DoneIs
<1>4. PICK j \in 1..Len(nodes) : j < n /\ nodes[j].kind = "test" /\ Leads(nodes[j], n)
  BY <1>3, TestLeads
<1>5. j \in G
  BY <1>2, <1>4
<1> QED BY <1>2, <1>4, <1>5

LEMMA NodesClimb ==
  ASSUME CaseDone, NEW G, NEW l \in 1..Len(nodes), l \in G,
         \A n, k \in 1..Len(nodes) : nodes[n].kind = "test" /\ Leads(nodes[n], k) /\ k \in G => n \in G
  PROVE  1 \in G
<1> DEFINE C == {n \in 1..Len(nodes) : n \in G}
<1>1. C \in SUBSET Nat /\ C # {}
  OBVIOUS
<1>2. PICK n \in C : \A k \in C : n <= k
  BY <1>1, LeastNat
<1> SUFFICES ASSUME n # 1 PROVE FALSE
  BY <1>2
<1>3. n \in 2..Len(nodes)
  BY <1>2, DoneIs
<1>4. PICK j \in 1..Len(nodes) : j < n /\ nodes[j].kind = "test" /\ Leads(nodes[j], n)
  BY <1>3, TestLeads
<1>5. j \in C
  BY <1>2, <1>4
<1> QED BY <1>2, <1>4, <1>5

-----------------------------------------------------------------------------
\* The cells of every decision are of the types of their columns.
CellsTyped(m) == \A r \in 1..Len(m.rows) : \A x \in Columns(m.rows[r].cells, m.occs) :
                    Inhabits(x[1], ledger[x[2]].type)

LEMMA WildInhabits ==
  ASSUME NEW t
  PROVE  Inhabits(Wildcard, t)
BY WildcardIs DEF Inhabits

LEMMA FieldsInhabit ==
  ASSUME NEW p, IsTree(p), NEW t, Inhabits(p, t), NEW i \in Arity(p[<<>>].head)
  PROVE  Inhabits(Under(p, <<i>>), Fields[p[<<>>].head][i])
<1> DEFINE u == Under(p, <<i>>)
           ft == Fields[p[<<>>].head][i]
<1>1. /\ i \in Nat /\ <<i>> \in DOMAIN p /\ IsTree(u)
      /\ \A r \in DOMAIN u : <<i>> \o r \in DOMAIN p /\ u[r] = p[<<i>> \o r]
      /\ \A r \in DOMAIN u \ {<<>>} :
            /\ Front(<<i>> \o r) = <<i>> \o Front(r) /\ Last(<<i>> \o r) = Last(r)
            /\ <<i>> \o r # <<>>
  BY FieldTree
<1>2. ASSUME NEW q \in DOMAIN u PROVE u[q].head = Blank \/ HeadOf(u[q].head, TypeAt(u, ft, q))
  <2>1. u[q] = p[<<i>> \o q] /\ <<i>> \o q \in DOMAIN p
    BY <1>1
  <2>2. TypeAt(p, t, <<i>> \o q) = TypeAt(u, ft, q)
    <3>1. CASE q = <<>>
      <4>1. <<i>> \o q = <<i>>
        BY <1>1, <3>1, ConcatEmptySeq
      <4>2. <<i>> # <<>> /\ Front(<<i>>) = <<>> /\ Last(<<i>>) = i
        BY <1>1 DEF Front, Last
      <4> QED BY <3>1, <4>1, <4>2 DEF TypeAt
    <3>2. CASE q # <<>>
      <4>1. /\ Front(<<i>> \o q) = <<i>> \o Front(q) /\ Last(<<i>> \o q) = Last(q)
            /\ <<i>> \o q # <<>>
        BY <1>1, <3>2
      <4>2. Front(q) \in DOMAIN u
        BY <1>1, <3>2 DEF IsTree
      <4>3. u[Front(q)] = p[<<i>> \o Front(q)]
        BY <1>1, <4>2
      <4> QED BY <3>2, <4>1, <4>3 DEF TypeAt
    <3> QED BY <3>1, <3>2
  <2>3. p[<<i>> \o q].head = Blank \/ HeadOf(p[<<i>> \o q].head, TypeAt(p, t, <<i>> \o q))
    BY <2>1 DEF Inhabits
  <2> QED BY <2>1, <2>2, <2>3
<1> QED BY <1>2 DEF Inhabits

LEMMA NarrowedTyped ==
  ASSUME NEW m, IsMatrix(m), CellsTyped(m), NEW col, col \in 1..Len(m.occs), NEW S, S \in SUBSET (1..Len(m.rows)),
         NEW a, NEW b, IsSeq(b),
         \A r \in S : /\ IsSeq(a[r]) /\ Len(a[r]) = Len(b)
                      /\ \A x \in Columns(a[r], b) : Inhabits(x[1], ledger[x[2]].type)
  PROVE  CellsTyped(Narrowed(m, col, S, a, b))
<1> DEFINE x == Narrowed(m, col, S, a, b)
<1>1. IsNarrowed(m, col, S, a, b, x)
  BY NarrowedIs
<1> HIDE DEF x
<1>2. ASSUME NEW k \in 1..Len(x.rows), NEW y \in Columns(x.rows[k].cells, x.occs) PROVE Inhabits(y[1], ledger[y[2]].type)
  <2> DEFINE r == InOrder(S)[k]
  <2>1. r \in S /\ x.rows[k] = Moved(m, m.rows[r], col, a[r]) /\ x.occs = Replaced(m.occs, col, b)
    BY <1>1 DEF IsNarrowed
  <2> HIDE DEF r
  <2>2. r \in 1..Len(m.rows) /\ IsSeq(m.rows[r].cells) /\ Len(m.rows[r].cells) = Len(m.occs) /\ IsSeq(m.occs)
    BY <2>1 DEF IsMatrix, IsRow
  <2>3. x.rows[k].cells = Replaced(m.rows[r].cells, col, a[r])
    BY <2>1 DEF Moved
  <2>4. y \in {<<m.rows[r].cells[j], m.occs[j]>> : j \in (1..Len(m.occs)) \ {col}} \union Columns(a[r], b)
    <3> DEFINE s == m.rows[r].cells
               t == m.occs
               e == a[r]
    <3>1. IsSeq(s) /\ IsSeq(t) /\ Len(s) = Len(t) /\ col \in 1..Len(t) /\ IsSeq(e) /\ Len(e) = Len(b)
      BY <2>1, <2>2
    <3>2. x.rows[k].cells = Replaced(s, col, e) /\ x.occs = Replaced(t, col, b)
      BY <2>1, <2>3
    <3>3. y \in Columns(x.rows[k].cells, x.occs)
      OBVIOUS
    <3> HIDE DEF s, t, e
    <3>4. y \in Columns(Replaced(s, col, e), Replaced(t, col, b))
      BY <3>2, <3>3
    <3>5. y \in {<<s[j], t[j]>> : j \in (1..Len(t)) \ {col}} \union Columns(e, b)
      BY <3>1, <3>4, ReplacedColumns
    <3> QED BY <3>5 DEF s, t, e
  <2>5. CASE y \in Columns(a[r], b)
    BY <2>1, <2>5
  <2>6. CASE y \in {<<m.rows[r].cells[j], m.occs[j]>> : j \in (1..Len(m.occs)) \ {col}}
    <3>1. y \in Columns(m.rows[r].cells, m.occs)
      BY <2>6 DEF Columns
    <3> QED BY <3>1, <2>2 DEF CellsTyped
  <2> QED BY <2>4, <2>5, <2>6
<1>3. CellsTyped(x)
  BY <1>2 DEF CellsTyped
<1> QED BY <1>3 DEF x

LEMMA CellTyped ==
  ASSUME NEW m, IsMatrix(m), CellsTyped(m), NEW col \in 1..Len(m.occs), NEW r \in 1..Len(m.rows)
  PROVE  Inhabits(m.rows[r].cells[col], ledger[m.occs[col]].type) /\ IsPattern(m.rows[r].cells[col])
<1>1. <<m.rows[r].cells[col], m.occs[col]>> \in Columns(m.rows[r].cells, m.occs)
  BY DEF Columns
<1>2. IsPattern(m.rows[r].cells[col])
  BY DEF IsMatrix, IsRow
<1> QED BY <1>1, <1>2 DEF CellsTyped

LEMMA DefaultTyped ==
  ASSUME NEW m, IsMatrix(m), CellsTyped(m), NEW col, col \in 1..Len(m.occs)
  PROVE  CellsTyped(Default(m, col))
<1> DEFINE S == Kept(m, col, {Blank})
           a == [r \in 1..Len(m.rows) |-> <<>>]
<1>1. Default(m, col) = Narrowed(m, col, S, a, <<>>)
  BY DefaultIs
<1>2. S \in SUBSET (1..Len(m.rows))
  BY KeptIs
<1>3. IsSeq(<<>>) /\ Columns(<<>>, <<>>) = {}
  <2>1. Len(<<>>) = 0
    BY EmptySeq
  <2> QED BY <2>1 DEF IsSeq, Columns
<1>4. \A r \in S : a[r] = <<>>
  BY <1>2
<1> HIDE DEF S, a
<1> QED BY <1>1, <1>2, <1>3, <1>4, NarrowedTyped

LEMMA SpecializeTyped ==
  ASSUME NEW m, IsMatrix(m), CellsTyped(m), NEW col, col \in 1..Len(m.occs), NEW c \in DOMAIN Fields,
         Ledgered(ledger), Complete(ledger, m.occs[col], c), m.occs[col] \in 1..Len(ledger)
  PROVE  CellsTyped(Specialize(m, col, c, ledger))
<1> DEFINE S == Kept(m, col, {c, Blank})
           a == OfRows(m, col, c)
           o == m.occs[col]
           b == FieldsOf(ledger, o, c)
<1>1. Specialize(m, col, c, ledger) = Narrowed(m, col, S, a, b)
  BY SpecializeIs
<1>2. S \in SUBSET (1..Len(m.rows)) /\ \A r \in S : HeadAt(m, r, col) \in {c, Blank}
  BY KeptIs DEF Kept
<1>3. IsSeq(b) /\ Len(b) = Len(Fields[c]) /\ DOMAIN Fields[c] = 1..Len(Fields[c]) /\ Len(Fields[c]) \in Nat
  <2>1. Fields[c] \in Seq(DOMAIN Signature \union DOMAIN Literals)
    BY TypeAssumption
  <2> QED BY <2>1, FieldsAre
<1>4. \A r \in S : a[r] = Arguments(m.rows[r].cells[col], c)
  BY <1>2 DEF OfRows
<1>5. ASSUME NEW i \in DOMAIN Fields[c] PROVE ledger[b[i]].type = Fields[c][i]
  <2>1. b[i] \in Children(ledger, o, c) /\ ledger[b[i]].field = i
    BY FieldsIn
  <2>2. b[i] \in DOMAIN ledger /\ ledger[b[i]].parent = o /\ ledger[b[i]].head = c
    BY <2>1 DEF Children
  <2>3. b[i] \in 1..Len(ledger)
    BY <2>2, LedgerIs
  <2>4. b[i] # Root
    BY <2>2 DEF Ledgered, Root
  <2>5. b[i] \in 2..Len(ledger)
    BY <2>3, <2>4, LedgerIs
  <2> QED BY <2>1, <2>2, <2>5 DEF Ledgered
<1> HIDE DEF S, a, b
<1>6. ASSUME NEW r \in S
      PROVE  /\ IsSeq(a[r]) /\ Len(a[r]) = Len(b)
             /\ \A x \in Columns(a[r], b) : Inhabits(x[1], ledger[x[2]].type)
  <2> DEFINE cell == m.rows[r].cells[col]
             t == ledger[o].type
  <2>1. IsPattern(cell) /\ Inhabits(cell, t) /\ cell[<<>>].head \in {c, Blank} /\ r \in 1..Len(m.rows)
    BY <1>2, CellTyped DEF HeadAt, HeadIn
  <2>2. a[r] = Arguments(cell, c)
    BY <1>4
  <2> HIDE DEF cell, t
  <2>3. IsSeq(a[r]) /\ Len(a[r]) = Len(b)
    BY <1>3, <2>1, <2>2, ArgumentsAre
  <2>4. ASSUME NEW i \in 1..Len(b) PROVE Inhabits(a[r][i], ledger[b[i]].type)
    <3>1. i \in DOMAIN Fields[c] /\ ledger[b[i]].type = Fields[c][i]
      BY <1>3, <1>5
    <3>2. CASE IsWild(cell)
      <4>1. a[r][i] = Wildcard
        BY <3>1, <3>2, <2>2 DEF Arguments
      <4> QED BY <4>1, WildInhabits
    <3>3. CASE ~IsWild(cell)
      <4>1. a[r][i] = Under(cell, <<i>>)
        BY <3>1, <3>3, <2>2 DEF Arguments
      <4>2. cell[<<>>].head = c
        BY <3>3, <2>1 DEF IsWild, HeadIn
      <4>3. i \in Arity(cell[<<>>].head) /\ IsTree(cell)
        BY <3>1, <4>2, <2>1 DEF Arity, IsPattern
      <4> QED BY <4>1, <4>2, <4>3, <3>1, <2>1, FieldsInhabit
    <3> QED BY <3>2, <3>3
  <2>5. ASSUME NEW x \in Columns(a[r], b) PROVE Inhabits(x[1], ledger[x[2]].type)
    <3>1. PICK i \in 1..Len(b) : x = <<a[r][i], b[i]>>
      BY DEF Columns
    <3> QED BY <3>1, <2>4
  <2> QED BY <2>3, <2>5
<1>7. m.occs[col] = o
  OBVIOUS
<1> HIDE DEF o
<1> QED BY <1>1, <1>2, <1>3, <1>6, NarrowedTyped

-----------------------------------------------------------------------------
\* No column is a part of another: what is tested is not tested again.
LineageIs(A) == /\ A[Root] = {Root}
                /\ \A k \in 2..Len(ledger) : A[k] = A[ledger[k].parent] \union {k}

Lineage == CHOOSE A : LineageIs(A)

LEMMA LineageHolds ==
  ASSUME Ledgered(ledger)
  PROVE  LineageIs(Lineage)
<1> DEFINE n == Len(ledger)
           up == [k \in 2..n |-> ledger[k].parent]
           T == SUBSET (1..n)
           F == [k \in 2..n |-> [x \in T |-> x \union {k}]]
<1>1. /\ n \in Nat /\ Root \in 1..n /\ Root = 1
      /\ \A k \in 2..n : k # Root /\ ledger[k].parent \in 1..(k - 1) /\ k \in 1..n
  BY LedgerIs DEF Root
<1>2. /\ \A k \in 2..n : up[k] \in 1..(k - 1) /\ up[k] = ledger[k].parent
      /\ \A k \in 2..n : \A x \in T : F[k][x] = x \union {k} /\ F[k][x] \in T
      /\ {1} \in T
  BY <1>1
<1> HIDE DEF up, F
<1>3. PICK f : Unfolds(f, n, up, T, {1}, F)
  <2>1. Rises(n, up, T, {1}, F)
    BY <1>1, <1>2 DEF Rises
  <2> QED BY <2>1, FromParents
<1>4. f \in [1..n -> T] /\ \A k \in 1..n : f[k] = IF k = 1 THEN {1} ELSE F[k][f[up[k]]]
  BY <1>3 DEF Unfolds
<1>5. f[Root] = {Root}
  BY <1>1, <1>4
<1>6. ASSUME NEW k \in 2..n PROVE f[k] = f[ledger[k].parent] \union {k}
  <2>1. k \in 1..n /\ k # 1 /\ up[k] \in 1..n /\ up[k] = ledger[k].parent
    BY <1>1, <1>2
  <2>2. f[k] = F[k][f[up[k]]] /\ f[up[k]] \in T
    BY <2>1, <1>4
  <2> QED BY <2>1, <2>2, <1>2
<1>7. LineageIs(f)
  BY <1>5, <1>6 DEF LineageIs
<1> QED BY <1>7 DEF Lineage

LEMMA LineageOf ==
  ASSUME Ledgered(ledger)
  PROVE  /\ Lineage[Root] = {Root}
         /\ \A k \in 2..Len(ledger) : Lineage[k] = Lineage[ledger[k].parent] \union {k}
         /\ \A k \in 1..Len(ledger) : /\ k \in Lineage[k] /\ \A a \in Lineage[k] : a \in 1..k
                                      /\ \A a \in Lineage[k] : Lineage[a] \subseteq Lineage[k]
<1> DEFINE Good(k) == /\ k \in Lineage[k] /\ \A a \in Lineage[k] : a \in 1..k
                      /\ \A a \in Lineage[k] : Lineage[a] \subseteq Lineage[k]
           C == {k \in 1..Len(ledger) : ~Good(k)}
<1>1. Lineage[Root] = {Root} /\ \A k \in 2..Len(ledger) : Lineage[k] = Lineage[ledger[k].parent] \union {k}
  BY LineageHolds DEF LineageIs
<1>2. ASSUME C # {} PROVE FALSE
  <2>1. C \in SUBSET Nat
    OBVIOUS
  <2>2. PICK k \in C : \A j \in C : k <= j
    BY <1>2, <2>1, LeastNat
  <2>3. k # Root
    <3>1. Good(Root)
      BY <1>1 DEF Root
    <3> QED BY <3>1, <2>2
  <2>4. k \in 2..Len(ledger) /\ ledger[k].parent \in 1..(k - 1) /\ ledger[k].parent \in 1..Len(ledger)
    BY <2>2, <2>3, LedgerIs
  <2> DEFINE p == ledger[k].parent
  <2>5. Good(p)
    <3>1. p \notin C
      BY <2>2, <2>4
    <3> QED BY <3>1, <2>4
  <2>6. Lineage[k] = Lineage[p] \union {k}
    BY <1>1, <2>4
  <2>7. p \in 1..(k - 1) /\ k \in Nat
    BY <2>4
  <2> HIDE DEF p
  <2>8. \A a \in Lineage[k] : a \in 1..k
    <3>1. \A a \in 1..p : a \in 1..k
      BY <2>7
    <3>2. k \in 1..k
      BY <2>7
    <3> QED BY <3>1, <3>2, <2>5, <2>6
  <2> QED BY <2>2, <2>5, <2>6, <2>8
<1> QED BY <1>1, <1>2

Separate(m) == \A j, k \in 1..Len(m.occs) : j # k => m.occs[j] \notin Lineage[m.occs[k]]

\* Where a column that is left comes to, and what a column comes from.
Shift(j, col, n) == IF j < col THEN j ELSE j - 1 + n

Comes(s, col, a, t) ==
    /\ IsSeq(t)
    /\ \A y \in 1..Len(t) : \/ \E j \in (1..Len(s)) \ {col} : y = Shift(j, col, Len(a)) /\ t[y] = s[j]
                            \/ \E i \in 1..Len(a) : y = col - 1 + i /\ t[y] = a[i]
    /\ \A j \in (1..Len(s)) \ {col} : Shift(j, col, Len(a)) \in 1..Len(t) /\ t[Shift(j, col, Len(a))] = s[j]
    /\ \A i \in 1..Len(a) : col - 1 + i \in 1..Len(t) /\ t[col - 1 + i] = a[i]

LEMMA ReplacedFrom ==
  ASSUME NEW s, IsSeq(s), NEW col, col \in 1..Len(s), NEW a, IsSeq(a)
  PROVE  Comes(s, col, a, Replaced(s, col, a))
<1> DEFINE t == Replaced(s, col, a)
           n == Len(a)
           k == Len(s)
<1>1. InPlace(s, col, a, t)
  BY ReplacedIs
<1>2. n \in Nat /\ k \in Nat /\ col \in 1..k
  BY DEF IsSeq
<1>3. /\ IsSeq(t) /\ Len(t) = k - 1 + n
      /\ \A j \in 1..(col - 1) : t[j] = s[j]
      /\ \A i \in 1..n : t[col - 1 + i] = a[i]
      /\ \A j \in (col + 1)..k : t[j - 1 + n] = s[j]
  BY <1>1 DEF InPlace
<1> HIDE DEF t, n, k
<1>4. ASSUME NEW j \in (1..k) \ {col} PROVE Shift(j, col, n) \in 1..Len(t) /\ t[Shift(j, col, n)] = s[j]
  <2>1. CASE j < col
    <3>1. j \in 1..(col - 1) /\ Shift(j, col, n) = j /\ j \in 1..Len(t)
      BY <1>2, <1>3, <2>1 DEF Shift
    <3> QED BY <3>1, <1>3
  <2>2. CASE ~(j < col)
    <3>1. j \in (col + 1)..k /\ Shift(j, col, n) = j - 1 + n /\ j - 1 + n \in 1..Len(t)
      BY <1>2, <1>3, <2>2 DEF Shift
    <3> QED BY <3>1, <1>3
  <2> QED BY <2>1, <2>2
<1>5. ASSUME NEW i \in 1..n PROVE col - 1 + i \in 1..Len(t) /\ t[col - 1 + i] = a[i]
  BY <1>2, <1>3
<1>6. ASSUME NEW y \in 1..Len(t)
      PROVE  \/ \E j \in (1..k) \ {col} : y = Shift(j, col, n) /\ t[y] = s[j]
             \/ \E i \in 1..n : y = col - 1 + i /\ t[y] = a[i]
  <2>1. CASE y < col
    <3>1. y \in (1..k) \ {col} /\ y = Shift(y, col, n)
      BY <1>2, <1>3, <2>1 DEF Shift
    <3> QED BY <3>1, <1>4
  <2>2. CASE y \in col..(col - 1 + n)
    <3>1. y - col + 1 \in 1..n /\ y = col - 1 + (y - col + 1)
      BY <1>2, <1>3, <2>2
    <3> QED BY <3>1, <1>5
  <2>3. CASE y > col - 1 + n
    <3>1. y + 1 - n \in (1..k) \ {col} /\ y = Shift(y + 1 - n, col, n)
      BY <1>2, <1>3, <2>3 DEF Shift
    <3> QED BY <3>1, <1>4
  <2> QED BY <1>2, <1>3, <2>1, <2>2, <2>3
<1>7. Comes(s, col, a, t)
  BY <1>3, <1>4, <1>5, <1>6 DEF Comes, n, k
<1> QED BY <1>7 DEF t

Sprung(o, b) == IsSeq(b) /\ \A i \in 1..Len(b) : /\ b[i] \in 2..Len(ledger)
                                                 /\ ledger[b[i]].parent = o /\ ledger[b[i]].field = i

LEMMA SprungFar ==
  ASSUME Ledgered(ledger), NEW o \in 1..Len(ledger), NEW b, Sprung(o, b), NEW i \in 1..Len(b)
  PROVE  Lineage[b[i]] = Lineage[o] \union {b[i]} /\ b[i] \notin Lineage[o] /\ o \in Lineage[b[i]]
<1>1. b[i] \in 2..Len(ledger) /\ ledger[b[i]].parent = o /\ o \in 1..(b[i] - 1)
  BY LedgerIs DEF Sprung
<1>2. Lineage[b[i]] = Lineage[o] \union {b[i]} /\ o \in Lineage[o] /\ \A a \in Lineage[o] : a \in 1..o
  BY <1>1, LineageOf
<1>3. b[i] \notin 1..o
  BY <1>1
<1> QED BY <1>2, <1>3

LEMMA SeparateStays ==
  ASSUME Ledgered(ledger), NEW m, IsMatrix(m), Separate(m), \A k \in 1..Len(m.occs) : m.occs[k] \in 1..Len(ledger),
         NEW col, col \in 1..Len(m.occs), NEW b, Sprung(m.occs[col], b), NEW x, x.occs = Replaced(m.occs, col, b)
  PROVE  Separate(x)
<1> DEFINE s == m.occs
           o == s[col]
           t == x.occs
           n == Len(b)
<1>1. Comes(s, col, b, t) /\ o \in 1..Len(ledger)
  <2>1. IsSeq(s) /\ IsSeq(b)
    BY DEF IsMatrix, Sprung
  <2> QED BY <2>1, ReplacedFrom
<1>2. ASSUME NEW j \in 1..Len(s), j # col PROVE s[j] \in 1..Len(ledger) /\ s[j] \notin Lineage[o] /\ o \notin Lineage[s[j]]
  BY <1>2 DEF Separate
<1>3. ASSUME NEW i \in 1..n
      PROVE  Lineage[b[i]] = Lineage[o] \union {b[i]} /\ b[i] \notin Lineage[o] /\ o \in Lineage[b[i]] /\ ledger[b[i]].field = i
  BY <1>1, SprungFar DEF Sprung
<1>4. \A j, k \in 1..Len(s) : j # k => s[j] \notin Lineage[s[k]]
  BY DEF Separate
<1>5. \A k \in 1..Len(ledger) : \A a \in Lineage[k] : Lineage[a] \subseteq Lineage[k]
  BY LineageOf
<1> HIDE DEF s, o, t, n
<1>6. ASSUME NEW y \in 1..Len(t), NEW z \in 1..Len(t), y # z, t[y] \in Lineage[t[z]] PROVE FALSE
  <2>1. /\ \/ \E j \in (1..Len(s)) \ {col} : y = Shift(j, col, n) /\ t[y] = s[j]
           \/ \E i \in 1..n : y = col - 1 + i /\ t[y] = b[i]
        /\ \/ \E j \in (1..Len(s)) \ {col} : z = Shift(j, col, n) /\ t[z] = s[j]
           \/ \E i \in 1..n : z = col - 1 + i /\ t[z] = b[i]
    BY <1>1 DEF Comes, n
  <2>2. ASSUME NEW j \in (1..Len(s)) \ {col}, y = Shift(j, col, n), t[y] = s[j],
               NEW k \in (1..Len(s)) \ {col}, z = Shift(k, col, n), t[z] = s[k]
        PROVE FALSE
    <3>1. j # k
      BY <2>2, <1>6
    <3> QED BY <3>1, <2>2, <1>6, <1>4
  <2>3. ASSUME NEW j \in (1..Len(s)) \ {col}, t[y] = s[j], NEW i \in 1..n, t[z] = b[i] PROVE FALSE
    <3>1. s[j] = b[i]
      <4>1. s[j] \in Lineage[b[i]]
        BY <2>3, <1>6
      <4>2. Lineage[b[i]] = Lineage[o] \union {b[i]}
        BY <1>3
      <4>3. s[j] \notin Lineage[o]
        BY <1>2
      <4> QED BY <4>1, <4>2, <4>3
    <3> QED BY <3>1, <1>2, <1>3
  <2>4. ASSUME NEW i \in 1..n, t[y] = b[i], NEW j \in (1..Len(s)) \ {col}, t[z] = s[j] PROVE FALSE
    <3>1. Lineage[b[i]] \subseteq Lineage[s[j]]
      BY <2>4, <1>2, <1>5, <1>6
    <3> QED BY <3>1, <1>2, <1>3
  <2>5. ASSUME NEW i \in 1..n, y = col - 1 + i, t[y] = b[i], NEW k \in 1..n, z = col - 1 + k, t[z] = b[k] PROVE FALSE
    <3>1. b[i] = b[k]
      BY <2>5, <1>3, <1>6
    <3>2. i = k
      BY <3>1, <1>3
    <3> QED BY <3>2, <2>5, <1>6
  <2> QED BY <2>1, <2>2, <2>3, <2>4, <2>5
<1>7. \A y, z \in 1..Len(t) : y # z => t[y] \notin Lineage[t[z]]
  BY <1>6
<1> QED BY <1>7 DEF Separate, t

LEMMA FieldsSprung ==
  ASSUME Ledgered(ledger), NEW o \in 1..Len(ledger), NEW c \in DOMAIN Fields, Complete(ledger, o, c)
  PROVE  /\ Sprung(o, FieldsOf(ledger, o, c)) /\ Len(FieldsOf(ledger, o, c)) = Len(Fields[c])
         /\ DOMAIN Fields[c] = 1..Len(Fields[c]) /\ Len(Fields[c]) \in Nat
         /\ \A i \in 1..Len(Fields[c]) : LET k == FieldsOf(ledger, o, c)[i]
                                         IN  k \in Children(ledger, o, c) /\ ledger[k].head = c /\ ledger[k].type = Fields[c][i]
<1> DEFINE b == FieldsOf(ledger, o, c)
<1>1. IsSeq(b) /\ Len(b) = Len(Fields[c]) /\ DOMAIN Fields[c] = 1..Len(Fields[c]) /\ Len(Fields[c]) \in Nat
  <2>1. Fields[c] \in Seq(DOMAIN Signature \union DOMAIN Literals)
    BY TypeAssumption
  <2> QED BY <2>1, FieldsAre
<1>2. ASSUME NEW i \in 1..Len(Fields[c])
      PROVE  /\ b[i] \in Children(ledger, o, c) /\ ledger[b[i]].field = i /\ ledger[b[i]].parent = o /\ ledger[b[i]].head = c
             /\ b[i] \in 2..Len(ledger) /\ ledger[b[i]].type = Fields[c][i]
  <2>1. b[i] \in Children(ledger, o, c) /\ ledger[b[i]].field = i
    BY <1>1, FieldsIn
  <2>2. b[i] \in DOMAIN ledger /\ ledger[b[i]].parent = o /\ ledger[b[i]].head = c
    BY <2>1 DEF Children
  <2>3. b[i] \in 1..Len(ledger)
    BY <2>2, LedgerIs
  <2>4. b[i] # Root
    BY <2>2 DEF Ledgered, Root
  <2>5. b[i] \in 2..Len(ledger)
    BY <2>3, <2>4, LedgerIs
  <2> QED BY <2>1, <2>2, <2>5 DEF Ledgered
<1> HIDE DEF b
<1>3. Sprung(o, b)
  BY <1>1, <1>2 DEF Sprung
<1> QED BY <1>1, <1>2, <1>3 DEF b

WellMade(n) == CellsTyped(nodes[n].matrix) /\ Separate(nodes[n].matrix)

LEMMA RootWellMade ==
  ASSUME CaseDone
  PROVE  WellMade(1)
<1> DEFINE m == Matrix(site, arms)
           S == {i \in 1..Len(arms) : Inhabits(arms[i], site)}
<1>1. nodes[1].matrix = m /\ ArmsAre /\ ledger[Root].type = site
  BY DoneIs DEF Ledgered, Root
<1>2. m.occs = <<Root>> /\ \A r \in 1..Len(m.rows) : InOrder(S)[r] \in S /\ m.rows[r].cells = <<arms[InOrder(S)[r]]>>
  BY <1>1, RootRows
<1> HIDE DEF m
<1>3. ASSUME NEW r \in 1..Len(m.rows), NEW x \in Columns(m.rows[r].cells, m.occs) PROVE Inhabits(x[1], ledger[x[2]].type)
  <2> DEFINE p == arms[InOrder(S)[r]]
  <2>1. InOrder(S)[r] \in S /\ m.rows[r].cells = <<p>>
    BY <1>2
  <2>2. Inhabits(p, site)
    BY <2>1
  <2> HIDE DEF p
  <2>3. PICK k \in 1..Len(m.occs) : x = <<m.rows[r].cells[k], m.occs[k]>>
    BY DEF Columns
  <2>4. k = 1
    BY <2>3, <1>2
  <2>5. x[1] = p /\ x[2] = Root
    BY <2>1, <2>3, <2>4, <1>2
  <2> QED BY <2>2, <2>5, <1>1
<1>4. Separate(m)
  BY <1>2 DEF Separate
<1> QED BY <1>1, <1>3, <1>4 DEF WellMade, CellsTyped

LEMMA NodesWellMade ==
  ASSUME CaseDone
  PROVE  \A n \in 1..Len(nodes) : WellMade(n)
<1> DEFINE G == {n \in 1..Len(nodes) : WellMade(n)}
<1>1. 1 \in G
  BY DoneIs, RootWellMade
<1>2. ASSUME NEW n \in 1..Len(nodes), NEW k \in 1..Len(nodes), WellMade(n), nodes[n].kind = "test", Leads(nodes[n], k)
      PROVE  WellMade(k)
  <2> DEFINE m == nodes[n].matrix
             col == nodes[n].col
             d == nodes[n]
  <2>1. Tested(n) /\ Ledgered(ledger) /\ NodeOK(ledger, nodes, n)
    BY <1>2, TestedIs, DoneIs
  <2>2. /\ IsMatrix(m) /\ col \in 1..Len(m.occs) /\ Occ(n) = m.occs[col] /\ Occ(n) \in 1..Len(ledger)
        /\ \A i \in 1..Len(d.to) : /\ d.to[i][1] \in DOMAIN Fields /\ Complete(ledger, Occ(n), d.to[i][1])
                                   /\ nodes[d.to[i][2]].matrix = Specialize(m, col, d.to[i][1], ledger)
        /\ \A j \in Range(d.else) : nodes[j].matrix = Default(m, col)
    BY <2>1 DEF Tested
  <2>3. \A j \in 1..Len(m.occs) : m.occs[j] \in 1..Len(ledger)
    BY <2>1 DEF NodeOK, Mentions
  <2>4. CellsTyped(m) /\ Separate(m)
    BY <1>2 DEF WellMade
  <2>5. (\E i \in 1..Len(d.to) : d.to[i][2] = k) \/ k \in Range(d.else)
    BY <1>2 DEF Leads
  <2> HIDE DEF m, col, d
  <2>6. ASSUME NEW i \in 1..Len(d.to), d.to[i][2] = k PROVE WellMade(k)
    <3> DEFINE c == d.to[i][1]
               x == nodes[k].matrix
               b == FieldsOf(ledger, m.occs[col], c)
    <3>1. c \in DOMAIN Fields /\ Complete(ledger, m.occs[col], c) /\ x = Specialize(m, col, c, ledger) /\ m.occs[col] \in 1..Len(ledger)
      BY <2>2, <2>6
    <3> HIDE DEF c
    <3>2. x.occs = Replaced(m.occs, col, b)
      BY <3>1 DEF Specialize
    <3> HIDE DEF x
    <3>3. Sprung(m.occs[col], b)
      BY <3>1, <2>1, FieldsSprung
    <3> HIDE DEF b
    <3>4. Separate(x)
      BY <3>2, <3>3, <2>1, <2>2, <2>3, <2>4, SeparateStays
    <3>5. CellsTyped(x)
      BY <3>1, <2>1, <2>2, <2>4, SpecializeTyped
    <3> QED BY <3>4, <3>5 DEF WellMade, x
  <2>7. ASSUME k \in Range(d.else) PROVE WellMade(k)
    <3> DEFINE x == nodes[k].matrix
    <3>1. x = Default(m, col)
      BY <2>2, <2>7
    <3>2. x.occs = Replaced(m.occs, col, <<>>)
      BY <3>1 DEF Default
    <3> HIDE DEF x
    <3>3. Sprung(m.occs[col], <<>>)
      <4>1. Len(<<>>) = 0
        BY EmptySeq
      <4> QED BY <4>1 DEF Sprung, IsSeq
    <3>4. Separate(x)
      BY <3>2, <3>3, <2>1, <2>2, <2>3, <2>4, SeparateStays
    <3>5. CellsTyped(x)
      BY <3>1, <2>2, <2>4, DefaultTyped
    <3> QED BY <3>4, <3>5 DEF WellMade, x
  <2> QED BY <2>5, <2>6, <2>7
<1>3. \A n, k \in 1..Len(nodes) : n \in G /\ nodes[n].kind = "test" /\ Leads(nodes[n], k) => k \in G
  BY <1>2
<1> HIDE DEF G
<1>4. \A n \in 1..Len(nodes) : n \in G
  BY <1>1, <1>3, NodesTopDown
<1> QED BY <1>4 DEF G

-----------------------------------------------------------------------------
\* The edges of a test: the heads a value may have there, and where each leads.
Meets(on, h) == IF on.head = Other THEN h \notin on.excluded ELSE h = on.head

KeySet(n) == {nodes[n].to[i][1] : i \in 1..Len(nodes[n].to)}

Toward(n, h, k) == \/ \E i \in 1..Len(nodes[n].to) : nodes[n].to[i][1] = h /\ nodes[n].to[i][2] = k
                   \/ h \notin KeySet(n) /\ k \in Range(nodes[n].else)

LEMMA HeadsOfType ==
  ASSUME NEW m, IsMatrix(m), CellsTyped(m), NEW col \in 1..Len(m.occs), NEW h \in HeadSet(m, col)
  PROVE  HeadOf(h, ledger[m.occs[col]].type)
<1>1. PICK r \in DOMAIN m.rows : h = HeadAt(m, r, col) /\ h # Blank
  BY DEF HeadSet
<1>2. r \in 1..Len(m.rows)
  BY KeptIs
<1> DEFINE p == m.rows[r].cells[col]
           t == ledger[m.occs[col]].type
<1>3. Inhabits(p, t) /\ IsPattern(p) /\ h = p[<<>>].head
  BY <1>1, <1>2, CellTyped DEF HeadAt, HeadIn
<1> HIDE DEF p, t
<1>4. <<>> \in DOMAIN p
  BY <1>3 DEF IsPattern, IsTree
<1>5. TypeAt(p, t, <<>>) = t
  BY DEF TypeAt
<1>6. HeadOf(h, t)
  BY <1>1, <1>3, <1>4, <1>5 DEF Inhabits
<1> QED BY <1>6 DEF t

LEMMA KeysOfType ==
  ASSUME NEW m, IsMatrix(m), CellsTyped(m), NEW col \in 1..Len(m.occs), NEW t, t = ledger[m.occs[col]].type, Type(t)
  PROVE  /\ \A i \in 1..Len(Keys(m, col, t)) : HeadOf(Keys(m, col, t)[i], t)
         /\ IsClosed(t) /\ NeedsDefault(m, col, t) =>
               \E j \in DOMAIN Signature[t] : \A i \in 1..Len(Keys(m, col, t)) : Keys(m, col, t)[i] # Signature[t][j]
<1>1. \A h \in HeadSet(m, col) : HeadOf(h, t)
  BY HeadsOfType
<1>2. ASSUME IsClosed(t)
      PROVE  /\ Signature[t] \in Seq(DOMAIN Fields) /\ DOMAIN Signature[t] = 1..Len(Signature[t]) /\ Len(Signature[t]) \in Nat
             /\ \A h : HeadOf(h, t) <=> h \in Range(Signature[t])
  <2>1. Signature[t] \in Seq(DOMAIN Fields) /\ t \in DOMAIN Signature /\ t \notin DOMAIN Literals
    BY <1>2, TypeAssumption DEF IsClosed
  <2> QED BY <2>1 DEF HeadOf
<1>3. CASE IsSingle(t)
  <2>1. Keys(m, col, t) = Signature[t] /\ IsClosed(t) /\ ~NeedsDefault(m, col, t)
    BY <1>3 DEF Keys, NeedsDefault, IsSingle
  <2>2. \A i \in 1..Len(Signature[t]) : Signature[t][i] \in Range(Signature[t])
    BY <2>1, <1>2 DEF Range
  <2> QED BY <2>1, <2>2, <1>2
<1>4. CASE IsClosed(t) /\ ~IsSingle(t)
  <2> DEFINE S == {i \in DOMAIN Signature[t] : Signature[t][i] \in HeadSet(m, col)}
             ks == Picked(Signature[t], S)
  <2>1. Keys(m, col, t) = ks
    BY <1>4 DEF Keys
  <2>2. IsPicked(Signature[t], S, ks)
    <3>1. S \in SUBSET (1..Len(Signature[t]))
      BY <1>2, <1>4
    <3> HIDE DEF S
    <3> QED BY <3>1, <1>2, <1>4, PickedIs
  <2> HIDE DEF ks
  <2>3. ASSUME NEW i \in 1..Len(ks) PROVE ks[i] \in HeadSet(m, col)
    <3>1. InOrder(S)[i] \in S /\ ks[i] = Signature[t][InOrder(S)[i]]
      BY <2>2 DEF IsPicked
    <3> QED BY <3>1
  <2>4. ASSUME NeedsDefault(m, col, t)
        PROVE  \E j \in DOMAIN Signature[t] : \A i \in 1..Len(ks) : ks[i] # Signature[t][j]
    <3>1. HeadSet(m, col) # Range(Signature[t]) /\ HeadSet(m, col) \subseteq Range(Signature[t])
      BY <2>4, <1>1, <1>2, <1>4 DEF NeedsDefault
    <3>2. PICK h \in Range(Signature[t]) : h \notin HeadSet(m, col)
      BY <3>1
    <3>3. PICK j \in DOMAIN Signature[t] : Signature[t][j] = h
      BY <3>2 DEF Range
    <3> QED BY <3>2, <3>3, <2>3
  <2> QED BY <2>1, <2>3, <2>4, <1>1
<1>5. CASE ~IsClosed(t)
  <2>1. Keys(m, col, t) = Heads(m, col)
    BY <1>5 DEF Keys, IsSingle
  <2>2. \A i \in 1..Len(Heads(m, col)) : Heads(m, col)[i] \in HeadSet(m, col)
    BY HeadsAre
  <2> QED BY <2>1, <2>2, <1>1, <1>5
<1> QED BY <1>3, <1>4, <1>5

EdgeIs(n, e) ==
    /\ e.rank \in Nat /\ Leads(nodes[n], e.to)
    /\ \E h : Heading(h, ledger[Occ(n)].type) /\ Meets(e.on, h)
    /\ \A h : Meets(e.on, h) => Toward(n, h, e.to)
    /\ \/ \E i \in 1..Len(nodes[n].to) : nodes[n].to[i][1] = e.on.head /\ nodes[n].to[i][2] = e.to
       \/ e.to \in Range(nodes[n].else)

LEMMA EdgesAre ==
  ASSUME CaseDone, NEW n \in 1..Len(nodes), nodes[n].kind = "test"
  PROVE  /\ \A e \in Edges(n) : EdgeIs(n, e)
         /\ \A k : Leads(nodes[n], k) => \E e \in Edges(n) : e.to = k
<1> DEFINE d == nodes[n]
           m == d.matrix
           col == d.col
           t == ledger[Occ(n)].type
           keys == {e[1] : e \in Range(d.to)}
           left == {i \in DOMAIN Signature[t] : Signature[t][i] \notin keys}
           Place(j) == IF IsClosed(t) THEN CHOOSE i \in DOMAIN Signature[t] : Signature[t][i] = d.to[j][1] ELSE j
           Branch(j) == [rank |-> Place(j), to |-> d.to[j][2], on |-> Constraint(d.to[j][1], {})]
           Rest(k) == IF IsClosed(t) THEN [rank |-> Min(left), to |-> k, on |-> Constraint(Signature[t][Min(left)], {})]
                      ELSE [rank |-> Len(d.to) + 1, to |-> k, on |-> Constraint(Other, keys)]
<1>1. Edges(n) = {Branch(j) : j \in DOMAIN d.to} \union {Rest(k) : k \in Range(d.else)}
  BY Zenon DEF Edges
<1>2. /\ IsMatrix(m) /\ col \in 1..Len(m.occs) /\ t = ledger[m.occs[col]].type /\ Type(t)
      /\ IsSeq(d.to) /\ Len(d.to) \in Nat /\ Len(d.to) = Len(Keys(m, col, t))
      /\ \A i \in 1..Len(d.to) : d.to[i][1] = Keys(m, col, t)[i] /\ d.to[i][1] \in DOMAIN Fields
      /\ d.else # <<>> => NeedsDefault(m, col, t)
      /\ CellsTyped(m)
  <2>1. Tested(n) /\ WellMade(n)
    BY TestedIs, NodesWellMade
  <2> QED BY <2>1 DEF Tested, WellMade
<1>3. DOMAIN d.to = 1..Len(d.to) /\ keys = KeySet(n) /\ KeySet(n) = {d.to[i][1] : i \in 1..Len(d.to)}
  <2>1. DOMAIN d.to = 1..Len(d.to)
    BY <1>2 DEF IsSeq
  <2> QED BY <2>1 DEF Range, KeySet
<1>10. /\ \A i \in 1..Len(Keys(m, col, t)) : HeadOf(Keys(m, col, t)[i], t)
       /\ IsClosed(t) /\ NeedsDefault(m, col, t) =>
             \E j \in DOMAIN Signature[t] : \A i \in 1..Len(Keys(m, col, t)) : Keys(m, col, t)[i] # Signature[t][j]
  <2> HIDE DEF d, m, col, t
  <2> QED BY <1>2, KeysOfType
<1>4. \A i \in 1..Len(d.to) : HeadOf(d.to[i][1], t) /\ d.to[i][1] # Other
  <2>1. \A i \in 1..Len(d.to) : HeadOf(d.to[i][1], t)
    <3> HIDE DEF d, m, col, t
    <3> QED BY <1>2, <1>10
  <2> QED BY <2>1, <1>2, TypeAssumption
<1>5. ASSUME IsClosed(t), d.else # <<>>
      PROVE  Min(left) \in DOMAIN Signature[t] /\ Min(left) \in Nat /\ Signature[t][Min(left)] \notin KeySet(n)
  <2>1. DOMAIN Signature[t] \subseteq Nat
    <3>1. Signature[t] \in Seq(DOMAIN Fields)
      BY <1>5, TypeAssumption DEF IsClosed
    <3> QED BY <3>1
  <2>2. \E j \in DOMAIN Signature[t] : \A i \in 1..Len(d.to) : d.to[i][1] # Signature[t][j]
    <3> HIDE DEF d, m, col, t
    <3>1. \E j \in DOMAIN Signature[t] : \A i \in 1..Len(Keys(m, col, t)) : Keys(m, col, t)[i] # Signature[t][j]
      BY <1>2, <1>5, <1>10
    <3> QED BY <3>1, <1>2
  <2>3. left # {} /\ left \in SUBSET Nat
    BY <2>1, <2>2, <1>3
  <2>4. \E x \in left : \A y \in left : x <= y
    <3> HIDE DEF left
    <3> QED BY <2>3, LeastNat
  <2>5. Min(left) \in left
    <3> HIDE DEF left
    <3> QED BY <2>4 DEF Min
  <2>6. \A i \in left : i \in DOMAIN Signature[t] /\ Signature[t][i] \notin KeySet(n)
    BY <1>3
  <2> QED BY <2>1, <2>5, <2>6
<1>6. ASSUME NEW j \in 1..Len(d.to) PROVE EdgeIs(n, Branch(j))
  <2>1. Place(j) \in Nat
    <3>1. CASE IsClosed(t)
      <4>1. Signature[t] \in Seq(DOMAIN Fields) /\ t \notin DOMAIN Literals
        BY <3>1, TypeAssumption DEF IsClosed
      <4>2. \E i \in DOMAIN Signature[t] : Signature[t][i] = d.to[j][1]
        BY <4>1, <1>4 DEF HeadOf, Range
      <4>3. Place(j) \in DOMAIN Signature[t]
        BY <3>1, <4>2
      <4>4. DOMAIN Signature[t] \subseteq Nat
        BY <4>1
      <4> QED BY <4>3, <4>4
    <3>2. CASE ~IsClosed(t)
      BY <3>2
    <3> QED BY <3>1, <3>2
  <2> DEFINE c == d.to[j][1]
             e == Branch(j)
  <2>2. e.rank \in Nat /\ e.to = d.to[j][2] /\ e.on.head = c
    BY <2>1 DEF Constraint
  <2>3. c # Other /\ Heading(c, t)
    BY <1>4 DEF Heading
  <2>4. \A h : Meets(e.on, h) <=> h = c
    BY <2>2, <2>3 DEF Meets
  <2>5. Toward(n, c, e.to) /\ Leads(d, e.to)
    BY <2>2 DEF Toward, Leads
  <2> HIDE DEF e
  <2> QED BY <2>2, <2>3, <2>4, <2>5 DEF EdgeIs, e
<1>7. ASSUME NEW k \in Range(d.else) PROVE EdgeIs(n, Rest(k))
  <2>0. d.else # <<>>
    <3>1. Range(<<>>) = {}
      BY DEF Range
    <3> QED BY <1>7, <3>1
  <2>1. Leads(d, k)
    BY DEF Leads
  <2>2. CASE IsClosed(t)
    <3> DEFINE h == Signature[t][Min(left)]
               e == [rank |-> Min(left), to |-> k, on |-> Constraint(h, {})]
    <3>1. Rest(k) = e
      BY <2>2
    <3>2. Min(left) \in Nat /\ Min(left) \in DOMAIN Signature[t] /\ h \notin KeySet(n)
      BY <2>0, <2>2, <1>5
    <3> HIDE DEF left
    <3>3. HeadOf(h, t) /\ h # Other
      <4>1. Signature[t] \in Seq(DOMAIN Fields) /\ t \in DOMAIN Signature
        BY <2>2, TypeAssumption DEF IsClosed
      <4>2. h \in DOMAIN Fields /\ h \in Range(Signature[t])
        BY <4>1, <3>2 DEF Range
      <4> QED BY <4>1, <4>2, TypeAssumption DEF HeadOf
    <3> HIDE DEF h
    <3>4. e.rank \in Nat /\ e.to = k /\ e.on.head = h
      BY <3>2 DEF Constraint
    <3>5. \A g : Meets(e.on, g) <=> g = h
      BY <3>3, <3>4 DEF Meets
    <3>6. Toward(n, h, k)
      BY <3>2 DEF Toward
    <3> HIDE DEF e
    <3>7. EdgeIs(n, e)
      BY <2>1, <3>3, <3>4, <3>5, <3>6 DEF EdgeIs, Heading
    <3> HIDE DEF Rest
    <3> QED BY <3>1, <3>7
  <2>3. CASE ~IsClosed(t)
    <3> DEFINE e == [rank |-> Len(d.to) + 1, to |-> k, on |-> Constraint(Other, keys)]
    <3>1. Rest(k) = e
      BY <2>3
    <3> HIDE DEF keys, Rest
    <3>2. e.rank \in Nat /\ e.to = k /\ e.on.head = Other /\ e.on.excluded = KeySet(n)
      <4>1. Len(d.to) + 1 \in Nat
        <5>1. Len(d.to) \in Nat
          BY <1>2
        <5> HIDE DEF d
        <5> QED BY <5>1
      <4> DEFINE x == Len(d.to) + 1
                 y == Constraint(Other, keys)
      <4>2. y.head = Other /\ y.excluded = keys
        BY DEF Constraint
      <4>3. e = [rank |-> x, to |-> k, on |-> y] /\ x \in Nat
        BY <4>1
      <4> HIDE DEF x, y, e
      <4> QED BY <4>2, <4>3, <1>3
    <3>3. \A g : Meets(e.on, g) <=> g \notin KeySet(n)
      BY <3>2 DEF Meets
    <3>4. Other \notin KeySet(n) /\ Heading(Other, t)
      <4>1. t \in DOMAIN Literals
        BY <2>3, <1>2 DEF Type, IsClosed
      <4>2. Other \notin KeySet(n)
        BY <1>3, <1>4
      <4> QED BY <4>1, <4>2 DEF Heading
    <3>5. \A g : g \notin KeySet(n) => Toward(n, g, k)
      BY DEF Toward
    <3> HIDE DEF e
    <3>6. EdgeIs(n, e)
      BY <2>1, <3>2, <3>3, <3>4, <3>5 DEF EdgeIs
    <3> QED BY <3>1, <3>6
  <2> QED BY <2>2, <2>3
<1>8. ASSUME NEW e \in Edges(n) PROVE EdgeIs(n, e)
  <2>1. (\E j \in 1..Len(d.to) : e = Branch(j)) \/ \E k \in Range(d.else) : e = Rest(k)
    BY <1>1, <1>3
  <2> HIDE DEF Branch, Rest
  <2> QED BY <2>1, <1>6, <1>7
<1>9. ASSUME NEW k, Leads(d, k) PROVE \E e \in Edges(n) : e.to = k
  <2>1. CASE \E i \in 1..Len(d.to) : d.to[i][2] = k
    <3>1. PICK i \in 1..Len(d.to) : d.to[i][2] = k
      BY <2>1
    <3>2. Branch(i) \in Edges(n)
      <4> HIDE DEF Branch, Rest
      <4> QED BY <1>1, <1>3
    <3>3. Branch(i).to = k
      BY <3>1
    <3> HIDE DEF Branch
    <3> QED BY <3>2, <3>3
  <2>2. CASE k \in Range(d.else)
    <3>1. Rest(k) \in Edges(n)
      <4> HIDE DEF Branch, Rest
      <4> QED BY <1>1, <2>2
    <3>2. Rest(k).to = k
      OBVIOUS
    <3> HIDE DEF Rest
    <3> QED BY <3>1, <3>2
  <2> QED BY <1>9, <2>1, <2>2 DEF Leads
<1> QED BY <1>8, <1>9

-----------------------------------------------------------------------------
\* The failures of a decision exist: those of a test come from what it leads to.
Bad(f, n) == {e \in Edges(n) : f[e.to] # {}}

First(f, n) == {e \in Bad(f, n) : \A x \in Bad(f, n) : e.rank <= x.rank}

FailsAs(f, n) ==
    CASE nodes[n].kind = "fail" -> {<<>>}
      [] nodes[n].kind = "leaf" -> {}
      [] OTHER -> UNION {{Also(Occ(n), e.on, path) : path \in f[e.to]} : e \in First(f, n)}

LEMMA FailsSame ==
  ASSUME NEW f, NEW h, NEW n, \A e \in Edges(n) : f[e.to] = h[e.to]
  PROVE  FailsAs(f, n) = FailsAs(h, n)
<1>1. Bad(f, n) = Bad(h, n)
  BY DEF Bad
<1>2. First(f, n) = First(h, n)
  BY <1>1 DEF First
<1> DEFINE A(x) == UNION {{Also(Occ(n), e.on, path) : path \in x[e.to]} : e \in First(x, n)}
<1>3. \A e \in First(f, n) : f[e.to] = h[e.to]
  BY DEF First, Bad
<1>4. A(f) = A(h)
  <2>1. ASSUME NEW y \in A(f) PROVE y \in A(h)
    <3>1. PICK e \in First(f, n) : \E path \in f[e.to] : y = Also(Occ(n), e.on, path)
      OBVIOUS
    <3> QED BY <3>1, <1>2, <1>3
  <2>2. ASSUME NEW y \in A(h) PROVE y \in A(f)
    <3>1. PICK e \in First(h, n) : \E path \in h[e.to] : y = Also(Occ(n), e.on, path)
      OBVIOUS
    <3> QED BY <3>1, <1>2, <1>3
  <2> HIDE DEF A
  <2> QED BY <2>1, <2>2
<1>5. FailsAs(f, n) = CASE nodes[n].kind = "fail" -> {<<>>} [] nodes[n].kind = "leaf" -> {} [] OTHER -> A(f)
  BY Zenon DEF FailsAs
<1>6. FailsAs(h, n) = CASE nodes[n].kind = "fail" -> {<<>>} [] nodes[n].kind = "leaf" -> {} [] OTHER -> A(h)
  BY Zenon DEF FailsAs
<1> HIDE DEF A
<1> QED BY <1>4, <1>5, <1>6

LEMMA FailuresUnfold ==
  ASSUME CaseDone
  PROVE  \A n \in 1..Len(nodes) : Failures[n] = FailsAs(Failures, n)
<1> DEFINE Is(f) == f = [n \in DOMAIN nodes |-> FailsAs(f, n)]
           D == 1..Len(nodes)
<1>1. Failures = CHOOSE f : Is(f)
  BY Zenon DEF Failures, FailsAs, First, Bad
<1>2. PICK b \in Nat : \E g : Above(nodes, b, g)
  BY DEF CaseDone, Grounded
<1>3. PICK g : Above(nodes, b, g)
  BY <1>2
<1>4. DOMAIN nodes = D /\ \A n \in D : g[n] \in 0..b
  BY <1>3, DoneIs DEF Above
<1>5. ASSUME NEW n \in D, nodes[n].kind = "test", NEW e \in Edges(n) PROVE e.to \in D /\ g[e.to] < g[n]
  <2>1. Leads(nodes[n], e.to)
    BY <1>5, EdgesAre DEF EdgeIs
  <2>2. e.to \in D
    BY <2>1, DoneIs, NodeLeads
  <2> QED BY <2>1, <2>2, <1>3, <1>5 DEF Above
<1> DEFINE Upto(f, j) == f = [n \in D |-> f[n]] /\ \A n \in D : g[n] < j => f[n] = FailsAs(f, n)
           S == {j \in Nat : \E f : Upto(f, j)}
<1>6. 0 \in S
  <2>1. \A n \in D : ~(g[n] < 0)
    BY <1>4
  <2> DEFINE f == [n \in D |-> {}]
  <2>2. f = [n \in D |-> f[n]]
    OBVIOUS
  <2> HIDE DEF f, D
  <2>3. Upto(f, 0)
    BY <2>1, <2>2
  <2> HIDE DEF Upto
  <2> QED BY <2>3
<1>7. ASSUME NEW j \in Nat, j \in S PROVE j + 1 \in S
  <2>1. PICK f : Upto(f, j)
    BY <1>7
  <2> DEFINE h == [n \in D |-> FailsAs(f, n)]
  <2>2. ASSUME NEW n \in D, g[n] < j + 1 PROVE h[n] = FailsAs(h, n)
    <3>1. h[n] = FailsAs(f, n) /\ \A k \in D : h[k] = FailsAs(f, k)
      OBVIOUS
    <3> HIDE DEF h
    <3>2. CASE nodes[n].kind = "test"
      <4>1. ASSUME NEW e \in Edges(n) PROVE f[e.to] = h[e.to]
        <5>1. e.to \in D /\ g[e.to] < g[n]
          BY <3>2, <1>5
        <5>2. g[e.to] < j
          <6>1. g[e.to] \in 0..b /\ g[n] \in 0..b
            BY <5>1, <1>4
          <6> QED BY <6>1, <5>1, <2>2
        <5>3. f[e.to] = FailsAs(f, e.to)
          BY <2>1, <5>1, <5>2
        <5> QED BY <5>1, <5>3, <3>1
      <4>2. FailsAs(f, n) = FailsAs(h, n)
        BY <4>1, FailsSame
      <4> QED BY <4>2, <3>1
    <3>3. CASE nodes[n].kind \in {"fail", "leaf"}
      BY <3>1, <3>3 DEF FailsAs
    <3>4. nodes[n].kind \in {"fail", "leaf", "test"}
      BY DoneIs
    <3> QED BY <3>2, <3>3, <3>4
  <2>3. h = [n \in D |-> h[n]]
    OBVIOUS
  <2> HIDE DEF h, D
  <2>4. Upto(h, j + 1)
    BY <2>2, <2>3
  <2> HIDE DEF Upto
  <2> QED BY <2>4
<1>8. b + 1 \in S
  <2> HIDE DEF S
  <2> QED BY <1>2, <1>6, <1>7, AllNumbers
<1>9. PICK f : Upto(f, b + 1)
  BY <1>8
<1>10. \A n \in D : g[n] < b + 1
  BY <1>4
<1>11. f = [n \in D |-> f[n]] /\ \A n \in D : f[n] = FailsAs(f, n)
  BY <1>9, <1>10
<1> HIDE DEF D
<1>12. Is(f)
  BY <1>4, <1>11
<1>13. Is(Failures)
  <2> HIDE DEF Is
  <2> QED BY <1>1, <1>12
<1>14. \A n \in D : Failures[n] = FailsAs(Failures, n)
  BY <1>4, <1>13
<1> QED BY <1>14 DEF D

LEMMA FailuresOf ==
  ASSUME CaseDone, NEW n \in 1..Len(nodes)
  PROVE  /\ nodes[n].kind = "fail" => Failures[n] = {<<>>}
         /\ nodes[n].kind = "leaf" => Failures[n] = {}
         /\ nodes[n].kind = "test" =>
               /\ \A path \in Failures[n] : \E e \in Edges(n) : \E rest \in Failures[e.to] : path = Also(Occ(n), e.on, rest)
               /\ \A e \in Edges(n) : Failures[e.to] # {} => Failures[n] # {}
<1>1. Failures[n] = FailsAs(Failures, n)
  BY FailuresUnfold
<1>2. CASE nodes[n].kind = "fail"
  BY <1>1, <1>2 DEF FailsAs
<1>3. CASE nodes[n].kind = "leaf"
  BY <1>1, <1>3 DEF FailsAs
<1>4. CASE nodes[n].kind = "test"
  <2>1. Failures[n] = UNION {{Also(Occ(n), e.on, path) : path \in Failures[e.to]} : e \in First(Failures, n)}
    BY <1>1, <1>4 DEF FailsAs
  <2>2. ASSUME NEW path \in Failures[n]
        PROVE  \E e \in Edges(n) : \E rest \in Failures[e.to] : path = Also(Occ(n), e.on, rest)
    <3>1. PICK e \in First(Failures, n) : \E rest \in Failures[e.to] : path = Also(Occ(n), e.on, rest)
      BY <2>1
    <3>2. e \in Edges(n)
      BY DEF First, Bad
    <3> QED BY <3>1, <3>2
  <2>3. ASSUME NEW x \in Edges(n), Failures[x.to] # {} PROVE Failures[n] # {}
    <3> DEFINE C == Bad(Failures, n)
               g == [y \in C |-> y.rank]
    <3>1. x \in C
      BY <2>3 DEF Bad
    <3>2. \A y \in C : g[y] \in Nat
      BY <1>4, EdgesAre DEF Bad, EdgeIs
    <3>3. PICK e \in C : \A y \in C : g[e] <= g[y]
      <4> HIDE DEF C, g
      <4> QED BY <3>1, <3>2, LeastOf
    <3>4. e \in First(Failures, n)
      BY <3>3 DEF First
    <3>5. Failures[e.to] # {}
      BY <3>3 DEF Bad
    <3>6. PICK rest \in Failures[e.to] : TRUE
      BY <3>5
    <3>7. Also(Occ(n), e.on, rest) \in Failures[n]
      BY <3>4, <3>6, <2>1
    <3> QED BY <3>7
  <2> QED BY <2>2, <2>3, <1>4
<1> QED BY <1>2, <1>3, <1>4, DoneIs

-----------------------------------------------------------------------------
\* A value whose parts the decision that a test leads to asks for, and so a value whose
\* parts the test asks for.
LEMMA ValueWith ==
  ASSUME NEW t, Type(t), NEW h, Heading(h, t), NEW args, \A i \in Arity(h) : args[i] \in Values[Fields[h][i]]
  PROVE  \E u \in Values[t] : HeadIn(u) = h /\ \A i \in Arity(h) : Under(u, <<i>>) = args[i]
<1>1. h \in DOMAIN Fields \union {Other}
  <2>1. CASE t \in DOMAIN Literals /\ h \in Literals[t]
    BY <2>1, TypeAssumption
  <2>2. CASE t \in DOMAIN Signature /\ h \in Range(Signature[t])
    <3>1. Signature[t] \in Seq(DOMAIN Fields)
      BY <2>2, TypeAssumption
    <3> QED BY <3>1, <2>2 DEF Range
  <2> QED BY <2>1, <2>2 DEF Heading, HeadOf
<1> DEFINE A == [i \in Arity(h) |-> args[i]]
<1>2. ASSUME NEW i \in Arity(h) PROVE args[i] \in UNION Range(Values)
  <2>1. h \in DOMAIN Fields /\ i \in DOMAIN Fields[h]
    BY DEF Arity
  <2>2. Fields[h] \in Seq(DOMAIN Signature \union DOMAIN Literals)
    BY <2>1, TypeAssumption
  <2>3. Fields[h][i] \in DOMAIN Signature \union DOMAIN Literals
    BY <2>1, <2>2
  <2>4. Values[Fields[h][i]] \in Range(Values)
    BY <2>3, ValueAssumption DEF Range
  <2> QED BY <2>4
<1>3. A \in [Arity(h) -> UNION Range(Values)] /\ \A i \in Arity(h) : A[i] = args[i]
  BY <1>2
<1> HIDE DEF A
<1>4. t \in DOMAIN Signature \union DOMAIN Literals /\ (HeadOf(h, t) \/ (h = Other /\ t \in DOMAIN Literals))
  BY DEF Type, Heading
<1>5. \A i \in Arity(h) : A[i] \in Values[Fields[h][i]]
  BY <1>3
<1>6. \A B \in [Arity(h) -> UNION Range(Values)] :
         (\A i \in Arity(h) : B[i] \in Values[Fields[h][i]]) =>
         \E v \in Values[t] : HeadIn(v) = h /\ \A i \in Arity(h) : Under(v, <<i>>) = B[i]
  BY <1>1, <1>4, ValueAssumption
<1>7. \E v \in Values[t] : HeadIn(v) = h /\ \A i \in Arity(h) : Under(v, <<i>>) = A[i]
  BY <1>3, <1>5, <1>6
<1> QED BY <1>3, <1>7

LEMMA ValueHeaded ==
  ASSUME NEW t, Type(t), NEW h, Heading(h, t)
  PROVE  \E u \in Values[t] : HeadIn(u) = h
<1> DEFINE args == [i \in Arity(h) |-> CHOOSE x : x \in Values[Fields[h][i]]]
<1>1. ASSUME NEW i \in Arity(h) PROVE args[i] \in Values[Fields[h][i]]
  <2>1. h \in DOMAIN Fields /\ i \in DOMAIN Fields[h]
    BY DEF Arity
  <2>2. Fields[h] \in Seq(DOMAIN Signature \union DOMAIN Literals)
    BY <2>1, TypeAssumption
  <2>3. Fields[h][i] \in DOMAIN Signature \union DOMAIN Literals
    BY <2>1, <2>2
  <2>4. Values[Fields[h][i]] # {}
    BY <2>3, ValueAssumption
  <2> QED BY <2>4
<1> HIDE DEF args
<1>2. \E u \in Values[t] : HeadIn(u) = h /\ \A i \in Arity(h) : Under(u, <<i>>) = args[i]
  BY <1>1, ValueWith
<1> QED BY <1>2

LEMMA Takes ==
  ASSUME CaseDone, NEW n \in 1..Len(nodes), nodes[n].kind = "test", NEW v, IsValue(v, site), OnWay(n, v)
  PROVE  /\ \E k : Toward(n, HeadAtTest(n, v), k)
         /\ \A k : Toward(n, HeadAtTest(n, v), k) => OnWay(k, v)
<1> DEFINE h == HeadAtTest(n, v)
           d == nodes[n]
<1>1. CASE \E i \in 1..Len(d.to) : d.to[i][1] = h
  <2>1. \E k : Toward(n, h, k)
    BY <1>1 DEF Toward
  <2>2. ASSUME NEW k, Toward(n, h, k) PROVE OnWay(k, v)
    <3>1. h \in KeySet(n)
      BY <1>1 DEF KeySet
    <3>2. PICK i \in 1..Len(d.to) : d.to[i][1] = h /\ d.to[i][2] = k
      BY <2>2, <3>1 DEF Toward
    <3> QED BY <3>2, TakesEdge
  <2> QED BY <2>1, <2>2
<1>2. CASE \A i \in 1..Len(d.to) : d.to[i][1] # h
  <2>1. d.else # <<>> /\ \A k \in Range(d.else) : OnWay(k, v)
    BY <1>2, TakesDefault
  <2>2. h \notin KeySet(n)
    BY <1>2 DEF KeySet
  <2>3. \E k : k \in Range(d.else)
    <3>1. PICK k : d.else = <<k>>
      BY <2>1 DEF CaseDone, Grounded, Rests
    <3>2. k \in Range(<<k>>)
      BY DEF Range
    <3> QED BY <3>1, <3>2
  <2> QED BY <1>2, <2>1, <2>2, <2>3 DEF Toward
<1> QED BY <1>1, <1>2

\* Values for the columns of a decision, and a value that has them there.
Columned(n, W) == \A k \in 1..Len(nodes[n].matrix.occs) : W[k] \in Values[ledger[nodes[n].matrix.occs[k]].type]

Bears(n, W, v) == /\ IsValue(v, site) /\ OnWay(n, v)
                  /\ \A k \in 1..Len(nodes[n].matrix.occs) : PartAt(v)[nodes[n].matrix.occs[k]] = W[k]

\* The values W are those X with the part a test looks at, with head h, in place of its fields.
Lifts(n, h, k, W, X) ==
    Columned(n, W) /\ \A v : Bears(n, W, v) => HeadAtTest(n, v) = h /\ Bears(k, X, v)

LEMMA LiftsFrom ==
  ASSUME CaseDone, NEW n \in 1..Len(nodes), nodes[n].kind = "test", NEW h, NEW k, Toward(n, h, k),
         NEW b, Sprung(Occ(n), b), nodes[k].matrix.occs = Replaced(nodes[n].matrix.occs, nodes[n].col, b),
         \A i \in 1..Len(b) : ledger[b[i]].head = h, NEW X, Columned(k, X),
         NEW u \in Values[ledger[Occ(n)].type], HeadIn(u) = h,
         \A i \in 1..Len(b) : Under(u, <<i>>) = X[nodes[n].col - 1 + i]
  PROVE  \E W : Lifts(n, h, k, W, X)
<1> DEFINE s == nodes[n].matrix.occs
           t == nodes[k].matrix.occs
           col == nodes[n].col
           z == Len(b)
           W == [j \in 1..Len(s) |-> IF j = col THEN u ELSE X[Shift(j, col, z)]]
<1>1. Tested(n) /\ Ledgered(ledger)
  BY TestedIs, DoneIs
<1>2. /\ IsMatrix(nodes[n].matrix) /\ col \in 1..Len(s) /\ Occ(n) = s[col] /\ Occ(n) \in 1..Len(ledger)
  BY <1>1 DEF Tested
<1>3. Comes(s, col, b, t)
  <2>1. IsSeq(s) /\ IsSeq(b)
    BY <1>2 DEF IsMatrix, Sprung
  <2> QED BY <2>1, <1>2, ReplacedFrom
<1>4. \A j \in 1..Len(s) : W[j] = IF j = col THEN u ELSE X[Shift(j, col, z)]
  OBVIOUS
<1>5. \A y \in 1..Len(t) : X[y] \in Values[ledger[t[y]].type]
  BY DEF Columned
<1> HIDE DEF W, t
<1>6. Columned(n, W)
  <2>1. ASSUME NEW j \in 1..Len(s) PROVE W[j] \in Values[ledger[s[j]].type]
    <3>1. CASE j = col
      BY <3>1, <1>2, <1>4
    <3>2. CASE j # col
      <4>1. Shift(j, col, z) \in 1..Len(t) /\ t[Shift(j, col, z)] = s[j]
        BY <3>2, <1>3 DEF Comes
      <4> QED BY <4>1, <3>2, <1>4, <1>5
    <3> QED BY <3>1, <3>2
  <2> QED BY <2>1 DEF Columned
<1>7. ASSUME NEW v, Bears(n, W, v) PROVE HeadAtTest(n, v) = h /\ Bears(k, X, v)
  <2>1. IsValue(v, site) /\ OnWay(n, v) /\ \A j \in 1..Len(s) : PartAt(v)[s[j]] = W[j]
    BY <1>7 DEF Bears
  <2>2. PartAt(v)[Occ(n)] = u
    BY <2>1, <1>2, <1>4
  <2>3. HeadAtTest(n, v) = h
    BY <2>2 DEF HeadAtTest, HeadIn
  <2>4. OnWay(k, v)
    BY <2>1, <2>3, Takes
  <2>5. Occ(n) \in Present(v)
    BY <2>1, LooksAt
  <2>6. ASSUME NEW i \in 1..z PROVE PartAt(v)[b[i]] = X[col - 1 + i]
    <3>1. b[i] \in 2..Len(ledger) /\ ledger[b[i]].parent = Occ(n) /\ ledger[b[i]].field = i /\ ledger[b[i]].head = h
      BY DEF Sprung
    <3>2. b[i] \in DOMAIN ledger
      BY <3>1, <1>1, LedgerIs
    <3>3. b[i] \in Children(ledger, Occ(n), PartAt(v)[Occ(n)][<<>>].head)
      BY <3>1, <3>2, <2>3 DEF Children, HeadAtTest
    <3>4. PartAt(v)[b[i]] = Under(PartAt(v)[Occ(n)], <<ledger[b[i]].field>>)
      BY <3>3, <2>1, <2>5, <1>1, PartsAre
    <3> QED BY <3>1, <3>4, <2>2
  <2>7. ASSUME NEW y \in 1..Len(t) PROVE PartAt(v)[t[y]] = X[y]
    <3>1. \/ \E j \in (1..Len(s)) \ {col} : y = Shift(j, col, z) /\ t[y] = s[j]
          \/ \E i \in 1..z : y = col - 1 + i /\ t[y] = b[i]
      BY <1>3 DEF Comes
    <3>2. ASSUME NEW j \in (1..Len(s)) \ {col}, y = Shift(j, col, z), t[y] = s[j] PROVE PartAt(v)[t[y]] = X[y]
      BY <3>2, <2>1, <1>4
    <3>3. ASSUME NEW i \in 1..z, y = col - 1 + i, t[y] = b[i] PROVE PartAt(v)[t[y]] = X[y]
      BY <3>3, <2>6
    <3> QED BY <3>1, <3>2, <3>3
  <2>8. Bears(k, X, v)
    BY <2>1, <2>4, <2>7 DEF Bears, t
  <2> QED BY <2>3, <2>8
<1>8. Lifts(n, h, k, W, X)
  BY <1>6, <1>7 DEF Lifts
<1> QED BY <1>8

LEMMA LiftsAlong ==
  ASSUME CaseDone, NEW n \in 1..Len(nodes), nodes[n].kind = "test", NEW h, Heading(h, ledger[Occ(n)].type),
         NEW k, Toward(n, h, k), NEW X, Columned(k, X)
  PROVE  \E W : Lifts(n, h, k, W, X)
<1> DEFINE d == nodes[n]
           m == d.matrix
           col == d.col
           o == Occ(n)
           t == ledger[o].type
<1>1. Tested(n) /\ Ledgered(ledger)
  BY TestedIs, DoneIs
<1>2. /\ col \in 1..Len(m.occs) /\ o = m.occs[col] /\ o \in 1..Len(ledger) /\ Type(t) /\ IsMatrix(m)
      /\ \A i \in 1..Len(d.to) : /\ d.to[i][1] \in DOMAIN Fields /\ Complete(ledger, o, d.to[i][1])
                                 /\ nodes[d.to[i][2]].matrix = Specialize(m, col, d.to[i][1], ledger)
      /\ \A j \in Range(d.else) : nodes[j].matrix = Default(m, col)
  BY <1>1 DEF Tested
<1>3. ASSUME NEW i \in 1..Len(d.to), d.to[i][1] = h, d.to[i][2] = k PROVE \E W : Lifts(n, h, k, W, X)
  <2> DEFINE b == FieldsOf(ledger, o, h)
             args == [j \in DOMAIN Fields[h] |-> X[col - 1 + j]]
             x == nodes[k].matrix
  <2> HIDE DEF d, m, col, o, t
  <2>1. h \in DOMAIN Fields /\ Complete(ledger, o, h) /\ x = Specialize(m, col, h, ledger)
    BY <1>2, <1>3
  <2>0. x.occs = Replaced(m.occs, col, b)
    <3> HIDE DEF x
    <3> QED BY <2>1, <1>2 DEF Specialize
  <2>2. nodes[k].matrix.occs = Replaced(m.occs, col, b)
    BY <2>0
  <2>3. /\ Sprung(o, b) /\ Len(b) = Len(Fields[h]) /\ DOMAIN Fields[h] = 1..Len(Fields[h])
        /\ \A j \in 1..Len(Fields[h]) : ledger[b[j]].head = h /\ ledger[b[j]].type = Fields[h][j]
    <3>1. /\ Sprung(o, b) /\ Len(b) = Len(Fields[h])
          /\ DOMAIN Fields[h] = 1..Len(Fields[h]) /\ Len(Fields[h]) \in Nat
          /\ \A j \in 1..Len(Fields[h]) : LET y == FieldsOf(ledger, o, h)[j]
                                          IN  y \in Children(ledger, o, h) /\ ledger[y].head = h /\ ledger[y].type = Fields[h][j]
      <4> HIDE DEF x, args
      <4> QED BY <2>1, <1>1, <1>2, FieldsSprung
    <3> QED BY <3>1
  <2> HIDE DEF b
  <2>4. Comes(m.occs, col, b, nodes[k].matrix.occs)
    <3>1. IsSeq(m.occs) /\ IsSeq(b)
      BY <1>2, <2>3 DEF IsMatrix, Sprung
    <3> QED BY <3>1, <2>2, <1>2, ReplacedFrom
  <2>5. ASSUME NEW j \in DOMAIN Fields[h] PROVE args[j] = X[col - 1 + j] /\ args[j] \in Values[Fields[h][j]]
    <3>1. j \in 1..Len(b) /\ j \in 1..Len(Fields[h])
      BY <2>3
    <3>2. col - 1 + j \in 1..Len(nodes[k].matrix.occs) /\ nodes[k].matrix.occs[col - 1 + j] = b[j]
      BY <3>1, <2>4 DEF Comes
    <3>3. X[col - 1 + j] \in Values[ledger[b[j]].type]
      BY <3>2 DEF Columned
    <3> QED BY <3>1, <3>3, <2>3
  <2> HIDE DEF args
  <2>6. Arity(h) = DOMAIN Fields[h]
    BY <2>1 DEF Arity
  <2>7. PICK u \in Values[t] : HeadIn(u) = h /\ \A j \in DOMAIN Fields[h] : Under(u, <<j>>) = args[j]
    <3>1. Heading(h, t) /\ Type(t)
      BY <1>2 DEF t, o
    <3>2. \A j \in Arity(h) : args[j] \in Values[Fields[h][j]]
      BY <2>5, <2>6
    <3>3. \E u \in Values[t] : HeadIn(u) = h /\ \A j \in Arity(h) : Under(u, <<j>>) = args[j]
      BY <3>1, <3>2, ValueWith
    <3> QED BY <3>3, <2>6
  <2>8. \A j \in 1..Len(b) : Under(u, <<j>>) = X[col - 1 + j] /\ ledger[b[j]].head = h
    BY <2>3, <2>5, <2>7
  <2>9. nodes[k].matrix.occs = Replaced(nodes[n].matrix.occs, nodes[n].col, b) /\ Sprung(Occ(n), b)
    BY <2>2, <2>3 DEF m, d, col, o
  <2>10. u \in Values[ledger[Occ(n)].type] /\ \A j \in 1..Len(b) : Under(u, <<j>>) = X[nodes[n].col - 1 + j]
    BY <2>7, <2>8 DEF t, o, col, d
  <2> QED BY <2>7, <2>8, <2>9, <2>10, LiftsFrom
<1>4. ASSUME h \notin KeySet(n), k \in Range(d.else) PROVE \E W : Lifts(n, h, k, W, X)
  <2>1. PICK u \in Values[t] : HeadIn(u) = h
    BY <1>2, ValueHeaded
  <2> DEFINE b == <<>>
             x == nodes[k].matrix
  <2>0. x.occs = Replaced(m.occs, col, b)
    <3> HIDE DEF d, m, col, o, t
    <3>1. x = Default(m, col)
      BY <1>2, <1>4
    <3> HIDE DEF x
    <3> QED BY <3>1 DEF Default
  <2>2. nodes[k].matrix.occs = Replaced(m.occs, col, b)
    BY <2>0
  <2>3. Len(b) = 0
    BY EmptySeq
  <2>4. Sprung(o, b)
    BY <2>3 DEF Sprung, IsSeq
  <2> HIDE DEF b
  <2>5. \A i \in 1..Len(b) : FALSE
    BY <2>3
  <2> QED BY <2>1, <2>2, <2>4, <2>5, LiftsFrom
<1> QED BY <1>3, <1>4 DEF Toward

-----------------------------------------------------------------------------
\* Every value comes to the leaf of its first arm, or to a failure that is told of; and
\* some value comes to each leaf.
LEMMA TowardLeads ==
  ASSUME CaseDone, NEW n \in 1..Len(nodes), NEW h, NEW k, Toward(n, h, k)
  PROVE  Leads(nodes[n], k) /\ k \in 1..Len(nodes)
<1>1. Leads(nodes[n], k)
  BY DEF Toward, Leads
<1> QED BY <1>1, DoneIs, NodeLeads

EndsWell(n, v) ==
    /\ ArmsFor(v) = {} => Failures[n] # {}
    /\ ArmsFor(v) # {} => \E l \in 1..Len(nodes) : /\ nodes[l].kind = "leaf" /\ nodes[l].matrix.rows[1].arm \in ArmsFor(v)
                                                   /\ \A i \in ArmsFor(v) : nodes[l].matrix.rows[1].arm <= i

LEMMA AllEnd ==
  ASSUME CaseDone
  PROVE  \A n \in 1..Len(nodes) : \A v : IsValue(v, site) /\ OnWay(n, v) => EndsWell(n, v)
<1> DEFINE G == {n \in 1..Len(nodes) : \A v : IsValue(v, site) /\ OnWay(n, v) => EndsWell(n, v)}
<1>1. ASSUME NEW n \in 1..Len(nodes),
             nodes[n].kind = "test" => \A k \in 1..Len(nodes) : Leads(nodes[n], k) => k \in G,
             NEW v, IsValue(v, site), OnWay(n, v)
      PROVE  EndsWell(n, v)
  <2>1. CASE nodes[n].kind = "fail"
    <3>1. ArmsFor(v) = {} /\ Failures[n] = {<<>>}
      BY <1>1, <2>1, FailsOn, FailuresOf
    <3> QED BY <3>1 DEF EndsWell
  <2>2. CASE nodes[n].kind = "leaf"
    <3>1. nodes[n].matrix.rows[1].arm \in ArmsFor(v) /\ \A i \in ArmsFor(v) : nodes[n].matrix.rows[1].arm <= i
      BY <1>1, <2>2, LeafChooses
    <3> QED BY <3>1, <2>2 DEF EndsWell
  <2>3. CASE nodes[n].kind = "test"
    <3>1. PICK k : Toward(n, HeadAtTest(n, v), k)
      BY <1>1, <2>3, Takes
    <3>2. OnWay(k, v)
      BY <3>1, <1>1, <2>3, Takes
    <3>3. Leads(nodes[n], k) /\ k \in 1..Len(nodes)
      BY <3>1, TowardLeads
    <3>4. EndsWell(k, v)
      BY <3>2, <3>3, <1>1, <2>3
    <3>5. Failures[k] # {} => Failures[n] # {}
      <4>1. PICK e \in Edges(n) : e.to = k
        BY <3>3, <2>3, EdgesAre
      <4> QED BY <4>1, <2>3, FailuresOf
    <3> QED BY <3>4, <3>5 DEF EndsWell
  <2> QED BY <2>1, <2>2, <2>3, DoneIs
<1>2. \A n \in 1..Len(nodes) :
         (nodes[n].kind = "test" => \A k \in 1..Len(nodes) : Leads(nodes[n], k) => k \in G) => n \in G
  BY <1>1
<1> HIDE DEF G
<1>3. \A n \in 1..Len(nodes) : n \in G
  BY <1>2, NodesBottomUp
<1> QED BY <1>3 DEF G

LEMMA SomeColumned ==
  ASSUME CaseDone, NEW n \in 1..Len(nodes)
  PROVE  \E W : Columned(n, W)
<1> DEFINE s == nodes[n].matrix.occs
           W == [k \in 1..Len(s) |-> CHOOSE x : x \in Values[ledger[s[k]].type]]
<1>1. NodeOK(ledger, nodes, n) /\ Ledgered(ledger) /\ site \in DOMAIN Arms
  BY DoneIs
<1>2. \A k \in 1..Len(s) : s[k] \in 1..Len(ledger)
  BY <1>1 DEF NodeOK, Mentions
<1>3. \A k \in 1..Len(s) : Type(ledger[s[k]].type)
  BY <1>1, <1>2, TypesAre
<1>4. \A k \in 1..Len(s) : Values[ledger[s[k]].type] # {}
  BY <1>3, ValueAssumption DEF Type
<1>5. \A k \in 1..Len(s) : W[k] \in Values[ledger[s[k]].type]
  BY <1>4
<1> HIDE DEF W
<1> QED BY <1>5 DEF Columned

LEMMA RootBears ==
  ASSUME CaseDone, NEW W, Columned(1, W)
  PROVE  W[1] \in Values[site] /\ IsValue(W[1], site) /\ Bears(1, W, W[1])
<1>1. nodes[1].matrix = Matrix(site, arms) /\ ArmsAre /\ Ledgered(ledger) /\ site \in DOMAIN Arms /\ ledger[Root].type = site
  BY DoneIs DEF Ledgered, Root
<1>2. nodes[1].matrix.occs = <<Root>>
  BY <1>1, RootRows
<1>3. W[1] \in Values[site]
  BY <1>1, <1>2 DEF Columned
<1>4. IsValue(W[1], site)
  BY <1>1, <1>3, ArmAssumption, ValueAssumption
<1>5. OnWay(1, W[1]) /\ PartAt(W[1])[Root] = W[1]
  BY <1>1, <1>4, RootOnWay, PartsAre
<1>6. \A k \in 1..Len(<<Root>>) : k = 1
  OBVIOUS
<1> QED BY <1>2, <1>3, <1>4, <1>5, <1>6 DEF Bears

LEMMA LeafReached ==
  ASSUME CaseDone, NEW l \in 1..Len(nodes)
  PROVE  \E v \in Values[site] : IsValue(v, site) /\ OnWay(l, v)
<1> DEFINE Gets(n) == \E W : Columned(n, W) /\ \A v : Bears(n, W, v) => OnWay(l, v)
           G == {n \in 1..Len(nodes) : Gets(n)}
<1>1. l \in G
  <2>1. \A W, v : Bears(l, W, v) => OnWay(l, v)
    BY DEF Bears
  <2> QED BY <2>1, SomeColumned
<1>2. ASSUME NEW n \in 1..Len(nodes), NEW k \in 1..Len(nodes), nodes[n].kind = "test", Leads(nodes[n], k), Gets(k)
      PROVE  Gets(n)
  <2>1. PICK X : Columned(k, X) /\ \A v : Bears(k, X, v) => OnWay(l, v)
    BY <1>2
  <2>2. PICK e \in Edges(n) : e.to = k
    BY <1>2, EdgesAre
  <2>3. EdgeIs(n, e)
    BY <1>2, <2>2, EdgesAre
  <2>4. PICK h : Heading(h, ledger[Occ(n)].type) /\ Toward(n, h, k)
    BY <2>2, <2>3 DEF EdgeIs
  <2>5. PICK W : Lifts(n, h, k, W, X)
    BY <1>2, <2>1, <2>4, LiftsAlong
  <2>6. Columned(n, W) /\ \A v : Bears(n, W, v) => OnWay(l, v)
    BY <2>1, <2>5 DEF Lifts
  <2> QED BY <2>6
<1>3. \A n, k \in 1..Len(nodes) : nodes[n].kind = "test" /\ Leads(nodes[n], k) /\ k \in G => n \in G
  <2> HIDE DEF Gets
  <2> QED BY <1>2
<1>4. 1 \in G
  <2> HIDE DEF G
  <2> QED BY <1>1, <1>3, NodesClimb
<1>5. PICK W : Columned(1, W) /\ \A v : Bears(1, W, v) => OnWay(l, v)
  BY <1>4
<1> QED BY <1>5, RootBears

-----------------------------------------------------------------------------
\* A path that fails: what it constrains is found on the way, no value that meets it has
\* an arm, and some value meets it.
Agrees(path, v) == \A x \in DOMAIN path : x \in Present(v) => Meets(path[x], PartAt(v)[x][<<>>].head)
Shows(path, v) == \A x \in DOMAIN path : x \in Present(v) /\ Meets(path[x], PartAt(v)[x][<<>>].head)

InColumns(n, x) == \E j \in 1..Len(nodes[n].matrix.occs) : x = nodes[n].matrix.occs[j]

Told(n, path) ==
    /\ DOMAIN path \subseteq 1..Len(ledger)
    /\ \A x \in DOMAIN path : /\ InColumns(n, x) \/ (ledger[x].parent \in DOMAIN path /\ path[ledger[x].parent].head = ledger[x].head)
                              /\ \E y \in Lineage[x] : InColumns(n, y)
    /\ \A v : IsValue(v, site) /\ OnWay(n, v) /\ Agrees(path, v) => ArmsFor(v) = {}
    /\ \E W : Columned(n, W) /\ \A v : Bears(n, W, v) => Shows(path, v)

LEMMA EdgeColumns ==
  ASSUME CaseDone, NEW n \in 1..Len(nodes), nodes[n].kind = "test", NEW e \in Edges(n), NEW x, InColumns(e.to, x)
  PROVE  /\ x \in 1..Len(ledger) /\ x \notin Lineage[Occ(n)]
         /\ InColumns(n, x) \/ (ledger[x].parent = Occ(n) /\ ledger[x].head = e.on.head /\ Occ(n) \in Lineage[x])
<1> DEFINE d == nodes[n]
           m == d.matrix
           col == d.col
           k == e.to
           o == Occ(n)
           z == nodes[k].matrix
<1>1. Tested(n) /\ Ledgered(ledger) /\ WellMade(n) /\ EdgeIs(n, e) /\ NodeOK(ledger, nodes, n)
  BY TestedIs, DoneIs, NodesWellMade, EdgesAre
<1>2. /\ col \in 1..Len(m.occs) /\ o = m.occs[col] /\ o \in 1..Len(ledger) /\ IsMatrix(m) /\ Separate(m)
      /\ \A i \in 1..Len(d.to) : /\ d.to[i][1] \in DOMAIN Fields /\ Complete(ledger, o, d.to[i][1])
                                 /\ nodes[d.to[i][2]].matrix = Specialize(m, col, d.to[i][1], ledger)
      /\ \A j \in Range(d.else) : nodes[j].matrix = Default(m, col)
  BY <1>1 DEF Tested, WellMade
<1>3. \A j \in 1..Len(m.occs) : m.occs[j] \in 1..Len(ledger)
  BY <1>1 DEF NodeOK, Mentions
<1>4. PICK y \in 1..Len(z.occs) : x = z.occs[y]
  BY DEF InColumns
<1>5. (\E i \in 1..Len(d.to) : d.to[i][1] = e.on.head /\ d.to[i][2] = k) \/ k \in Range(d.else)
  BY <1>1 DEF EdgeIs
<1>6. ASSUME NEW j \in (1..Len(m.occs)) \ {col}, x = m.occs[j]
      PROVE  x \in 1..Len(ledger) /\ x \notin Lineage[o] /\ InColumns(n, x)
  BY <1>2, <1>3, <1>6 DEF Separate, InColumns
<1> HIDE DEF d, m, col, o
<1>7. CASE \E i \in 1..Len(d.to) : d.to[i][1] = e.on.head /\ d.to[i][2] = k
  <2> DEFINE c == e.on.head
             b == FieldsOf(ledger, o, c)
  <2>1. c \in DOMAIN Fields /\ Complete(ledger, o, c) /\ z = Specialize(m, col, c, ledger)
    BY <1>2, <1>7
  <2> HIDE DEF z, c
  <2>2. z.occs = Replaced(m.occs, col, b)
    BY <2>1, <1>2 DEF Specialize
  <2>3. Sprung(o, b) /\ Len(b) = Len(Fields[c]) /\ \A i \in 1..Len(Fields[c]) : ledger[b[i]].head = c
    BY <2>1, <1>1, <1>2, FieldsSprung
  <2> HIDE DEF b
  <2>4. Comes(m.occs, col, b, z.occs)
    <3>1. IsSeq(m.occs) /\ IsSeq(b)
      BY <1>2, <2>3 DEF IsMatrix, Sprung
    <3> QED BY <3>1, <2>2, <1>2, ReplacedFrom
  <2>5. ASSUME NEW i \in 1..Len(b), x = b[i]
        PROVE  x \in 1..Len(ledger) /\ x \notin Lineage[o] /\ ledger[x].parent = o /\ ledger[x].head = c /\ o \in Lineage[x]
    <3>1. x \in 2..Len(ledger) /\ ledger[x].parent = o /\ ledger[x].head = c
      BY <2>3, <2>5 DEF Sprung
    <3>2. x \notin Lineage[o] /\ o \in Lineage[x]
      BY <2>3, <2>5, <1>1, <1>2, SprungFar
    <3>3. x \in 1..Len(ledger)
      BY <3>1, <1>1, LedgerIs
    <3> QED BY <3>1, <3>2, <3>3
  <2> QED BY <1>4, <1>6, <2>4, <2>5 DEF Comes, c, o
<1>8. CASE k \in Range(d.else)
  <2>1. z = Default(m, col)
    BY <1>2, <1>8
  <2> HIDE DEF z
  <2> DEFINE b == <<>>
  <2>2. z.occs = Replaced(m.occs, col, b)
    BY <2>1 DEF Default
  <2>3. Len(b) = 0 /\ IsSeq(b)
    BY EmptySeq DEF IsSeq
  <2> HIDE DEF b
  <2>4. Comes(m.occs, col, b, z.occs)
    BY <1>2, <2>2, <2>3, ReplacedFrom DEF IsMatrix
  <2>5. \A i \in 1..Len(b) : FALSE
    BY <2>3
  <2> QED BY <1>4, <1>6, <2>4, <2>5 DEF Comes, o
<1> QED BY <1>5, <1>7, <1>8

LEMMA TestTells ==
  ASSUME CaseDone, NEW n \in 1..Len(nodes), nodes[n].kind = "test", NEW e \in Edges(n), NEW rest, Told(e.to, rest)
  PROVE  Told(n, Also(Occ(n), e.on, rest))
<1> DEFINE o == Occ(n)
           k == e.to
           path == Also(o, e.on, rest)
<1>1. Tested(n) /\ Ledgered(ledger) /\ EdgeIs(n, e)
  BY TestedIs, DoneIs, EdgesAre
<1>2. o \in 1..Len(ledger) /\ InColumns(n, o) /\ o \in Lineage[o]
  <2>1. o \in 1..Len(ledger) /\ InColumns(n, o)
    BY <1>1 DEF Tested, InColumns
  <2> QED BY <2>1, <1>1, LineageOf
<1>3. \A x : InColumns(k, x) =>
         /\ x \in 1..Len(ledger) /\ x \notin Lineage[o]
         /\ InColumns(n, x) \/ (ledger[x].parent = o /\ ledger[x].head = e.on.head /\ o \in Lineage[x])
  BY EdgeColumns
<1>4. /\ DOMAIN rest \subseteq 1..Len(ledger)
      /\ \A x \in DOMAIN rest : /\ InColumns(k, x) \/ (ledger[x].parent \in DOMAIN rest /\ rest[ledger[x].parent].head = ledger[x].head)
                                /\ \E y \in Lineage[x] : InColumns(k, y)
      /\ \A v : IsValue(v, site) /\ OnWay(k, v) /\ Agrees(rest, v) => ArmsFor(v) = {}
  BY DEF Told
<1>5. o \notin DOMAIN rest
  BY <1>3, <1>4
<1>6. /\ DOMAIN path = {o} \union DOMAIN rest /\ path[o] = e.on
      /\ \A x \in DOMAIN rest : path[x] = rest[x]
  BY <1>5 DEF Also
<1> HIDE DEF path, o, k
<1>7. DOMAIN path \subseteq 1..Len(ledger)
  BY <1>2, <1>4, <1>6
<1>8. ASSUME NEW x \in DOMAIN path
      PROVE  /\ InColumns(n, x) \/ (ledger[x].parent \in DOMAIN path /\ path[ledger[x].parent].head = ledger[x].head)
             /\ \E y \in Lineage[x] : InColumns(n, y)
  <2>1. CASE x = o
    BY <2>1, <1>2
  <2>2. CASE x \in DOMAIN rest
    <3>1. InColumns(n, x) \/ (ledger[x].parent \in DOMAIN path /\ path[ledger[x].parent].head = ledger[x].head)
      <4>1. CASE InColumns(k, x)
        BY <4>1, <1>3, <1>6
      <4>2. CASE ledger[x].parent \in DOMAIN rest /\ rest[ledger[x].parent].head = ledger[x].head
        BY <4>2, <1>6
      <4> QED BY <2>2, <4>1, <4>2, <1>4
    <3>2. PICK y \in Lineage[x] : InColumns(k, y)
      BY <2>2, <1>4
    <3>3. Lineage[y] \subseteq Lineage[x]
      BY <3>2, <2>2, <1>1, <1>4, LineageOf
    <3> QED BY <3>1, <3>2, <3>3, <1>2, <1>3
  <2> QED BY <2>1, <2>2, <1>6
<1>9. ASSUME NEW v, IsValue(v, site), OnWay(n, v), Agrees(path, v) PROVE ArmsFor(v) = {}
  <2>1. o \in Present(v)
    BY <1>9, LooksAt DEF o
  <2>2. Meets(e.on, HeadAtTest(n, v))
    BY <2>1, <1>6, <1>9 DEF Agrees, HeadAtTest, o
  <2>3. OnWay(k, v)
    BY <2>2, <1>1, <1>9, Takes DEF EdgeIs, k
  <2>4. Agrees(rest, v)
    BY <1>6, <1>9 DEF Agrees
  <2> QED BY <2>3, <2>4, <1>4, <1>9
<1>10. \E W : Columned(n, W) /\ \A v : Bears(n, W, v) => Shows(path, v)
  <2>1. PICK X : Columned(k, X) /\ \A v : Bears(k, X, v) => Shows(rest, v)
    BY DEF Told, k
  <2>2. PICK h : Heading(h, ledger[o].type) /\ Meets(e.on, h)
    BY <1>1 DEF EdgeIs, o
  <2>3. Toward(n, h, k)
    BY <2>2, <1>1 DEF EdgeIs, k
  <2>4. PICK W : Lifts(n, h, k, W, X)
    BY <2>1, <2>2, <2>3, LiftsAlong DEF o
  <2>5. ASSUME NEW v, Bears(n, W, v) PROVE Shows(path, v)
    <3>1. HeadAtTest(n, v) = h /\ Bears(k, X, v)
      BY <2>4, <2>5 DEF Lifts
    <3>2. o \in Present(v) /\ PartAt(v)[o][<<>>].head = h
      BY <2>5, <3>1, LooksAt DEF Bears, o, HeadAtTest
    <3>3. Shows(rest, v)
      BY <2>1, <3>1
    <3>4. ASSUME NEW x \in DOMAIN path PROVE x \in Present(v) /\ Meets(path[x], PartAt(v)[x][<<>>].head)
      <4>1. CASE x = o
        BY <4>1, <3>2, <2>2, <1>6
      <4>2. CASE x \in DOMAIN rest
        BY <4>2, <3>3, <1>6 DEF Shows
      <4> QED BY <4>1, <4>2, <1>6
    <3> QED BY <3>4 DEF Shows
  <2> QED BY <2>4, <2>5 DEF Lifts
<1>11. Told(n, path)
  BY <1>7, <1>8, <1>9, <1>10 DEF Told
<1> QED BY <1>11 DEF path, o

LEMMA FailuresTold ==
  ASSUME CaseDone
  PROVE  \A n \in 1..Len(nodes) : \A path \in Failures[n] : Told(n, path)
<1> DEFINE G == {n \in 1..Len(nodes) : \A path \in Failures[n] : Told(n, path)}
<1>1. ASSUME NEW n \in 1..Len(nodes),
             nodes[n].kind = "test" => \A k \in 1..Len(nodes) : Leads(nodes[n], k) => k \in G,
             NEW path \in Failures[n]
      PROVE  Told(n, path)
  <2>1. CASE nodes[n].kind = "fail"
    <3>1. path = <<>> /\ DOMAIN <<>> = {}
      BY <2>1, FailuresOf
    <3>2. \A v : OnWay(n, v) => ArmsFor(v) = {}
      BY <2>1, FailsOn
    <3>3. \A v : Shows(<<>>, v)
      BY <3>1 DEF Shows
    <3> QED BY <3>1, <3>2, <3>3, SomeColumned DEF Told
  <2>2. CASE nodes[n].kind = "leaf"
    BY <2>2, <1>1, FailuresOf
  <2>3. CASE nodes[n].kind = "test"
    <3>1. PICK e \in Edges(n) : \E rest \in Failures[e.to] : path = Also(Occ(n), e.on, rest)
      BY <2>3, FailuresOf
    <3>2. PICK rest \in Failures[e.to] : path = Also(Occ(n), e.on, rest)
      BY <3>1
    <3>3. Leads(nodes[n], e.to)
      BY <2>3, EdgesAre DEF EdgeIs
    <3>4. e.to \in 1..Len(nodes)
      BY <3>3, DoneIs, NodeLeads
    <3>5. Told(e.to, rest)
      BY <3>2, <3>3, <3>4, <2>3, <1>1
    <3> QED BY <3>2, <3>5, <2>3, TestTells
  <2> QED BY <2>1, <2>2, <2>3, DoneIs
<1>2. \A n \in 1..Len(nodes) :
         (nodes[n].kind = "test" => \A k \in 1..Len(nodes) : Leads(nodes[n], k) => k \in G) => n \in G
  BY <1>1
<1> HIDE DEF G
<1>3. \A n \in 1..Len(nodes) : n \in G
  BY <1>2, NodesBottomUp
<1> QED BY <1>3 DEF G

-----------------------------------------------------------------------------
\* The pattern that is told of: all its constraints are shown, from the root.
ClosedPath(p) ==
    /\ DOMAIN p \subseteq 1..Len(ledger)
    /\ \A x \in DOMAIN p : x = Root \/ (ledger[x].parent \in DOMAIN p /\ p[ledger[x].parent].head = ledger[x].head)

LEMMA AllShown ==
  ASSUME Ledgered(ledger), NEW p, ClosedPath(p)
  PROVE  Shown(p) = DOMAIN p
<1> DEFINE D == 1..Len(ledger)
           Fit(o) == p[ledger[o].parent].head = ledger[o].head
           Is(f) == f = [o \in DOMAIN ledger |->
                            o \in DOMAIN p /\ (o # Root => /\ f[ledger[o].parent]
                                                           /\ p[ledger[o].parent].head = ledger[o].head)]
           g == CHOOSE f : Is(f)
<1>1. Shown(p) = {o \in DOMAIN ledger : g[o]}
  BY Zenon DEF Shown
<1>2. /\ DOMAIN ledger = D /\ DOMAIN p \subseteq D
      /\ \A x \in D : x # Root => ledger[x].parent \in 1..(x - 1) /\ ledger[x].parent \in D
  <2>1. \A x \in D : x # Root => x \in 2..Len(ledger)
    BY LedgerIs
  <2>2. \A x \in 2..Len(ledger) : ledger[x].parent \in 1..(x - 1) /\ ledger[x].parent \in D
    BY LedgerIs
  <2> QED BY <2>1, <2>2, LedgerIs DEF ClosedPath
<1>3. Is([o \in D |-> o \in DOMAIN p])
  <2> DEFINE f == [o \in D |-> o \in DOMAIN p]
  <2>1. \A o \in D : f[o] = (o \in DOMAIN p)
    OBVIOUS
  <2>2. f = [o \in D |-> f[o]]
    OBVIOUS
  <2> HIDE DEF f, D
  <2>3. ASSUME NEW o \in D PROVE f[o] = (o \in DOMAIN p /\ (o # Root => f[ledger[o].parent] /\ p[ledger[o].parent].head = ledger[o].head))
    <3>1. CASE o \in DOMAIN p
      <4>1. CASE o = Root
        BY <3>1, <4>1, <2>1
      <4>2. CASE o # Root
        <5>1. ledger[o].parent \in D /\ ledger[o].parent \in DOMAIN p /\ p[ledger[o].parent].head = ledger[o].head
          BY <3>1, <4>2, <1>2 DEF ClosedPath
        <5>2. f[ledger[o].parent] = (ledger[o].parent \in DOMAIN p)
          BY <5>1, <2>1
        <5> QED BY <3>1, <5>1, <5>2, <2>1
      <4> QED BY <4>1, <4>2
    <3>2. CASE o \notin DOMAIN p
      BY <3>2, <2>1
    <3> QED BY <3>1, <3>2
  <2>4. Is(f)
    BY <1>2, <2>2, <2>3
  <2> QED BY <2>4 DEF f
<1>4. Is(g)
  <2>1. \E f : Is(f)
    BY <1>3
  <2> HIDE DEF Is
  <2> QED BY <2>1
<1>5. \A o \in D : g[o] = (o \in DOMAIN p /\ (o # Root => g[ledger[o].parent] /\ p[ledger[o].parent].head = ledger[o].head))
  <2> HIDE DEF g, D
  <2> QED BY <1>2, <1>4
<1> HIDE DEF g, Is
<1>6. ASSUME NEW o \in D, ~(g[o] <=> o \in DOMAIN p) PROVE FALSE
  <2> DEFINE C == {x \in D : ~(g[x] <=> x \in DOMAIN p)}
  <2>1. C \in SUBSET Nat /\ C # {}
    BY <1>6
  <2>2. PICK x \in C : \A y \in C : x <= y
    BY <2>1, LeastNat
  <2>3. x \in D /\ ~(g[x] <=> x \in DOMAIN p)
    BY <2>2
  <2>4. x # Root => g[ledger[x].parent] <=> ledger[x].parent \in DOMAIN p
    <3> SUFFICES ASSUME x # Root PROVE g[ledger[x].parent] <=> ledger[x].parent \in DOMAIN p
      OBVIOUS
    <3>1. ledger[x].parent \in D /\ ledger[x].parent \in 1..(x - 1)
      BY <2>3, <1>2
    <3>2. ledger[x].parent \notin C
      BY <3>1, <2>2
    <3> QED BY <3>1, <3>2
  <2>5. g[x] <=> (x \in DOMAIN p /\ (x # Root => ledger[x].parent \in DOMAIN p /\ p[ledger[x].parent].head = ledger[x].head))
    <3>1. g[x] = (x \in DOMAIN p /\ (x # Root => g[ledger[x].parent] /\ p[ledger[x].parent].head = ledger[x].head))
      BY <2>3, <1>5
    <3> QED BY <3>1, <2>4
  <2> QED BY <2>3, <2>5 DEF ClosedPath
<1> QED BY <1>1, <1>2, <1>6

LEMMA MinIs ==
  ASSUME NEW S \in SUBSET Nat, NEW x \in S, \A y \in S : x <= y
  PROVE  Min(S) = x
<1>1. Min(S) \in S /\ \A y \in S : Min(S) <= y
  <2>1. \E z \in S : \A y \in S : z <= y
    OBVIOUS
  <2> QED BY <2>1 DEF Min
<1>2. Min(S) <= x /\ x <= Min(S) /\ Min(S) \in Nat /\ x \in Nat
  BY <1>1
<1> QED BY <1>2

\* What the first decision tells.
LEMMA RootTells ==
  ASSUME CaseDone, NEW path \in Failing
  PROVE  /\ \A v \in Values[site] : Describes(Constrained(path), v) => ArmsFor(v) = {}
         /\ \E v \in Values[site] : Describes(Constrained(path), v)
<1> DEFINE c == Constrained(path)
<1>1. /\ Ledgered(ledger) /\ nodes[1].matrix = Matrix(site, arms) /\ ArmsAre /\ site \in DOMAIN Arms /\ 1 \in 1..Len(nodes)
      /\ Type(site) /\ \A v \in Values[site] : IsValue(v, site)
  <2>1. site \in DOMAIN Arms
    BY DoneIs
  <2>2. Type(site) /\ \A v \in Values[site] : IsValue(v, site)
    BY <2>1, ArmAssumption, ValueAssumption DEF Type
  <2> QED BY <2>2, DoneIs
<1>2. Told(1, path)
  BY <1>1, FailuresTold DEF Failing
<1>3. \A x : InColumns(1, x) => x = Root
  <2>1. nodes[1].matrix.occs = <<Root>>
    BY <1>1, RootRows
  <2>2. \A j \in 1..Len(<<Root>>) : <<Root>>[j] = Root
    OBVIOUS
  <2> QED BY <2>1, <2>2 DEF InColumns
<1>4. ClosedPath(path)
  BY <1>2, <1>3 DEF Told, ClosedPath
<1>5. \A v \in Values[site] : Agrees(path, v) => ArmsFor(v) = {}
  BY <1>1, <1>2, RootOnWay DEF Told
<1>6. \A v \in Values[site] : \A x \in Present(v) : PositionOf[x] \in DOMAIN v /\ PartAt(v)[x][<<>>] = v[PositionOf[x]]
  BY <1>1, PartsAre DEF Placed
<1>7. ASSUME Shown(c) = DOMAIN c, NEW v
      PROVE  Describes(c, v) <=> \A o \in DOMAIN c : PositionOf[o] \in DOMAIN v /\ Meets(c[o], v[PositionOf[o]].head)
  <2> HIDE DEF c
  <2> QED BY <1>7 DEF Describes, Meets
<1>8. CASE Root \in DOMAIN path
  <2>1. c = path /\ Shown(c) = DOMAIN c
    BY <1>1, <1>4, <1>8, AllShown DEF Constrained
  <2> HIDE DEF c
  <2>2. ASSUME NEW v \in Values[site], Describes(c, v) PROVE ArmsFor(v) = {}
    <3>1. Agrees(path, v)
      BY <2>1, <2>2, <1>6, <1>7 DEF Agrees
    <3> QED BY <3>1, <1>5
  <2>3. \E v \in Values[site] : Describes(c, v)
    <3>1. PICK W : Columned(1, W) /\ \A v : Bears(1, W, v) => Shows(path, v)
      BY <1>2 DEF Told
    <3>2. W[1] \in Values[site] /\ Shows(path, W[1])
      BY <3>1, RootBears
    <3>3. Describes(c, W[1])
      BY <3>2, <2>1, <1>6, <1>7 DEF Shows
    <3> QED BY <3>2, <3>3
  <2> QED BY <2>2, <2>3 DEF c
<1>9. CASE Root \notin DOMAIN path
  <2>1. DOMAIN path = {}
    <3> SUFFICES ASSUME DOMAIN path # {} PROVE FALSE
      OBVIOUS
    <3>1. DOMAIN path \in SUBSET Nat
      BY <1>4 DEF ClosedPath
    <3>2. PICK x \in DOMAIN path : \A y \in DOMAIN path : x <= y
      BY <3>1, LeastNat
    <3>3. x # Root /\ x \in 1..Len(ledger) /\ ledger[x].parent \in DOMAIN path
      BY <3>2, <1>4, <1>9 DEF ClosedPath
    <3>4. ledger[x].parent \in 1..(x - 1)
      BY <3>3, <1>1, LedgerIs
    <3>5. x <= ledger[x].parent /\ x \in Nat
      BY <3>1, <3>2, <3>3
    <3> QED BY <3>4, <3>5
  <2> DEFINE on == IF IsClosed(site) THEN Constraint(Signature[site][1], {}) ELSE Constraint(Other, {})
  <2>2. c = Also(Root, on, path)
    BY <1>9 DEF Constrained
  <2> HIDE DEF c, on
  <2>3. DOMAIN c = {Root} /\ c[Root] = on
    BY <2>1, <2>2 DEF Also
  <2>4. Shown(c) = DOMAIN c
    <3>1. ClosedPath(c)
      BY <2>3, <1>1, LedgerIs DEF ClosedPath
    <3> QED BY <3>1, <1>1, AllShown
  <2>5. \A v \in Values[site] : ArmsFor(v) = {}
    BY <2>1, <1>5 DEF Agrees
  <2>6. \E v \in Values[site] : Meets(on, v[<<>>].head)
    <3>1. PICK v \in Values[site] : IsValue(v, site)
      BY <1>1, ValueAssumption DEF Type
    <3>2. HeadOf(v[<<>>].head, site) \/ (v[<<>>].head = Other /\ site \in DOMAIN Literals)
      <4>1. <<>> \in DOMAIN v
        BY <3>1 DEF IsValue, IsTree
      <4>2. TypeAt(v, site, <<>>) = site
        BY DEF TypeAt
      <4> QED BY <4>1, <4>2, <3>1 DEF IsValue
    <3>3. CASE IsClosed(site)
      <4>1. Signature[site] \in Seq(DOMAIN Fields) /\ site \in DOMAIN Signature /\ site \notin DOMAIN Literals
        BY <3>3, TypeAssumption DEF IsClosed
      <4>2. Range(Signature[site]) # {}
        BY <3>2, <4>1 DEF HeadOf
      <4>3. 1 \in DOMAIN Signature[site]
        <5> DEFINE s == Signature[site]
        <5>1. s \in Seq(DOMAIN Fields) /\ DOMAIN s # {}
          BY <4>1, <4>2 DEF Range
        <5> HIDE DEF s
        <5>2. 1 \in DOMAIN s
          BY <5>1
        <5> QED BY <5>2 DEF s
      <4> DEFINE h == Signature[site][1]
      <4>4. HeadOf(h, site) /\ h \in DOMAIN Fields
        BY <4>1, <4>3 DEF HeadOf, Range
      <4>5. h # Other
        BY <4>4, TypeAssumption
      <4>6. PICK u \in Values[site] : HeadIn(u) = h
        BY <4>4, <1>1, ValueHeaded DEF Heading
      <4>7. on = Constraint(h, {})
        BY <3>3 DEF on
      <4> HIDE DEF h
      <4>8. Meets(on, u[<<>>].head)
        BY <4>5, <4>6, <4>7 DEF Meets, Constraint, HeadIn
      <4> QED BY <4>8
    <3>4. CASE ~IsClosed(site)
      <4>1. on = Constraint(Other, {})
        BY <3>4 DEF on
      <4> QED BY <3>1, <4>1 DEF Meets, Constraint
    <3> QED BY <3>3, <3>4
  <2>7. PICK v \in Values[site] : Meets(on, v[<<>>].head)
    BY <2>6
  <2>8. PositionOf[Root] = <<>> /\ <<>> \in DOMAIN v
    BY <2>7, <1>1, PositionsAre DEF IsValue, IsTree
  <2>9. Describes(c, v)
    BY <2>3, <2>4, <2>7, <2>8, <1>7
  <2> QED BY <2>5, <2>9 DEF c
<1> QED BY <1>8, <1>9

LEMMA SaysExactly ==
  ASSUME MatchGraph
  PROVE  IssuesExact
<1> SUFFICES ASSUME IsCompiled, point = 0
             PROVE  LET chosen == {Min(ArmsFor(v)) : v \in {v \in Values[site] : ArmsFor(v) # {}}}
                        none   == {v \in Values[site] : ArmsFor(v) = {}}
                    IN  /\ Leaves = chosen
                        /\ (Failing # {}) = (none # {})
                        /\ \A path \in Failing :
                              LET missing == {v \in Values[site] : Describes(Constrained(path), v)}
                              IN  missing # {} /\ missing \subseteq none
  BY Zenon DEF IssuesExact
<1>1. CaseDone
  BY DEF MatchGraph, IsCompiled, CaseDone
<1>2. DOMAIN nodes = 1..Len(nodes) /\ 1 \in 1..Len(nodes) /\ site \in DOMAIN Arms /\ ArmsAre
  BY <1>1, DoneIs
<1>3. \A v \in Values[site] : IsValue(v, site)
  BY <1>2, ArmAssumption, ValueAssumption
<1>4. \A v : ArmsFor(v) \in SUBSET Nat
  BY <1>2 DEF ArmsFor, ArmsAre, IsSeq
<1>5. \A v \in Values[site] : EndsWell(1, v)
  BY <1>1, <1>2, <1>3, RootOnWay, AllEnd
<1> DEFINE chosen == {Min(ArmsFor(v)) : v \in {v \in Values[site] : ArmsFor(v) # {}}}
           none   == {v \in Values[site] : ArmsFor(v) = {}}
<1>6. ASSUME NEW a \in Leaves PROVE a \in chosen
  <2>1. PICK l \in 1..Len(nodes) : nodes[l].kind = "leaf" /\ a = nodes[l].matrix.rows[1].arm
    BY <1>2 DEF Leaves
  <2>2. PICK v \in Values[site] : IsValue(v, site) /\ OnWay(l, v)
    BY <1>1, LeafReached
  <2>3. a \in ArmsFor(v) /\ \A i \in ArmsFor(v) : a <= i
    BY <1>1, <2>1, <2>2, LeafChooses
  <2>4. Min(ArmsFor(v)) = a
    BY <2>3, <1>4, MinIs
  <2> QED BY <2>3, <2>4
<1>7. ASSUME NEW a \in chosen PROVE a \in Leaves
  <2>1. PICK v \in Values[site] : ArmsFor(v) # {} /\ a = Min(ArmsFor(v))
    OBVIOUS
  <2>2. PICK l \in 1..Len(nodes) : /\ nodes[l].kind = "leaf" /\ nodes[l].matrix.rows[1].arm \in ArmsFor(v)
                                   /\ \A i \in ArmsFor(v) : nodes[l].matrix.rows[1].arm <= i
    BY <2>1, <1>5 DEF EndsWell
  <2>3. a = nodes[l].matrix.rows[1].arm
    BY <2>1, <2>2, <1>4, MinIs
  <2> QED BY <2>2, <2>3, <1>2 DEF Leaves
<1>8. ASSUME NEW path \in Failing
      PROVE  LET missing == {v \in Values[site] : Describes(Constrained(path), v)}
             IN  missing # {} /\ missing \subseteq none
  BY <1>1, RootTells
<1>9. (Failing # {}) = (none # {})
  <2>1. ASSUME none # {} PROVE Failing # {}
    <3>1. PICK v \in Values[site] : ArmsFor(v) = {}
      BY <2>1
    <3> QED BY <3>1, <1>5 DEF EndsWell, Failing
  <2>2. ASSUME Failing # {} PROVE none # {}
    <3>1. PICK path \in Failing : TRUE
      BY <2>2
    <3> QED BY <3>1, <1>8
  <2> QED BY <2>1, <2>2
<1> QED BY <1>6, <1>7, <1>8, <1>9

\* For any types, patterns and values: the arms that the compiler says can never be
\* selected are those no value selects, a case it calls exhaustive is, and each value of
\* the pattern it says is missing has no arm, and there is one (_reachable_actions,
\* _first_failure_constraints, _witness_for_root).
THEOREM IssuesAreExact == MatchSpec => []IssuesExact
<1>1. MatchInit => MatchGraph
  BY MatchStarts DEF MatchGraph, MatchInit
<1>2. MatchGraph /\ [MatchNext]_matchVars => MatchGraph'
  BY GraphSteps
<1>3. MatchGraph => IssuesExact
  BY SaysExactly
<1> QED BY <1>1, <1>2, <1>3, PTL DEF MatchSpec
=============================================================================
