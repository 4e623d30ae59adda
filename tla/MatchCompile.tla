---------------------------- MODULE MatchCompile ----------------------------
(* The match compiler of AgL (agl/matchcompile): the arms of a case become a matrix
   of patterns, the matrix a graph of decisions that test each part of the value at
   most once, and the graph code that loads the fields it needs (lower/lowerer.py).
   What a case means, the first arm that matches, is stated beside it.

   Patterns and values are trees: functions from positions, the fields that lead to
   a part, to what is there. *)
EXTENDS Integers, Sequences, FiniteSets, FiniteSetsExt, SequencesExt, Functions, TLC

CONSTANTS Signature,   \* the constructors of each closed type, in their order
          Literals,    \* the literals that some value of each open type equals
          Fields,      \* the types of each constructor's fields
          Blank, Other,  \* the head of a wildcard, a value no literal equals
          Arms,        \* for each type, the patterns an arm may have
          Values,      \* for each type, its values
          MaxArms      \* bound: arms of one case

-----------------------------------------------------------------------------
\* At each position a pattern has a head and the names bound to what it matches, a
\* value has its head.  A name that is no constructor is a wildcard that binds.
Arity(head) == IF head \in DOMAIN Fields THEN DOMAIN Fields[head] ELSE {}

IsTree(tree) ==
    /\ tree = [q \in DOMAIN tree |-> tree[q]]
    /\ <<>> \in DOMAIN tree /\ DOMAIN tree \subseteq Seq(Nat)
    /\ \A q \in DOMAIN tree : \A i \in Arity(tree[q].head) : Append(q, i) \in DOMAIN tree
    /\ \A q \in DOMAIN tree \ {<<>>} : /\ Front(q) \in DOMAIN tree
                                       /\ Last(q) \in Arity(tree[Front(q)].head)

\* The part of a tree at a position.
Under(tree, q) ==
    [r \in {SubSeq(s, Len(q) + 1, Len(s)) : s \in {s \in DOMAIN tree : IsPrefix(q, s)}} |-> tree[q \o r]]

Wildcard == [q \in {<<>>} |-> [head |-> Blank, binders |-> {}]]

HeadIn(tree)  == tree[<<>>].head
IsWild(cell) == HeadIn(cell) = Blank

TypeAt(tree, t, q) == IF q = <<>> THEN t ELSE Fields[tree[Front(q)].head][Last(q)]

HeadOf(head, t) == \/ t \in DOMAIN Literals /\ head \in Literals[t]
                   \/ t \in DOMAIN Signature /\ head \in Range(Signature[t])

IsValue(v, t) ==
    /\ IsTree(v)
    /\ \A q \in DOMAIN v : \/ HeadOf(v[q].head, TypeAt(v, t, q))
                           \/ v[q].head = Other /\ TypeAt(v, t, q) \in DOMAIN Literals

ASSUME TypeAssumption ==
    /\ \A t \in DOMAIN Signature : Signature[t] \in Seq(DOMAIN Fields) /\ IsInjective(Signature[t])
    /\ DOMAIN Signature \intersect DOMAIN Literals = {}
    /\ \A c \in DOMAIN Fields : Fields[c] \in Seq(DOMAIN Signature \union DOMAIN Literals)
    /\ \A t \in DOMAIN Literals : \A c \in Literals[t] : c \in DOMAIN Fields /\ Fields[c] = <<>>
    /\ Blank \notin DOMAIN Fields /\ Other \notin DOMAIN Fields /\ Blank # Other
ASSUME ArmAssumption ==
    /\ MaxArms \in Nat
    /\ DOMAIN Arms \subseteq DOMAIN Signature \union DOMAIN Literals
    /\ \A t \in DOMAIN Arms : \A p \in Arms[t] :
          /\ IsTree(p)
          /\ \A q \in DOMAIN p : p[q].head \in DOMAIN Fields \union {Blank}
ASSUME ValueAssumption ==
    \A t \in DOMAIN Signature \union DOMAIN Literals :
        /\ t \in DOMAIN Values /\ Values[t] # {} /\ \A v \in Values[t] : IsValue(v, t)
        /\ \A c \in DOMAIN Fields \union {Other} :
              \/ ~HeadOf(c, t) /\ ~(c = Other /\ t \in DOMAIN Literals)
              \/ \A args \in [Arity(c) -> UNION Range(Values)] :
                    (\A i \in Arity(c) : args[i] \in Values[Fields[c][i]]) =>
                    \E v \in Values[t] : HeadIn(v) = c /\ \A i \in Arity(c) : Under(v, <<i>>) = args[i]

HeadInhabits(p, t) == IsWild(p) \/ HeadOf(HeadIn(p), t)

\* pattern_cell_inhabits_type: an arm no value can match makes no row.
Inhabits(p, t) == \A q \in DOMAIN p : p[q].head = Blank \/ HeadOf(p[q].head, TypeAt(p, t, q))

-----------------------------------------------------------------------------
VARIABLES site,    \* the type of the value a case looks at
          arms,    \* the patterns of its arms
          ledger,  \* the parts of the value, in the order they were found: occurrences
          nodes,   \* decisions, in the order compile came to their matrices
          point,   \* the decision the code has come to, 0 if it does not run
          parts,   \* the value of each occurrence on the way to it
          stored   \* the occurrences whose symbols were given their values

matchVars == <<site, arms, ledger, nodes, point, parts, stored>>

\* An occurrence is a part of the value.
Root == 1
Children(L, o, c) == {i \in DOMAIN L : L[i].parent = o /\ L[i].head = c}

\* _allocate_children: the fields of one occurrence under one head have one
\* occurrence each, whatever branch looks at them first.
Extended(L, o, c) ==
    IF Children(L, o, c) # {} THEN L
    ELSE L \o [i \in DOMAIN Fields[c] |-> [parent |-> o, head |-> c, field |-> i, type |-> Fields[c][i]]]

FieldsOf(L, o, c) == [i \in DOMAIN Fields[c] |-> CHOOSE k \in Children(L, o, c) : L[k].field = i]

\* The members of a sequence at some of its indices, in their order.
InOrder(S)   == CHOOSE s \in [1..Cardinality(S) -> S] :
                    Range(s) = S /\ \A i, j \in DOMAIN s : i < j => s[i] < s[j]
Picked(s, S) == LET order == InOrder(S) IN [k \in DOMAIN order |-> s[order[k]]]

\* A matrix: the occurrences its columns look at, and rows of cells, each with its
\* arm and the names bound on the way.
Matrix(case, ps) ==
    [occs |-> <<Root>>,
     rows |-> Picked([i \in DOMAIN ps |-> [cells |-> <<ps[i]>>, arm |-> i, bound |-> {}]],
                     {i \in DOMAIN ps : Inhabits(ps[i], case)})]

HeadAt(m, r, col) == HeadIn(m.rows[r].cells[col])

\* head_constructors: the heads of a column, in the order they are first seen.
HeadSet(m, col) == {HeadAt(m, r, col) : r \in DOMAIN m.rows} \ {Blank}
Heads(m, col)   ==
    LET column == [r \in DOMAIN m.rows |-> HeadAt(m, r, col)]
    IN  Picked(column, {r \in DOMAIN column : column[r] # Blank /\ \A q \in 1..(r-1) : column[q] # column[r]})

\* select_qba_column: the most rows before the first wildcard, then the fewest
\* heads, then the fewest new columns, then the oldest occurrence.
Prefix(m, col) == Cardinality({r \in DOMAIN m.rows : \A q \in 1..r : HeadAt(m, q, col) # Blank})
NewColumns(m, col) == Cardinality(UNION {{c} \X DOMAIN Fields[c] : c \in HeadSet(m, col)})
Score(m, col) == <<-Prefix(m, col), Cardinality(HeadSet(m, col)), NewColumns(m, col), m.occs[col]>>

Precedes(s, t) == \E i \in DOMAIN s : s[i] < t[i] /\ \A j \in 1..(i-1) : s[j] = t[j]

Selected(m) ==
    LET refutable == {col \in DOMAIN m.occs : HeadSet(m, col) # {}}
    IN  CHOOSE col \in refutable : \A other \in refutable : ~Precedes(Score(m, other), Score(m, col))

Replaced(s, col, new) == SubSeq(s, 1, col - 1) \o new \o SubSeq(s, col + 1, Len(s))

\* A name of the cell that leaves the matrix is bound to its column's occurrence.
Migrated(m, row, col) == row.bound \union {<<b, m.occs[col]>> : b \in row.cells[col][<<>>].binders}

\* The arguments a row has for the fields of a head.
Arguments(cell, c) == [i \in DOMAIN Fields[c] |-> IF IsWild(cell) THEN Wildcard ELSE Under(cell, <<i>>)]

Moved(m, row, col, cells) ==
    [cells |-> Replaced(row.cells, col, cells), arm |-> row.arm, bound |-> Migrated(m, row, col)]

SpecializeHeadFirst(m, col, c, L) ==
    LET rows == Picked(m.rows, {r \in DOMAIN m.rows : HeadAt(m, r, col) = c})
                \o Picked(m.rows, {r \in DOMAIN m.rows : HeadAt(m, r, col) = Blank})
    IN  [occs |-> Replaced(m.occs, col, FieldsOf(L, m.occs[col], c)),
         rows |-> [r \in DOMAIN rows |-> Moved(m, rows[r], col, Arguments(rows[r].cells[col], c))]]

\* specialize: the rows that a value with this head may still match, its fields
\* in place of it.
Specialize(m, col, c, L) ==
    LET rows == Picked(m.rows, {r \in DOMAIN m.rows : HeadAt(m, r, col) \in {c, Blank}})
    IN  [occs |-> Replaced(m.occs, col, FieldsOf(L, m.occs[col], c)),
         rows |-> [r \in DOMAIN rows |-> Moved(m, rows[r], col, Arguments(rows[r].cells[col], c))]]

\* default_matrix: the rows that do not look at the column.
Default(m, col) ==
    LET rows == Picked(m.rows, {r \in DOMAIN m.rows : HeadAt(m, r, col) = Blank})
    IN  [occs |-> Replaced(m.occs, col, <<>>),
         rows |-> [r \in DOMAIN rows |-> Moved(m, rows[r], col, <<>>)]]

-----------------------------------------------------------------------------
\* A leaf binds the names of its row, _finalize_binders those of the cells left.
LeafBinders(m) == m.rows[1].bound \union UNION {Migrated(m, m.rows[1], col) : col \in DOMAIN m.occs}

IsClosed(t) == t \in DOMAIN Signature
IsSingle(t) == IsClosed(t) /\ Len(Signature[t]) = 1

\* The heads a test has edges for (_ordered_heads), and whether others may come.
Keys(m, col, t) ==
    CASE IsSingle(t) -> Signature[t]
      [] IsClosed(t) /\ ~IsSingle(t) ->
            Picked(Signature[t], {i \in DOMAIN Signature[t] : Signature[t][i] \in HeadSet(m, col)})
      [] OTHER -> Heads(m, col)
NeedsDefault(m, col, t) == ~IsSingle(t) /\ (IsClosed(t) => HeadSet(m, col) # Range(Signature[t]))

\* A decision, which is open while its edges are compiled: free is what must be
\* stored before it (free_occurrences).
NodeOf(kind, m, col, free) == [kind |-> kind, matrix |-> m, col |-> col, to |-> <<>>, else |-> <<>>, free |-> free]

Node(m) ==
    CASE m.rows = <<>> -> NodeOf("fail", m, 0, {})
      [] m.rows # <<>> /\ \A col \in DOMAIN m.occs : HeadAt(m, 1, col) = Blank ->
            NodeOf("leaf", m, 0, {b[2] : b \in LeafBinders(m)})
      [] OTHER -> NodeOf("open", m, Selected(m), {})

\* What a test looks at, the heads it has edges for, what else it may find.
Occ(n)     == nodes[n].matrix.occs[nodes[n].col]
KeysOf(n)  == Keys(nodes[n].matrix, nodes[n].col, ledger[Occ(n)].type)
Partial(n) == NeedsDefault(nodes[n].matrix, nodes[n].col, ledger[Occ(n)].type)

\* compile remembers the decision of each matrix.
Memo(m)     == {n \in DOMAIN nodes : nodes[n].kind # "open" /\ nodes[n].matrix = m}
Decision(m) == IF Memo(m) = {} THEN Len(nodes) + 1 ELSE CHOOSE n \in Memo(m) : TRUE
Compiled(m) == IF Memo(m) = {} THEN <<Node(m)>> ELSE <<>>

Current(n) == nodes[n].kind = "open" /\ \A k \in DOMAIN nodes : nodes[k].kind = "open" => k <= n

-----------------------------------------------------------------------------
MatchInit == /\ site \in DOMAIN Arms /\ arms = <<>> /\ ledger = <<>> /\ nodes = <<>>
             /\ point = 0 /\ parts = <<>> /\ stored = {}

AddArm == /\ nodes = <<>> /\ Len(arms) < MaxArms
          /\ \E p \in Arms[site] : arms' = Append(arms, p)
          /\ UNCHANGED <<site, ledger, nodes, point, parts, stored>>

CompileCase ==
    /\ nodes = <<>> /\ arms # <<>>
    /\ ledger' = <<[parent |-> 0, head |-> Blank, field |-> 0, type |-> site]>>
    /\ nodes' = <<Node(Matrix(site, arms))>>
    /\ UNCHANGED <<site, arms, point, parts, stored>>

\* The next edge of a test; then what it does with other heads.
CompileBranch(n) ==
    /\ Current(n) /\ Len(nodes[n].to) < Len(KeysOf(n))
    /\ LET c == KeysOf(n)[Len(nodes[n].to) + 1]
           L == Extended(ledger, Occ(n), c)
           m == Specialize(nodes[n].matrix, nodes[n].col, c, L)
       IN  /\ ledger' = L
           /\ nodes' = [nodes EXCEPT ![n].to = Append(@, <<c, Decision(m)>>)] \o Compiled(m)
    /\ UNCHANGED <<site, arms, point, parts, stored>>

CompileDefault(n) ==
    /\ Current(n) /\ Len(nodes[n].to) = Len(KeysOf(n)) /\ Partial(n) /\ nodes[n].else = <<>>
    /\ LET m == Default(nodes[n].matrix, nodes[n].col)
       IN  nodes' = [nodes EXCEPT ![n].else = <<Decision(m)>>] \o Compiled(m)
    /\ UNCHANGED <<site, arms, ledger, point, parts, stored>>

FreeBefore(n) ==
    {Occ(n)} \union (UNION {nodes[e[2]].free \ Children(ledger, Occ(n), e[1]) : e \in Range(nodes[n].to)})
             \union (UNION {nodes[k].free : k \in Range(nodes[n].else)})

Decide(n) ==
    /\ Current(n) /\ Len(nodes[n].to) = Len(KeysOf(n)) /\ (Partial(n) => nodes[n].else # <<>>)
    /\ nodes' = [nodes EXCEPT ![n].kind = "test", ![n].free = FreeBefore(n)]
    /\ UNCHANGED <<site, arms, ledger, point, parts, stored>>

-----------------------------------------------------------------------------
\* lower_decision: fields are stored in the symbols of the occurrences that the next
\* decision demands.
IsCompiled == nodes # <<>> /\ nodes[1].kind # "open"

StartCase ==
    /\ IsCompiled /\ point = 0
    /\ \E v \in Values[site] : parts' = [o \in {Root} |-> v]
    /\ point' = 1 /\ stored' = {Root}
    /\ UNCHANGED <<site, arms, ledger, nodes>>

Tests(n) == nodes[n].kind = "test" /\ Occ(n) \in stored

Take(n, e) ==
    /\ Tests(n) /\ e[1] = HeadIn(parts[Occ(n)])
    /\ LET fields == Children(ledger, Occ(n), e[1])
       IN  /\ parts' = [k \in fields \union DOMAIN parts |->
                           IF k \in fields THEN Under(parts[Occ(n)], <<ledger[k].field>>) ELSE parts[k]]
           /\ stored' = stored \union (fields \intersect nodes[e[2]].free)
    /\ point' = e[2]
    /\ UNCHANGED <<site, arms, ledger, nodes>>

TakeDefault(n) ==
    /\ Tests(n) /\ \A e \in Range(nodes[n].to) : e[1] # HeadIn(parts[Occ(n)])
    /\ \E k \in Range(nodes[n].else) : point' = k
    /\ UNCHANGED <<site, arms, ledger, nodes, parts, stored>>

MatchNext ==
    \/ AddArm \/ CompileCase
    \/ \E n \in DOMAIN nodes : CompileBranch(n) \/ CompileDefault(n) \/ Decide(n)
    \/ StartCase
    \/ point # 0 /\ ((\E e \in Range(nodes[point].to) : Take(point, e)) \/ TakeDefault(point))

MatchSpec == MatchInit /\ [][MatchNext]_matchVars

-----------------------------------------------------------------------------
\* _reachable_actions and _first_failure_constraints.
Leaves == {nodes[n].matrix.rows[1].arm : n \in {n \in DOMAIN nodes : nodes[n].kind = "leaf"}}

\* The edges of a decision in the order of its signature, the default where the
\* first constructor without an edge would be; no path if none fails.
Constraint(head, excluded) == [head |-> head, excluded |-> excluded]

Edges(n) ==
    LET t    == ledger[Occ(n)].type
        keys == {e[1] : e \in Range(nodes[n].to)}
        left == {i \in DOMAIN Signature[t] : Signature[t][i] \notin keys}
        Place(j) == IF IsClosed(t) THEN CHOOSE i \in DOMAIN Signature[t] : Signature[t][i] = nodes[n].to[j][1]
                   ELSE j
    IN  {[rank |-> Place(j), to |-> nodes[n].to[j][2], on |-> Constraint(nodes[n].to[j][1], {})] :
            j \in DOMAIN nodes[n].to}
        \union {IF IsClosed(t) THEN [rank |-> Min(left), to |-> k, on |-> Constraint(Signature[t][Min(left)], {})]
                ELSE [rank |-> Len(nodes[n].to) + 1, to |-> k, on |-> Constraint(Other, keys)] :
                k \in Range(nodes[n].else)}

\* The constraints on the first path that fails from a decision, in a set that is empty
\* if none does.  What a test finds first comes first.
Also(o, on, path) == [k \in {o} \union DOMAIN path |-> IF k = o THEN on ELSE path[k]]

Failures[n \in DOMAIN nodes] ==
    CASE nodes[n].kind = "fail" -> {<<>>}
      [] nodes[n].kind = "leaf" -> {}
      [] OTHER -> LET bad == {e \in Edges(n) : Failures[e.to] # {}}
                  IN  UNION {{Also(Occ(n), e.on, path) : path \in Failures[e.to]} :
                             e \in {e \in bad : \A f \in bad : e.rank <= f.rank}}

Failing == Failures[1]

\* A failure before any test leaves the whole domain (_witness_for_root).
Constrained(path) ==
    IF Root \in DOMAIN path THEN path
    ELSE Also(Root, IF IsClosed(site) THEN Constraint(Signature[site][1], {}) ELSE Constraint(Other, {}), path)

\* _witness_for_occurrence: the missing pattern shows, from the root, what is
\* constrained, and the fields of the constructors shown.
Shown(path) ==
    LET shown[o \in DOMAIN ledger] ==
            o \in DOMAIN path /\ (o # Root => /\ shown[ledger[o].parent]
                                              /\ path[ledger[o].parent].head = ledger[o].head)
    IN  {o \in DOMAIN ledger : shown[o]}

\* Where an occurrence is in the value, and the values a missing pattern describes.
PositionOf[o \in DOMAIN ledger] == IF o = Root THEN <<>> ELSE Append(PositionOf[ledger[o].parent], ledger[o].field)

Describes(path, v) ==
    \A o \in Shown(path) :
        /\ PositionOf[o] \in DOMAIN v
        /\ IF path[o].head = Other THEN v[PositionOf[o]].head \notin path[o].excluded
           ELSE v[PositionOf[o]].head = path[o].head

-----------------------------------------------------------------------------
\* What a case means: the first arm whose pattern matches, its names bound to the
\* parts of the value they stand at.
Matches(p, v) == \A q \in DOMAIN p : p[q].head # Blank => q \in DOMAIN v /\ v[q].head = p[q].head

Names(p, v) == UNION {{<<b, Under(v, q)>> : b \in p[q].binders} : q \in DOMAIN p}

ArmsFor(v) == {i \in DOMAIN arms : Matches(arms[i], v)}

MatchTypeOK ==
    /\ site \in DOMAIN Arms /\ Len(arms) <= MaxArms /\ Range(arms) \subseteq Arms[site]
    /\ \A o \in DOMAIN ledger : /\ ledger[o].type \in DOMAIN Signature \union DOMAIN Literals
                                /\ o # Root => /\ ledger[o].parent \in 1..(o - 1)
                                               /\ ledger[o].field \in DOMAIN Fields[ledger[o].head]
    /\ \A n \in DOMAIN nodes : /\ nodes[n].kind \in {"fail", "leaf", "open", "test"}
                               /\ nodes[n].free \subseteq DOMAIN ledger
                               /\ Range(nodes[n].matrix.occs) \subseteq DOMAIN ledger
                               /\ {e[2] : e \in Range(nodes[n].to)} \union Range(nodes[n].else) \subseteq DOMAIN nodes
    /\ point \in DOMAIN nodes \union {0}
    /\ stored \subseteq DOMAIN parts /\ DOMAIN parts \subseteq DOMAIN ledger

\* The code of a case, however its tests are reordered and whatever fields it
\* leaves unstored, loads no symbol without a value, goes on from every test, and ends
\* at the arm that comes first in the source, its names bound to the same parts.
SelectsFirst ==
    point # 0 =>
        LET now == nodes[point]
            v   == parts[Root]
        IN  /\ now.free \subseteq stored
            /\ now.kind = "test" => \/ HeadIn(parts[Occ(point)]) \in {e[1] : e \in Range(now.to)}
                                    \/ now.else # <<>>
            /\ now.kind = "fail" => ArmsFor(v) = {}
            /\ now.kind = "leaf" =>
                  LET arm == now.matrix.rows[1].arm
                  IN  /\ arm \in ArmsFor(v) /\ \A i \in ArmsFor(v) : arm <= i
                      /\ {<<b[1], parts[b[2]]>> : b \in LeafBinders(now.matrix)} = Names(arms[arm], v)

\* "this pattern can never be selected" and "Non-exhaustive case" are said exactly
\* when they are so, and no value that the missing pattern describes has an arm.
IssuesExact ==
    IsCompiled /\ point = 0 =>
        LET chosen == {Min(ArmsFor(v)) : v \in {v \in Values[site] : ArmsFor(v) # {}}}
            none   == {v \in Values[site] : ArmsFor(v) = {}}
        IN  /\ Leaves = chosen
            /\ (Failing # {}) = (none # {})
            /\ \A path \in Failing :
                  LET missing == {v \in Values[site] : Describes(Constrained(path), v)}
                  IN  missing # {} /\ missing \subseteq none
=============================================================================
