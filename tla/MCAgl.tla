------------------------------- MODULE MCAgl -------------------------------
(* Small instances of the modules of AgL, each a part of one state space: a
   behaviour is one of a REPL session, of the caches, of a case, of
   closures, of extern calls or of the exports of a cycle. *)
EXTENDS ReplSession, ArtifactCache, MatchCompile, Closures, ExternWindow, Reexports, TLC

CONSTANT Part     \* the parts explored
VARIABLE part

\* Two modules that import each other, one that imports one of them, a prelude.
ReplRank    == ("prelude" :> 1) @@ ("a" :> 2) @@ ("b" :> 3) @@ ("c" :> 4)
ReplImports == ("prelude" :> {}) @@ ("a" :> {"prelude", "b"}) @@ ("b" :> {"prelude", "a"})
               @@ ("c" :> {"prelude", "a"})
ReplParts   == ("prelude" :> {0}) @@ ("a" :> {1}) @@ ("b" :> {0, 1}) @@ ("c" :> {0})

Decl(kind, name, needs, reads, uses) ==
    [kind |-> kind, name |-> name, needs |-> needs, reads |-> reads, uses |-> uses]

ReplEntries == {
    [imports |-> {"c"}, items |-> <<Decl("let", "x", {}, {}, {"c"}), Decl("fun", "f", {1}, {}, {})>>],
    [imports |-> {"a"}, items |-> <<Decl("fun", "f", {2, 3}, {}, {"a"}), Decl("type", "T", {}, {}, {}),
                                    Decl("let", "x", {2}, {}, {}), Decl("let", "y", {3}, {}, {"b"})>>],
    [imports |-> {}, items |-> <<Decl("let", "x", {}, {"f"}, {"prelude"}), Decl("type", "U", {}, {}, {}),
                                 Decl("stmt", "x", {1}, {}, {})>>],
    [imports |-> {}, items |-> <<Decl("fun", "f", {}, {}, {"prelude"})>>]}

\* a imports b by name and n by a wildcard; the other text of b imports a.
CacheExplicit == ("a" :> [t \in {"t1", "t2"} |-> {"b"}])
                 @@ ("b" :> (("t1" :> {}) @@ ("t2" :> {"a"})))
                 @@ ("n" :> [t \in {"t1", "t2"} |-> {}])
CacheWild     == ("a" :> {"n"}) @@ ("b" :> {}) @@ ("n" :> {})
CacheOrder    == <<"n", "a", "b">>
CacheVersions == ("a" :> {"t1"}) @@ ("b" :> {"t1", "t2"}) @@ ("n" :> {"t1", "absent"})
CacheFiles    == {("a" :> "t1") @@ ("b" :> "t1") @@ ("n" :> "absent")}

\* A session that starts from n, imports a, and has no wildcard.
NoWild       == [m \in {"a", "b", "n"} |-> {}]
EditVersions == ("a" :> {"t1"}) @@ ("b" :> {"t1", "t2"}) @@ ("n" :> {"t1"})
EditExplicit == ("a" :> [t \in {"t1", "t2"} |-> {"b"}]) @@ [m \in {"b", "n"} |-> [t \in {"t1", "t2"} |-> {}]]
EditFiles    == {[m \in {"a", "b", "n"} |-> "t1"]}

\* A record of an option and a boolean, a boolean, numbers with two literals.
MatchSignature == ("Opt" :> <<"None", "Some">>) @@ ("Bool" :> <<"false", "true">>) @@ ("Pair" :> <<"P">>)
MatchLiterals  == ("Num" :> {"0", "1"})
MatchFields    == ("None" :> <<>>) @@ ("Some" :> <<"Num">>) @@ ("P" :> <<"Opt", "Bool">>)
                  @@ [c \in {"true", "false", "0", "1", "half"} |-> <<>>]

\* A tree with this at its root and these trees under it.
Tree(at, args) == [q \in {<<>>} \union UNION {{<<i>> \o r : r \in DOMAIN args[i]} : i \in DOMAIN args} |->
                      IF q = <<>> THEN at ELSE args[q[1]][Tail(q)]]

Cell(c, args, names) == Tree([head |-> c, binders |-> names], args)
As(x)      == Cell(Blank, <<>>, {x})
Is(c)      == Cell(c, <<>>, {})
Some(p)    == Cell("Some", <<p>>, {})
Both(p, q) == Cell("P", <<p, q>>, {})

MatchArms ==
    ("Pair" :> {Wildcard, As("x"), Both(Is("None"), Wildcard), Both(Is("None"), Is("true")),
                Both(Wildcard, Is("true")), Both(As("y"), Is("false")), Both(Some(Is("0")), Wildcard),
                Both(Some(Is("1")), Is("false")), Both(Some(As("z")), Is("true")),
                Both(Some(Is("half")), Wildcard),
                Cell("P", <<Cell("Some", <<Wildcard>>, {"s"}), Is("true")>>, {"w"})})
    @@ ("Opt" :> {As("x"), Is("None"), Some(As("n")), Some(Is("0")), Some(Is("1")),
                  Cell("Some", <<Is("1")>>, {"w"})})
    @@ ("Num" :> {As("x"), Is("0"), Is("1"), Is("half")})

Value(c, args) == Tree([head |-> c], args)
Numbers     == {Value(c, <<>>) : c \in {"0", "1", Other}}
Options     == {Value("None", <<>>)} \union {Value("Some", <<n>>) : n \in Numbers}
Booleans    == {Value(b, <<>>) : b \in {"true", "false"}}
MatchValues == ("Num" :> Numbers) @@ ("Opt" :> Options) @@ ("Bool" :> Booleans)
               @@ ("Pair" :> {Value("P", <<o, b>>) : o \in Options, b \in Booleans})

\* A function with a lambda g and a lambda q in g, and a lambda of the module.
FnOuter  == ("f" :> "main") @@ ("g" :> "f") @@ ("m" :> "main") @@ ("q" :> "g")
FnParams == ("main" :> {}) @@ ("f" :> {"a"}) @@ ("g" :> {"b"}) @@ ("m" :> {}) @@ ("q" :> {})
FnLets   == ("main" :> {"s", "t"}) @@ ("f" :> {"v"}) @@ [l \in {"g", "m", "q"} |-> {}]
FnRefers == ("main" :> {"s", "t"}) @@ ("f" :> {"a", "s", "v"}) @@ ("g" :> {"a", "v"})
            @@ ("m" :> {"s", "t"}) @@ ("q" :> {"a", "b", "s", "v"})

\* The same, where g refers to nothing of f but through q: fn (b) => fn () => a + b.
NestedRefers == [FnRefers EXCEPT !["g"] = {"b"}]

\* A program, and an entry of a REPL.
ExternTarget == ("p" :> 30) @@ ("entry" :> 20)

\* Three modules in a cycle, and one they import.  Some exports rename, hide or root
\* names anew, and one feeds itself.
Everything(t)        == ExportDecl({t}, <<>>, {}, {})
EverythingBut(t, p)  == ExportDecl({t}, <<>>, {}, {p})
Rooted(t, r)         == ExportDecl({t}, r, {}, {})
Picks(ts, items)     == ExportDecl(ts, <<>>, items, {})
Renaming(n, r)       == [path |-> <<n>>, rename |-> r]

CycleOrder  == <<"a", "b", "d">>
CyclePublic == ("a" :> {<<"x">>}) @@ ("b" :> {}) @@ ("d" :> {<<"P", "y">>})
               @@ ("o" :> {<<"x">>, <<"S">>, <<"S", "f">>})
CycleTypes  == {<<"o", <<"S">>>>}
CycleExports ==
    ("a" :> {Everything("b"), Everything("d"), EverythingBut("b", <<"x">>), EverythingBut("d", <<"S">>),
             Picks({"b"}, {Renaming("S", "T")}), Picks({"o"}, {Renaming("x", "z")}), Picks({"d", "o"}, {Renaming("S", "")}),
             Picks({"b"}, {Renaming("x", "y"), Renaming("y", "z"), Renaming("z", "w")})})
    @@ ("b" :> {Everything("a"), Everything("o"), Everything("d"), EverythingBut("o", <<"S", "f">>),
                Picks({"a"}, {Renaming("x", "z")}), Rooted("d", <<"R">>), Picks({"a"}, {Renaming("x", ""), Renaming("T", "")})})
    @@ ("d" :> {Everything("a"), Everything("b"), EverythingBut("a", <<"x">>), Rooted("b", <<"R">>),
                ExportDecl({"a"}, <<>>, {[path |-> <<"T", "f">>, rename |-> "g"]}, {})})
    @@ ("o" :> {})

-----------------------------------------------------------------------------
AglInit == /\ part \in Part
           /\ ReplInit /\ CacheInit /\ MatchInit /\ ClosuresInit /\ ExternInit /\ ReexportsInit
           /\ part # "match" => site = "Num"

InRepl     == part = "repl"     /\ UNCHANGED <<part, cacheVars, matchVars, closureVars, externVars, exportVars>>
InCache    == part = "cache"    /\ UNCHANGED <<part, replVars, matchVars, closureVars, externVars, exportVars>>
InMatch    == part = "match"    /\ UNCHANGED <<part, replVars, cacheVars, closureVars, externVars, exportVars>>
InClosures == part = "closures" /\ UNCHANGED <<part, replVars, cacheVars, matchVars, externVars, exportVars>>
InExtern   == part = "extern"   /\ UNCHANGED <<part, replVars, cacheVars, matchVars, closureVars, exportVars>>
InExports  == part = "exports"  /\ UNCHANGED <<part, replVars, cacheVars, matchVars, closureVars, externVars>>

AglNext ==
    \/ InRepl /\ Open
    \/ InRepl /\ \E e \in Entry : Submit(e)
    \/ InRepl /\ \E e \in Entry : Reject(e)
    \/ InRepl /\ InstallModule
    \/ InRepl /\ InstallEntry
    \/ InRepl /\ RunModule
    \/ InRepl /\ RunEntry
    \/ InRepl /\ Finish
    \/ InRepl /\ Fail
    \/ InRepl /\ Quit
    \/ InRepl /\ Reset
    \/ InCache /\ CompileProgram
    \/ InCache /\ Resolve
    \/ InCache /\ Check
    \/ InCache /\ EndProgram
    \/ InCache /\ Keep
    \/ InCache /\ Drop
    \/ InCache /\ ResetSession
    \/ InCache /\ OpenCached
    \/ InCache /\ OpenFresh
    \/ InCache /\ Close
    \/ InCache /\ Edit
    \/ InCache /\ EvictParsed
    \/ InCache /\ EvictResolved
    \/ InCache /\ EvictChecked
    \/ InCache /\ Exit
    \/ InMatch /\ AddArm
    \/ InMatch /\ CompileCase
    \/ InMatch /\ \E n \in DOMAIN nodes : CompileBranch(n)
    \/ InMatch /\ \E n \in DOMAIN nodes : CompileDefault(n)
    \/ InMatch /\ \E n \in DOMAIN nodes : Decide(n)
    \/ InMatch /\ StartCase
    \/ InMatch /\ point # 0 /\ \E e \in Range(nodes[point].to) : Take(point, e)
    \/ InMatch /\ point # 0 /\ TakeDefault(point)
    \/ InClosures /\ IrBind
    \/ InClosures /\ IrMakeClosure
    \/ InClosures /\ Call
    \/ InClosures /\ Leave
    \/ InExtern /\ RunProgram
    \/ InExtern /\ EndRun
    \/ InExtern /\ HostCloses
    \/ InExtern /\ CloseValue
    \/ InExtern /\ AllClosed
    \/ InExtern /\ CallExtern
    \/ InExtern /\ ReturnExtern
    \/ InExtern /\ Callback
    \/ InExtern /\ ReturnCallback
    \/ InExtern /\ Spawn
    \/ InExtern /\ UseState
    \/ InExtern /\ Create
    \/ InExports /\ AddExport
    \/ InExports /\ Propagate

AglSpec == AglInit /\ [][AglNext]_<<part, replVars, cacheVars, matchVars, closureVars, externVars, exportVars>>

\* What the parts keep has the shape the code gives it.  A part at rest is as it starts,
\* which is where its own behaviours start.
AglTypeOK == /\ part \in Part
             /\ part = "repl" => ReplTypeOK
             /\ part = "cache" => CacheTypeOK
             /\ part = "match" => MatchTypeOK
             /\ part = "closures" => ClosuresTypeOK
             /\ part = "extern" => ExternTypeOK
             /\ part = "exports" => ReexportsTypeOK
=============================================================================
