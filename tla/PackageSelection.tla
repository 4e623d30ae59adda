-------------------------- MODULE PackageSelection --------------------------
(***************************************************************************)
(* What the package manager promises about the global selection: it moves  *)
(* from one selection whose requirements are all satisfied to another, in  *)
(* a single step that either installs one named version or removes one     *)
(* named package.  PackageStore implements it.                             *)
(***************************************************************************)
EXTENDS Integers

CONSTANTS Pkg, Ver, Dep

VARIABLE selection    \* [Pkg -> Choice], version 0 for a package not selected

Choice == [ver : Ver \cup {0}, edit : BOOLEAN]
None   == [ver |-> 0, edit |-> FALSE]

Satisfied(sel) ==
    \A q \in Pkg : sel[q].ver # 0 =>
        \A d \in {r \in Pkg : Dep[<<q, sel[q].ver>>][r] > 0} :
            sel[d].ver # 0 /\ sel[d].ver >= Dep[<<q, sel[q].ver>>][d]

Init == selection = [q \in Pkg |-> None]

\* Dependencies may be added or upgraded along the way.  No other package is
\* dropped, and no immutable selection is downgraded or turned into live source.
Keeps(old, new) ==
    /\ old.ver # 0 => new.ver # 0
    /\ old.ver # 0 /\ ~old.edit => ~new.edit /\ new.ver >= old.ver
    /\ new.edit => old.edit

Select(p, v, edit) ==
    /\ selection' \in [Pkg -> Choice]
    /\ selection'[p] = [ver |-> v, edit |-> edit]
    /\ \A q \in Pkg \ {p} : Keeps(selection[q], selection'[q])
    /\ Satisfied(selection')

Drop(p) ==
    /\ selection' = [selection EXCEPT ![p] = None]
    /\ Satisfied(selection')

Next ==
    \/ \E p \in Pkg, v \in Ver, edit \in BOOLEAN : Select(p, v, edit)
    \/ \E p \in Pkg : Drop(p)

Spec == Init /\ [][Next]_selection
=============================================================================
