--------------------------- MODULE MCPackageStore ---------------------------
(* Small instances of PackageStore: of two packages, one version of one and
   two versions of the other can be installed. *)
EXTENDS PackageStore, TLC

CONSTANTS a, b, p1, p2, r1, r2

MCOffered == {<<a, 1>>, <<b, 1>>, <<b, 2>>}

\* a@1 needs b >= 1 and brings b@1 as a path dependency.
MCDep == [s \in Slot |-> [q \in Pkg |-> IF s = <<a, 1>> /\ q = b THEN 1 ELSE 0]]
MCPath == MCDep

\* b@2 in turn needs a >= 1: where neither is there, installing b@2 is a cycle.
MCMutualDep == [MCDep EXCEPT ![<<b, 2>>][a] = 1]
MCMutualPath == MCMutualDep

Symmetry == Permutations(Proc) \cup Permutations(Rev)
=============================================================================
