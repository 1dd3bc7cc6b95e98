--------------------------- MODULE MCBackupRestore ---------------------------
(* Two threads on one component; the two share nothing but the restore,    *)
(* which visits one store after the other.                                 *)
EXTENDS BackupRestore, TLC, DependencyGraph

CONSTANTS d1, d2, o1, o2, t1, t2

MCRolesOf == [actor \in Actors |-> {"bcaes-editor"}]

(* The walk along dependencies, on every graph of two registered objects    *)
(* and of one whose id is still named, and from the first of them on every  *)
(* graph of three registered objects with two dependencies each at most.    *)
Declarations(ids) == {deps \in SeqOf(ids, 2) : IsInjective(deps)}

ASSUME WalkAssumption ==
  /\ \A graph \in [1..2 -> Declarations(1..3)], start \in 1..2 : WalksTheGraph(graph, start)
  /\ \A graph \in [1..3 -> Declarations(1..3)] : WalksTheGraph(graph, 1)

Interchangeable == Permutations({t1, t2})
=============================================================================
