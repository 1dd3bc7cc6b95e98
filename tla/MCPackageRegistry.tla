------------------------- MODULE MCPackageRegistry -------------------------
(***************************************************************************)
(* Instances of PackageRegistry for TLC.                                   *)
(***************************************************************************)
EXTENDS PackageRegistry, TLC

(* Package ids and thread names are opaque.                                *)
Symmetry == Permutations(Packages) \cup Permutations(Threads)
=============================================================================
