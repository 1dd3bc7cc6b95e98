----------------------------- MODULE Lifecycle -----------------------------
(***************************************************************************)
(* What the package registry promises its clients: a package is registered *)
(* once and from then on its status moves along PACKAGE_LIFECYCLE_GRAPH    *)
(* only, one edge at a time.                                               *)
(***************************************************************************)
EXTENDS PackageLifecycle

CONSTANT Packages
VARIABLE status

Unregistered == "NONE"

Init == status = [p \in Packages |-> Unregistered]

Register(p) ==
  /\ status[p] = Unregistered
  /\ status' = [status EXCEPT ![p] = "REGISTERED"]

Promote(p) ==
  /\ status[p] # Unregistered
  /\ \E s \in LifecycleGraph[status[p]] : status' = [status EXCEPT ![p] = s]

Next == \E p \in Packages : Register(p) \/ Promote(p)

Spec == Init /\ [][Next]_status
=============================================================================
