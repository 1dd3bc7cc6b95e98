-------------------------- MODULE PackageLifecycle --------------------------
(***************************************************************************)
(* The package lifecycle of models.py and the two functions of             *)
(* PackageRegistryService that judge a stored history against it.          *)
(***************************************************************************)
EXTENDS Naturals, Sequences

PackageStatus ==
  {"REGISTERED", "INGESTED", "VALIDATED", "VERIFIED", "CERTIFIED",
   "RETRIEVAL_READY", "DEPRECATED", "ARCHIVED"}

(* PACKAGE_LIFECYCLE_GRAPH: the statuses one promotion may reach.          *)
LifecycleGraph ==
  [REGISTERED      |-> {"INGESTED", "DEPRECATED"},
   INGESTED        |-> {"VALIDATED", "DEPRECATED"},
   VALIDATED       |-> {"VERIFIED", "DEPRECATED"},
   VERIFIED        |-> {"CERTIFIED", "DEPRECATED"},
   CERTIFIED       |-> {"RETRIEVAL_READY", "DEPRECATED"},
   RETRIEVAL_READY |-> {"DEPRECATED"},
   DEPRECATED      |-> {"ARCHIVED"},
   ARCHIVED        |-> {}]

(* The statuses promote() guards with the certification report, which are  *)
(* also the ones certify() withdraws and assess() calls certified.         *)
Certified == {"CERTIFIED", "RETRIEVAL_READY"}

(* A PackageTransition; from_status is "NONE" for the root one.            *)
Transition == [from_status : PackageStatus \cup {"NONE"}, to_status : PackageStatus]

Root == [from_status |-> "NONE", to_status |-> "REGISTERED"]

(* PackageRegistryService.replay: every hop after the first is an edge and *)
(* the walk ends at the stored status.                                     *)
ReplayConsistent(package) ==
  LET h == package.history IN
    /\ h # << >>
    /\ \A i \in 2..Len(h) : h[i].to_status \in LifecycleGraph[h[i - 1].to_status]
    /\ h[Len(h)].to_status = package.status

(* PackageRegistryService.audit_completeness: one root transition, the     *)
(* first one.  (Actor, reason and timestamp are not kept.)                 *)
AuditComplete(package) ==
  LET h == package.history IN
    /\ h # << >>
    /\ \A i \in 1..Len(h) : (h[i].from_status = "NONE") <=> (i = 1)
=============================================================================
