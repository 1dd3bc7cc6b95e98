----------------------------- MODULE Retrieval -----------------------------
(***************************************************************************)
(* services/retrieval_readiness_service.py and the query access of         *)
(* services/dataset_retrieval_service.py, composed with certification and  *)
(* the package registry.  An assessment reads the package, then the        *)
(* report, then the knowledge object, and saves evidence; a query lists    *)
(* the packages, assesses the certified ones and grants access to one.     *)
(*                                                                         *)
(* Export and stream go the way of query.  Which of several eligible       *)
(* packages is the newest, and which packages of a dataset have the        *)
(* version a client asks for, is left open.                                *)
(***************************************************************************)
EXTENDS Certification

(* The packages with complete metadata whose knowledge object has a source *)
(* reference: the METADATA_COMPLETE and LINEAGE_REGISTERED rules.          *)
CONSTANT Prepared

ASSUME PreparedPackages == Prepared \subseteq Packages

VARIABLES
  evidenceStore,  \* retrieval_evidence_store/
  access          \* what each thread is doing for an assessment or a query

accessVars == <<evidenceStore, access>>
allVars == <<vars, accessVars>>

None == [at |-> "none"]

(* listed: the packages of the dataset with the status they were listed    *)
(* with; pending: those still to be assessed; found: the assessed ones.    *)
Started(operation, d, unread, pending) ==
  [at |-> IF unread = {} THEN "load" ELSE "list", operation |-> operation, dataset_id |-> d,
   unread |-> unread, listed |-> {}, pending |-> pending, found |-> {},
   package_id |-> "any", status |-> "REGISTERED", evidence |-> "NOT_RETRIEVABLE"]

(* A defect: the report of a certified package is not taken into account.  *)
ReportBlind(status, failed, complete) ==
  IF status \notin Certified THEN "NOT_RETRIEVABLE"
  ELSE IF ~complete THEN "PARTIALLY_RETRIEVABLE"
  ELSE IF status = "RETRIEVAL_READY" THEN "CERTIFIED_RETRIEVABLE"
  ELSE "RETRIEVABLE"

(* _determine_status, from the status assess() loaded and whether the      *)
(* report it read, if it had to, failed certification.                     *)
Readiness(status, failed, complete) ==
  IF status \notin Certified \/ failed THEN "NOT_RETRIEVABLE"
  ELSE IF ~complete THEN "PARTIALLY_RETRIEVABLE"
  ELSE IF status = "RETRIEVAL_READY" THEN "CERTIFIED_RETRIEVABLE"
  ELSE "RETRIEVABLE"

Available(t) == Unoccupied(t) /\ access[t] = None

-----------------------------------------------------------------------------

(* GET /packages/{id}/retrieval.                                           *)
Assess(t, p) ==
  /\ Available(t)
  /\ access' = [access EXCEPT ![t] = Started("assess", "any", {}, {p})]
  /\ UNCHANGED <<vars, evidenceStore>>

(* POST /query, of the latest version of a dataset or of a given one.      *)
Query(t, d, operation) ==
  /\ Available(t)
  /\ access' = [access EXCEPT ![t] = Started(operation, d, Packages, {})]
  /\ UNCHANGED <<vars, evidenceStore>>

(* registry.list_all reads the next file; one that does not decode is      *)
(* skipped.                                                                *)
ListForQuery(t, p) ==
  /\ access[t].at = "list"
  /\ p \in access[t].unread
  /\ LET package == registryStore[p]
     IN access' = [access EXCEPT
          ![t].unread = @ \ {p},
          ![t].listed = IF Readable(package) /\ package.dataset_id = access[t].dataset_id
                        THEN @ \cup {<<p, package.status>>} ELSE @]
  /\ UNCHANGED <<vars, evidenceStore>>

(* _select_package: the certified packages are candidates to assess.       *)
SelectCandidates(t) ==
  /\ access[t].at = "list" /\ access[t].operation = "query"
  /\ access[t].unread = {}
  /\ LET candidates == {c[1] : c \in {c \in access[t].listed : c[2] \in Certified}}
     IN /\ candidates # {}
        /\ access' = [access EXCEPT ![t].at = "load", ![t].pending = candidates]
  /\ UNCHANGED <<vars, evidenceStore>>

(* The packages _select_package falls back to: those that are not          *)
(* deprecated, or all of them.                                             *)
FallbackPool(listed) ==
  LET active == {c \in listed : c[2] # "DEPRECATED"}
  IN {c[1] : c \in IF active = {} THEN listed ELSE active}

(* No candidate is certified: the fallback package is assessed instead.    *)
SelectFallback(t) ==
  /\ access[t].at = "list" /\ access[t].operation = "query"
  /\ access[t].unread = {}
  /\ \A c \in access[t].listed : c[2] \notin Certified
  /\ IF access[t].listed = {}
     THEN access' = [access EXCEPT ![t] = None]
     ELSE \E p \in FallbackPool(access[t].listed) :
            access' = [access EXCEPT ![t].at = "load", ![t].operation = "fallback",
                                     ![t].pending = {p}]
  /\ UNCHANGED <<vars, evidenceStore>>

(* _select_package with a dataset_version: every package that has it is     *)
(* assessed, whatever its status; PackageNotFoundError if there is none.   *)
SelectVersion(t) ==
  /\ access[t].at = "list" /\ access[t].operation = "version"
  /\ access[t].unread = {}
  /\ \E versioned \in SUBSET {c[1] : c \in access[t].listed} :
       access' = [access EXCEPT ![t] = IF versioned = {} THEN None
                                       ELSE [@ EXCEPT !.at = "load", !.pending = versioned]]
  /\ UNCHANGED <<vars, evidenceStore>>

(* assess() loads the package.                                             *)
AssessPackage(t, p) ==
  /\ access[t].at = "load"
  /\ p \in access[t].pending
  /\ IF Readable(registryStore[p])
     THEN access' = [access EXCEPT ![t].at = "report", ![t].package_id = p,
                                   ![t].status = registryStore[p].status,
                                   ![t].dataset_id = registryStore[p].dataset_id]
     ELSE access' = [access EXCEPT ![t] = None]
  /\ UNCHANGED <<vars, evidenceStore>>

(* assess() reads the report of a certified package, which may raise, and  *)
(* the knowledge object, and derives the status.                           *)
AssessReport(t) ==
  /\ access[t].at = "report"
  /\ LET report == reportStore[access[t].dataset_id]
         failed == Readable(report) /\ FailedCertification(report)
     IN IF access[t].status \in Certified /\ Undecodable(report)
        THEN access' = [access EXCEPT ![t] = None]
        ELSE access' = [access EXCEPT
               ![t].at = "open",
               ![t].evidence = Readiness(access[t].status, failed,
                                         access[t].package_id \in Prepared)]
  /\ UNCHANGED <<vars, evidenceStore>>

OpenEvidence(t) ==
  /\ access[t].at = "open"
  /\ evidenceStore' = [evidenceStore EXCEPT ![access[t].package_id] = Partial]
  /\ access' = [access EXCEPT ![t].at = "write"]
  /\ UNCHANGED vars

(* What follows an assessment: the next package; after the last one a      *)
(* grant of a retrievable package that was listed as certified, for which  *)
(* the policy is the open one; without one, a query of the latest version  *)
(* assesses the fallback package unless it did.  That one was not listed   *)
(* as certified, or was not retrievable, so nothing is granted.            *)
AfterAssessment(a) ==
  LET found == a.found \cup {<<a.package_id, a.evidence>>}
      pending == a.pending \ {a.package_id}
      open == {f \in found : /\ f[2] # "NOT_RETRIEVABLE"
                             /\ \E s \in Certified : <<f[1], s>> \in a.listed}
      assessed == {f[1] : f \in found}
  IN IF pending # {} THEN {[a EXCEPT !.at = "load", !.found = found, !.pending = pending]}
     ELSE IF a.operation \in {"query", "version"} /\ open # {}
     THEN {[a EXCEPT !.at = "granted", !.found = found, !.pending = {},
                     !.package_id = f[1], !.evidence = f[2]] : f \in open}
     ELSE IF a.operation # "query" THEN {None}
     ELSE {IF p \in assessed THEN None
           ELSE [a EXCEPT !.at = "load", !.operation = "fallback", !.found = found,
                          !.pending = {p}] : p \in FallbackPool(a.listed)}

WriteEvidence(t) ==
  LET p == access[t].package_id IN
    /\ access[t].at = "write"
    /\ \E contents \in Overwritten(evidenceStore[p], access[t].evidence) :
         evidenceStore' = [evidenceStore EXCEPT ![p] = contents]
    /\ \E next \in AfterAssessment(access[t]) : access' = [access EXCEPT ![t] = next]
    /\ UNCHANGED vars

(* The grant is returned.                                                  *)
Respond(t) ==
  /\ access[t].at = "granted"
  /\ access' = [access EXCEPT ![t] = None]
  /\ UNCHANGED <<vars, evidenceStore>>

RetrievalInit ==
  /\ CertInit
  /\ evidenceStore = [p \in Packages |-> Absent]
  /\ access = [t \in Threads |-> None]

AccessRequest(t) ==
  \/ \E p \in Packages : Assess(t, p)
  \/ \E d \in Datasets, operation \in {"query", "version"} : Query(t, d, operation)

AccessProceed(t) ==
  \/ SelectCandidates(t)
  \/ SelectFallback(t)
  \/ SelectVersion(t)
  \/ AssessReport(t)
  \/ OpenEvidence(t)
  \/ WriteEvidence(t)
  \/ Respond(t)
  \/ \E p \in Packages : ListForQuery(t, p) \/ AssessPackage(t, p)

RetrievalNext ==
  \/ CrashAll /\ access' = [t \in Threads |-> None] /\ UNCHANGED evidenceStore
  \/ \E t \in Threads :
       \/ /\ work[t] = Free /\ access[t] = None
          /\ Request(t) /\ UNCHANGED <<certVars, accessVars>>
       \/ Proceed(t) /\ UNCHANGED <<certVars, accessVars>>
       \/ access[t] = None /\ CertRequest(t) /\ UNCHANGED accessVars
       \/ CertProceed(t) /\ UNCHANGED accessVars
       \/ AccessRequest(t)
       \/ AccessProceed(t)

RetrievalSpec == RetrievalInit /\ [][RetrievalNext]_allVars

-----------------------------------------------------------------------------
(* Properties                                                              *)

(* CONSISTENCY_FIXES.md "Blocked (HTTP 400 DatasetNotRetrievableError)"    *)
(* for every package that is not certified and every rejected dataset: a   *)
(* query is granted only for a package that is certified as it is granted, *)
(* of a dataset whose report is not a failed one.  Holds for requests that *)
(* come one at a time.                                                     *)
GrantsAreCurrent ==
  \A t \in Threads :
    access[t].at = "granted" =>
      LET package == registryStore[access[t].package_id] IN
        /\ Readable(package) /\ package.status \in Certified
        /\ GateOpen(reportStore[package.dataset_id])
=============================================================================
