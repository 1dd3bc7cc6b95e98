--------------------------- MODULE Certification ---------------------------
(***************************************************************************)
(* services/validation_service.py and services/certification_service.py    *)
(* beside the package registry.  Validation writes a dataset's report;     *)
(* certification reads it, decides, saves it again and, when the dataset   *)
(* is rejected, lists the packages and deprecates those of the dataset     *)
(* that are certified, one registry call after the other.                  *)
(***************************************************************************)
EXTENDS PackageRegistry

VARIABLES
  work,         \* what each thread is doing for POST /validate or /certify
  interrupted   \* history variable: datasets whose withdrawal was cut short

certVars == <<work, interrupted>>
vars == <<registryVars, certVars>>

Free == [at |-> "free"]

(* The validation of a dataset file whose scores are of this quality: the  *)
(* report starts over, without an ingestion_decision.                      *)
ValidatedReport(quality) ==
  [state |-> "VALIDATED", decision |-> "none", quality |-> quality]

(* certify(): both gates for a report that is not decided yet, the same    *)
(* gates again for a CERTIFIED one, and REJECTED stays REJECTED.  VERIFIED *)
(* is passed through and never saved, and the audit trail is a function of *)
(* state and quality, so neither is kept.                                  *)
Decided(report) ==
  IF report.state # "REJECTED" /\ report.quality = "trusted"
  THEN [report EXCEPT !.state = "CERTIFIED", !.decision = "eligible"]
  ELSE [report EXCEPT !.state = "REJECTED", !.decision = "ineligible"]

SaveReport(t, d, report, certifying) ==
  work' = [work EXCEPT ![t] = [at |-> "open", dataset_id |-> d,
                               report |-> report, certifying |-> certifying]]

Unoccupied(t) == work[t] = Free /\ job[t] = Idle

-----------------------------------------------------------------------------

(* POST /validate: scores the file and saves without loading anything.     *)
Validate(t, d, quality) ==
  /\ Unoccupied(t)
  /\ SaveReport(t, d, ValidatedReport(quality), FALSE)
  /\ UNCHANGED <<registryVars, interrupted>>

(* POST /certify of a dataset that has a report.                           *)
Certify(t, d) ==
  /\ Unoccupied(t)
  /\ Readable(reportStore[d])
  /\ SaveReport(t, d, Decided(reportStore[d]), TRUE)
  /\ UNCHANGED <<registryVars, interrupted>>

(* POST /certify with a dataset_path validates first, when there is no     *)
(* report of the dataset_id or, over whatever is stored, without one.      *)
CertifyFile(t, d, quality) ==
  /\ Unoccupied(t)
  /\ SaveReport(t, d, ValidatedReport(quality), TRUE)
  /\ UNCHANGED <<registryVars, interrupted>>

(* POST /certify fails: the report does not decode, or there is none and   *)
(* no dataset_path.                                                        *)
RefuseCertify(t, d) ==
  /\ Unoccupied(t)
  /\ ~Readable(reportStore[d])
  /\ UNCHANGED vars

(* ArtifactStore.save of the report: open, then write.                     *)
OpenReport(t) ==
  /\ work[t].at = "open"
  /\ reportStore' = [reportStore EXCEPT ![work[t].dataset_id] = Partial]
  /\ work' = [work EXCEPT ![t].at = "write"]
  /\ UNCHANGED <<registryStore, job, committed, cut, interrupted>>

(* What the thread does once its report is saved.                          *)
AfterSave(w) ==
  IF ~w.certifying THEN Free
  ELSE IF w.report.state = "VALIDATED"
       THEN [w EXCEPT !.at = "open", !.report = Decided(w.report)]
  ELSE IF w.report.state = "REJECTED"
       THEN [at |-> "list", dataset_id |-> w.dataset_id, unread |-> Packages, stale |-> {}]
  ELSE Free

WriteReport(t) ==
  /\ work[t].at = "write"
  /\ \E contents \in Overwritten(reportStore[work[t].dataset_id], work[t].report) :
       reportStore' = [reportStore EXCEPT ![work[t].dataset_id] = contents]
  /\ work' = [work EXCEPT ![t] = AfterSave(work[t])]
  /\ UNCHANGED <<registryStore, job, committed, cut, interrupted>>

(* A defect: a package made retrieval ready is not taken for a certified one. *)
ListOnlyCertified(t, p) ==
  /\ work[t].at = "list"
  /\ p \in work[t].unread
  /\ LET package == registryStore[p]
         matches == /\ Readable(package)
                    /\ package.dataset_id = work[t].dataset_id
                    /\ package.status = "CERTIFIED"
     IN work' = [work EXCEPT ![t].unread = @ \ {p},
                             ![t].stale = IF matches THEN @ \cup {p} ELSE @]
  /\ UNCHANGED <<registryVars, interrupted>>

(* registry.list_all reads the next file; one that does not decode is      *)
(* skipped.  Kept are the packages of the dataset that are certified.      *)
ListPackage(t, p) ==
  /\ work[t].at = "list"
  /\ p \in work[t].unread
  /\ LET package == registryStore[p]
         matches == /\ Readable(package)
                    /\ package.dataset_id = work[t].dataset_id
                    /\ package.status \in Certified
     IN work' = [work EXCEPT ![t].unread = @ \ {p},
                             ![t].stale = IF matches THEN @ \cup {p} ELSE @]
  /\ UNCHANGED <<registryVars, interrupted>>

(* The list is complete; the packages on it are deprecated one by one.     *)
StartWithdrawing(t) ==
  /\ work[t].at = "list"
  /\ work[t].unread = {}
  /\ work' = [work EXCEPT ![t] = [at |-> "withdraw", dataset_id |-> @.dataset_id,
                                  stale |-> @.stale]]
  /\ UNCHANGED <<registryVars, interrupted>>

(* registry.deprecate of the next package on the list.                     *)
Withdraw(t, p) ==
  /\ work[t].at = "withdraw"
  /\ p \in work[t].stale
  /\ LoadForPromote(t, p, "DEPRECATED")
  /\ work' = [work EXCEPT ![t].stale = @ \ {p}]
  /\ UNCHANGED interrupted

(* It raises, and "except Exception: pass" leaves the rest of the list.    *)
AbandonWithdrawal(t, p) ==
  /\ work[t].at = "withdraw"
  /\ p \in work[t].stale
  /\ RefusePromote(t, p, "DEPRECATED")
  /\ work' = [work EXCEPT ![t] = Free]
  /\ interrupted' = interrupted \cup {work[t].dataset_id}

(* Nothing is left on the list, and certify() returns.                     *)
FinishWithdrawal(t) ==
  /\ work[t].at = "withdraw"
  /\ work[t].stale = {}
  /\ job[t] = Idle
  /\ work' = [work EXCEPT ![t] = Free]
  /\ interrupted' = interrupted \ {work[t].dataset_id}
  /\ UNCHANGED registryVars

CrashAll ==
  /\ Crash
  /\ work' = [t \in Threads |-> Free]
  /\ interrupted' = interrupted \cup
       {d \in Datasets : \E t \in Threads :
          work[t].at \in {"list", "withdraw"} /\ work[t].dataset_id = d}

CertInit ==
  /\ Init
  /\ reportStore = [d \in Datasets |-> Absent]
  /\ work = [t \in Threads |-> Free]
  /\ interrupted = {}

CertRequest(t) ==
  \E d \in Datasets :
    \/ \E quality \in {"trusted", "flawed"} : Validate(t, d, quality) \/ CertifyFile(t, d, quality)
    \/ Certify(t, d)
    \/ RefuseCertify(t, d)

CertProceed(t) ==
  \/ OpenReport(t)
  \/ WriteReport(t)
  \/ StartWithdrawing(t)
  \/ FinishWithdrawal(t)
  \/ \E p \in Packages : ListPackage(t, p) \/ Withdraw(t, p) \/ AbandonWithdrawal(t, p)

CertNext ==
  \/ CrashAll
  \/ \E t \in Threads :
       \/ work[t] = Free /\ Request(t) /\ UNCHANGED certVars
       \/ Proceed(t) /\ UNCHANGED certVars
       \/ CertRequest(t)
       \/ CertProceed(t)

-----------------------------------------------------------------------------
(* Properties                                                              *)

Certifying(t, d) == work[t] # Free /\ work[t].dataset_id = d

(* CONSISTENCY_FIXES.md "an active CERTIFIED package whose dataset fails   *)
(* re-certification is immediately demoted": once certify() has returned a *)
(* rejection, no package of the dataset is certified.  Holds for requests  *)
(* that come one at a time, and a withdrawal a crash cut short is repaired *)
(* by certifying again.                                                    *)
RejectionWithdraws ==
  \A d \in Datasets :
    (/\ Readable(reportStore[d]) /\ reportStore[d].state = "REJECTED"
     /\ d \notin interrupted
     /\ ~\E t \in Threads : Certifying(t, d)) =>
    \A p \in Packages :
      Readable(registryStore[p]) /\ registryStore[p].dataset_id = d
        => registryStore[p].status \notin Certified
=============================================================================
