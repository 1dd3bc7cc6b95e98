-------------------------- MODULE PackageRegistry --------------------------
(***************************************************************************)
(* services/package_registry_service.py over the file store.  FastAPI runs *)
(* the handlers of main.py in a thread pool and the service takes no lock, *)
(* so each request is a thread that loads a record, decides, and saves the *)
(* record it changed; other threads may do the same between any two of     *)
(* those steps.                                                            *)
(*                                                                         *)
(* The certification reports are only read here; module Certification adds *)
(* the service that writes them.                                           *)
(***************************************************************************)
EXTENDS PackageLifecycle, RecordFiles

CONSTANTS
  Threads,    \* the request threads
  Packages,   \* package ids
  Datasets    \* dataset ids

VARIABLES
  registryStore,  \* registry_store/: what each package's file holds
  reportStore,    \* reports/: what each dataset's certification report holds
  job,            \* what each thread has loaded and will save
  committed,      \* history variable: the last record saved whole
  cut             \* history variable: packages whose save the process died in

registryVars == <<registryStore, reportStore, job, committed, cut>>

PackageRecord ==
  [dataset_id : Datasets, status : PackageStatus, history : Seq(Transition)]

(* A stored certification report: its state, whether its ingestion_decision *)
(* is missing, eligible or not, and whether its scores, risk flags and     *)
(* recommendations pass every gate of certify() or fail one.               *)
Report ==
  [state : {"VALIDATED", "CERTIFIED", "REJECTED"},
   decision : {"none", "eligible", "ineligible"},
   quality : {"trusted", "flawed"}]

ASSUME RecordsAreNotMarks ==
  \A m \in Marks : m \notin PackageRecord /\ m \notin Report

Idle == [at |-> "idle"]

Jobs ==
  {Idle} \cup [at : {"gate", "open", "write"}, package_id : Packages, package : PackageRecord]

Busy(step, p, package) == [at |-> step, package_id |-> p, package |-> package]

TypeOK ==
  /\ registryStore \in [Packages -> Marks \cup PackageRecord]
  /\ reportStore \in [Datasets -> Marks \cup Report]
  /\ job \in [Threads -> Jobs]
  /\ committed \in [Packages -> {Absent} \cup PackageRecord]
  /\ cut \in SUBSET Packages

-----------------------------------------------------------------------------

(* The reports that validate() and certify() can have left behind.         *)
WrittenReport(r) ==
  \/ r.state = "VALIDATED" /\ r.decision = "none"
  \/ r.state = "CERTIFIED" /\ r.decision = "eligible" /\ r.quality = "trusted"
  \/ r.state = "REJECTED" /\ r.decision = "ineligible" /\ r.quality # "trusted"

Init ==
  /\ registryStore = [p \in Packages |-> Absent]
  /\ reportStore \in [Datasets -> Marks \cup {r \in Report : WrittenReport(r)}]
  /\ job = [t \in Threads |-> Idle]
  /\ committed = [p \in Packages |-> Absent]
  /\ cut = {}

-----------------------------------------------------------------------------

(* The record register() builds: the root transition is its history.       *)
NewPackage(d) ==
  [dataset_id |-> d, status |-> "REGISTERED", history |-> <<Root>>]

(* A defect: the status moves and the transition is not appended.          *)
UnrecordedMove(package, s) == [package EXCEPT !.status = s]

(* The record promote() builds from the one it loaded.                     *)
Moved(package, s) ==
  [dataset_id |-> package.dataset_id,
   status |-> s,
   history |-> Append(package.history, [from_status |-> package.status, to_status |-> s])]

(* register(), up to its save: the package_id is free when it looks.       *)
LoadForRegister(t, p, d) ==
  /\ job[t] = Idle
  /\ registryStore[p] = Absent
  /\ job' = [job EXCEPT ![t] = Busy("open", p, NewPackage(d))]
  /\ UNCHANGED <<registryStore, reportStore, committed, cut>>

(* register() raises: PackageAlreadyExistsError, or the file does not decode. *)
RefuseRegister(t, p) ==
  /\ job[t] = Idle
  /\ registryStore[p] # Absent
  /\ UNCHANGED registryVars

(* A defect: the report is read for RETRIEVAL_READY only.                  *)
LateGate(t, p, s) ==
  /\ job[t] = Idle
  /\ Readable(registryStore[p])
  /\ s \in LifecycleGraph[registryStore[p].status]
  /\ job' = [job EXCEPT ![t] = Busy(IF s = "RETRIEVAL_READY" THEN "gate" ELSE "open",
                                    p, Moved(registryStore[p], s))]
  /\ UNCHANGED <<registryStore, reportStore, committed, cut>>

(* A defect: any status but the present one is taken for a successor.      *)
UncheckedEdge(t, p, s) ==
  /\ job[t] = Idle
  /\ Readable(registryStore[p])
  /\ s # registryStore[p].status
  /\ job' = [job EXCEPT ![t] = Busy(IF s \in Certified THEN "gate" ELSE "open",
                                    p, Moved(registryStore[p], s))]
  /\ UNCHANGED <<registryStore, reportStore, committed, cut>>

(* promote() or deprecate(): the record decodes and the graph has the edge. *)
(* A promotion into Certified still has to read the dataset's report.      *)
LoadForPromote(t, p, s) ==
  /\ job[t] = Idle
  /\ Readable(registryStore[p])
  /\ s \in LifecycleGraph[registryStore[p].status]
  /\ job' = [job EXCEPT ![t] = Busy(IF s \in Certified THEN "gate" ELSE "open",
                                    p, Moved(registryStore[p], s))]
  /\ UNCHANGED <<registryStore, reportStore, committed, cut>>

(* promote() raises before any change: no record, a file that does not     *)
(* decode, or no such edge.                                                *)
RefusePromote(t, p, s) ==
  /\ job[t] = Idle
  /\ Readable(registryStore[p]) => s \notin LifecycleGraph[registryStore[p].status]
  /\ UNCHANGED registryVars

(* The test promote() and assess() put to a report that was found.         *)
FailedCertification(report) ==
  report.state = "REJECTED" \/ report.decision = "ineligible"

(* A dataset without a report is let through: get_report raises KeyError,  *)
(* and promote() passes over it.                                           *)
GateOpen(report) ==
  report = Absent \/ (Readable(report) /\ ~FailedCertification(report))

(* promote() reads the report and goes on to save.                         *)
PassGate(t) ==
  /\ job[t].at = "gate"
  /\ GateOpen(reportStore[job[t].package.dataset_id])
  /\ job' = [job EXCEPT ![t].at = "open"]
  /\ UNCHANGED <<registryStore, reportStore, committed, cut>>

(* A defect: the file is opened for writing before the gate is passed.     *)
OpenedBeforeGate(t) ==
  /\ job[t].at = "gate"
  /\ ~GateOpen(reportStore[job[t].package.dataset_id])
  /\ registryStore' = [registryStore EXCEPT ![job[t].package_id] = Partial]
  /\ job' = [job EXCEPT ![t] = Idle]
  /\ UNCHANGED <<reportStore, committed, cut>>

(* promote() reads the report and raises: failed certification, or the     *)
(* report does not decode.                                                 *)
StopAtGate(t) ==
  /\ job[t].at = "gate"
  /\ ~GateOpen(reportStore[job[t].package.dataset_id])
  /\ job' = [job EXCEPT ![t] = Idle]
  /\ UNCHANGED <<registryStore, reportStore, committed, cut>>

(* ArtifactStore.save opens the file, which truncates or creates it.       *)
OpenRecord(t) ==
  /\ job[t].at = "open"
  /\ registryStore' = [registryStore EXCEPT ![job[t].package_id] = Partial]
  /\ job' = [job EXCEPT ![t].at = "write"]
  /\ UNCHANGED <<reportStore, committed, cut>>

(* ArtifactStore.save writes the record out, and the request returns.      *)
WriteRecord(t) ==
  LET p == job[t].package_id IN
    /\ job[t].at = "write"
    /\ \E contents \in Overwritten(registryStore[p], job[t].package) :
         /\ registryStore' = [registryStore EXCEPT ![p] = contents]
         /\ committed' = [committed EXCEPT ![p] = IF Readable(contents) THEN contents ELSE @]
    /\ job' = [job EXCEPT ![t] = Idle]
    /\ UNCHANGED <<reportStore, cut>>

(* The process dies and starts again: what threads held is lost, and the   *)
(* files stay as they were.                                                *)
Crash ==
  /\ job' = [t \in Threads |-> Idle]
  /\ cut' = cut \cup {p \in Packages : registryStore[p] = Partial}
  /\ UNCHANGED <<registryStore, reportStore, committed>>

(* The steps of a request that has loaded its record.                      *)
Proceed(t) == PassGate(t) \/ StopAtGate(t) \/ OpenRecord(t) \/ WriteRecord(t)

(* A request that POST /packages/... starts.                               *)
Request(t) ==
  \E p \in Packages :
    \/ \E d \in Datasets : LoadForRegister(t, p, d)
    \/ RefuseRegister(t, p)
    \/ \E s \in PackageStatus : LoadForPromote(t, p, s) \/ RefusePromote(t, p, s)

Next == Crash \/ \E t \in Threads : Request(t) \/ Proceed(t)

Spec == Init /\ [][Next]_registryVars

-----------------------------------------------------------------------------
(* Properties                                                              *)

(* Every record a reader can decode replays to its status and has a        *)
(* complete audit trail, whatever the threads do to each other: a race     *)
(* loses whole records, it does not mix two histories in one.              *)
StoredHistoriesReplay ==
  \A p \in Packages :
    Readable(registryStore[p]) =>
      ReplayConsistent(registryStore[p]) /\ AuditComplete(registryStore[p])

(* A package whose history ever entered CERTIFIED or RETRIEVAL_READY       *)
(* belongs to a dataset whose report does not say REJECTED, as long as the *)
(* reports do not change.                                                  *)
CertifiedPassedTheGate ==
  \A p \in Packages :
    LET package == registryStore[p] IN
      Readable(package) /\ (\E i \in 1..Len(package.history) :
                              package.history[i].to_status \in Certified)
        => GateOpen(reportStore[package.dataset_id])

(* The record a client was told is saved is the one the file holds, unless *)
(* a save is under way or the process died in one.                         *)
SavedIsReadable ==
  \A p \in Packages :
    \/ registryStore[p] = committed[p]
    \/ p \in cut
    \/ \E t \in Threads : job[t].at = "write" /\ job[t].package_id = p

(* README.md "rejects any edge not in the graph": from one saved record of *)
(* a package to the next, the history grows by one legal hop.              *)
SavesFollowTheGraph ==
  [][\A p \in Packages :
       committed'[p] # committed[p] =>
         \/ committed[p] = Absent /\ committed'[p].history = <<Root>>
         \/ /\ committed[p] # Absent
            /\ committed'[p].status \in LifecycleGraph[committed[p].status]
            /\ committed'[p] = Moved(committed[p], committed'[p].status)]_registryVars

(* The registry implements the lifecycle it promises.                      *)
Promise == INSTANCE Lifecycle WITH
  status <- [p \in Packages |->
               IF committed[p] = Absent THEN "NONE" ELSE committed[p].status]
LifecyclePromise == Promise!Spec
=============================================================================
