---------------------------- MODULE UploadIngest ----------------------------
(***************************************************************************)
(* Uploads (upload/service.py) and the ingestion of datasets into the      *)
(* target databases (database_targets/service.py), as concurrent requests  *)
(* of one process.  UploadService holds no lock: each of its methods loads *)
(* the job, may touch the staged file, and saves the job.  ingest holds    *)
(* its lock from the idempotency check to the end when the request has a   *)
(* key, and no lock otherwise.  The router works with an upload service    *)
(* and a certification service or without them: main.py makes one without, *)
(* so that a dataset must be certified before and no upload is looked at.  *)
(*                                                                         *)
(* Saves are whole: no request reads a file that another is writing.       *)
(***************************************************************************)
EXTENDS Naturals, Sequences, FiniteSets

CONSTANTS
  Threads,      \* worker threads
  Uploads,      \* upload ids
  Datasets,     \* dataset ids
  Contents,     \* file contents
  Certifiable,  \* the contents certification passes
  DatasetFile,  \* what is in datasets/ for a dataset id, or None
  Requests,     \* the bodies clients post to /ingest
  MaxJobs,      \* bound: ingestion jobs
  MaxCrashes,   \* bound: crashes
  None

Free == "free"

ASSUME ContentsAssumption ==
  /\ None \notin Contents \cup Uploads \cup Datasets \cup Requests
  /\ Certifiable \subseteq Contents
  /\ DatasetFile \in [Datasets -> Contents \cup {None}]
  /\ \A r \in Requests : r.dataset \in Datasets /\ r.upload \in Uploads \cup {None}
  /\ Free \notin Threads /\ MaxJobs \in Nat /\ MaxCrashes \in Nat

VARIABLES
  uploads,     \* the upload store
  staged,      \* the staged files
  reports,     \* the certification report of each dataset
  target,      \* the records of each dataset in the target database
  jobs,        \* the ingestion jobs
  keys,        \* the idempotency records: key to dataset
  lock,        \* DatabaseRouterService._lock
  handler,     \* the request each thread is in
  attached,    \* the router was given the upload and certification services
  crashes      \* history variable: how often the process died

vars == <<uploads, staged, reports, target, jobs, keys, lock, handler, attached, crashes>>

(* UPLOAD_LIFECYCLE_GRAPH                                                  *)
UploadLifecycleGraph ==
  [UPLOADED   |-> {"RECEIVED", "REJECTED"},
   RECEIVED   |-> {"VALIDATING", "REJECTED"},
   VALIDATING |-> {"VALIDATED", "REJECTED"},
   VALIDATED  |-> {"REGISTERED", "REJECTED"},
   REGISTERED |-> {"INGESTED", "REJECTED"},
   INGESTED   |-> {"AVAILABLE", "REJECTED"},
   AVAILABLE  |-> {"REJECTED"},
   REJECTED   |-> {}]

(* UploadJob, as far as it is modelled                                     *)
UploadJob ==
  [status : DOMAIN UploadLifecycleGraph, checksum : Contents \cup {None},
   dataset : Datasets \cup {None}, linked : BOOLEAN]

ASSUME JobsAreSomething == None \notin UploadJob

NoKey == "no key"

Idle == [at |-> "idle"]

(* A call of a method of UploadService, by an endpoint or by ingest.       *)
Call(method, u, content, request) ==
  [at |-> "load", method |-> method, upload |-> u, content |-> content, request |-> request,
   job |-> None, valid |-> FALSE]

-----------------------------------------------------------------------------
(* UploadService                                                           *)

(* initiate_upload makes the job under a fresh id, with the checksum the   *)
(* client declared or none.                                                *)
InitiateUpload(u, checksum) ==
  /\ uploads[u] = None
  /\ uploads' = [uploads EXCEPT ![u] =
       [status |-> "UPLOADED", checksum |-> checksum, dataset |-> None, linked |-> FALSE]]
  /\ UNCHANGED <<staged, reports, target, jobs, keys, lock, handler, attached, crashes>>

(* A defect: a rejected upload can be validated again.                     *)
AcceptsRejected(method, status) ==
  CASE method = "receive"        -> status = "UPLOADED"
    [] method = "validate"       -> status \in {"RECEIVED", "REJECTED"}
    [] method = "cancel"         -> status \notin {"AVAILABLE", "REJECTED"}
    [] method = "register"       -> status = "VALIDATED"
    [] method = "mark_ingested"  -> status = "REGISTERED"
    [] method = "mark_available" -> status = "INGESTED"
    [] method = "link"           -> status # "REJECTED"

(* The statuses in which a method does not raise UploadStateError.         *)
Accepts(method, status) ==
  CASE method = "receive"        -> status = "UPLOADED"
    [] method = "validate"       -> status = "RECEIVED"
    [] method = "cancel"         -> status \notin {"AVAILABLE", "REJECTED"}
    [] method = "register"       -> status = "VALIDATED"
    [] method = "mark_ingested"  -> status = "REGISTERED"
    [] method = "mark_available" -> status = "INGESTED"
    [] method = "link"           -> status # "REJECTED"

(* receive_upload refuses a body that has not the declared size; the       *)
(* checksum is looked at by validate_upload only.                          *)
SizeMatches(call) == call.content # None

UsesFile(call) ==
  \/ call.method \in {"validate", "cancel"}
  \/ call.method = "receive" /\ SizeMatches(call)

(* What the method makes of the job it has loaded.                         *)
Updated(call) ==
  CASE call.method = "receive" ->
         [call.job EXCEPT !.status = IF SizeMatches(call) THEN "RECEIVED" ELSE "REJECTED"]
    [] call.method = "validate" ->
         [call.job EXCEPT !.status = IF call.valid THEN "VALIDATED" ELSE "REJECTED"]
    [] call.method = "cancel" -> [call.job EXCEPT !.status = "REJECTED"]
    [] call.method = "register" ->
         [call.job EXCEPT !.status = "REGISTERED", !.dataset = call.request.dataset]
    [] call.method = "mark_ingested" -> [call.job EXCEPT !.status = "INGESTED"]
    [] call.method = "mark_available" -> [call.job EXCEPT !.status = "AVAILABLE"]
    [] call.method = "link" -> [call.job EXCEPT !.linked = TRUE]

(* The endpoints that take an upload id: POST content (with a body of the  *)
(* wrong size or of the right one), POST validate and DELETE.              *)
CallUpload(t, u, method, content) ==
  /\ handler[t] = Idle
  /\ uploads[u] # None
  /\ method # "receive" => content = None
  /\ handler' = [handler EXCEPT ![t] = Call(method, u, content, None)]
  /\ UNCHANGED <<uploads, staged, reports, target, jobs, keys, lock, attached, crashes>>

(* Where the caller of a method goes on: an endpoint answers, and ingest   *)
(* has its job PARTIAL_PERSISTENCE if the method raised.                   *)
AfterRaise(call) ==
  IF call.request = None THEN Idle
  ELSE [at |-> "job", request |-> call.request, status |-> "PARTIAL_PERSISTENCE"]

AfterReturn(call) ==
  CASE call.request = None -> Idle
    [] call.method = "mark_ingested" -> Call("mark_available", call.upload, None, call.request)
    [] call.method = "link" ->
         [at |-> "job", request |-> call.request, status |-> "PERSISTED"]
    [] OTHER ->
         [at |-> "advance", last |-> call.method, upload |-> call.upload,
          request |-> call.request]

LoadUpload(t) ==
  LET call == handler[t]
      job == uploads[call.upload] IN
    /\ call.at = "load"
    /\ handler' = [handler EXCEPT ![t] =
         IF ~Accepts(call.method, job.status) THEN AfterRaise(call)
         ELSE [call EXCEPT !.at = IF UsesFile(call) THEN "file" ELSE "save", !.job = job]]
    /\ UNCHANGED <<uploads, staged, reports, target, jobs, keys, lock, attached, crashes>>

StageFile(t) ==
  LET call == handler[t] IN
    /\ call.at = "file" /\ call.method = "receive"
    /\ staged' = [staged EXCEPT ![call.upload] = call.content]
    /\ handler' = [handler EXCEPT ![t].at = "save"]
    /\ UNCHANGED <<uploads, reports, target, jobs, keys, lock, attached, crashes>>

(* The file is there and has the declared checksum.  (Its size is the      *)
(* declared one, since receive_upload wrote it.)                           *)
CheckFile(t) ==
  LET call == handler[t] IN
    /\ call.at = "file" /\ call.method = "validate"
    /\ handler' = [handler EXCEPT ![t].at = "save",
         ![t].valid = /\ staged[call.upload] # None
                      /\ call.job.checksum # None => staged[call.upload] = call.job.checksum]
    /\ UNCHANGED <<uploads, staged, reports, target, jobs, keys, lock, attached, crashes>>

RemoveFile(t) ==
  LET call == handler[t] IN
    /\ call.at = "file" /\ call.method = "cancel"
    /\ staged' = [staged EXCEPT ![call.upload] = None]
    /\ handler' = [handler EXCEPT ![t].at = "save"]
    /\ UNCHANGED <<uploads, reports, target, jobs, keys, lock, attached, crashes>>

SaveUpload(t) ==
  LET call == handler[t] IN
    /\ call.at = "save"
    /\ uploads' = [uploads EXCEPT ![call.upload] = Updated(call)]
    /\ handler' = [handler EXCEPT ![t] = AfterReturn(call)]
    /\ UNCHANGED <<staged, reports, target, jobs, keys, lock, attached, crashes>>

-----------------------------------------------------------------------------
(* DatabaseRouterService.ingest                                            *)

Reject(request) == [at |-> "job", request |-> request, status |-> "REJECTED"]

InProgress == {t \in Threads : handler[t] # Idle /\ handler[t].request # None}

(* A defect: the key is looked up before the lock is taken.                *)
IngestUnlocked(t, request) ==
  /\ handler[t] = Idle
  /\ Len(jobs) + Cardinality(InProgress) < MaxJobs
  /\ request.key # NoKey => keys[request.key] = None
  /\ handler' = [handler EXCEPT ![t] = [at |-> "gate", request |-> request]]
  /\ UNCHANGED <<uploads, staged, reports, target, jobs, keys, lock, attached, crashes>>

(* A request whose key is recorded changes nothing: it is answered with    *)
(* the job recorded, or with 409 if that job was about another dataset.    *)
Ingest(t, request) ==
  /\ handler[t] = Idle
  /\ Len(jobs) + Cardinality(InProgress) < MaxJobs
  /\ IF request.key = NoKey THEN UNCHANGED lock
     ELSE /\ lock = Free
          /\ keys[request.key] = None
          /\ lock' = t
  /\ handler' = [handler EXCEPT ![t] = [at |-> "gate", request |-> request]]
  /\ UNCHANGED <<uploads, staged, reports, target, jobs, keys, attached, crashes>>

(* A report with state CERTIFIED and eligible_for_masterdb.                *)
Eligible(d) == reports[d] \in Certifiable

(* RBAC_CHECK and FORMAT_CHECK, then the certification gate.               *)
Gate(t) ==
  LET request == handler[t].request IN
    /\ handler[t].at = "gate"
    /\ handler' = [handler EXCEPT ![t] =
         CASE ~request.admitted -> Reject(request)
           [] request.admitted /\ reports[request.dataset] = None /\ attached ->
                [at |-> "certify", request |-> request]
           [] request.admitted /\ Eligible(request.dataset) ->
                [at |-> "resolve", request |-> request]
           [] OTHER -> Reject(request)]
    /\ UNCHANGED <<uploads, staged, reports, target, jobs, keys, lock, attached, crashes>>

(* The uploads a request may mean: the one it names, if there is one, else *)
(* those registered for its dataset or named like it.                      *)
Linked(request) ==
  IF request.upload # None /\ uploads[request.upload] # None
  THEN {u \in {request.upload} : attached}
  ELSE {u \in Uploads : attached /\ uploads[u] # None
                        /\ request.dataset \in {uploads[u].dataset, u}}

(* _attempt_auto_certify: the staged file of the linked upload, even if it *)
(* is gone, else the file in datasets/.  No file, or a certification that  *)
(* raises, leaves the dataset without a report.                            *)
AutoCertify(t) ==
  LET request == handler[t].request
      d == request.dataset
      sources == IF Linked(request) = {} THEN {DatasetFile[d]}
                 ELSE {staged[u] : u \in Linked(request)} IN
    /\ handler[t].at = "certify"
    /\ \E content \in sources :
         \/ /\ content # None
            /\ reports' = [reports EXCEPT ![d] = content]
            /\ handler' = [handler EXCEPT ![t] =
                 IF content \in Certifiable THEN [at |-> "resolve", request |-> request]
                 ELSE Reject(request)]
         \/ /\ UNCHANGED reports
            /\ handler' = [handler EXCEPT ![t] = Reject(request)]
    /\ UNCHANGED <<uploads, staged, target, jobs, keys, lock, attached, crashes>>

(* POST /certify for the file in datasets/, by anyone at any time.  What    *)
(* goes on inside it is in Certification.                                  *)
CertifyDataset(d) ==
  /\ DatasetFile[d] # None
  /\ reports[d] # DatasetFile[d]
  /\ reports' = [reports EXCEPT ![d] = DatasetFile[d]]
  /\ UNCHANGED <<uploads, staged, target, jobs, keys, lock, handler, attached, crashes>>

Release(t) == lock' = IF lock = t THEN Free ELSE lock

(* _resolve_dataset_records: the staged file of the linked upload, or the  *)
(* file in datasets/ where it is gone.  Without a file, or with one that   *)
(* cannot be read, DatasetRecordsUnresolvedError leaves ingest.            *)
ResolveRecords(t) ==
  LET request == handler[t].request
      present == {u \in Linked(request) : staged[u] # None}
      sources == {staged[u] : u \in present}
                 \cup IF Linked(request) = {} \/ present # Linked(request)
                      THEN {DatasetFile[request.dataset]} ELSE {} IN
    /\ handler[t].at = "resolve"
    /\ \/ \E content \in sources \ {None} :
            /\ handler' = [handler EXCEPT ![t] =
                 [at |-> "persist", request |-> request, records |-> content]]
            /\ UNCHANGED lock
       \/ handler' = [handler EXCEPT ![t] = Idle] /\ Release(t)
    /\ UNCHANGED <<uploads, staged, reports, target, jobs, keys, attached, crashes>>

Persist(t) ==
  LET request == handler[t].request IN
    /\ handler[t].at = "persist"
    /\ \/ /\ target' = [target EXCEPT ![request.dataset] = handler[t].records]
          /\ handler' = [handler EXCEPT ![t] =
               [at |-> "advance", last |-> "none", upload |-> None, request |-> request]]
       \/ /\ UNCHANGED target
          /\ handler' = [handler EXCEPT ![t] = Reject(request)]
    /\ UNCHANGED <<uploads, staged, reports, jobs, keys, lock, attached, crashes>>

(* _advance_linked_upload: the method the upload's status calls for next.  *)
(* Every status is looked at once, in this order.                          *)
NextMethod(status, last) ==
  CASE status = "RECEIVED" /\ last = "none" -> "validate"
    [] status = "VALIDATED" /\ last \in {"none", "validate"} -> "register"
    [] status = "REGISTERED" /\ last \in {"none", "validate", "register"} -> "mark_ingested"
    [] OTHER -> "link"

Advance(t) ==
  LET request == handler[t].request
      last == handler[t].last
      step(u) == Call(NextMethod(uploads[u].status, last), u, None, request) IN
    /\ handler[t].at = "advance"
    /\ \/ /\ attached /\ last = "none"
          /\ request.upload # None /\ uploads[request.upload] = None
          /\ handler' = [handler EXCEPT ![t] =
               [at |-> "job", request |-> request, status |-> "PARTIAL_PERSISTENCE"]]
       \/ /\ last = "none" /\ Linked(request) = {}
          /\ request.upload = None \/ ~attached
          /\ handler' = [handler EXCEPT ![t] =
               [at |-> "job", request |-> request, status |-> "PERSISTED"]]
       \/ /\ last = "none" /\ request.upload # None => uploads[request.upload] # None
          /\ \E u \in IF last = "none" THEN Linked(request) ELSE {handler[t].upload} :
               handler' = [handler EXCEPT ![t] = step(u)]
    /\ UNCHANGED <<uploads, staged, reports, target, jobs, keys, lock, attached, crashes>>

(* A defect: a job that is not PERSISTED is not saved.                     *)
SaveSuccess(t) ==
  LET request == handler[t].request IN
    /\ handler[t].at = "job"
    /\ jobs' = IF handler[t].status = "PARTIAL_PERSISTENCE" THEN jobs
               ELSE Append(jobs, [request |-> request, status |-> handler[t].status,
                                  keyed |-> FALSE])
    /\ handler' = [handler EXCEPT ![t] = Idle]
    /\ Release(t)
    /\ UNCHANGED <<uploads, staged, reports, target, keys, attached, crashes>>

(* _finalize saves the job and then, if there is a key, its record.        *)
SaveJob(t) ==
  LET request == handler[t].request IN
    /\ handler[t].at = "job"
    /\ jobs' = Append(jobs, [request |-> request, status |-> handler[t].status,
                             keyed |-> FALSE])
    /\ IF request.key = NoKey
       THEN handler' = [handler EXCEPT ![t] = Idle] /\ UNCHANGED lock
       ELSE /\ handler' = [handler EXCEPT ![t] =
                 [at |-> "key", request |-> request, job |-> Len(jobs) + 1]]
            /\ UNCHANGED lock
    /\ UNCHANGED <<uploads, staged, reports, target, keys, attached, crashes>>

SaveKey(t) ==
  LET request == handler[t].request IN
    /\ handler[t].at = "key"
    /\ keys' = [keys EXCEPT ![request.key] = request.dataset]
    /\ jobs' = [jobs EXCEPT ![handler[t].job].keyed = TRUE]
    /\ handler' = [handler EXCEPT ![t] = Idle]
    /\ Release(t)
    /\ UNCHANGED <<uploads, staged, reports, target, attached, crashes>>

(* The process dies and is started again.                                  *)
Crash ==
  /\ crashes < MaxCrashes
  /\ crashes' = crashes + 1
  /\ handler' = [t \in Threads |-> Idle]
  /\ lock' = Free
  /\ UNCHANGED <<uploads, staged, reports, target, jobs, keys, attached>>

-----------------------------------------------------------------------------

Keys == {r.key : r \in Requests} \ {NoKey}

Init ==
  /\ uploads = [u \in Uploads |-> None]
  /\ staged = [u \in Uploads |-> None]
  /\ reports = [d \in Datasets |-> None]
  /\ target = [d \in Datasets |-> None]
  /\ jobs = << >>
  /\ keys = [k \in Keys |-> None]
  /\ lock = Free
  /\ handler = [t \in Threads |-> Idle]
  /\ attached \in BOOLEAN
  /\ crashes = 0

UploadMethod(t) ==
  LoadUpload(t) \/ StageFile(t) \/ CheckFile(t) \/ RemoveFile(t) \/ SaveUpload(t)

IngestStep(t) ==
  \/ Gate(t) \/ AutoCertify(t) \/ ResolveRecords(t) \/ Persist(t) \/ Advance(t)
  \/ SaveJob(t) \/ SaveKey(t)

Next ==
  \/ \E u \in Uploads, checksum \in Contents \cup {None} : InitiateUpload(u, checksum)
  \/ \E t \in Threads, u \in Uploads, method \in {"receive", "validate", "cancel"},
        content \in Contents \cup {None} : CallUpload(t, u, method, content)
  \/ \E t \in Threads, request \in Requests : Ingest(t, request)
  \/ \E d \in Datasets : CertifyDataset(d)
  \/ \E t \in Threads : UploadMethod(t) \/ IngestStep(t)
  \/ Crash

Spec == Init /\ [][Next]_vars

-----------------------------------------------------------------------------

(* An idempotency key has one job, and a second one at most for each time  *)
(* the process died between saving a job and saving its key.               *)
KeyIngestsOnce ==
  \A k \in Keys :
    LET of == {i \in 1..Len(jobs) : jobs[i].request.key = k} IN
      /\ Cardinality({i \in of : jobs[i].keyed}) <= 1
      /\ Cardinality(of) <= 1 + crashes

(* The jobs and the target database tell the same story: a job that is not *)
(* REJECTED has its dataset in the target, and what is in the target has   *)
(* such a job, unless its ingestion is under way or died.                  *)
JobsAccountForTarget ==
  /\ \A i \in 1..Len(jobs) :
       jobs[i].status # "REJECTED" => target[jobs[i].request.dataset] # None
  /\ \A d \in Datasets : target[d] # None =>
       \/ \E i \in 1..Len(jobs) : jobs[i].request.dataset = d /\ jobs[i].status # "REJECTED"
       \/ \E t \in InProgress : handler[t].request.dataset = d
       \/ crashes > 0

(* validate_upload goes through VALIDATING without saving it.              *)
LifecycleStep(from, to) ==
  \/ to \in UploadLifecycleGraph[from]
  \/ \E via \in UploadLifecycleGraph[from] : via = "VALIDATING" /\ to \in UploadLifecycleGraph[via]

(* A step that moves an upload off its lifecycle, out of REJECTED say, is  *)
(* always a lost update: the save of a job that has changed since the      *)
(* method loaded it.  No method does so by itself, ingest included.        *)
OffLifecycleOnlyIfStale ==
  [][\A u \in Uploads :
       uploads[u] # None /\ uploads'[u].status # uploads[u].status =>
         \/ LifecycleStep(uploads[u].status, uploads'[u].status)
         \/ \E t \in Threads : /\ handler[t].at = "save" /\ handler'[t].at # "save"
                               /\ handler[t].upload = u /\ handler[t].job # uploads[u]]_vars
=============================================================================
