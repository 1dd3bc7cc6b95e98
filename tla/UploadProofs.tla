----------------------------- MODULE UploadProofs -----------------------------
(***************************************************************************)
(* Proofs about UploadIngest, for any number of threads, uploads, datasets *)
(* and jobs: what ingest has done once, and what an upload goes through.   *)
(***************************************************************************)
EXTENDS UploadIngest, FiniteSetTheorems, TLAPS

EndpointMethods == {"receive", "validate", "cancel"}
IngestMethods == {"validate", "register", "mark_ingested", "mark_available", "link"}
Methods == EndpointMethods \cup IngestMethods
AtCall == {"load", "file", "save"}
Outcomes == {"PARTIAL_PERSISTENCE", "PERSISTED", "REJECTED"}

Calls ==
  [at : AtCall, method : Methods, upload : Uploads, content : Contents \cup {None},
   request : Requests \cup {None}, job : UploadJob \cup {None}, valid : BOOLEAN]
Decisions == [at : {"gate", "certify", "resolve"}, request : Requests]
Persists == [at : {"persist"}, request : Requests, records : Contents]
Advances ==
  [at : {"advance"}, last : {"none"} \cup Methods, upload : Uploads \cup {None}, request : Requests]
Ends == [at : {"job"}, request : Requests, status : Outcomes]
KeySaves == [at : {"key"}, request : Requests, job : Nat]
JobRecord == [request : Requests, status : Outcomes, keyed : BOOLEAN]

(* A method is called for an upload there is, and goes on with a job in a  *)
(* status it accepts.                                                      *)
CallSound(h) ==
  /\ h \in Calls /\ uploads[h.upload] # None
  /\ h.request # None => h.method \in IngestMethods
  /\ h.request = None => h.method \in EndpointMethods
  /\ h.at # "load" => h.job \in UploadJob /\ Accepts(h.method, h.job.status)

AdvanceSound(h) ==
  /\ h \in Advances
  /\ h.last # "none" => h.upload \in Uploads /\ uploads[h.upload] # None

KeySaveSound(h) ==
  /\ h \in KeySaves /\ h.request.key # NoKey
  /\ h.job \in 1..Len(jobs) /\ jobs[h.job].request = h.request

HandlerSound(h) ==
  \/ h = Idle \/ CallSound(h) \/ AdvanceSound(h) \/ KeySaveSound(h)
  \/ h \in Decisions \cup Persists \cup Ends

StoresType ==
  /\ uploads \in [Uploads -> UploadJob \cup {None}]
  /\ staged \in [Uploads -> Contents \cup {None}]
  /\ reports \in [Datasets -> Contents \cup {None}]
  /\ target \in [Datasets -> Contents \cup {None}]

UploadType ==
  /\ StoresType
  /\ jobs \in Seq(JobRecord)
  /\ keys \in [Keys -> Datasets \cup {None}]
  /\ crashes \in Nat
  /\ handler = [t \in Threads |-> handler[t]]
  /\ \A t \in Threads : HandlerSound(handler[t])

(* The thread is in ingest; it has persisted the records of d, and its job *)
(* is not saved yet.                                                       *)
Ingesting(t) == handler[t].at # "idle" /\ handler[t].request # None
Claims(t, d) ==
  /\ Ingesting(t) /\ handler[t].at \in AtCall \cup {"advance", "job"}
  /\ handler[t].at = "job" => handler[t].status # "REJECTED"
  /\ handler[t].request.dataset = d

(* A request with a key holds the lock, and its key is not recorded yet.   *)
HoldsLock(t) ==
  Ingesting(t) /\ handler[t].request.key # NoKey =>
    lock = t /\ keys[handler[t].request.key] = None
LockSound == \A t \in Threads : HoldsLock(t)

JobsOf(k) == {i \in 1..Len(jobs) : jobs[i].request.key = k}
KeyedJobs(k) == {i \in JobsOf(k) : jobs[i].keyed}
SavingKey(k) == \E t \in Threads : handler[t].at = "key" /\ handler[t].request.key = k

(* The jobs of a key: what each death may have left behind, and one more.  *)
KeySound ==
  \A k \in Keys :
    /\ keys[k] = None =>
         /\ KeyedJobs(k) = {}
         /\ Cardinality(JobsOf(k)) <= crashes + (IF SavingKey(k) THEN 1 ELSE 0)
    /\ keys[k] # None =>
         Cardinality(KeyedJobs(k)) <= 1 /\ Cardinality(JobsOf(k)) <= 1 + crashes

(* What has been persisted stays, and is told of by a job or a thread.     *)
Told(d) == \E i \in 1..Len(jobs) : jobs[i].request.dataset = d /\ jobs[i].status # "REJECTED"
TargetSound ==
  \A d \in Datasets :
    /\ Told(d) \/ (\E t \in Threads : Claims(t, d)) => target[d] # None
    /\ target[d] # None => Told(d) \/ (\E t \in Threads : Claims(t, d)) \/ crashes > 0

IInv == UploadType /\ LockSound /\ KeySound /\ TargetSound

-----------------------------------------------------------------------------
LEMMA Apart ==
  /\ Idle.at = "idle" /\ "idle" \notin AtCall \cup {"advance", "job", "key"}
  /\ AtCall \cap {"gate", "certify", "resolve", "persist", "advance", "job", "key"} = {}
  BY DEF Idle, AtCall

(* What a handler at a given step is.                                      *)
LEMMA HandlerIs ==
  ASSUME UploadType, NEW t \in Threads
  PROVE  LET h == handler[t] IN
         /\ h.at = "idle" => h = Idle
         /\ h.at \in AtCall => CallSound(h)
         /\ h.at \in {"gate", "certify", "resolve"} => h \in Decisions
         /\ h.at = "persist" => h \in Persists
         /\ h.at = "advance" => AdvanceSound(h)
         /\ h.at = "job" => h \in Ends
         /\ h.at = "key" => KeySaveSound(h)
<1> DEFINE h == handler[t]
<1>1. HandlerSound(h)
  BY DEF UploadType
<1> HIDE DEF h
<1>2. h = Idle => h.at = "idle"
  BY Apart
<1>3. CallSound(h) => h.at \in AtCall
  BY DEF CallSound, Calls
<1>4. /\ AdvanceSound(h) => h.at = "advance"
      /\ KeySaveSound(h) => h.at = "key"
      /\ h \in Decisions => h.at \in {"gate", "certify", "resolve"}
      /\ h \in Persists => h.at = "persist"
      /\ h \in Ends => h.at = "job"
  BY DEF AdvanceSound, Advances, KeySaveSound, KeySaves, Decisions, Persists, Ends
<1>5. \/ h = Idle \/ CallSound(h) \/ AdvanceSound(h) \/ KeySaveSound(h)
      \/ h \in Decisions \/ h \in Persists \/ h \in Ends
  BY <1>1 DEF HandlerSound
<1>6. /\ h.at = "idle" => h = Idle
      /\ h.at \in AtCall => CallSound(h)
      /\ h.at \in {"gate", "certify", "resolve"} => h \in Decisions
      /\ h.at = "persist" => h \in Persists
      /\ h.at = "advance" => AdvanceSound(h)
      /\ h.at = "job" => h \in Ends
      /\ h.at = "key" => KeySaveSound(h)
  BY <1>2, <1>3, <1>4, <1>5, Apart DEF AtCall
<1> QED
  BY <1>6 DEF h

LEMMA NoneApart == None \notin Requests /\ None \notin Uploads /\ None \notin Datasets /\ None \notin Contents
  BY ContentsAssumption

LEMMA RequestParts ==
  ASSUME NEW r \in Requests
  PROVE  /\ r.dataset \in Datasets /\ r.upload \in Uploads \cup {None} /\ r # None
         /\ r.key # NoKey => r.key \in Keys
  BY ContentsAssumption DEF Keys

LEMMA InitIInv == ASSUME Init PROVE IInv
<1>1. UploadType
  BY Apart DEF Init, UploadType, StoresType, HandlerSound
<1>2. \A t \in Threads : handler[t].at = "idle"
  BY Apart DEF Init
<1>3. LockSound
  BY <1>2 DEF LockSound, HoldsLock, Ingesting
<1>4. \A k : JobsOf(k) = {} /\ KeyedJobs(k) = {} /\ ~SavingKey(k)
  BY <1>2 DEF Init, JobsOf, KeyedJobs, SavingKey
<1>5. KeySound
  <2>1. Cardinality({}) = 0 /\ crashes = 0 /\ \A k \in Keys : keys[k] = None
    BY FS_EmptySet DEF Init
  <2> QED
    BY <1>4, <2>1 DEF KeySound
<1>6. TargetSound
  BY <1>2 DEF Init, TargetSound, Told, Claims, Ingesting
<1> QED
  BY <1>1, <1>3, <1>5, <1>6 DEF IInv

-----------------------------------------------------------------------------
(* The stores keep their types, and no upload goes.                        *)
StoresStep == StoresType' /\ \A u \in Uploads : uploads[u] # None => uploads'[u] # None

LEMMA StoresStay ==
  ASSUME IInv, UNCHANGED <<uploads, staged, reports, target>>
  PROVE  StoresStep
  BY DEF IInv, UploadType, StoresType, StoresStep

LEMMA HandlerStays ==
  ASSUME StoresStep, UNCHANGED jobs, NEW h, HandlerSound(h)
  PROVE  HandlerSound(h)'
<1>1. CallSound(h) => CallSound(h)'
  BY DEF CallSound, Calls, StoresStep
<1>2. AdvanceSound(h) => AdvanceSound(h)'
  BY DEF AdvanceSound, StoresStep
<1>3. KeySaveSound(h) => KeySaveSound(h)'
  BY DEF KeySaveSound
<1> QED
  BY <1>1, <1>2, <1>3 DEF HandlerSound

(* What a step of one thread that saves neither a job nor a key has to     *)
(* show for the invariant.                                                 *)
LEMMA StepKeeps ==
  ASSUME IInv, NEW t \in Threads, NEW next,
         handler' = [handler EXCEPT ![t] = next], UNCHANGED <<jobs, keys, crashes>>,
         StoresStep, HandlerSound(handler[t])', HoldsLock(t)',
         \A u \in Threads : u # t /\ lock = u => lock' = u,
         handler[t].at # "key", next.at # "key",
         \A d \in Datasets : Claims(t, d) => Claims(t, d)',
         \A d \in Datasets : target'[d] # None <=> target[d] # None \/ Claims(t, d)'
  PROVE  IInv'
<1>1. /\ handler' = [u \in Threads |-> handler'[u]] /\ handler'[t] = next
      /\ \A u \in Threads \ {t} : handler'[u] = handler[u]
  BY DEF IInv, UploadType
<1>2. UploadType'
  <2>1. ASSUME NEW u \in Threads \ {t} PROVE HandlerSound(handler[u])'
    <3>1. HandlerSound(handler[u])
      BY DEF IInv, UploadType
    <3>2. PICK h : h = handler[u]
      OBVIOUS
    <3>3. HandlerSound(h)'
      BY <3>1, <3>2, HandlerStays
    <3> QED
      BY <1>1, <3>2, <3>3
  <2> QED
    BY <1>1, <2>1 DEF IInv, UploadType, StoresStep
<1>3. LockSound'
  BY <1>1 DEF IInv, LockSound, HoldsLock, Ingesting
<1>4. /\ \A k : JobsOf(k)' = JobsOf(k) /\ KeyedJobs(k)' = KeyedJobs(k)
      /\ \A d : Told(d)' <=> Told(d)
  BY DEF JobsOf, KeyedJobs, Told
<1>5. \A k : SavingKey(k)' <=> SavingKey(k)
  BY <1>1 DEF SavingKey
<1>6. KeySound'
  BY <1>4, <1>5 DEF IInv, KeySound
<1>7. \A u \in Threads \ {t} : \A d : Claims(u, d)' <=> Claims(u, d)
  BY <1>1 DEF Claims, Ingesting
<1>8. TargetSound'
  BY <1>4, <1>7 DEF IInv, TargetSound
<1> QED
  BY <1>2, <1>3, <1>6, <1>8 DEF IInv

(* The step of a thread that neither persists records nor takes the lock.  *)
LEMMA QuietStepKeeps ==
  ASSUME IInv, NEW t \in Threads, NEW next,
         handler' = [handler EXCEPT ![t] = next], UNCHANGED <<target, jobs, keys, crashes>>,
         StoresStep, HandlerSound(handler[t])', handler[t].at # "key", next.at # "key",
         Ingesting(t)' => /\ Ingesting(t) /\ next.request = handler[t].request /\ lock' = lock,
         \A u \in Threads : u # t /\ lock = u => lock' = u,
         \A d \in Datasets : Claims(t, d)' <=> Claims(t, d)
  PROVE  IInv'
<1>1. handler'[t] = next
  BY DEF IInv, UploadType
<1>2. HoldsLock(t)'
  BY <1>1 DEF IInv, LockSound, HoldsLock
<1>3. \A d \in Datasets : target'[d] # None <=> target[d] # None \/ Claims(t, d)'
  BY DEF IInv, TargetSound
<1> QED
  BY <1>2, <1>3, StepKeeps

(* A thread that becomes idle claims nothing.                              *)
LEMMA IdleSound ==
  ASSUME NEW t \in Threads, handler[t] = Idle
  PROVE  handler[t].at # "key" /\ ~Ingesting(t) /\ HandlerSound(handler[t]) /\ \A d : ~Claims(t, d)
  BY Apart DEF Ingesting, HandlerSound, Claims

(* A step that only changes the stores other than the target.              *)
LEMMA StoresStepKeeps ==
  ASSUME IInv, StoresStep, UNCHANGED <<target, jobs, keys, lock, handler, crashes>>
  PROVE  IInv'
<1>1. /\ \A k : JobsOf(k)' = JobsOf(k) /\ KeyedJobs(k)' = KeyedJobs(k) /\ (SavingKey(k)' <=> SavingKey(k))
      /\ \A d : Told(d)' <=> Told(d)
      /\ \A t, d : Claims(t, d)' <=> Claims(t, d)
      /\ \A t : HoldsLock(t)' <=> HoldsLock(t)
      /\ \A h : HandlerSound(h) => HandlerSound(h)'
  BY HandlerStays DEF JobsOf, KeyedJobs, SavingKey, Told, Claims, HoldsLock, Ingesting
<1>2. UploadType'
  BY <1>1 DEF IInv, UploadType, StoresStep
<1>3. LockSound'
  BY <1>1 DEF IInv, LockSound
<1>4. KeySound'
  BY <1>1 DEF IInv, KeySound
<1>5. TargetSound'
  BY <1>1 DEF IInv, TargetSound
<1> QED
  BY <1>2, <1>3, <1>4, <1>5 DEF IInv

LEMMA InitiateUploadKeeps ==
  ASSUME IInv, NEW u \in Uploads, NEW checksum \in Contents \cup {None}, InitiateUpload(u, checksum)
  PROVE  IInv'
<1>1. StoresStep
  BY JobsAreSomething DEF InitiateUpload, IInv, StoresStep, UploadType, StoresType, UploadJob, UploadLifecycleGraph
<1> QED
  BY <1>1, StoresStepKeeps DEF InitiateUpload

LEMMA CertifyDatasetKeeps ==
  ASSUME IInv, NEW d \in Datasets, CertifyDataset(d)
  PROVE  IInv'
<1>1. StoresStep
  BY ContentsAssumption DEF CertifyDataset, IInv, UploadType, StoresType, StoresStep
<1> QED
  BY <1>1, StoresStepKeeps DEF CertifyDataset

LEMMA CallUploadKeeps ==
  ASSUME IInv, NEW t \in Threads, NEW u \in Uploads, NEW method \in EndpointMethods,
         NEW content \in Contents \cup {None}, CallUpload(t, u, method, content)
  PROVE  IInv'
<1> DEFINE next == Call(method, u, content, None)
<1>1. /\ next.at = "load" /\ next.request = None /\ next.method = method /\ next.upload = u
      /\ next \in Calls
  BY DEF Call, Calls, AtCall, Methods
<1>2. /\ handler[t] = Idle /\ handler' = [handler EXCEPT ![t] = next]
      /\ UNCHANGED <<uploads, staged, reports, target, jobs, keys, lock, crashes>>
  BY DEF CallUpload
<1> HIDE DEF next
<1>3. handler'[t] = next
  BY <1>2 DEF IInv, UploadType
<1>4. HandlerSound(handler[t])'
  <2>1. CallSound(handler[t])'
    BY <1>1, <1>2, <1>3 DEF CallUpload, CallSound
  <2> QED
    BY <2>1 DEF HandlerSound
<1>5. ~Ingesting(t)' /\ \A d : ~Claims(t, d)'
  BY <1>1, <1>3 DEF Ingesting, Claims
<1>6. handler[t].at # "key" /\ \A d : ~Claims(t, d)
  BY <1>2, IdleSound
<1>7. StoresStep
  BY <1>2, StoresStay
<1> QED
  BY <1>1, <1>2, <1>4, <1>5, <1>6, <1>7, QuietStepKeeps

(* The step of a thread inside a method of UploadService.                  *)
LEMMA CallStepKeeps ==
  ASSUME IInv, NEW t \in Threads, NEW next, handler[t].at \in AtCall,
         handler' = [handler EXCEPT ![t] = next],
         UNCHANGED <<reports, target, jobs, keys, lock, crashes>>, StoresStep,
         HandlerSound(handler[t])',
         handler[t].request = None => next.at = "idle" \/ next.request = None,
         handler[t].request # None =>
           /\ next.request = handler[t].request
           /\ \/ next.at \in AtCall \cup {"advance"}
              \/ next.at = "job" /\ next.status # "REJECTED",
         next.at # "key"
  PROVE  IInv'
<1>1. handler'[t] = next
  BY DEF IInv, UploadType
<1>2. handler[t].at \notin {"idle", "key", "job", "advance"}
  BY Apart
<1>3. Ingesting(t)' <=> Ingesting(t)
  BY <1>1, <1>2, Apart DEF Ingesting
<1>4. ASSUME NEW d \in Datasets PROVE Claims(t, d)' <=> Claims(t, d)
  <2>1. CASE Ingesting(t)
    <3>1. handler[t].request # None
      BY <2>1 DEF Ingesting
    <3> QED
      BY <1>1, <1>2, <1>3, <2>1, <3>1, Apart DEF Claims
  <2>2. CASE ~Ingesting(t)
    BY <1>3, <2>2 DEF Claims
  <2> QED
    BY <2>1, <2>2
<1>5. Ingesting(t)' => Ingesting(t) /\ next.request = handler[t].request /\ lock' = lock
  BY <1>3 DEF Ingesting
<1>6. handler[t].at # "key" /\ UNCHANGED <<target, jobs, keys, crashes>>
      /\ \A u \in Threads : u # t /\ lock = u => lock' = u
  BY <1>2
<1> QED
  BY <1>4, <1>5, <1>6, QuietStepKeeps

LEMMA LoadUploadKeeps ==
  ASSUME IInv, NEW t \in Threads, LoadUpload(t)
  PROVE  IInv'
<1> DEFINE h == handler[t]
           job == uploads[handler[t].upload]
           next == IF ~Accepts(h.method, job.status) THEN AfterRaise(h)
                   ELSE [h EXCEPT !.at = IF UsesFile(h) THEN "file" ELSE "save", !.job = job]
<1>1. /\ h.at = "load" /\ handler' = [handler EXCEPT ![t] = next]
      /\ UNCHANGED <<uploads, staged, reports, target, jobs, keys, lock, crashes>>
  BY DEF LoadUpload
<1>2. h.at \in AtCall
  BY <1>1 DEF AtCall
<1>3. CallSound(h)
  BY <1>2, HandlerIs DEF IInv
<1>4. h \in Calls /\ h.upload \in Uploads /\ h.request \in Requests \cup {None} /\ job # None
  BY <1>3 DEF CallSound, Calls
<1>5. job \in UploadJob
  BY <1>4 DEF IInv, UploadType, StoresType
<1>6. StoresStep
  BY <1>1, StoresStay
<1>7. handler'[t] = next
  BY <1>1 DEF IInv, UploadType
<1>8. CASE ~Accepts(h.method, job.status)
  <2>1. next = AfterRaise(h)
    BY <1>8
  <2> HIDE DEF next
  <2>2. CASE h.request = None
    <3>1. next = Idle
      BY <2>1, <2>2 DEF AfterRaise
    <3>2. HandlerSound(handler[t])'
      BY <1>7, <3>1 DEF HandlerSound
    <3> QED
      BY <1>1, <1>2, <1>6, <2>2, <3>1, <3>2, Apart, CallStepKeeps
  <2>3. CASE h.request # None
    <3>1. next = [at |-> "job", request |-> h.request, status |-> "PARTIAL_PERSISTENCE"]
      BY <2>1, <2>3 DEF AfterRaise
    <3>2. next \in Ends /\ next.at = "job" /\ next.status = "PARTIAL_PERSISTENCE" /\ next.request = h.request
      BY <1>4, <2>3, <3>1 DEF Ends, Outcomes
    <3>3. HandlerSound(handler[t])'
      BY <1>7, <3>2 DEF HandlerSound
    <3> QED
      BY <1>1, <1>2, <1>6, <2>3, <3>2, <3>3, CallStepKeeps
  <2> QED
    BY <2>2, <2>3
<1>9. CASE Accepts(h.method, job.status)
  <2>1. next = [h EXCEPT !.at = IF UsesFile(h) THEN "file" ELSE "save", !.job = job]
    BY <1>9
  <2> HIDE DEF next
  <2>2. /\ next \in Calls /\ next.at \in {"file", "save"} /\ next.job = job /\ next.upload = h.upload
        /\ next.request = h.request /\ next.method = h.method /\ next.at \in AtCall
    BY <1>4, <1>5, <2>1 DEF Calls, AtCall
  <2>3. HandlerSound(handler[t])'
    <3>1. CallSound(next)
      BY <1>3, <1>5, <1>9, <2>2 DEF CallSound
    <3>2. CallSound(handler[t])'
      BY <1>1, <1>7, <3>1 DEF CallSound
    <3> QED
      BY <3>2 DEF HandlerSound
  <2>4. next.at # "key"
    BY <2>2
  <2> QED
    BY <1>1, <1>2, <1>6, <2>2, <2>3, <2>4, CallStepKeeps
<1> QED
  BY <1>8, <1>9

(* The step that touches the staged file.                                  *)
LEMMA FileStepKeeps ==
  ASSUME IInv, NEW t \in Threads, NEW valid \in BOOLEAN, handler[t].at = "file",
         handler' = [handler EXCEPT ![t] = [handler[t] EXCEPT !.at = "save", !.valid = valid]],
         UNCHANGED <<uploads, reports, target, jobs, keys, lock, crashes>>,
         staged' \in [Uploads -> Contents \cup {None}]
  PROVE  IInv'
<1> DEFINE h == handler[t]
           next == [handler[t] EXCEPT !.at = "save", !.valid = valid]
<1>1. h.at \in AtCall
  BY DEF AtCall
<1>2. CallSound(h)
  BY <1>1, HandlerIs DEF IInv
<1>3. /\ next \in Calls /\ next.at = "save" /\ next.request = h.request /\ next.method = h.method
      /\ next.upload = h.upload /\ next.job = h.job
  BY <1>2 DEF CallSound, Calls, AtCall
<1>4. CallSound(next)
  BY <1>2, <1>3 DEF CallSound
<1>5. StoresStep
  BY DEF IInv, UploadType, StoresType, StoresStep
<1>6. handler'[t] = next
  BY DEF IInv, UploadType
<1> HIDE DEF next
<1>7. HandlerSound(handler[t])'
  <2>1. CallSound(handler[t])'
    BY <1>4, <1>6 DEF CallSound
  <2> QED
    BY <2>1 DEF HandlerSound
<1>8. handler' = [handler EXCEPT ![t] = next]
  BY DEF next
<1>9. next.at \in AtCall /\ next.at # "key"
  BY <1>3 DEF AtCall
<1> QED
  BY <1>1, <1>3, <1>5, <1>7, <1>8, <1>9, CallStepKeeps

LEMMA FileKeeps ==
  ASSUME IInv, NEW t \in Threads, StageFile(t) \/ CheckFile(t) \/ RemoveFile(t)
  PROVE  IInv'
<1>1. handler[t].at = "file"
  BY DEF StageFile, CheckFile, RemoveFile
<1>2. handler[t] \in Calls /\ handler[t].upload \in Uploads /\ handler[t].content \in Contents \cup {None}
  BY <1>1, HandlerIs DEF IInv, AtCall, CallSound, Calls
<1>3. handler[t] = [handler[t] EXCEPT !.valid = handler[t].valid] /\ handler[t].valid \in BOOLEAN
  BY <1>2 DEF Calls
<1>4. CASE StageFile(t)
  <2>1. staged' \in [Uploads -> Contents \cup {None}]
    BY <1>2, <1>4 DEF StageFile, IInv, UploadType, StoresType
  <2>2. handler' = [handler EXCEPT ![t] = [handler[t] EXCEPT !.at = "save", !.valid = handler[t].valid]]
    BY <1>2, <1>4 DEF StageFile, Calls
  <2> QED
    BY <1>1, <1>3, <1>4, <2>1, <2>2, FileStepKeeps DEF StageFile
<1>5. CASE RemoveFile(t)
  <2>1. staged' \in [Uploads -> Contents \cup {None}]
    BY <1>5 DEF RemoveFile, IInv, UploadType, StoresType
  <2>2. handler' = [handler EXCEPT ![t] = [handler[t] EXCEPT !.at = "save", !.valid = handler[t].valid]]
    BY <1>2, <1>5 DEF RemoveFile, Calls
  <2> QED
    BY <1>1, <1>3, <1>5, <2>1, <2>2, FileStepKeeps DEF RemoveFile
<1>6. CASE CheckFile(t)
  <2> DEFINE valid == /\ staged[handler[t].upload] # None
                      /\ handler[t].job.checksum # None => staged[handler[t].upload] = handler[t].job.checksum
  <2>1. handler' = [handler EXCEPT ![t] = [handler[t] EXCEPT !.at = "save", !.valid = valid]]
    BY <1>6 DEF CheckFile
  <2>2. valid \in BOOLEAN
    OBVIOUS
  <2>3. staged' \in [Uploads -> Contents \cup {None}]
    BY <1>6 DEF CheckFile, IInv, UploadType, StoresType
  <2> HIDE DEF valid
  <2> QED
    BY <1>1, <1>6, <2>1, <2>2, <2>3, FileStepKeeps DEF CheckFile
<1> QED
  BY <1>4, <1>5, <1>6

(* What a method saves is a job, and it moves along the lifecycle.         *)
LEMMA UpdatedSound ==
  ASSUME NEW h, CallSound(h), h.at # "load"
  PROVE  /\ Updated(h) \in UploadJob
         /\ Updated(h).status = h.job.status \/ LifecycleStep(h.job.status, Updated(h).status)
<1>1. /\ h \in Calls /\ h.job \in UploadJob /\ Accepts(h.method, h.job.status)
      /\ h.method \in Methods /\ (h.request = None => h.method \in EndpointMethods)
      /\ h.valid \in BOOLEAN
  BY DEF CallSound, Calls
<1>2. h.job.status \in DOMAIN UploadLifecycleGraph
  BY <1>1 DEF UploadJob
<1>3. CASE h.method = "receive"
  <2>1. Updated(h) = [h.job EXCEPT !.status = IF SizeMatches(h) THEN "RECEIVED" ELSE "REJECTED"]
    BY <1>3 DEF Updated
  <2>2. h.job.status = "UPLOADED"
    BY <1>1, <1>3 DEF Accepts
  <2> QED
    BY <1>1, <2>1, <2>2 DEF UploadJob, UploadLifecycleGraph, LifecycleStep
<1>4. CASE h.method = "validate"
  <2>1. Updated(h) = [h.job EXCEPT !.status = IF h.valid THEN "VALIDATED" ELSE "REJECTED"]
    BY <1>4 DEF Updated
  <2>2. h.job.status = "RECEIVED"
    BY <1>1, <1>4 DEF Accepts
  <2> QED
    BY <1>1, <2>1, <2>2 DEF UploadJob, UploadLifecycleGraph, LifecycleStep
<1>5. CASE h.method = "cancel"
  <2>1. Updated(h) = [h.job EXCEPT !.status = "REJECTED"]
    BY <1>5 DEF Updated
  <2>2. h.job.status \notin {"AVAILABLE", "REJECTED"}
    BY <1>1, <1>5 DEF Accepts
  <2> QED
    BY <1>1, <1>2, <2>1, <2>2 DEF UploadJob, UploadLifecycleGraph, LifecycleStep
<1>6. CASE h.method = "register"
  <2>1. Updated(h) = [h.job EXCEPT !.status = "REGISTERED", !.dataset = h.request.dataset]
    BY <1>6 DEF Updated
  <2>2. h.job.status = "VALIDATED"
    BY <1>1, <1>6 DEF Accepts
  <2>3. h.request \in Requests
    BY <1>1, <1>6 DEF Calls, EndpointMethods
  <2>4. h.request.dataset \in Datasets
    BY <2>3, RequestParts
  <2>5. "REGISTERED" \in DOMAIN UploadLifecycleGraph /\ "REGISTERED" \in UploadLifecycleGraph["VALIDATED"]
    BY DEF UploadLifecycleGraph
  <2>6. Updated(h) \in UploadJob /\ Updated(h).status = "REGISTERED"
    BY <1>1, <2>1, <2>4, <2>5 DEF UploadJob
  <2> QED
    BY <2>2, <2>5, <2>6 DEF LifecycleStep
<1>7. CASE h.method = "mark_ingested"
  <2>1. Updated(h) = [h.job EXCEPT !.status = "INGESTED"] /\ h.job.status = "REGISTERED"
    BY <1>1, <1>7 DEF Updated, Accepts
  <2> QED
    BY <1>1, <2>1 DEF UploadJob, UploadLifecycleGraph, LifecycleStep
<1>8. CASE h.method = "mark_available"
  <2>1. Updated(h) = [h.job EXCEPT !.status = "AVAILABLE"] /\ h.job.status = "INGESTED"
    BY <1>1, <1>8 DEF Updated, Accepts
  <2> QED
    BY <1>1, <2>1 DEF UploadJob, UploadLifecycleGraph, LifecycleStep
<1>9. CASE h.method = "link"
  <2>1. Updated(h) = [h.job EXCEPT !.linked = TRUE]
    BY <1>9 DEF Updated
  <2> QED
    BY <1>1, <2>1 DEF UploadJob
<1> QED
  BY <1>1, <1>3, <1>4, <1>5, <1>6, <1>7, <1>8, <1>9 DEF Methods, EndpointMethods, IngestMethods

LEMMA SaveUploadKeeps ==
  ASSUME IInv, NEW t \in Threads, SaveUpload(t)
  PROVE  IInv'
<1> DEFINE h == handler[t]
           next == AfterReturn(handler[t])
<1>1. /\ h.at = "save" /\ uploads' = [uploads EXCEPT ![h.upload] = Updated(h)]
      /\ handler' = [handler EXCEPT ![t] = next]
      /\ UNCHANGED <<staged, reports, target, jobs, keys, lock, crashes>>
  BY DEF SaveUpload
<1>2. h.at \in AtCall
  BY <1>1 DEF AtCall
<1>3. CallSound(h)
  BY <1>2, HandlerIs DEF IInv
<1>4. /\ h \in Calls /\ h.upload \in Uploads /\ h.request \in Requests \cup {None}
      /\ h.method \in Methods /\ uploads[h.upload] # None
      /\ h.request = None => h.method \notin {"mark_ingested", "link"}
  BY <1>3 DEF CallSound, Calls, EndpointMethods
<1>5. Updated(h) \in UploadJob
  BY <1>1, <1>3, UpdatedSound
<1>6. StoresStep /\ uploads'[h.upload] # None
  BY <1>1, <1>4, <1>5, JobsAreSomething DEF IInv, UploadType, StoresType, StoresStep
<1>7. handler'[t] = next
  BY <1>1 DEF IInv, UploadType
<1> HIDE DEF next
<1>8. CASE h.request = None
  <2>1. next = Idle
    BY <1>4, <1>8 DEF AfterReturn, next
  <2>2. HandlerSound(handler[t])'
    BY <1>7, <2>1 DEF HandlerSound
  <2> QED
    BY <1>1, <1>2, <1>6, <1>8, <2>1, <2>2, Apart, CallStepKeeps
<1>9. CASE h.request # None /\ h.method = "mark_ingested"
  <2>1. next = Call("mark_available", h.upload, None, h.request)
    BY <1>9 DEF AfterReturn, next
  <2>2. /\ next \in Calls /\ next.at = "load" /\ next.upload = h.upload /\ next.request = h.request
        /\ next.method = "mark_available" /\ next.at \in AtCall
    BY <1>4, <2>1 DEF Call, Calls, AtCall, Methods, IngestMethods
  <2>3. CallSound(handler[t])'
    BY <1>6, <1>7, <1>9, <2>2 DEF CallSound, IngestMethods
  <2>4. HandlerSound(handler[t])' /\ next.at # "key"
    BY <2>2, <2>3 DEF HandlerSound
  <2> QED
    BY <1>1, <1>2, <1>6, <1>9, <2>2, <2>4, CallStepKeeps
<1>10. CASE h.request # None /\ h.method = "link"
  <2>1. next = [at |-> "job", request |-> h.request, status |-> "PERSISTED"]
    BY <1>10 DEF AfterReturn, next
  <2>2. next \in Ends /\ next.at = "job" /\ next.status = "PERSISTED" /\ next.request = h.request
    BY <1>4, <1>10, <2>1 DEF Ends, Outcomes
  <2>3. HandlerSound(handler[t])'
    BY <1>7, <2>2 DEF HandlerSound
  <2> QED
    BY <1>1, <1>2, <1>6, <1>10, <2>2, <2>3, CallStepKeeps
<1>11. CASE h.request # None /\ h.method \notin {"mark_ingested", "link"}
  <2>1. next = [at |-> "advance", last |-> h.method, upload |-> h.upload, request |-> h.request]
    BY <1>11 DEF AfterReturn, next
  <2>2. next \in Advances /\ next.at = "advance" /\ next.upload = h.upload /\ next.request = h.request
    BY <1>4, <1>11, <2>1 DEF Advances
  <2>3. AdvanceSound(handler[t])'
    BY <1>4, <1>6, <1>7, <2>2 DEF AdvanceSound
  <2>4. HandlerSound(handler[t])' /\ next.at # "key" /\ next.at \in AtCall \cup {"advance"}
    BY <2>2, <2>3 DEF HandlerSound
  <2> QED
    BY <1>1, <1>2, <1>6, <1>11, <2>2, <2>4, CallStepKeeps
<1> QED
  BY <1>8, <1>9, <1>10, <1>11

-----------------------------------------------------------------------------
(* A keyed request is taken up only with the lock in hand.                 *)
LEMMA IngestKeeps ==
  ASSUME IInv, NEW t \in Threads, NEW r \in Requests, Ingest(t, r)
  PROVE  IInv'
<1> DEFINE next == [at |-> "gate", request |-> r]
<1>1. /\ handler[t] = Idle /\ handler' = [handler EXCEPT ![t] = next]
      /\ UNCHANGED <<uploads, staged, reports, target, jobs, keys, crashes>>
      /\ r.key = NoKey => lock' = lock
      /\ r.key # NoKey => lock = Free /\ keys[r.key] = None /\ lock' = t
  BY DEF Ingest
<1>2. next.at = "gate" /\ next.request = r /\ next \in Decisions
  BY DEF Decisions
<1> HIDE DEF next
<1>3. handler'[t] = next
  BY <1>1 DEF IInv, UploadType
<1>4. StoresStep
  BY <1>1, StoresStay
<1>5. HandlerSound(handler[t])'
  BY <1>2, <1>3 DEF HandlerSound
<1>6. HoldsLock(t)'
  BY <1>1, <1>2, <1>3 DEF HoldsLock
<1>7. \A u \in Threads : u # t /\ lock = u => lock' = u
  BY <1>1, ContentsAssumption
<1>8. \A d : ~Claims(t, d) /\ ~Claims(t, d)'
  BY <1>1, <1>2, <1>3, IdleSound, Apart DEF Claims
<1>9. handler[t].at # "key" /\ next.at # "key"
  BY <1>1, <1>2, IdleSound
<1> QED
  BY <1>1, <1>4, <1>5, <1>6, <1>7, <1>8, <1>9, StepKeeps

(* The step of a request that has not persisted anything.                  *)
AtDecision == {"gate", "certify", "resolve", "persist"}

Undecided(h, r) ==
  /\ h.request = r /\ HandlerSound(h)
  /\ \/ h.at \in {"gate", "certify", "resolve", "persist"}
     \/ h.at = "job" /\ h.status = "REJECTED"

LEMMA DecisionStepKeeps ==
  ASSUME IInv, NEW t \in Threads, NEW next,
         handler[t].at \in AtDecision,
         handler' = [handler EXCEPT ![t] = next],
         UNCHANGED <<target, jobs, keys, crashes>>, StoresStep,
         next = Idle \/ (Undecided(next, handler[t].request) /\ lock' = lock),
         \A u \in Threads : u # t /\ lock = u => lock' = u
  PROVE  IInv'
<1>1. handler'[t] = next
  BY DEF IInv, UploadType
<1>2. /\ HandlerSound(next)
      /\ \/ next.at = "idle"
         \/ next.at \in {"gate", "certify", "resolve", "persist"}
         \/ next.at = "job" /\ next.status = "REJECTED"
      /\ next = Idle \/ (next.request = handler[t].request /\ lock' = lock)
  <2>1. CASE next = Idle
    BY <2>1, Apart DEF HandlerSound
  <2>2. CASE Undecided(next, handler[t].request) /\ lock' = lock
    BY <2>2 DEF Undecided
  <2> QED
    BY <2>1, <2>2
<1>3. handler[t].request \in Requests /\ handler[t].at \notin {"idle", "key"}
  BY HandlerIs DEF IInv, Decisions, Persists, AtDecision
<1>4. \A d : ~Claims(t, d)
  BY Apart DEF Claims, AtDecision
<1>5. \A d : ~Claims(t, d)'
  BY <1>1, <1>2, Apart DEF Claims
<1>6. Ingesting(t)' => Ingesting(t) /\ next.request = handler[t].request /\ lock' = lock
  BY <1>1, <1>2, <1>3, NoneApart, Apart DEF Ingesting
<1>8. HandlerSound(handler[t])'
  <2>1. PICK n : n = next
    OBVIOUS
  <2>2. HandlerSound(n)'
    BY <1>2, <2>1, HandlerStays
  <2> QED
    BY <1>1, <2>1, <2>2
<1>9. next.at # "key"
  BY <1>2
<1> QED
  BY <1>3, <1>4, <1>5, <1>6, <1>8, <1>9, QuietStepKeeps

LEMMA UndecidedParts ==
  ASSUME NEW r \in Requests
  PROVE  /\ Undecided(Reject(r), r)
         /\ Undecided([at |-> "certify", request |-> r], r)
         /\ Undecided([at |-> "resolve", request |-> r], r)
         /\ \A content \in Contents :
              Undecided([at |-> "persist", request |-> r, records |-> content], r)
  BY DEF Undecided, Reject, Decisions, Persists, Ends, Outcomes, HandlerSound

LEMMA GateKeeps ==
  ASSUME IInv, NEW t \in Threads, Gate(t)
  PROVE  IInv'
<1>1. handler[t].at = "gate" /\ UNCHANGED <<uploads, staged, reports, target, jobs, keys, lock, crashes>>
  BY DEF Gate
<1>2. PICK r \in Requests : r = handler[t].request
  BY <1>1, HandlerIs DEF IInv, Decisions
<1>6. handler[t].at \in AtDecision
  BY <1>1 DEF AtDecision
<1> DEFINE next == CASE ~r.admitted -> Reject(r)
                     [] r.admitted /\ reports[r.dataset] = None -> [at |-> "certify", request |-> r]
                     [] r.admitted /\ Eligible(r.dataset) -> [at |-> "resolve", request |-> r]
                     [] OTHER -> Reject(r)
<1>3. handler' = [handler EXCEPT ![t] = next]
  BY <1>2 DEF Gate
<1>4. next \in {Reject(r), [at |-> "certify", request |-> r], [at |-> "resolve", request |-> r]}
  OBVIOUS
<1> HIDE DEF next
<1>5. Undecided(next, handler[t].request)
  BY <1>1, <1>2, <1>4, UndecidedParts
<1> QED
  BY <1>1, <1>6, <1>3, <1>5, StoresStay, DecisionStepKeeps

LEMMA AutoCertifyKeeps ==
  ASSUME IInv, NEW t \in Threads, AutoCertify(t)
  PROVE  IInv'
<1>1. handler[t].at = "certify" /\ UNCHANGED <<uploads, staged, target, jobs, keys, lock, crashes>>
  BY DEF AutoCertify
<1>2. PICK r \in Requests : r = handler[t].request
  BY <1>1, HandlerIs DEF IInv, Decisions
<1>3. \A u \in Linked(r) : u \in Uploads
  BY RequestParts DEF Linked
<1>4. \A content \in IF Linked(r) = {} THEN {DatasetFile[r.dataset]} ELSE {staged[u] : u \in Linked(r)} :
        content \in Contents \cup {None}
  BY <1>3, RequestParts, ContentsAssumption DEF IInv, UploadType, StoresType
<1>5. PICK next \in {Reject(r), [at |-> "resolve", request |-> r]} :
        /\ handler' = [handler EXCEPT ![t] = next]
        /\ reports' = reports
           \/ \E content \in Contents : reports' = [reports EXCEPT ![r.dataset] = content]
  BY <1>2, <1>4 DEF AutoCertify
<1>6. StoresStep
  BY <1>1, <1>5 DEF IInv, UploadType, StoresType, StoresStep
<1>7. Undecided(next, handler[t].request)
  BY <1>1, <1>2, <1>5, UndecidedParts
<1>8. handler[t].at \in AtDecision
  BY <1>1 DEF AtDecision
<1> QED
  BY <1>1, <1>5, <1>6, <1>7, <1>8, DecisionStepKeeps

LEMMA ResolveRecordsKeeps ==
  ASSUME IInv, NEW t \in Threads, ResolveRecords(t)
  PROVE  IInv'
<1>1. handler[t].at = "resolve" /\ UNCHANGED <<uploads, staged, reports, target, jobs, keys, crashes>>
  BY DEF ResolveRecords
<1>2. PICK r \in Requests : r = handler[t].request
  BY <1>1, HandlerIs DEF IInv, Decisions
<1>3. \A u \in Linked(r) : u \in Uploads
  BY RequestParts DEF Linked
<1>4. StoresStep
  BY <1>1, StoresStay
<1>5. CASE handler' = [handler EXCEPT ![t] = Idle] /\ Release(t)
  <2>1. handler[t].at \in AtDecision
    BY <1>1 DEF AtDecision
  <2>2. UNCHANGED <<target, jobs, keys, crashes>>
    BY <1>1
  <2>3. handler' = [handler EXCEPT ![t] = Idle] /\ \A u \in Threads : u # t /\ lock = u => lock' = u
    BY <1>5 DEF Release
  <2> QED
    BY <1>4, <2>1, <2>2, <2>3, DecisionStepKeeps
<1>6. CASE ~(handler' = [handler EXCEPT ![t] = Idle] /\ Release(t))
  <2>1. DatasetFile[r.dataset] \in Contents \cup {None}
        /\ \A u \in Linked(r) : staged[u] \in Contents \cup {None}
    BY <1>3, RequestParts, ContentsAssumption DEF IInv, UploadType, StoresType
  <2>2. PICK content \in Contents :
          /\ handler' = [handler EXCEPT ![t] = [at |-> "persist", request |-> r, records |-> content]]
          /\ UNCHANGED lock
    BY <1>2, <1>6, <2>1 DEF ResolveRecords
  <2> DEFINE next == [at |-> "persist", request |-> r, records |-> content]
  <2>3. Undecided(next, handler[t].request)
    BY <1>2, <2>2, UndecidedParts
  <2>4. handler' = [handler EXCEPT ![t] = next]
    BY <2>2
  <2>5. handler[t].at \in AtDecision
    BY <1>1 DEF AtDecision
  <2> HIDE DEF next
  <2> QED
    BY <1>1, <1>4, <2>2, <2>3, <2>4, <2>5, DecisionStepKeeps
<1> QED
  BY <1>5, <1>6

(* Records that are persisted are claimed by the thread.                   *)
LEMMA PersistKeeps ==
  ASSUME IInv, NEW t \in Threads, Persist(t)
  PROVE  IInv'
<1>1. handler[t].at = "persist" /\ UNCHANGED <<uploads, staged, reports, jobs, keys, lock, crashes>>
  BY DEF Persist
<1>2. handler[t] \in Persists /\ handler[t].records \in Contents /\ handler[t].records # None
  BY <1>1, HandlerIs, NoneApart DEF IInv, Persists
<1>3. PICK r \in Requests : r = handler[t].request
  BY <1>2 DEF Persists
<1>4. CASE UNCHANGED target /\ handler' = [handler EXCEPT ![t] = Reject(r)]
  <2>1. Undecided(Reject(r), handler[t].request)
    BY <1>1, <1>3, UndecidedParts
  <2>2. handler[t].at \in AtDecision
    BY <1>1 DEF AtDecision
  <2> QED
    BY <1>1, <1>4, <2>1, <2>2, StoresStay, DecisionStepKeeps
<1>5. CASE /\ target' = [target EXCEPT ![r.dataset] = handler[t].records]
           /\ handler' = [handler EXCEPT ![t] =
                [at |-> "advance", last |-> "none", upload |-> None, request |-> r]]
  <2> DEFINE next == [at |-> "advance", last |-> "none", upload |-> None, request |-> r]
  <2>1. next \in Advances /\ next.at = "advance" /\ next.last = "none" /\ next.request = r
    BY DEF Advances
  <2>2. handler' = [handler EXCEPT ![t] = next] /\ handler'[t] = next
    BY <1>5 DEF IInv, UploadType
  <2> HIDE DEF next
  <2>3. HandlerSound(handler[t])'
    BY <2>1, <2>2 DEF HandlerSound, AdvanceSound
  <2>4. StoresStep
    BY <1>1, <1>2, <1>5 DEF IInv, UploadType, StoresType, StoresStep
  <2>5. \A d \in Datasets : ~Claims(t, d) /\ (Claims(t, d)' <=> d = r.dataset)
    BY <1>1, <2>1, <2>2, NoneApart, Apart DEF Claims, Ingesting
  <2>6. HoldsLock(t)'
    <3>1. HoldsLock(t) /\ Ingesting(t)
      BY <1>1, <1>3, NoneApart DEF IInv, LockSound, Ingesting
    <3> QED
      BY <1>1, <1>3, <2>1, <2>2, <3>1 DEF HoldsLock
  <2>7. \A d \in Datasets : target'[d] # None <=> target[d] # None \/ Claims(t, d)'
    BY <1>2, <1>5, <2>5, RequestParts DEF IInv, UploadType, StoresType
  <2>8. handler[t].at # "key" /\ next.at # "key" /\ \A u \in Threads : u # t /\ lock = u => lock' = u
    BY <1>1, <2>1
  <2> QED
    BY <1>1, <2>2, <2>3, <2>4, <2>5, <2>6, <2>7, <2>8, StepKeeps
<1> QED
  BY <1>3, <1>4, <1>5 DEF Persist

(* The uploads an ingestion goes on with are there.                        *)
LEMMA LinkedSound ==
  ASSUME NEW r \in Requests, NEW u \in Linked(r)
  PROVE  u \in Uploads /\ uploads[u] # None
  BY RequestParts DEF Linked

LEMMA AdvanceKeeps ==
  ASSUME IInv, NEW t \in Threads, Advance(t)
  PROVE  IInv'
<1> DEFINE h == handler[t]
<1>1. h.at = "advance" /\ UNCHANGED <<uploads, staged, reports, target, jobs, keys, lock, crashes>>
  BY DEF Advance
<1>2. AdvanceSound(h)
  BY <1>1, HandlerIs DEF IInv
<1>3. PICK r \in Requests : r = h.request
  BY <1>2 DEF AdvanceSound, Advances
<1>4. StoresStep
  BY <1>1, StoresStay
<1>5. ASSUME NEW next, handler' = [handler EXCEPT ![t] = next], HandlerSound(handler[t])',
             next.request = r,
             next.at \in AtCall \/ (next.at = "job" /\ next.status # "REJECTED")
      PROVE  IInv'
  <2>1. handler'[t] = next
    BY <1>5 DEF IInv, UploadType
  <2>2. \A d \in Datasets : Claims(t, d)' <=> Claims(t, d)
    BY <1>1, <1>3, <1>5, <2>1, NoneApart, Apart DEF Claims, Ingesting
  <2>3. Ingesting(t) /\ next.request = handler[t].request /\ lock' = lock
    BY <1>1, <1>3, <1>5, NoneApart DEF Ingesting
  <2>4. handler[t].at # "key" /\ next.at # "key" /\ \A u \in Threads : u # t /\ lock = u => lock' = u
    BY <1>1, <1>5, Apart
  <2> QED
    BY <1>1, <1>4, <1>5, <2>2, <2>3, <2>4, QuietStepKeeps
<1>6. ASSUME NEW status \in {"PARTIAL_PERSISTENCE", "PERSISTED"},
             handler' = [handler EXCEPT ![t] = [at |-> "job", request |-> r, status |-> status]]
      PROVE  IInv'
  <2> DEFINE next == [at |-> "job", request |-> r, status |-> status]
  <2>1. next \in Ends /\ next.at = "job" /\ next.status # "REJECTED" /\ next.request = r
    BY DEF Ends, Outcomes
  <2>2. handler' = [handler EXCEPT ![t] = next] /\ handler'[t] = next
    BY <1>6 DEF IInv, UploadType
  <2> HIDE DEF next
  <2>3. HandlerSound(handler[t])'
    BY <2>1, <2>2 DEF HandlerSound
  <2> QED
    BY <1>5, <2>1, <2>2, <2>3
<1>7. ASSUME NEW u \in IF h.last = "none" THEN Linked(r) ELSE {h.upload},
             handler' = [handler EXCEPT ![t] = Call(NextMethod(uploads[u].status, h.last), u, None, r)]
      PROVE  IInv'
  <2> DEFINE method == NextMethod(uploads[u].status, h.last)
             next == Call(method, u, None, r)
  <2>1. u \in Uploads /\ uploads[u] # None
    BY <1>2, <1>7, LinkedSound DEF AdvanceSound
  <2>2. method \in IngestMethods
    BY DEF NextMethod, IngestMethods
  <2> HIDE DEF method
  <2>3. /\ next \in Calls /\ next.at = "load" /\ next.request = r /\ next.upload = u
        /\ next.method = method
    BY <2>1, <2>2 DEF Call, Calls, AtCall, Methods
  <2>4. handler' = [handler EXCEPT ![t] = next] /\ handler'[t] = next
    BY <1>7 DEF IInv, UploadType, method
  <2> HIDE DEF next
  <2>5. CallSound(next)
    BY <2>1, <2>2, <2>3, NoneApart DEF CallSound
  <2>6. HandlerSound(handler[t])'
    <3>1. CallSound(handler[t])'
      BY <1>1, <2>4, <2>5 DEF CallSound
    <3> QED
      BY <3>1 DEF HandlerSound
  <2>7. next.at \in AtCall
    BY <2>3 DEF AtCall
  <2> QED
    BY <1>5, <2>3, <2>4, <2>6, <2>7
<1> QED
  BY <1>3, <1>6, <1>7 DEF Advance

-----------------------------------------------------------------------------
LEMMA JobsFinite ==
  ASSUME IInv, NEW k
  PROVE  /\ IsFiniteSet(JobsOf(k)) /\ IsFiniteSet(KeyedJobs(k))
         /\ Cardinality(JobsOf(k)) \in Nat /\ Cardinality(KeyedJobs(k)) \in Nat
<1>1. Len(jobs) \in Nat
  BY DEF IInv, UploadType
<1>2. IsFiniteSet(1..Len(jobs))
  BY <1>1, FS_Interval
<1>3. JobsOf(k) \subseteq 1..Len(jobs) /\ KeyedJobs(k) \subseteq 1..Len(jobs)
  BY DEF JobsOf, KeyedJobs
<1> QED
  BY <1>2, <1>3, FS_Subset, FS_CardinalityType

(* A thread with a key excludes every other.                               *)
LEMMA OnlyHolder ==
  ASSUME IInv, NEW t \in Threads, NEW u \in Threads \ {t},
         Ingesting(t), handler[t].request.key # NoKey,
         Ingesting(u)
  PROVE  handler[u].request.key = NoKey
  BY DEF IInv, LockSound, HoldsLock

LEMMA SaverIngests ==
  ASSUME IInv, NEW t \in Threads, handler[t].at \in {"job", "key"}
  PROVE  handler[t].request \in Requests /\ Ingesting(t)
  BY HandlerIs, NoneApart DEF IInv, Ends, KeySaveSound, KeySaves, Ingesting

(* A job is saved before its key: the key may be lost in between.          *)
LEMMA SaveJobKeeps ==
  ASSUME IInv, NEW t \in Threads, SaveJob(t)
  PROVE  IInv'
<1> DEFINE h == handler[t]
           new == [request |-> h.request, status |-> h.status, keyed |-> FALSE]
           next == IF h.request.key = NoKey THEN Idle
                   ELSE [at |-> "key", request |-> h.request, job |-> Len(jobs) + 1]
<1>1. /\ h.at = "job" /\ jobs' = Append(jobs, new) /\ handler' = [handler EXCEPT ![t] = next]
      /\ UNCHANGED <<uploads, staged, reports, target, keys, lock, crashes>>
  BY DEF SaveJob
<1>2. h \in Ends /\ Ingesting(t)
  BY <1>1, HandlerIs, SaverIngests DEF IInv
<1>3. PICK r \in Requests : r = h.request
  BY <1>2 DEF Ends
<1>4. new \in JobRecord /\ new.request = r /\ new.status = h.status /\ new.keyed = FALSE
  BY <1>2, <1>3 DEF Ends, JobRecord
<1> HIDE DEF new, next
<1>5. /\ jobs' \in Seq(JobRecord) /\ Len(jobs') = Len(jobs) + 1 /\ Len(jobs) \in Nat
      /\ jobs'[Len(jobs) + 1] = new /\ \A i \in 1..Len(jobs) : jobs'[i] = jobs[i]
  BY <1>1, <1>4 DEF IInv, UploadType
<1>6. /\ handler' = [u \in Threads |-> handler'[u]] /\ handler'[t] = next
      /\ \A u \in Threads \ {t} : handler'[u] = handler[u]
  BY <1>1 DEF IInv, UploadType
<1>7. /\ r.key = NoKey => next = Idle
      /\ r.key # NoKey => next \in KeySaves /\ next.at = "key" /\ next.request = r /\ next.job = Len(jobs) + 1
  BY <1>3, <1>5 DEF next, KeySaves
<1>8. UploadType'
  <2>1. HandlerSound(handler[t])'
    BY <1>4, <1>5, <1>6, <1>7 DEF HandlerSound, KeySaveSound
  <2>2. ASSUME NEW u \in Threads \ {t} PROVE HandlerSound(handler[u])'
    <3>1. HandlerSound(handler[u])
      BY DEF IInv, UploadType
    <3>2. CallSound(handler[u]) => CallSound(handler[u])'
      BY <1>1, <1>6 DEF CallSound
    <3>3. AdvanceSound(handler[u]) => AdvanceSound(handler[u])'
      BY <1>1, <1>6 DEF AdvanceSound
    <3>4. KeySaveSound(handler[u]) => KeySaveSound(handler[u])'
      BY <1>5, <1>6 DEF KeySaveSound
    <3> QED
      BY <1>6, <3>1, <3>2, <3>3, <3>4 DEF HandlerSound
  <2> QED
    BY <1>1, <1>5, <1>6, <2>1, <2>2 DEF IInv, UploadType, StoresType
<1>9. LockSound'
  <2>1. HoldsLock(t)'
    <3>1. HoldsLock(t)
      BY DEF IInv, LockSound
    <3>2. handler'[t].at # "idle" => handler'[t].request = r
      BY <1>6, <1>7, Apart
    <3> QED
      BY <1>1, <1>2, <1>3, <3>1, <3>2 DEF HoldsLock, Ingesting
  <2> QED
    BY <1>1, <1>6, <2>1 DEF IInv, LockSound, HoldsLock, Ingesting
<1>10. KeySound'
  <2>1. ASSUME NEW k \in Keys, k # r.key
        PROVE  JobsOf(k)' = JobsOf(k) /\ KeyedJobs(k)' = KeyedJobs(k) /\ (SavingKey(k)' <=> SavingKey(k))
    <3>1. JobsOf(k)' = JobsOf(k)
      BY <1>4, <1>5, <2>1 DEF JobsOf
    <3>2. KeyedJobs(k)' = KeyedJobs(k)
      BY <1>5, <3>1 DEF KeyedJobs, JobsOf
    <3>3. ~(handler'[t].at = "key" /\ handler'[t].request.key = k) /\ handler[t].at # "key"
      BY <1>1, <1>6, <1>7, <2>1, Apart
    <3>4. SavingKey(k)' <=> SavingKey(k)
      BY <1>6, <3>3 DEF SavingKey
    <3> QED
      BY <3>1, <3>2, <3>4
  <2>2. ASSUME NEW k \in Keys, k = r.key
        PROVE  /\ keys[k] = None /\ KeyedJobs(k)' = {}
               /\ Cardinality(JobsOf(k)') <= crashes + 1 /\ SavingKey(k)'
    <3>1. r.key # NoKey /\ handler[t].request.key # NoKey
      BY <1>3, <2>2 DEF Keys
    <3>2. keys[k] = None
      BY <1>2, <1>3, <2>2, <3>1 DEF IInv, LockSound, HoldsLock
    <3>3. ~SavingKey(k)
      <4> SUFFICES ASSUME NEW u \in Threads, handler[u].at = "key", handler[u].request.key = k
                   PROVE  FALSE
        BY DEF SavingKey
      <4>1. u # t /\ Ingesting(u)
        BY <1>1, SaverIngests
      <4> QED
        BY <1>2, <2>2, <3>1, <4>1, OnlyHolder
    <3>4. KeyedJobs(k) = {} /\ Cardinality(JobsOf(k)) <= crashes
      BY <3>2, <3>3 DEF IInv, KeySound, UploadType
    <3>5. JobsOf(k)' = JobsOf(k) \cup {Len(jobs) + 1}
      BY <1>4, <1>5, <2>2 DEF JobsOf
    <3>6. Cardinality(JobsOf(k)') <= crashes + 1
      <4>1. Len(jobs) + 1 \notin JobsOf(k)
        BY <1>5 DEF JobsOf
      <4>2. Cardinality(JobsOf(k) \cup {Len(jobs) + 1}) = Cardinality(JobsOf(k)) + 1
        BY <4>1, JobsFinite, FS_AddElement
      <4> QED
        BY <3>4, <3>5, <4>2, JobsFinite DEF IInv, UploadType
    <3>7. KeyedJobs(k)' = {}
      BY <1>4, <1>5, <3>4, <3>5 DEF KeyedJobs, JobsOf
    <3>8. SavingKey(k)'
      BY <1>6, <1>7, <2>2, <3>1 DEF SavingKey
    <3> QED
      BY <3>2, <3>6, <3>7, <3>8
  <2>3. ASSUME NEW k \in Keys, k # r.key
        PROVE  /\ keys'[k] = None =>
                    /\ KeyedJobs(k)' = {}
                    /\ Cardinality(JobsOf(k)') <= crashes' + (IF SavingKey(k)' THEN 1 ELSE 0)
               /\ keys'[k] # None =>
                    Cardinality(KeyedJobs(k)') <= 1 /\ Cardinality(JobsOf(k)') <= 1 + crashes'
    BY <1>1, <2>1, <2>3 DEF IInv, KeySound
  <2> QED
    BY <1>1, <2>2, <2>3 DEF KeySound
<1>11. TargetSound'
  <2>1. \A d \in Datasets : Claims(t, d) <=> d = r.dataset /\ new.status # "REJECTED"
    BY <1>1, <1>2, <1>3, <1>4, Apart DEF Claims
  <2>2. \A d \in Datasets : ~Claims(t, d)'
    BY <1>6, <1>7, Apart DEF Claims
  <2>3. \A u \in Threads \ {t} : \A d \in Datasets : Claims(u, d)' <=> Claims(u, d)
    BY <1>6 DEF Claims, Ingesting
  <2>4. \A d \in Datasets : Told(d)' <=> Told(d) \/ Claims(t, d)
    BY <1>4, <1>5, <2>1 DEF Told
  <2> QED
    BY <1>1, <2>2, <2>3, <2>4 DEF IInv, TargetSound
<1> QED
  BY <1>8, <1>9, <1>10, <1>11 DEF IInv

(* A recorded key has the one job that was saved last.                     *)
LEMMA SaveKeyKeeps ==
  ASSUME IInv, NEW t \in Threads, SaveKey(t)
  PROVE  IInv'
<1> DEFINE h == handler[t]
<1>1. /\ h.at = "key" /\ keys' = [keys EXCEPT ![h.request.key] = h.request.dataset]
      /\ jobs' = [jobs EXCEPT ![h.job].keyed = TRUE] /\ handler' = [handler EXCEPT ![t] = Idle]
      /\ UNCHANGED <<uploads, staged, reports, target, crashes>>
  BY DEF SaveKey
<1>2. KeySaveSound(h) /\ Ingesting(t)
  BY <1>1, HandlerIs, SaverIngests DEF IInv
<1>3. PICK r \in Requests, j \in 1..Len(jobs) : r = h.request /\ j = h.job
  BY <1>2 DEF KeySaveSound, KeySaves
<1>4. /\ r.key # NoKey /\ r.key \in Keys /\ r.dataset \in Datasets /\ r.dataset # None
      /\ jobs[j].request = r
  BY <1>2, <1>3, RequestParts, NoneApart DEF KeySaveSound
<1>5. jobs \in Seq(JobRecord) /\ jobs' = [jobs EXCEPT ![j].keyed = TRUE]
  BY <1>1, <1>3 DEF IInv, UploadType
<1>6. /\ jobs' \in Seq(JobRecord) /\ Len(jobs') = Len(jobs) /\ jobs'[j].keyed
      /\ \A i \in 1..Len(jobs) :
           /\ jobs'[i].request = jobs[i].request /\ jobs'[i].status = jobs[i].status
           /\ i # j => jobs'[i] = jobs[i]
  <2>1. \A i \in 1..Len(jobs) : jobs[i] \in JobRecord
    BY <1>5
  <2>2. [jobs[j] EXCEPT !.keyed = TRUE] \in JobRecord
    BY <2>1 DEF JobRecord
  <2>3. PICK kept \in JobRecord : kept = [jobs[j] EXCEPT !.keyed = TRUE]
    BY <2>2
  <2>4. jobs' = [jobs EXCEPT ![j] = kept]
    BY <1>5, <2>3
  <2>5. jobs' \in Seq(JobRecord) /\ Len(jobs') = Len(jobs) /\ jobs'[j] = kept
        /\ \A i \in 1..Len(jobs) : i # j => jobs'[i] = jobs[i]
    BY <1>3, <1>5, <2>4
  <2>6. jobs'[j].keyed /\ jobs'[j].request = jobs[j].request /\ jobs'[j].status = jobs[j].status
    BY <2>1, <2>3, <2>5 DEF JobRecord
  <2> QED
    BY <2>5, <2>6
<1>7. /\ handler' = [u \in Threads |-> handler'[u]] /\ handler'[t] = Idle
      /\ \A u \in Threads \ {t} : handler'[u] = handler[u]
  BY <1>1 DEF IInv, UploadType
<1>8. /\ keys' \in [Keys -> Datasets \cup {None}] /\ keys'[r.key] = r.dataset
      /\ \A k \in Keys : k # r.key => keys'[k] = keys[k]
  BY <1>1, <1>3, <1>4 DEF IInv, UploadType
<1>9. UploadType'
  <2>1. HandlerSound(handler[t])'
    BY <1>7 DEF HandlerSound
  <2>2. ASSUME NEW u \in Threads \ {t} PROVE HandlerSound(handler[u])'
    <3>1. HandlerSound(handler[u])
      BY DEF IInv, UploadType
    <3>2. CallSound(handler[u]) => CallSound(handler[u])'
      BY <1>1, <1>7 DEF CallSound
    <3>3. AdvanceSound(handler[u]) => AdvanceSound(handler[u])'
      BY <1>1, <1>7 DEF AdvanceSound
    <3>4. KeySaveSound(handler[u]) => KeySaveSound(handler[u])'
      BY <1>6, <1>7 DEF KeySaveSound
    <3> QED
      BY <1>7, <3>1, <3>2, <3>3, <3>4 DEF HandlerSound
  <2> QED
    BY <1>1, <1>6, <1>7, <1>8, <2>1, <2>2 DEF IInv, UploadType, StoresType
<1>10. ASSUME NEW u \in Threads, Ingesting(u)' PROVE u # t /\ Ingesting(u) /\ handler[u].request.key = NoKey
  <2>1. u # t
    BY <1>7, <1>10, Apart DEF Ingesting
  <2>2. Ingesting(u)
    BY <1>7, <1>10, <2>1 DEF Ingesting
  <2> QED
    BY <1>2, <1>3, <1>4, <2>1, <2>2, OnlyHolder
<1>11. LockSound'
  BY <1>7, <1>10 DEF LockSound, HoldsLock
<1>12. KeySound'
  <2>1. \A k : JobsOf(k)' = JobsOf(k)
    BY <1>6 DEF JobsOf
  <2>2. keys[r.key] = None
    BY <1>2, <1>3, <1>4 DEF IInv, LockSound, HoldsLock
  <2>3. KeyedJobs(r.key) = {} /\ Cardinality(JobsOf(r.key)) <= 1 + crashes
    BY <1>4, <2>2, JobsFinite DEF IInv, KeySound, UploadType
  <2>4. KeyedJobs(r.key)' = {j}
    <3>1. j \in JobsOf(r.key)
      BY <1>3, <1>4 DEF JobsOf
    <3> QED
      BY <1>6, <2>1, <2>3, <3>1 DEF KeyedJobs, JobsOf
  <2>5. Cardinality(KeyedJobs(r.key)') = 1
    BY <2>4, FS_Singleton
  <2>6. ASSUME NEW k \in Keys, k # r.key
        PROVE  KeyedJobs(k)' = KeyedJobs(k) /\ (SavingKey(k)' <=> SavingKey(k))
    <3>1. KeyedJobs(k)' = KeyedJobs(k)
      BY <1>4, <1>6, <2>1, <2>6 DEF KeyedJobs, JobsOf
    <3>2. ~(handler'[t].at = "key") /\ handler[t].request.key # k
      BY <1>3, <1>7, <2>6, Apart
    <3> QED
      BY <1>7, <3>1, <3>2 DEF SavingKey
  <2>7. ASSUME NEW k \in Keys, k # r.key
        PROVE  /\ keys'[k] = None =>
                    /\ KeyedJobs(k)' = {}
                    /\ Cardinality(JobsOf(k)') <= crashes' + (IF SavingKey(k)' THEN 1 ELSE 0)
               /\ keys'[k] # None =>
                    Cardinality(KeyedJobs(k)') <= 1 /\ Cardinality(JobsOf(k)') <= 1 + crashes'
    BY <1>1, <1>8, <2>1, <2>6, <2>7 DEF IInv, KeySound
  <2>8. /\ keys'[r.key] # None
        /\ Cardinality(KeyedJobs(r.key)') <= 1 /\ Cardinality(JobsOf(r.key)') <= 1 + crashes'
    BY <1>1, <1>4, <1>8, <2>1, <2>3, <2>5
  <2> QED
    BY <2>7, <2>8 DEF KeySound
<1>13. TargetSound'
  <2>1. \A d \in Datasets : ~Claims(t, d) /\ ~Claims(t, d)'
    BY <1>1, <1>7, Apart DEF Claims
  <2>2. \A u \in Threads \ {t} : \A d \in Datasets : Claims(u, d)' <=> Claims(u, d)
    BY <1>7 DEF Claims, Ingesting
  <2>3. \A d \in Datasets : Told(d)' <=> Told(d)
    BY <1>6 DEF Told
  <2> QED
    BY <1>1, <2>1, <2>2, <2>3 DEF IInv, TargetSound
<1> QED
  BY <1>9, <1>11, <1>12, <1>13 DEF IInv

(* A death may leave a saved job without its key.                          *)
LEMMA CrashKeeps ==
  ASSUME IInv, Crash
  PROVE  IInv'
<1>1. /\ crashes' = crashes + 1 /\ handler' = [t \in Threads |-> Idle]
      /\ UNCHANGED <<uploads, staged, reports, target, jobs, keys>>
  BY DEF Crash
<1>2. /\ \A k : JobsOf(k)' = JobsOf(k) /\ KeyedJobs(k)' = KeyedJobs(k)
      /\ \A d : Told(d)' <=> Told(d)
      /\ \A t \in Threads : handler'[t] = Idle
  BY <1>1 DEF JobsOf, KeyedJobs, Told
<1>3. \A t \in Threads : ~Ingesting(t)' /\ handler'[t].at # "key" /\ \A d : ~Claims(t, d)'
  BY <1>2, Apart DEF Ingesting, Claims
<1>4. UploadType'
  BY <1>1, <1>2 DEF IInv, UploadType, StoresType, HandlerSound
<1>5. LockSound'
  BY <1>3 DEF LockSound, HoldsLock
<1>6. KeySound'
  <2>1. crashes \in Nat /\ \A k : ~SavingKey(k)'
    BY <1>3 DEF IInv, UploadType, SavingKey
  <2>2. ASSUME NEW k \in Keys
        PROVE  /\ keys[k] = None => KeyedJobs(k) = {} /\ Cardinality(JobsOf(k)) <= crashes + 1
               /\ keys[k] # None =>
                    Cardinality(KeyedJobs(k)) <= 1 /\ Cardinality(JobsOf(k)) <= 1 + crashes
    BY <2>1, JobsFinite DEF IInv, KeySound
  <2>3. \A k \in Keys : Cardinality(JobsOf(k)) \in Nat
    BY JobsFinite
  <2> QED
    BY <1>1, <1>2, <2>1, <2>2, <2>3 DEF KeySound
<1>7. TargetSound'
  BY <1>1, <1>2, <1>3 DEF IInv, TargetSound, UploadType
<1> QED
  BY <1>4, <1>5, <1>6, <1>7 DEF IInv

LEMMA StutterKeeps ==
  ASSUME IInv, UNCHANGED vars
  PROVE  IInv'
<1>1. UNCHANGED <<uploads, staged, reports, target, jobs, keys, lock, handler, crashes>>
  BY DEF vars
<1> QED
  BY <1>1, StoresStay, StoresStepKeeps

LEMMA NextKeeps ==
  ASSUME IInv, [Next]_vars
  PROVE  IInv'
<1>1. ASSUME NEW u \in Uploads, NEW checksum \in Contents \cup {None}, InitiateUpload(u, checksum)
      PROVE  IInv'
  BY <1>1, InitiateUploadKeeps
<1>2. ASSUME NEW t \in Threads, NEW u \in Uploads, NEW method \in {"receive", "validate", "cancel"},
             NEW content \in Contents \cup {None}, CallUpload(t, u, method, content)
      PROVE  IInv'
  BY <1>2, CallUploadKeeps DEF EndpointMethods
<1>3. ASSUME NEW t \in Threads, NEW r \in Requests, Ingest(t, r) PROVE IInv'
  BY <1>3, IngestKeeps
<1>4. ASSUME NEW d \in Datasets, CertifyDataset(d) PROVE IInv'
  BY <1>4, CertifyDatasetKeeps
<1>5. ASSUME NEW t \in Threads, UploadMethod(t) PROVE IInv'
  BY <1>5, LoadUploadKeeps, FileKeeps, SaveUploadKeeps DEF UploadMethod
<1>6. ASSUME NEW t \in Threads, IngestStep(t) PROVE IInv'
  BY <1>6, GateKeeps, AutoCertifyKeeps, ResolveRecordsKeeps, PersistKeeps, AdvanceKeeps,
     SaveJobKeeps, SaveKeyKeeps
  DEF IngestStep
<1>7. CASE Crash
  BY <1>7, CrashKeeps
<1>8. CASE UNCHANGED vars
  BY <1>8, StutterKeeps
<1> QED
  BY <1>1, <1>2, <1>3, <1>4, <1>5, <1>6, <1>7, <1>8 DEF Next

(* In every reachable state of UploadService (upload/service.py) and of    *)
(* DatabaseRouterService.ingest (database_targets/service.py): a request   *)
(* with a key holds the lock and its key is not recorded, a method goes on *)
(* with a job in a status it accepts, the jobs of a key are counted by the *)
(* deaths, and what was persisted is told of by a job or a thread.         *)
THEOREM UploadIInv == Spec => []IInv
<1>1. Init => IInv
  BY InitIInv
<1>2. IInv /\ [Next]_vars => IInv'
  BY NextKeeps
<1> QED
  BY <1>1, <1>2, PTL DEF Spec

(* ingest (database_targets/service.py): however requests with one key are *)
(* repeated, retried and interleaved, by any number of threads, the key is *)
(* recorded with one job, and only deaths between saving a job and saving  *)
(* its key add others.                                                     *)
THEOREM KeysIngestOnce == Spec => []KeyIngestsOnce
<1>1. IInv => KeyIngestsOnce
  <2> SUFFICES ASSUME IInv, NEW k \in Keys
               PROVE  Cardinality(KeyedJobs(k)) <= 1 /\ Cardinality(JobsOf(k)) <= 1 + crashes
    BY DEF KeyIngestsOnce, KeyedJobs, JobsOf
  <2>1. Cardinality({}) = 0 /\ crashes \in Nat /\ Cardinality(JobsOf(k)) \in Nat
    BY FS_EmptySet, JobsFinite DEF IInv, UploadType
  <2> QED
    BY <2>1 DEF IInv, KeySound
<1>2. Spec => []IInv
  BY UploadIInv
<1> QED
  BY <1>1, <1>2, PTL

(* ingest: a job that was not rejected has its records in the target, and  *)
(* what the target holds has such a job, an ingestion under way, or a      *)
(* death to explain it.                                                    *)
THEOREM TargetIsAccountedFor == Spec => []JobsAccountForTarget
<1>1. IInv => JobsAccountForTarget
  <2> SUFFICES ASSUME IInv
               PROVE  JobsAccountForTarget
    OBVIOUS
  <2>1. \A i \in 1..Len(jobs) : jobs[i].request \in Requests /\ jobs[i].request.dataset \in Datasets
    <3>1. \A i \in 1..Len(jobs) : jobs[i] \in JobRecord
      BY DEF IInv, UploadType
    <3> QED
      BY <3>1, RequestParts DEF JobRecord
  <2>2. \A t \in Threads : \A d : Claims(t, d) => t \in InProgress /\ handler[t].request.dataset = d
    BY Apart DEF Claims, Ingesting, InProgress
  <2> QED
    BY <2>1, <2>2 DEF IInv, TargetSound, Told, JobsAccountForTarget
<1>2. Spec => []IInv
  BY UploadIInv
<1> QED
  BY <1>1, <1>2, PTL

(* UploadService: no method, called by an endpoint or by ingest, moves an  *)
(* upload off UPLOAD_LIFECYCLE_GRAPH by itself; a step that does so saves  *)
(* a job that changed since the method had loaded it.                      *)
THEOREM OffLifecycleIsStale == Spec => OffLifecycleOnlyIfStale
<1>1. IInv /\ [Next]_vars =>
        \A u \in Uploads :
          uploads[u] # None /\ uploads'[u].status # uploads[u].status =>
            \/ LifecycleStep(uploads[u].status, uploads'[u].status)
            \/ \E t \in Threads : /\ handler[t].at = "save" /\ handler'[t].at # "save"
                                  /\ handler[t].upload = u /\ handler[t].job # uploads[u]
  <2> DEFINE Stale(u) == \E t \in Threads : /\ handler[t].at = "save" /\ handler'[t].at # "save"
                                            /\ handler[t].upload = u /\ handler[t].job # uploads[u]
             Moves(u) == uploads[u] # None /\ uploads'[u].status # uploads[u].status
  <2> SUFFICES ASSUME IInv, [Next]_vars, NEW u \in Uploads, Moves(u)
               PROVE  LifecycleStep(uploads[u].status, uploads'[u].status) \/ Stale(u)
    OBVIOUS
  <2>1. CASE \E v \in Uploads, checksum \in Contents \cup {None} : InitiateUpload(v, checksum)
    BY <2>1 DEF InitiateUpload, IInv, UploadType, StoresType
  <2>2. CASE \E t \in Threads : SaveUpload(t)
    <3>1. PICK t \in Threads : SaveUpload(t)
      BY <2>2
    <3> DEFINE h == handler[t]
    <3>2. h.at = "save" /\ uploads' = [uploads EXCEPT ![h.upload] = Updated(h)]
          /\ handler' = [handler EXCEPT ![t] = AfterReturn(h)]
      BY <3>1 DEF SaveUpload
    <3>3. CallSound(h)
      BY <3>2, HandlerIs DEF IInv, AtCall
    <3>4. h.upload = u /\ uploads'[u] = Updated(h)
      BY <3>2 DEF IInv, UploadType, StoresType
    <3>5. LifecycleStep(h.job.status, Updated(h).status) \/ Updated(h).status = h.job.status
      BY <3>2, <3>3, UpdatedSound
    <3>6. handler'[t].at # "save"
      <4>1. handler'[t] = AfterReturn(h)
        BY <3>2 DEF IInv, UploadType
      <4>2. h.request = None => h.method \notin {"mark_ingested", "link"}
        BY <3>3 DEF CallSound, EndpointMethods
      <4> QED
        BY <4>1, <4>2, Apart DEF AfterReturn, Call
    <3>7. CASE h.job = uploads[u]
      BY <3>4, <3>5, <3>7
    <3>8. CASE h.job # uploads[u]
      BY <3>2, <3>4, <3>6, <3>8
    <3> QED
      BY <3>7, <3>8
  <2>3. CASE UNCHANGED uploads
    BY <2>3
  <2> QED
    BY <2>1, <2>2, <2>3
    DEF Next, vars, CallUpload, Ingest, CertifyDataset, UploadMethod, IngestStep, LoadUpload,
        StageFile, CheckFile, RemoveFile, Gate, AutoCertify, ResolveRecords, Persist, Advance,
        SaveJob, SaveKey, Crash
<1>2. IInv /\ [Next]_vars =>
        [\A u \in Uploads :
          uploads[u] # None /\ uploads'[u].status # uploads[u].status =>
            \/ LifecycleStep(uploads[u].status, uploads'[u].status)
            \/ \E t \in Threads : /\ handler[t].at = "save" /\ handler'[t].at # "save"
                                  /\ handler[t].upload = u /\ handler[t].job # uploads[u]]_vars
  BY <1>1
<1>3. Spec => []IInv
  BY UploadIInv
<1> QED
  BY <1>2, <1>3, PTL DEF Spec, OffLifecycleOnlyIfStale
=============================================================================
