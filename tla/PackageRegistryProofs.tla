----------------------- MODULE PackageRegistryProofs -----------------------
(***************************************************************************)
(* Proofs about PackageRegistry for any number of threads, packages and    *)
(* datasets; of the refinement of Lifecycle by one writer; and about       *)
(* Certification and Retrieval with it, for requests one at a time.        *)
(***************************************************************************)
EXTENDS Retrieval, TLAPS

(* A record whose history is a complete walk to its status.                *)
Walks(package) == ReplayConsistent(package) /\ AuditComplete(package)

(* A record that entered Certified only past the gate.                     *)
Cleared(package, reports) ==
  (\E i \in 1..Len(package.history) : package.history[i].to_status \in Certified)
    => GateOpen(reports[package.dataset_id])

(* The inductive invariant: what holds of the files holds of the records   *)
(* the threads are about to save, except that a record still at the gate   *)
(* is not cleared.                                                         *)
FilesSound ==
  \A p \in Packages :
    Readable(registryStore[p]) => Walks(registryStore[p]) /\ Cleared(registryStore[p], reportStore)

JobsSound ==
  \A t \in Threads :
    job[t] # Idle =>
      /\ Walks(job[t].package)
      /\ job[t].at \in {"open", "write"} => Cleared(job[t].package, reportStore)

IInv == TypeOK /\ FilesSound /\ JobsSound

-----------------------------------------------------------------------------

(* The record register() builds is well-typed and a complete walk.         *)
LEMMA NewPackageWalks ==
  ASSUME NEW d \in Datasets
  PROVE  /\ NewPackage(d) \in PackageRecord
         /\ Walks(NewPackage(d))
         /\ \A i \in 1..Len(NewPackage(d).history) :
              NewPackage(d).history[i].to_status \notin Certified
  BY DEF NewPackage, PackageRecord, Walks, ReplayConsistent, AuditComplete, Root,
         PackageStatus, Transition, Certified

(* Moving a package along an edge of the graph keeps its record well-typed *)
(* and its history a complete walk, and appends exactly one hop to it.     *)
LEMMA MovedWalks ==
  ASSUME NEW package \in PackageRecord, Walks(package),
         NEW s \in LifecycleGraph[package.status]
  PROVE  /\ Moved(package, s) \in PackageRecord
         /\ Walks(Moved(package, s))
         /\ Moved(package, s).dataset_id = package.dataset_id
         /\ Len(Moved(package, s).history) = Len(package.history) + 1
         /\ \A i \in 1..Len(package.history) :
              Moved(package, s).history[i] = package.history[i]
         /\ Moved(package, s).history[Len(package.history) + 1].to_status = s
<1> DEFINE hop == [from_status |-> package.status, to_status |-> s]
           h == package.history
           m == Moved(package, s)
<1>1. s \in PackageStatus /\ package.status \in PackageStatus
  BY DEF PackageRecord, LifecycleGraph, PackageStatus
<1>2. hop \in Transition
  BY <1>1 DEF Transition
<1>3. /\ m = [dataset_id |-> package.dataset_id, status |-> s, history |-> Append(h, hop)]
      /\ m.dataset_id = package.dataset_id
      /\ m.status = s
      /\ m.history = Append(h, hop)
  BY DEF Moved
<1>4. h \in Seq(Transition) /\ h # << >>
  BY DEF PackageRecord, Walks, ReplayConsistent
<1>5. /\ Append(h, hop) \in Seq(Transition)
      /\ Len(Append(h, hop)) = Len(h) + 1
      /\ \A i \in 1..Len(h) : Append(h, hop)[i] = h[i]
      /\ Append(h, hop)[Len(h) + 1] = hop
  BY <1>2, <1>4
<1>6. m \in PackageRecord
  BY <1>1, <1>3, <1>5 DEF PackageRecord
<1>7. Len(h) \in Nat /\ Len(h) > 0
  BY <1>4
<1>8. ReplayConsistent(m)
  <2>1. m.history # << >>
    BY <1>3, <1>5, <1>7
  <2>2. ASSUME NEW i \in 2..Len(m.history)
        PROVE  m.history[i].to_status \in LifecycleGraph[m.history[i - 1].to_status]
    <3>1. CASE i \in 2..Len(h)
      <4>1. m.history[i] = h[i] /\ m.history[i - 1] = h[i - 1]
        BY <3>1, <1>3, <1>5, <1>7
      <4> QED
        BY <3>1, <4>1 DEF Walks, ReplayConsistent
    <3>2. CASE i = Len(h) + 1
      BY <3>2, <1>3, <1>5, <1>7 DEF Walks, ReplayConsistent
    <3> QED
      BY <3>1, <3>2, <1>3, <1>5, <1>7
  <2>3. m.history[Len(m.history)].to_status = m.status
    BY <1>3, <1>5
  <2> QED
    BY <2>1, <2>2, <2>3 DEF ReplayConsistent
<1>9. AuditComplete(m)
  <2>1. m.history # << >>
    BY <1>3, <1>5, <1>7
  <2>2. ASSUME NEW i \in 1..Len(m.history)
        PROVE  (m.history[i].from_status = "NONE") <=> (i = 1)
    <3>1. CASE i \in 1..Len(h)
      BY <3>1, <1>3, <1>5, <1>7 DEF Walks, AuditComplete
    <3>2. CASE i = Len(h) + 1
      BY <3>2, <1>1, <1>3, <1>5, <1>7 DEF PackageStatus
    <3> QED
      BY <3>1, <3>2, <1>3, <1>5, <1>7
  <2> QED
    BY <2>1, <2>2 DEF AuditComplete
<1> QED
  BY <1>3, <1>5, <1>6, <1>8, <1>9 DEF Walks

-----------------------------------------------------------------------------

(* A thread that is not idle holds a well-typed record of some package.    *)
LEMMA BusyJob ==
  ASSUME TypeOK, NEW t \in Threads, job[t] # Idle
  PROVE  /\ job[t] \in [at : {"gate", "open", "write"}, package_id : Packages,
                        package : PackageRecord]
         /\ job[t].package_id \in Packages
         /\ job[t].package \in PackageRecord
         /\ job[t].package.dataset_id \in Datasets
  BY DEF TypeOK, Jobs, PackageRecord

(* Before anything is stored nothing can be wrong.                         *)
LEMMA InitIInv == Init => IInv
<1> SUFFICES ASSUME Init PROVE IInv
  OBVIOUS
<1>1. TypeOK
  BY DEF Init, TypeOK, Marks, Jobs
<1>2. FilesSound
  BY DEF Init, FilesSound, Readable, Marks
<1>3. JobsSound
  BY DEF Init, JobsSound
<1> QED
  BY <1>1, <1>2, <1>3 DEF IInv

(* register() prepares a sound record.                                     *)
LEMMA RegisterIInv ==
  ASSUME IInv, NEW t \in Threads, NEW p \in Packages, NEW d \in Datasets,
         LoadForRegister(t, p, d)
  PROVE  IInv'
<1> DEFINE new == NewPackage(d)
<1>1. /\ new \in PackageRecord
      /\ Walks(new)
      /\ \A i \in 1..Len(new.history) : new.history[i].to_status \notin Certified
  BY NewPackageWalks
<1>2. Busy("open", p, new) \in Jobs
  BY <1>1 DEF Busy, Jobs
<1>3. TypeOK'
  BY <1>2 DEF IInv, TypeOK, LoadForRegister
<1>4. FilesSound'
  BY DEF IInv, FilesSound, LoadForRegister, Cleared, Walks
<1>5. JobsSound'
  <2> SUFFICES ASSUME NEW u \in Threads, job'[u] # Idle
               PROVE  /\ Walks(job'[u].package)
                      /\ job'[u].at \in {"open", "write"} => Cleared(job'[u].package, reportStore')
    BY DEF JobsSound, Walks
  <2>1. CASE u = t
    <3>1. job'[u].package = new
      BY <2>1 DEF LoadForRegister, Busy, IInv, TypeOK
    <3> QED
      BY <3>1, <1>1 DEF Cleared
  <2>2. CASE u # t
    <3>1. job'[u] = job[u] /\ reportStore' = reportStore
      BY <2>2 DEF LoadForRegister, IInv, TypeOK
    <3> QED
      BY <3>1 DEF IInv, JobsSound, Cleared
  <2> QED
    BY <2>1, <2>2
<1> QED
  BY <1>3, <1>4, <1>5 DEF IInv

(* promote() prepares a sound record, which must pass the gate if its new  *)
(* status is a certified one.                                              *)
LEMMA PromoteIInv ==
  ASSUME IInv, NEW t \in Threads, NEW p \in Packages, NEW s \in PackageStatus,
         LoadForPromote(t, p, s)
  PROVE  IInv'
<1> DEFINE old == registryStore[p]
           new == Moved(old, s)
           step == IF s \in Certified THEN "gate" ELSE "open"
<1>1. /\ old \in PackageRecord
      /\ Walks(old)
      /\ Cleared(old, reportStore)
      /\ s \in LifecycleGraph[old.status]
  BY DEF IInv, TypeOK, FilesSound, LoadForPromote, Readable
<1>2. /\ new \in PackageRecord
      /\ Walks(new)
      /\ new.dataset_id = old.dataset_id
      /\ Len(new.history) = Len(old.history) + 1
      /\ \A i \in 1..Len(old.history) : new.history[i] = old.history[i]
      /\ new.history[Len(old.history) + 1].to_status = s
  BY <1>1, MovedWalks
<1>3. s \notin Certified => Cleared(new, reportStore)
  <2> SUFFICES ASSUME s \notin Certified,
                      NEW i \in 1..Len(new.history), new.history[i].to_status \in Certified
               PROVE  GateOpen(reportStore[new.dataset_id])
    BY DEF Cleared
  <2>1. i \in 1..Len(old.history)
    BY <1>1, <1>2 DEF PackageRecord
  <2>2. old.history[i].to_status \in Certified
    BY <1>2, <2>1
  <2> QED
    BY <1>1, <1>2, <2>1, <2>2 DEF Cleared
<1>4. Busy(step, p, new) \in Jobs
  BY <1>2 DEF Busy, Jobs
<1>5. job' = [job EXCEPT ![t] = Busy(step, p, new)]
  BY DEF LoadForPromote
<1>6. TypeOK'
  BY <1>4, <1>5 DEF IInv, TypeOK, LoadForPromote
<1>7. FilesSound'
  BY DEF IInv, FilesSound, LoadForPromote, Cleared, Walks
<1>8. JobsSound'
  <2> SUFFICES ASSUME NEW u \in Threads, job'[u] # Idle
               PROVE  /\ Walks(job'[u].package)
                      /\ job'[u].at \in {"open", "write"} => Cleared(job'[u].package, reportStore')
    BY DEF JobsSound, Walks
  <2>1. CASE u = t
    <3>1. job'[u].package = new /\ job'[u].at = step /\ reportStore' = reportStore
      BY <2>1, <1>5 DEF LoadForPromote, Busy, IInv, TypeOK
    <3> QED
      BY <3>1, <1>2, <1>3 DEF Cleared
  <2>2. CASE u # t
    <3>1. job'[u] = job[u] /\ reportStore' = reportStore
      BY <2>2, <1>5 DEF LoadForPromote, IInv, TypeOK
    <3> QED
      BY <3>1 DEF IInv, JobsSound, Cleared
  <2> QED
    BY <2>1, <2>2
<1> QED
  BY <1>6, <1>7, <1>8 DEF IInv

(* A record that passes the gate is cleared.                               *)
LEMMA PassGateIInv ==
  ASSUME IInv, NEW t \in Threads, PassGate(t)
  PROVE  IInv'
<1>1. job[t] # Idle
  BY DEF PassGate, Idle
<1>2. job' = [job EXCEPT ![t].at = "open"] /\ reportStore' = reportStore
  BY DEF PassGate
<1>3. /\ job'[t].package = job[t].package
      /\ job'[t] \in Jobs
  BY <1>1, <1>2, BusyJob DEF IInv, TypeOK, Jobs
<1>4. TypeOK'
  BY <1>2, <1>3 DEF IInv, TypeOK, PassGate
<1>5. FilesSound'
  BY DEF IInv, FilesSound, PassGate, Cleared, Walks
<1>6. JobsSound'
  <2> SUFFICES ASSUME NEW u \in Threads, job'[u] # Idle
               PROVE  /\ Walks(job'[u].package)
                      /\ job'[u].at \in {"open", "write"} => Cleared(job'[u].package, reportStore')
    BY DEF JobsSound, Walks
  <2>1. CASE u = t
    BY <2>1, <1>1, <1>2, <1>3 DEF PassGate, IInv, JobsSound, Cleared
  <2>2. CASE u # t
    <3>1. job'[u] = job[u]
      BY <2>2, <1>2 DEF IInv, TypeOK
    <3> QED
      BY <3>1, <1>2 DEF IInv, JobsSound, Cleared
  <2> QED
    BY <2>1, <2>2
<1> QED
  BY <1>4, <1>5, <1>6 DEF IInv

(* Giving up leaves the other threads and the files as they were.          *)
LEMMA StopAtGateIInv ==
  ASSUME IInv, NEW t \in Threads, StopAtGate(t)
  PROVE  IInv'
<1>1. TypeOK'
  BY DEF IInv, TypeOK, StopAtGate, Jobs
<1>2. FilesSound'
  BY DEF IInv, FilesSound, StopAtGate, Cleared, Walks
<1>3. JobsSound'
  BY DEF IInv, TypeOK, JobsSound, StopAtGate, Cleared, Walks
<1> QED
  BY <1>1, <1>2, <1>3 DEF IInv

(* Truncating a file takes a record away and changes none.                 *)
LEMMA OpenRecordIInv ==
  ASSUME IInv, NEW t \in Threads, OpenRecord(t)
  PROVE  IInv'
<1>1. job[t] # Idle
  BY DEF OpenRecord, Idle
<1>2. /\ job' = [job EXCEPT ![t].at = "write"]
      /\ reportStore' = reportStore
      /\ registryStore' = [registryStore EXCEPT ![job[t].package_id] = Partial]
  BY DEF OpenRecord
<1>3. /\ job'[t].package = job[t].package
      /\ job'[t] \in Jobs
      /\ job[t].package_id \in Packages
  BY <1>1, <1>2, BusyJob DEF IInv, TypeOK, Jobs
<1>4. TypeOK'
  BY <1>2, <1>3 DEF IInv, TypeOK, OpenRecord, Marks
<1>5. FilesSound'
  <2> SUFFICES ASSUME NEW p \in Packages, Readable(registryStore'[p])
               PROVE  Walks(registryStore'[p]) /\ Cleared(registryStore'[p], reportStore')
    BY DEF FilesSound, Readable, Walks
  <2>1. registryStore'[p] = registryStore[p]
    BY <1>2, <1>3 DEF IInv, TypeOK, Readable, Marks
  <2> QED
    BY <1>2, <2>1 DEF IInv, FilesSound, Cleared
<1>6. JobsSound'
  <2> SUFFICES ASSUME NEW u \in Threads, job'[u] # Idle
               PROVE  /\ Walks(job'[u].package)
                      /\ job'[u].at \in {"open", "write"} => Cleared(job'[u].package, reportStore')
    BY DEF JobsSound, Walks
  <2>1. CASE u = t
    BY <2>1, <1>1, <1>2, <1>3 DEF OpenRecord, IInv, JobsSound, Cleared
  <2>2. CASE u # t
    <3>1. job'[u] = job[u]
      BY <2>2, <1>2 DEF IInv, TypeOK
    <3> QED
      BY <3>1, <1>2 DEF IInv, JobsSound, Cleared
  <2> QED
    BY <2>1, <2>2
<1> QED
  BY <1>4, <1>5, <1>6 DEF IInv

(* A write leaves the thread's own sound record, or one that does not      *)
(* decode.                                                                 *)
LEMMA WriteRecordIInv ==
  ASSUME IInv, NEW t \in Threads, WriteRecord(t)
  PROVE  IInv'
<1>1. job[t] # Idle
  BY DEF WriteRecord, Idle
<1> DEFINE k == job[t].package_id
           rec == job[t].package
<1>2. k \in Packages /\ rec \in PackageRecord /\ Walks(rec) /\ Cleared(rec, reportStore)
  BY <1>1, BusyJob DEF IInv, JobsSound, WriteRecord
<1>3. PICK contents \in Overwritten(registryStore[k], rec) :
        /\ registryStore' = [registryStore EXCEPT ![k] = contents]
        /\ committed' = [committed EXCEPT ![k] = IF Readable(contents) THEN contents ELSE @]
  BY DEF WriteRecord
<1>4. contents \in Marks \/ contents = rec
  BY <1>3 DEF Overwritten, Marks
<1>5. job' = [job EXCEPT ![t] = Idle] /\ reportStore' = reportStore /\ cut' = cut
  BY DEF WriteRecord
<1>6. TypeOK'
  BY <1>2, <1>3, <1>4, <1>5 DEF IInv, TypeOK, Jobs, Readable
<1>7. FilesSound'
  <2> SUFFICES ASSUME NEW p \in Packages, Readable(registryStore'[p])
               PROVE  Walks(registryStore'[p]) /\ Cleared(registryStore'[p], reportStore')
    BY DEF FilesSound, Readable, Walks
  <2>1. registryStore'[p] = rec \/ registryStore'[p] = registryStore[p]
    BY <1>2, <1>3, <1>4 DEF IInv, TypeOK, Readable
  <2> QED
    BY <1>2, <1>5, <2>1 DEF IInv, FilesSound, Cleared
<1>8. JobsSound'
  BY <1>5 DEF IInv, TypeOK, JobsSound, Cleared, Walks
<1> QED
  BY <1>6, <1>7, <1>8 DEF IInv

(* A crash changes no file.                                                *)
LEMMA CrashIInv ==
  ASSUME IInv, Crash
  PROVE  IInv'
<1>1. TypeOK'
  BY DEF IInv, TypeOK, Crash, Jobs
<1>2. FilesSound'
  BY DEF IInv, FilesSound, Crash, Cleared, Walks
<1>3. JobsSound'
  BY DEF JobsSound, Crash
<1> QED
  BY <1>1, <1>2, <1>3 DEF IInv

(* Every step of the registry keeps the inductive invariant.               *)
LEMMA NextIInv == IInv /\ [Next]_registryVars => IInv'
<1> SUFFICES ASSUME IInv, [Next]_registryVars PROVE IInv'
  OBVIOUS
<1>1. CASE UNCHANGED registryVars
  BY <1>1 DEF IInv, TypeOK, FilesSound, JobsSound, Cleared, Walks, registryVars
<1>2. CASE Crash
  BY <1>2, CrashIInv
<1>3. ASSUME NEW t \in Threads, Proceed(t) PROVE IInv'
  BY <1>3, PassGateIInv, StopAtGateIInv, OpenRecordIInv, WriteRecordIInv DEF Proceed
<1>4. ASSUME NEW t \in Threads, Request(t) PROVE IInv'
  <2>1. PICK p \in Packages :
          \/ \E d \in Datasets : LoadForRegister(t, p, d)
          \/ RefuseRegister(t, p)
          \/ \E s \in PackageStatus : LoadForPromote(t, p, s) \/ RefusePromote(t, p, s)
    BY <1>4 DEF Request
  <2>2. CASE \E d \in Datasets : LoadForRegister(t, p, d)
    BY <2>2, RegisterIInv
  <2>3. CASE \E s \in PackageStatus : LoadForPromote(t, p, s)
    BY <2>3, PromoteIInv
  <2>4. CASE RefuseRegister(t, p) \/ \E s \in PackageStatus : RefusePromote(t, p, s)
    BY <2>4, <1>1 DEF RefuseRegister, RefusePromote
  <2> QED
    BY <2>1, <2>2, <2>3, <2>4
<1> QED
  BY <1>1, <1>2, <1>3, <1>4 DEF Next

(* The inductive invariant holds in every reachable state.                 *)
THEOREM SpecIInv == Spec => []IInv
  BY InitIInv, NextIInv, PTL DEF Spec

(* Files, jobs and history variables keep their types.                     *)
THEOREM TypeCorrect == Spec => []TypeOK
<1>1. IInv => TypeOK
  BY DEF IInv
<1> QED
  BY <1>1, SpecIInv, PTL

(* PackageRegistryService.replay and audit_completeness succeed on every   *)
(* record that decodes, for any number of racing requests and crashes.     *)
THEOREM HistoriesReplay == Spec => []StoredHistoriesReplay
<1>1. IInv => StoredHistoriesReplay
  BY DEF IInv, FilesSound, StoredHistoriesReplay, Walks
<1> QED
  BY <1>1, SpecIInv, PTL

(* No race carries a package of a rejected dataset past promote()'s gate   *)
(* while the reports stand.                                                *)
THEOREM CertificationGate == Spec => []CertifiedPassedTheGate
<1>1. IInv => CertifiedPassedTheGate
  BY DEF IInv, FilesSound, CertifiedPassedTheGate, Cleared
<1> QED
  BY <1>1, SpecIInv, PTL

-----------------------------------------------------------------------------
(***************************************************************************)
(* What the package registry keeps when requests come one at a time: one   *)
(* thread, any number of packages and datasets, crashes included.  Then    *)
(* the registry implements Lifecycle, and a save that was acknowledged     *)
(* stays readable.  Both fail with two threads.                            *)
(***************************************************************************)

(* A record one request away from the saved one.                           *)
Follows(old, new) ==
  \/ old = Absent /\ \E d \in Datasets : new = NewPackage(d)
  \/ old # Absent /\ \E s \in LifecycleGraph[old.status] : new = Moved(old, s)

(* A file holds the saved record, unless it is truncated; it is truncated  *)
(* only by the save under way or by one the process died in.               *)
FilesFaithful ==
  \A p \in Packages :
    \/ registryStore[p] = committed[p]
    \/ /\ registryStore[p] = Partial
       /\ p \in cut \/ \E t \in Threads : job[t].at = "write" /\ job[t].package_id = p

(* A thread's record still follows the saved one when the thread saves it. *)
JobsCurrent ==
  \A t \in Threads :
    job[t] # Idle =>
      LET p == job[t].package_id IN
        /\ Follows(committed[p], job[t].package)
        /\ job[t].at \in {"gate", "open"} => registryStore[p] = committed[p]
        /\ job[t].at = "write" => registryStore[p] = Partial

OneWriterInv == IInv /\ FilesFaithful /\ JobsCurrent

(* Nothing is stored and nobody is busy.                                   *)
LEMMA OneWriterInit == Init => OneWriterInv
<1> SUFFICES ASSUME Init PROVE OneWriterInv
  OBVIOUS
<1>1. FilesFaithful /\ JobsCurrent
  BY DEF Init, FilesFaithful, JobsCurrent
<1> QED
  BY <1>1, InitIInv DEF OneWriterInv

(* A readable file holds the saved record.                                 *)
LEMMA ReadableIsSaved ==
  ASSUME OneWriterInv, NEW p \in Packages, registryStore[p] # Partial
  PROVE  registryStore[p] = committed[p]
  BY DEF OneWriterInv, FilesFaithful

(* The only thread's save writes exactly its record.                       *)
LEMMA OneWriterWrites ==
  ASSUME OneWriterInv, NEW t \in Threads, WriteRecord(t)
  PROVE  /\ job[t].package_id \in Packages
         /\ job[t].package \in PackageRecord
         /\ Follows(committed[job[t].package_id], job[t].package)
         /\ registryStore' = [registryStore EXCEPT ![job[t].package_id] = job[t].package]
         /\ committed' = [committed EXCEPT ![job[t].package_id] = job[t].package]
<1> DEFINE k == job[t].package_id
           rec == job[t].package
<1>1. job[t] # Idle /\ job[t].at = "write"
  BY DEF WriteRecord, Idle
<1>2. k \in Packages /\ rec \in PackageRecord
  BY <1>1, BusyJob DEF OneWriterInv, IInv
<1>3. registryStore[k] = Partial /\ Follows(committed[k], rec)
  BY <1>1 DEF OneWriterInv, JobsCurrent
<1>4. PICK contents \in Overwritten(registryStore[k], rec) :
        /\ registryStore' = [registryStore EXCEPT ![k] = contents]
        /\ committed' = [committed EXCEPT ![k] = IF Readable(contents) THEN contents ELSE @]
  BY DEF WriteRecord
<1>5. contents = rec
  BY <1>3, <1>4, MarksDistinct DEF Overwritten
<1>6. Readable(rec)
  BY <1>2, RecordsAreNotMarks DEF Readable
<1> QED
  BY <1>2, <1>3, <1>4, <1>5, <1>6

(* Every step of the only thread, and a crash, keeps the invariant.        *)
LEMMA OneWriterNext ==
  ASSUME NEW w, Threads = {w}, OneWriterInv, [Next]_registryVars
  PROVE  OneWriterInv'
<1> USE DEF OneWriterInv
<1>0. IInv'
  BY NextIInv
<1>1. CASE UNCHANGED registryVars
  <2>1. FilesFaithful' /\ JobsCurrent'
    BY <1>1 DEF FilesFaithful, JobsCurrent, registryVars
  <2> QED
    BY <1>0, <2>1
<1>2. CASE Crash
  <2>1. JobsCurrent'
    BY <1>2 DEF Crash, JobsCurrent
  <2>2. FilesFaithful'
    BY <1>2 DEF Crash, FilesFaithful
  <2> QED
    BY <1>0, <2>1, <2>2
<1>3. ASSUME NEW t \in Threads, NEW p \in Packages, NEW new, NEW step \in {"gate", "open"},
             job[t] = Idle, Readable(registryStore[p]) \/ registryStore[p] = Absent,
             Follows(registryStore[p], new),
             job' = [job EXCEPT ![t] = Busy(step, p, new)],
             UNCHANGED <<registryStore, reportStore, committed, cut>>
      PROVE  OneWriterInv'
  <2>1. t = w
    OBVIOUS
  <2>2. registryStore[p] = committed[p]
    BY <1>3, ReadableIsSaved, MarksDistinct DEF Readable, Marks
  <2>3. job'[w] = Busy(step, p, new)
    BY <1>3, <2>1 DEF IInv, TypeOK
  <2>4. JobsCurrent'
    BY <1>3, <2>1, <2>2, <2>3 DEF JobsCurrent, Busy, Follows
  <2>5. FilesFaithful'
    <3> SUFFICES ASSUME NEW q \in Packages, registryStore[q] # committed[q]
                 PROVE  registryStore[q] = Partial /\ q \in cut
      BY <1>3 DEF FilesFaithful
    <3> QED
      BY <1>3, <2>1 DEF FilesFaithful, Idle
  <2> QED
    BY <1>0, <2>4, <2>5
<1>4. ASSUME NEW t \in Threads, NEW p \in Packages, NEW d \in Datasets, LoadForRegister(t, p, d)
      PROVE  OneWriterInv'
  <2>1. Follows(registryStore[p], NewPackage(d))
    BY <1>4 DEF LoadForRegister, Follows
  <2> QED
    BY <1>4, <2>1, <1>3 DEF LoadForRegister
<1>5. ASSUME NEW t \in Threads, NEW p \in Packages, NEW s \in PackageStatus, LoadForPromote(t, p, s)
      PROVE  OneWriterInv'
  <2>1. registryStore[p] # Absent
    BY <1>5 DEF LoadForPromote, Readable, Marks
  <2>2. Follows(registryStore[p], Moved(registryStore[p], s))
    BY <1>5, <2>1 DEF LoadForPromote, Follows
  <2>3. CASE s \in Certified
    BY <1>5, <2>2, <2>3, <1>3 DEF LoadForPromote
  <2>4. CASE s \notin Certified
    BY <1>5, <2>2, <2>4, <1>3 DEF LoadForPromote
  <2> QED
    BY <2>3, <2>4
<1>6. ASSUME NEW t \in Threads, PassGate(t) PROVE OneWriterInv'
  <2>1. /\ t = w
        /\ job[w] # Idle
        /\ job' = [job EXCEPT ![w].at = "open"]
        /\ UNCHANGED <<registryStore, committed, cut>>
    BY <1>6 DEF PassGate, Idle
  <2>2. /\ job'[w].package = job[w].package
        /\ job'[w].package_id = job[w].package_id
        /\ job'[w].at = "open"
    BY <2>1, BusyJob DEF IInv, TypeOK
  <2>3. JobsCurrent'
    BY <1>6, <2>1, <2>2 DEF JobsCurrent, PassGate, Follows
  <2>4. FilesFaithful'
    BY <1>6, <2>1, <2>2 DEF FilesFaithful, PassGate
  <2> QED
    BY <1>0, <2>3, <2>4
<1>7. ASSUME NEW t \in Threads, StopAtGate(t) PROVE OneWriterInv'
  <2>1. /\ t = w
        /\ job'[w] = Idle
        /\ UNCHANGED <<registryStore, committed, cut>>
    BY <1>7 DEF StopAtGate, IInv, TypeOK
  <2>2. JobsCurrent'
    BY <2>1 DEF JobsCurrent
  <2>3. FilesFaithful'
    BY <1>7, <2>1 DEF FilesFaithful, StopAtGate
  <2> QED
    BY <1>0, <2>2, <2>3
<1>8. ASSUME NEW t \in Threads, OpenRecord(t) PROVE OneWriterInv'
  <2> DEFINE k == job[w].package_id
  <2>1. /\ t = w
        /\ job[w] # Idle
        /\ job[w].at = "open"
        /\ job' = [job EXCEPT ![w].at = "write"]
        /\ registryStore' = [registryStore EXCEPT ![k] = Partial]
        /\ UNCHANGED <<committed, cut>>
    BY <1>8 DEF OpenRecord, Idle
  <2>2. /\ job'[w].package = job[w].package
        /\ job'[w].package_id = k
        /\ job'[w].at = "write"
        /\ k \in Packages
    BY <2>1, BusyJob DEF IInv, TypeOK
  <2>3. registryStore'[k] = Partial
    BY <2>1, <2>2 DEF IInv, TypeOK
  <2>4. JobsCurrent'
    BY <2>1, <2>2, <2>3 DEF JobsCurrent, Follows
  <2>5. FilesFaithful'
    <3> SUFFICES ASSUME NEW q \in Packages, q # k
                 PROVE  \/ registryStore'[q] = committed'[q]
                        \/ registryStore'[q] = Partial /\ q \in cut'
      BY <2>1, <2>2, <2>3 DEF FilesFaithful
    <3>1. registryStore'[q] = registryStore[q]
      BY <2>1, <2>2 DEF IInv, TypeOK
    <3> QED
      BY <2>1, <3>1 DEF FilesFaithful
  <2> QED
    BY <1>0, <2>4, <2>5
<1>9. ASSUME NEW t \in Threads, WriteRecord(t) PROVE OneWriterInv'
  <2> DEFINE k == job[w].package_id
  <2>1. /\ t = w
        /\ job'[w] = Idle
        /\ cut' = cut
        /\ job[w].at = "write"
    BY <1>9 DEF WriteRecord, IInv, TypeOK
  <2>2. /\ k \in Packages
        /\ registryStore' = [registryStore EXCEPT ![k] = job[w].package]
        /\ committed' = [committed EXCEPT ![k] = job[w].package]
    BY <1>9, <2>1, OneWriterWrites
  <2>3. JobsCurrent'
    BY <2>1 DEF JobsCurrent
  <2>4. FilesFaithful'
    <3> SUFFICES ASSUME NEW q \in Packages
                 PROVE  \/ registryStore'[q] = committed'[q]
                        \/ registryStore'[q] = Partial /\ q \in cut'
      BY DEF FilesFaithful
    <3>1. CASE q = k
      BY <2>2, <3>1 DEF IInv, TypeOK
    <3>2. CASE q # k
      <4>1. registryStore'[q] = registryStore[q] /\ committed'[q] = committed[q]
        BY <2>2, <3>2 DEF IInv, TypeOK
      <4> QED
        BY <2>1, <3>2, <4>1 DEF FilesFaithful
    <3> QED
      BY <3>1, <3>2
  <2> QED
    BY <1>0, <2>3, <2>4
<1>10. ASSUME NEW t \in Threads, Request(t) PROVE OneWriterInv'
  <2>1. PICK p \in Packages :
          \/ \E d \in Datasets : LoadForRegister(t, p, d)
          \/ RefuseRegister(t, p)
          \/ \E s \in PackageStatus : LoadForPromote(t, p, s) \/ RefusePromote(t, p, s)
    BY <1>10 DEF Request
  <2> QED
    BY <2>1, <1>1, <1>4, <1>5 DEF RefuseRegister, RefusePromote
<1> QED
  BY <1>1, <1>2, <1>6, <1>7, <1>8, <1>9, <1>10 DEF Next, Proceed

-----------------------------------------------------------------------------

(* With one writer, an acknowledged save stays readable until a crash cuts *)
(* a later save of the same package.                                       *)
THEOREM OneWriterSaves ==
  ASSUME NEW w, Threads = {w}
  PROVE  Spec => []SavedIsReadable
<1>1. OneWriterInv => SavedIsReadable
  BY DEF OneWriterInv, FilesFaithful, SavedIsReadable
<1>2. OneWriterInv /\ [Next]_registryVars => OneWriterInv'
  BY OneWriterNext
<1> QED
  BY <1>1, <1>2, OneWriterInit, PTL DEF Spec

(* A saved record that follows another is one step of the lifecycle.       *)
LEMMA FollowsIsStep ==
  ASSUME OneWriterInv, [Next]_registryVars, OneWriterInv'
  PROVE  [Promise!Next]_([p \in Packages |->
           IF committed[p] = Absent THEN "NONE" ELSE committed[p].status])
<1> DEFINE st == [p \in Packages |->
                    IF committed[p] = Absent THEN "NONE" ELSE committed[p].status]
<1>1. CASE UNCHANGED committed
  BY <1>1
<1>2. ASSUME NEW t \in Threads, WriteRecord(t) PROVE [Promise!Next]_st
  <2> DEFINE rec == job[t].package
  <2>0. PICK k \in Packages : k = job[t].package_id
    BY <1>2, OneWriterWrites
  <2>1. /\ k \in Packages
        /\ rec \in PackageRecord
        /\ Follows(committed[k], rec)
        /\ committed' = [committed EXCEPT ![k] = rec]
    BY <1>2, <2>0, OneWriterWrites
  <2>2. rec # Absent
    BY <2>1, RecordsAreNotMarks DEF Marks
  <2>3. committed \in [Packages -> {Absent} \cup PackageRecord]
    BY DEF OneWriterInv, IInv, TypeOK
  <2>4. st' = [st EXCEPT ![k] = rec.status]
    BY <2>1, <2>2, <2>3
  <2>5. CASE committed[k] = Absent
    <3>0. PICK d \in Datasets : rec = NewPackage(d)
      BY <2>1, <2>5 DEF Follows
    <3>1. rec.status = "REGISTERED"
      BY <3>0 DEF NewPackage
    <3>2. st[k] = "NONE"
      BY <2>1, <2>5
    <3>3. Promise!Register(k)
      BY <2>4, <3>1, <3>2 DEF Promise!Register, Promise!Unregistered
    <3>4. Promise!Next
      BY <2>1, <3>3 DEF Promise!Next
    <3> QED
      BY <3>4
  <2>6. CASE committed[k] # Absent
    <3>1. committed[k].status \in PackageStatus /\ st[k] = committed[k].status
      BY <2>1, <2>3, <2>6 DEF PackageRecord
    <3>2. st[k] # "NONE"
      BY <3>1 DEF PackageStatus
    <3>0. PICK s \in LifecycleGraph[committed[k].status] : rec = Moved(committed[k], s)
      BY <2>1, <2>6 DEF Follows
    <3>3. rec.status \in LifecycleGraph[st[k]]
      BY <3>0, <3>1 DEF Moved
    <3>4. Promise!Promote(k)
      BY <2>4, <3>2, <3>3
         DEF Promise!Promote, Promise!Unregistered, Promise!LifecycleGraph, LifecycleGraph
    <3>5. Promise!Next
      BY <2>1, <3>4 DEF Promise!Next
    <3> QED
      BY <3>5
  <2> QED
    BY <2>5, <2>6
<1>3. Next => UNCHANGED committed \/ \E t \in Threads : WriteRecord(t)
  BY DEF Next, Crash, Request, Proceed, LoadForRegister, RefuseRegister, LoadForPromote,
         RefusePromote, PassGate, StopAtGate, OpenRecord, registryVars
<1> QED
  BY <1>1, <1>2, <1>3 DEF registryVars

(* README.md "rejects any edge not in the graph": with one writer, the     *)
(* saved statuses of the packages behave as Lifecycle says.                *)
THEOREM OneWriterKeepsThePromise ==
  ASSUME NEW w, Threads = {w}
  PROVE  Spec => LifecyclePromise
<1>1. Init => Promise!Init
  BY DEF Init, Promise!Init, Promise!Unregistered
<1>2. OneWriterInv /\ [Next]_registryVars => OneWriterInv'
  BY OneWriterNext
<1>3. OneWriterInv /\ [Next]_registryVars
        => [Promise!Next]_([p \in Packages |->
             IF committed[p] = Absent THEN "NONE" ELSE committed[p].status])
  BY <1>2, FollowsIsStep
<1> QED
  BY <1>1, <1>2, <1>3, OneWriterInit, PTL DEF Spec, LifecyclePromise, Promise!Spec
-----------------------------------------------------------------------------
(***************************************************************************)
(* One request at a time (one thread), with certification and retrieval.   *)
(***************************************************************************)
Saving == [at : {"open", "write"}, dataset_id : Datasets, report : Report, certifying : BOOLEAN]
Listing == [at : {"list"}, dataset_id : Datasets, unread : SUBSET Packages, stale : SUBSET Packages]
Withdrawing == [at : {"withdraw"}, dataset_id : Datasets, stale : SUBSET Packages]

WorkType == TypeOK /\ work \in [Threads -> {Free} \cup Saving \cup Listing \cup Withdrawing]

CertifiedOf(p, d) ==
  Readable(registryStore[p]) /\ registryStore[p].dataset_id = d /\ registryStore[p].status \in Certified

(* A package is saved as certified past a gate that is still open, and      *)
(* while a dataset is rejected only as deprecated.                          *)
JobsFit ==
  \A t \in Threads :
    job[t] # Idle =>
      /\ \/ work[t] = Free
         \/ work[t].at = "withdraw" /\ job[t].package.status = "DEPRECATED" /\ job[t].at # "gate"
      /\ job[t].at # "gate" /\ job[t].package.status \in Certified =>
           GateOpen(reportStore[job[t].package.dataset_id])

(* A report is saved over a truncated file, and one that certify() did not  *)
(* make rejects nothing.                                                    *)
ReportsFit ==
  \A t \in Threads :
    work[t].at \in {"open", "write"} =>
      /\ work[t].certifying \/ work[t].report.state # "REJECTED"
      /\ work[t].at = "write" => reportStore[work[t].dataset_id] = Partial

(* The list a withdrawal works from has every certified package, but for    *)
(* those it has yet to look at, or is saving.                               *)
ListIsComplete ==
  \A t \in Threads : \A p \in Packages :
    /\ work[t].at = "list" /\ CertifiedOf(p, work[t].dataset_id) =>
         p \in work[t].unread \cup work[t].stale
    /\ work[t].at = "withdraw" /\ CertifiedOf(p, work[t].dataset_id) =>
         p \in work[t].stale \/ (job[t] # Idle /\ job[t].package_id = p)

(* Also while the next report of a rejected dataset is being saved.         *)
RejectedAreWithdrawn ==
  \A d \in Datasets :
    /\ Readable(reportStore[d]) /\ reportStore[d].state = "REJECTED"
    /\ d \notin interrupted
    /\ \A t \in Threads : work[t].at \in {"list", "withdraw"} => work[t].dataset_id # d
    => \A p \in Packages : ~CertifiedOf(p, d)

WithdrawalInv ==
  WorkType /\ JobsFit /\ ReportsFit /\ ListIsComplete /\ RejectedAreWithdrawn

Readinesses == {"NOT_RETRIEVABLE", "PARTIALLY_RETRIEVABLE", "RETRIEVABLE", "CERTIFIED_RETRIEVABLE"}
Operations == {"assess", "query", "version", "fallback"}
Accesses ==
  [at : {"list", "load", "report", "open", "write", "granted"}, operation : Operations,
   dataset_id : Datasets \cup {"any"}, unread : SUBSET Packages,
   listed : SUBSET (Packages \X PackageStatus), pending : SUBSET Packages,
   found : SUBSET (Packages \X Readinesses), package_id : Packages \cup {"any"},
   status : PackageStatus, evidence : Readinesses]

Grantable(p) ==
  /\ Readable(registryStore[p]) /\ registryStore[p].status \in Certified
  /\ GateOpen(reportStore[registryStore[p].dataset_id])

(* What an assessment holds is what the files hold, since nobody writes.    *)
AssessedNow(a) ==
  /\ a.at \in {"report", "open", "write"} =>
       /\ a.package_id \in Packages /\ Readable(registryStore[a.package_id])
       /\ a.status = registryStore[a.package_id].status
       /\ a.dataset_id = registryStore[a.package_id].dataset_id
  /\ a.at \in {"open", "write"} => a.evidence = "NOT_RETRIEVABLE" \/ Grantable(a.package_id)
  /\ \A f \in a.found : f[2] = "NOT_RETRIEVABLE" \/ Grantable(f[1])
  /\ a.at = "granted" => Grantable(a.package_id)

AccessInv ==
  /\ access \in [Threads -> {None} \cup Accesses]
  /\ \A t \in Threads : access[t] # None => work[t] = Free /\ job[t] = Idle /\ AssessedNow(access[t])

-----------------------------------------------------------------------------
LEMMA ReportsAreReports ==
  /\ \A r \in Report : Readable(r) /\ r \notin Marks
  /\ ~Readable(Absent) /\ ~Readable(Partial) /\ ~Readable(Garbled)
  /\ \A r \in PackageRecord : Readable(r)
BY RecordsAreNotMarks DEF Readable, Marks

LEMMA PartialGatesNothing == ~GateOpen(Partial) /\ Absent # Partial
BY MarksDistinct, ReportsAreReports DEF GateOpen

(* What a thread is at tells what it holds.                                 *)
LEMMA WorkAt ==
  ASSUME WorkType, NEW t \in Threads
  PROVE  /\ work[t].at \in {"open", "write"} <=> work[t] \in Saving
         /\ work[t].at = "list" <=> work[t] \in Listing
         /\ work[t].at = "withdraw" <=> work[t] \in Withdrawing
         /\ work[t] = Free <=> work[t].at = "free"
<1>1. work[t] \in {Free} \cup Saving \cup Listing \cup Withdrawing
  BY DEF WorkType
<1>2. Free.at = "free"
  BY DEF Free
<1>3. \A w \in Saving : w.at \in {"open", "write"}
  BY DEF Saving
<1>4. \A w \in Listing : w.at = "list"
  BY DEF Listing
<1>5. \A w \in Withdrawing : w.at = "withdraw"
  BY DEF Withdrawing
<1> QED
  BY <1>1, <1>2, <1>3, <1>4, <1>5

(* A request of the registry, or a withdrawal, that has decided to save.    *)
LEMMA BeginningKeeps ==
  ASSUME NEW one, Threads = {one}, WithdrawalInv, job[one] = Idle,
         NEW p \in Packages, NEW package \in PackageRecord, NEW step \in {"gate", "open"},
         package.status \in Certified <=> step = "gate",
         job' = [job EXCEPT ![one] = Busy(step, p, package)],
         UNCHANGED <<registryStore, reportStore, committed, cut, interrupted>>,
         \/ work[one] = Free /\ work' = work
         \/ /\ work[one].at = "withdraw" /\ package.status = "DEPRECATED"
            /\ work' = [work EXCEPT ![one].stale = @ \ {p}]
  PROVE  WithdrawalInv'
<1>1. WorkType
  BY DEF WithdrawalInv
<1>2. job' \in [Threads -> Jobs] /\ job'[one] = Busy(step, p, package)
  BY <1>1 DEF WorkType, TypeOK, Busy, Jobs
<1>3. /\ job'[one].at = step /\ job'[one].package_id = p /\ job'[one].package = package
      /\ job'[one] # Idle
  BY <1>2 DEF Busy, Idle
<1>4. CASE work[one] = Free /\ work' = work
  <2>1. WorkType'
    BY <1>1, <1>2, <1>4 DEF WorkType, TypeOK
  <2>2. JobsFit'
    BY <1>3, <1>4 DEF JobsFit
  <2>3. ReportsFit' /\ RejectedAreWithdrawn'
    BY <1>4 DEF WithdrawalInv, ReportsFit, RejectedAreWithdrawn, CertifiedOf
  <2>4. work'[one].at = "free"
    BY <1>4 DEF Free
  <2>5. ListIsComplete'
    BY <2>4 DEF ListIsComplete
  <2> QED
    BY <2>1, <2>2, <2>3, <2>5 DEF WithdrawalInv
<1>5. CASE /\ work[one].at = "withdraw" /\ package.status = "DEPRECATED"
           /\ work' = [work EXCEPT ![one].stale = @ \ {p}]
  <2>1. PICK next : next = [work[one] EXCEPT !.stale = @ \ {p}]
    OBVIOUS
  <2>2. work[one] \in Withdrawing
    BY <1>1, <1>5, WorkAt
  <2>3. /\ next \in Withdrawing /\ next.at = "withdraw" /\ next.dataset_id = work[one].dataset_id
        /\ next.stale = work[one].stale \ {p}
    BY <2>1, <2>2 DEF Withdrawing
  <2>4. work' \in [Threads -> {Free} \cup Saving \cup Listing \cup Withdrawing] /\ work'[one] = next
    BY <1>1, <1>5, <2>1, <2>3 DEF WorkType
  <2>5. WorkType'
    BY <1>1, <1>2, <2>4 DEF WorkType, TypeOK
  <2>6. JobsFit'
    BY <1>3, <1>5, <2>3, <2>4 DEF JobsFit, Certified
  <2>7. ReportsFit'
    BY <2>3, <2>4 DEF ReportsFit
  <2>8. ListIsComplete'
    BY <1>3, <1>5, <2>3, <2>4 DEF WithdrawalInv, ListIsComplete, CertifiedOf
  <2>9. RejectedAreWithdrawn'
    BY <1>5, <2>3, <2>4 DEF WithdrawalInv, RejectedAreWithdrawn, CertifiedOf
  <2> QED
    BY <2>5, <2>6, <2>7, <2>8, <2>9 DEF WithdrawalInv
<1> QED
  BY <1>4, <1>5

(* The package register() or promote() saves.                               *)
LEMMA PreparedRecord ==
  ASSUME TypeOK, NEW p \in Packages, Readable(registryStore[p]), NEW s \in PackageStatus
  PROVE  /\ Moved(registryStore[p], s) \in PackageRecord
         /\ Moved(registryStore[p], s).status = s
<1>1. registryStore[p] \in PackageRecord
  BY DEF TypeOK, Readable
<1>2. PICK old \in PackageRecord : old = registryStore[p]
  BY <1>1
<1>3. PICK hop : hop = [from_status |-> old.status, to_status |-> s]
  OBVIOUS
<1>4. hop \in Transition /\ old.history \in Seq(Transition) /\ old.dataset_id \in Datasets
  BY <1>2, <1>3 DEF PackageRecord, Transition
<1>5. Append(old.history, hop) \in Seq(Transition)
  BY <1>4
<1> QED
  BY <1>2, <1>3, <1>4, <1>5 DEF Moved, PackageRecord

LEMMA LoadForPromoteKeeps ==
  ASSUME NEW one, Threads = {one}, WithdrawalInv, NEW p \in Packages, NEW s \in PackageStatus,
         LoadForPromote(one, p, s), UNCHANGED interrupted,
         \/ work[one] = Free /\ work' = work
         \/ /\ work[one].at = "withdraw" /\ s = "DEPRECATED"
            /\ work' = [work EXCEPT ![one].stale = @ \ {p}]
  PROVE  WithdrawalInv'
<1>1. PICK package : package = Moved(registryStore[p], s)
  OBVIOUS
<1>2. PICK step : step = IF s \in Certified THEN "gate" ELSE "open"
  OBVIOUS
<1>3. package \in PackageRecord /\ package.status = s
  BY <1>1, PreparedRecord DEF LoadForPromote, WithdrawalInv, WorkType
<1>4. job[one] = Idle /\ job' = [job EXCEPT ![one] = Busy(step, p, package)]
  BY <1>1, <1>2 DEF LoadForPromote
<1>5. step \in {"gate", "open"} /\ (package.status \in Certified <=> step = "gate")
  BY <1>2, <1>3
<1>6. UNCHANGED <<registryStore, reportStore, committed, cut, interrupted>>
  BY DEF LoadForPromote
<1>7. \/ work[one] = Free /\ work' = work
      \/ /\ work[one].at = "withdraw" /\ package.status = "DEPRECATED"
         /\ work' = [work EXCEPT ![one].stale = @ \ {p}]
  BY <1>3
<1> QED
  BY <1>3, <1>4, <1>5, <1>6, <1>7, BeginningKeeps

LEMMA RequestKeeps ==
  ASSUME NEW one, Threads = {one}, WithdrawalInv, work[one] = Free, Request(one), UNCHANGED certVars
  PROVE  WithdrawalInv'
<1>1. ASSUME UNCHANGED registryVars PROVE WithdrawalInv'
  BY <1>1 DEF registryVars, certVars, WithdrawalInv, WorkType, TypeOK, JobsFit, ReportsFit,
     ListIsComplete, RejectedAreWithdrawn, CertifiedOf
<1>2. ASSUME NEW p \in Packages, NEW d \in Datasets, LoadForRegister(one, p, d)
      PROVE  WithdrawalInv'
  <2>1. PICK package : package = NewPackage(d)
    OBVIOUS
  <2>2. package \in PackageRecord /\ package.status = "REGISTERED"
    BY <2>1, NewPackageWalks DEF NewPackage
  <2>3. package.status \notin Certified
    BY <2>2 DEF Certified
  <2>4. job[one] = Idle /\ job' = [job EXCEPT ![one] = Busy("open", p, package)]
    BY <1>2, <2>1 DEF LoadForRegister
  <2>5. UNCHANGED <<registryStore, reportStore, committed, cut, interrupted>> /\ work' = work
    BY <1>2 DEF LoadForRegister, certVars
  <2>6. "open" \in {"gate", "open"}
    OBVIOUS
  <2> QED
    BY <2>2, <2>3, <2>4, <2>5, <2>6, BeginningKeeps
<1>3. ASSUME NEW p \in Packages, NEW s \in PackageStatus, LoadForPromote(one, p, s)
      PROVE  WithdrawalInv'
  <2>1. UNCHANGED interrupted /\ work' = work
    BY DEF certVars
  <2> QED
    BY <1>3, <2>1, LoadForPromoteKeeps
<1>4. PICK p \in Packages :
        \/ \E d \in Datasets : LoadForRegister(one, p, d)
        \/ RefuseRegister(one, p)
        \/ \E s \in PackageStatus : LoadForPromote(one, p, s) \/ RefusePromote(one, p, s)
  BY DEF Request
<1> QED
  BY <1>1, <1>2, <1>3, <1>4 DEF RefuseRegister, RefusePromote

(* The steps of a save.                                                     *)
LEMMA GateKeeps ==
  ASSUME NEW one, Threads = {one}, WithdrawalInv, PassGate(one) \/ StopAtGate(one), UNCHANGED certVars
  PROVE  WithdrawalInv'
<1>1. job[one] # Idle /\ TypeOK /\ job[one].at = "gate"
  BY DEF PassGate, StopAtGate, Idle, WithdrawalInv, WorkType
<1>2. PICK old : old = job[one]
  OBVIOUS
<1>3. /\ old \in [at : {"gate", "open", "write"}, package_id : Packages, package : PackageRecord]
      /\ old.at = "gate"
  BY <1>1, <1>2, BusyJob
<1>4. PICK next : next = IF PassGate(one) THEN [old EXCEPT !.at = "open"] ELSE Idle
  OBVIOUS
<1>5. \/ /\ next \in Jobs /\ next.package = old.package
         /\ GateOpen(reportStore[next.package.dataset_id])
      \/ next = Idle
  BY <1>2, <1>3, <1>4 DEF Jobs, PassGate, Idle
<1>6. job' = [job EXCEPT ![one] = next]
  BY <1>2, <1>4 DEF PassGate, StopAtGate
<1>7. job' \in [Threads -> Jobs] /\ job'[one] = next
  BY <1>1, <1>5, <1>6 DEF TypeOK, Jobs
<1>8. UNCHANGED <<registryStore, reportStore, committed, cut, work, interrupted>>
  BY DEF PassGate, StopAtGate, certVars
<1>9. WorkType'
  BY <1>7, <1>8 DEF WithdrawalInv, WorkType, TypeOK
<1>10. work[one] = Free /\ work[one].at = "free"
  BY <1>1 DEF WithdrawalInv, JobsFit, Free
<1>11. JobsFit'
  BY <1>5, <1>7, <1>8, <1>10 DEF JobsFit
<1>12. ReportsFit' /\ RejectedAreWithdrawn'
  BY <1>8 DEF WithdrawalInv, ReportsFit, RejectedAreWithdrawn, CertifiedOf
<1>13. ListIsComplete'
  BY <1>8, <1>10 DEF ListIsComplete
<1> QED
  BY <1>9, <1>11, <1>12, <1>13 DEF WithdrawalInv

LEMMA OpenRecordKeeps ==
  ASSUME NEW one, Threads = {one}, WithdrawalInv, OpenRecord(one), UNCHANGED certVars
  PROVE  WithdrawalInv'
<1>1. job[one] # Idle /\ TypeOK /\ job[one].at = "open"
  BY DEF OpenRecord, Idle, WithdrawalInv, WorkType
<1>2. PICK old : old = job[one]
  OBVIOUS
<1>3. /\ old \in [at : {"gate", "open", "write"}, package_id : Packages, package : PackageRecord]
      /\ old.at = "open" /\ old.package_id \in Packages
  BY <1>1, <1>2, BusyJob
<1>4. PICK next : next = [old EXCEPT !.at = "write"]
  OBVIOUS
<1>5. /\ next \in Jobs /\ next # Idle /\ next.package_id = old.package_id
      /\ next.package = old.package /\ next.at = "write"
  BY <1>3, <1>4 DEF Jobs, Idle
<1>6. job' = [job EXCEPT ![one] = next]
  BY <1>2, <1>4 DEF OpenRecord
<1>7. job' \in [Threads -> Jobs] /\ job'[one] = next
  BY <1>1, <1>5, <1>6 DEF TypeOK, Jobs
<1>8. UNCHANGED <<reportStore, committed, cut, work, interrupted>>
  BY DEF OpenRecord, certVars
<1>9. registryStore' = [registryStore EXCEPT ![old.package_id] = Partial]
  BY <1>2 DEF OpenRecord
<1>10. registryStore' \in [Packages -> Marks \cup PackageRecord]
  BY <1>1, <1>3, <1>9 DEF TypeOK, Marks
<1>11. WorkType'
  BY <1>7, <1>8, <1>10 DEF WithdrawalInv, WorkType, TypeOK
<1>12. JobsFit'
  BY <1>1, <1>2, <1>3, <1>5, <1>7, <1>8 DEF WithdrawalInv, JobsFit
<1>13. ReportsFit'
  BY <1>8 DEF WithdrawalInv, ReportsFit
<1>14. ASSUME NEW p \in Packages, NEW d, CertifiedOf(p, d)' PROVE CertifiedOf(p, d) /\ p # old.package_id
  <2>1. p # old.package_id
    BY <1>1, <1>3, <1>9, <1>14, ReportsAreReports DEF CertifiedOf, TypeOK
  <2>2. registryStore'[p] = registryStore[p]
    BY <1>1, <1>3, <1>9, <2>1 DEF TypeOK
  <2> QED
    BY <1>14, <2>1, <2>2 DEF CertifiedOf
<1>15. RejectedAreWithdrawn'
  BY <1>8, <1>14 DEF WithdrawalInv, RejectedAreWithdrawn
<1>16. ListIsComplete'
  BY <1>2, <1>5, <1>7, <1>8, <1>14 DEF WithdrawalInv, ListIsComplete
<1> QED
  BY <1>11, <1>12, <1>13, <1>15, <1>16 DEF WithdrawalInv

LEMMA WriteRecordKeeps ==
  ASSUME NEW one, Threads = {one}, WithdrawalInv, WriteRecord(one), UNCHANGED certVars
  PROVE  WithdrawalInv'
<1>1. job[one] # Idle /\ TypeOK /\ job[one].at = "write"
  BY DEF WriteRecord, Idle, WithdrawalInv, WorkType
<1>2. PICK old : old = job[one]
  OBVIOUS
<1>3. /\ old.at = "write" /\ old.package_id \in Packages /\ old.package \in PackageRecord
  BY <1>1, <1>2, BusyJob
<1>4. PICK contents \in Overwritten(registryStore[old.package_id], old.package) :
        /\ registryStore' = [registryStore EXCEPT ![old.package_id] = contents]
        /\ committed' = [committed EXCEPT ![old.package_id] = IF Readable(contents) THEN contents ELSE @]
  BY <1>2 DEF WriteRecord
<1>5. contents \in Marks \/ contents = old.package
  BY <1>4 DEF Overwritten, Marks
<1>6. job' = [job EXCEPT ![one] = Idle] /\ UNCHANGED <<reportStore, cut, work, interrupted>>
  BY DEF WriteRecord, certVars
<1>7. job' \in [Threads -> Jobs] /\ job'[one] = Idle
  BY <1>1, <1>6 DEF TypeOK, Jobs
<1>8. registryStore' \in [Packages -> Marks \cup PackageRecord] /\ registryStore'[old.package_id] = contents
  BY <1>1, <1>3, <1>4, <1>5 DEF TypeOK
<1>9. committed' \in [Packages -> {Absent} \cup PackageRecord]
  BY <1>1, <1>3, <1>4, <1>5 DEF TypeOK, Readable
<1>10. WorkType'
  BY <1>6, <1>7, <1>8, <1>9 DEF WithdrawalInv, WorkType, TypeOK
<1>11. JobsFit' /\ ReportsFit'
  BY <1>6, <1>7 DEF WithdrawalInv, JobsFit, ReportsFit
<1>12. ASSUME NEW p \in Packages, NEW d, CertifiedOf(p, d)'
       PROVE  \/ p # old.package_id /\ CertifiedOf(p, d)
              \/ work[one] = Free /\ GateOpen(reportStore[d])
  <2>1. CASE p # old.package_id
    <3>1. registryStore'[p] = registryStore[p]
      BY <1>1, <1>3, <1>4, <2>1 DEF TypeOK
    <3> QED
      BY <1>12, <2>1, <3>1 DEF CertifiedOf
  <2>2. CASE p = old.package_id
    <3>1. Readable(contents) /\ contents.dataset_id = d /\ contents.status \in Certified
      BY <1>8, <1>12, <2>2 DEF CertifiedOf
    <3>2. old.package.status \in Certified /\ old.package.dataset_id = d
      BY <1>5, <3>1 DEF Readable
    <3>3. old.package.status # "DEPRECATED" /\ old.at # "gate"
      BY <1>3, <3>2 DEF Certified
    <3> QED
      BY <1>1, <1>2, <3>2, <3>3 DEF WithdrawalInv, JobsFit
  <2> QED
    BY <2>1, <2>2
<1>13. RejectedAreWithdrawn'
  <2> SUFFICES ASSUME NEW d \in Datasets, Readable(reportStore[d]), reportStore[d].state = "REJECTED",
                      d \notin interrupted,
                      \A t \in Threads : work[t].at \in {"list", "withdraw"} => work[t].dataset_id # d,
                      NEW p \in Packages, CertifiedOf(p, d)'
               PROVE  FALSE
    BY <1>6 DEF RejectedAreWithdrawn
  <2>1. ~CertifiedOf(p, d)
    BY DEF WithdrawalInv, RejectedAreWithdrawn
  <2>2. GateOpen(reportStore[d])
    BY <1>12, <2>1
  <2> QED
    BY <2>2, ReportsAreReports DEF GateOpen, FailedCertification
<1>14. ListIsComplete'
  <2>0. PICK d : d = work[one].dataset_id
    OBVIOUS
  <2> SUFFICES ASSUME NEW p \in Packages, CertifiedOf(p, d)',
                      work[one].at \in {"list", "withdraw"}
               PROVE  /\ work[one].at = "list" => p \in work[one].unread \cup work[one].stale
                      /\ work[one].at = "withdraw" => p \in work[one].stale
    BY <1>6, <2>0 DEF ListIsComplete
  <2>1. work[one] # Free
    BY DEF Free
  <2>2. p # old.package_id /\ CertifiedOf(p, work[one].dataset_id)
    BY <1>12, <2>0, <2>1
  <2> QED
    BY <1>2, <2>2 DEF WithdrawalInv, ListIsComplete
<1> QED
  BY <1>10, <1>11, <1>13, <1>14 DEF WithdrawalInv

-----------------------------------------------------------------------------
(* A thread that has no job and goes on to something else.                  *)
LEMMA WorkingKeeps ==
  ASSUME NEW one, Threads = {one}, WithdrawalInv, job[one] = Idle, NEW next,
         next \in {Free} \cup Saving \cup Listing \cup Withdrawing,
         work' = [work EXCEPT ![one] = next], UNCHANGED <<registryStore, job, committed, cut>>,
         reportStore' \in [Datasets -> Marks \cup Report],
         next.at \in {"open", "write"} =>
           /\ next.certifying \/ next.report.state # "REJECTED"
           /\ next.at = "write" => reportStore'[next.dataset_id] = Partial,
         \A p \in Packages :
           /\ next.at = "list" /\ CertifiedOf(p, next.dataset_id) => p \in next.unread \cup next.stale
           /\ next.at = "withdraw" /\ CertifiedOf(p, next.dataset_id) => p \in next.stale,
         \A d \in Datasets :
           /\ Readable(reportStore'[d]) /\ reportStore'[d].state = "REJECTED" /\ d \notin interrupted'
           /\ next.at \in {"list", "withdraw"} => next.dataset_id # d
           => \A p \in Packages : ~CertifiedOf(p, d)
  PROVE  WithdrawalInv'
<1>1. WorkType
  BY DEF WithdrawalInv
<1>2. work'[one] = next /\ work' \in [Threads -> {Free} \cup Saving \cup Listing \cup Withdrawing]
  BY <1>1 DEF WorkType
<1>3. WorkType'
  BY <1>1, <1>2 DEF WorkType, TypeOK
<1>4. JobsFit'
  BY DEF JobsFit
<1>5. ReportsFit'
  BY <1>2 DEF ReportsFit
<1>6. ListIsComplete'
  BY <1>2 DEF ListIsComplete, CertifiedOf
<1>7. RejectedAreWithdrawn'
  BY <1>2 DEF RejectedAreWithdrawn, CertifiedOf
<1> QED
  BY <1>3, <1>4, <1>5, <1>6, <1>7 DEF WithdrawalInv

(* validate() and certify(), up to the save of a report.                    *)
LEMMA SaveReportKeeps ==
  ASSUME NEW one, Threads = {one}, WithdrawalInv, job[one] = Idle,
         work[one].at \notin {"list", "withdraw"},
         NEW d \in Datasets, NEW report \in Report, NEW certifying \in BOOLEAN,
         certifying \/ report.state # "REJECTED",
         SaveReport(one, d, report, certifying), UNCHANGED <<registryVars, interrupted>>
  PROVE  WithdrawalInv'
<1>1. PICK next : next = [at |-> "open", dataset_id |-> d, report |-> report, certifying |-> certifying]
  OBVIOUS
<1>2. /\ next \in Saving /\ next.at = "open" /\ next.certifying = certifying /\ next.report = report
      /\ work' = [work EXCEPT ![one] = next]
  BY <1>1 DEF Saving, SaveReport
<1>3. UNCHANGED <<registryStore, reportStore, job, committed, cut, interrupted>>
  BY DEF registryVars
<1>4. reportStore' \in [Datasets -> Marks \cup Report]
  BY <1>3 DEF WithdrawalInv, WorkType, TypeOK
<1>5. ASSUME NEW e \in Datasets, Readable(reportStore'[e]), reportStore'[e].state = "REJECTED",
             e \notin interrupted'
      PROVE  \A p \in Packages : ~CertifiedOf(p, e)
  BY <1>3, <1>5 DEF WithdrawalInv, RejectedAreWithdrawn
<1> QED
  BY <1>2, <1>3, <1>4, <1>5, WorkingKeeps

LEMMA ReportsMade ==
  /\ \A quality \in {"trusted", "flawed"} :
       ValidatedReport(quality) \in Report /\ ValidatedReport(quality).state = "VALIDATED"
  /\ \A report \in Report : Decided(report) \in Report
BY DEF ValidatedReport, Decided, Report

LEMMA CertRequestKeeps ==
  ASSUME NEW one, Threads = {one}, WithdrawalInv, CertRequest(one)
  PROVE  WithdrawalInv'
<1>1. PICK d \in Datasets :
        \/ \E quality \in {"trusted", "flawed"} : Validate(one, d, quality) \/ CertifyFile(one, d, quality)
        \/ Certify(one, d)
        \/ RefuseCertify(one, d)
  BY DEF CertRequest
<1>2. job[one] = Idle /\ work[one].at \notin {"list", "withdraw"}
  <2>1. Unoccupied(one)
    BY <1>1 DEF Validate, CertifyFile, Certify, RefuseCertify
  <2> QED
    BY <2>1 DEF Unoccupied, Free
<1>3. ASSUME NEW quality \in {"trusted", "flawed"}, Validate(one, d, quality) \/ CertifyFile(one, d, quality)
      PROVE  WithdrawalInv'
  <2>1. PICK report \in Report : report = ValidatedReport(quality) /\ report.state = "VALIDATED"
    BY ReportsMade
  <2>2. PICK certifying \in BOOLEAN : SaveReport(one, d, report, certifying)
    BY <1>3, <2>1 DEF Validate, CertifyFile
  <2>3. UNCHANGED <<registryVars, interrupted>>
    BY <1>3 DEF Validate, CertifyFile
  <2>4. report.state # "REJECTED"
    BY <2>1
  <2> QED
    BY <1>2, <2>2, <2>3, <2>4, SaveReportKeeps
<1>4. ASSUME Certify(one, d) PROVE WithdrawalInv'
  <2>1. reportStore[d] \in Report
    BY <1>4 DEF Certify, WithdrawalInv, WorkType, TypeOK, Readable
  <2>2. PICK report \in Report : report = Decided(reportStore[d])
    BY <2>1, ReportsMade
  <2>3. SaveReport(one, d, report, TRUE) /\ UNCHANGED <<registryVars, interrupted>>
    BY <1>4, <2>2 DEF Certify
  <2> QED
    BY <1>2, <2>3, SaveReportKeeps
<1>5. ASSUME RefuseCertify(one, d) PROVE WithdrawalInv'
  BY <1>5 DEF RefuseCertify, vars, registryVars, certVars, WithdrawalInv, WorkType, TypeOK, JobsFit,
     ReportsFit, ListIsComplete, RejectedAreWithdrawn, CertifiedOf
<1> QED
  BY <1>1, <1>3, <1>4, <1>5

(* A thread that is busy with a report or a list has no job.                *)
LEMMA WorkersHaveNoJob ==
  ASSUME WithdrawalInv, NEW t \in Threads, work[t].at \in {"open", "write", "list"}
  PROVE  job[t] = Idle
BY DEF WithdrawalInv, JobsFit, Free

LEMMA OpenReportKeeps ==
  ASSUME NEW one, Threads = {one}, WithdrawalInv, OpenReport(one)
  PROVE  WithdrawalInv'
<1>1. PICK old : old = work[one]
  OBVIOUS
<1>2. old \in Saving /\ old.at = "open" /\ job[one] = Idle /\ old.dataset_id \in Datasets
  <2>1. work[one] \in Saving /\ work[one].at = "open"
    BY WorkAt DEF OpenReport, WithdrawalInv
  <2> QED
    BY <1>1, <2>1, WorkersHaveNoJob DEF Saving
<1>3. PICK next : next = [old EXCEPT !.at = "write"]
  OBVIOUS
<1>4. /\ next \in Saving /\ next.at = "write" /\ next.dataset_id = old.dataset_id
      /\ next.certifying = old.certifying /\ next.report = old.report
  BY <1>2, <1>3 DEF Saving
<1>5. work' = [work EXCEPT ![one] = next] /\ UNCHANGED <<registryStore, job, committed, cut, interrupted>>
  BY <1>1, <1>3 DEF OpenReport
<1>6. reportStore' = [reportStore EXCEPT ![old.dataset_id] = Partial]
  BY <1>1 DEF OpenReport
<1>7. reportStore' \in [Datasets -> Marks \cup Report] /\ reportStore'[old.dataset_id] = Partial
  BY <1>2, <1>6 DEF WithdrawalInv, WorkType, TypeOK, Marks
<1>8. old.certifying \/ old.report.state # "REJECTED"
  BY <1>1, <1>2 DEF WithdrawalInv, ReportsFit
<1>9. ASSUME NEW d \in Datasets, Readable(reportStore'[d]), reportStore'[d].state = "REJECTED",
             d \notin interrupted'
      PROVE  \A p \in Packages : ~CertifiedOf(p, d)
  <2>1. d # old.dataset_id
    BY <1>7, <1>9, ReportsAreReports
  <2>2. reportStore'[d] = reportStore[d]
    BY <1>6, <2>1 DEF WithdrawalInv, WorkType, TypeOK
  <2>3. work[one].at \notin {"list", "withdraw"}
    BY <1>1, <1>2
  <2> QED
    BY <1>5, <1>9, <2>2, <2>3 DEF WithdrawalInv, RejectedAreWithdrawn
<1> QED
  BY <1>2, <1>4, <1>5, <1>7, <1>8, <1>9, WorkingKeeps

LEMMA WriteReportKeeps ==
  ASSUME NEW one, Threads = {one}, WithdrawalInv, WriteReport(one)
  PROVE  WithdrawalInv'
<1>1. PICK old : old = work[one]
  OBVIOUS
<1>2. /\ old \in Saving /\ old.at = "write" /\ job[one] = Idle /\ old.dataset_id \in Datasets
      /\ old.report \in Report /\ old.certifying \in BOOLEAN
  <2>1. work[one] \in Saving /\ work[one].at = "write"
    BY WorkAt DEF WriteReport, WithdrawalInv
  <2> QED
    BY <1>1, <2>1, WorkersHaveNoJob DEF Saving
<1>3. /\ reportStore[old.dataset_id] = Partial
      /\ old.certifying \/ old.report.state # "REJECTED"
  BY <1>1, <1>2 DEF WithdrawalInv, ReportsFit
<1>4. reportStore' = [reportStore EXCEPT ![old.dataset_id] = old.report]
  BY <1>1, <1>3, MarksDistinct DEF WriteReport, Overwritten
<1>5. reportStore' \in [Datasets -> Marks \cup Report] /\ reportStore'[old.dataset_id] = old.report
  BY <1>2, <1>4 DEF WithdrawalInv, WorkType, TypeOK
<1>6. PICK next : next = AfterSave(old)
  OBVIOUS
<1>7. work' = [work EXCEPT ![one] = next] /\ UNCHANGED <<registryStore, job, committed, cut, interrupted>>
  BY <1>1, <1>6 DEF WriteReport
<1>8. \/ next = Free /\ old.report.state # "REJECTED"
      \/ next \in Saving /\ next.at = "open" /\ next.certifying /\ old.report.state # "REJECTED"
      \/ /\ next \in Listing /\ next.at = "list" /\ next.unread = Packages
         /\ next.dataset_id = old.dataset_id
  <2>1. CASE ~old.certifying
    BY <1>3, <1>6, <2>1 DEF AfterSave
  <2>2. CASE old.certifying /\ old.report.state = "VALIDATED"
    <3>1. Decided(old.report) \in Report
      BY <1>2, ReportsMade
    <3>2. next = [old EXCEPT !.at = "open", !.report = Decided(old.report)]
      BY <1>6, <2>2 DEF AfterSave
    <3> QED
      BY <1>2, <2>2, <3>1, <3>2 DEF Saving
  <2>3. CASE old.certifying /\ old.report.state = "REJECTED"
    <3>1. next = [at |-> "list", dataset_id |-> old.dataset_id, unread |-> Packages, stale |-> {}]
      BY <1>6, <2>3 DEF AfterSave
    <3> QED
      BY <1>2, <3>1 DEF Listing
  <2>4. CASE old.certifying /\ old.report.state \notin {"VALIDATED", "REJECTED"}
    BY <1>6, <2>4 DEF AfterSave
  <2> QED
    BY <1>2, <2>1, <2>2, <2>3, <2>4
<1>9. ASSUME NEW d \in Datasets, Readable(reportStore'[d]), reportStore'[d].state = "REJECTED",
             d \notin interrupted', next.at \in {"list", "withdraw"} => next.dataset_id # d
      PROVE  \A p \in Packages : ~CertifiedOf(p, d)
  <2>1. d # old.dataset_id
    BY <1>5, <1>8, <1>9
  <2>2. reportStore'[d] = reportStore[d]
    BY <1>4, <2>1 DEF WithdrawalInv, WorkType, TypeOK
  <2>3. work[one].at \notin {"list", "withdraw"}
    BY <1>1, <1>2
  <2> QED
    BY <1>7, <1>9, <2>2, <2>3 DEF WithdrawalInv, RejectedAreWithdrawn
<1>10. next \in {Free} \cup Saving \cup Listing \cup Withdrawing /\ next.at \notin {"write", "withdraw"}
  BY <1>8 DEF Free
<1>11. /\ next.at = "open" => next.certifying
       /\ next.at = "list" => next.unread = Packages
  BY <1>8 DEF Free
<1> QED
  BY <1>2, <1>5, <1>7, <1>9, <1>10, <1>11, WorkingKeeps

LEMMA ListPackageKeeps ==
  ASSUME NEW one, Threads = {one}, WithdrawalInv, NEW p \in Packages, ListPackage(one, p)
  PROVE  WithdrawalInv'
<1>1. PICK old : old = work[one]
  OBVIOUS
<1>2. old \in Listing /\ old.at = "list" /\ job[one] = Idle
  <2>1. work[one] \in Listing /\ work[one].at = "list"
    BY WorkAt DEF ListPackage, WithdrawalInv
  <2> QED
    BY <1>1, <2>1, WorkersHaveNoJob
<1>3. PICK next : next = [old EXCEPT !.unread = @ \ {p},
                                     !.stale = IF CertifiedOf(p, old.dataset_id) THEN @ \cup {p} ELSE @]
  OBVIOUS
<1>4. /\ next \in Listing /\ next.at = "list" /\ next.dataset_id = old.dataset_id
      /\ next.unread = old.unread \ {p}
      /\ next.stale = IF CertifiedOf(p, old.dataset_id) THEN old.stale \cup {p} ELSE old.stale
  BY <1>2, <1>3 DEF Listing
<1>5. /\ work' = [work EXCEPT ![one] = next]
      /\ UNCHANGED <<registryStore, reportStore, job, committed, cut, interrupted>>
  BY <1>1, <1>2, <1>3 DEF ListPackage, registryVars, CertifiedOf, WithdrawalInv, WorkType
<1>6. reportStore' \in [Datasets -> Marks \cup Report]
  BY <1>5 DEF WithdrawalInv, WorkType, TypeOK
<1>7. ASSUME NEW q \in Packages, CertifiedOf(q, next.dataset_id) PROVE q \in next.unread \cup next.stale
  <2>1. q \in old.unread \cup old.stale
    BY <1>1, <1>2, <1>4, <1>7 DEF WithdrawalInv, ListIsComplete
  <2> QED
    BY <1>4, <1>7, <2>1
<1>8. ASSUME NEW d \in Datasets, Readable(reportStore'[d]), reportStore'[d].state = "REJECTED",
             d \notin interrupted', next.dataset_id # d
      PROVE  \A q \in Packages : ~CertifiedOf(q, d)
  BY <1>1, <1>4, <1>5, <1>8 DEF WithdrawalInv, RejectedAreWithdrawn
<1> QED
  BY <1>2, <1>4, <1>5, <1>6, <1>7, <1>8, WorkingKeeps

LEMMA StartWithdrawingKeeps ==
  ASSUME NEW one, Threads = {one}, WithdrawalInv, StartWithdrawing(one)
  PROVE  WithdrawalInv'
<1>1. PICK old : old = work[one]
  OBVIOUS
<1>2. old \in Listing /\ old.at = "list" /\ old.unread = {} /\ job[one] = Idle
  <2>1. work[one] \in Listing /\ work[one].at = "list"
    BY WorkAt DEF StartWithdrawing, WithdrawalInv
  <2> QED
    BY <1>1, <2>1, WorkersHaveNoJob DEF StartWithdrawing
<1>3. PICK next : next = [at |-> "withdraw", dataset_id |-> old.dataset_id, stale |-> old.stale]
  OBVIOUS
<1>4. /\ next \in Withdrawing /\ next.at = "withdraw" /\ next.dataset_id = old.dataset_id
      /\ next.stale = old.stale
  BY <1>2, <1>3 DEF Listing, Withdrawing
<1>5. /\ work' = [work EXCEPT ![one] = next]
      /\ UNCHANGED <<registryStore, reportStore, job, committed, cut, interrupted>>
  BY <1>1, <1>3 DEF StartWithdrawing, registryVars, WithdrawalInv, WorkType
<1>6. reportStore' \in [Datasets -> Marks \cup Report]
  BY <1>5 DEF WithdrawalInv, WorkType, TypeOK
<1>7. ASSUME NEW q \in Packages, CertifiedOf(q, next.dataset_id) PROVE q \in next.stale
  BY <1>1, <1>2, <1>4, <1>7 DEF WithdrawalInv, ListIsComplete
<1>8. ASSUME NEW d \in Datasets, Readable(reportStore'[d]), reportStore'[d].state = "REJECTED",
             d \notin interrupted', next.dataset_id # d
      PROVE  \A q \in Packages : ~CertifiedOf(q, d)
  BY <1>1, <1>4, <1>5, <1>8 DEF WithdrawalInv, RejectedAreWithdrawn
<1> QED
  BY <1>2, <1>4, <1>5, <1>6, <1>7, <1>8, WorkingKeeps

LEMMA ReleaseKeeps ==
  ASSUME NEW one, Threads = {one}, WithdrawalInv,
         FinishWithdrawal(one) \/ \E p \in Packages : AbandonWithdrawal(one, p)
  PROVE  WithdrawalInv'
<1>1. /\ job[one] = Idle /\ work[one].at = "withdraw" /\ work' = [work EXCEPT ![one] = Free]
      /\ UNCHANGED <<registryStore, reportStore, job, committed, cut>>
  BY DEF AbandonWithdrawal, FinishWithdrawal, RefusePromote, registryVars
<1>2. reportStore' \in [Datasets -> Marks \cup Report]
  BY <1>1 DEF WithdrawalInv, WorkType, TypeOK
<1>3. ASSUME NEW d \in Datasets, Readable(reportStore'[d]), reportStore'[d].state = "REJECTED",
             d \notin interrupted'
      PROVE  \A q \in Packages : ~CertifiedOf(q, d)
  <2>1. CASE work[one].dataset_id # d
    <3>1. d \notin interrupted
      BY <1>3, <2>1 DEF AbandonWithdrawal, FinishWithdrawal
    <3> QED
      BY <1>1, <1>3, <2>1, <3>1 DEF WithdrawalInv, RejectedAreWithdrawn
  <2>2. CASE work[one].dataset_id = d
    <3>1. work[one].stale = {}
      BY <1>3, <2>2 DEF AbandonWithdrawal, FinishWithdrawal
    <3> QED
      BY <1>1, <2>2, <3>1 DEF WithdrawalInv, ListIsComplete
  <2> QED
    BY <2>1, <2>2
<1>4. Free.at = "free"
  BY DEF Free
<1> QED
  BY <1>1, <1>2, <1>3, <1>4, WorkingKeeps

LEMMA WithdrawKeeps ==
  ASSUME NEW one, Threads = {one}, WithdrawalInv, NEW p \in Packages, Withdraw(one, p)
  PROVE  WithdrawalInv'
<1>1. /\ LoadForPromote(one, p, "DEPRECATED") /\ UNCHANGED interrupted
      /\ work[one].at = "withdraw" /\ work' = [work EXCEPT ![one].stale = @ \ {p}]
  BY DEF Withdraw
<1>2. "DEPRECATED" \in PackageStatus
  BY DEF PackageStatus
<1> QED
  BY <1>1, <1>2, LoadForPromoteKeeps

LEMMA CrashAllKeeps ==
  ASSUME NEW one, Threads = {one}, WithdrawalInv, CrashAll
  PROVE  WithdrawalInv'
<1>1. /\ work' = [t \in Threads |-> Free] /\ job' = [t \in Threads |-> Idle]
      /\ UNCHANGED <<registryStore, reportStore, committed>>
      /\ cut' = cut \cup {p \in Packages : registryStore[p] = Partial}
  BY DEF CrashAll, Crash
<1>2. work'[one] = Free /\ job'[one] = Idle /\ Free.at = "free"
  BY <1>1 DEF Free
<1>3. WorkType'
  BY <1>1 DEF WithdrawalInv, WorkType, TypeOK, Jobs
<1>4. JobsFit' /\ ReportsFit' /\ ListIsComplete'
  BY <1>2 DEF JobsFit, ReportsFit, ListIsComplete
<1>5. ASSUME NEW d \in Datasets, Readable(reportStore[d]), reportStore[d].state = "REJECTED",
             d \notin interrupted'
      PROVE  \A p \in Packages : ~CertifiedOf(p, d)
  <2>1. d \notin interrupted /\ (work[one].at \in {"list", "withdraw"} => work[one].dataset_id # d)
    BY <1>5 DEF CrashAll
  <2> QED
    BY <1>5, <2>1 DEF WithdrawalInv, RejectedAreWithdrawn
<1>6. RejectedAreWithdrawn'
  BY <1>1, <1>5 DEF RejectedAreWithdrawn, CertifiedOf
<1> QED
  BY <1>3, <1>4, <1>6 DEF WithdrawalInv

LEMMA RegistryKeeps ==
  ASSUME NEW one, Threads = {one}, WithdrawalInv, Proceed(one), UNCHANGED certVars
  PROVE  WithdrawalInv'
BY GateKeeps, OpenRecordKeeps, WriteRecordKeeps DEF Proceed

LEMMA CertProceedKeeps ==
  ASSUME NEW one, Threads = {one}, WithdrawalInv, CertProceed(one)
  PROVE  WithdrawalInv'
<1>1. \/ OpenReport(one) \/ WriteReport(one) \/ StartWithdrawing(one)
      \/ \E p \in Packages : ListPackage(one, p)
      \/ \E p \in Packages : Withdraw(one, p)
      \/ FinishWithdrawal(one) \/ \E p \in Packages : AbandonWithdrawal(one, p)
  BY DEF CertProceed
<1> QED
  BY <1>1, OpenReportKeeps, WriteReportKeeps, StartWithdrawingKeeps, ListPackageKeeps, WithdrawKeeps,
     ReleaseKeeps

(* An access changes nothing of the registry and the reports.               *)
LEMMA AccessChangesNothing ==
  ASSUME NEW t, AccessRequest(t) \/ AccessProceed(t)
  PROVE  UNCHANGED vars
<1>1. CASE AccessRequest(t)
  BY <1>1 DEF AccessRequest, Assess, Query
<1>2. CASE AccessProceed(t)
  BY <1>2 DEF AccessProceed, SelectCandidates, SelectFallback, SelectVersion, AssessReport, OpenEvidence,
     WriteEvidence, Respond, ListForQuery, AssessPackage
<1> QED
  BY <1>1, <1>2

LEMMA StillWithdrawn ==
  WithdrawalInv /\ UNCHANGED vars => WithdrawalInv'
BY DEF vars, registryVars, certVars, WithdrawalInv, WorkType, TypeOK, JobsFit, ReportsFit, ListIsComplete,
   RejectedAreWithdrawn, CertifiedOf

LEMMA WithdrawalInit == RetrievalInit => WithdrawalInv
<1> SUFFICES ASSUME RetrievalInit PROVE WithdrawalInv
  OBVIOUS
<1>1. TypeOK
  BY InitIInv DEF RetrievalInit, CertInit, IInv
<1>2. \A t \in Threads : work[t] = Free /\ job[t] = Idle /\ work[t].at = "free"
  BY DEF RetrievalInit, CertInit, Init, Free
<1>3. \A d \in Datasets : ~Readable(reportStore[d])
  BY ReportsAreReports DEF RetrievalInit, CertInit
<1>4. work \in [Threads -> {Free} \cup Saving \cup Listing \cup Withdrawing]
  BY DEF RetrievalInit, CertInit
<1> QED
  BY <1>1, <1>2, <1>3, <1>4 DEF WithdrawalInv, WorkType, JobsFit, ReportsFit, ListIsComplete,
     RejectedAreWithdrawn

LEMMA WithdrawalNext ==
  ASSUME NEW one, Threads = {one}, WithdrawalInv, [RetrievalNext]_allVars
  PROVE  WithdrawalInv'
<1>1. CASE UNCHANGED allVars
  BY <1>1, StillWithdrawn DEF allVars
<1>2. CASE CrashAll
  BY <1>2, CrashAllKeeps
<1>3. CASE work[one] = Free /\ Request(one) /\ UNCHANGED certVars
  BY <1>3, RequestKeeps
<1>4. CASE Proceed(one) /\ UNCHANGED certVars
  BY <1>4, RegistryKeeps
<1>5. CASE CertRequest(one)
  BY <1>5, CertRequestKeeps
<1>6. CASE CertProceed(one)
  BY <1>6, CertProceedKeeps
<1>7. CASE AccessRequest(one) \/ AccessProceed(one)
  BY <1>7, AccessChangesNothing, StillWithdrawn
<1>8. ASSUME RetrievalNext
      PROVE  \/ CrashAll
             \/ work[one] = Free /\ Request(one) /\ UNCHANGED certVars
             \/ Proceed(one) /\ UNCHANGED certVars
             \/ CertRequest(one)
             \/ CertProceed(one)
             \/ AccessRequest(one) \/ AccessProceed(one)
  BY <1>8 DEF RetrievalNext
<1> QED
  BY <1>1, <1>2, <1>3, <1>4, <1>5, <1>6, <1>7, <1>8

LEMMA RejectedAreSettled ==
  ASSUME NEW one, Threads = {one}, WithdrawalInv
  PROVE  RejectionWithdraws
<1>1. ASSUME NEW d \in Datasets, Readable(reportStore[d]), reportStore[d].state = "REJECTED",
             d \notin interrupted, ~Certifying(one, d)
      PROVE  \A p \in Packages : ~CertifiedOf(p, d)
  <2>1. work[one].at \in {"list", "withdraw"} => work[one].dataset_id # d
    BY <1>1, WorkAt DEF Certifying, WithdrawalInv
  <2> QED
    BY <1>1, <2>1 DEF WithdrawalInv, RejectedAreWithdrawn
<1> QED
  BY <1>1 DEF RejectionWithdraws, CertifiedOf

(* When requests come one at a time, once certify() has returned a          *)
(* rejection no package of the dataset is certified: nothing the registry's *)
(* promote(), validate() or a crash does in between brings one back.        *)
THEOREM RejectionsWithdraw ==
  ASSUME NEW one, Threads = {one}
  PROVE  RetrievalSpec => []RejectionWithdraws
<1>1. WithdrawalInv /\ [RetrievalNext]_allVars => WithdrawalInv'
  BY WithdrawalNext
<1>2. WithdrawalInv => RejectionWithdraws
  BY RejectedAreSettled
<1> QED
  BY <1>1, <1>2, WithdrawalInit, PTL DEF RetrievalSpec

-----------------------------------------------------------------------------
(* An assessment or a query, and what it does with its record.              *)
LEMMA AccessAt ==
  ASSUME AccessInv, NEW t \in Threads, access[t].at # "none"
  PROVE  access[t] \in Accesses /\ access[t] # None
BY DEF AccessInv, None

LEMMA AccessKeeps ==
  ASSUME NEW one, Threads = {one}, AccessInv, UNCHANGED vars, work[one] = Free, job[one] = Idle,
         NEW next \in {None} \cup Accesses, access' = [access EXCEPT ![one] = next],
         next # None => AssessedNow(next)
  PROVE  AccessInv'
<1>1. UNCHANGED <<registryStore, reportStore, work, job>>
  BY DEF vars, registryVars, certVars
<1>2. access' \in [Threads -> {None} \cup Accesses] /\ access'[one] = next
  BY DEF AccessInv
<1>3. next # None => AssessedNow(next)'
  BY <1>1 DEF AssessedNow, Grantable
<1> QED
  BY <1>1, <1>2, <1>3 DEF AccessInv, AssessedNow, Grantable

(* A request for access starts with nothing found.                          *)
LEMMA AccessRequestKeeps ==
  ASSUME NEW one, Threads = {one}, AccessInv, AccessRequest(one)
  PROVE  AccessInv'
<1>1. ASSUME NEW operation \in Operations, NEW d \in Datasets \cup {"any"}, NEW unread \in SUBSET Packages,
             NEW pending \in SUBSET Packages, Available(one),
             access' = [access EXCEPT ![one] = Started(operation, d, unread, pending)], UNCHANGED vars
      PROVE  AccessInv'
  <2>1. PICK next : next = Started(operation, d, unread, pending)
    OBVIOUS
  <2>2. "REGISTERED" \in PackageStatus /\ "NOT_RETRIEVABLE" \in Readinesses
    BY DEF PackageStatus, Readinesses
  <2>3. next \in Accesses /\ next.at \in {"load", "list"} /\ next.found = {}
    BY <2>1, <2>2 DEF Started, Accesses
  <2>4. AssessedNow(next)
    BY <2>3 DEF AssessedNow
  <2> QED
    BY <1>1, <2>1, <2>3, <2>4, AccessKeeps DEF Available, Unoccupied
<1>2. ASSUME NEW p \in Packages, Assess(one, p) PROVE AccessInv'
  <2>1. "assess" \in Operations /\ "any" \in Datasets \cup {"any"} /\ {} \in SUBSET Packages
        /\ {p} \in SUBSET Packages
    BY DEF Operations
  <2> QED
    BY <1>1, <1>2, <2>1 DEF Assess
<1>3. ASSUME NEW d \in Datasets, NEW operation \in {"query", "version"}, Query(one, d, operation)
      PROVE  AccessInv'
  <2>1. operation \in Operations /\ d \in Datasets \cup {"any"} /\ {} \in SUBSET Packages
        /\ Packages \in SUBSET Packages
    BY DEF Operations
  <2> QED
    BY <1>1, <1>3, <2>1 DEF Query
<1> QED
  BY <1>2, <1>3 DEF AccessRequest

(* The steps that choose what to assess.                                    *)
LEMMA SelectionKeeps ==
  ASSUME NEW one, Threads = {one}, TypeOK, AccessInv,
         \/ SelectCandidates(one) \/ SelectFallback(one) \/ SelectVersion(one)
         \/ \E p \in Packages : ListForQuery(one, p)
  PROVE  AccessInv'
<1>1. PICK old : old = access[one]
  OBVIOUS
<1>2. old.at = "list" /\ UNCHANGED vars
  BY <1>1 DEF SelectCandidates, SelectFallback, SelectVersion, ListForQuery
<1>3. old \in Accesses /\ work[one] = Free /\ job[one] = Idle /\ AssessedNow(old)
  BY <1>1, <1>2, AccessAt DEF AccessInv
<1>4. ASSUME NEW operation \in Operations, NEW pending \in SUBSET Packages,
             NEW next, next = [old EXCEPT !.at = "load", !.operation = operation, !.pending = pending],
             access' = [access EXCEPT ![one] = next]
      PROVE  AccessInv'
  <2>1. next \in Accesses /\ next.at = "load" /\ next.found = old.found
    BY <1>3, <1>4 DEF Accesses
  <2>2. AssessedNow(next)
    BY <1>3, <2>1 DEF AssessedNow
  <2> QED
    BY <1>2, <1>3, <1>4, <2>1, <2>2, AccessKeeps
<1>5. ASSUME access' = [access EXCEPT ![one] = None] PROVE AccessInv'
  BY <1>2, <1>3, <1>5, AccessKeeps
<1>6. \A c \in old.listed : c[1] \in Packages
  BY <1>3 DEF Accesses
<1>7. old = [old EXCEPT !.operation = old.operation] /\ old.operation \in Operations
  BY <1>3 DEF Accesses
<1>8. CASE SelectCandidates(one)
  <2>1. PICK candidates : candidates = {c[1] : c \in {c \in old.listed : c[2] \in Certified}}
    OBVIOUS
  <2>2. candidates \in SUBSET Packages
    BY <1>6, <2>1
  <2>3. access' = [access EXCEPT ![one] =
                     [old EXCEPT !.at = "load", !.operation = old.operation, !.pending = candidates]]
    BY <1>1, <1>3, <1>8, <2>1 DEF SelectCandidates, Accesses
  <2> QED
    BY <1>4, <1>7, <2>2, <2>3
<1>9. CASE SelectFallback(one)
  <2>1. \A p \in FallbackPool(old.listed) : p \in Packages
    BY <1>6 DEF FallbackPool
  <2>2. CASE old.listed = {}
    BY <1>1, <1>5, <1>9, <2>2 DEF SelectFallback
  <2>3. CASE old.listed # {}
    <3>1. PICK p \in FallbackPool(old.listed) :
            access' = [access EXCEPT ![one] =
                         [old EXCEPT !.at = "load", !.operation = "fallback", !.pending = {p}]]
      BY <1>1, <1>3, <1>9, <2>3 DEF SelectFallback, AccessInv
    <3>2. {p} \in SUBSET Packages /\ "fallback" \in Operations
      BY <2>1, <3>1 DEF Operations
    <3> QED
      BY <1>4, <3>1, <3>2
  <2> QED
    BY <2>2, <2>3
<1>10. CASE SelectVersion(one)
  <2>1. PICK versioned \in SUBSET {c[1] : c \in old.listed} :
          access' = [access EXCEPT ![one] = IF versioned = {} THEN None
                                            ELSE [old EXCEPT !.at = "load", !.pending = versioned]]
    BY <1>1, <1>10 DEF SelectVersion
  <2>2. versioned \in SUBSET Packages
    BY <1>6, <2>1
  <2>3. [old EXCEPT !.at = "load", !.pending = versioned]
          = [old EXCEPT !.at = "load", !.operation = old.operation, !.pending = versioned]
    BY <1>3 DEF Accesses
  <2> QED
    BY <1>4, <1>5, <1>7, <2>1, <2>2, <2>3
<1>11. ASSUME NEW p \in Packages, ListForQuery(one, p) PROVE AccessInv'
  <2>1. PICK seen \in SUBSET (Packages \X PackageStatus) :
          access' = [access EXCEPT ![one].unread = @ \ {p}, ![one].listed = @ \cup seen]
    <3>1. Readable(registryStore[p]) => <<p, registryStore[p].status>> \in Packages \X PackageStatus
      <4>1. Readable(registryStore[p]) => registryStore[p] \in PackageRecord
        BY DEF TypeOK, Readable
      <4> QED
        BY <4>1 DEF PackageRecord
    <3>2. CASE Readable(registryStore[p]) /\ registryStore[p].dataset_id = access[one].dataset_id
      BY <1>11, <3>1, <3>2 DEF ListForQuery
    <3>3. CASE ~(Readable(registryStore[p]) /\ registryStore[p].dataset_id = access[one].dataset_id)
      <4>1. access' = [access EXCEPT ![one].unread = @ \ {p}, ![one].listed = @ \cup {}]
        BY <1>11, <3>3 DEF ListForQuery
      <4> QED
        BY <4>1
    <3> QED
      BY <3>2, <3>3
  <2>2. PICK next : next = [old EXCEPT !.unread = @ \ {p}, !.listed = @ \cup seen]
    OBVIOUS
  <2>3. next \in Accesses /\ next.at = "list" /\ next.found = old.found
    BY <1>2, <1>3, <2>2 DEF Accesses
  <2>4. AssessedNow(next)
    BY <1>3, <2>3 DEF AssessedNow
  <2>5. access' = [access EXCEPT ![one] = next]
    BY <1>1, <2>1, <2>2
  <2> QED
    BY <1>2, <1>3, <2>3, <2>4, <2>5, AccessKeeps
<1> QED
  BY <1>8, <1>9, <1>10, <1>11

(* assess(): the package is read, then its report.                          *)
LEMMA AssessPackageKeeps ==
  ASSUME NEW one, Threads = {one}, TypeOK, AccessInv, NEW p \in Packages, AssessPackage(one, p)
  PROVE  AccessInv'
<1>1. PICK old : old = access[one]
  OBVIOUS
<1>2. old.at = "load" /\ UNCHANGED vars
  BY <1>1 DEF AssessPackage
<1>3. old \in Accesses /\ work[one] = Free /\ job[one] = Idle /\ AssessedNow(old)
  BY <1>1, <1>2, AccessAt DEF AccessInv
<1>4. CASE ~Readable(registryStore[p])
  BY <1>2, <1>3, <1>4, AccessKeeps DEF AssessPackage
<1>5. CASE Readable(registryStore[p])
  <2>1. PICK package \in PackageRecord : package = registryStore[p]
    BY <1>5 DEF TypeOK, Readable
  <2>2. PICK next : next = [old EXCEPT !.at = "report", !.package_id = p, !.status = package.status,
                                       !.dataset_id = package.dataset_id]
    OBVIOUS
  <2>3. package.status \in PackageStatus /\ package.dataset_id \in Datasets
    BY <2>1 DEF PackageRecord
  <2>4. /\ next \in Accesses /\ next.at = "report" /\ next.found = old.found /\ next.package_id = p
        /\ next.status = package.status /\ next.dataset_id = package.dataset_id
    BY <1>3, <2>2, <2>3 DEF Accesses
  <2>5. AssessedNow(next)
    BY <1>3, <1>5, <2>1, <2>4 DEF AssessedNow
  <2>6. access' = [access EXCEPT ![one] = next]
    BY <1>1, <1>5, <2>1, <2>2 DEF AssessPackage
  <2> QED
    BY <1>2, <1>3, <2>4, <2>5, <2>6, AccessKeeps
<1> QED
  BY <1>4, <1>5

(* A certified package whose report decodes and did not fail has passed the *)
(* gate that promote() puts to it.                                          *)
LEMMA AssessReportKeeps ==
  ASSUME NEW one, Threads = {one}, TypeOK, AccessInv, AssessReport(one)
  PROVE  AccessInv'
<1>1. PICK old : old = access[one]
  OBVIOUS
<1>2. old.at = "report" /\ UNCHANGED vars
  BY <1>1 DEF AssessReport
<1>3. old \in Accesses /\ work[one] = Free /\ job[one] = Idle /\ AssessedNow(old)
  BY <1>1, <1>2, AccessAt DEF AccessInv
<1>4. /\ old.package_id \in Packages /\ Readable(registryStore[old.package_id])
      /\ old.status = registryStore[old.package_id].status
      /\ old.dataset_id = registryStore[old.package_id].dataset_id
  BY <1>2, <1>3 DEF AssessedNow
<1>5. PICK report : report = reportStore[old.dataset_id]
  OBVIOUS
<1>6. PICK failed \in BOOLEAN : failed <=> Readable(report) /\ FailedCertification(report)
  OBVIOUS
<1>7. CASE old.status \in Certified /\ Undecodable(report)
  <2>1. access' = [access EXCEPT ![one] = None]
    BY <1>1, <1>5, <1>7 DEF AssessReport
  <2> QED
    BY <1>2, <1>3, <2>1, AccessKeeps
<1>8. CASE ~(old.status \in Certified /\ Undecodable(report))
  <2>1. PICK evidence : evidence = Readiness(old.status, Readable(report) /\ FailedCertification(report),
                                             old.package_id \in Prepared)
    OBVIOUS
  <2>2. PICK next : next = [old EXCEPT !.at = "open", !.evidence = evidence]
    OBVIOUS
  <2>3. evidence \in Readinesses
    BY <2>1 DEF Readiness, Readinesses
  <2>4. /\ next \in Accesses /\ next.at = "open" /\ next.found = old.found
        /\ next.package_id = old.package_id /\ next.evidence = evidence
        /\ next.status = old.status /\ next.dataset_id = old.dataset_id
    BY <1>3, <2>2, <2>3 DEF Accesses
  <2>5. ASSUME evidence # "NOT_RETRIEVABLE" PROVE Grantable(old.package_id)
    <3>1. old.status \in Certified /\ ~(Readable(report) /\ FailedCertification(report))
      BY <2>1, <2>5 DEF Readiness
    <3>2. ~Undecodable(report)
      BY <1>8, <3>1
    <3>3. GateOpen(report)
      BY <3>1, <3>2 DEF GateOpen, Undecodable, Readable, Marks
    <3> QED
      BY <1>4, <1>5, <3>1, <3>3 DEF Grantable
  <2>6. AssessedNow(next)
    BY <1>3, <1>4, <2>4, <2>5 DEF AssessedNow
  <2>7. access' = [access EXCEPT ![one] = next]
    BY <1>1, <1>5, <1>8, <2>1, <2>2 DEF AssessReport
  <2> QED
    BY <1>2, <1>3, <2>4, <2>6, <2>7, AccessKeeps
<1> QED
  BY <1>7, <1>8

LEMMA OpenEvidenceKeeps ==
  ASSUME NEW one, Threads = {one}, TypeOK, AccessInv, OpenEvidence(one)
  PROVE  AccessInv'
<1>1. PICK old : old = access[one]
  OBVIOUS
<1>2. old.at = "open" /\ UNCHANGED vars
  BY <1>1 DEF OpenEvidence
<1>3. old \in Accesses /\ work[one] = Free /\ job[one] = Idle /\ AssessedNow(old)
  BY <1>1, <1>2, AccessAt DEF AccessInv
<1>4. PICK next : next = [old EXCEPT !.at = "write"]
  OBVIOUS
<1>5. /\ next \in Accesses /\ next.at = "write" /\ next.found = old.found
      /\ next.package_id = old.package_id /\ next.evidence = old.evidence
      /\ next.status = old.status /\ next.dataset_id = old.dataset_id
  BY <1>3, <1>4 DEF Accesses
<1>6. AssessedNow(next)
  BY <1>2, <1>3, <1>5 DEF AssessedNow
<1>7. access' = [access EXCEPT ![one] = next]
  BY <1>1, <1>4 DEF OpenEvidence
<1> QED
  BY <1>2, <1>3, <1>5, <1>6, <1>7, AccessKeeps

(* What follows a saved assessment is an access that knows the files.       *)
LEMMA AfterAssessmentKnows ==
  ASSUME NEW a \in Accesses, a.at = "write", AssessedNow(a), NEW next \in AfterAssessment(a)
  PROVE  next \in {None} \cup Accesses /\ (next # None => AssessedNow(next))
<1>1. PICK found : found = a.found \cup {<<a.package_id, a.evidence>>}
  OBVIOUS
<1>2. PICK pending : pending = a.pending \ {a.package_id}
  OBVIOUS
<1>3. /\ a.package_id \in Packages /\ a.evidence \in Readinesses
      /\ a.evidence = "NOT_RETRIEVABLE" \/ Grantable(a.package_id)
      /\ a.found \in SUBSET (Packages \X Readinesses) /\ a.pending \in SUBSET Packages
      /\ a.listed \in SUBSET (Packages \X PackageStatus)
  BY DEF Accesses, AssessedNow
<1>4. found \in SUBSET (Packages \X Readinesses) /\ pending \in SUBSET Packages
  BY <1>1, <1>2, <1>3
<1>5. \A f \in found : f[2] = "NOT_RETRIEVABLE" \/ Grantable(f[1])
  BY <1>1, <1>3 DEF AssessedNow
<1>6. \A f \in found : f[1] \in Packages /\ f[2] \in Readinesses
  BY <1>4
<1>7. \A p \in FallbackPool(a.listed) : p \in Packages
  BY <1>3 DEF FallbackPool
<1>8. ASSUME NEW operation \in Operations, NEW left \in SUBSET Packages,
             next = [a EXCEPT !.at = "load", !.operation = operation, !.found = found, !.pending = left]
      PROVE  next \in Accesses /\ AssessedNow(next)
  <2>1. next \in Accesses /\ next.at = "load" /\ next.found = found
    BY <1>4, <1>8 DEF Accesses
  <2> QED
    BY <1>5, <2>1 DEF AssessedNow
<1>9. ASSUME NEW f \in found, f[2] # "NOT_RETRIEVABLE",
             next = [a EXCEPT !.at = "granted", !.found = found, !.pending = {}, !.package_id = f[1],
                              !.evidence = f[2]]
      PROVE  next \in Accesses /\ AssessedNow(next)
  <2>1. next \in Accesses /\ next.at = "granted" /\ next.found = found /\ next.package_id = f[1]
    BY <1>4, <1>6, <1>9 DEF Accesses
  <2> QED
    BY <1>5, <1>9, <2>1 DEF AssessedNow
<1>10. \/ next = [a EXCEPT !.at = "load", !.found = found, !.pending = pending]
       \/ \E f \in found : /\ f[2] # "NOT_RETRIEVABLE"
                           /\ next = [a EXCEPT !.at = "granted", !.found = found, !.pending = {},
                                               !.package_id = f[1], !.evidence = f[2]]
       \/ next = None
       \/ \E p \in FallbackPool(a.listed) :
            next = [a EXCEPT !.at = "load", !.operation = "fallback", !.found = found, !.pending = {p}]
  BY <1>1, <1>2 DEF AfterAssessment
<1>11. /\ a.operation \in Operations /\ "fallback" \in Operations
       /\ [a EXCEPT !.at = "load", !.found = found, !.pending = pending]
            = [a EXCEPT !.at = "load", !.operation = a.operation, !.found = found, !.pending = pending]
  BY DEF Accesses, Operations
<1>12. \A p \in FallbackPool(a.listed) : {p} \in SUBSET Packages
  BY <1>7
<1> QED
  BY <1>4, <1>8, <1>9, <1>10, <1>11, <1>12

LEMMA WriteEvidenceKeeps ==
  ASSUME NEW one, Threads = {one}, TypeOK, AccessInv, WriteEvidence(one)
  PROVE  AccessInv'
<1>1. PICK old : old = access[one]
  OBVIOUS
<1>2. old.at = "write" /\ UNCHANGED vars
  BY <1>1 DEF WriteEvidence
<1>3. old \in Accesses /\ work[one] = Free /\ job[one] = Idle /\ AssessedNow(old)
  BY <1>1, <1>2, AccessAt DEF AccessInv
<1>4. PICK next \in AfterAssessment(old) : access' = [access EXCEPT ![one] = next]
  BY <1>1 DEF WriteEvidence
<1>5. next \in {None} \cup Accesses /\ (next # None => AssessedNow(next))
  BY <1>2, <1>3, <1>4, AfterAssessmentKnows
<1> QED
  BY <1>2, <1>3, <1>4, <1>5, AccessKeeps

LEMMA RespondKeeps ==
  ASSUME NEW one, Threads = {one}, AccessInv, Respond(one)
  PROVE  AccessInv'
<1>1. access[one].at # "none" /\ UNCHANGED vars /\ access' = [access EXCEPT ![one] = None]
  BY DEF Respond
<1>2. work[one] = Free /\ job[one] = Idle
  BY <1>1, AccessAt DEF AccessInv
<1> QED
  BY <1>1, <1>2, AccessKeeps

(* The registry and certify() move only while there is no access.           *)
LEMMA OthersKeepAccess ==
  ASSUME NEW one, Threads = {one}, AccessInv, accessVars' = accessVars,
         \/ access[one] = None
         \/ Proceed(one)
         \/ WithdrawalInv /\ CertProceed(one)
  PROVE  AccessInv'
<1>1. access[one] = None
  <2>1. CASE Proceed(one)
    <3>1. job[one].at \in {"gate", "open", "write"}
      BY <2>1 DEF Proceed, PassGate, StopAtGate, OpenRecord, WriteRecord
    <3>2. job[one] # Idle
      BY <3>1 DEF Idle
    <3> QED
      BY <3>2 DEF AccessInv
  <2>2. CASE CertProceed(one)
    <3>1. work[one].at \in {"open", "write", "list", "withdraw"}
      BY <2>2 DEF CertProceed, OpenReport, WriteReport, StartWithdrawing, FinishWithdrawal, ListPackage,
         Withdraw, AbandonWithdrawal
    <3>2. work[one] # Free
      BY <3>1 DEF Free
    <3> QED
      BY <3>2 DEF AccessInv
  <2> QED
    BY <2>1, <2>2
<1> QED
  BY <1>1 DEF AccessInv, accessVars

LEMMA AccessNext ==
  ASSUME NEW one, Threads = {one}, WithdrawalInv, AccessInv, [RetrievalNext]_allVars
  PROVE  AccessInv'
<1>1. TypeOK
  BY DEF WithdrawalInv, WorkType
<1>2. CASE UNCHANGED allVars
  BY <1>2 DEF allVars, accessVars, vars, registryVars, certVars, AccessInv, AssessedNow, Grantable
<1>3. CASE access' = [t \in Threads |-> None]
  BY <1>3 DEF AccessInv
<1>4. CASE AccessRequest(one)
  BY <1>4, AccessRequestKeeps
<1>5. CASE AccessProceed(one)
  BY <1>1, <1>5, SelectionKeeps, AssessPackageKeeps, AssessReportKeeps, OpenEvidenceKeeps,
     WriteEvidenceKeeps, RespondKeeps DEF AccessProceed
<1>6. ASSUME RetrievalNext
      PROVE  \/ access' = [t \in Threads |-> None]
             \/ /\ accessVars' = accessVars
                /\ access[one] = None \/ Proceed(one) \/ CertProceed(one)
             \/ AccessRequest(one)
             \/ AccessProceed(one)
  BY <1>6 DEF RetrievalNext
<1> QED
  BY <1>2, <1>3, <1>4, <1>5, <1>6, OthersKeepAccess

(* When requests come one at a time, POST /query grants only a package that *)
(* is certified as it is granted, of a dataset whose report has not failed. *)
THEOREM GrantsStayCurrent ==
  ASSUME NEW one, Threads = {one}
  PROVE  RetrievalSpec => []GrantsAreCurrent
<1>1. WithdrawalInv /\ [RetrievalNext]_allVars => WithdrawalInv'
  BY WithdrawalNext
<1>2. WithdrawalInv /\ AccessInv /\ [RetrievalNext]_allVars => AccessInv'
  BY AccessNext
<1>3. RetrievalInit => AccessInv
  BY DEF RetrievalInit, AccessInv
<1>4. AccessInv => GrantsAreCurrent
  <2> SUFFICES ASSUME AccessInv, NEW t \in Threads, access[t].at = "granted"
               PROVE  Grantable(access[t].package_id)
    BY DEF GrantsAreCurrent, Grantable
  <2>1. access[t] # None
    BY DEF None
  <2> QED
    BY <2>1 DEF AccessInv, AssessedNow
<1> QED
  BY <1>1, <1>2, <1>3, <1>4, WithdrawalInit, PTL DEF RetrievalSpec
=============================================================================
