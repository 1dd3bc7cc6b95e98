----------------------------- MODULE SourceProofs -----------------------------
(* What holds of the stores of sources and of capabilities, for any number *)
(* of threads, sources, capabilities and versions; and, in the second      *)
(* half, of the feeds, for any number of ids, threads and restarts.        *)
EXTENDS SourceRequests, FiniteSetTheorems, TLAPS, SequenceTheorems

AtSource == {"save", "audit"}
AtCapability == {"package", "capability", "find package", "version", "current"}

SourceJobs == [at : AtSource, key : Keys, name : Names, cap : {Nothing}]
ConnectorJobs == [at : AtSource \cup AtCapability, key : Keys, name : Names,
                  cap : Capabilities, version : Versions]
CapabilityJobs == [at : AtCapability, cap : Capabilities, version : Versions]
StartupJobs == [at : AtCapability \cup {"failed"}, cap : {Known}, version : {1}]

RequestJobs == {Free} \cup SourceJobs \cup ConnectorJobs \cup CapabilityJobs

(* While the process starts it serves no request.                          *)
WorkType ==
  /\ work \in [Workers -> RequestJobs \cup StartupJobs]
  /\ \A t \in RThreads : work[t] \in RequestJobs
  /\ IF serving THEN work[Startup] = Free
     ELSE work[Startup] \in StartupJobs /\ \A t \in RThreads : work[t] = Free
  /\ current \in [Capabilities -> Versions \cup {Nothing}]
  /\ serving \in BOOLEAN

(* What a worker is about to store under a current version is there.       *)
JobsPrepared ==
  \A w \in Workers :
    /\ work[w].at \in {"version", "current"} => work[w].cap \in packaged
    /\ work[w].at = "current" => <<work[w].cap, work[w].version>> \in versions

CurrentIsWhole ==
  \A cap \in Capabilities :
    current[cap] # Nothing => cap \in packaged /\ <<cap, current[cap]>> \in versions

(* A version without a current record is about to get one, or the process  *)
(* died before it did.                                                     *)
StrandedByDeath ==
  \A cap \in Capabilities :
    Stranded(cap) /\ ~died => \E w \in Workers : work[w].at = "current" /\ work[w].cap = cap

FailedIsStranded == work[Startup].at = "failed" => Stranded(Known)

IInv == WorkType /\ JobsPrepared /\ CurrentIsWhole /\ StrandedByDeath /\ FailedIsStranded

-----------------------------------------------------------------------------
LEMMA FreeAt == Free.at = "free"
  BY DEF Free

LEMMA AtApart ==
  ASSUME NEW at \in AtCapability
  PROVE  at # "free" /\ at # "failed" /\ at \notin AtSource
  BY DEF AtCapability, AtSource

LEMMA InitIInv == ASSUME RegistrationInit PROVE IInv
<1>1. WorkType
  BY StartupAssumption DEF RegistrationInit, WorkType, Workers, Seeding, Free, RequestJobs,
     StartupJobs, AtCapability
<1>2. JobsPrepared
  BY DEF RegistrationInit, JobsPrepared, Workers, Seeding, Free
<1>3. CurrentIsWhole /\ StrandedByDeath /\ FailedIsStranded
  BY DEF RegistrationInit, CurrentIsWhole, StrandedByDeath, FailedIsStranded, Stranded,
     Workers, Seeding
<1> QED
  BY <1>1, <1>2, <1>3 DEF IInv

(* A request that starts holds nothing yet.                                *)
LEMMA StartsKeeps ==
  ASSUME NEW t \in RThreads, NEW job \in RequestJobs, IInv,
         job.at \in {"save", "package", "find package"}, Starts(t, job),
         UNCHANGED <<packaged, versions, current, serving, died>>
  PROVE  IInv'
<1>1. /\ t \in Workers /\ t # Startup /\ Startup \in Workers /\ serving
      /\ work[t].at = "free" /\ work' = [work EXCEPT ![t] = job]
      /\ work \in [Workers -> RequestJobs \cup StartupJobs]
  <2>1. t \in Workers /\ t # Startup /\ Startup \in Workers
    BY StartupAssumption DEF Workers
  <2>2. serving /\ work[t] = Free /\ work' = [work EXCEPT ![t] = job]
    BY DEF Starts
  <2>3. work[t].at = "free"
    BY <2>2, FreeAt
  <2>4. work \in [Workers -> RequestJobs \cup StartupJobs]
    BY DEF IInv, WorkType
  <2> QED
    BY <2>1, <2>2, <2>3, <2>4
<1>2. /\ work'[t] = job /\ work'[Startup] = work[Startup]
      /\ \A w \in Workers \ {t} : work'[w] = work[w]
  BY <1>1
<1>3. WorkType'
  BY <1>1, <1>2 DEF IInv, WorkType, Workers
<1>4. JobsPrepared'
  BY <1>1, <1>2 DEF IInv, JobsPrepared
<1>5. StrandedByDeath'
  BY <1>1, <1>2 DEF IInv, StrandedByDeath, Stranded
<1>6. CurrentIsWhole' /\ FailedIsStranded'
  BY <1>1, <1>2 DEF IInv, CurrentIsWhole, FailedIsStranded, Stranded
<1> QED
  BY <1>3, <1>4, <1>5, <1>6 DEF IInv

LEMMA BeginSourceKeeps ==
  ASSUME IInv, NEW t \in RThreads, NEW key \in Keys, NEW name \in Names,
         NEW given \in BOOLEAN, BeginSource(t, given, key, name)
  PROVE  IInv'
<1> DEFINE job == [at |-> "save", key |-> key, name |-> name, cap |-> Nothing]
<1>1. job \in RequestJobs /\ job.at = "save"
  BY DEF RequestJobs, SourceJobs, AtSource
<1>2. Starts(t, job) /\ UNCHANGED <<packaged, versions, current, serving, died>>
  BY DEF BeginSource
<1> QED
  BY <1>1, <1>2, StartsKeeps

LEMMA BeginConnectorKeeps ==
  ASSUME IInv, NEW t \in RThreads, NEW key \in Keys, NEW name \in Names,
         NEW cap \in Capabilities, NEW version \in Versions,
         BeginConnector(t, key, name, cap, version)
  PROVE  IInv'
<1> DEFINE job == [at |-> IF sources[key] # Nothing THEN "package" ELSE "save",
                   key |-> key, name |-> name, cap |-> cap, version |-> version]
<1>1. job \in RequestJobs /\ job.at \in {"save", "package"}
  BY DEF RequestJobs, ConnectorJobs, AtSource, AtCapability
<1>2. Starts(t, job) /\ UNCHANGED <<packaged, versions, current, serving, died>>
  BY DEF BeginConnector
<1> QED
  BY <1>1, <1>2, StartsKeeps

LEMMA BeginCapabilityKeeps ==
  ASSUME IInv, NEW t \in RThreads, NEW cap \in Capabilities, NEW version \in Versions,
         BeginCapability(t, cap, version)
  PROVE  IInv'
<1> DEFINE job == [at |-> "find package", cap |-> cap, version |-> version]
<1>1. job \in RequestJobs /\ job.at = "find package"
  BY DEF RequestJobs, CapabilityJobs, AtCapability
<1>2. Starts(t, job) /\ UNCHANGED <<packaged, versions, current, serving, died>>
  BY DEF BeginCapability
<1> QED
  BY <1>1, <1>2, StartsKeeps

-----------------------------------------------------------------------------
(* A worker that works on a capability has one, and a version.             *)
LEMMA JobOf ==
  ASSUME IInv, NEW w \in Workers, work[w].at \in AtCapability
  PROVE  /\ work[w].cap \in Capabilities /\ work[w].version \in Versions
         /\ w = Startup => ~serving /\ work[w].cap = Known /\ work[w].version = 1
         /\ w # Startup => serving
<1>1. CASE w = Startup
  <2>1. ~serving /\ work[w] \in StartupJobs
    BY <1>1, FreeAt, AtApart DEF IInv, WorkType
  <2> QED
    BY <1>1, <2>1, KnownAssumption, NothingAssumption DEF StartupJobs
<1>2. CASE w \in RThreads
  <2>1. work[w] # Free /\ work[w].at \notin AtSource
    BY FreeAt, AtApart
  <2>2. work[w] \in RequestJobs /\ serving
    BY <1>2, <2>1 DEF IInv, WorkType
  <2>3. work[w] \in ConnectorJobs \cup CapabilityJobs
    BY <2>1, <2>2 DEF RequestJobs, SourceJobs
  <2> QED
    BY <1>2, <2>2, <2>3, StartupAssumption DEF ConnectorJobs, CapabilityJobs
<1> QED
  BY <1>1, <1>2 DEF Workers

(* Its next step keeps the form of its work.                               *)
LEMMA BecomesKeepsType ==
  ASSUME IInv, NEW w \in Workers, work[w].at \in AtCapability, NEW at, Becomes(w, at),
         at \in AtCapability \/ (at = "failed" /\ w = Startup),
         UNCHANGED <<current, serving>>
  PROVE  /\ WorkType'
         /\ work'[w].at = at /\ work'[w].cap = work[w].cap /\ work'[w].version = work[w].version
         /\ \A other \in Workers \ {w} : work'[other] = work[other]
<1>1. work \in [Workers -> RequestJobs \cup StartupJobs] /\ Startup \in Workers
  BY DEF IInv, WorkType, Workers
<1>2. /\ work' = [work EXCEPT ![w] = [work[w] EXCEPT !.at = at]]
      /\ work'[w] = [work[w] EXCEPT !.at = at]
      /\ \A other \in Workers \ {w} : work'[other] = work[other]
  BY <1>1 DEF Becomes
<1>3. CASE w = Startup
  <2>1. ~serving /\ work[w] \in StartupJobs
    BY <1>3, FreeAt, AtApart DEF IInv, WorkType
  <2>2. work'[w] \in StartupJobs
    BY <1>2, <2>1 DEF StartupJobs
  <2>3. WorkType'
    BY <1>1, <1>2, <1>3, <2>1, <2>2, StartupAssumption DEF IInv, WorkType, Workers
  <2> QED
    BY <1>2, <2>1, <2>3 DEF StartupJobs
<1>4. CASE w \in RThreads
  <2>1. work[w] # Free /\ work[w].at \notin AtSource /\ at \in AtCapability
    BY <1>4, FreeAt, AtApart, StartupAssumption
  <2>2. work[w] \in RequestJobs /\ serving
    BY <1>4, <2>1 DEF IInv, WorkType
  <2>3. work[w] \in ConnectorJobs \cup CapabilityJobs
    BY <2>1, <2>2 DEF RequestJobs, SourceJobs
  <2>4. work'[w] \in ConnectorJobs \cup CapabilityJobs
    BY <1>2, <2>1, <2>3 DEF ConnectorJobs, CapabilityJobs
  <2>5. WorkType'
    BY <1>1, <1>2, <1>4, <2>2, <2>4, StartupAssumption DEF IInv, WorkType, Workers, RequestJobs
  <2> QED
    BY <1>2, <2>3, <2>5 DEF ConnectorJobs, CapabilityJobs
<1> QED
  BY <1>3, <1>4 DEF Workers

LEMMA EndsKeepsType ==
  ASSUME IInv, NEW w \in Workers, Ends(w),
         serving' = (serving \/ w = Startup),
         current' \in [Capabilities -> Versions \cup {Nothing}]
  PROVE  /\ WorkType'
         /\ work'[w] = Free
         /\ \A other \in Workers \ {w} : work'[other] = work[other]
<1>1. work \in [Workers -> RequestJobs \cup StartupJobs] /\ Startup \in Workers
  BY DEF IInv, WorkType, Workers
<1>2. work'[w] = Free /\ \A other \in Workers \ {w} : work'[other] = work[other]
  BY <1>1 DEF Ends
<1>3. work' \in [Workers -> RequestJobs \cup StartupJobs]
  BY <1>1 DEF Ends, RequestJobs
<1> QED
  BY <1>1, <1>2, <1>3, StartupAssumption DEF IInv, WorkType, Workers, RequestJobs

-----------------------------------------------------------------------------
(* A source is saved and audited by a request.                             *)
LEMMA AtOfSource ==
  ASSUME IInv, NEW w \in Workers, work[w].at \in AtSource
  PROVE  /\ w \in RThreads /\ w # Startup /\ serving
         /\ work[w] \in SourceJobs \cup ConnectorJobs
         /\ work[w].at \notin AtCapability
<1>1. work[w].at # "free" /\ work[w].at # "failed" /\ work[w].at \notin AtCapability
  BY DEF AtCapability, AtSource
<1>2. w # Startup
  <2> SUFFICES ASSUME w = Startup PROVE FALSE
    OBVIOUS
  <2>1. work[w] \in StartupJobs
    BY <1>1, FreeAt DEF IInv, WorkType
  <2> QED
    BY <2>1, <1>1 DEF StartupJobs
<1>3. w \in RThreads /\ work[w] \in RequestJobs /\ work[w] # Free
  BY <1>1, <1>2, FreeAt DEF IInv, WorkType, Workers
<1> QED
  BY <1>1, <1>2, <1>3 DEF RequestJobs, CapabilityJobs, IInv, WorkType

LEMMA SourceBecomesKeeps ==
  ASSUME IInv, NEW w \in Workers, work[w].at \in AtSource,
         NEW at, at = "audit" \/ (at = "package" /\ work[w].cap # Nothing), Becomes(w, at),
         UNCHANGED <<packaged, versions, current, serving, died>>
  PROVE  IInv'
<1>1. at # "current" /\ at # "version" /\ work[w].at # "current"
  BY DEF AtSource
<1>2. /\ w \in RThreads /\ w # Startup /\ serving /\ work[w] \in SourceJobs \cup ConnectorJobs
      /\ work \in [Workers -> RequestJobs \cup StartupJobs] /\ Startup \in Workers
  BY AtOfSource DEF IInv, WorkType, Workers
<1>3. /\ work'[w] = [work[w] EXCEPT !.at = at]
      /\ work' = [work EXCEPT ![w] = [work[w] EXCEPT !.at = at]]
      /\ \A other \in Workers \ {w} : work'[other] = work[other]
      /\ UNCHANGED <<packaged, versions, current, serving, died>>
  BY <1>2 DEF Becomes
<1>4. work'[w] \in SourceJobs \cup ConnectorJobs /\ work'[w].at = at
  BY <1>2, <1>3 DEF SourceJobs, ConnectorJobs, AtSource, AtCapability
<1>5. WorkType'
  BY <1>2, <1>3, <1>4 DEF IInv, WorkType, RequestJobs, Workers
<1>6. JobsPrepared'
  BY <1>1, <1>3, <1>4 DEF IInv, JobsPrepared
<1>7. StrandedByDeath'
  BY <1>1, <1>3 DEF IInv, StrandedByDeath, Stranded
<1>8. CurrentIsWhole' /\ FailedIsStranded'
  BY <1>2, <1>3 DEF IInv, CurrentIsWhole, FailedIsStranded, Stranded
<1> QED
  BY <1>5, <1>6, <1>7, <1>8 DEF IInv

(* A worker that ends, other than by storing a current version, held       *)
(* nothing that was prepared.                                              *)
LEMMA EndsKeeps ==
  ASSUME IInv, NEW w \in Workers, Ends(w), work[w].at # "current",
         serving' = (serving \/ w = Startup), serving \/ w = Startup,
         UNCHANGED <<packaged, versions, current, died>>
  PROVE  IInv'
<1>1. /\ WorkType' /\ work'[w] = Free /\ work'[w].at = "free"
      /\ \A other \in Workers \ {w} : work'[other] = work[other]
  BY EndsKeepsType, FreeAt DEF IInv, WorkType
<1>2. JobsPrepared'
  BY <1>1 DEF IInv, JobsPrepared
<1>3. StrandedByDeath'
  BY <1>1 DEF IInv, StrandedByDeath, Stranded
<1>4. CurrentIsWhole' /\ FailedIsStranded'
  BY <1>1, FreeAt DEF IInv, CurrentIsWhole, FailedIsStranded, Stranded, Workers
<1> QED
  BY <1>1, <1>2, <1>3, <1>4 DEF IInv

(* A worker that goes on to another step than the two last ones.           *)
LEMMA BecomesKeeps ==
  ASSUME IInv, NEW w \in Workers, work[w].at \in AtCapability, work[w].at # "current",
         NEW at \in AtCapability, Becomes(w, at), at # "current",
         at = "version" => work[w].cap \in packaged',
         packaged \subseteq packaged', UNCHANGED <<versions, current, serving, died>>
  PROVE  IInv'
<1>1. /\ WorkType'
      /\ work'[w].at = at /\ work'[w].cap = work[w].cap /\ work'[w].version = work[w].version
      /\ \A other \in Workers \ {w} : work'[other] = work[other]
  BY BecomesKeepsType
<1>2. JobsPrepared'
  BY <1>1 DEF IInv, JobsPrepared
<1>3. StrandedByDeath'
  BY <1>1 DEF IInv, StrandedByDeath, Stranded
<1>4. CurrentIsWhole'
  BY <1>1 DEF IInv, CurrentIsWhole
<1>5. FailedIsStranded'
  BY <1>1, AtApart DEF IInv, FailedIsStranded, Stranded, Workers
<1> QED
  BY <1>1, <1>2, <1>3, <1>4, <1>5 DEF IInv

-----------------------------------------------------------------------------
LEMMA SaveSourceKeeps ==
  ASSUME IInv, NEW w \in Workers, SaveSource(w)
  PROVE  IInv'
<1>1. work[w].at \in AtSource
  BY DEF SaveSource, AtSource
<1> QED
  BY <1>1, SourceBecomesKeeps DEF SaveSource

LEMMA AuditSourceKeeps ==
  ASSUME IInv, NEW w \in Workers, AuditSource(w)
  PROVE  IInv'
<1>1. work[w].at \in AtSource /\ work[w].at # "current"
  BY DEF AuditSource, AtSource
<1>2. UNCHANGED <<packaged, versions, current, serving, died>>
  BY DEF AuditSource
<1>3. CASE work[w].cap = Nothing
  <2>1. Ends(w)
    BY <1>3 DEF AuditSource
  <2>2. serving /\ w # Startup
    BY <1>1, AtOfSource
  <2> QED
    BY <1>1, <1>2, <2>1, <2>2, EndsKeeps
<1>4. CASE work[w].cap # Nothing
  <2>1. Becomes(w, "package")
    BY <1>4 DEF AuditSource
  <2> QED
    BY <1>1, <1>2, <1>4, <2>1, SourceBecomesKeeps
<1> QED
  BY <1>3, <1>4

LEMMA EnsurePackageKeeps ==
  ASSUME IInv, NEW w \in Workers, EnsurePackage(w)
  PROVE  IInv'
<1> DEFINE at == IF work[w].at = "package" THEN "capability" ELSE "version"
<1>1. at \in AtCapability /\ at # "current" /\ work[w].at \in AtCapability /\ work[w].at # "current"
  BY DEF EnsurePackage, AtCapability
<1>2. /\ Becomes(w, at) /\ packaged' = packaged \cup {work[w].cap}
      /\ UNCHANGED <<versions, current, serving, died>>
  BY DEF EnsurePackage
<1> HIDE DEF at
<1> QED
  BY <1>1, <1>2, BecomesKeeps

LEMMA FindCapabilityKeeps ==
  ASSUME IInv, NEW w \in Workers, FindCapability(w)
  PROVE  IInv'
<1> DEFINE cap == work[w].cap
           refused == <<cap, work[w].version>> \in versions
<1>1. /\ work[w].at = "capability" /\ UNCHANGED <<packaged, versions, current, died>>
      /\ serving' = (serving \/ (w = Startup /\ current[cap] # Nothing))
  BY DEF FindCapability
<1>2. work[w].at \in AtCapability /\ work[w].at # "current"
  BY <1>1 DEF AtCapability
<1>3. /\ cap \in Capabilities /\ work[w].version \in Versions
      /\ w = Startup => ~serving /\ cap = Known
      /\ w # Startup => serving
  BY <1>2, JobOf
<1>4. CASE current[cap] # Nothing \/ (refused /\ w # Startup)
  <2>1. Ends(w)
    BY <1>4 DEF FindCapability
  <2>2. serving' = (serving \/ w = Startup)
    BY <1>1, <1>3, <1>4
  <2> QED
    BY <1>1, <1>2, <1>3, <2>1, <2>2, EndsKeeps
<1>5. CASE current[cap] = Nothing /\ ~refused
  <2>1. Becomes(w, "find package") /\ serving' = serving
    BY <1>1, <1>5 DEF FindCapability, IInv, WorkType
  <2>2. "find package" \in AtCapability /\ "find package" # "current" /\ "find package" # "version"
    BY DEF AtCapability
  <2> QED
    BY <1>1, <1>2, <2>1, <2>2, BecomesKeeps
<1>6. CASE current[cap] = Nothing /\ refused /\ w = Startup
  <2>1. Becomes(w, "failed") /\ serving' = serving
    BY <1>1, <1>6 DEF FindCapability, IInv, WorkType
  <2>2. /\ WorkType' /\ work'[w].at = "failed"
        /\ \A other \in Workers \ {w} : work'[other] = work[other]
    BY <1>1, <1>2, <1>6, <2>1, BecomesKeepsType
  <2>3. JobsPrepared'
    BY <1>1, <2>2 DEF IInv, JobsPrepared
  <2>4. StrandedByDeath'
    BY <1>1, <2>2 DEF IInv, StrandedByDeath, Stranded
  <2>5. CurrentIsWhole' /\ FailedIsStranded'
    BY <1>1, <1>3, <1>6 DEF IInv, CurrentIsWhole, FailedIsStranded, Stranded
  <2> QED
    BY <2>2, <2>3, <2>4, <2>5 DEF IInv
<1> QED
  BY <1>4, <1>5, <1>6

(* The version is stored first: until the worker stores the current one,   *)
(* the capability may be stranded, and it is this worker that it waits for. *)
LEMMA SaveVersionKeeps ==
  ASSUME IInv, NEW w \in Workers, SaveVersion(w)
  PROVE  IInv'
<1>1. /\ work[w].at = "version" /\ Becomes(w, "current")
      /\ versions' = versions \cup {<<work[w].cap, work[w].version>>}
      /\ UNCHANGED <<packaged, current, serving, died>>
  BY DEF SaveVersion
<1>2. work[w].at \in AtCapability /\ work[w].at # "current" /\ "current" \in AtCapability
  BY <1>1 DEF AtCapability
<1>3. work[w].cap \in packaged
  BY <1>1 DEF IInv, JobsPrepared
<1>4. /\ WorkType' /\ work'[w].at = "current"
      /\ work'[w].cap = work[w].cap /\ work'[w].version = work[w].version
      /\ \A other \in Workers \ {w} : work'[other] = work[other]
  BY <1>1, <1>2, BecomesKeepsType
<1>5. JobsPrepared'
  BY <1>1, <1>3, <1>4 DEF IInv, JobsPrepared
<1>6. StrandedByDeath'
  <2> SUFFICES ASSUME NEW cap \in Capabilities, Stranded(cap)', ~died
               PROVE  \E x \in Workers : work'[x].at = "current" /\ work'[x].cap = cap
    BY <1>1 DEF StrandedByDeath
  <2>1. CASE cap = work[w].cap
    BY <1>4, <2>1
  <2>2. CASE cap # work[w].cap
    <3>1. Stranded(cap)
      BY <1>1, <2>2 DEF Stranded
    <3>2. PICK x \in Workers : work[x].at = "current" /\ work[x].cap = cap
      BY <3>1 DEF IInv, StrandedByDeath
    <3> QED
      BY <1>1, <1>4, <3>2
  <2> QED
    BY <2>1, <2>2
<1>7. CurrentIsWhole' /\ FailedIsStranded'
  BY <1>1, <1>4, AtApart DEF IInv, CurrentIsWhole, FailedIsStranded, Stranded, Workers, AtCapability
<1> QED
  BY <1>4, <1>5, <1>6, <1>7 DEF IInv

LEMMA SaveCurrentKeeps ==
  ASSUME IInv, NEW w \in Workers, SaveCurrent(w)
  PROVE  IInv'
<1>1. /\ work[w].at = "current" /\ Ends(w)
      /\ current' = [current EXCEPT ![work[w].cap] = work[w].version]
      /\ serving' = (serving \/ w = Startup)
      /\ UNCHANGED <<packaged, versions, died>>
  BY DEF SaveCurrent
<1>2. /\ work[w].cap \in Capabilities /\ work[w].version \in Versions
      /\ work[w].version # Nothing
      /\ w # Startup => serving
  BY <1>1, JobOf, NothingAssumption DEF AtCapability
<1>3. /\ current \in [Capabilities -> Versions \cup {Nothing}]
      /\ current' \in [Capabilities -> Versions \cup {Nothing}]
      /\ current'[work[w].cap] = work[w].version
      /\ \A cap \in Capabilities \ {work[w].cap} : current'[cap] = current[cap]
  BY <1>1, <1>2 DEF IInv, WorkType
<1>4. work[w].cap \in packaged /\ <<work[w].cap, work[w].version>> \in versions
  BY <1>1 DEF IInv, JobsPrepared
<1>5. /\ WorkType' /\ work'[w] = Free /\ work'[w].at = "free"
      /\ \A other \in Workers \ {w} : work'[other] = work[other]
  BY <1>1, <1>3, EndsKeepsType, FreeAt
<1>6. JobsPrepared'
  BY <1>1, <1>5 DEF IInv, JobsPrepared
<1>7. CurrentIsWhole'
  BY <1>1, <1>3, <1>4 DEF IInv, CurrentIsWhole
<1>8. StrandedByDeath'
  BY <1>1, <1>2, <1>3, <1>5 DEF IInv, StrandedByDeath, Stranded
<1>9. FailedIsStranded'
  <2>1. serving'
    BY <1>1, <1>2
  <2>2. work'[Startup] = Free
    BY <2>1, <1>5 DEF WorkType
  <2> QED
    BY <2>2, FreeAt DEF FailedIsStranded
<1> QED
  BY <1>5, <1>6, <1>7, <1>8, <1>9 DEF IInv

LEMMA DiesKeeps ==
  ASSUME IInv, Dies
  PROVE  IInv'
<1>1. /\ work' = [w \in Workers |-> IF w = Startup THEN Seeding ELSE Free]
      /\ serving' = FALSE /\ UNCHANGED <<packaged, versions, current>>
      /\ died' = (died \/ \E w \in Workers : work[w].at \notin {"free", "failed"})
  BY DEF Dies
<1>2. WorkType'
  BY <1>1, StartupAssumption
     DEF IInv, WorkType, Workers, Seeding, RequestJobs, StartupJobs, AtCapability
<1>3. \A w \in Workers : work'[w].at \notin {"version", "current", "failed"}
  BY <1>1, FreeAt DEF Seeding
<1>4. StrandedByDeath'
  BY <1>1 DEF IInv, StrandedByDeath, Stranded
<1> QED
  BY <1>1, <1>2, <1>3, <1>4
     DEF IInv, JobsPrepared, CurrentIsWhole, FailedIsStranded, Stranded, Workers

LEMMA StutterKeeps ==
  ASSUME IInv, UNCHANGED registrationVars
  PROVE  IInv'
BY DEF registrationVars, IInv, WorkType, JobsPrepared, CurrentIsWhole, StrandedByDeath,
       FailedIsStranded, Stranded

(* The inductive invariant of the registrations.                           *)
THEOREM RegistrationIInv == Spec => []IInv
<1>1. SourcesInit => IInv
  BY InitIInv DEF SourcesInit
<1>2. IInv /\ [Next]_sourceVars => IInv'
  <2> SUFFICES ASSUME IInv, [Next]_sourceVars PROVE IInv'
    OBVIOUS
  <2>1. CASE UNCHANGED registrationVars
    BY <2>1, StutterKeeps
  <2>2. CASE RegistrationNext
    BY <2>2, DiesKeeps, BeginSourceKeeps, BeginConnectorKeeps, BeginCapabilityKeeps,
       SaveSourceKeeps, AuditSourceKeeps, EnsurePackageKeeps, FindCapabilityKeeps,
       SaveVersionKeeps, SaveCurrentKeeps DEF RegistrationNext
  <2> QED
    BY <2>1, <2>2 DEF Next, sourceVars
<1> QED
  BY <1>1, <1>2, PTL DEF Spec

(* Whatever overlaps and whenever the process dies, a current capability   *)
(* has its package and its version, and only a death between the two       *)
(* stores keeps the process from starting again                            *)
(* (capability_registry_service.py, register_capability; main.py).         *)
THEOREM CapabilitiesStayWhole == Spec => []CapabilitiesAreWhole
<1>1. IInv => CapabilitiesAreWhole
  <2> SUFFICES ASSUME IInv PROVE CapabilitiesAreWhole
    OBVIOUS
  <2>1. ASSUME Idle, NEW cap \in Capabilities, Stranded(cap) PROVE died
    BY <2>1 DEF IInv, StrandedByDeath, Idle
  <2> QED
    BY <2>1 DEF CapabilitiesAreWhole, IInv, CurrentIsWhole, FailedIsStranded
<1> QED
  BY <1>1, RegistrationIInv, PTL

-----------------------------------------------------------------------------
(* As long as no two registrations overlapped, at most one worker is busy, *)
(* and what it is about to save or to audit is as it found it.             *)
SourceType ==
  /\ sources \in [Keys -> Names \cup {Nothing}]
  /\ audited \subseteq Keys \X Names

OneBusy == \A a, b \in Workers : work[a] # Free /\ work[b] # Free => a = b

NewSource(key, name) == ~NameTaken(name) /\ (key \in derived \/ ~IdTaken(key))

SavesNew == \A w \in Workers : work[w].at = "save" => NewSource(work[w].key, work[w].name)

AuditsSaved == \A w \in Workers : work[w].at = "audit" => sources[work[w].key] = work[w].name

NamesApart == \A a, b \in Registered : a # b => sources[a] # sources[b]

IdsApart ==
  \A a, b \in Registered : a # b /\ Lower(a) = Lower(b) => derived \cap {a, b} # {}

AuditedStored == \A entry \in audited : sources[entry[1]] = entry[2] \/ entry[1] \in derived

StoredAudited ==
  ~died => \A key \in Registered :
    \/ <<key, sources[key]>> \in audited
    \/ \E w \in Workers : work[w].at = "audit" /\ work[w].key = key

Orderly ==
  /\ OneBusy /\ SavesNew /\ AuditsSaved /\ NamesApart /\ IdsApart
  /\ AuditedStored /\ StoredAudited

UInv == SourceType /\ (~clashed => Orderly)

LEMMA InitUInv == ASSUME RegistrationInit PROVE UInv
<1>1. SourceType /\ Registered = {} /\ audited = {}
  BY DEF RegistrationInit, SourceType, Registered
<1>2. OneBusy
  BY DEF RegistrationInit, OneBusy
<1>3. SavesNew /\ AuditsSaved
  BY FreeAt DEF RegistrationInit, SavesNew, AuditsSaved, Seeding
<1> QED
  BY <1>1, <1>2, <1>3
     DEF UInv, Orderly, NamesApart, IdsApart, AuditedStored, StoredAudited

(* A request that starts alone, with a source that is new or with none.    *)
LEMMA StartsOrderly ==
  ASSUME NEW t \in RThreads, NEW job, IInv, UInv, Starts(t, job),
         job.at \in {"save", "package", "find package"},
         job.at = "save" => NewSource(job.key, job.name)', derived \subseteq derived',
         UNCHANGED <<sources, audited, died>>
  PROVE  UInv'
<1>1. SourceType' /\ Registered' = Registered
  BY DEF UInv, SourceType, Registered
<1> SUFFICES ASSUME ~clashed' PROVE Orderly'
  BY <1>1 DEF UInv
<1>2. /\ ~clashed /\ \A w \in Workers : work[w] = Free
      /\ work' = [work EXCEPT ![t] = job] /\ t \in Workers
  BY DEF Starts, Workers
<1>3. work'[t] = job /\ \A w \in Workers \ {t} : work'[w] = Free /\ work'[w].at = "free"
  BY <1>2, FreeAt DEF IInv, WorkType
<1>4. Orderly
  BY <1>2 DEF UInv
<1>5. OneBusy'
  BY <1>3 DEF OneBusy
<1>6. SavesNew' /\ AuditsSaved'
  BY <1>3 DEF SavesNew, AuditsSaved
<1>7. NamesApart' /\ IdsApart' /\ AuditedStored'
  BY <1>1, <1>4 DEF Orderly, NamesApart, IdsApart, AuditedStored
<1>8. StoredAudited'
  BY <1>1, <1>2, <1>4, FreeAt DEF Orderly, StoredAudited
<1> QED
  BY <1>5, <1>6, <1>7, <1>8 DEF Orderly

LEMMA BeginSourceOrderly ==
  ASSUME IInv, UInv, NEW t \in RThreads, NEW key \in Keys, NEW name \in Names,
         NEW given \in BOOLEAN, BeginSource(t, given, key, name)
  PROVE  UInv'
<1> DEFINE job == [at |-> "save", key |-> key, name |-> name, cap |-> Nothing]
<1>1. job.at = "save" /\ job.key = key /\ job.name = name
  OBVIOUS
<1>2. /\ Starts(t, job) /\ UNCHANGED <<sources, audited, died>>
      /\ derived' = IF given THEN derived ELSE derived \cup {key}
      /\ ~NameTaken(name) /\ (given => ~IdTaken(key))
  BY DEF BeginSource, MayRegister
<1>3. derived \subseteq derived' /\ NewSource(key, name)'
  BY <1>2 DEF NewSource, NameTaken, IdTaken, Registered
<1> HIDE DEF job
<1> QED
  BY <1>1, <1>2, <1>3, StartsOrderly

LEMMA BeginConnectorOrderly ==
  ASSUME IInv, UInv, NEW t \in RThreads, NEW key \in Keys, NEW name \in Names,
         NEW cap \in Capabilities, NEW version \in Versions,
         BeginConnector(t, key, name, cap, version)
  PROVE  UInv'
<1> DEFINE job(at) == [at |-> at, key |-> key, name |-> name, cap |-> cap, version |-> version]
<1>1. job("save").key = key /\ job("save").name = name
      /\ job("save").at = "save" /\ job("package").at = "package"
  OBVIOUS
<1>2. /\ Starts(t, IF sources[key] # Nothing THEN job("package") ELSE job("save"))
      /\ UNCHANGED <<sources, audited, died, derived>>
      /\ sources[key] # Nothing \/ (~NameTaken(name) /\ ~IdTaken(key))
  BY DEF BeginConnector, MayRegister
<1>3. derived \subseteq derived'
  BY <1>2
<1> HIDE DEF job
<1>4. CASE sources[key] # Nothing
  <2>1. Starts(t, job("package"))
    BY <1>2, <1>4
  <2> QED
    BY <1>1, <1>2, <1>3, <2>1, StartsOrderly
<1>5. CASE sources[key] = Nothing
  <2>1. Starts(t, job("save"))
    BY <1>2, <1>5
  <2>2. NewSource(key, name)'
    BY <1>2, <1>5 DEF NewSource, NameTaken, IdTaken, Registered
  <2> QED
    BY <1>1, <1>2, <1>3, <2>1, <2>2, StartsOrderly
<1> QED
  BY <1>4, <1>5

LEMMA BeginCapabilityOrderly ==
  ASSUME IInv, UInv, NEW t \in RThreads, NEW cap \in Capabilities, NEW version \in Versions,
         BeginCapability(t, cap, version)
  PROVE  UInv'
<1> DEFINE job == [at |-> "find package", cap |-> cap, version |-> version]
<1>1. job.at = "find package"
  OBVIOUS
<1>2. Starts(t, job) /\ UNCHANGED <<sources, audited, died, derived>>
  BY DEF BeginCapability
<1> HIDE DEF job
<1> QED
  BY <1>1, <1>2, StartsOrderly

(* What a step of a worker does to work.                                   *)
LEMMA StepOf ==
  ASSUME IInv, NEW w \in Workers, NEW at, at # "save", at # "audit", work[w].at # "free",
         Becomes(w, at) \/ Ends(w)
  PROVE  /\ work[w] # Free /\ work'[w].at \notin {"save", "audit"}
         /\ \A other \in Workers \ {w} : work'[other] = work[other]
<1>1. work \in [Workers -> RequestJobs \cup StartupJobs] /\ work[w] # Free
  BY FreeAt DEF IInv, WorkType
<1>2. CASE Becomes(w, at)
  <2>1. DOMAIN work[w] = DOMAIN [work[w] EXCEPT !.at = at] /\ "at" \in DOMAIN work[w]
    BY <1>1 DEF RequestJobs, SourceJobs, ConnectorJobs, CapabilityJobs, StartupJobs, Free
  <2>2. work'[w] = [work[w] EXCEPT !.at = at]
        /\ \A other \in Workers \ {w} : work'[other] = work[other]
    BY <1>1, <1>2 DEF Becomes
  <2> QED
    BY <1>1, <2>1, <2>2
<1>3. CASE Ends(w)
  BY <1>1, <1>3, FreeAt DEF Ends
<1> QED
  BY <1>2, <1>3

(* The steps of a worker that is past its source.                          *)
LEMMA LaterOrderly ==
  ASSUME IInv, UInv, NEW w \in Workers, NEW at, at # "save", at # "audit",
         work[w].at \in AtCapability, Becomes(w, at) \/ Ends(w),
         UNCHANGED <<sources, audited, clashed, died, derived>>
  PROVE  UInv'
<1>1. SourceType' /\ Registered' = Registered
  BY DEF UInv, SourceType, Registered
<1> SUFFICES ASSUME ~clashed PROVE Orderly'
  BY <1>1 DEF UInv
<1>2. /\ work[w] # Free /\ work'[w].at \notin {"save", "audit"}
      /\ work[w].at # "save" /\ work[w].at # "audit"
      /\ \A other \in Workers \ {w} : work'[other] = work[other]
  BY AtApart, StepOf DEF AtSource
<1>3. Orderly
  BY DEF UInv
<1>4. OneBusy'
  BY <1>2, <1>3 DEF Orderly, OneBusy
<1>5. SavesNew' /\ AuditsSaved'
  BY <1>2, <1>3 DEF Orderly, SavesNew, AuditsSaved, NewSource, NameTaken, IdTaken, Registered
<1>6. NamesApart' /\ IdsApart' /\ AuditedStored'
  BY <1>1, <1>3 DEF Orderly, NamesApart, IdsApart, AuditedStored
<1>7. StoredAudited'
  BY <1>1, <1>2, <1>3 DEF Orderly, StoredAudited
<1> QED
  BY <1>4, <1>5, <1>6, <1>7 DEF Orderly

(* The record is stored under an id and with a name that nobody has, or    *)
(* under an id that was made of a name.                                    *)
LEMMA SaveSourceOrderly ==
  ASSUME IInv, UInv, NEW w \in Workers, SaveSource(w)
  PROVE  UInv'
<1> DEFINE k == work[w].key
           n == work[w].name
<1>1. /\ work[w].at = "save" /\ sources' = [sources EXCEPT ![k] = n] /\ Becomes(w, "audit")
      /\ UNCHANGED <<audited, clashed, died, derived>>
  BY DEF SaveSource
<1>2. work[w].at \in AtSource
  BY <1>1 DEF AtSource
<1>3. /\ work \in [Workers -> RequestJobs \cup StartupJobs]
      /\ work[w] \in SourceJobs \cup ConnectorJobs
  BY <1>2, AtOfSource DEF IInv, WorkType
<1>4. k \in Keys /\ n \in Names /\ n # Nothing
  BY <1>3, NothingAssumption DEF SourceJobs, ConnectorJobs
<1>5. /\ work'[w] = [work[w] EXCEPT !.at = "audit"]
      /\ \A other \in Workers \ {w} : work'[other] = work[other]
  BY <1>1, <1>3 DEF Becomes
<1>6. work'[w].at = "audit" /\ work'[w].key = k /\ work'[w].name = n
  BY <1>3, <1>5 DEF SourceJobs, ConnectorJobs
<1>7. /\ sources \in [Keys -> Names \cup {Nothing}] /\ audited \subseteq Keys \X Names
      /\ sources'[k] = n /\ \A key \in Keys \ {k} : sources'[key] = sources[key]
      /\ SourceType'
  BY <1>1, <1>4 DEF UInv, SourceType
<1>8. Registered' = Registered \cup {k}
  BY <1>4, <1>7 DEF Registered
<1> SUFFICES ASSUME ~clashed PROVE Orderly'
  BY <1>1, <1>7 DEF UInv
<1>9. Orderly /\ ~NameTaken(n) /\ (k \in derived \/ ~IdTaken(k))
  BY <1>1 DEF UInv, Orderly, SavesNew, NewSource
<1>10. work[w] # Free /\ \A other \in Workers \ {w} : work[other] = Free
  BY <1>2, <1>9, FreeAt DEF AtSource, Orderly, OneBusy
<1>11. \A other \in Workers \ {w} : work'[other] = Free /\ work'[other].at = "free"
  BY <1>5, <1>10, FreeAt
<1> HIDE DEF k, n
<1>12. OneBusy'
  BY <1>11 DEF OneBusy
<1>13. SavesNew' /\ AuditsSaved'
  BY <1>6, <1>7, <1>11 DEF SavesNew, AuditsSaved
<1>14. NamesApart'
  BY <1>7, <1>8, <1>9 DEF Orderly, NamesApart, NameTaken, Registered
<1>15. IdsApart'
  BY <1>1, <1>8, <1>9 DEF Orderly, IdsApart, IdTaken
<1>16. AuditedStored'
  <2> SUFFICES ASSUME NEW entry \in audited
               PROVE  sources'[entry[1]] = entry[2] \/ entry[1] \in derived
    BY <1>1 DEF AuditedStored
  <2>1. entry[1] \in Keys /\ entry[2] \in Names
    BY <1>7
  <2>2. sources[entry[1]] = entry[2] \/ entry[1] \in derived
    BY <1>9 DEF Orderly, AuditedStored
  <2>3. entry[1] = k => k \in derived
    BY <2>1, <2>2, <1>9, NothingAssumption DEF IdTaken, Registered
  <2> QED
    BY <1>7, <2>1, <2>2, <2>3
<1>17. StoredAudited'
  <2>1. \A x \in Workers : work[x].at # "audit"
    BY <1>1, <1>10, FreeAt
  <2> QED
    BY <1>1, <1>6, <1>7, <1>8, <1>9, <2>1 DEF Orderly, StoredAudited, Registered
<1> QED
  BY <1>12, <1>13, <1>14, <1>15, <1>16, <1>17 DEF Orderly

LEMMA AuditSourceOrderly ==
  ASSUME IInv, UInv, NEW w \in Workers, AuditSource(w)
  PROVE  UInv'
<1> DEFINE k == work[w].key
           n == work[w].name
<1>1. /\ work[w].at = "audit" /\ audited' = audited \cup {<<k, n>>}
      /\ Ends(w) \/ Becomes(w, "package")
      /\ UNCHANGED <<sources, clashed, died, derived>>
  BY DEF AuditSource
<1>2. /\ k \in Keys /\ n \in Names
  <2>1. work[w] \in SourceJobs \cup ConnectorJobs
    BY <1>1, AtOfSource DEF AtSource
  <2> QED
    BY <2>1 DEF SourceJobs, ConnectorJobs
<1>3. SourceType' /\ Registered' = Registered
  BY <1>1, <1>2 DEF UInv, SourceType, Registered
<1> SUFFICES ASSUME ~clashed PROVE Orderly'
  BY <1>1, <1>3 DEF UInv
<1>4. /\ work[w] # Free /\ work'[w].at \notin {"save", "audit"}
      /\ \A other \in Workers \ {w} : work'[other] = work[other]
  BY <1>1, StepOf
<1>5. Orderly /\ sources[k] = n
  BY <1>1 DEF UInv, Orderly, AuditsSaved
<1> HIDE DEF k, n
<1>6. OneBusy'
  BY <1>4, <1>5 DEF Orderly, OneBusy
<1>7. SavesNew' /\ AuditsSaved'
  BY <1>1, <1>4, <1>5
     DEF Orderly, SavesNew, AuditsSaved, NewSource, NameTaken, IdTaken, Registered
<1>8. NamesApart' /\ IdsApart' /\ AuditedStored'
  BY <1>1, <1>3, <1>5 DEF Orderly, NamesApart, IdsApart, AuditedStored
<1>9. StoredAudited'
  <2> SUFFICES ASSUME ~died, NEW key \in Registered
               PROVE  \/ <<key, sources[key]>> \in audited'
                      \/ \E x \in Workers : work'[x].at = "audit" /\ work'[x].key = key
    BY <1>1, <1>3 DEF StoredAudited
  <2>1. CASE key = k
    BY <1>1, <1>5, <2>1
  <2>2. CASE key # k
    BY <1>1, <1>4, <1>5, <2>2 DEF Orderly, StoredAudited, k
  <2> QED
    BY <2>1, <2>2
<1> QED
  BY <1>6, <1>7, <1>8, <1>9 DEF Orderly

LEMMA DiesOrderly ==
  ASSUME IInv, UInv, Dies
  PROVE  UInv'
<1>1. /\ work' = [w \in Workers |-> IF w = Startup THEN Seeding ELSE Free]
      /\ UNCHANGED <<sources, audited, clashed, derived>>
      /\ died' = (died \/ \E w \in Workers : work[w].at \notin {"free", "failed"})
  BY DEF Dies
<1>2. SourceType' /\ Registered' = Registered
  BY <1>1 DEF UInv, SourceType, Registered
<1>3. OneBusy'
  BY <1>1 DEF OneBusy
<1>4. SavesNew' /\ AuditsSaved'
  BY <1>1, FreeAt DEF SavesNew, AuditsSaved, Seeding
<1>5. ASSUME Orderly PROVE StoredAudited'
  BY <1>1, <1>2, <1>5 DEF Orderly, StoredAudited
<1>6. ASSUME Orderly PROVE NamesApart' /\ IdsApart' /\ AuditedStored'
  BY <1>1, <1>2, <1>6 DEF Orderly, NamesApart, IdsApart, AuditedStored
<1> QED
  BY <1>1, <1>2, <1>3, <1>4, <1>5, <1>6 DEF UInv, Orderly

LEMMA WorkerOrderly ==
  ASSUME IInv, UInv, NEW w \in Workers,
         EnsurePackage(w) \/ FindCapability(w) \/ SaveVersion(w) \/ SaveCurrent(w)
  PROVE  UInv'
<1>1. work[w].at \in AtCapability
  BY DEF EnsurePackage, FindCapability, SaveVersion, SaveCurrent, AtCapability
<1>2. UNCHANGED <<sources, audited, clashed, died, derived>>
  BY DEF EnsurePackage, FindCapability, SaveVersion, SaveCurrent
<1>3. PICK at \in {"capability", "version", "failed", "find package", "current"} :
        Becomes(w, at) \/ Ends(w)
  BY DEF EnsurePackage, FindCapability, SaveVersion, SaveCurrent
<1>4. at # "save" /\ at # "audit"
  OBVIOUS
<1> QED
  BY <1>1, <1>2, <1>3, <1>4, LaterOrderly

LEMMA StutterOrderly ==
  ASSUME UInv, UNCHANGED registrationVars
  PROVE  UInv'
BY DEF registrationVars, UInv, SourceType, Orderly, OneBusy, SavesNew, NewSource, NameTaken,
       IdTaken, AuditsSaved, NamesApart, IdsApart, AuditedStored, StoredAudited, Registered

(* Names and ids of sources are unique, and what is stored is what was     *)
(* audited, as long as registrations do not overlap                        *)
(* (source_registry_service.py, register_source; geospatial_connector.py). *)
THEOREM SourcesStayUnique == Spec => []SourcesAreUnique
<1>1. SourcesInit => UInv
  BY InitUInv DEF SourcesInit
<1>2. IInv /\ UInv /\ [Next]_sourceVars => UInv'
  <2> SUFFICES ASSUME IInv, UInv, [Next]_sourceVars PROVE UInv'
    OBVIOUS
  <2>1. CASE UNCHANGED registrationVars
    BY <2>1, StutterOrderly
  <2>2. CASE RegistrationNext
    BY <2>2, DiesOrderly, BeginSourceOrderly, BeginConnectorOrderly, BeginCapabilityOrderly,
       SaveSourceOrderly, AuditSourceOrderly, WorkerOrderly DEF RegistrationNext
  <2> QED
    BY <2>1, <2>2 DEF Next, sourceVars
<1>3. UInv => SourcesAreUnique
  <2> SUFFICES ASSUME Orderly PROVE SourcesAreUnique
    BY DEF UInv, SourcesAreUnique
  <2>1. \A entry \in audited : sources[entry[1]] = entry[2] \/ entry[1] \in derived
    BY DEF Orderly, AuditedStored
  <2>2. Idle /\ ~died => \A key \in Registered : <<key, sources[key]>> \in audited
    BY DEF Orderly, StoredAudited, Idle
  <2> QED
    BY <2>1, <2>2 DEF SourcesAreUnique, Orderly, NamesApart, IdsApart
<1> QED
  BY <1>1, <1>2, <1>3, RegistrationIInv, PTL DEF Spec
-----------------------------------------------------------------------------
(* The feeds: what is claimed to be verified was.  A claim is made by an   *)
(* instruction of a plan long before the listing shows it, and outlives    *)
(* the request in the registry's record, so all of them are in FeedInv:    *)
(* the records, the listing, and what each request has still to do.        *)
IsSeq(s) == \E S : s \in Seq(S)

(* A verification whose rows are still stored.                             *)
VerifiedAt(part, n) ==
  \E v \in verified :
    /\ v.part = part /\ v.at = n
    /\ feed # "regions" => \A id \in v.ids : rows[<<"records", id>>] # 0

(* A time that may be listed: a verification's, the regions' second reading *)
(* of the clock, or of two feeds a seeding's.                               *)
Stamped(part, n) ==
  \/ \E m : n \in {m, Stamp(m)} /\ VerifiedAt(part, m)
  \/ feed \in {"firms", "tomtom"} /\ n = Seeded

(* A manifest may store the status of a verification without its time.      *)
Claimed(part, status, n) ==
  status \in VerifiedStatuses => Stamped(part, n) \/ (feed \in Imagery /\ \E m : VerifiedAt(part, m))

EvidenceSound(part, evidence) ==
  evidence.status \in VerifiedStatuses \/ (feed \in Tiled /\ evidence.at # 0)
    => VerifiedAt(part, evidence.at)

RecordSound(part, record) ==
  /\ record = [fetch |-> record.fetch, stamp |-> record.stamp, evidence |-> record.evidence]
  /\ record.stamp # 0 => Stamped(part, record.stamp)
  /\ record.fetch = "STATIC_VERIFIED" => feed \in Static
  /\ Claimed(part, record.fetch, record.stamp)
  /\ EvidenceSound(part, record.evidence)

ListingSound(part, state) ==
  /\ state = [status |-> state.status, at |-> state.at]
  /\ state.at # 0 => Stamped(part, state.at)
  /\ Claimed(part, state.status, state.at)

(* What an instruction of a request that began at n claims was verified.    *)
MarkSound(i, n) ==
  /\ i.validated => VerifiedAt(i.part, n)
  /\ i.status = "STATIC_VERIFIED" => feed \in Static
  /\ i.status \in VerifiedStatuses =>
       i.validated \/ (feed \in Imagery /\ \E m : VerifiedAt(i.part, m))
  /\ EvidenceSound(i.part, i.evidence)

PlainSound(i, n) ==
  /\ i.op # "compare"
  /\ i.op \in {"load", "store", "remember", "downgrade"} => i.part \in Parts(feed)
  /\ i.op = "store" => MarkSound(i, n)
  /\ i.op = "remember" /\ i.status \in VerifiedStatuses => VerifiedAt(i.part, n)
  /\ i.op = "list" =>
       feed \in Imagery /\ (i.status \in VerifiedStatuses => \E m : VerifiedAt("main", m))
  /\ i.op = "manifest" => feed \in Imagery
  /\ i.op = "verify" => i.ids \in SUBSET Ids
  /\ i.op = "prune" => feed = "regions"

Loaded(s, k) == k > 1 /\ s[k - 1].op = "load" /\ s[k - 1].part = s[k].part

LoadsFirst(s) == IsSeq(s) /\ \A k \in 1..Len(s) : s[k].op = "store" => Loaded(s, k)

PlainPlan(s, n) == LoadsFirst(s) /\ \A k \in 1..Len(s) : PlainSound(s[k], n)

InstructionSound(i, n) ==
  IF i.op = "compare" THEN feed # "firms" /\ PlainPlan(i.good, n) /\ PlainPlan(i.bad, n)
  ELSE PlainSound(i, n)

PlanSound(s, n) == LoadsFirst(s) /\ \A k \in 1..Len(s) : InstructionSound(s[k], n)

(* Fires are not read back: what is verified is saved before.               *)
Saves(i, id) == i.op = "save" /\ i.table = "records" /\ i.id = id

FiresSaved(s) ==
  feed = "firms" =>
    \A k \in 1..Len(s) : s[k].op = "verify" =>
      \A id \in s[k].ids : rows[<<"records", id>>] # 0 \/ \E j \in 1..(k - 1) : Saves(s[j], id)

JobSound(job) ==
  /\ job = [todo |-> job.todo, at |-> job.at, held |-> job.held]
  /\ IsSeq(job.todo)
  /\ job.todo # <<>> => job.at \in Nat \ {0}
  /\ FiresSaved(job.todo)
  /\ \A k \in 1..Len(job.todo) :
       /\ InstructionSound(job.todo[k], job.at)
       /\ job.todo[k].op = "store" =>
            IF k = 1 THEN RecordSound(job.todo[k].part, job.held) ELSE Loaded(job.todo, k)

BundleSet == [ids : SUBSET Ids, valid : SUBSET Ids, version : Nat]

FeedType ==
  /\ feed \in Kinds \cup {"registration"}
  /\ requests \in Nat
  /\ rows = [row \in Tables \X Ids |-> rows[row]]
  /\ registry = [part \in Parts(feed) |-> registry[part]]
  /\ memory = [part \in Parts(feed) |-> memory[part]]
  /\ jobs = [t \in FThreads |-> jobs[t]]
  /\ bundle \in BundleSet /\ (feed \in Static => bundle.version # 0)
  /\ \A v \in verified : v.ids \in SUBSET Ids

RecordsSound == \A part \in Parts(feed) : RecordSound(part, registry[part])
ListingsSound == \A part \in Parts(feed) : ListingSound(part, memory[part])
JobsSound == \A t \in FThreads : JobSound(jobs[t])

FeedInv == FeedType /\ RecordsSound /\ ListingsSound /\ JobsSound

-----------------------------------------------------------------------------
(* What is verified stays so.                                              *)
Grows ==
  /\ feed' = feed /\ verified \subseteq verified'
  /\ feed # "regions" => \A id \in Ids : rows[<<"records", id>>] # 0 => rows'[<<"records", id>>] # 0

LEMMA VerifiedStays ==
  ASSUME FeedType, Grows
  PROVE  \A part, n : VerifiedAt(part, n) => VerifiedAt(part, n)'
<1> SUFFICES ASSUME NEW part, NEW n, VerifiedAt(part, n) PROVE VerifiedAt(part, n)'
  OBVIOUS
<1>1. PICK v \in verified :
        /\ v.part = part /\ v.at = n
        /\ feed # "regions" => \A id \in v.ids : rows[<<"records", id>>] # 0
  BY DEF VerifiedAt
<1>2. v \in verified' /\ v.ids \in SUBSET Ids
  BY DEF FeedType, Grows
<1>3. feed' # "regions" => \A id \in v.ids : rows'[<<"records", id>>] # 0
  BY <1>1, <1>2 DEF Grows
<1> QED
  BY <1>1, <1>2, <1>3 DEF VerifiedAt

LEMMA VerifiedIsStamped ==
  ASSUME NEW part, NEW n, VerifiedAt(part, n)
  PROVE  Stamped(part, n) /\ Stamped(part, Stamp(n))
<1>1. n \in {n, Stamp(n)} /\ Stamp(n) \in {n, Stamp(n)}
  OBVIOUS
<1> QED
  BY <1>1 DEF Stamped

LEMMA SoundnessStays ==
  ASSUME FeedType, Grows
  PROVE  /\ \A part, record : RecordSound(part, record) => RecordSound(part, record)'
         /\ \A part, state : ListingSound(part, state) => ListingSound(part, state)'
         /\ \A i, n : InstructionSound(i, n) => InstructionSound(i, n)'
<1>1. \A part, n : VerifiedAt(part, n) => VerifiedAt(part, n)'
  BY VerifiedStays
<1>2. feed' = feed
  BY DEF Grows
<1>3. \A part, n : Stamped(part, n) => Stamped(part, n)'
  <2>1. \A m : Stamp(m)' = Stamp(m)
    BY <1>2 DEF Stamp, Seeded
  <2> QED
    BY <1>1, <1>2, <2>1 DEF Stamped, Seeded
<1>4. \A part, status, n : Claimed(part, status, n) => Claimed(part, status, n)'
  BY <1>1, <1>2, <1>3 DEF Claimed
<1>5. \A part, e : EvidenceSound(part, e) => EvidenceSound(part, e)'
  BY <1>1, <1>2 DEF EvidenceSound
<1>6. \A i, n : PlainSound(i, n) => PlainSound(i, n)'
  BY <1>1, <1>2, <1>5 DEF PlainSound, MarkSound
<1>7. \A s, n : PlainPlan(s, n) => PlainPlan(s, n)'
  BY <1>6 DEF PlainPlan
<1>8. \A i, n : InstructionSound(i, n) => InstructionSound(i, n)'
  BY <1>2, <1>6, <1>7 DEF InstructionSound
<1> QED
  BY <1>2, <1>3, <1>4, <1>5, <1>8 DEF RecordSound, ListingSound

(* Plans of plans.                                                         *)
LEMMA LoadsFirstJoined ==
  ASSUME NEW p, NEW q, LoadsFirst(p), LoadsFirst(q)
  PROVE  /\ LoadsFirst(p \o q)
         /\ \A k \in 1..Len(p \o q) : \/ k \in 1..Len(p) /\ (p \o q)[k] = p[k]
                                      \/ k - Len(p) \in 1..Len(q) /\ (p \o q)[k] = q[k - Len(p)]
<1>1. PICK S : p \in Seq(S)
  BY DEF LoadsFirst, IsSeq
<1>2. PICK T : q \in Seq(T)
  BY DEF LoadsFirst, IsSeq
<1>3. p \in Seq(S \cup T) /\ q \in Seq(S \cup T)
  BY <1>1, <1>2
<1>4. /\ p \o q \in Seq(S \cup T)
      /\ Len(p \o q) = Len(p) + Len(q)
      /\ \A k \in 1..Len(p \o q) : (p \o q)[k] = IF k <= Len(p) THEN p[k] ELSE q[k - Len(p)]
  BY <1>3
<1>5. Len(p) \in Nat /\ Len(q) \in Nat
  BY <1>3
<1>6. \A k \in 1..Len(p \o q) : \/ k \in 1..Len(p) /\ (p \o q)[k] = p[k]
                                \/ k - Len(p) \in 1..Len(q) /\ (p \o q)[k] = q[k - Len(p)]
  BY <1>4, <1>5
<1>7. ASSUME NEW k \in 1..Len(p \o q), (p \o q)[k].op = "store"
      PROVE  Loaded(p \o q, k)
  <2>1. CASE k <= Len(p)
    <3>1. k \in 1..Len(p) /\ (p \o q)[k] = p[k]
      BY <1>4, <1>5, <2>1
    <3>2. Loaded(p, k)
      BY <1>7, <3>1 DEF LoadsFirst
    <3>3. k - 1 \in 1..Len(p \o q) /\ (p \o q)[k - 1] = p[k - 1]
      BY <1>4, <1>5, <2>1, <3>1, <3>2 DEF Loaded
    <3> QED
      BY <3>1, <3>2, <3>3 DEF Loaded
  <2>2. CASE k > Len(p)
    <3>1. k - Len(p) \in 1..Len(q) /\ (p \o q)[k] = q[k - Len(p)]
      BY <1>4, <1>5, <2>2
    <3>2. Loaded(q, k - Len(p))
      BY <1>7, <3>1 DEF LoadsFirst
    <3>3. k - 1 \in 1..Len(p \o q) /\ (p \o q)[k - 1] = q[k - Len(p) - 1] /\ k > 1
      BY <1>4, <1>5, <2>2, <3>1, <3>2 DEF Loaded
    <3> QED
      BY <3>1, <3>2, <3>3 DEF Loaded
  <2> QED
    BY <1>5, <2>1, <2>2
<1> QED
  BY <1>4, <1>6, <1>7 DEF LoadsFirst, IsSeq

LEMMA PlansJoined ==
  ASSUME NEW p, NEW q, NEW n
  PROVE  /\ PlainPlan(p, n) /\ PlainPlan(q, n) => PlainPlan(p \o q, n)
         /\ PlanSound(p, n) /\ PlanSound(q, n) => PlanSound(p \o q, n)
<1>1. ASSUME PlainPlan(p, n), PlainPlan(q, n) PROVE PlainPlan(p \o q, n)
  BY <1>1, LoadsFirstJoined DEF PlainPlan
<1>2. ASSUME PlanSound(p, n), PlanSound(q, n) PROVE PlanSound(p \o q, n)
  BY <1>2, LoadsFirstJoined DEF PlanSound
<1> QED
  BY <1>1, <1>2

LEMMA PlainIsSound ==
  ASSUME NEW p, NEW n, PlainPlan(p, n)
  PROVE  PlanSound(p, n)
  BY DEF PlainPlan, PlanSound, InstructionSound, PlainSound

-----------------------------------------------------------------------------
(* The instructions one by one.                                            *)
LEMMA OneInstruction ==
  ASSUME NEW i, NEW n, i.op # "store"
  PROVE  /\ PlainSound(i, n) => PlainPlan(<<i>>, n)
         /\ InstructionSound(i, n) => PlanSound(<<i>>, n)
<1>1. <<i>> \in Seq({i}) /\ Len(<<i>>) = 1 /\ \A k \in 1..1 : <<i>>[k] = i
  OBVIOUS
<1>2. LoadsFirst(<<i>>)
  BY <1>1 DEF LoadsFirst, IsSeq
<1> QED
  BY <1>1, <1>2 DEF PlainPlan, PlanSound

LEMMA NothingPlanned == ASSUME NEW n PROVE PlainPlan(<<>>, n) /\ PlanSound(<<>>, n)
<1>1. << >> \in Seq({}) /\ Len(<< >>) = 0
  OBVIOUS
<1> QED
  BY <1>1 DEF PlainPlan, PlanSound, LoadsFirst, IsSeq

LEMMA MarkPlanned ==
  ASSUME NEW n, NEW part \in Parts(feed), NEW status, NEW evidence, NEW validated,
         validated => VerifiedAt(part, n), status = "STATIC_VERIFIED" => feed \in Static,
         status \in VerifiedStatuses => validated \/ (feed \in Imagery /\ \E m : VerifiedAt(part, m)),
         EvidenceSound(part, evidence)
  PROVE  PlainPlan(Mark(part, status, evidence, validated), n)
<1> DEFINE load == [op |-> "load", part |-> part]
           store == [op |-> "store", part |-> part, status |-> status, evidence |-> evidence,
                     validated |-> validated]
           s == <<load, store>>
<1>1. s \in Seq({load, store}) /\ Len(s) = 2 /\ s[1] = load /\ s[2] = store
  OBVIOUS
<1>2. /\ load.op = "load" /\ load.part = part /\ store.op = "store" /\ store.part = part
      /\ store.status = status /\ store.evidence = evidence /\ store.validated = validated
  OBVIOUS
<1>3. PlainSound(load, n) /\ PlainSound(store, n)
  BY <1>2 DEF PlainSound, MarkSound
<1>4. Mark(part, status, evidence, validated) = s
  BY DEF Mark
<1> HIDE DEF load, store, s
<1>5. LoadsFirst(s)
  BY <1>1, <1>2 DEF LoadsFirst, IsSeq, Loaded
<1>6. \A k \in 1..Len(s) : PlainSound(s[k], n)
  BY <1>1, <1>3
<1> QED
  BY <1>4, <1>5, <1>6 DEF PlainPlan

LEMMA NothingEvident == ASSUME NEW part PROVE EvidenceSound(part, NoEvidence)
  BY DEF EvidenceSound, NoEvidence, VerifiedStatuses

LEMMA StatusPlanned ==
  ASSUME NEW n, NEW part \in Parts(feed), NEW status, status \notin VerifiedStatuses
  PROVE  PlainPlan(MarkStatus(part, status), n)
  BY MarkPlanned, NothingEvident DEF MarkStatus, VerifiedStatuses

LEMMA RememberPlanned ==
  ASSUME NEW n, NEW part \in Parts(feed), NEW status, status \in VerifiedStatuses => VerifiedAt(part, n)
  PROVE  PlainPlan(Remember(part, status), n)
<1> DEFINE i == [op |-> "remember", part |-> part, status |-> status]
<1>1. i.op = "remember" /\ i.part = part /\ i.status = status
  OBVIOUS
<1>2. PlainSound(i, n)
  BY <1>1 DEF PlainSound
<1>3. Remember(part, status) = <<i>>
  BY DEF Remember
<1> HIDE DEF i
<1> QED
  BY <1>1, <1>2, <1>3, OneInstruction

LEMMA DowngradePlanned ==
  ASSUME NEW n, NEW part \in Parts(feed)
  PROVE  PlainPlan(Downgrade(part), n)
<1> DEFINE i == [op |-> "downgrade", part |-> part]
<1>1. i.op = "downgrade" /\ i.part = part
  OBVIOUS
<1>2. PlainSound(i, n)
  BY <1>1 DEF PlainSound
<1>3. Downgrade(part) = <<i>>
  BY DEF Downgrade
<1> HIDE DEF i
<1> QED
  BY <1>1, <1>2, <1>3, OneInstruction

LEMMA UnlessPlanned == ASSUME NEW n PROVE PlainPlan(UnlessUnavailable, n)
<1> DEFINE i == [op |-> "unless"]
<1>1. i.op = "unless"
  OBVIOUS
<1>2. PlainSound(i, n)
  BY <1>1 DEF PlainSound
<1>3. UnlessUnavailable = <<i>>
  BY DEF UnlessUnavailable
<1> HIDE DEF i
<1> QED
  BY <1>1, <1>2, <1>3, OneInstruction

LEMMA ComparePlanned ==
  ASSUME NEW n, NEW evidence, NEW good, NEW bad, PlainPlan(good, n), PlainPlan(bad, n), feed # "firms"
  PROVE  PlanSound(Compare(evidence, good, bad), n)
<1> DEFINE i == [op |-> "compare", evidence |-> evidence, good |-> good, bad |-> bad]
<1>1. i.op = "compare" /\ i.good = good /\ i.bad = bad
  OBVIOUS
<1>2. InstructionSound(i, n)
  BY <1>1 DEF InstructionSound
<1>3. Compare(evidence, good, bad) = <<i>>
  BY DEF Compare
<1> HIDE DEF i
<1> QED
  BY <1>1, <1>2, <1>3, OneInstruction

LEMMA VerifyPlanned ==
  ASSUME NEW n, NEW ids \in SUBSET Ids, NEW whole
  PROVE  PlainPlan(Verify(ids, whole), n)
<1> DEFINE i == [op |-> "verify", ids |-> ids, whole |-> whole]
<1>1. i.op = "verify" /\ i.ids = ids
  OBVIOUS
<1>2. PlainSound(i, n)
  BY <1>1 DEF PlainSound
<1>3. Verify(ids, whole) = <<i>>
  BY DEF Verify
<1> HIDE DEF i
<1> QED
  BY <1>1, <1>2, <1>3, OneInstruction

LEMMA SnapshotPlanned == ASSUME NEW n, NEW ids PROVE PlainPlan(Snapshot(ids), n)
<1> DEFINE i == [op |-> "snapshot", ids |-> ids]
<1>1. i.op = "snapshot"
  OBVIOUS
<1>2. PlainSound(i, n)
  BY <1>1 DEF PlainSound
<1>3. Snapshot(ids) = <<i>>
  BY DEF Snapshot
<1> HIDE DEF i
<1> QED
  BY <1>1, <1>2, <1>3, OneInstruction

LEMMA PrunePlanned ==
  ASSUME NEW n, NEW table, NEW keep, feed = "regions"
  PROVE  PlainPlan(Prune(table, keep), n)
<1> DEFINE i == [op |-> "prune", table |-> table, keep |-> keep]
<1>1. i.op = "prune"
  OBVIOUS
<1>2. PlainSound(i, n)
  BY <1>1 DEF PlainSound
<1>3. Prune(table, keep) = <<i>>
  BY DEF Prune
<1> HIDE DEF i
<1> QED
  BY <1>1, <1>2, <1>3, OneInstruction

LEMMA ManifestPlanned == ASSUME NEW n, feed \in Imagery PROVE PlainPlan(Manifest, n)
<1> DEFINE i == [op |-> "manifest"]
<1>1. i.op = "manifest"
  OBVIOUS
<1>2. PlainSound(i, n)
  BY <1>1 DEF PlainSound
<1>3. Manifest = <<i>>
  BY DEF Manifest
<1> HIDE DEF i
<1> QED
  BY <1>1, <1>2, <1>3, OneInstruction

LEMMA ListPlanned ==
  ASSUME NEW n, NEW status, feed \in Imagery,
         status \in VerifiedStatuses => \E m : VerifiedAt("main", m)
  PROVE  PlainPlan(<<[op |-> "list", status |-> status]>>, n)
<1> DEFINE i == [op |-> "list", status |-> status]
<1>1. i.op = "list" /\ i.status = status
  OBVIOUS
<1>2. PlainSound(i, n)
  BY <1>1 DEF PlainSound
<1> HIDE DEF i
<1>3. PlainPlan(<<i>>, n)
  BY <1>1, <1>2, OneInstruction
<1> QED
  BY <1>3 DEF i

LEMMA SavesPlanned ==
  ASSUME NEW n, NEW ids, IsFiniteSet(ids)
  PROVE  /\ \A table : PlainPlan(SaveAll(table, ids), n)
         /\ PlainPlan(SavePairs(ids), n)
<1>1. ASSUME NEW N \in Nat, NEW s, s = [k \in 1..N |-> s[k]], \A k \in 1..N : s[k].op = "save"
      PROVE  PlainPlan(s, n)
  <2>1. s \in Seq({s[k] : k \in 1..N}) /\ Len(s) = N
    BY <1>1
  <2>2. LoadsFirst(s)
    BY <1>1, <2>1 DEF LoadsFirst, IsSeq
  <2> QED
    BY <1>1, <2>1, <2>2 DEF PlainPlan, PlainSound
<1>2. Cardinality(ids) \in Nat /\ 2 * Cardinality(ids) \in Nat
  BY FS_CardinalityType
<1>3. ASSUME NEW table PROVE PlainPlan(SaveAll(table, ids), n)
  <2> DEFINE s == SaveAll(table, ids)
  <2>1. s = [k \in 1..Cardinality(ids) |-> s[k]] /\ \A k \in 1..Cardinality(ids) : s[k].op = "save"
    BY DEF SaveAll
  <2> HIDE DEF s
  <2>2. PlainPlan(s, n)
    BY <1>1, <1>2, <2>1
  <2> QED
    BY <2>2 DEF s
<1>4. PlainPlan(SavePairs(ids), n)
  <2> DEFINE s == SavePairs(ids)
             N == 2 * Cardinality(ids)
  <2>1. s = [k \in 1..N |-> s[k]] /\ \A k \in 1..N : s[k].op = "save"
    BY DEF SavePairs
  <2>2. N \in Nat
    BY <1>2
  <2> HIDE DEF s, N
  <2>3. PlainPlan(s, n)
    BY <1>1, <2>1, <2>2
  <2> QED
    BY <2>3 DEF s
<1> QED
  BY <1>3, <1>4

-----------------------------------------------------------------------------
(* What becomes of a failure.                                              *)
LEMMA MainIsPart == feed # "cyclone" => Parts(feed) = {"main"}
  BY DEF Parts

LEMMA StormsAreParts == feed = "cyclone" => Parts(feed) = {"storms", "tracks"}
  BY DEF Parts

LEMMA FailuresPlanned ==
  ASSUME NEW n, feed \in Kinds
  PROVE  /\ PlainPlan(Fails(feed), n)
         /\ feed \in Observed => PlainPlan(Fails("usgs"), n) /\ PlainPlan(Fails("aisstream"), n)
<1>1. \A status : status = "UNAVAILABLE" => status \notin VerifiedStatuses
  BY DEF VerifiedStatuses
<1>2. ASSUME NEW part \in Parts(feed)
      PROVE  /\ PlainPlan(Remember(part, "UNAVAILABLE"), n)
             /\ PlainPlan(MarkStatus(part, "UNAVAILABLE"), n)
             /\ PlainPlan(PartFails(part), n)
  BY <1>1, RememberPlanned, StatusPlanned, DowngradePlanned, PlansJoined DEF PartFails
<1>3. ASSUME "main" \in Parts(feed) PROVE PlainPlan(MarkUnavailable, n)
  <2> DEFINE evidence == Evidence("UNAVAILABLE", 0, 0)
  <2>1. EvidenceSound("main", evidence)
    BY DEF EvidenceSound, Evidence, VerifiedStatuses
  <2> HIDE DEF evidence
  <2>2. PlainPlan(Mark("main", "UNAVAILABLE", evidence, FALSE), n)
    BY <1>1, <1>3, <2>1, MarkPlanned
  <2> QED
    BY <2>2 DEF MarkUnavailable, evidence
<1>4. ASSUME "main" \in Parts(feed), NEW kind \in Observed PROVE PlainPlan(Fails(kind), n)
  <2>1. Fails(kind) = MarkUnavailable \o Remember("main", "UNAVAILABLE")
    BY <1>4 DEF Fails, Observed, Tiled, Bundles
  <2> QED
    BY <1>2, <1>3, <1>4, <2>1, PlansJoined
<1>5. CASE feed \in Observed
  BY <1>4, <1>5, MainIsPart DEF Observed
<1>6. CASE feed \in Tiled
  <2>1. Fails(feed) = Remember("main", "UNAVAILABLE") \o MarkUnavailable
    BY <1>6 DEF Fails, Observed, Tiled, Bundles
  <2> QED
    BY <1>2, <1>3, <1>6, <2>1, PlansJoined, MainIsPart DEF Observed, Tiled
<1>7. CASE feed = "regions"
  <2>1. Fails(feed) = Remember("main", "UNAVAILABLE") \o MarkStatus("main", "UNAVAILABLE")
    BY <1>7 DEF Fails, Observed, Tiled, Bundles
  <2> QED
    BY <1>2, <1>7, <2>1, PlansJoined, MainIsPart DEF Observed
<1>8. CASE feed \in Bundles
  <2>1. Fails(feed) = MarkStatus("main", "UNAVAILABLE")
    BY <1>8 DEF Fails, Observed, Tiled, Bundles
  <2> QED
    BY <1>2, <1>8, <2>1, MainIsPart DEF Observed, Bundles
<1>9. CASE feed = "firms"
  <2>1. Fails(feed) = << >>
    BY <1>9 DEF Fails, Observed, Tiled, Bundles
  <2> QED
    BY <1>9, <2>1, NothingPlanned DEF Observed
<1>10. CASE feed = "cyclone"
  <2>1. Fails(feed) = PartFails("storms") \o PartFails("tracks")
    BY <1>10 DEF Fails, Observed, Tiled, Bundles
  <2> QED
    BY <1>2, <1>10, <2>1, PlansJoined, StormsAreParts DEF Observed
<1>11. CASE feed \notin Observed \cup Tiled \cup Bundles \cup {"regions", "firms", "cyclone"}
  <2>1. Fails(feed) = PartFails("main")
    BY <1>11 DEF Fails
  <2> QED
    BY <1>2, <1>11, <2>1, MainIsPart
<1> QED
  BY <1>5, <1>6, <1>7, <1>8, <1>9, <1>10, <1>11

LEMMA RaisesPlanned ==
  ASSUME NEW n, feed \in Kinds
  PROVE  PlainPlan(Raised(feed), n) /\ PlainPlan(ReadbackFails(feed), n)
<1>1. PlainPlan(Raised(feed), n)
  BY FailuresPlanned, UnlessPlanned, PlansJoined, NothingPlanned DEF Raised, Observed
<1>2. CASE feed = "usgs"
  <2>1. ReadbackFails(feed) = Fails(feed) \o Fails("usgs")
    BY <1>2 DEF ReadbackFails
  <2>2. PlainPlan(Fails(feed), n) /\ PlainPlan(Fails("usgs"), n)
    BY <1>2, FailuresPlanned DEF Observed
  <2> QED
    BY <1>1, <2>1, <2>2, PlansJoined
<1>3. CASE feed \in {"aisstream", "adsb"}
  <2>1. ReadbackFails(feed) = Fails(feed) \o UnlessUnavailable \o Fails("aisstream")
    BY <1>3 DEF ReadbackFails
  <2>2. PlainPlan(Fails(feed), n) /\ PlainPlan(Fails("aisstream"), n) /\ PlainPlan(UnlessUnavailable, n)
    BY <1>3, FailuresPlanned, UnlessPlanned DEF Observed
  <2>3. PlainPlan(Fails(feed) \o UnlessUnavailable, n)
    BY <2>2, PlansJoined
  <2> QED
    BY <1>1, <2>1, <2>2, <2>3, PlansJoined
<1>4. CASE feed = "cyclone"
  <2>1. ReadbackFails(feed) = PartFails("storms")
    BY <1>4 DEF ReadbackFails
  <2>2. "storms" \in Parts(feed) /\ "UNAVAILABLE" \notin VerifiedStatuses
    BY <1>4, StormsAreParts DEF VerifiedStatuses
  <2> QED
    BY <1>1, <2>1, <2>2, DowngradePlanned, StatusPlanned, PlansJoined DEF PartFails
<1>5. CASE feed \notin {"usgs", "aisstream", "adsb", "cyclone"}
  <2>1. ReadbackFails(feed) = Fails(feed)
    BY <1>5 DEF ReadbackFails
  <2> QED
    BY <1>1, <2>1, FailuresPlanned
<1> QED
  BY <1>2, <1>3, <1>4, <1>5

LEMMA UnconfirmedPlanned ==
  ASSUME NEW n, feed \in Tiled
  PROVE  PlainPlan(TilesUnconfirmed, n)
<1>1. "main" \in Parts(feed) /\ "UNAVAILABLE" \notin VerifiedStatuses
  BY MainIsPart DEF Tiled, VerifiedStatuses
<1> QED
  BY <1>1, StatusPlanned, RememberPlanned, PlansJoined DEF TilesUnconfirmed

LEMMA RegistryRaisesPlanned ==
  ASSUME NEW n, NEW mark, feed \in Kinds
  PROVE  PlainPlan(RegistryRaised(feed, mark), n) /\ PlainPlan(ReadRaised(feed), n)
<1>1. PlainPlan(Raised(feed), n)
  BY RaisesPlanned
<1>2. feed \in Tiled => PlainPlan(TilesUnconfirmed, n)
  BY UnconfirmedPlanned
<1>3. feed \in Observed => PlainPlan(Remember("main", "UNAVAILABLE"), n)
  BY MainIsPart, RememberPlanned DEF Observed, VerifiedStatuses
<1>4. RegistryRaised(feed, mark) =
        IF feed \in Observed /\ mark.status = "UNAVAILABLE" THEN Remember("main", "UNAVAILABLE")
        ELSE IF feed \in Tiled /\ mark.validated THEN TilesUnconfirmed ELSE Raised(feed)
  BY DEF RegistryRaised, Observed, Tiled
<1> QED
  BY <1>1, <1>2, <1>3, <1>4 DEF ReadRaised

-----------------------------------------------------------------------------
(* What follows a successful read-back, by kind of feed.                   *)
LEMMA ObservationPlanned ==
  ASSUME NEW n, NEW ids, NEW stored, feed \in Observed, ids # {} => VerifiedAt("main", n)
  PROVE  PlanSound(ObservationVerified(feed, ids, stored, n), n)
<1> DEFINE live == Evidence("LIVE_VERIFIED", stored, n)
           pending == Evidence("PENDING", stored, n)
<1>1. "main" \in Parts(feed) /\ feed \in Kinds /\ feed \notin Tiled /\ feed # "firms"
  BY MainIsPart DEF Observed, Kinds, Tiled
<1>2. EvidenceSound("main", pending) /\ (VerifiedAt("main", n) => EvidenceSound("main", live))
  BY <1>1 DEF EvidenceSound, Evidence, VerifiedStatuses
<1>3. "PENDING" \notin VerifiedStatuses
  BY DEF VerifiedStatuses
<1> HIDE DEF live, pending
<1>4. PlainPlan(Remember("main", "PENDING"), n) /\ PlainPlan(Fails(feed), n)
      /\ PlainPlan(UnlessUnavailable, n) /\ PlainPlan(ReadbackFails(feed), n)
  BY <1>1, <1>3, RememberPlanned, FailuresPlanned, UnlessPlanned, RaisesPlanned
<1>5. CASE ids = {}
  <2> DEFINE after == IF feed = "usgs" THEN Fails(feed) ELSE UnlessUnavailable \o Fails(feed)
             bad == Remember("main", "PENDING") \o after
  <2>1. ObservationVerified(feed, ids, stored, n) =
          Mark("main", "PENDING", pending, FALSE)
          \o Compare(pending, Remember("main", "PENDING"), bad)
    BY <1>5 DEF ObservationVerified, pending
  <2>2. PlainPlan(after, n)
    BY <1>4, PlansJoined
  <2> HIDE DEF after
  <2>3. PlainPlan(bad, n)
    BY <1>4, <2>2, PlansJoined
  <2> HIDE DEF bad
  <2>4. PlanSound(Compare(pending, Remember("main", "PENDING"), bad), n)
    BY <1>1, <1>4, <2>3, ComparePlanned
  <2>5. PlanSound(Mark("main", "PENDING", pending, FALSE), n)
    BY <1>1, <1>2, <1>3, MarkPlanned, PlainIsSound
  <2> QED
    BY <2>1, <2>4, <2>5, PlansJoined
<1>6. CASE ids # {}
  <2>1. ObservationVerified(feed, ids, stored, n) =
          Mark("main", "LIVE_VERIFIED", live, TRUE)
          \o Compare(live, Remember("main", "LIVE_VERIFIED"), ReadbackFails(feed))
    BY <1>6 DEF ObservationVerified, live
  <2>2. PlanSound(Mark("main", "LIVE_VERIFIED", live, TRUE), n)
    BY <1>1, <1>2, <1>6, MarkPlanned, PlainIsSound
  <2>3. PlainPlan(Remember("main", "LIVE_VERIFIED"), n)
    BY <1>1, <1>6, RememberPlanned
  <2>4. PlanSound(Compare(live, Remember("main", "LIVE_VERIFIED"), ReadbackFails(feed)), n)
    BY <1>1, <1>4, <2>3, ComparePlanned
  <2> QED
    BY <2>1, <2>2, <2>4, PlansJoined
<1> QED
  BY <1>5, <1>6

LEMMA ReadBackPlanned ==
  ASSUME NEW n, NEW stored, NEW bad, "main" \in Parts(feed), VerifiedAt("main", n), PlainPlan(bad, n),
         feed # "firms"
  PROVE  PlanSound(ReadBackFromRegistry(feed, stored, n, bad), n)
<1> DEFINE evidence == Evidence(Success(feed), stored, n)
<1>1. EvidenceSound("main", evidence)
  BY DEF EvidenceSound, Evidence
<1>2. ReadBackFromRegistry(feed, stored, n, bad) =
        Mark("main", Success(feed), evidence, TRUE)
        \o Compare(evidence, Remember("main", Success(feed)), bad)
  BY DEF ReadBackFromRegistry
<1> HIDE DEF evidence
<1>3. PlanSound(Mark("main", Success(feed), evidence, TRUE), n)
  BY <1>1, MarkPlanned, PlainIsSound DEF Success
<1>4. PlainPlan(Remember("main", Success(feed)), n)
  BY RememberPlanned
<1>5. PlanSound(Compare(evidence, Remember("main", Success(feed)), bad), n)
  BY <1>4, ComparePlanned
<1> QED
  BY <1>2, <1>3, <1>5, PlansJoined

(* Remembered, and marked as validated, in either order.                   *)
LEMMA ValidationPlanned ==
  ASSUME NEW n, NEW part \in Parts(feed), NEW status, VerifiedAt(part, n),
         status = "STATIC_VERIFIED" => feed \in Static
  PROVE  /\ PlainPlan(Remember(part, status), n)
         /\ PlainPlan(Mark(part, status, NoEvidence, TRUE), n)
         /\ PlainPlan(Remember(part, status) \o Mark(part, status, NoEvidence, TRUE), n)
  BY RememberPlanned, MarkPlanned, NothingEvident, PlansJoined

LEMMA CyclonesPlanned ==
  ASSUME NEW n, NEW ids, NEW geometry, feed = "cyclone", \A part \in Parts(feed) : VerifiedAt(part, n)
  PROVE  PlanSound(CyclonesVerified(ids, geometry), n)
<1> DEFINE status == IF ids = {} THEN "NO_ACTIVE_STORMS" ELSE "UNAVAILABLE"
           rest == IF ids # {} /\ geometry
                   THEN Remember("tracks", "LIVE_VERIFIED") \o Mark("tracks", "LIVE_VERIFIED", NoEvidence, TRUE)
                   ELSE Remember("tracks", status) \o MarkStatus("tracks", status)
           storms == Remember("storms", "LIVE_VERIFIED")
           marks == Mark("storms", "LIVE_VERIFIED", NoEvidence, TRUE)
<1>1. "storms" \in Parts(feed) /\ "tracks" \in Parts(feed)
  BY StormsAreParts
<1>2. status \notin VerifiedStatuses
  BY DEF VerifiedStatuses
<1>3. CyclonesVerified(ids, geometry) = storms \o marks \o rest
  BY DEF CyclonesVerified
<1>4. PlainPlan(storms \o marks, n)
  BY <1>1, ValidationPlanned
<1> HIDE DEF status
<1>5. PlainPlan(Remember("tracks", status) \o MarkStatus("tracks", status), n)
  BY <1>1, <1>2, RememberPlanned, StatusPlanned, PlansJoined
<1>6. PlainPlan(rest, n)
  BY <1>1, <1>5, ValidationPlanned
<1> HIDE DEF rest, storms, marks
<1> QED
  BY <1>3, <1>4, <1>6, PlansJoined, PlainIsSound

LEMMA ImagePlanned ==
  ASSUME NEW n, feed \in Imagery, VerifiedAt("main", n)
  PROVE  PlanSound(ImageVerified(n), n)
<1> DEFINE metadata == Evidence("metadata", 0, n)
           good == Mark("main", "LIVE_VERIFIED", metadata, TRUE) \o Remember("main", "LIVE_VERIFIED")
<1>1. /\ "main" \in Parts(feed) /\ feed # "firms"
      /\ EvidenceSound("main", metadata) /\ "CONFIGURED" \notin VerifiedStatuses
  BY MainIsPart DEF Imagery, EvidenceSound, Evidence, VerifiedStatuses
<1>2. ImageVerified(n) = Mark("main", "CONFIGURED", metadata, FALSE) \o Compare(metadata, good, << >>)
  BY DEF ImageVerified
<1> HIDE DEF metadata
<1>3. PlainPlan(good, n)
  BY <1>1, MarkPlanned, RememberPlanned, PlansJoined
<1> HIDE DEF good
<1>4. PlanSound(Compare(metadata, good, << >>), n)
  BY <1>1, <1>3, ComparePlanned, NothingPlanned
<1>5. PlanSound(Mark("main", "CONFIGURED", metadata, FALSE), n)
  BY <1>1, MarkPlanned, PlainIsSound
<1> QED
  BY <1>2, <1>4, <1>5, PlansJoined

LEMMA VerifiedPlanned ==
  ASSUME NEW n, NEW ids, NEW whole, NEW stored, feed \in Kinds,
         (feed \in Observed /\ ids = {}) \/ \A part \in Parts(feed) : VerifiedAt(part, n)
  PROVE  PlanSound(Verified(feed, ids, whole, stored, n), n)
<1>1. CASE feed \in Observed
  <2>1. Verified(feed, ids, whole, stored, n) = ObservationVerified(feed, ids, stored, n)
    BY <1>1 DEF Verified, Observed, Tiled, Bundles, Imagery
  <2> QED
    BY <1>1, <2>1, ObservationPlanned, MainIsPart DEF Observed
<1>2. CASE feed \in Tiled
  <2>1. Verified(feed, ids, whole, stored, n) = ReadBackFromRegistry(feed, stored, n, TilesUnconfirmed)
    BY <1>2 DEF Verified, Observed, Tiled, Bundles, Imagery
  <2>2. "main" \in Parts(feed) /\ VerifiedAt("main", n)
    BY <1>2, MainIsPart DEF Tiled, Observed
  <2>3. PlainPlan(TilesUnconfirmed, n)
    BY <1>2, UnconfirmedPlanned
  <2> QED
    BY <1>2, <2>1, <2>2, <2>3, ReadBackPlanned DEF Tiled
<1>3. CASE feed = "regions"
  <2>1. Verified(feed, ids, whole, stored, n) = ReadBackFromRegistry(feed, stored, n, Fails(feed))
    BY <1>3 DEF Verified, Observed, Tiled, Bundles, Imagery
  <2>2. "main" \in Parts(feed) /\ VerifiedAt("main", n)
    BY <1>3, MainIsPart DEF Observed
  <2> QED
    BY <1>3, <2>1, <2>2, FailuresPlanned, ReadBackPlanned
<1>4. CASE feed \in Bundles
  <2>1. Verified(feed, ids, whole, stored, n) = BundleVerified(whole)
    BY <1>4 DEF Verified, Observed, Tiled, Bundles, Imagery
  <2>2. "main" \in Parts(feed) /\ VerifiedAt("main", n) /\ "STATIC_PARTIAL" \notin VerifiedStatuses
    BY <1>4, MainIsPart DEF Observed, Bundles, VerifiedStatuses
  <2> QED
    BY <1>4, <2>1, <2>2, ValidationPlanned, StatusPlanned, PlainIsSound DEF BundleVerified, Static
<1>5. CASE feed \in Imagery
  <2>1. Verified(feed, ids, whole, stored, n) = ImageVerified(n)
    BY <1>5 DEF Verified, Observed, Tiled, Bundles, Imagery
  <2> QED
    BY <1>5, <2>1, ImagePlanned, MainIsPart DEF Observed, Imagery
<1>6. CASE feed = "cyclone"
  <2>1. Verified(feed, ids, whole, stored, n) = CyclonesVerified(ids, whole)
    BY <1>6 DEF Verified, Observed, Tiled, Bundles, Imagery
  <2> QED
    BY <1>6, <2>1, CyclonesPlanned DEF Observed
<1>7. CASE feed = "firms"
  <2>1. Verified(feed, ids, whole, stored, n) =
          Remember("main", "LIVE_VERIFIED") \o Mark("main", "SAME", NoEvidence, TRUE)
    BY <1>7 DEF Verified, Observed, Tiled, Bundles, Imagery
  <2>2. "main" \in Parts(feed) /\ VerifiedAt("main", n)
    BY <1>7, MainIsPart DEF Observed
  <2> QED
    BY <2>1, <2>2, ValidationPlanned, PlansJoined, PlainIsSound
<1>8. CASE feed \in {"wind", "open-meteo", "tomtom"}
  <2>1. Verified(feed, ids, whole, stored, n) =
          Remember("main", "LIVE_VERIFIED") \o Mark("main", "LIVE_VERIFIED", NoEvidence, TRUE)
    BY <1>8 DEF Verified, Observed, Tiled, Bundles, Imagery
  <2>2. "main" \in Parts(feed) /\ VerifiedAt("main", n)
    BY <1>8, MainIsPart DEF Observed
  <2> QED
    BY <2>1, <2>2, ValidationPlanned, PlainIsSound
<1> QED
  BY <1>1, <1>2, <1>3, <1>4, <1>5, <1>6, <1>7, <1>8 DEF Kinds, Weather, Static

(* ... and in the state that a step leads to.                              *)
LEMMA VerifiedNextPlanned ==
  (\A n, ids, whole, stored :
     /\ feed \in Kinds
     /\ (feed \in Observed /\ ids = {}) \/ \A part \in Parts(feed) : VerifiedAt(part, n)
     => PlanSound(Verified(feed, ids, whole, stored, n), n))'
<1>1. \A n, ids, whole, stored :
        /\ feed \in Kinds
        /\ (feed \in Observed /\ ids = {}) \/ \A part \in Parts(feed) : VerifiedAt(part, n)
        => PlanSound(Verified(feed, ids, whole, stored, n), n)
  BY VerifiedPlanned
<1> QED
  BY <1>1, PTL

-----------------------------------------------------------------------------
(* What an endpoint may get: a failure, or rows with ids of the feed.       *)
HasRows(a) == \E ids \in SUBSET Ids, whole \in BOOLEAN, bad \in BOOLEAN : a = Rows(ids, whole, bad)

AnswerSound(a) == a.outcome # "rows" \/ HasRows(a)

LEMMA FailuresAreAnswers == AnswerSound(Down) /\ AnswerSound(Misconfigured) /\ AnswerSound(Refused)
  BY DEF AnswerSound, Down, Misconfigured, Refused

LEMMA RowsAreAnswers ==
  ASSUME NEW ids \in SUBSET Ids, NEW whole \in BOOLEAN, NEW bad \in BOOLEAN
  PROVE  AnswerSound(Rows(ids, whole, bad))
  BY DEF AnswerSound, HasRows

LEMMA KeptAnswers ==
  ASSUME NEW batches, \A batch \in batches : DOMAIN batch \subseteq Ids
  PROVE  AnswerSound(Kept(batches)) /\ HasRows(Kept(batches))
<1> DEFINE ids == UNION {With(batch, "sound") : batch \in batches}
           bad == \E batch \in batches : With(batch, "odd") # {}
<1>1. ids \in SUBSET Ids
  BY DEF With
<1>2. bad \in BOOLEAN
  OBVIOUS
<1>3. Kept(batches) = Rows(ids, TRUE, bad)
  BY DEF Kept
<1> HIDE DEF ids, bad
<1> QED
  BY <1>1, <1>2, <1>3 DEF AnswerSound, HasRows

LEMMA ReplyRows ==
  ASSUME NEW ids, ids \subseteq Ids, NEW r \in Replies(ids)
  PROVE  r.reached => DOMAIN r.rows \subseteq Ids
  BY DEF Replies, Batches

LEMMA SingleAnswers ==
  ASSUME NEW r \in Replies(Ids)
  PROVE  AnswerSound(Single(r))
  BY ReplyRows, KeptAnswers, FailuresAreAnswers DEF Single

LEMMA LeastIn ==
  ASSUME NEW S \in SUBSET Nat, S # {}
  PROVE  \E n \in S : \A m \in S : n <= m
<1>1. IsWellFoundedOn(OpToRel(<, Nat), Nat)
  BY NatLessThanWellFounded
<1>2. PICK n \in S : \A m \in S : ~(<<m, n>> \in OpToRel(<, Nat))
  BY <1>1, WFMin
<1>3. \A m \in S : n \in Nat /\ m \in Nat /\ ~(m < n)
  BY <1>2 DEF OpToRel
<1> QED
  BY <1>3

LEMMA PositionAnswers ==
  ASSUME NEW c \in BOOLEAN,
         NEW tries \in [1..Attempts -> [raises : BOOLEAN, rows : Batches(Ids)]]
  PROVE  AnswerSound(FetchPositions(c, tries))
<1> DEFINE Heard(n) == {tries[i].rows : i \in 1..n}
           SomeRow(n) == \E batch \in Heard(n) : With(batch, "sound") \cup With(batch, "odd") # {}
           Stops(n) == n = Attempts \/ (~tries[n].raises /\ SomeRow(n))
           IsLast(n) == Stops(n) /\ \A m \in 1..(n - 1) : ~Stops(m)
           last == CHOOSE n \in 1..Attempts : IsLast(n)
           S == {n \in 1..Attempts : Stops(n)}
<1>1. Attempts \in Nat /\ Attempts \in S /\ S \in SUBSET Nat
  BY AttemptsAssumption
<1> HIDE DEF Stops
<1>2. PICK n \in S : \A m \in S : n <= m
  BY <1>1, LeastIn
<1>3. n \in 1..Attempts /\ IsLast(n)
  BY <1>1, <1>2
<1>4. last \in 1..Attempts
  BY <1>3
<1>5. FetchPositions(c, tries) =
        CASE ~c -> Misconfigured [] tries[last].raises -> Down [] OTHER -> Kept(Heard(last))
  BY DEF FetchPositions, Stops
<1> HIDE DEF last
<1>6. \A batch \in Heard(last) : DOMAIN batch \subseteq Ids
  BY <1>1, <1>4 DEF Batches
<1> HIDE DEF Heard
<1>7. AnswerSound(Kept(Heard(last)))
  BY <1>6, KeptAnswers
<1> QED
  BY <1>5, <1>7, FailuresAreAnswers

LEMMA FetchedAnswers ==
  ASSUME NEW kind \in Kinds \ Static, NEW a \in AnswersOf(kind)
  PROVE  AnswerSound(a)
<1> USE FailuresAreAnswers
<1>1. CASE kind = "usgs"
  <2>1. PICK r \in Replies(Ids) : a = FetchEarthquakes(r)
    BY <1>1 DEF AnswersOf
  <2> QED
    BY <2>1, SingleAnswers DEF FetchEarthquakes
<1>2. CASE kind = "adsb"
  <2>1. PICK r \in Replies(Ids) : a = FetchMilitaryAircraft(r)
    BY <1>2 DEF AnswersOf
  <2> QED
    BY <2>1, SingleAnswers DEF FetchMilitaryAircraft
<1>3. CASE kind = "aisstream"
  <2>1. PICK c \in BOOLEAN, tries \in [1..Attempts -> [raises : BOOLEAN, rows : Batches(Ids)]] :
          a = FetchPositions(c, tries)
    BY <1>3 DEF AnswersOf
  <2> QED
    BY <2>1, PositionAnswers
<1>4. CASE kind = "firms"
  <2>1. PICK c \in BOOLEAN, files \in ReplyPairs : a = FetchFires(c, files)
    BY <1>4 DEF AnswersOf
  <2>2. \A file \in files : file.reached => DOMAIN file.rows \subseteq Ids
    BY ReplyRows DEF ReplyPairs
  <2>3. CASE a = Kept({file.rows : file \in files}) /\ \A file \in files : file.reached
    BY <2>2, <2>3, KeptAnswers
  <2> QED
    BY <2>1, <2>3 DEF FetchFires, Replies
<1>5. CASE kind = "tomtom"
  <2>1. PICK c \in BOOLEAN, v \in BOOLEAN, tiles \in ReplyPairs : a = FetchFlowTiles(c, v, tiles)
    BY <1>5 DEF AnswersOf
  <2>2. \A file \in tiles : file.reached => DOMAIN file.rows \subseteq Ids
    BY ReplyRows DEF ReplyPairs
  <2>3. CASE a = Kept({file.rows : file \in tiles}) /\ \A file \in tiles : file.reached
    BY <2>2, <2>3, KeptAnswers
  <2> QED
    BY <2>1, <2>3 DEF FetchFlowTiles, Replies
<1>6. CASE kind = "wind"
  <2>1. PICK c \in BOOLEAN, t \in Grids, p \in Grids, points \in Points : a = FetchWind(c, t, p, points)
    BY <1>6 DEF AnswersOf
  <2>2. AnswerSound(Kept({points}))
    BY KeptAnswers DEF Points, Batches
  <2> QED
    BY <2>1, <2>2 DEF FetchWind
<1>7. CASE kind = "open-meteo"
  <2>1. PICK points \in Points : a = FetchOpenMeteo(points)
    BY <1>7 DEF AnswersOf
  <2>2. AnswerSound(Kept({points}))
    BY KeptAnswers DEF Points, Batches
  <2> QED
    BY <2>1, <2>2 DEF FetchOpenMeteo
<1>8. CASE kind \in {"radar", "satellite"}
  <2>1. PICK m \in {"current", "stale", "none"}, s \in BOOLEAN, v \in BOOLEAN, i \in BOOLEAN :
          a = FetchImage(m, s, v, i)
    BY <1>8 DEF AnswersOf
  <2>2. (s /\ v /\ i) \in BOOLEAN /\ (s /\ v /\ ~i) \in BOOLEAN
    OBVIOUS
  <2> QED
    BY <2>1, <2>2, RowsAreAnswers DEF FetchImage
<1>9. CASE kind = "cyclone"
  <2>1. PICK r \in Replies(Storms), f \in BOOLEAN, g \in BOOLEAN : a = FetchCyclones(r, f, g)
    BY <1>9 DEF AnswersOf
  <2>2. ASSUME r.reached PROVE AnswerSound([Kept({r.rows}) EXCEPT !.whole = g])
    <3>1. HasRows(Kept({r.rows}))
      BY <2>2, ReplyRows, IdsAssumption, KeptAnswers
    <3>2. PICK ids \in SUBSET Ids, whole \in BOOLEAN, bad \in BOOLEAN : Kept({r.rows}) = Rows(ids, whole, bad)
      BY <3>1 DEF HasRows
    <3>3. [Kept({r.rows}) EXCEPT !.whole = g] = Rows(ids, g, bad)
      BY <3>2 DEF Rows
    <3> QED
      BY <3>3, RowsAreAnswers
  <2> QED
    BY <2>1, <2>2 DEF FetchCyclones
<1>10. CASE kind \in Tiled
  <2>1. AnswerSound(Rows({}, TRUE, FALSE))
    BY RowsAreAnswers
  <2>2. CASE kind = "photoreal"
    <3>1. a \in {VerifyPhotorealTiles(g, i) : g \in Providers, i \in Providers}
      BY <2>2 DEF AnswersOf
    <3>2. PICK g \in Providers, i \in Providers : a = VerifyPhotorealTiles(g, i)
      BY <3>1
    <3> QED
      BY <2>1, <3>2 DEF VerifyPhotorealTiles
  <2>3. CASE kind = "imagery"
    <3>1. a \in {VerifySatelliteImagery(e, i, o) : e \in Providers, i \in Providers, o \in Providers}
      BY <2>3 DEF AnswersOf
    <3>2. PICK e \in Providers, i \in Providers, o \in Providers : a = VerifySatelliteImagery(e, i, o)
      BY <3>1
    <3> QED
      BY <2>1, <3>2 DEF VerifySatelliteImagery
  <2>4. CASE kind = "terrain"
    <3>1. a \in {VerifyWorldTerrain(i, r) : i \in Providers, r \in Providers}
      BY <2>4 DEF AnswersOf
    <3>2. PICK i \in Providers, r \in Providers : a = VerifyWorldTerrain(i, r)
      BY <3>1
    <3> QED
      BY <2>1, <3>2 DEF VerifyWorldTerrain
  <2>5. CASE kind = "vector"
    <3>1. a \in {VerifyVectorBasemap(o) : o \in Providers}
      BY <2>5 DEF AnswersOf
    <3> QED
      BY <2>1, <3>1 DEF VerifyVectorBasemap
  <2> QED
    BY <1>10, <2>2, <2>3, <2>4, <2>5 DEF Tiled
<1> QED
  BY <1>1, <1>2, <1>3, <1>4, <1>5, <1>6, <1>7, <1>8, <1>9, <1>10
     DEF Kinds, Observed, Weather, Imagery, Static

LEMMA EventAnswers ==
  ASSUME NEW b, NEW a \in BundleAnswers("bhote koshi", b)
  PROVE  \E r \in BOOLEAN, w \in BOOLEAN : a = FetchBhoteKoshi(b, r, w)
  BY DEF BundleAnswers

LEMMA BundledAnswers ==
  ASSUME NEW kind \in Static, NEW b \in BundleSet, NEW a \in BundleAnswers(kind, b)
  PROVE  AnswerSound(a)
<1>1. \A readable : AnswerSound(ReadBundle(b, readable))
  <2>1. b.valid \in SUBSET Ids /\ (b.valid # b.ids) \in BOOLEAN
    BY DEF BundleSet
  <2> QED
    BY <2>1, RowsAreAnswers, FailuresAreAnswers DEF ReadBundle
<1>2. CASE kind = "regions"
  BY <1>1, <1>2 DEF BundleAnswers, LoadNaturalEarth
<1>3. CASE kind = "dams"
  BY <1>1, <1>3 DEF BundleAnswers, FetchDams
<1>4. CASE kind = "bhote koshi"
  <2>1. PICK r \in BOOLEAN, w \in BOOLEAN : a = FetchBhoteKoshi(b, r, w)
    BY <1>4, EventAnswers
  <2> QED
    BY <1>1, <2>1, FailuresAreAnswers DEF FetchBhoteKoshi
<1> QED
  BY <1>2, <1>3, <1>4 DEF Static, Bundles

LEMMA AnswersAreSound ==
  ASSUME feed \in Kinds, bundle \in BundleSet, NEW a \in Answers
  PROVE  AnswerSound(a)
<1>1. CASE feed \in Static
  <2>1. a \in BundleAnswers(feed, bundle)
    BY <1>1 DEF Answers
  <2> QED
    BY <1>1, <2>1, BundledAnswers
<1>2. CASE feed \notin Static
  <2>1. a \in AnswersOf(feed)
    BY <1>2 DEF Answers, FetchAnswers
  <2> QED
    BY <1>2, <2>1, FetchedAnswers
<1> QED
  BY <1>1, <1>2

-----------------------------------------------------------------------------
(* A set's sequence has each of its elements, once.                        *)
LEMMA SetToSeqCovers ==
  ASSUME NEW S, IsFiniteSet(S)
  PROVE  /\ Cardinality(S) \in Nat
         /\ SetToSeq(S) \in [1..Cardinality(S) -> S] /\ IsInjective(SetToSeq(S))
         /\ \A x \in S : \E i \in 1..Cardinality(S) : SetToSeq(S)[i] = x
<1> DEFINE N == Cardinality(S)
           seq == SetToSeq(S)
<1>1. N \in Nat /\ ExistsBijection(1..N, S)
  BY FS_CardinalityType
<1>2. \E f \in [1..N -> S] : IsInjective(f)
  BY <1>1 DEF ExistsBijection, Bijection, Injection
<1>3. seq \in [1..N -> S] /\ IsInjective(seq)
  BY <1>2 DEF SetToSeq
<1>4. IsFiniteSet(1..N) /\ Cardinality(1..N) = N
  BY <1>1, FS_Interval
<1> HIDE DEF seq
<1>5. seq \in Injection(1..N, S)
  BY <1>3 DEF Injection
<1>6. seq \in Surjection(1..N, S)
  BY <1>4, <1>5, FS_Injection
<1>7. \A x \in S : \E i \in 1..N : seq[i] = x
  BY <1>6 DEF Surjection
<1> QED
  BY <1>1, <1>3, <1>7 DEF seq

LEMMA RowsPlanned ==
  ASSUME NEW n, NEW ids \in SUBSET Ids, NEW whole
  PROVE  /\ PlainPlan(SaveAll("records", ids) \o Verify(ids, whole), n)
         /\ FiresSaved(SaveAll("records", ids) \o Verify(ids, whole))
<1> DEFINE N == Cardinality(ids)
           s == SaveAll("records", ids) \o Verify(ids, whole)
           v == [op |-> "verify", ids |-> ids, whole |-> whole]
<1>1. IsFiniteSet(ids)
  BY IdsAssumption, FS_Subset
<1>2. PlainPlan(SaveAll("records", ids), n) /\ PlainPlan(Verify(ids, whole), n)
  BY <1>1, SavesPlanned, VerifyPlanned
<1>3. PlainPlan(s, n)
  BY <1>2, PlansJoined
<1>4. N \in Nat /\ \A x \in ids : \E i \in 1..N : SetToSeq(ids)[i] = x
  BY <1>1, SetToSeqCovers
<1>5. SaveAll("records", ids) = [i \in 1..N |-> [op |-> "save", table |-> "records", id |-> SetToSeq(ids)[i]]]
  BY DEF SaveAll
<1>6. \A i \in 1..N : SaveAll("records", ids)[i].op = "save" /\ Saves(SaveAll("records", ids)[i], SetToSeq(ids)[i])
  <2> SUFFICES ASSUME NEW i \in 1..N
               PROVE  SaveAll("records", ids)[i].op = "save" /\ Saves(SaveAll("records", ids)[i], SetToSeq(ids)[i])
    OBVIOUS
  <2>1. SaveAll("records", ids)[i] = [op |-> "save", table |-> "records", id |-> SetToSeq(ids)[i]]
    BY <1>5
  <2>2. /\ SaveAll("records", ids)[i].op = "save" /\ SaveAll("records", ids)[i].table = "records"
        /\ SaveAll("records", ids)[i].id = SetToSeq(ids)[i]
    BY <2>1
  <2> QED
    BY <2>2 DEF Saves
<1>7. SaveAll("records", ids) \in Seq({SaveAll("records", ids)[i] : i \in 1..N}) /\ Len(SaveAll("records", ids)) = N
  BY <1>4, <1>5
<1>8. v.op = "verify" /\ v.ids = ids /\ Verify(ids, whole) = <<v>>
  BY DEF Verify
<1> HIDE DEF N, v
<1>9. Len(s) = N + 1 /\ s[N + 1] = v /\ \A i \in 1..N : s[i] = SaveAll("records", ids)[i]
  <2> DEFINE p == SaveAll("records", ids)
             T == {p[i] : i \in 1..N} \cup {v}
  <2>1. p \in Seq(T) /\ <<v>> \in Seq(T) /\ Len(p) = N /\ s = p \o <<v>>
    BY <1>7, <1>8
  <2> HIDE DEF p, T, s
  <2>2. Len(s) = N + 1 /\ s[N + 1] = v /\ \A i \in 1..N : s[i] = p[i]
    BY <1>4, <2>1
  <2> QED
    BY <2>2 DEF p
<1> HIDE DEF s
<1>10. FiresSaved(s)
  <2> SUFFICES ASSUME NEW k \in 1..Len(s), s[k].op = "verify", NEW id \in s[k].ids
               PROVE  \E j \in 1..(k - 1) : Saves(s[j], id)
    BY DEF FiresSaved
  <2>1. k = N + 1
    BY <1>4, <1>6, <1>9
  <2>2. id \in ids
    BY <1>8, <1>9, <2>1
  <2>3. PICK i \in 1..N : SetToSeq(ids)[i] = id
    BY <1>4, <2>2
  <2>4. Saves(s[i], id) /\ i \in 1..(k - 1)
    BY <1>4, <1>6, <1>9, <2>1, <2>3
  <2> QED
    BY <2>4
<1> QED
  BY <1>3, <1>10 DEF s

LEMMA OnlyFiresSaved == ASSUME NEW s, feed # "firms" PROVE FiresSaved(s)
  BY DEF FiresSaved

(* Plans without a verification.                                           *)
LEMMA NothingToSave ==
  FiresSaved(<< >>)
  BY DEF FiresSaved

LEMMA TakenAnswers ==
  ASSUME NEW a, AnswerSound(a)
  PROVE  /\ AnswerSound(AllOrNothing(a)) /\ AnswerSound(DamsTaken(a))
         /\ a.outcome = "rows" => a.ids \in SUBSET Ids
<1>1. AnswerSound(AllOrNothing(a))
  BY FailuresAreAnswers DEF AllOrNothing
<1>2. CASE a.outcome = "rows"
  <2>1. PICK ids \in SUBSET Ids, whole \in BOOLEAN, bad \in BOOLEAN : a = Rows(ids, whole, bad)
    BY <1>2 DEF AnswerSound, HasRows
  <2>2. [a EXCEPT !.whole = ~a.bad] = Rows(ids, ~bad, bad)
    BY <2>1 DEF Rows
  <2>3. AnswerSound(Rows(ids, ~bad, bad))
    BY RowsAreAnswers
  <2>4. a.ids = ids
    BY <2>1 DEF Rows
  <2> QED
    BY <1>1, <1>2, <2>2, <2>3, <2>4 DEF DamsTaken
<1>3. CASE a.outcome # "rows"
  BY <1>1, <1>3 DEF DamsTaken
<1> QED
  BY <1>2, <1>3
(* The endpoints' plans.                                                   *)
LEMMA ObservesPlanned ==
  ASSUME NEW n, NEW a, feed \in Kinds, AnswerSound(a)
  PROVE  PlainPlan(Observes(feed, a), n)
<1>1. CASE a.outcome = "rows"
  BY <1>1, TakenAnswers, RowsPlanned DEF Observes
<1>2. CASE a.outcome # "rows"
  BY <1>2, FailuresPlanned DEF Observes
<1> QED
  BY <1>1, <1>2

LEMMA WeatherPlanned ==
  ASSUME NEW n, NEW a, NEW failures, feed \in Kinds, AnswerSound(a)
  PROVE  PlainPlan(IngestWeather(feed, a, failures), n)
<1> DEFINE taken == WeatherTaken(a)
<1>1. AnswerSound(taken)
  BY TakenAnswers DEF WeatherTaken
<1>2. IngestWeather(feed, a, failures) =
        CASE taken.outcome = "rows" -> SaveAll("records", taken.ids) \o Verify(taken.ids, TRUE)
          [] taken.outcome \in failures -> Fails(feed)
          [] OTHER -> << >>
  BY DEF IngestWeather
<1> HIDE DEF taken
<1>3. PlainPlan(Fails(feed), n) /\ PlainPlan(<< >>, n)
  BY FailuresPlanned, NothingPlanned
<1>4. taken.outcome = "rows" => PlainPlan(SaveAll("records", taken.ids) \o Verify(taken.ids, TRUE), n)
  BY <1>1, TakenAnswers, RowsPlanned
<1> QED
  BY <1>2, <1>3, <1>4

LEMMA ImageryPlanned ==
  ASSUME NEW n, NEW a, feed \in Imagery
  PROVE  PlainPlan(RequestImagery(feed, a), n)
<1>1. feed \in Kinds
  BY DEF Kinds
<1>2. PlainPlan(Fails(feed), n) /\ PlainPlan(Manifest, n) /\ PlainPlan(Verify({}, TRUE), n)
  BY <1>1, FailuresPlanned, ManifestPlanned, VerifyPlanned
<1>3. PlainPlan(Manifest \o Fails(feed), n) /\ PlainPlan(Manifest \o Verify({}, TRUE), n)
  BY <1>2, PlansJoined
<1> QED
  BY <1>2, <1>3 DEF RequestImagery

LEMMA CyclonePlanned ==
  ASSUME NEW n, NEW a, feed = "cyclone", AnswerSound(a)
  PROVE  PlainPlan(IngestCyclones(a), n)
<1> DEFINE taken == StormsTaken(a)
           located == IF taken.whole THEN taken.ids ELSE {}
<1>1. AnswerSound(taken)
  BY TakenAnswers DEF StormsTaken
<1>2. IngestCyclones(a) =
        CASE taken.outcome = "rows" -> StormsStored(taken.ids, taken.whole) \o Verify(taken.ids, taken.whole)
          [] taken.outcome = "refused" -> << >>
          [] OTHER -> Fails("cyclone")
  BY DEF IngestCyclones
<1> HIDE DEF taken
<1>3. PlainPlan(Fails("cyclone"), n) /\ PlainPlan(<< >>, n)
  BY FailuresPlanned, NothingPlanned DEF Kinds
<1>4. ASSUME taken.outcome = "rows"
      PROVE  PlainPlan(StormsStored(taken.ids, taken.whole) \o Verify(taken.ids, taken.whole), n)
  <2>1. taken.ids \in SUBSET Ids
    BY <1>1, <1>4, TakenAnswers
  <2>2. IsFiniteSet(taken.ids) /\ IsFiniteSet(located)
    BY <2>1, IdsAssumption, FS_Subset, FS_EmptySet
  <2>3. StormsStored(taken.ids, taken.whole) =
          SaveAll("records", taken.ids) \o SaveAll("geometries", located) \o Snapshot(taken.ids)
    BY DEF StormsStored
  <2> HIDE DEF located
  <2>4. PlainPlan(SaveAll("records", taken.ids), n) /\ PlainPlan(SaveAll("geometries", located), n)
        /\ PlainPlan(Snapshot(taken.ids), n) /\ PlainPlan(Verify(taken.ids, taken.whole), n)
    BY <2>1, <2>2, SavesPlanned, SnapshotPlanned, VerifyPlanned
  <2>5. PlainPlan(SaveAll("records", taken.ids) \o SaveAll("geometries", located), n)
    BY <2>4, PlansJoined
  <2>6. PlainPlan(StormsStored(taken.ids, taken.whole), n)
    BY <2>3, <2>4, <2>5, PlansJoined
  <2> QED
    BY <2>4, <2>6, PlansJoined
<1> QED
  BY <1>2, <1>3, <1>4

LEMMA RegionsPlanned ==
  ASSUME NEW n, NEW a, feed = "regions", AnswerSound(a)
  PROVE  PlainPlan(IngestRegions(a), n)
<1> DEFINE taken == RegionsTaken(a)
           none == Evidence("STATIC_PARTIAL", 0, 0)
           partial == Remember("main", "STATIC_PARTIAL") \o Mark("main", "STATIC_PARTIAL", none, FALSE)
<1>1. AnswerSound(taken)
  BY TakenAnswers DEF RegionsTaken
<1>2. IngestRegions(a) =
        CASE taken.outcome = "rows" -> RegionsStored(taken.ids) \o Verify(taken.ids, TRUE)
          [] taken.outcome = "refused" -> partial
          [] OTHER -> Fails("regions")
  BY DEF IngestRegions
<1>3. EvidenceSound("main", none) /\ "STATIC_PARTIAL" \notin VerifiedStatuses /\ "main" \in Parts(feed)
  BY MainIsPart DEF EvidenceSound, Evidence, VerifiedStatuses, Tiled
<1> HIDE DEF taken, none
<1>4. PlainPlan(Fails("regions"), n)
  BY FailuresPlanned DEF Kinds, Static
<1>5. PlainPlan(partial, n)
  BY <1>3, RememberPlanned, MarkPlanned, PlansJoined
<1> HIDE DEF partial
<1>6. ASSUME taken.outcome = "rows"
      PROVE  PlainPlan(RegionsStored(taken.ids) \o Verify(taken.ids, TRUE), n)
  <2>1. taken.ids \in SUBSET Ids
    BY <1>1, <1>6, TakenAnswers
  <2>2. IsFiniteSet(taken.ids)
    BY <2>1, IdsAssumption, FS_Subset
  <2>3. PlainPlan(SavePairs(taken.ids), n) /\ PlainPlan(Verify(taken.ids, TRUE), n)
        /\ PlainPlan(Prune("records", taken.ids), n) /\ PlainPlan(Prune("geometries", taken.ids), n)
    BY <2>1, <2>2, SavesPlanned, PrunePlanned, VerifyPlanned
  <2>4. PlainPlan(SavePairs(taken.ids) \o Prune("records", taken.ids), n)
    BY <2>3, PlansJoined
  <2>5. PlainPlan(RegionsStored(taken.ids), n)
    BY <2>3, <2>4, PlansJoined DEF RegionsStored
  <2> QED
    BY <2>3, <2>5, PlansJoined
<1> QED
  BY <1>2, <1>4, <1>5, <1>6

LEMMA BundlePlanned ==
  ASSUME NEW n, NEW a, feed \in Kinds, AnswerSound(a)
  PROVE  PlainPlan(IngestBundle(feed, a), n)
<1>1. PlainPlan(Fails(feed), n) /\ PlainPlan(<< >>, n)
  BY FailuresPlanned, NothingPlanned
<1>2. ASSUME a.outcome = "rows"
      PROVE  PlainPlan(SavePairs(a.ids) \o Verify(a.ids, a.whole), n)
  <2>1. a.ids \in SUBSET Ids
    BY <1>2, TakenAnswers
  <2>2. IsFiniteSet(a.ids)
    BY <2>1, IdsAssumption, FS_Subset
  <2> QED
    BY <2>1, <2>2, SavesPlanned, VerifyPlanned, PlansJoined
<1> QED
  BY <1>1, <1>2 DEF IngestBundle

LEMMA EndpointPlanned ==
  ASSUME NEW n, NEW a, feed \in Kinds, AnswerSound(a)
  PROVE  PlanSound(Endpoint(feed, a), n) /\ FiresSaved(Endpoint(feed, a))
<1>1. CASE feed \in Observed
  <2>1. Endpoint(feed, a) = Observes(feed, AllOrNothing(a))
    BY <1>1 DEF Endpoint, Observed, IngestEarthquakes, IngestVessels, IngestAircraft,
                EarthquakesTaken, VesselsTaken, AircraftTaken
  <2> QED
    BY <1>1, <2>1, TakenAnswers, ObservesPlanned, PlainIsSound, OnlyFiresSaved DEF Observed
<1>2. CASE feed = "firms"
  <2>1. Endpoint(feed, a) = IF a.outcome = "rows" THEN SaveAll("records", a.ids) \o Verify(a.ids, TRUE) ELSE << >>
    BY <1>2 DEF Endpoint, IngestFires, FiresTaken
  <2>2. CASE a.outcome = "rows"
    BY <2>1, <2>2, TakenAnswers, RowsPlanned, PlainIsSound
  <2>3. CASE a.outcome # "rows"
    BY <2>1, <2>3, NothingPlanned, NothingToSave
  <2> QED
    BY <2>2, <2>3
<1>3. CASE feed = "tomtom"
  <2>1. Endpoint(feed, a) =
          CASE a.outcome = "rows" -> SaveAll("records", a.ids) \o Verify(a.ids, TRUE)
            [] a.outcome = "down" -> Fails("tomtom")
            [] OTHER -> << >>
    BY <1>3 DEF Endpoint, IngestTraffic, SegmentsTaken
  <2>2. a.outcome = "rows" => PlainPlan(SaveAll("records", a.ids) \o Verify(a.ids, TRUE), n)
    BY TakenAnswers, RowsPlanned
  <2>3. PlainPlan(Fails("tomtom"), n) /\ PlainPlan(<< >>, n)
    BY <1>3, FailuresPlanned, NothingPlanned
  <2>4. PlainPlan(Endpoint(feed, a), n)
    BY <2>1, <2>2, <2>3
  <2> QED
    BY <1>3, <2>4, PlainIsSound, OnlyFiresSaved
<1>4. CASE feed \in Weather
  <2>1. PICK failures : Endpoint(feed, a) = IngestWeather(feed, a, failures)
    BY <1>4 DEF Endpoint, Weather, IngestWind, IngestOpenMeteo
  <2> QED
    BY <1>4, <2>1, WeatherPlanned, PlainIsSound, OnlyFiresSaved DEF Weather
<1>5. CASE feed \in Imagery
  <2>1. Endpoint(feed, a) = RequestImagery(feed, a)
    BY <1>5 DEF Endpoint, Imagery, RequestRadar, RequestSatellite
  <2> QED
    BY <1>5, <2>1, ImageryPlanned, PlainIsSound, OnlyFiresSaved DEF Imagery
<1>6. CASE feed \in Tiled
  <2>1. Endpoint(feed, a) = VerifyTiles(feed, a)
    BY <1>6 DEF Endpoint, Tiled, VerifyPhotoreal, VerifyImagery, VerifyTerrain, VerifyVector
  <2>2. PlainPlan(Fails(feed), n) /\ PlainPlan(Verify({}, TRUE), n)
    BY FailuresPlanned, VerifyPlanned
  <2>3. PlainPlan(Endpoint(feed, a), n)
    BY <2>1, <2>2 DEF VerifyTiles
  <2> QED
    BY <1>6, <2>3, PlainIsSound, OnlyFiresSaved DEF Tiled
<1>7. CASE feed = "cyclone"
  <2>1. Endpoint(feed, a) = IngestCyclones(a)
    BY <1>7 DEF Endpoint
  <2> QED
    BY <1>7, <2>1, CyclonePlanned, PlainIsSound, OnlyFiresSaved
<1>8. CASE feed = "regions"
  <2>1. Endpoint(feed, a) = IngestRegions(a)
    BY <1>8 DEF Endpoint
  <2> QED
    BY <1>8, <2>1, RegionsPlanned, PlainIsSound, OnlyFiresSaved
<1>9. CASE feed \in Bundles
  <2>1. Endpoint(feed, a) = IngestBundle(feed, DamsTaken(a))
    BY <1>9 DEF Endpoint, Bundles, IngestDams, IngestEvent, EventTaken
  <2> QED
    BY <1>9, <2>1, TakenAnswers, BundlePlanned, PlainIsSound, OnlyFiresSaved DEF Bundles
<1> QED
  BY <1>1, <1>2, <1>3, <1>4, <1>5, <1>6, <1>7, <1>8, <1>9 DEF Kinds, Static
-----------------------------------------------------------------------------
(* What a starting process makes of a sound record.                        *)
LEMMA StatusIsSound ==
  ASSUME NEW part, NEW status, NEW n, n # 0 => Stamped(part, n), Claimed(part, status, n)
  PROVE  ListingSound(part, Status(status, n))
<1>1. Status(status, n).status = status /\ Status(status, n).at = n
  BY DEF Status
<1>2. Status(status, n) = [status |-> Status(status, n).status, at |-> Status(status, n).at]
  BY DEF Status
<1> QED
  BY <1>1, <1>2 DEF ListingSound

LEMMA UnclaimedIsSound ==
  ASSUME NEW part, NEW status, status \notin VerifiedStatuses
  PROVE  ListingSound(part, Status(status, 0))
  BY StatusIsSound DEF Claimed

LEMMA RestoredIsSound ==
  ASSUME NEW part, NEW record, RecordSound(part, record)
  PROVE  ListingSound(part, Restored(feed, record))
<1>1. \A status : status \in {"UNAVAILABLE", "PENDING", "UNVERIFIED", "STATIC_PARTIAL", "CONFIGURED"}
                  => ListingSound(part, Status(status, 0))
  BY UnclaimedIsSound DEF VerifiedStatuses
<1>2. /\ record.stamp # 0 => Stamped(part, record.stamp)
      /\ Claimed(part, record.fetch, record.stamp)
      /\ EvidenceSound(part, record.evidence)
      /\ record.fetch = "STATIC_VERIFIED" => feed \in Static
  BY DEF RecordSound
<1>3. CASE feed \in Observed
  <2>1. Restored(feed, record) = RestoredObservations(record)
    BY <1>3 DEF Restored, Observed, Tiled, Bundles
  <2>2. ASSUME record.evidence.status = "LIVE_VERIFIED"
        PROVE  ListingSound(part, Status("LIVE_VERIFIED", record.evidence.at))
    <3>1. VerifiedAt(part, record.evidence.at)
      BY <1>2, <2>2 DEF EvidenceSound, VerifiedStatuses
    <3> QED
      BY <3>1, StatusIsSound, VerifiedIsStamped DEF Claimed
  <2> QED
    BY <1>1, <2>1, <2>2 DEF RestoredObservations
<1>4. CASE feed = "regions"
  <2>1. Restored(feed, record) = RestoredRegions(record)
    BY <1>4 DEF Restored, Observed, Tiled, Bundles
  <2>2. record.fetch = "STATIC_VERIFIED" => ListingSound(part, Status("STATIC_VERIFIED", record.stamp))
    BY <1>2, StatusIsSound
  <2> QED
    BY <1>1, <2>1, <2>2 DEF RestoredRegions
<1>5. CASE feed \in Tiled
  <2>1. Restored(feed, record) = RestoredTiles(record)
    BY <1>5 DEF Restored, Observed, Tiled, Bundles
  <2>2. record.evidence.at # 0 => VerifiedAt(part, record.evidence.at)
    BY <1>2, <1>5 DEF EvidenceSound
  <2>3. record.evidence.status \in VerifiedStatuses => VerifiedAt(part, record.evidence.at)
    BY <1>2 DEF EvidenceSound
  <2>4. ListingSound(part, Status(record.evidence.status, record.evidence.at))
    BY <2>2, <2>3, StatusIsSound, VerifiedIsStamped DEF Claimed
  <2> QED
    BY <1>1, <2>1, <2>4 DEF RestoredTiles
<1>6. CASE feed \in Bundles
  <2>1. Restored(feed, record) = RestoredBundle(record)
    BY <1>6 DEF Restored, Observed, Tiled, Bundles
  <2>2. record.fetch = "STATIC_VERIFIED" => ListingSound(part, Status("STATIC_VERIFIED", record.stamp))
    BY <1>2, StatusIsSound
  <2> QED
    BY <1>1, <2>1, <2>2 DEF RestoredBundle
<1>7. CASE feed \in {"firms", "tomtom"}
  <2> DEFINE status == IF feed = "tomtom" /\ record.fetch = "UNAVAILABLE" THEN "UNAVAILABLE"
                       ELSE IF record.stamp # 0 THEN "LIVE_VERIFIED" ELSE "CONFIGURED"
  <2>1. Restored(feed, record) = Status(status, record.stamp)
    BY <1>7 DEF Restored, RestoredByStamp, Observed, Tiled, Bundles
  <2>2. status \in VerifiedStatuses => record.stamp # 0
    BY DEF VerifiedStatuses
  <2> HIDE DEF status
  <2> QED
    BY <1>2, <2>1, <2>2, StatusIsSound DEF Claimed
<1>8. CASE feed \notin Observed \cup Tiled \cup Bundles \cup {"regions", "firms", "tomtom"}
  <2> DEFINE n == IF record.fetch = "LIVE_VERIFIED" THEN record.stamp ELSE 0
  <2>1. Restored(feed, record) = Status(record.fetch, n)
    BY <1>8 DEF Restored, RestoredByStatus
  <2>2. record.fetch # "STATIC_VERIFIED"
    BY <1>2, <1>8 DEF Static
  <2>3. (n # 0 => Stamped(part, n)) /\ Claimed(part, record.fetch, n)
    BY <1>2, <2>2 DEF Claimed, VerifiedStatuses
  <2> HIDE DEF n
  <2> QED
    BY <2>1, <2>3, StatusIsSound
<1> QED
  BY <1>3, <1>4, <1>5, <1>6, <1>7, <1>8

LEMMA CorrectedIsSound ==
  ASSUME NEW part, NEW record, RecordSound(part, record)
  PROVE  RecordSound(part, Corrected(feed, record))
<1> DEFINE status == Restored(feed, record).status
           evidence == Evidence(status, Stored("records"), 0)
           corrected == [record EXCEPT !.fetch = status, !.evidence = evidence]
<1>1. CASE feed \in Observed /\ status # record.fetch
  <2>1. Restored(feed, record) = RestoredObservations(record)
    BY <1>1 DEF Restored, Observed, Tiled, Bundles
  <2>2. status \in {"UNAVAILABLE", "PENDING"}
    BY <1>1, <2>1 DEF RestoredObservations, Status
  <2> HIDE DEF status
  <2>3. evidence.status = status /\ evidence.at = 0
    BY DEF Evidence
  <2>4. feed \notin Tiled /\ status \notin VerifiedStatuses /\ status # "STATIC_VERIFIED"
    BY <1>1, <2>2 DEF Observed, Tiled, VerifiedStatuses
  <2> HIDE DEF evidence
  <2>5. EvidenceSound(part, evidence) /\ Claimed(part, status, record.stamp)
    BY <2>3, <2>4 DEF EvidenceSound, Claimed
  <2>6. record = [fetch |-> record.fetch, stamp |-> record.stamp, evidence |-> record.evidence]
        /\ (record.stamp # 0 => Stamped(part, record.stamp))
    BY DEF RecordSound
  <2>7. corrected = [fetch |-> status, stamp |-> record.stamp, evidence |-> evidence]
    <3> DEFINE f == record.fetch
               m == record.stamp
               e == record.evidence
    <3>1. record = [fetch |-> f, stamp |-> m, evidence |-> e]
      BY <2>6
    <3> HIDE DEF f, m, e
    <3>2. corrected = [[fetch |-> f, stamp |-> m, evidence |-> e] EXCEPT !.fetch = status, !.evidence = evidence]
      BY <3>1
    <3> HIDE DEF corrected
    <3>3. corrected = [fetch |-> status, stamp |-> m, evidence |-> evidence]
      BY <3>2
    <3> QED
      BY <3>3 DEF m
  <2>8. RecordSound(part, [fetch |-> status, stamp |-> record.stamp, evidence |-> evidence])
    BY <2>4, <2>5, <2>6 DEF RecordSound
  <2>9. Corrected(feed, record) = corrected
    BY <1>1 DEF Corrected, status, evidence
  <2> QED
    BY <2>7, <2>8, <2>9
<1>2. CASE ~(feed \in Observed /\ status # record.fetch)
  BY <1>2 DEF Corrected
<1> QED
  BY <1>1, <1>2
-----------------------------------------------------------------------------
(* What the steps of the other threads leave sound.                        *)
LEMMA SteadyGrows ==
  ASSUME UNCHANGED <<feed, rows>>, verified \subseteq verified'
  PROVE  Grows
  BY DEF Grows

LEMMA JobsStay ==
  ASSUME FeedType, Grows
  PROVE  \A job : JobSound(job) => JobSound(job)'
<1> SUFFICES ASSUME NEW job, JobSound(job) PROVE JobSound(job)'
  OBVIOUS
<1>1. feed' = feed
  BY DEF Grows
<1>2. /\ \A part, record : RecordSound(part, record) => RecordSound(part, record)'
      /\ \A i, n : InstructionSound(i, n) => InstructionSound(i, n)'
  BY SoundnessStays
<1>3. FiresSaved(job.todo)'
  <2> SUFFICES ASSUME feed = "firms", NEW k \in 1..Len(job.todo), job.todo[k].op = "verify",
                      NEW id \in job.todo[k].ids
               PROVE  rows'[<<"records", id>>] # 0 \/ \E j \in 1..(k - 1) : Saves(job.todo[j], id)
    BY <1>1 DEF FiresSaved
  <2>1. InstructionSound(job.todo[k], job.at)
    BY DEF JobSound
  <2>2. id \in Ids
    BY <2>1 DEF InstructionSound, PlainSound
  <2>3. rows[<<"records", id>>] # 0 \/ \E j \in 1..(k - 1) : Saves(job.todo[j], id)
    BY DEF JobSound, FiresSaved
  <2> QED
    BY <2>2, <2>3 DEF Grows
<1> QED
  BY <1>2, <1>3 DEF JobSound

LEMMA RecordsStay ==
  ASSUME FeedInv, Grows
  PROVE  /\ \A part \in Parts(feed) : RecordSound(part, registry[part])'
            \/ registry'[part] # registry[part]
         /\ registry' = registry => RecordsSound'
         /\ memory' = memory => ListingsSound'
         /\ jobs' = jobs => JobsSound'
<1>1. FeedType
  BY DEF FeedInv
<1>2. /\ \A part, record : RecordSound(part, record) => RecordSound(part, record)'
      /\ \A part, state : ListingSound(part, state) => ListingSound(part, state)'
      /\ \A job : JobSound(job) => JobSound(job)'
  BY <1>1, SoundnessStays, JobsStay
<1>3. feed' = feed /\ Parts(feed)' = Parts(feed)
  BY DEF Grows, Parts
<1> QED
  BY <1>2, <1>3 DEF FeedInv, RecordsSound, ListingsSound, JobsSound

(* A plan that is sound makes a job that is.                               *)
LEMMA PlannedJob ==
  ASSUME NEW plan, NEW n, NEW held, PlanSound(plan, n), FiresSaved(plan), n \in Nat \ {0}
  PROVE  JobSound([todo |-> plan, at |-> n, held |-> held])
<1> DEFINE job == [todo |-> plan, at |-> n, held |-> held]
<1>1. job.todo = plan /\ job.at = n /\ job = [todo |-> job.todo, at |-> job.at, held |-> job.held]
  OBVIOUS
<1> HIDE DEF job
<1>2. \A k \in 1..Len(plan) : plan[k].op = "store" => k # 1 /\ Loaded(plan, k)
  BY DEF PlanSound, LoadsFirst, Loaded
<1>3. IsSeq(plan) /\ \A k \in 1..Len(plan) : InstructionSound(plan[k], n)
  BY DEF PlanSound, LoadsFirst
<1>4. JobSound(job)
  BY <1>1, <1>2, <1>3 DEF JobSound
<1> QED
  BY <1>4 DEF job

LEMMA PlannedJobs ==
  (\A plan, n, held :
     PlanSound(plan, n) /\ FiresSaved(plan) /\ n \in Nat \ {0}
       => JobSound([todo |-> plan, at |-> n, held |-> held]))'
<1>1. \A plan, n, held :
        PlanSound(plan, n) /\ FiresSaved(plan) /\ n \in Nat \ {0}
          => JobSound([todo |-> plan, at |-> n, held |-> held])
  BY PlannedJob
<1> QED
  BY <1>1, PTL

LEMMA IdleJob == JobSound(NoJob)
<1>1. NoJob.todo = << >> /\ NoJob = [todo |-> NoJob.todo, at |-> NoJob.at, held |-> NoJob.held]
  BY DEF NoJob
<1>2. << >> \in Seq({}) /\ Len(<< >>) = 0
  OBVIOUS
<1> QED
  BY <1>1, <1>2, NothingToSave DEF JobSound, IsSeq

LEMMA IdleJobs == JobSound(NoJob)'
<1>1. JobSound(NoJob)
  BY IdleJob
<1> QED
  BY <1>1, PTL

(* One job changes.                                                        *)
LEMMA OneJob ==
  ASSUME FeedInv, Grows, NEW t \in FThreads, NEW job, jobs' = [jobs EXCEPT ![t] = job], JobSound(job)'
  PROVE  JobsSound' /\ jobs' = [u \in FThreads |-> jobs'[u]]
<1>1. jobs = [u \in FThreads |-> jobs[u]] /\ \A u \in FThreads : JobSound(jobs[u])
  BY DEF FeedInv, FeedType, JobsSound
<1>2. \A other : JobSound(other) => JobSound(other)'
  BY JobsStay DEF FeedInv
<1>3. jobs' = [u \in FThreads |-> IF u = t THEN job ELSE jobs[u]]
  BY <1>1
<1>4. ASSUME NEW u \in FThreads PROVE JobSound(jobs[u])'
  <2>1. CASE u = t
    <3>1. jobs'[u] = job
      BY <1>3, <2>1
    <3> QED
      BY <3>1
  <2>2. CASE u # t
    <3>1. jobs'[u] = jobs[u]
      BY <1>3, <2>2
    <3>2. JobSound(jobs[u])
      BY <1>1
    <3> QED
      BY <1>2, <3>1, <3>2
  <2> QED
    BY <2>1, <2>2
<1> QED
  BY <1>3, <1>4 DEF JobsSound

(* The instruction a thread is at.                                         *)
LEMMA AtHead ==
  ASSUME FeedInv, NEW t \in FThreads, Busy(t)
  PROVE  /\ jobs[t].at \in Nat \ {0}
         /\ Now(t) = jobs[t].todo[1] /\ InstructionSound(Now(t), jobs[t].at)
         /\ Now(t).op = "store" => RecordSound(Now(t).part, jobs[t].held)
         /\ jobs[t] = [todo |-> jobs[t].todo, at |-> jobs[t].at, held |-> jobs[t].held]
         /\ 1 \in 1..Len(jobs[t].todo)
<1>1. JobSound(jobs[t])
  BY DEF FeedInv, JobsSound
<1>2. PICK S : jobs[t].todo \in Seq(S)
  BY <1>1 DEF JobSound, IsSeq
<1>3. jobs[t].todo # << >>
  BY DEF Busy
<1>4. 1 \in 1..Len(jobs[t].todo) /\ Now(t) = jobs[t].todo[1]
  BY <1>2, <1>3 DEF Now
<1> QED
  BY <1>1, <1>3, <1>4 DEF JobSound

LEMMA GoesSound ==
  ASSUME FeedInv, Grows, NEW t \in FThreads, Busy(t), NEW plan, Goes(t, plan),
         NEW n, n = jobs[t].at, PlanSound(plan, n)', FiresSaved(plan)'
  PROVE  JobsSound' /\ jobs' = [u \in FThreads |-> jobs'[u]]
<1> DEFINE job == IF plan = << >> THEN NoJob ELSE [todo |-> plan, at |-> n, held |-> Unread]
<1>1. n \in Nat \ {0}
  BY AtHead
<1>2. jobs' = [jobs EXCEPT ![t] = job]
  BY DEF Goes
<1>3. JobSound(job)'
  <2>1. CASE plan = << >>
    BY <2>1, IdleJobs
  <2>2. CASE plan # << >>
    BY <1>1, <2>2, PlannedJobs
  <2> QED
    BY <2>1, <2>2
<1> QED
  BY <1>2, <1>3, OneJob

(* What is left of a plan.                                                 *)
LEMMA RestShape ==
  ASSUME FeedInv, NEW t \in FThreads, Busy(t), NEW plan, plan = Rest(t)
  PROVE  /\ IsSeq(plan) /\ jobs[t].at \in Nat \ {0}
         /\ \A k \in 1..Len(plan) :
              /\ InstructionSound(plan[k], jobs[t].at)
              /\ plan[k].op = "store" =>
                   IF k = 1 THEN Now(t).op = "load" /\ Now(t).part = plan[1].part ELSE Loaded(plan, k)
         /\ feed = "firms" =>
              \A k \in 1..Len(plan) : plan[k].op = "verify" =>
                \A id \in plan[k].ids : \/ rows[<<"records", id>>] # 0 \/ Saves(Now(t), id)
                                        \/ \E j \in 1..(k - 1) : Saves(plan[j], id)
<1> DEFINE todo == jobs[t].todo
<1>1. JobSound(jobs[t])
  BY DEF FeedInv, JobsSound
<1>2. PICK S : todo \in Seq(S)
  BY <1>1 DEF JobSound, IsSeq
<1>3. todo # << >> /\ Now(t) = todo[1] /\ jobs[t].at \in Nat \ {0}
  BY AtHead DEF Busy
<1>4. /\ plan \in Seq(S) /\ Len(plan) \in Nat /\ Len(todo) = Len(plan) + 1
      /\ \A k \in 1..Len(plan) : plan[k] = todo[k + 1]
  BY <1>2, <1>3 DEF Rest
<1>5. /\ FiresSaved(todo)
      /\ \A k \in 1..Len(todo) :
           /\ InstructionSound(todo[k], jobs[t].at)
           /\ todo[k].op = "store" /\ k # 1 => Loaded(todo, k)
  BY <1>1 DEF JobSound
<1> HIDE DEF todo
<1>6. ASSUME NEW k \in 1..Len(plan), plan[k].op = "store"
      PROVE  IF k = 1 THEN Now(t).op = "load" /\ Now(t).part = plan[1].part ELSE Loaded(plan, k)
  <2>1. k + 1 \in 1..Len(todo) /\ k + 1 # 1 /\ plan[k] = todo[k + 1]
    BY <1>4
  <2>2. Loaded(todo, k + 1)
    BY <1>5, <1>6, <2>1
  <2>3. todo[k].op = "load" /\ todo[k].part = plan[k].part
    BY <1>4, <2>1, <2>2 DEF Loaded
  <2>4. k # 1 => k > 1 /\ plan[k - 1] = todo[k]
    BY <1>4
  <2> QED
    BY <1>3, <2>3, <2>4 DEF Loaded
<1>7. \A k \in 1..Len(plan) : InstructionSound(plan[k], jobs[t].at)
  BY <1>4, <1>5
<1>8. ASSUME feed = "firms", NEW k \in 1..Len(plan), plan[k].op = "verify", NEW id \in plan[k].ids
      PROVE  \/ rows[<<"records", id>>] # 0 \/ Saves(Now(t), id)
             \/ \E j \in 1..(k - 1) : Saves(plan[j], id)
  <2>1. k + 1 \in 1..Len(todo) /\ plan[k] = todo[k + 1]
    BY <1>4
  <2>2. rows[<<"records", id>>] # 0 \/ \E j \in 1..k : Saves(todo[j], id)
    BY <1>4, <1>5, <1>8, <2>1 DEF FiresSaved
  <2>3. ASSUME NEW j \in 1..k, Saves(todo[j], id)
        PROVE  Saves(Now(t), id) \/ \E l \in 1..(k - 1) : Saves(plan[l], id)
    <3>1. CASE j = 1
      BY <1>3, <2>3, <3>1
    <3>2. CASE j # 1
      <4>1. j - 1 \in 1..(k - 1) /\ plan[j - 1] = todo[j]
        BY <1>4, <3>2
      <4> QED
        BY <2>3, <4>1
    <3> QED
      BY <3>1, <3>2
  <2> QED
    BY <2>2, <2>3
<1>9. IsSeq(plan)
  BY <1>4 DEF IsSeq
<1> QED
  BY <1>3, <1>6, <1>7, <1>8, <1>9

LEMMA RestPlanned ==
  ASSUME FeedInv, NEW t \in FThreads, Busy(t), Now(t).op # "load", NEW plan, plan = Rest(t)
  PROVE  PlanSound(plan, jobs[t].at)
  BY RestShape DEF PlanSound, LoadsFirst, Loaded

LEMMA PlansStay ==
  ASSUME FeedType, Grows
  PROVE  \A plan, n : PlanSound(plan, n) => PlanSound(plan, n)'
  BY SoundnessStays DEF PlanSound

(* Done with its head, the plan goes on.                                   *)
LEMMA RestSound ==
  ASSUME FeedInv, Grows, NEW t \in FThreads, Busy(t), Now(t).op # "load",
         feed = "firms" => \A id \in Ids : Saves(Now(t), id) => rows'[<<"records", id>>] # 0,
         NEW n, n = jobs[t].at, NEW plan, plan = Rest(t)
  PROVE  PlanSound(plan, n)' /\ FiresSaved(plan)'
<1>1. PlanSound(plan, n) /\ FeedType
  BY RestPlanned DEF FeedInv
<1>2. PlanSound(plan, n)'
  BY <1>1, PlansStay
<1>3. FiresSaved(plan)'
  <2>1. feed' = feed
    BY DEF Grows
  <2> SUFFICES ASSUME feed = "firms", NEW k \in 1..Len(plan), plan[k].op = "verify", NEW id \in plan[k].ids
               PROVE  rows'[<<"records", id>>] # 0 \/ \E j \in 1..(k - 1) : Saves(plan[j], id)
    BY <2>1 DEF FiresSaved
  <2>2. InstructionSound(plan[k], n)
    BY <1>1 DEF PlanSound
  <2>3. id \in Ids
    BY <2>2 DEF InstructionSound, PlainSound
  <2>4. \/ rows[<<"records", id>>] # 0 \/ Saves(Now(t), id)
        \/ \E j \in 1..(k - 1) : Saves(plan[j], id)
    BY RestShape
  <2>5. rows[<<"records", id>>] # 0 => rows'[<<"records", id>>] # 0
    BY <2>3 DEF Grows
  <2> QED
    BY <2>3, <2>4, <2>5
<1> QED
  BY <1>2, <1>3

LEMMA NoRowsVerified ==
  ASSUME NEW s, \A k \in 1..Len(s) : s[k].op # "verify"
  PROVE  FiresSaved(s) /\ FiresSaved(s)'
  BY DEF FiresSaved

LEMMA NoFires ==
  ASSUME NEW s, feed # "firms", feed' = feed
  PROVE  FiresSaved(s)'
  BY DEF FiresSaved
-----------------------------------------------------------------------------
(* The parts of the invariant, after a step.                               *)
LEMMA StepKeeps ==
  ASSUME FeedInv, Grows, requests' \in Nat, bundle' = bundle,
         rows' = rows \/ rows' = [row \in Tables \X Ids |-> rows'[row]],
         registry' = registry \/ (registry' = [part \in Parts(feed) |-> registry'[part]] /\ RecordsSound'),
         memory' = memory \/ (memory' = [part \in Parts(feed) |-> memory'[part]] /\ ListingsSound'),
         jobs' = jobs \/ (jobs' = [t \in FThreads |-> jobs'[t]] /\ JobsSound'),
         verified' = verified \/ \A v \in verified' : v.ids \in SUBSET Ids
  PROVE  FeedInv'
<1>1. feed' = feed /\ Parts(feed)' = Parts(feed)
  BY DEF Grows, Parts
<1>2. FeedType /\ RecordsSound /\ ListingsSound /\ JobsSound
  BY DEF FeedInv
<1>3. RecordsSound' /\ ListingsSound' /\ JobsSound'
  BY RecordsStay
<1>4. /\ feed' \in Kinds \cup {"registration"} /\ requests' \in Nat
      /\ bundle' \in BundleSet /\ (feed' \in Static => bundle'.version # 0)
  BY <1>1, <1>2 DEF FeedType
<1>5. rows' = [row \in Tables \X Ids |-> rows'[row]] /\ \A v \in verified' : v.ids \in SUBSET Ids
  BY <1>2 DEF FeedType
<1>6. /\ registry' = [part \in Parts(feed)' |-> registry'[part]]
      /\ memory' = [part \in Parts(feed)' |-> memory'[part]]
      /\ jobs' = [t \in FThreads |-> jobs'[t]]
  BY <1>1, <1>2 DEF FeedType
<1>7. FeedType'
  BY <1>4, <1>5, <1>6 DEF FeedType, BundleSet
<1> QED
  BY <1>3, <1>7 DEF FeedInv

LEMMA OneRecord ==
  ASSUME FeedInv, Grows, NEW part \in Parts(feed), NEW record,
         registry' = [registry EXCEPT ![part] = record], RecordSound(part, record)
  PROVE  registry' = [p \in Parts(feed) |-> registry'[p]] /\ RecordsSound'
<1>1. registry = [p \in Parts(feed) |-> registry[p]] /\ \A p \in Parts(feed) : RecordSound(p, registry[p])
  BY DEF FeedInv, FeedType, RecordsSound
<1>2. \A p, r : RecordSound(p, r) => RecordSound(p, r)'
  BY SoundnessStays DEF FeedInv
<1>3. registry' = [p \in Parts(feed) |-> IF p = part THEN record ELSE registry[p]]
  BY <1>1
<1>4. \A p \in Parts(feed) : RecordSound(p, registry'[p])
  BY <1>1, <1>3
<1>5. feed' = feed /\ Parts(feed)' = Parts(feed)
  BY DEF Grows, Parts
<1>6. ASSUME NEW p \in Parts(feed) PROVE RecordSound(p, registry[p])'
  <2>1. PICK r : r = registry'[p]
    OBVIOUS
  <2> QED
    BY <1>2, <1>4, <2>1
<1> QED
  BY <1>3, <1>5, <1>6 DEF RecordsSound

LEMMA OneListing ==
  ASSUME FeedInv, Grows, NEW part \in Parts(feed), NEW state,
         memory' = [memory EXCEPT ![part] = state], ListingSound(part, state)
  PROVE  memory' = [p \in Parts(feed) |-> memory'[p]] /\ ListingsSound'
<1>1. memory = [p \in Parts(feed) |-> memory[p]] /\ \A p \in Parts(feed) : ListingSound(p, memory[p])
  BY DEF FeedInv, FeedType, ListingsSound
<1>2. \A p, r : ListingSound(p, r) => ListingSound(p, r)'
  BY SoundnessStays DEF FeedInv
<1>3. memory' = [p \in Parts(feed) |-> IF p = part THEN state ELSE memory[p]]
  BY <1>1
<1>4. \A p \in Parts(feed) : ListingSound(p, memory'[p])
  BY <1>1, <1>3
<1>5. feed' = feed /\ Parts(feed)' = Parts(feed)
  BY DEF Grows, Parts
<1>6. ASSUME NEW p \in Parts(feed) PROVE ListingSound(p, memory[p])'
  <2>1. PICK r : r = memory'[p]
    OBVIOUS
  <2> QED
    BY <1>2, <1>4, <2>1
<1> QED
  BY <1>3, <1>5, <1>6 DEF ListingsSound

LEMMA MarkedIsSound ==
  ASSUME NEW i, NEW n, NEW held, RecordSound(i.part, held), MarkSound(i, n)
  PROVE  RecordSound(i.part, Marked(held, i, n))
<1> DEFINE f == IF i.status = "SAME" THEN held.fetch ELSE i.status
           m == IF i.validated THEN Stamp(n) ELSE held.stamp
           e == IF i.evidence = NoEvidence THEN held.evidence ELSE i.evidence
<1>1. /\ held.stamp # 0 => Stamped(i.part, held.stamp)
      /\ Claimed(i.part, held.fetch, held.stamp) /\ EvidenceSound(i.part, held.evidence)
      /\ held.fetch = "STATIC_VERIFIED" => feed \in Static
  BY DEF RecordSound
<1>2. /\ i.validated => Stamped(i.part, Stamp(n))
      /\ i.status = "STATIC_VERIFIED" => feed \in Static
      /\ i.status \in VerifiedStatuses => i.validated \/ (feed \in Imagery /\ \E l : VerifiedAt(i.part, l))
      /\ EvidenceSound(i.part, i.evidence)
  BY VerifiedIsStamped DEF MarkSound
<1>3. (m # 0 => Stamped(i.part, m)) /\ EvidenceSound(i.part, e) /\ (f = "STATIC_VERIFIED" => feed \in Static)
  BY <1>1, <1>2
<1>4. Claimed(i.part, f, m)
  BY <1>1, <1>2 DEF Claimed
<1>5. Marked(held, i, n) = [fetch |-> f, stamp |-> m, evidence |-> e]
  BY DEF Marked
<1> HIDE DEF f, m, e
<1> QED
  BY <1>3, <1>4, <1>5 DEF RecordSound
-----------------------------------------------------------------------------
(* The steps, one by one.                                                  *)
LEMMA FetchKeeps ==
  ASSUME FeedInv, feed \in Kinds, NEW t \in FThreads, Fetch(t)
  PROVE  FeedInv'
<1>1. PICK answer \in Answers : Begin(t, Endpoint(feed, answer))
  BY DEF Fetch
<1>2. PICK plan : plan = Endpoint(feed, answer)
  OBVIOUS
<1> DEFINE n == requests + 1
           job == [todo |-> plan, at |-> n, held |-> Unread]
<1>3. FeedType
  BY DEF FeedInv
<1>4. AnswerSound(answer)
  BY <1>3, AnswersAreSound DEF FeedType
<1>5. n \in Nat \ {0} /\ requests \in Nat
  BY <1>3 DEF FeedType
<1>6. PlanSound(plan, n) /\ FiresSaved(plan)
  BY <1>2, <1>4, EndpointPlanned
<1>7. Grows
  BY <1>1, SteadyGrows DEF Begin
<1>8. PICK fresh : fresh = job
  OBVIOUS
<1>9. JobSound(fresh)
  BY <1>5, <1>6, <1>8, PlannedJob
<1>10. JobSound(fresh)'
  BY <1>3, <1>7, <1>9, JobsStay
<1>11. jobs' = [jobs EXCEPT ![t] = fresh]
  BY <1>1, <1>2, <1>8 DEF Begin
<1>12. JobsSound' /\ jobs' = [u \in FThreads |-> jobs'[u]]
  BY <1>7, <1>10, <1>11, OneJob
<1>13. requests' \in Nat
  BY <1>1, <1>5 DEF Begin
<1> QED
  BY <1>1, <1>7, <1>12, <1>13, StepKeeps DEF Begin

(* Steps that go on with their plan and touch no listing and no record.    *)
LEMMA GoesOn ==
  ASSUME FeedInv, feed \in Kinds, NEW t \in FThreads, Busy(t), Now(t).op \notin {"load", "save"},
         Goes(t, Rest(t)), Grows
  PROVE  JobsSound' /\ jobs' = [u \in FThreads |-> jobs'[u]]
<1>1. PICK n : n = jobs[t].at
  OBVIOUS
<1>2. PICK plan : plan = Rest(t)
  OBVIOUS
<1>3. feed = "firms" => \A id \in Ids : Saves(Now(t), id) => rows'[<<"records", id>>] # 0
  BY DEF Saves
<1>4. PlanSound(plan, n)' /\ FiresSaved(plan)'
  BY <1>1, <1>2, <1>3, RestSound
<1> QED
  BY <1>1, <1>2, <1>4, GoesSound

LEMMA SaveRowKeeps ==
  ASSUME FeedInv, feed \in Kinds, NEW t \in FThreads, SaveRow(t)
  PROVE  FeedInv'
<1>1. Busy(t) /\ Now(t).op = "save"
  BY DEF SaveRow, Doing, Now
<1>2. PICK n : n = jobs[t].at
  OBVIOUS
<1>3. PICK plan : plan = Rest(t)
  OBVIOUS
<1>4. n \in Nat \ {0}
  BY <1>1, <1>2, AtHead
<1>5. Content(t) # 0
  BY <1>2, <1>4 DEF Content, FeedInv, FeedType
<1>6. rows = [row \in Tables \X Ids |-> rows[row]]
  BY DEF FeedInv, FeedType
<1>7. PICK here : here = <<Now(t).table, Now(t).id>>
  OBVIOUS
<1>8. rows' = [row \in Tables \X Ids |-> IF row = here THEN Content(t) ELSE rows[row]]
  BY <1>6, <1>7 DEF SaveRow
<1>9. ASSUME NEW id \in Ids
      PROVE  /\ rows[<<"records", id>>] # 0 => rows'[<<"records", id>>] # 0
             /\ Saves(Now(t), id) => rows'[<<"records", id>>] # 0
  <2>1. <<"records", id>> \in Tables \X Ids
    BY DEF Tables
  <2>2. rows'[<<"records", id>>] = IF <<"records", id>> = here THEN Content(t) ELSE rows[<<"records", id>>]
    BY <1>8, <2>1
  <2> QED
    BY <1>5, <1>7, <2>2 DEF Saves
<1>10. Grows
  BY <1>9 DEF Grows, SaveRow
<1>11. PlanSound(plan, n)' /\ FiresSaved(plan)'
  BY <1>1, <1>2, <1>3, <1>9, <1>10, RestSound
<1>12. JobsSound' /\ jobs' = [u \in FThreads |-> jobs'[u]]
  BY <1>1, <1>2, <1>3, <1>10, <1>11, GoesSound DEF SaveRow
<1>13. rows' = [row \in Tables \X Ids |-> rows'[row]]
  BY <1>8
<1>14. requests' \in Nat
  BY DEF SaveRow, FeedInv, FeedType
<1> QED
  BY <1>10, <1>12, <1>13, <1>14, StepKeeps DEF SaveRow

LEMMA HandledKeeps ==
  ASSUME FeedInv, feed \in Kinds, NEW t \in FThreads, Busy(t),
         NEW plan, Goes(t, plan), PlanSound(plan, jobs[t].at), feed = "firms" => plan = << >>,
         UNCHANGED <<feed, registry, memory, rows, bundle, verified, requests>>
  PROVE  FeedInv'
<1>1. PICK n : n = jobs[t].at
  OBVIOUS
<1>2. Grows /\ feed' = feed /\ FeedType
  BY SteadyGrows DEF FeedInv
<1>3. FiresSaved(plan)'
  BY <1>2, NoRowsVerified, NoFires
<1>4. PlanSound(plan, n)'
  BY <1>1, <1>2, PlansStay
<1>5. JobsSound' /\ jobs' = [u \in FThreads |-> jobs'[u]]
  BY <1>1, <1>2, <1>3, <1>4, GoesSound
<1>6. requests' \in Nat
  BY DEF FeedInv, FeedType
<1> QED
  BY <1>2, <1>5, <1>6, StepKeeps

LEMMA SaveRaisesKeeps ==
  ASSUME FeedInv, feed \in Kinds, NEW t \in FThreads, SaveRaises(t)
  PROVE  FeedInv'
<1>1. PlanSound(Raised(feed), jobs[t].at)
  BY RaisesPlanned, PlainIsSound
<1>2. feed = "firms" => Raised(feed) = << >>
  BY DEF Raised
<1>3. Busy(t) /\ Goes(t, Raised(feed)) /\ UNCHANGED <<feed, registry, memory, rows, bundle, verified, requests>>
  BY DEF SaveRaises, Doing
<1>4. PICK plan : plan = Raised(feed)
  OBVIOUS
<1> QED
  BY <1>1, <1>2, <1>3, <1>4, HandledKeeps

LEMMA RegistryRaisesKeeps ==
  ASSUME FeedInv, feed \in Kinds, NEW t \in FThreads, RegistryRaises(t) \/ CompareRaises(t)
  PROVE  FeedInv'
<1>1. PICK plan : Goes(t, plan) /\ plan \in {RegistryRaised(feed, Now(t)), ReadRaised(feed)}
  BY DEF RegistryRaises, CompareRaises
<1>2. PlanSound(plan, jobs[t].at)
  BY <1>1, RegistryRaisesPlanned, PlainIsSound
<1>3. feed = "firms" => plan = << >>
  BY <1>1 DEF RegistryRaised, ReadRaised, Raised, Observed, Tiled
<1>4. Busy(t) /\ UNCHANGED <<feed, registry, memory, rows, bundle, verified, requests>>
  BY DEF RegistryRaises, CompareRaises, Doing
<1> QED
  BY <1>1, <1>2, <1>3, <1>4, HandledKeeps

LEMMA PrunesKeep ==
  ASSUME FeedInv, feed \in Kinds, NEW t \in FThreads, PruneRow(t)
  PROVE  FeedInv'
<1>1. Busy(t) /\ Now(t).op = "prune"
  BY DEF PruneRow, Doing, Now
<1>2. feed = "regions"
  BY <1>1, AtHead DEF InstructionSound, PlainSound
<1>3. Grows
  BY <1>2 DEF Grows, PruneRow
<1>4. rows = [row \in Tables \X Ids |-> rows[row]]
  BY DEF FeedInv, FeedType
<1>5. rows' = [row \in Tables \X Ids |-> rows'[row]]
  BY <1>4 DEF PruneRow
<1>6. requests' \in Nat
  BY DEF PruneRow, FeedInv, FeedType
<1> QED
  BY <1>3, <1>5, <1>6, StepKeeps DEF PruneRow

LEMMA PassesKeep ==
  ASSUME FeedInv, feed \in Kinds, NEW t \in FThreads, PrunesNone(t) \/ SaveSnapshot(t)
  PROVE  FeedInv'
<1>1. Busy(t) /\ Now(t).op \notin {"load", "save"} /\ Goes(t, Rest(t))
  BY DEF PrunesNone, SaveSnapshot, Doing, Now
<1>2. UNCHANGED <<feed, registry, memory, rows, bundle, verified, requests>>
  BY DEF PrunesNone, SaveSnapshot
<1>3. Grows
  BY <1>2, SteadyGrows
<1>4. JobsSound' /\ jobs' = [u \in FThreads |-> jobs'[u]]
  BY <1>1, <1>3, GoesOn
<1>5. requests' \in Nat
  BY <1>2 DEF FeedInv, FeedType
<1> QED
  BY <1>2, <1>3, <1>4, <1>5, StepKeeps

LEMMA LoadKeeps ==
  ASSUME FeedInv, feed \in Kinds, NEW t \in FThreads, LoadSource(t)
  PROVE  FeedInv'
<1>1. Busy(t) /\ Now(t).op = "load"
  BY DEF LoadSource, Doing, Now
<1>2. PICK plan : plan = Rest(t)
  OBVIOUS
<1>3. PICK held : held = registry[Now(t).part]
  OBVIOUS
<1>4. PICK n : n = jobs[t].at
  OBVIOUS
<1>5. PICK job : job = [todo |-> plan, at |-> n, held |-> held]
  OBVIOUS
<1>6. Grows /\ FeedType
  BY SteadyGrows DEF LoadSource, FeedInv
<1>7. Now(t).part \in Parts(feed)
  BY <1>1, AtHead DEF InstructionSound, PlainSound
<1>8. RecordSound(Now(t).part, held)
  BY <1>3, <1>7 DEF FeedInv, RecordsSound
<1>9. job.todo = plan /\ job.at = n /\ job.held = held
      /\ job = [todo |-> job.todo, at |-> job.at, held |-> job.held]
  BY <1>5
<1>10. JobSound(job)
  <2>1. /\ IsSeq(plan) /\ n \in Nat \ {0}
        /\ \A k \in 1..Len(plan) :
             /\ InstructionSound(plan[k], n)
             /\ plan[k].op = "store" =>
                  IF k = 1 THEN Now(t).part = plan[1].part ELSE Loaded(plan, k)
    BY <1>1, <1>2, <1>4, RestShape
  <2>2. FiresSaved(plan)
    <3>1. \A id : ~Saves(Now(t), id)
      BY <1>1 DEF Saves
    <3> QED
      BY <1>1, <1>2, <3>1, RestShape DEF FiresSaved
  <2>3. \A k \in 1..Len(plan) : plan[k].op = "store" =>
          IF k = 1 THEN RecordSound(plan[k].part, held) ELSE Loaded(plan, k)
    BY <1>8, <2>1
  <2> QED
    BY <1>9, <2>1, <2>2, <2>3 DEF JobSound
<1>11. JobSound(job)'
  BY <1>6, <1>10, JobsStay
<1>12. jobs' = [jobs EXCEPT ![t] = job]
  BY <1>2, <1>3, <1>4, <1>5 DEF LoadSource
<1>13. JobsSound' /\ jobs' = [u \in FThreads |-> jobs'[u]]
  BY <1>6, <1>11, <1>12, OneJob
<1>14. requests' \in Nat
  BY <1>6 DEF LoadSource, FeedType
<1> QED
  BY <1>6, <1>13, <1>14, StepKeeps DEF LoadSource

LEMMA StoreKeeps ==
  ASSUME FeedInv, feed \in Kinds, NEW t \in FThreads, StoreSource(t)
  PROVE  FeedInv'
<1>1. Busy(t) /\ Now(t).op = "store" /\ Goes(t, Rest(t))
  BY DEF StoreSource, Doing, Now
<1>2. PICK i : i = Now(t)
  OBVIOUS
<1>3. PICK n : n = jobs[t].at
  OBVIOUS
<1>4. PICK held : held = jobs[t].held
  OBVIOUS
<1>5. Grows
  BY SteadyGrows DEF StoreSource
<1>6. i.part \in Parts(feed) /\ MarkSound(i, n) /\ RecordSound(i.part, held)
  BY <1>1, <1>2, <1>3, <1>4, AtHead DEF InstructionSound, PlainSound
<1>7. RecordSound(i.part, Marked(held, i, n))
  BY <1>6, MarkedIsSound
<1>8. registry' = [registry EXCEPT ![i.part] = Marked(held, i, n)]
  BY <1>2, <1>3, <1>4 DEF StoreSource
<1>9. registry' = [p \in Parts(feed) |-> registry'[p]] /\ RecordsSound'
  BY <1>5, <1>6, <1>7, <1>8, OneRecord
<1>10. JobsSound' /\ jobs' = [u \in FThreads |-> jobs'[u]]
  BY <1>1, <1>5, GoesOn
<1>11. requests' \in Nat
  BY DEF StoreSource, FeedInv, FeedType
<1> QED
  BY <1>5, <1>9, <1>10, <1>11, StepKeeps DEF StoreSource
LEMMA ListingKeeps ==
  ASSUME FeedInv, feed \in Kinds, NEW t \in FThreads,
         RememberStatus(t) \/ DowngradeStatus(t) \/ ListManifest(t)
  PROVE  FeedInv'
<1>1. /\ Busy(t) /\ Now(t).op \in {"remember", "downgrade", "list"} /\ Goes(t, Rest(t))
      /\ UNCHANGED <<feed, registry, rows, bundle, verified, requests>>
  BY DEF RememberStatus, DowngradeStatus, ListManifest, Doing, Now
<1>2. Grows
  BY <1>1, SteadyGrows
<1>3. PICK n : n = jobs[t].at
  OBVIOUS
<1>4. PlainSound(Now(t), n)
  BY <1>1, <1>3, AtHead DEF InstructionSound
<1>5. \A part \in Parts(feed) :
        /\ memory[part].at # 0 => Stamped(part, memory[part].at)
        /\ Claimed(part, memory[part].status, memory[part].at)
  BY DEF FeedInv, ListingsSound, ListingSound
<1>6. \E part \in Parts(feed) : \E state : memory' = [memory EXCEPT ![part] = state] /\ ListingSound(part, state)
  <2>1. CASE RememberStatus(t)
    <3> DEFINE part == Now(t).part
               status == Now(t).status
               at == IF status \in VerifiedStatuses THEN n
                     ELSE IF feed = "regions" THEN memory[part].at ELSE 0
    <3>1. Now(t).op = "remember"
      BY <2>1 DEF RememberStatus, Doing, Now
    <3>2. part \in Parts(feed) /\ (status \in VerifiedStatuses => VerifiedAt(part, n))
      BY <1>4, <3>1 DEF PlainSound
    <3>3. (at # 0 => Stamped(part, at)) /\ Claimed(part, status, at)
      BY <1>5, <3>2 DEF Claimed, Stamped
    <3>4. memory' = [memory EXCEPT ![part] = Status(status, at)]
      BY <1>3, <2>1 DEF RememberStatus
    <3> HIDE DEF part, status, at
    <3> QED
      BY <3>2, <3>3, <3>4, StatusIsSound
  <2>2. CASE DowngradeStatus(t)
    <3> DEFINE part == Now(t).part
    <3>1. Now(t).op = "downgrade"
      BY <2>2 DEF DowngradeStatus, Doing, Now
    <3>2. part \in Parts(feed)
      BY <1>4, <3>1 DEF PlainSound
    <3>3. memory' = [memory EXCEPT ![part] = Status("UNAVAILABLE", memory[part].at)]
      BY <2>2 DEF DowngradeStatus
    <3>4. Claimed(part, "UNAVAILABLE", memory[part].at)
      BY DEF Claimed, VerifiedStatuses
    <3> HIDE DEF part
    <3> QED
      BY <1>5, <3>2, <3>3, <3>4, StatusIsSound
  <2>3. CASE ListManifest(t)
    <3> DEFINE status == Now(t).status
    <3>1. Now(t).op = "list"
      BY <2>3 DEF ListManifest, Doing, Now
    <3>2. feed \in Imagery /\ (status \in VerifiedStatuses => \E m : VerifiedAt("main", m))
      BY <1>4, <3>1 DEF PlainSound
    <3>3. memory' = [memory EXCEPT !["main"] = Status(status, memory["main"].at)]
      BY <2>3 DEF ListManifest
    <3>4. Claimed("main", status, memory["main"].at) /\ "main" \in Parts(feed)
      BY <3>2, MainIsPart DEF Claimed, Imagery
    <3> HIDE DEF status
    <3> QED
      BY <1>5, <3>3, <3>4, StatusIsSound
  <2> QED
    BY <2>1, <2>2, <2>3
<1>7. memory' = [p \in Parts(feed) |-> memory'[p]] /\ ListingsSound'
  BY <1>2, <1>6, OneListing
<1>8. JobsSound' /\ jobs' = [u \in FThreads |-> jobs'[u]]
  BY <1>1, <1>2, GoesOn
<1>9. requests' \in Nat
  BY <1>1 DEF FeedInv, FeedType
<1> QED
  BY <1>1, <1>2, <1>7, <1>8, <1>9, StepKeeps

LEMMA SkipKeeps ==
  ASSUME FeedInv, feed \in Kinds, NEW t \in FThreads, SkipIfUnavailable(t)
  PROVE  FeedInv'
<1>1. /\ Busy(t) /\ Now(t).op = "unless" /\ (Goes(t, << >>) \/ Goes(t, Rest(t)))
      /\ UNCHANGED <<feed, registry, memory, rows, bundle, verified, requests>>
  BY DEF SkipIfUnavailable, Doing, Now
<1>2. Grows /\ FeedType
  BY <1>1, SteadyGrows DEF FeedInv
<1>3. CASE Goes(t, Rest(t))
  <2>1. JobsSound' /\ jobs' = [u \in FThreads |-> jobs'[u]]
    BY <1>1, <1>2, <1>3, GoesOn
  <2> QED
    BY <1>1, <1>2, <2>1, StepKeeps DEF FeedType
<1>4. CASE Goes(t, << >>)
  <2>1. PICK n : n = jobs[t].at
    OBVIOUS
  <2>2. PlanSound(<< >>, n)'
    BY <1>2, NothingPlanned, PlansStay
  <2>3. FiresSaved(<< >>)'
    BY NoRowsVerified
  <2>4. JobsSound' /\ jobs' = [u \in FThreads |-> jobs'[u]]
    BY <1>1, <1>2, <1>4, <2>1, <2>2, <2>3, GoesSound
  <2> QED
    BY <1>1, <1>2, <2>4, StepKeeps DEF FeedType
<1> QED
  BY <1>1, <1>3, <1>4

LEMMA ManifestKeeps ==
  ASSUME FeedInv, feed \in Kinds, NEW t \in FThreads, StoreManifest(t)
  PROVE  FeedInv'
<1> DEFINE status == IF memory["main"].status = "LIVE_VERIFIED" THEN "LIVE_VERIFIED" ELSE "CONFIGURED"
           metadata == Evidence("metadata", 0, jobs[t].at)
           listing == <<[op |-> "list", status |-> status]>>
<1>1. /\ Busy(t) /\ Now(t).op = "manifest"
      /\ Goes(t, Mark("main", status, metadata, FALSE) \o listing \o Rest(t))
      /\ UNCHANGED <<feed, registry, memory, rows, bundle, verified, requests>>
  BY DEF StoreManifest, Doing, Now
<1>2. Grows /\ FeedType
  BY <1>1, SteadyGrows DEF FeedInv
<1>3. PICK n : n = jobs[t].at
  OBVIOUS
<1>4. feed \in Imagery
  BY <1>1, AtHead DEF InstructionSound, PlainSound
<1>5. "main" \in Parts(feed) /\ feed # "firms" /\ feed # "tomtom" /\ feed \notin Tiled
  BY <1>4, MainIsPart DEF Imagery, Tiled
<1>6. status \in VerifiedStatuses => \E m : VerifiedAt("main", m)
  <2>1. Claimed("main", memory["main"].status, memory["main"].at)
    BY <1>5 DEF FeedInv, ListingsSound, ListingSound
  <2> QED
    BY <1>5, <2>1 DEF Claimed, Stamped, VerifiedStatuses
<1>7. EvidenceSound("main", metadata) /\ status # "STATIC_VERIFIED"
  BY <1>5 DEF EvidenceSound, Evidence, VerifiedStatuses
<1> HIDE DEF status, metadata
<1>8. PlanSound(Mark("main", status, metadata, FALSE), n)
  BY <1>4, <1>5, <1>6, <1>7, MarkPlanned, PlainIsSound
<1>9. PlanSound(listing, n)
  BY <1>4, <1>6, ListPlanned, PlainIsSound
<1>10. PlanSound(Rest(t), n)
  BY <1>1, <1>3, RestPlanned
<1> HIDE DEF listing
<1>11. PlanSound(Mark("main", status, metadata, FALSE) \o listing, n)
  BY <1>8, <1>9, PlansJoined
<1>12. PICK plan : plan = Mark("main", status, metadata, FALSE) \o listing \o Rest(t)
  OBVIOUS
<1>13. PlanSound(plan, n)
  BY <1>10, <1>11, <1>12, PlansJoined
<1>14. PlanSound(plan, n)' /\ FiresSaved(plan)'
  BY <1>1, <1>2, <1>5, <1>13, PlansStay, NoFires
<1>15. JobsSound' /\ jobs' = [u \in FThreads |-> jobs'[u]]
  BY <1>1, <1>2, <1>3, <1>12, <1>14, GoesSound
<1> QED
  BY <1>1, <1>2, <1>15, StepKeeps DEF FeedType

LEMMA CompareKeeps ==
  ASSUME FeedInv, feed \in Kinds, NEW t \in FThreads, CompareEvidence(t)
  PROVE  FeedInv'
<1>1. /\ Busy(t) /\ Now(t).op = "compare" /\ (Goes(t, Now(t).good) \/ Goes(t, Now(t).bad))
      /\ UNCHANGED <<feed, registry, memory, rows, bundle, verified, requests>>
  BY DEF CompareEvidence, Doing, Now
<1>2. Grows /\ FeedType
  BY <1>1, SteadyGrows DEF FeedInv
<1>3. PICK n : n = jobs[t].at
  OBVIOUS
<1>4. PICK plan : Goes(t, plan) /\ (plan = Now(t).good \/ plan = Now(t).bad)
  BY <1>1
<1>5. feed # "firms" /\ PlainPlan(plan, n)
  BY <1>1, <1>3, <1>4, AtHead DEF InstructionSound
<1>6. PlanSound(plan, n)' /\ FiresSaved(plan)'
  BY <1>1, <1>2, <1>5, PlainIsSound, PlansStay, NoFires
<1>7. JobsSound' /\ jobs' = [u \in FThreads |-> jobs'[u]]
  BY <1>1, <1>2, <1>3, <1>4, <1>6, GoesSound
<1> QED
  BY <1>1, <1>2, <1>7, StepKeeps DEF FeedType

(* Fires are listed when they are verified, and nothing is read back again. *)
LEMMA FiresVerified ==
  ASSUME NEW ids, NEW whole, NEW stored, NEW n, feed = "firms"
  PROVE  \A k \in 1..Len(Verified(feed, ids, whole, stored, n)) :
           Verified(feed, ids, whole, stored, n)[k].op # "verify"
<1> DEFINE i == [op |-> "remember", part |-> "main", status |-> "LIVE_VERIFIED"]
           l == [op |-> "load", part |-> "main"]
           s == [op |-> "store", part |-> "main", status |-> "SAME", evidence |-> NoEvidence,
                 validated |-> TRUE]
           p == <<i>>
           q == <<l, s>>
<1>1. i.op = "remember" /\ l.op = "load" /\ s.op = "store" /\ s.part = l.part
  OBVIOUS
<1>2. Verified(feed, ids, whole, stored, n) = p \o q
  BY DEF Verified, Remember, Mark, Observed, Tiled, Bundles, Imagery
<1> HIDE DEF i, l, s
<1>3. /\ p \in Seq({i, l, s}) /\ q \in Seq({i, l, s}) /\ Len(p) = 1 /\ Len(q) = 2
      /\ p[1] = i /\ q[1] = l /\ q[2] = s
  OBVIOUS
<1> HIDE DEF p, q
<1>4. LoadsFirst(p) /\ LoadsFirst(q)
  BY <1>1, <1>3 DEF LoadsFirst, IsSeq, Loaded
<1>5. (\A k \in 1..Len(p) : p[k].op # "verify") /\ (\A k \in 1..Len(q) : q[k].op # "verify")
  BY <1>1, <1>3
<1> QED
  BY <1>2, <1>4, <1>5, LoadsFirstJoined

LEMMA VerifyKeeps ==
  ASSUME FeedInv, feed \in Kinds, NEW t \in FThreads, VerifyRows(t)
  PROVE  FeedInv'
<1>1. PICK ids : ids = Now(t).ids
  OBVIOUS
<1>2. PICK n : n = jobs[t].at
  OBVIOUS
<1>3. /\ Busy(t) /\ Now(t).op = "verify"
      /\ UNCHANGED <<feed, registry, memory, rows, bundle, requests>>
  BY DEF VerifyRows, Doing, Now
<1>4. FeedType /\ ids \in SUBSET Ids
  BY <1>1, <1>3, AtHead DEF FeedInv, InstructionSound, PlainSound
<1>5. CASE RowsFound(ids)
  <2> DEFINE new == IF feed \in Observed /\ ids = {} THEN {}
                    ELSE {[part |-> part, at |-> n, ids |-> ids] : part \in Parts(feed)}
  <2>1. /\ Goes(t, Verified(feed, ids, Now(t).whole, Stored("records"), n))
        /\ verified' = verified \cup new
    BY <1>1, <1>2, <1>5 DEF VerifyRows
  <2>2. Grows
    BY <1>3, <2>1, SteadyGrows
  <2>3. feed # "regions" => \A id \in ids : rows[<<"records", id>>] # 0
    <3>1. CASE feed # "firms"
      BY <1>5, <3>1 DEF RowsFound
    <3>2. CASE feed = "firms"
      <4>1. FiresSaved(jobs[t].todo) /\ Now(t) = jobs[t].todo[1] /\ 1 \in 1..Len(jobs[t].todo)
        BY <1>3, AtHead DEF FeedInv, JobsSound, JobSound
      <4>2. \A id \in ids : rows[<<"records", id>>] # 0 \/ \E j \in 1..(1 - 1) : Saves(jobs[t].todo[j], id)
        BY <1>1, <1>3, <3>2, <4>1 DEF FiresSaved
      <4>3. \A j : j \notin 1..(1 - 1)
        OBVIOUS
      <4> QED
        BY <4>2, <4>3
    <3> QED
      BY <3>1, <3>2
  <2>4. ASSUME NEW part \in Parts(feed), ~(feed \in Observed /\ ids = {})
        PROVE  VerifiedAt(part, n)'
    <3> DEFINE v == [part |-> part, at |-> n, ids |-> ids]
    <3>1. v.part = part /\ v.at = n /\ v.ids = ids
      OBVIOUS
    <3>2. v \in verified'
      BY <2>1, <2>4
    <3> HIDE DEF v
    <3> QED
      BY <1>3, <2>3, <3>1, <3>2 DEF VerifiedAt
  <2>5. (feed' \in Observed /\ ids = {}) \/ \A part \in Parts(feed') : VerifiedAt(part, n)'
    BY <1>3, <2>4
  <2>6. PICK plan : plan = Verified(feed, ids, Now(t).whole, Stored("records"), n)
    OBVIOUS
  <2>7. PICK whole : whole = Now(t).whole
    OBVIOUS
  <2>8. PICK stored : stored = Stored("records")
    OBVIOUS
  <2>9. PlanSound(plan, n)'
    <3>1. feed' \in Kinds /\ plan = Verified(feed', ids, whole, stored, n)
      BY <1>3, <2>6, <2>7, <2>8
    <3> QED
      BY <2>5, <3>1, VerifiedNextPlanned
  <2>10. FiresSaved(plan)'
    <3>1. CASE feed = "firms"
      <4>1. \A k \in 1..Len(plan) : plan[k].op # "verify"
        BY <2>6, <3>1, FiresVerified
      <4> QED
        BY <4>1, NoRowsVerified
    <3>2. CASE feed # "firms"
      BY <1>3, <3>2, NoFires
    <3> QED
      BY <3>1, <3>2
  <2>11. JobsSound' /\ jobs' = [u \in FThreads |-> jobs'[u]]
    BY <1>2, <1>3, <2>1, <2>2, <2>6, <2>9, <2>10, GoesSound
  <2>12. \A v \in verified' : v.ids \in SUBSET Ids
    BY <1>4, <2>1 DEF FeedType
  <2> QED
    BY <1>3, <1>4, <2>2, <2>11, <2>12, StepKeeps DEF FeedType
<1>6. CASE ~RowsFound(ids)
  <2>1. Goes(t, ReadbackFails(feed)) /\ verified' = verified
    BY <1>1, <1>6 DEF VerifyRows
  <2>2. Grows
    BY <1>3, <2>1, SteadyGrows
  <2>3. PICK plan : plan = ReadbackFails(feed)
    OBVIOUS
  <2>4. PlanSound(plan, n)
    BY <2>3, RaisesPlanned, PlainIsSound
  <2>5. feed = "firms" => plan = << >>
    BY <2>3 DEF ReadbackFails, Fails, Observed, Tiled, Bundles
  <2>6. PlanSound(plan, n)' /\ FiresSaved(plan)'
    BY <1>3, <1>4, <2>2, <2>4, <2>5, PlansStay, NoRowsVerified, NoFires
  <2>7. JobsSound' /\ jobs' = [u \in FThreads |-> jobs'[u]]
    BY <1>2, <1>3, <2>1, <2>2, <2>3, <2>6, GoesSound
  <2> QED
    BY <1>3, <1>4, <2>1, <2>2, <2>7, StepKeeps DEF FeedType
<1> QED
  BY <1>5, <1>6
LEMMA RestartKeeps ==
  ASSUME FeedInv, feed \in Kinds, Restart
  PROVE  FeedInv'
<1>1. /\ UNCHANGED <<feed, rows, verified, requests>>
      /\ jobs' = [t \in FThreads |-> NoJob]
      /\ memory' = [part \in Parts(feed) |-> Restored(feed, registry[part])]
      /\ registry' = [part \in Parts(feed) |-> Corrected(feed, registry[part])]
  BY DEF Restart
<1>2. FeedType /\ Grows /\ Parts(feed)' = Parts(feed)
  BY <1>1, SteadyGrows DEF FeedInv, Parts
<1>3. /\ \A part, record : RecordSound(part, record) => RecordSound(part, record)'
      /\ \A part, state : ListingSound(part, state) => ListingSound(part, state)'
  BY <1>2, SoundnessStays
<1>4. ASSUME NEW part \in Parts(feed)
      PROVE  RecordSound(part, registry[part])' /\ ListingSound(part, memory[part])'
  <2>1. PICK record, state : record = registry'[part] /\ state = memory'[part]
    OBVIOUS
  <2>2. record = Corrected(feed, registry[part]) /\ state = Restored(feed, registry[part])
    BY <1>1, <2>1
  <2>3. RecordSound(part, registry[part])
    BY DEF FeedInv, RecordsSound
  <2>4. RecordSound(part, record) /\ ListingSound(part, state)
    BY <2>2, <2>3, RestoredIsSound, CorrectedIsSound
  <2> QED
    BY <1>3, <2>1, <2>4
<1>5. RecordsSound' /\ ListingsSound'
  BY <1>2, <1>4 DEF RecordsSound, ListingsSound
<1>6. JobsSound'
  BY <1>1, IdleJobs DEF JobsSound
<1>7. bundle' \in BundleSet /\ (feed' \in Static => bundle'.version # 0)
  <2>1. bundle.version \in Nat /\ bundle \in BundleSet /\ (feed \in Static => bundle.version # 0)
    BY <1>2 DEF FeedType, BundleSet
  <2>2. CASE bundle' = bundle
    BY <1>1, <2>1, <2>2
  <2>3. CASE \E ids \in SUBSET Ids \ {{}}, valid \in SUBSET Ids :
               bundle' = [ids |-> ids, valid |-> valid, version |-> bundle.version + 1]
    <3>1. PICK ids \in SUBSET Ids, valid \in SUBSET Ids :
            bundle' = [ids |-> ids, valid |-> valid, version |-> bundle.version + 1]
      BY <2>3
    <3>2. bundle.version + 1 \in Nat /\ bundle.version + 1 # 0
      BY <2>1
    <3> QED
      BY <3>1, <3>2 DEF BundleSet
  <2> QED
    BY <2>2, <2>3 DEF Restart
<1>8. FeedType'
  <2>1. /\ feed' \in Kinds \cup {"registration"} /\ requests' \in Nat
        /\ rows' = [row \in Tables \X Ids |-> rows'[row]]
        /\ \A v \in verified' : v.ids \in SUBSET Ids
    BY <1>1, <1>2 DEF FeedType
  <2>2. /\ registry' = [part \in Parts(feed)' |-> registry'[part]]
        /\ memory' = [part \in Parts(feed)' |-> memory'[part]]
        /\ jobs' = [t \in FThreads |-> jobs'[t]]
    BY <1>1, <1>2
  <2> QED
    BY <1>7, <2>1, <2>2 DEF FeedType, BundleSet
<1> QED
  BY <1>5, <1>6, <1>8 DEF FeedInv

(* A seeded record claims nothing, or its seeding.                         *)
LEMMA InitSound ==
  ASSUME Init
  PROVE  FeedInv
<1>1. feed \in Kinds \cup {"registration"}
  BY FeedKindsAssumption DEF Init
<1>2. bundle \in BundleSet /\ (feed \in Static => bundle.version # 0)
  BY DEF Init, BundleSet
<1>3. FeedType
  BY <1>1, <1>2 DEF Init, FeedType, BundleSet
<1>4. ASSUME NEW part \in Parts(feed) PROVE RecordSound(part, Seed(feed))
  <2> DEFINE f == CASE feed \in Observed -> "PENDING" [] feed \in {"firms", "tomtom"} -> "none"
                    [] OTHER -> "NOT VERIFIED"
             m == IF feed \in {"firms", "tomtom"} THEN Seeded ELSE 0
  <2>1. Seed(feed) = [fetch |-> f, stamp |-> m, evidence |-> NoEvidence]
    BY DEF Seed
  <2>2. f \in {"PENDING", "none", "NOT VERIFIED"}
    OBVIOUS
  <2>3. m # 0 => Stamped(part, m)
    BY DEF Stamped
  <2> HIDE DEF f, m
  <2>4. Claimed(part, f, m) /\ f # "STATIC_VERIFIED"
    BY <2>2 DEF Claimed, VerifiedStatuses
  <2> QED
    BY <2>1, <2>3, <2>4, NothingEvident DEF RecordSound
<1>5. \A part \in Parts(feed) : registry[part] = Seed(feed) /\ memory[part] = Restored(feed, registry[part])
  BY DEF Init
<1>6. RecordsSound /\ ListingsSound
  BY <1>4, <1>5, RestoredIsSound DEF RecordsSound, ListingsSound
<1>7. JobsSound
  BY IdleJob DEF Init, JobsSound
<1> QED
  BY <1>3, <1>6, <1>7 DEF FeedInv

LEMMA FeedStepKeeps ==
  ASSUME FeedInv, Next
  PROVE  FeedInv'
<1>1. FeedType
  BY DEF FeedInv
<1>2. CASE feed # "registration" /\ FeedNext
  <2>1. feed \in Kinds
    BY <1>1, <1>2 DEF FeedType
  <2> QED
    BY <1>2, <2>1, RestartKeeps, FetchKeeps, SaveRowKeeps, SaveRaisesKeeps, RegistryRaisesKeeps, PrunesKeep, PassesKeep,
       LoadKeeps, StoreKeeps, ListingKeeps, SkipKeeps, ManifestKeeps, CompareKeeps, VerifyKeeps
       DEF FeedNext, FeedStep
<1>3. CASE UNCHANGED feedVars
  <2>1. UNCHANGED <<feed, registry, memory, rows, bundle, jobs, verified, requests>>
    BY <1>3 DEF feedVars
  <2> QED
    BY <1>1, <2>1, SteadyGrows, StepKeeps DEF FeedType
<1> QED
  BY <1>2, <1>3 DEF Next

(* What a feed is listed as is what its memory claims.                     *)
LEMMA SoundIsBacked ==
  ASSUME FeedInv
  PROVE  ClaimsAreBacked
<1> SUFFICES ASSUME NEW part \in Parts(feed), Listed(feed, memory[part]) \in VerifiedStatuses
             PROVE  \/ feed \in {"firms", "tomtom"} /\ memory[part].at = Seeded
                    \/ \E v \in verified :
                         /\ v.part = part
                         /\ memory[part].at \in {v.at, Stamp(v.at)} \/ (feed \in Imagery /\ memory[part].at = 0)
                         /\ feed # "regions" => \A id \in v.ids : rows[<<"records", id>>] # 0
  BY DEF ClaimsAreBacked
<1>1. /\ memory[part].at # 0 => Stamped(part, memory[part].at)
      /\ Claimed(part, memory[part].status, memory[part].at)
  BY DEF FeedInv, ListingsSound, ListingSound
<1>2. Stamped(part, memory[part].at) \/ (feed \in Imagery /\ memory[part].at = 0 /\ \E m : VerifiedAt(part, m))
  <2>1. CASE feed \in Bundles \cup {"firms"}
    <3>1. Listed(feed, memory[part]) = ListedByTime(feed, memory[part])
      BY <2>1 DEF Listed, Bundles, Weather, Imagery
    <3>2. memory[part].at # 0
      BY <3>1 DEF ListedByTime, VerifiedStatuses
    <3> QED
      BY <1>1, <3>2
  <2>2. CASE feed \in Weather \cup Imagery
    <3>1. Listed(feed, memory[part]) = ListedOnceVerified(memory[part])
      BY <2>2 DEF Listed, Bundles, Weather, Imagery
    <3>2. memory[part].status \in VerifiedStatuses
      BY <3>1 DEF ListedOnceVerified, VerifiedStatuses
    <3> QED
      BY <1>1, <3>2 DEF Claimed
  <2>3. CASE feed \notin Bundles \cup {"firms"} \cup Weather \cup Imagery
    <3>1. Listed(feed, memory[part]) = memory[part].status
      BY <2>3 DEF Listed
    <3> QED
      BY <1>1, <2>3, <3>1 DEF Claimed
  <2> QED
    BY <2>1, <2>2, <2>3
<1> QED
  BY <1>2 DEF Stamped, VerifiedAt

(* Whatever the requests of a feed overlap with, whatever fails or dies:   *)
(* what the registry and the process hold as verified was verified, and    *)
(* every request still to be done claims no more than it will have shown.  *)
THEOREM SpecFeedInv == Spec => []FeedInv
<1>1. SourcesInit => FeedInv
  BY InitSound DEF SourcesInit
<1>2. FeedInv /\ [Next]_sourceVars => FeedInv'
  <2> SUFFICES ASSUME FeedInv, [Next]_sourceVars PROVE FeedInv'
    OBVIOUS
  <2>1. CASE Next
    BY <2>1, FeedStepKeeps
  <2>2. CASE UNCHANGED sourceVars
    <3>1. UNCHANGED <<feed, registry, memory, rows, bundle, jobs, verified, requests>>
      BY <2>2 DEF sourceVars, feedVars
    <3> QED
      BY <3>1, SteadyGrows, StepKeeps DEF FeedInv, FeedType
  <2> QED
    BY <2>1, <2>2
<1> QED
  BY <1>1, <1>2, PTL DEF Spec

(* A feed listed as verified was verified at the listed time, the regions  *)
(* perhaps at the reading of the clock before it, and every record of that *)
(* verification is still stored, for any kind of feed, and any number of   *)
(* ids, threads, requests, restarts and exceptions of the stores.          *)
THEOREM ClaimsStayBacked == Spec => []ClaimsAreBacked
<1>1. FeedInv => ClaimsAreBacked
  BY SoundIsBacked
<1> QED
  BY <1>1, SpecFeedInv, PTL
-----------------------------------------------------------------------------
(* A request that runs alone.  Where it leads is what its instructions     *)
(* make, one after the other, of the listing and the records.              *)
Agrees(part, state, record) ==
  LET then == Restored(feed, record)
      agree == Listed(feed, then) = Listed(feed, state) /\ SameTime(state, then)
  IN /\ Listed(feed, then) \in VerifiedStatuses => agree
     /\ Listed(feed, state) \in VerifiedStatuses => feed \in Bundles \/ agree

StormsKnown(mem) ==
  feed = "cyclone" /\ Listed(feed, mem["storms"]) = "LIVE_VERIFIED" =>
    \A v \in verified : v.at = mem["storms"].at => ListedStorms = v.ids

Settles(mem, reg) == StormsKnown(mem) /\ \A part \in Parts(feed) : Agrees(part, mem[part], reg[part])

View(t) == [mem |-> memory, reg |-> registry, held |-> jobs[t].held]

Turned(i, n, s) ==
  [mem |-> CASE i.op = "remember" ->
                  [s.mem EXCEPT ![i.part] =
                     Status(i.status, IF i.status \in VerifiedStatuses THEN n
                                      ELSE IF feed = "regions" THEN s.mem[i.part].at ELSE 0)]
             [] i.op = "downgrade" -> [s.mem EXCEPT ![i.part] = Status("UNAVAILABLE", s.mem[i.part].at)]
             [] i.op = "list" -> [s.mem EXCEPT !["main"] = Status(i.status, s.mem["main"].at)]
             [] OTHER -> s.mem,
   reg |-> IF i.op = "store" THEN [s.reg EXCEPT ![i.part] = Marked(s.held, i, n)] ELSE s.reg,
   held |-> IF i.op = "load" THEN s.reg[i.part] ELSE Unread]

Plain == {"load", "store", "remember", "downgrade", "list", "unless"}

ManifestPlan(mem, n) ==
  LET status == IF mem["main"].status = "LIVE_VERIFIED" THEN "LIVE_VERIFIED" ELSE "CONFIGURED"
  IN Mark("main", status, Evidence("metadata", 0, n), FALSE) \o <<[op |-> "list", status |-> status]>>

(* What is left of the plan p in the state s, after one more instruction.  *)
Follows(p, s, q, n) ==
  /\ p # << >>
  /\ \/ p[1].op \in Plain /\ q = Tail(p)
     \/ p[1].op = "compare" /\ s.reg["main"].evidence = p[1].evidence /\ q = p[1].good
     \/ p[1].op = "manifest" /\ q = ManifestPlan(s.mem, n) \o Tail(p)
     \/ p[1].op = "verify" /\ feed \in Imagery /\ p[1].ids = {} /\ q = ImageVerified(n)

(* A set of plans and states that holds with each what it leads to.        *)
Closed(C, n) ==
  \A p, s : <<p, s>> \in C =>
    \/ p = << >> /\ Settles(s.mem, s.reg)
    \/ \E q : Follows(p, s, q, n) /\ <<q, Turned(p[1], n, s)>> \in C

Concludes(p, n, s) == \E C : <<p, s>> \in C /\ Closed(C, n)

LEMMA NothingConcludes ==
  ASSUME NEW n, NEW s, Settles(s.mem, s.reg)
  PROVE  Concludes(<< >>, n, s)
<1> DEFINE C == {<<<< >>, s>>}
<1>1. Closed(C, n)
  <2> SUFFICES ASSUME NEW p, NEW u, <<p, u>> \in C
               PROVE  p = << >> /\ Settles(u.mem, u.reg)
    BY DEF Closed
  <2>1. p = << >> /\ u = s
    OBVIOUS
  <2> QED
    BY <2>1
<1>2. <<<< >>, s>> \in C
  OBVIOUS
<1> QED
  BY <1>1, <1>2 DEF Concludes

LEMMA OneMore ==
  ASSUME NEW n, NEW p, NEW s, NEW q, Follows(p, s, q, n), Concludes(q, n, Turned(p[1], n, s))
  PROVE  Concludes(p, n, s)
<1>1. PICK D : <<q, Turned(p[1], n, s)>> \in D /\ Closed(D, n)
  BY DEF Concludes
<1> DEFINE C == D \cup {<<p, s>>}
<1>2. Closed(C, n)
  <2> SUFFICES ASSUME NEW r, NEW u, <<r, u>> \in C
               PROVE  \/ r = << >> /\ Settles(u.mem, u.reg)
                      \/ \E x : Follows(r, u, x, n) /\ <<x, Turned(r[1], n, u)>> \in C
    BY DEF Closed
  <2>1. CASE <<r, u>> \in D
    BY <1>1, <2>1 DEF Closed
  <2>2. CASE <<r, u>> = <<p, s>>
    <3>1. r = p /\ u = s
      BY <2>2
    <3> QED
      BY <1>1, <3>1
  <2> QED
    BY <2>1, <2>2
<1>3. <<p, s>> \in C
  OBVIOUS
<1> QED
  BY <1>2, <1>3 DEF Concludes

LEMMA GoingOn ==
  ASSUME NEW n, NEW p, NEW s, Concludes(p, n, s)
  PROVE  \/ p = << >> /\ Settles(s.mem, s.reg)
         \/ \E q : Follows(p, s, q, n) /\ Concludes(q, n, Turned(p[1], n, s))
  BY DEF Concludes, Closed

(* What a plan leads to depends on no more than this.                      *)
LEMMA StampStays ==
  ASSUME feed' = feed
  PROVE  /\ \A n : Stamp(n)' = Stamp(n)
         /\ \A now, then : SameTime(now, then)' <=> SameTime(now, then)
<1>1. \A n : Stamp(n)' = Stamp(n)
  BY DEF Stamp, Seeded
<1> QED
  BY <1>1 DEF SameTime

LEMMA SettlesStays ==
  ASSUME UNCHANGED <<feed, rows>>, feed = "cyclone" => UNCHANGED <<snapshot, verified>>
  PROVE  \A mem, reg : Settles(mem, reg) <=> Settles(mem, reg)'
<1>1. \A record : Restored(feed, record)' = Restored(feed, record)
  BY DEF Restored, RestoredObservations, RestoredRegions, RestoredTiles, RestoredBundle,
         RestoredByStamp, RestoredByStatus, Status, Stored
<1>2. \A state : Listed(feed, state)' = Listed(feed, state)
  BY DEF Listed, ListedByTime, ListedOnceVerified
<1>3. \A part, state, record : Agrees(part, state, record)' <=> Agrees(part, state, record)
  BY <1>1, <1>2, StampStays DEF Agrees
<1>4. feed = "cyclone" => ListedStorms' = ListedStorms
  BY DEF ListedStorms
<1>5. \A mem : StormsKnown(mem)' <=> StormsKnown(mem)
  BY <1>2, <1>4 DEF StormsKnown
<1>6. Parts(feed)' = Parts(feed)
  BY DEF Parts
<1> QED
  BY <1>3, <1>5, <1>6 DEF Settles

LEMMA ConcludesStays ==
  ASSUME UNCHANGED <<feed, rows>>, feed = "cyclone" => UNCHANGED <<snapshot, verified>>,
         NEW p, NEW n, NEW s, Concludes(p, n, s)
  PROVE  Concludes(p, n, s)'
<1>1. PICK C : <<p, s>> \in C /\ Closed(C, n)
  BY DEF Concludes
<1>2. \A i, u : Turned(i, n, u)' = Turned(i, n, u)
  <2>1. \A held, mark : Marked(held, mark, n)' = Marked(held, mark, n)
    BY StampStays DEF Marked
  <2> QED
    BY <2>1 DEF Turned
<1>3. \A q, u, x : Follows(q, u, x, n)' <=> Follows(q, u, x, n)
  BY DEF Follows
<1>4. Closed(C, n)'
  BY <1>1, <1>2, <1>3, SettlesStays DEF Closed
<1> QED
  BY <1>1, <1>4 DEF Concludes

-----------------------------------------------------------------------------
(* Plans that begin with a known part.                                     *)
LEMMA HeadJoined ==
  ASSUME NEW i, NEW q, IsSeq(q)
  PROVE  /\ IsSeq(<<i>> \o q) /\ <<i>> \o q # << >>
         /\ (<<i>> \o q)[1] = i /\ Tail(<<i>> \o q) = q
<1>1. PICK S : q \in Seq(S)
  BY DEF IsSeq
<1>2. <<i>> \in Seq(S \cup {i}) /\ q \in Seq(S \cup {i})
  BY <1>1
<1>3. <<i>> \o q \in Seq(S \cup {i}) /\ <<i>> \o q # << >> /\ (<<i>> \o q)[1] = i
  BY <1>2
<1>4. Tail(<<i>> \o q) = q
  BY <1>2
<1> QED
  BY <1>3, <1>4 DEF IsSeq

LEMMA Associative ==
  ASSUME NEW p, NEW q, NEW r, IsSeq(p), IsSeq(q), IsSeq(r)
  PROVE  IsSeq(p \o q) /\ (p \o q) \o r = p \o (q \o r) /\ p \o << >> = p /\ << >> \o p = p
<1>1. PICK S : p \in Seq(S)
  BY DEF IsSeq
<1>2. PICK T : q \in Seq(T)
  BY DEF IsSeq
<1>3. PICK U : r \in Seq(U)
  BY DEF IsSeq
<1>4. PICK V : V = S \cup T \cup U
  OBVIOUS
<1>5. p \in Seq(V) /\ q \in Seq(V) /\ r \in Seq(V)
  BY <1>1, <1>2, <1>3, <1>4
<1>6. p \o q \in Seq(V)
  BY <1>5
<1>7. (p \o q) \o r = p \o (q \o r)
  BY <1>5, ConcatAssociative
<1>8. p \o << >> = p /\ << >> \o p = p
  BY <1>5, ConcatEmptySeq
<1> QED
  BY <1>6, <1>7, <1>8 DEF IsSeq

LoadOf(part) == [op |-> "load", part |-> part]
StoreOf(part, status, evidence, validated) ==
  [op |-> "store", part |-> part, status |-> status, evidence |-> evidence, validated |-> validated]

LEMMA MarkJoined ==
  ASSUME NEW part, NEW status, NEW evidence, NEW validated, NEW q, IsSeq(q)
  PROVE  /\ IsSeq(Mark(part, status, evidence, validated))
         /\ Mark(part, status, evidence, validated) \o q
              = <<LoadOf(part)>> \o (<<StoreOf(part, status, evidence, validated)>> \o q)
<1>1. PICK l : l = LoadOf(part)
  OBVIOUS
<1>2. PICK m : m = StoreOf(part, status, evidence, validated)
  OBVIOUS
<1>3. Mark(part, status, evidence, validated) = <<l, m>>
  BY <1>1, <1>2 DEF Mark, LoadOf, StoreOf
<1>4. PICK V : V = {l, m}
  OBVIOUS
<1>5. <<l>> \in Seq(V) /\ <<m>> \in Seq(V) /\ <<l, m>> \in Seq(V)
  BY <1>4
<1>6. <<l, m>> = <<l>> \o <<m>>
  <2>1. <<l>> \o <<m>> \in Seq(V) /\ Len(<<l>> \o <<m>>) = 2 /\ Len(<<l, m>>) = 2
    BY <1>5
  <2>2. (<<l>> \o <<m>>)[1] = l /\ (<<l>> \o <<m>>)[2] = m
    BY <1>5
  <2>3. \A k \in 1..2 : (<<l>> \o <<m>>)[k] = <<l, m>>[k]
    BY <2>2
  <2> QED
    BY <1>5, <2>1, <2>3, SeqEqual
<1>7. IsSeq(<<l>>) /\ IsSeq(<<m>>) /\ IsSeq(<<l, m>>)
  BY <1>5 DEF IsSeq
<1>8. <<l, m>> \o q = <<l>> \o (<<m>> \o q)
  BY <1>6, <1>7, Associative
<1> QED
  BY <1>1, <1>2, <1>3, <1>7, <1>8

Shaped(s) == DOMAIN s.mem = Parts(feed) /\ DOMAIN s.reg = Parts(feed)

LEMMA PlainFirst ==
  ASSUME NEW i, i.op \in Plain, NEW q, IsSeq(q), NEW n, NEW s, Concludes(q, n, Turned(i, n, s))
  PROVE  Concludes(<<i>> \o q, n, s)
<1>1. PICK p : p = <<i>> \o q
  OBVIOUS
<1>2. p # << >> /\ p[1] = i /\ Tail(p) = q
  BY <1>1, HeadJoined
<1>3. Follows(p, s, q, n)
  BY <1>2 DEF Follows
<1> QED
  BY <1>1, <1>2, <1>3, OneMore

LEMMA RememberFirst ==
  ASSUME NEW part \in Parts(feed), NEW status, NEW q, IsSeq(q), NEW n, NEW s, Shaped(s),
         \A u : /\ Shaped(u) /\ u.reg = s.reg
                /\ \A p \in Parts(feed) \ {part} : u.mem[p] = s.mem[p]
                /\ u.mem[part] = Status(status, IF status \in VerifiedStatuses THEN n
                                                ELSE IF feed = "regions" THEN s.mem[part].at ELSE 0)
                => Concludes(q, n, u)
  PROVE  Concludes(Remember(part, status) \o q, n, s)
<1> DEFINE i == [op |-> "remember", part |-> part, status |-> status]
<1>1. i.op = "remember" /\ i.part = part /\ i.status = status /\ i.op \in Plain
  BY DEF Plain
<1>2. Remember(part, status) = <<i>>
  BY DEF Remember
<1> HIDE DEF i
<1>3. PICK u : u = Turned(i, n, s)
  OBVIOUS
<1>4. /\ u.reg = s.reg
      /\ u.mem = [s.mem EXCEPT ![part] =
                    Status(status, IF status \in VerifiedStatuses THEN n
                                   ELSE IF feed = "regions" THEN s.mem[part].at ELSE 0)]
  BY <1>1, <1>3 DEF Turned
<1>5. Concludes(q, n, u)
  BY <1>4 DEF Shaped
<1> QED
  BY <1>1, <1>2, <1>3, <1>5, PlainFirst

LEMMA DowngradeFirst ==
  ASSUME NEW part \in Parts(feed), NEW q, IsSeq(q), NEW n, NEW s, Shaped(s),
         \A u : /\ Shaped(u) /\ u.reg = s.reg
                /\ \A p \in Parts(feed) \ {part} : u.mem[p] = s.mem[p]
                /\ u.mem[part] = Status("UNAVAILABLE", s.mem[part].at)
                => Concludes(q, n, u)
  PROVE  Concludes(Downgrade(part) \o q, n, s)
<1> DEFINE i == [op |-> "downgrade", part |-> part]
<1>1. i.op = "downgrade" /\ i.part = part /\ i.op \in Plain
  BY DEF Plain
<1>2. Downgrade(part) = <<i>>
  BY DEF Downgrade
<1> HIDE DEF i
<1>3. PICK u : u = Turned(i, n, s)
  OBVIOUS
<1>4. u.reg = s.reg /\ u.mem = [s.mem EXCEPT ![part] = Status("UNAVAILABLE", s.mem[part].at)]
  BY <1>1, <1>3 DEF Turned
<1>5. Concludes(q, n, u)
  BY <1>4 DEF Shaped
<1> QED
  BY <1>1, <1>2, <1>3, <1>5, PlainFirst

LEMMA ListFirst ==
  ASSUME "main" \in Parts(feed), NEW status, NEW q, IsSeq(q), NEW n, NEW s, Shaped(s),
         \A u : /\ Shaped(u) /\ u.reg = s.reg
                /\ u.mem["main"] = Status(status, s.mem["main"].at)
                => Concludes(q, n, u)
  PROVE  Concludes(<<[op |-> "list", status |-> status]>> \o q, n, s)
<1> DEFINE i == [op |-> "list", status |-> status]
<1>1. i.op = "list" /\ i.status = status /\ i.op \in Plain
  BY DEF Plain
<1> HIDE DEF i
<1>3. PICK u : u = Turned(i, n, s)
  OBVIOUS
<1>4. u.reg = s.reg /\ u.mem = [s.mem EXCEPT !["main"] = Status(status, s.mem["main"].at)]
  BY <1>1, <1>3 DEF Turned
<1>5. Concludes(q, n, u)
  BY <1>4 DEF Shaped
<1>6. Concludes(<<i>> \o q, n, s)
  BY <1>1, <1>3, <1>5, PlainFirst
<1> QED
  BY <1>6 DEF i

LEMMA UnlessFirst ==
  ASSUME NEW q, IsSeq(q), NEW n, NEW s, Shaped(s),
         \A u : Shaped(u) /\ u.reg = s.reg /\ u.mem = s.mem => Concludes(q, n, u)
  PROVE  Concludes(UnlessUnavailable \o q, n, s)
<1> DEFINE i == [op |-> "unless"]
<1>1. i.op = "unless" /\ i.op \in Plain
  BY DEF Plain
<1>2. UnlessUnavailable = <<i>>
  BY DEF UnlessUnavailable
<1> HIDE DEF i
<1>3. PICK u : u = Turned(i, n, s)
  OBVIOUS
<1>4. u.reg = s.reg /\ u.mem = s.mem
  BY <1>1, <1>3 DEF Turned
<1> QED
  BY <1>1, <1>2, <1>3, <1>4, PlainFirst DEF Shaped

MarkedAs(held, status, evidence, validated, n) ==
  [fetch |-> IF status = "SAME" THEN held.fetch ELSE status,
   stamp |-> IF validated THEN Stamp(n) ELSE held.stamp,
   evidence |-> IF evidence = NoEvidence THEN held.evidence ELSE evidence]

LEMMA MarkFirst ==
  ASSUME NEW part \in Parts(feed), NEW status, NEW evidence, NEW validated,
         NEW q, IsSeq(q), NEW n, NEW s, Shaped(s),
         \A u : /\ Shaped(u) /\ u.mem = s.mem
                /\ \A p \in Parts(feed) \ {part} : u.reg[p] = s.reg[p]
                /\ u.reg[part] = MarkedAs(s.reg[part], status, evidence, validated, n)
                => Concludes(q, n, u)
  PROVE  Concludes(Mark(part, status, evidence, validated) \o q, n, s)
<1> DEFINE l == LoadOf(part)
           i == StoreOf(part, status, evidence, validated)
<1>1. /\ i.op = "store" /\ i.part = part /\ i.status = status /\ i.evidence = evidence
      /\ i.validated = validated
      /\ l.op = "load" /\ l.part = part /\ l.op \in Plain /\ i.op \in Plain
  BY DEF Plain, LoadOf, StoreOf
<1>2. Mark(part, status, evidence, validated) \o q = <<l>> \o (<<i>> \o q)
  BY MarkJoined
<1> HIDE DEF l, i
<1>3. PICK w : w = Turned(l, n, s)
  OBVIOUS
<1>4. w.mem = s.mem /\ w.reg = s.reg /\ w.held = s.reg[part]
  BY <1>1, <1>3 DEF Turned
<1>5. PICK u : u = Turned(i, n, w)
  OBVIOUS
<1>6. Marked(s.reg[part], i, n) = MarkedAs(s.reg[part], status, evidence, validated, n)
  BY <1>1 DEF Marked, MarkedAs
<1>7. /\ u.mem = s.mem
      /\ u.reg = [s.reg EXCEPT ![part] = MarkedAs(s.reg[part], status, evidence, validated, n)]
  BY <1>1, <1>4, <1>5, <1>6 DEF Turned
<1>8. Concludes(q, n, u)
  BY <1>7 DEF Shaped
<1>9. Concludes(<<i>> \o q, n, w)
  BY <1>1, <1>5, <1>8, PlainFirst
<1>10. IsSeq(<<i>> \o q)
  BY HeadJoined
<1> QED
  BY <1>1, <1>2, <1>3, <1>9, <1>10, PlainFirst

LEMMA RememberLast ==
  ASSUME NEW part \in Parts(feed), NEW status, NEW n, NEW s, Shaped(s),
         \A u : /\ Shaped(u) /\ u.reg = s.reg
                /\ \A p \in Parts(feed) \ {part} : u.mem[p] = s.mem[p]
                /\ u.mem[part] = Status(status, IF status \in VerifiedStatuses THEN n
                                                ELSE IF feed = "regions" THEN s.mem[part].at ELSE 0)
                => Settles(u.mem, u.reg)
  PROVE  IsSeq(Remember(part, status)) /\ Concludes(Remember(part, status), n, s)
<1>1. PICK i : i = [op |-> "remember", part |-> part, status |-> status]
  OBVIOUS
<1>2. Remember(part, status) = <<i>> /\ <<i>> \in Seq({i})
  BY <1>1 DEF Remember
<1>3. IsSeq(<< >>) /\ IsSeq(<<i>>)
  BY <1>2, NothingPlanned DEF PlainPlan, LoadsFirst, IsSeq
<1>4. Concludes(Remember(part, status) \o << >>, n, s)
  BY <1>3, NothingConcludes, RememberFirst
<1> QED
  BY <1>2, <1>3, <1>4, Associative

LEMMA MarkLast ==
  ASSUME NEW part \in Parts(feed), NEW status, NEW evidence, NEW validated, NEW n, NEW s, Shaped(s),
         \A u : /\ Shaped(u) /\ u.mem = s.mem
                /\ \A p \in Parts(feed) \ {part} : u.reg[p] = s.reg[p]
                /\ u.reg[part] = MarkedAs(s.reg[part], status, evidence, validated, n)
                => Settles(u.mem, u.reg)
  PROVE  Concludes(Mark(part, status, evidence, validated), n, s)
<1>1. IsSeq(<< >>)
  BY NothingPlanned DEF PlainPlan, LoadsFirst
<1>2. Concludes(Mark(part, status, evidence, validated) \o << >>, n, s)
  BY <1>1, NothingConcludes, MarkFirst
<1> QED
  BY <1>1, <1>2, MarkJoined, Associative

(* A plan that settles the feed whatever the listing and the records were. *)
SettlesFrom(p, n) == IsSeq(p) /\ \A s : Shaped(s) => Concludes(p, n, s)

LEMMA InstructionsAreSeqs ==
  /\ IsSeq(<< >>) /\ IsSeq(UnlessUnavailable) /\ IsSeq(Manifest)
  /\ \A part : IsSeq(Downgrade(part)) /\ \A status : IsSeq(Remember(part, status))
  /\ \A part, status, evidence, validated : IsSeq(Mark(part, status, evidence, validated))
  /\ \A evidence, good, bad : IsSeq(Compare(evidence, good, bad))
  /\ \A ids, whole : IsSeq(Verify(ids, whole))
  /\ \A status : IsSeq(<<[op |-> "list", status |-> status]>>)
<1>1. \A i : IsSeq(<<i>>)
  <2> TAKE i
  <2>1. <<i>> \in Seq({i})
    OBVIOUS
  <2> QED
    BY <2>1 DEF IsSeq
<1>2. IsSeq(<< >>)
  BY NothingPlanned DEF PlainPlan, LoadsFirst
<1>3. \A part, status, evidence, validated : IsSeq(Mark(part, status, evidence, validated))
  BY <1>2, MarkJoined
<1> QED
  BY <1>1, <1>2, <1>3 DEF UnlessUnavailable, Manifest, Downgrade, Remember, Compare, Verify

LEMMA BeforeTheEnd ==
  ASSUME NEW n, NEW q, SettlesFrom(q, n), NEW part \in Parts(feed), NEW status, NEW evidence, NEW validated
  PROVE  /\ SettlesFrom(Remember(part, status) \o q, n)
         /\ SettlesFrom(Downgrade(part) \o q, n)
         /\ SettlesFrom(Mark(part, status, evidence, validated) \o q, n)
         /\ SettlesFrom(UnlessUnavailable \o q, n)
<1>1. IsSeq(q) /\ \A s : Shaped(s) => Concludes(q, n, s)
  BY DEF SettlesFrom
<1>2. /\ IsSeq(Remember(part, status) \o q) /\ IsSeq(Downgrade(part) \o q)
      /\ IsSeq(Mark(part, status, evidence, validated) \o q) /\ IsSeq(UnlessUnavailable \o q)
  BY <1>1, InstructionsAreSeqs, Associative
<1>3. ASSUME NEW s, Shaped(s)
      PROVE  /\ Concludes(Remember(part, status) \o q, n, s)
             /\ Concludes(Downgrade(part) \o q, n, s)
             /\ Concludes(Mark(part, status, evidence, validated) \o q, n, s)
             /\ Concludes(UnlessUnavailable \o q, n, s)
  <2>1. Concludes(Remember(part, status) \o q, n, s)
    BY <1>1, <1>3, RememberFirst
  <2>2. Concludes(Downgrade(part) \o q, n, s)
    BY <1>1, <1>3, DowngradeFirst
  <2>3. Concludes(Mark(part, status, evidence, validated) \o q, n, s)
    BY <1>1, <1>3, MarkFirst
  <2>4. Concludes(UnlessUnavailable \o q, n, s)
    BY <1>1, <1>3, UnlessFirst
  <2> QED
    BY <2>1, <2>2, <2>3, <2>4
<1> QED
  BY <1>2, <1>3 DEF SettlesFrom

LEMMA MainSettles ==
  ASSUME feed # "cyclone", NEW mem, NEW reg, Agrees("main", mem["main"], reg["main"])
  PROVE  Settles(mem, reg)
  BY MainIsPart DEF Settles, StormsKnown

(* The time that is listed with a status.                                  *)
TimeOf(status, n, before) == IF status \in VerifiedStatuses THEN n ELSE IF feed = "regions" THEN before ELSE 0

(* What was just stored is read back.                                      *)
LEMMA ComparesGood ==
  ASSUME NEW n, NEW evidence, evidence # NoEvidence, NEW good, NEW bad, NEW status, NEW validated,
         NEW record, NEW s, Shaped(s),
         s.reg["main"] = MarkedAs(record, status, evidence, validated, n),
         \A u : Shaped(u) /\ u.reg = s.reg /\ u.mem = s.mem => Concludes(good, n, u)
  PROVE  Concludes(Compare(evidence, good, bad), n, s)
<1> DEFINE i == [op |-> "compare", evidence |-> evidence, good |-> good, bad |-> bad]
<1>1. i.op = "compare" /\ i.evidence = evidence /\ i.good = good
  OBVIOUS
<1>2. Compare(evidence, good, bad) = <<i>>
  BY DEF Compare
<1> HIDE DEF i
<1>3. s.reg["main"].evidence = evidence
  BY DEF MarkedAs
<1>4. PICK p : p = <<i>>
  OBVIOUS
<1>9. p # << >> /\ p[1] = i
  BY <1>4
<1>5. Follows(p, s, good, n)
  BY <1>1, <1>3, <1>9 DEF Follows
<1>6. PICK u : u = Turned(i, n, s)
  OBVIOUS
<1>7. u.mem = s.mem /\ u.reg = s.reg
  BY <1>1, <1>6 DEF Turned
<1>8. Concludes(good, n, u)
  BY <1>7 DEF Shaped
<1> QED
  BY <1>2, <1>4, <1>5, <1>6, <1>8, <1>9, OneMore

LEMMA OneMarkEnds ==
  ASSUME feed # "cyclone", NEW n, NEW listed, NEW status, NEW evidence, NEW validated,
         \A before, record : Agrees("main", Status(listed, TimeOf(listed, n, before)),
                                    MarkedAs(record, status, evidence, validated, n))
  PROVE  /\ SettlesFrom(Mark("main", status, evidence, validated) \o Remember("main", listed), n)
         /\ SettlesFrom(Remember("main", listed) \o Mark("main", status, evidence, validated), n)
         /\ \A bad : evidence # NoEvidence =>
              SettlesFrom(Mark("main", status, evidence, validated)
                   \o Compare(evidence, Remember("main", listed), bad), n)
<1>1. "main" \in Parts(feed)
  BY MainIsPart
<1>2. PICK mark : mark = Mark("main", status, evidence, validated)
  OBVIOUS
<1>3. PICK remember : remember = Remember("main", listed)
  OBVIOUS
<1>4. IsSeq(mark) /\ IsSeq(remember)
  BY <1>2, <1>3, InstructionsAreSeqs
<1>5. ASSUME NEW s, Shaped(s), NEW record, s.reg["main"] = MarkedAs(record, status, evidence, validated, n)
      PROVE  Concludes(remember, n, s)
  <2>1. ASSUME NEW u, u.reg = s.reg,
               u.mem["main"] = Status(listed, IF listed \in VerifiedStatuses THEN n
                                              ELSE IF feed = "regions" THEN s.mem["main"].at ELSE 0)
        PROVE  Settles(u.mem, u.reg)
    BY <1>5, <2>1, MainSettles DEF TimeOf
  <2> QED
    BY <1>1, <1>3, <1>5, <2>1, RememberLast
<1>6. ASSUME NEW s, Shaped(s) PROVE Concludes(mark \o remember, n, s)
  BY <1>1, <1>2, <1>4, <1>5, <1>6, MarkFirst
<1>7. ASSUME NEW s, Shaped(s) PROVE Concludes(remember \o mark, n, s)
  <2>1. ASSUME NEW u, Shaped(u), u.mem["main"] = Status(listed, TimeOf(listed, n, s.mem["main"].at))
        PROVE  Concludes(mark, n, u)
    <3>1. ASSUME NEW w, w.mem = u.mem,
                 w.reg["main"] = MarkedAs(u.reg["main"], status, evidence, validated, n)
          PROVE  Settles(w.mem, w.reg)
      BY <2>1, <3>1, MainSettles
    <3> QED
      BY <1>1, <1>2, <2>1, <3>1, MarkLast
  <2> QED
    BY <1>1, <1>3, <1>4, <1>7, <2>1, RememberFirst DEF TimeOf
<1>8. ASSUME NEW bad, evidence # NoEvidence, NEW s, Shaped(s)
      PROVE  Concludes(mark \o Compare(evidence, remember, bad), n, s)
  <2>1. ASSUME NEW u, Shaped(u),
               u.reg["main"] = MarkedAs(s.reg["main"], status, evidence, validated, n)
        PROVE  Concludes(Compare(evidence, remember, bad), n, u)
    BY <1>5, <1>8, <2>1, ComparesGood
  <2> QED
    BY <1>1, <1>2, <1>8, <2>1, MarkFirst, InstructionsAreSeqs
<1>9. \A bad : IsSeq(mark \o Compare(evidence, remember, bad))
  BY <1>4, InstructionsAreSeqs, Associative
<1>10. IsSeq(mark \o remember) /\ IsSeq(remember \o mark)
  BY <1>4, Associative
<1> QED
  BY <1>2, <1>3, <1>6, <1>7, <1>8, <1>9, <1>10 DEF SettlesFrom

-----------------------------------------------------------------------------
(* The endpoints' plans, kind by kind.                                     *)
LEMMA RestoredKinds ==
  ASSUME NEW record
  PROVE  /\ feed \in Observed => Restored(feed, record) = RestoredObservations(record)
         /\ feed = "regions" => Restored(feed, record) = RestoredRegions(record)
         /\ feed \in Tiled => Restored(feed, record) = RestoredTiles(record)
         /\ feed \in Bundles => Restored(feed, record) = RestoredBundle(record)
         /\ feed \in {"firms", "tomtom"} => Restored(feed, record) = RestoredByStamp(feed, record)
         /\ feed \in Weather \cup Imagery \cup {"cyclone"} => Restored(feed, record) = RestoredByStatus(record)
<1>1. feed \in Observed => Restored(feed, record) = RestoredObservations(record)
  BY DEF Restored, Observed, Tiled, Bundles
<1>2. feed = "regions" => Restored(feed, record) = RestoredRegions(record)
  BY DEF Restored, Observed, Tiled, Bundles
<1>3. feed \in Tiled => Restored(feed, record) = RestoredTiles(record)
  BY DEF Restored, Observed, Tiled, Bundles
<1>4. feed \in Bundles => Restored(feed, record) = RestoredBundle(record)
  BY DEF Restored, Observed, Tiled, Bundles
<1>5. feed \in {"firms", "tomtom"} => Restored(feed, record) = RestoredByStamp(feed, record)
  BY DEF Restored, Observed, Tiled, Bundles
<1>6. feed \in Weather \cup Imagery \cup {"cyclone"} => Restored(feed, record) = RestoredByStatus(record)
  BY DEF Restored, Observed, Tiled, Bundles, Weather, Imagery
<1> QED
  BY <1>1, <1>2, <1>3, <1>4, <1>5, <1>6

LEMMA ListedKinds ==
  ASSUME NEW state
  PROVE  /\ feed \in Bundles \cup {"firms"} => Listed(feed, state) = ListedByTime(feed, state)
         /\ feed \in Weather \cup Imagery => Listed(feed, state) = ListedOnceVerified(state)
         /\ feed \notin Bundles \cup {"firms"} \cup Weather \cup Imagery => Listed(feed, state) = state.status
<1>1. feed \in Bundles \cup {"firms"} => Listed(feed, state) = ListedByTime(feed, state)
  BY DEF Listed, Bundles, Weather, Imagery
<1>2. feed \in Weather \cup Imagery => Listed(feed, state) = ListedOnceVerified(state)
  BY DEF Listed, Bundles, Weather, Imagery
<1>3. feed \notin Bundles \cup {"firms"} \cup Weather \cup Imagery => Listed(feed, state) = state.status
  BY DEF Listed
<1> QED
  BY <1>1, <1>2, <1>3

LEMMA MarkedFields ==
  ASSUME NEW record, NEW status, NEW evidence, NEW validated, NEW n
  PROVE  /\ MarkedAs(record, status, evidence, validated, n).fetch = IF status = "SAME" THEN record.fetch ELSE status
         /\ MarkedAs(record, status, evidence, validated, n).stamp = IF validated THEN Stamp(n) ELSE record.stamp
         /\ MarkedAs(record, status, evidence, validated, n).evidence
              = IF evidence = NoEvidence THEN record.evidence ELSE evidence
  BY DEF MarkedAs

LEMMA StatusFields ==
  ASSUME NEW status, NEW n
  PROVE  Status(status, n).status = status /\ Status(status, n).at = n
  BY DEF Status

LEMMA UnavailableAgrees ==
  ASSUME feed \in Kinds \ (Bundles \cup {"firms"}), NEW part, NEW state, NEW record,
         state.status = "UNAVAILABLE", record.fetch = "UNAVAILABLE",
         feed \in Tiled => record.evidence = Evidence("UNAVAILABLE", 0, 0)
  PROVE  Agrees(part, state, record)
<1>1. \A some : some.status = "UNAVAILABLE" => Listed(feed, some) = "UNAVAILABLE"
  BY ListedKinds DEF ListedOnceVerified
<1>2. \A n : Status("UNAVAILABLE", n).status = "UNAVAILABLE" /\ "UNAVAILABLE" \notin VerifiedStatuses
  BY StatusFields DEF VerifiedStatuses
<1>3. Listed(feed, Restored(feed, record)) \notin VerifiedStatuses
  <2>1. CASE feed \in Observed
    BY <1>1, <1>2, <2>1, RestoredKinds DEF RestoredObservations
  <2>2. CASE feed = "regions"
    BY <1>1, <1>2, <2>2, RestoredKinds DEF RestoredRegions
  <2>3. CASE feed \in Tiled
    <3>1. record.evidence.status = "UNAVAILABLE" /\ record.evidence # NoEvidence
      BY <2>3 DEF Evidence, NoEvidence
    <3> QED
      BY <1>1, <1>2, <2>3, <3>1, RestoredKinds DEF RestoredTiles
  <2>4. CASE feed = "tomtom"
    <3>1. RestoredByStamp(feed, record) = Status("UNAVAILABLE", record.stamp)
      BY <2>4 DEF RestoredByStamp
    <3> QED
      BY <1>1, <1>2, <2>4, <3>1, RestoredKinds
  <2>5. CASE feed \in Weather \cup Imagery \cup {"cyclone"}
    BY <1>1, <1>2, <2>5, RestoredKinds DEF RestoredByStatus
  <2> QED
    BY <2>1, <2>2, <2>3, <2>4, <2>5 DEF Kinds, Static
<1>4. Listed(feed, state) \notin VerifiedStatuses
  BY <1>1, <1>2
<1> QED
  BY <1>3, <1>4 DEF Agrees

LEMMA ObservationFails ==
  ASSUME feed \in Observed, NEW n, NEW kind \in Observed
  PROVE  /\ SettlesFrom(Fails(kind), n)
         /\ \A q : SettlesFrom(q, n) => SettlesFrom(Fails(kind) \o q, n)
<1>1. "main" \in Parts(feed) /\ feed # "cyclone" /\ feed \in Kinds \ (Bundles \cup {"firms"}) /\ feed \notin Tiled
  BY MainIsPart DEF Observed, Kinds, Bundles, Tiled
<1>2. Fails(kind) = MarkUnavailable \o Remember("main", "UNAVAILABLE")
  BY DEF Fails, Observed, Tiled, Bundles
<1>3. ASSUME NEW before, NEW record
      PROVE  Agrees("main", Status("UNAVAILABLE", TimeOf("UNAVAILABLE", n, before)),
                    MarkedAs(record, "UNAVAILABLE", Evidence("UNAVAILABLE", 0, 0), FALSE, n))
  <2>1. MarkedAs(record, "UNAVAILABLE", Evidence("UNAVAILABLE", 0, 0), FALSE, n).fetch = "UNAVAILABLE"
    BY DEF MarkedAs
  <2>2. PICK state : state = Status("UNAVAILABLE", TimeOf("UNAVAILABLE", n, before))
    OBVIOUS
  <2>3. state.status = "UNAVAILABLE"
    BY <2>2 DEF Status
  <2> QED
    BY <1>1, <2>1, <2>2, <2>3, UnavailableAgrees
<1>4. SettlesFrom(Fails(kind), n)
  BY <1>1, <1>2, <1>3, OneMarkEnds DEF MarkUnavailable
<1>5. ASSUME NEW q, SettlesFrom(q, n) PROVE SettlesFrom(Fails(kind) \o q, n)
  <2>1. SettlesFrom(Remember("main", "UNAVAILABLE") \o q, n)
    BY <1>1, <1>5, BeforeTheEnd
  <2>2. SettlesFrom(MarkUnavailable \o (Remember("main", "UNAVAILABLE") \o q), n)
    BY <1>1, <2>1, BeforeTheEnd DEF MarkUnavailable
  <2>3. PICK mark : mark = MarkUnavailable
    OBVIOUS
  <2>4. PICK remember : remember = Remember("main", "UNAVAILABLE")
    OBVIOUS
  <2>5. IsSeq(q) /\ IsSeq(mark) /\ IsSeq(remember)
    BY <1>5, <2>3, <2>4, InstructionsAreSeqs DEF SettlesFrom, MarkUnavailable
  <2>6. (mark \o remember) \o q = mark \o (remember \o q)
    BY <2>5, Associative
  <2> QED
    BY <1>2, <2>2, <2>3, <2>4, <2>6
<1> QED
  BY <1>4, <1>5

LEMMA OnlyMarkEnds ==
  ASSUME feed # "cyclone", NEW n, NEW status, NEW evidence, NEW validated,
         \A state, record : Agrees("main", state, MarkedAs(record, status, evidence, validated, n))
  PROVE  SettlesFrom(Mark("main", status, evidence, validated), n)
<1>1. "main" \in Parts(feed)
  BY MainIsPart
<1>2. ASSUME NEW s, Shaped(s) PROVE Concludes(Mark("main", status, evidence, validated), n, s)
  <2>1. ASSUME NEW u, u.reg["main"] = MarkedAs(s.reg["main"], status, evidence, validated, n)
        PROVE  Settles(u.mem, u.reg)
    BY <2>1, MainSettles
  <2> QED
    BY <1>1, <1>2, <2>1, MarkLast
<1> QED
  BY <1>2, InstructionsAreSeqs DEF SettlesFrom

LEMMA PartFailsEnds ==
  ASSUME feed \in Weather \cup Imagery \cup {"tomtom"}, NEW n
  PROVE  SettlesFrom(PartFails("main"), n)
<1>1. "main" \in Parts(feed) /\ feed # "cyclone" /\ feed \in Kinds \ (Bundles \cup {"firms"}) /\ feed \notin Tiled
  BY MainIsPart DEF Weather, Imagery, Kinds, Bundles, Tiled
<1>2. ASSUME NEW s, Shaped(s) PROVE Concludes(PartFails("main"), n, s)
  <2>1. ASSUME NEW u, Shaped(u), u.mem["main"] = Status("UNAVAILABLE", s.mem["main"].at)
        PROVE  Concludes(MarkStatus("main", "UNAVAILABLE"), n, u)
    <3>1. ASSUME NEW w, w.mem = u.mem,
                 w.reg["main"] = MarkedAs(u.reg["main"], "UNAVAILABLE", NoEvidence, FALSE, n)
          PROVE  Settles(w.mem, w.reg)
      <4>1. w.mem["main"].status = "UNAVAILABLE" /\ w.reg["main"].fetch = "UNAVAILABLE"
        BY <2>1, <3>1 DEF MarkedAs, Status
      <4> QED
        BY <1>1, <4>1, MainSettles, UnavailableAgrees
    <3> QED
      BY <1>1, <2>1, <3>1, MarkLast DEF MarkStatus
  <2> QED
    BY <1>1, <1>2, <2>1, DowngradeFirst, InstructionsAreSeqs DEF PartFails, MarkStatus
<1> QED
  BY <1>2, InstructionsAreSeqs, Associative DEF SettlesFrom, PartFails, MarkStatus

LEMMA CycloneFails ==
  ASSUME feed = "cyclone", NEW n
  PROVE  SettlesFrom(Fails(feed), n)
<1>1. Parts(feed) = {"storms", "tracks"} /\ feed \in Kinds \ (Bundles \cup {"firms"}) /\ feed \notin Tiled
  BY StormsAreParts DEF Kinds, Bundles, Tiled
<1>2. PICK last : last = MarkStatus("tracks", "UNAVAILABLE")
  OBVIOUS
<1>3. PICK third : third = Downgrade("tracks") \o last
  OBVIOUS
<1>4. PICK second : second = MarkStatus("storms", "UNAVAILABLE") \o third
  OBVIOUS
<1>5. IsSeq(last) /\ IsSeq(third) /\ IsSeq(second) /\ IsSeq(Downgrade("storms") \o second)
  BY <1>2, <1>3, <1>4, InstructionsAreSeqs, Associative DEF MarkStatus
<1>6. Fails(feed) = Downgrade("storms") \o second
  <2>1. Fails(feed) = PartFails("storms") \o PartFails("tracks")
    BY DEF Fails, Observed, Tiled, Bundles
  <2>2. PartFails("tracks") = third
    BY <1>2, <1>3 DEF PartFails
  <2>3. PICK mark : mark = MarkStatus("storms", "UNAVAILABLE")
    OBVIOUS
  <2>4. PICK down : down = Downgrade("storms")
    OBVIOUS
  <2>5. IsSeq(mark) /\ IsSeq(down)
    BY <2>3, <2>4, InstructionsAreSeqs DEF MarkStatus
  <2>6. (down \o mark) \o third = down \o (mark \o third)
    BY <1>5, <2>5, Associative
  <2> QED
    BY <1>4, <2>1, <2>2, <2>3, <2>4, <2>6 DEF PartFails
<1>7. ASSUME NEW s, Shaped(s) PROVE Concludes(Fails(feed), n, s)
  <2>1. ASSUME NEW u, u.mem["storms"].status = "UNAVAILABLE", u.mem["tracks"].status = "UNAVAILABLE",
               u.reg["storms"].fetch = "UNAVAILABLE", u.reg["tracks"].fetch = "UNAVAILABLE"
        PROVE  Settles(u.mem, u.reg)
    <3>1. \A part \in Parts(feed) : Agrees(part, u.mem[part], u.reg[part])
      BY <1>1, <2>1, UnavailableAgrees
    <3>2. StormsKnown(u.mem)
      BY <2>1 DEF StormsKnown, Listed, Bundles, Weather, Imagery
    <3> QED
      BY <3>1, <3>2 DEF Settles
  <2>2. ASSUME NEW u, Shaped(u), u.mem["storms"].status = "UNAVAILABLE",
               u.mem["tracks"].status = "UNAVAILABLE", u.reg["storms"].fetch = "UNAVAILABLE"
        PROVE  Concludes(last, n, u)
    <3>1. ASSUME NEW w, w.mem = u.mem, w.reg["storms"] = u.reg["storms"],
                 w.reg["tracks"] = MarkedAs(u.reg["tracks"], "UNAVAILABLE", NoEvidence, FALSE, n)
          PROVE  Settles(w.mem, w.reg)
      BY <2>1, <2>2, <3>1 DEF MarkedAs
    <3> QED
      BY <1>1, <1>2, <2>2, <3>1, MarkLast DEF MarkStatus
  <2>3. ASSUME NEW u, Shaped(u), u.mem["storms"].status = "UNAVAILABLE",
               u.reg["storms"].fetch = "UNAVAILABLE"
        PROVE  Concludes(third, n, u)
    BY <1>1, <1>3, <1>5, <2>2, <2>3, DowngradeFirst, StatusFields
  <2>4. ASSUME NEW u, Shaped(u), u.mem["storms"].status = "UNAVAILABLE"
        PROVE  Concludes(second, n, u)
    <3>1. ASSUME NEW w, Shaped(w), w.mem = u.mem,
                 w.reg["storms"] = MarkedAs(u.reg["storms"], "UNAVAILABLE", NoEvidence, FALSE, n)
          PROVE  Concludes(third, n, w)
      BY <2>3, <2>4, <3>1 DEF MarkedAs
    <3> QED
      BY <1>1, <1>4, <1>5, <2>4, <3>1, MarkFirst DEF MarkStatus
  <2> QED
    <3>1. ASSUME NEW w, Shaped(w), w.mem["storms"] = Status("UNAVAILABLE", s.mem["storms"].at)
          PROVE  Concludes(second, n, w)
      BY <2>4, <3>1 DEF Status
    <3> QED
      <4>1. "storms" \in Parts(feed)
        BY <1>1
      <4>2. Concludes(Downgrade("storms") \o second, n, s)
        BY <1>5, <1>7, <3>1, <4>1, DowngradeFirst
      <4> QED
        BY <1>6, <4>2
<1> QED
  BY <1>5, <1>6, <1>7 DEF SettlesFrom

LEMMA SameAgrees ==
  ASSUME NEW part, NEW state, NEW record, Restored(feed, record) = state
  PROVE  Agrees(part, state, record)
  BY DEF Agrees, SameTime

(* The regions are restored with the time of the save of their record.     *)
LEMMA LaterAgrees ==
  ASSUME feed = "regions", NEW part, NEW status, NEW n, NEW record,
         Restored(feed, record) = Status(status, Stamp(n))
  PROVE  Agrees(part, Status(status, n), record)
<1>1. PICK then : then = Restored(feed, record)
  OBVIOUS
<1>2. PICK now : now = Status(status, n)
  OBVIOUS
<1>3. now.status = status /\ now.at = n /\ then.status = status /\ then.at = Stamp(n)
  BY <1>1, <1>2 DEF Status
<1>4. Listed(feed, then) = then.status /\ Listed(feed, now) = now.status
  BY ListedKinds DEF Bundles, Weather, Imagery
<1>5. SameTime(now, then)
  BY <1>3 DEF SameTime
<1> QED
  BY <1>1, <1>2, <1>3, <1>4, <1>5 DEF Agrees

LEMMA UnverifiedAgrees ==
  ASSUME NEW part, NEW state, NEW record,
         Listed(feed, Restored(feed, record)) \notin VerifiedStatuses,
         feed \in Bundles \/ Listed(feed, state) \notin VerifiedStatuses
  PROVE  Agrees(part, state, record)
  BY DEF Agrees

LEMMA BundleMarked ==
  ASSUME feed \in Bundles, NEW n, NEW status, status # "STATIC_VERIFIED", status # "SAME"
  PROVE  SettlesFrom(MarkStatus("main", status), n)
<1>1. feed # "cyclone"
  BY DEF Bundles
<1>2. ASSUME NEW state, NEW record
      PROVE  Agrees("main", state, MarkedAs(record, status, NoEvidence, FALSE, n))
  <2>1. PICK marked : marked = MarkedAs(record, status, NoEvidence, FALSE, n)
    OBVIOUS
  <2>2. marked.fetch = status
    BY <2>1 DEF MarkedAs
  <2>3. Restored(feed, marked) = Status("UNVERIFIED", 0)
    BY <2>2, RestoredKinds DEF RestoredBundle
  <2>4. Listed(feed, Status("UNVERIFIED", 0)) \in {"CONFIGURED", "UNVERIFIED"}
    BY StatusFields, ListedKinds DEF ListedByTime
  <2>5. Listed(feed, Restored(feed, marked)) \notin VerifiedStatuses
    BY <2>3, <2>4 DEF VerifiedStatuses
  <2> QED
    BY <2>1, <2>5, UnverifiedAgrees
<1> QED
  BY <1>1, <1>2, OnlyMarkEnds DEF MarkStatus

LEMMA FailsEnds ==
  ASSUME feed \in Kinds \ {"firms"}, NEW n
  PROVE  SettlesFrom(Fails(feed), n)
<1>1. CASE feed \in Observed
  BY <1>1, ObservationFails
<1>2. CASE feed \in Tiled \cup {"regions"}
  <2>1. PICK evidence : evidence = IF feed = "regions" THEN NoEvidence ELSE Evidence("UNAVAILABLE", 0, 0)
    OBVIOUS
  <2>2. Fails(feed) = Remember("main", "UNAVAILABLE") \o Mark("main", "UNAVAILABLE", evidence, FALSE)
    BY <1>2, <2>1 DEF Fails, Observed, Tiled, Bundles, MarkUnavailable, MarkStatus
  <2>3. feed # "cyclone" /\ feed \in Kinds \ (Bundles \cup {"firms"})
    BY <1>2 DEF Tiled, Bundles
  <2>4. ASSUME NEW before, NEW record
        PROVE  Agrees("main", Status("UNAVAILABLE", TimeOf("UNAVAILABLE", n, before)),
                      MarkedAs(record, "UNAVAILABLE", evidence, FALSE, n))
    <3>1. PICK state : state = Status("UNAVAILABLE", TimeOf("UNAVAILABLE", n, before))
      OBVIOUS
    <3>2. PICK marked : marked = MarkedAs(record, "UNAVAILABLE", evidence, FALSE, n)
      OBVIOUS
    <3>3. state.status = "UNAVAILABLE" /\ marked.fetch = "UNAVAILABLE"
      BY <3>1, <3>2 DEF Status, MarkedAs
    <3>4. feed \in Tiled => marked.evidence = Evidence("UNAVAILABLE", 0, 0)
      <4>1. Evidence("UNAVAILABLE", 0, 0) # NoEvidence
        BY DEF Evidence, NoEvidence
      <4>2. feed \in Tiled => evidence = Evidence("UNAVAILABLE", 0, 0)
        BY <2>1 DEF Tiled
      <4> QED
        BY <3>2, <4>1, <4>2 DEF MarkedAs
    <3> QED
      BY <2>3, <3>1, <3>2, <3>3, <3>4, UnavailableAgrees
  <2> QED
    BY <2>2, <2>3, <2>4, OneMarkEnds
<1>3. CASE feed \in Bundles
  <2>1. Fails(feed) = MarkStatus("main", "UNAVAILABLE")
    BY <1>3 DEF Fails, Observed, Tiled, Bundles
  <2> QED
    BY <1>3, <2>1, BundleMarked
<1>4. CASE feed = "cyclone"
  BY <1>4, CycloneFails
<1>5. CASE feed \in Weather \cup Imagery \cup {"tomtom"}
  <2>1. Fails(feed) = PartFails("main")
    BY <1>5 DEF Fails, Observed, Tiled, Bundles, Weather, Imagery
  <2> QED
    BY <1>5, <2>1, PartFailsEnds
<1> QED
  BY <1>1, <1>2, <1>3, <1>4, <1>5 DEF Kinds, Static

LEMMA RaisedEnds ==
  ASSUME feed = "usgs", NEW n
  PROVE  SettlesFrom(Raised(feed), n)
<1>1. SettlesFrom(Fails("usgs"), n) /\ "main" \in Parts(feed)
  BY ObservationFails, MainIsPart DEF Observed
<1>2. SettlesFrom(UnlessUnavailable \o Fails("usgs"), n)
  BY <1>1, BeforeTheEnd
<1> QED
  BY <1>2 DEF Raised

LEMMA ReadbackEnds ==
  ASSUME feed \in Kinds \ {"firms", "cyclone"}, NEW n
  PROVE  SettlesFrom(ReadbackFails(feed), n)
<1>1. CASE feed = "usgs"
  BY <1>1, ObservationFails DEF ReadbackFails, Observed
<1>2. CASE feed \in {"aisstream", "adsb"}
  <2>1. "main" \in Parts(feed) /\ feed \in Observed /\ "aisstream" \in Observed
    BY <1>2, MainIsPart DEF Observed
  <2>2. PICK again : again = UnlessUnavailable \o Fails("aisstream")
    OBVIOUS
  <2>3. SettlesFrom(Fails("aisstream"), n)
    BY <2>1, ObservationFails
  <2>4. SettlesFrom(again, n)
    BY <2>1, <2>2, <2>3, BeforeTheEnd
  <2>5. SettlesFrom(Fails(feed) \o again, n)
    BY <2>1, <2>4, ObservationFails
  <2>6. IsSeq(Fails(feed)) /\ IsSeq(Fails("aisstream"))
    BY <2>1, ObservationFails DEF SettlesFrom
  <2>7. (Fails(feed) \o UnlessUnavailable) \o Fails("aisstream") = Fails(feed) \o again
    BY <2>2, <2>6, InstructionsAreSeqs, Associative
  <2> QED
    BY <1>2, <2>5, <2>7 DEF ReadbackFails
<1>3. CASE feed \notin {"usgs", "aisstream", "adsb"}
  BY <1>3, FailsEnds DEF ReadbackFails
<1> QED
  BY <1>1, <1>2, <1>3

LEMMA ObservationEnds ==
  ASSUME feed \in Observed, NEW n, NEW ids, NEW stored, stored = Stored("records")
  PROVE  SettlesFrom(ObservationVerified(feed, ids, stored, n), n)
<1>1. feed # "cyclone"
  BY DEF Observed
<1>2. ASSUME NEW status \in {"PENDING", "LIVE_VERIFIED"}, NEW validated \in BOOLEAN, NEW bad
      PROVE  SettlesFrom(Mark("main", status, Evidence(status, stored, n), validated)
                         \o Compare(Evidence(status, stored, n), Remember("main", status), bad), n)
  <2>1. PICK evidence : evidence = Evidence(status, stored, n)
    OBVIOUS
  <2>2. evidence # NoEvidence /\ evidence.status = status /\ evidence.stored = stored /\ evidence.at = n
    BY <2>1 DEF Evidence, NoEvidence
  <2>3. ASSUME NEW before, NEW record
        PROVE  Agrees("main", Status(status, TimeOf(status, n, before)),
                      MarkedAs(record, status, evidence, validated, n))
    <3>1. PICK marked : marked = MarkedAs(record, status, evidence, validated, n)
      OBVIOUS
    <3>2. marked.fetch = status /\ marked.evidence = evidence
      BY <2>2, <3>1, MarkedFields
    <3>3. Restored(feed, marked) = Status(status, TimeOf(status, n, before))
      BY <2>2, <3>2, RestoredKinds DEF RestoredObservations, TimeOf, VerifiedStatuses, Observed
    <3> QED
      BY <3>1, <3>3, SameAgrees
  <2> QED
    BY <1>1, <2>1, <2>2, <2>3, OneMarkEnds
<1>3. CASE ids = {}
  BY <1>2, <1>3 DEF ObservationVerified
<1>4. CASE ids # {}
  BY <1>2, <1>4 DEF ObservationVerified
<1> QED
  BY <1>3, <1>4

LEMMA ReadBackEnds ==
  ASSUME feed \in Tiled \cup {"regions"}, NEW n, NEW stored, NEW bad,
         feed = "regions" => stored = Stored("records") /\ stored = Stored("geometries")
  PROVE  SettlesFrom(ReadBackFromRegistry(feed, stored, n, bad), n)
<1>1. feed # "cyclone" /\ Success(feed) \in VerifiedStatuses /\ Success(feed) # "SAME"
  BY DEF Tiled, Success, VerifiedStatuses
<1>2. PICK status : status = Success(feed)
  OBVIOUS
<1>3. PICK evidence : evidence = Evidence(status, stored, n)
  OBVIOUS
<1>4. evidence # NoEvidence /\ evidence.status = status /\ evidence.stored = stored /\ evidence.at = n
  BY <1>1, <1>2, <1>3 DEF Evidence, NoEvidence, VerifiedStatuses
<1>5. ASSUME NEW before, NEW record
      PROVE  Agrees("main", Status(status, TimeOf(status, n, before)),
                    MarkedAs(record, status, evidence, TRUE, n))
  <2>1. PICK marked : marked = MarkedAs(record, status, evidence, TRUE, n)
    OBVIOUS
  <2>2. marked.fetch = status /\ marked.evidence = evidence /\ marked.stamp = Stamp(n)
    BY <1>1, <1>2, <1>4, <2>1 DEF MarkedAs, VerifiedStatuses
  <2>3. TimeOf(status, n, before) = n
    BY <1>1, <1>2 DEF TimeOf
  <2>4. CASE feed = "regions"
    <3>1. status = "STATIC_VERIFIED"
      BY <1>2, <2>4 DEF Success, Static
    <3>2. Restored(feed, marked) = Status(status, Stamp(n))
      BY <1>4, <2>2, <2>4, <3>1, RestoredKinds DEF RestoredRegions
    <3> QED
      BY <2>1, <2>3, <2>4, <3>2, LaterAgrees
  <2>5. CASE feed \in Tiled
    <3>1. Restored(feed, marked) = Status(status, n)
      BY <1>4, <2>2, <2>5, RestoredKinds DEF RestoredTiles
    <3> QED
      BY <2>1, <2>3, <3>1, SameAgrees
  <2> QED
    BY <2>4, <2>5
<1>6. SettlesFrom(Mark("main", status, evidence, TRUE) \o Compare(evidence, Remember("main", status), bad), n)
  BY <1>1, <1>4, <1>5, OneMarkEnds
<1> QED
  BY <1>2, <1>3, <1>6 DEF ReadBackFromRegistry

LEMMA ValidatedEnds ==
  ASSUME feed \in Kinds \ {"cyclone"}, NEW n, n # 0, NEW status, NEW listed, NEW evidence,
         listed = Success(feed), status = listed \/ (feed = "firms" /\ status = "SAME"),
         feed \in Bundles \cup Weather \cup Imagery \cup {"firms", "tomtom"}
  PROVE  /\ SettlesFrom(Remember("main", listed) \o Mark("main", status, evidence, TRUE), n)
         /\ SettlesFrom(Mark("main", status, evidence, TRUE) \o Remember("main", listed), n)
<1>1. listed \in VerifiedStatuses
  BY DEF Success, VerifiedStatuses
<1>2. ASSUME NEW before, NEW record
      PROVE  Agrees("main", Status(listed, TimeOf(listed, n, before)),
                    MarkedAs(record, status, evidence, TRUE, n))
  <2>1. PICK marked : marked = MarkedAs(record, status, evidence, TRUE, n)
    OBVIOUS
  <2>2. marked.stamp = n /\ (feed # "firms" => marked.fetch = listed)
    <3>1. Stamp(n) = n
      BY DEF Stamp, Bundles, Weather, Imagery
    <3> QED
      BY <1>1, <2>1, <3>1 DEF VerifiedStatuses, MarkedAs
  <2>3. TimeOf(listed, n, before) = n
    BY <1>1 DEF TimeOf
  <2>4. Restored(feed, marked) = Status(listed, n)
    <3>1. CASE feed \in Bundles
      <4>1. listed = "STATIC_VERIFIED" /\ feed # "firms"
        BY <3>1 DEF Success, Static, Bundles
      <4> QED
        BY <2>2, <3>1, <4>1, RestoredKinds DEF RestoredBundle
    <3>2. CASE feed \in Weather \cup Imagery
      <4>1. listed = "LIVE_VERIFIED" /\ feed # "firms"
        BY <3>2 DEF Success, Static, Bundles, Weather, Imagery
      <4> QED
        BY <2>2, <3>2, <4>1, RestoredKinds DEF RestoredByStatus
    <3>3. CASE feed \in {"firms", "tomtom"}
      <4>1. listed = "LIVE_VERIFIED"
        BY <3>3 DEF Success, Static, Bundles
      <4>2. RestoredByStamp(feed, marked) = Status(listed, n)
        BY <2>2, <3>3, <4>1 DEF RestoredByStamp
      <4> QED
        BY <3>3, <4>2, RestoredKinds
    <3> QED
      BY <3>1, <3>2, <3>3
  <2> QED
    BY <2>1, <2>3, <2>4, SameAgrees
<1> QED
  BY <1>2, OneMarkEnds

LEMMA ImageEnds ==
  ASSUME feed \in Imagery, NEW n, n # 0
  PROVE  SettlesFrom(ImageVerified(n), n)
<1>1. PICK metadata : metadata = Evidence("metadata", 0, n)
  OBVIOUS
<1>2. metadata # NoEvidence
  BY <1>1 DEF Evidence, NoEvidence
<1>3. PICK good : good = Mark("main", "LIVE_VERIFIED", metadata, TRUE) \o Remember("main", "LIVE_VERIFIED")
  OBVIOUS
<1>4. SettlesFrom(good, n)
  <2>1. feed \in Kinds \ {"cyclone"} /\ Success(feed) = "LIVE_VERIFIED"
    BY DEF Imagery, Kinds, Success, Static, Bundles
  <2> QED
    BY <1>3, <2>1, ValidatedEnds
<1>5. "main" \in Parts(feed) /\ feed # "cyclone"
  BY MainIsPart DEF Imagery
<1>6. ASSUME NEW s, Shaped(s)
      PROVE  Concludes(Mark("main", "CONFIGURED", metadata, FALSE) \o Compare(metadata, good, <<>>), n, s)
  <2>1. ASSUME NEW u, Shaped(u), u.reg["main"] = MarkedAs(s.reg["main"], "CONFIGURED", metadata, FALSE, n)
        PROVE  Concludes(Compare(metadata, good, <<>>), n, u)
    <3>1. \A w : Shaped(w) => Concludes(good, n, w)
      BY <1>4 DEF SettlesFrom
    <3> QED
      BY <1>2, <2>1, <3>1, ComparesGood
  <2> QED
    BY <1>5, <1>6, <2>1, MarkFirst, InstructionsAreSeqs
<1>7. IsSeq(Mark("main", "CONFIGURED", metadata, FALSE) \o Compare(metadata, good, <<>>))
  BY InstructionsAreSeqs, Associative
<1> QED
  BY <1>1, <1>3, <1>6, <1>7 DEF SettlesFrom, ImageVerified

LEMMA VerifiedEnds ==
  ASSUME feed \in Kinds \ {"cyclone"}, NEW n, n # 0, NEW ids, NEW whole, NEW stored,
         stored = Stored("records"), feed = "regions" => stored = Stored("geometries")
  PROVE  SettlesFrom(Verified(feed, ids, whole, stored, n), n)
<1>1. CASE feed \in Observed
  <2>1. Verified(feed, ids, whole, stored, n) = ObservationVerified(feed, ids, stored, n)
    BY <1>1 DEF Verified, Observed, Tiled, Bundles, Imagery
  <2> QED
    BY <1>1, <2>1, ObservationEnds
<1>2. CASE feed \in Tiled \cup {"regions"}
  <2>1. PICK bad : bad = IF feed = "regions" THEN Fails(feed)
                         ELSE TilesUnconfirmed
    OBVIOUS
  <2>2. Verified(feed, ids, whole, stored, n) = ReadBackFromRegistry(feed, stored, n, bad)
    BY <1>2, <2>1 DEF Verified, Observed, Tiled, Bundles, Imagery
  <2> QED
    BY <1>2, <2>2, ReadBackEnds
<1>3. CASE feed \in Bundles
  <2>1. Verified(feed, ids, whole, stored, n) = BundleVerified(whole)
    BY <1>3 DEF Verified, Observed, Tiled, Bundles, Imagery
  <2>2. CASE whole
    <3>1. Success(feed) = "STATIC_VERIFIED"
      BY <1>3 DEF Success, Static
    <3> QED
      BY <1>3, <2>1, <2>2, <3>1, ValidatedEnds DEF BundleVerified
  <2>3. CASE ~whole
    BY <1>3, <2>1, <2>3, BundleMarked DEF BundleVerified
  <2> QED
    BY <2>2, <2>3
<1>4. CASE feed \in Imagery
  <2>1. Verified(feed, ids, whole, stored, n) = ImageVerified(n)
    BY <1>4 DEF Verified, Observed, Tiled, Bundles, Imagery
  <2> QED
    BY <1>4, <2>1, ImageEnds
<1>5. CASE feed = "firms"
  <2>1. /\ Verified(feed, ids, whole, stored, n)
             = Remember("main", "LIVE_VERIFIED") \o Mark("main", "SAME", NoEvidence, TRUE)
        /\ Success(feed) = "LIVE_VERIFIED"
    BY <1>5 DEF Verified, Observed, Tiled, Bundles, Imagery, Success, Static
  <2> QED
    BY <1>5, <2>1, ValidatedEnds
<1>6. CASE feed \in Weather \cup {"tomtom"}
  <2>1. /\ Verified(feed, ids, whole, stored, n)
             = Remember("main", "LIVE_VERIFIED") \o Mark("main", "LIVE_VERIFIED", NoEvidence, TRUE)
        /\ Success(feed) = "LIVE_VERIFIED"
    BY <1>6 DEF Verified, Observed, Tiled, Bundles, Imagery, Weather, Success, Static
  <2> QED
    BY <1>6, <2>1, ValidatedEnds
<1> QED
  BY <1>1, <1>2, <1>3, <1>4, <1>5, <1>6 DEF Kinds, Static

LEMMA ManifestFirst ==
  ASSUME feed \in Imagery, NEW q, IsSeq(q), NEW n,
         \A u : Shaped(u) /\ u.mem["main"].status = u.reg["main"].fetch => Concludes(q, n, u)
  PROVE  SettlesFrom(Manifest \o q, n)
<1> DEFINE i == [op |-> "manifest"]
<1>1. i.op = "manifest" /\ Manifest = <<i>>
  BY DEF Manifest
<1> HIDE DEF i
<1>2. PICK p : p = Manifest \o q
  OBVIOUS
<1>3. IsSeq(p) /\ p # << >> /\ p[1] = i /\ Tail(p) = q
  BY <1>1, <1>2, HeadJoined
<1>4. "main" \in Parts(feed)
  BY MainIsPart DEF Imagery
<1>5. ASSUME NEW s, Shaped(s) PROVE Concludes(p, n, s)
  <2>1. PICK status : status = IF s.mem["main"].status = "LIVE_VERIFIED" THEN "LIVE_VERIFIED" ELSE "CONFIGURED"
    OBVIOUS
  <2>2. PICK mark : mark = Mark("main", status, Evidence("metadata", 0, n), FALSE)
    OBVIOUS
  <2>3. PICK listing : listing = <<[op |-> "list", status |-> status]>>
    OBVIOUS
  <2>4. IsSeq(mark) /\ IsSeq(listing) /\ IsSeq(listing \o q) /\ IsSeq(mark \o listing)
    BY <2>2, <2>3, InstructionsAreSeqs, Associative
  <2>5. ManifestPlan(s.mem, n) \o q = mark \o (listing \o q)
    <3>1. ManifestPlan(s.mem, n) = mark \o listing
      BY <2>1, <2>2, <2>3 DEF ManifestPlan
    <3> QED
      BY <2>4, <3>1, Associative
  <2>6. PICK u : u = Turned(i, n, s)
    OBVIOUS
  <2>7. u.mem = s.mem /\ u.reg = s.reg
    BY <1>1, <2>6 DEF Turned
  <2>8. ASSUME NEW w, Shaped(w), w.reg["main"].fetch = status PROVE Concludes(listing \o q, n, w)
    <3>1. ASSUME NEW x, Shaped(x), x.reg = w.reg, x.mem["main"] = Status(status, w.mem["main"].at)
          PROVE  Concludes(q, n, x)
      BY <2>8, <3>1 DEF Status
    <3> QED
      BY <1>4, <2>3, <2>8, <3>1, ListFirst
  <2>9. Concludes(mark \o (listing \o q), n, u)
    <3>1. status # "SAME" /\ Shaped(u)
      BY <1>5, <2>1, <2>7 DEF Shaped
    <3>2. ASSUME NEW w, Shaped(w),
                 w.reg["main"] = MarkedAs(u.reg["main"], status, Evidence("metadata", 0, n), FALSE, n)
          PROVE  Concludes(listing \o q, n, w)
      BY <2>8, <3>1, <3>2 DEF MarkedAs
    <3> QED
      BY <1>4, <2>2, <2>4, <3>1, <3>2, MarkFirst
  <2>10. Follows(p, s, mark \o (listing \o q), n)
    BY <1>1, <1>3, <2>5 DEF Follows
  <2> QED
    BY <1>3, <2>6, <2>9, <2>10, OneMore
<1> QED
  BY <1>2, <1>3, <1>5 DEF SettlesFrom

LEMMA ImageAsked ==
  ASSUME feed \in Imagery, NEW n, n # 0
  PROVE  SettlesFrom(Verify({}, TRUE), n)
<1> DEFINE i == [op |-> "verify", ids |-> {}, whole |-> TRUE]
<1>1. i.op = "verify" /\ i.ids = {}
  OBVIOUS
<1> HIDE DEF i
<1>2. PICK p : p = <<i>>
  OBVIOUS
<1>3. p # << >> /\ p[1] = i
  BY <1>2
<1>4. ASSUME NEW s, Shaped(s) PROVE Concludes(p, n, s)
  <2>1. PICK u : u = Turned(i, n, s)
    OBVIOUS
  <2>2. u.mem = s.mem /\ u.reg = s.reg
    BY <1>1, <2>1 DEF Turned
  <2>3. Concludes(ImageVerified(n), n, u)
    BY <1>4, <2>2, ImageEnds DEF SettlesFrom, Shaped
  <2>4. Follows(p, s, ImageVerified(n), n)
    BY <1>1, <1>3 DEF Follows
  <2> QED
    BY <1>3, <2>1, <2>3, <2>4, OneMore
<1>5. Verify({}, TRUE) = p
  BY <1>2 DEF Verify, i
<1> QED
  BY <1>4, <1>5, InstructionsAreSeqs DEF SettlesFrom

LEMMA ImageryEnds ==
  ASSUME feed \in Imagery, NEW n, n # 0, NEW a
  PROVE  SettlesFrom(RequestImagery(feed, a), n)
<1>1. feed \in Kinds \ {"firms"} /\ feed # "cyclone"
  BY DEF Imagery, Kinds
<1>2. SettlesFrom(Fails(feed), n) /\ SettlesFrom(Verify({}, TRUE), n)
  BY <1>1, FailsEnds, ImageAsked
<1>3. ASSUME NEW q, SettlesFrom(q, n) PROVE SettlesFrom(Manifest \o q, n)
  BY <1>3, ManifestFirst DEF SettlesFrom
<1>4. SettlesFrom(Manifest, n)
  <2>1. ASSUME NEW u, Shaped(u), u.mem["main"].status = u.reg["main"].fetch
        PROVE  Concludes(<< >>, n, u)
    <3>1. PICK state : state = u.mem["main"]
      OBVIOUS
    <3>2. PICK record : record = u.reg["main"]
      OBVIOUS
    <3>3. Restored(feed, record).status = state.status
      BY <2>1, <3>1, <3>2, RestoredKinds DEF RestoredByStatus, Status
    <3>4. Listed(feed, Restored(feed, record)) = Listed(feed, state)
      BY <3>3, ListedKinds DEF ListedOnceVerified
    <3>5. Agrees("main", state, record)
      BY <3>4 DEF Agrees, SameTime
    <3> QED
      BY <1>1, <3>1, <3>2, <3>5, MainSettles, NothingConcludes
  <2>2. SettlesFrom(Manifest \o << >>, n)
    BY <2>1, ManifestFirst, InstructionsAreSeqs
  <2> QED
    BY <2>2, InstructionsAreSeqs, Associative
<1> QED
  BY <1>2, <1>3, <1>4 DEF RequestImagery

LEMMA CycloneAgrees ==
  ASSUME feed = "cyclone", NEW n, NEW status, status # "SAME", NEW validated,
         \/ status = "LIVE_VERIFIED" /\ validated = TRUE
         \/ status \notin VerifiedStatuses /\ validated = FALSE, NEW part, NEW record, NEW state,
         state = Status(status, IF status \in VerifiedStatuses THEN n ELSE 0)
  PROVE  Agrees(part, state, MarkedAs(record, status, NoEvidence, validated, n))
<1>1. PICK marked : marked = MarkedAs(record, status, NoEvidence, validated, n)
  OBVIOUS
<1>2. marked.fetch = status /\ (status = "LIVE_VERIFIED" => marked.stamp = n)
  BY <1>1 DEF MarkedAs, Stamp, VerifiedStatuses
<1>3. Restored(feed, marked) = state
  BY <1>2, RestoredKinds DEF RestoredByStatus, VerifiedStatuses
<1> QED
  BY <1>1, <1>3, SameAgrees

LEMMA CyclonesEnd ==
  ASSUME feed = "cyclone", NEW n, NEW ids, NEW geometry,
         \A v \in verified : v.at = n => ListedStorms = v.ids
  PROVE  SettlesFrom(CyclonesVerified(ids, geometry), n)
<1>1. Parts(feed) = {"storms", "tracks"}
  BY StormsAreParts
<1>2. PICK status : status = IF ids # {} /\ geometry THEN "LIVE_VERIFIED"
                             ELSE IF ids = {} THEN "NO_ACTIVE_STORMS" ELSE "UNAVAILABLE"
  OBVIOUS
<1>3. PICK validated : validated = IF ids # {} /\ geometry THEN TRUE ELSE FALSE
  OBVIOUS
<1>4. PICK fourth : fourth = Mark("tracks", status, NoEvidence, validated)
  OBVIOUS
<1>5. PICK third : third = Remember("tracks", status) \o fourth
  OBVIOUS
<1>6. PICK second : second = Mark("storms", "LIVE_VERIFIED", NoEvidence, TRUE) \o third
  OBVIOUS
<1>7. IsSeq(fourth) /\ IsSeq(third) /\ IsSeq(second) /\ IsSeq(Remember("storms", "LIVE_VERIFIED") \o second)
  BY <1>4, <1>5, <1>6, InstructionsAreSeqs, Associative
<1>8. CyclonesVerified(ids, geometry) = Remember("storms", "LIVE_VERIFIED") \o second
  <2>1. PICK first : first = Remember("storms", "LIVE_VERIFIED")
    OBVIOUS
  <2>2. PICK mark : mark = Mark("storms", "LIVE_VERIFIED", NoEvidence, TRUE)
    OBVIOUS
  <2>3. CyclonesVerified(ids, geometry) = (first \o mark) \o third
    <3>1. CASE ids # {} /\ geometry
      BY <1>2, <1>3, <1>4, <1>5, <2>1, <2>2, <3>1 DEF CyclonesVerified
    <3>2. CASE ~(ids # {} /\ geometry)
      BY <1>2, <1>3, <1>4, <1>5, <2>1, <2>2, <3>2 DEF CyclonesVerified, MarkStatus
    <3> QED
      BY <3>1, <3>2
  <2>4. IsSeq(first) /\ IsSeq(mark)
    BY <2>1, <2>2, InstructionsAreSeqs
  <2>5. (first \o mark) \o third = first \o (mark \o third)
    BY <1>7, <2>4, Associative
  <2> QED
    BY <1>6, <2>1, <2>2, <2>3, <2>5
<1>9. ASSUME NEW s, Shaped(s) PROVE Concludes(CyclonesVerified(ids, geometry), n, s)
  <2> DEFINE live == Status("LIVE_VERIFIED", n)
             tracks == Status(status, IF status \in VerifiedStatuses THEN n ELSE 0)
  <2>1. "LIVE_VERIFIED" \in VerifiedStatuses
    BY DEF VerifiedStatuses
  <2>2. ASSUME NEW u, u.mem["storms"] = live, u.mem["tracks"] = tracks, NEW r, NEW q,
               u.reg["storms"] = MarkedAs(q, "LIVE_VERIFIED", NoEvidence, TRUE, n),
               u.reg["tracks"] = MarkedAs(r, status, NoEvidence, validated, n)
        PROVE  Settles(u.mem, u.reg)
    <3>1. Agrees("storms", u.mem["storms"], u.reg["storms"])
      BY <2>1, <2>2, CycloneAgrees
    <3>2. Agrees("tracks", u.mem["tracks"], u.reg["tracks"])
      <4>1. /\ status # "SAME"
            /\ \/ status = "LIVE_VERIFIED" /\ validated = TRUE
               \/ status \notin VerifiedStatuses /\ validated = FALSE
        BY <1>2, <1>3 DEF VerifiedStatuses
      <4> QED
        BY <2>2, <4>1, CycloneAgrees
    <3>3. StormsKnown(u.mem)
      BY <2>2 DEF StormsKnown, Status
    <3> QED
      BY <1>1, <3>1, <3>2, <3>3 DEF Settles
  <2> HIDE DEF live, tracks
  <2>3. ASSUME NEW u, Shaped(u), u.mem["storms"] = live, u.mem["tracks"] = tracks, NEW q,
               u.reg["storms"] = MarkedAs(q, "LIVE_VERIFIED", NoEvidence, TRUE, n)
        PROVE  Concludes(fourth, n, u)
    <3>1. ASSUME NEW w, w.mem = u.mem, w.reg["storms"] = u.reg["storms"],
                 w.reg["tracks"] = MarkedAs(u.reg["tracks"], status, NoEvidence, validated, n)
          PROVE  Settles(w.mem, w.reg)
      BY <2>2, <2>3, <3>1
    <3> QED
      BY <1>1, <1>4, <2>3, <3>1, MarkLast
  <2>4. ASSUME NEW u, Shaped(u), u.mem["storms"] = live, NEW q,
               u.reg["storms"] = MarkedAs(q, "LIVE_VERIFIED", NoEvidence, TRUE, n)
        PROVE  Concludes(third, n, u)
    <3>1. ASSUME NEW w, Shaped(w), w.reg = u.reg, w.mem["storms"] = u.mem["storms"],
                 w.mem["tracks"] = Status(status, IF status \in VerifiedStatuses THEN n
                                                  ELSE IF feed = "regions" THEN u.mem["tracks"].at ELSE 0)
          PROVE  Concludes(fourth, n, w)
      BY <2>3, <2>4, <3>1 DEF tracks
    <3> QED
      BY <1>1, <1>5, <1>7, <2>4, <3>1, RememberFirst
  <2>5. ASSUME NEW u, Shaped(u), u.mem["storms"] = live
        PROVE  Concludes(second, n, u)
    <3>1. ASSUME NEW w, Shaped(w), w.mem = u.mem,
                 w.reg["storms"] = MarkedAs(u.reg["storms"], "LIVE_VERIFIED", NoEvidence, TRUE, n)
          PROVE  Concludes(third, n, w)
      BY <2>4, <2>5, <3>1
    <3> QED
      BY <1>1, <1>6, <1>7, <2>5, <3>1, MarkFirst
  <2>6. ASSUME NEW u, Shaped(u), u.mem["storms"] = Status("LIVE_VERIFIED",
                 IF "LIVE_VERIFIED" \in VerifiedStatuses THEN n ELSE IF feed = "regions" THEN s.mem["storms"].at ELSE 0)
        PROVE  Concludes(second, n, u)
    BY <2>1, <2>5, <2>6 DEF live
  <2>7. "storms" \in Parts(feed)
    BY <1>1
  <2>8. Concludes(Remember("storms", "LIVE_VERIFIED") \o second, n, s)
    BY <1>7, <1>9, <2>6, <2>7, RememberFirst
  <2> QED
    BY <1>8, <2>8
<1> QED
  BY <1>7, <1>8, <1>9 DEF SettlesFrom

-----------------------------------------------------------------------------
(* Plans that store rows and end with their verification.                  *)
Gathering == {"save", "prune", "snapshot"}

(* Instructions that store, of the records those of ids only.              *)
Gathered(p, ids) == IsSeq(p) /\ \A k \in 1..Len(p) : p[k].op \in Gathering /\ \A id : Saves(p[k], id) => id \in ids

Gathers(p) ==
  /\ IsSeq(p) /\ p # << >> /\ p[Len(p)].op = "verify"
  /\ \A k \in 1..Len(p) : k # Len(p) => p[k].op \in Gathering

(* The plan of an answer with storms.                                      *)
StormPlan(p) ==
  LET ids == p[Len(p)].ids
  IN /\ ids \in SUBSET Ids
     /\ \E k \in 1..Len(p) : p[k].op = "snapshot"
     /\ \A k \in 1..Len(p), id \in Ids : Saves(p[k], id) => id \in ids
     /\ \A id \in ids : \E k \in 1..Len(p) : Saves(p[k], id)

LEMMA SeqsJoined ==
  ASSUME NEW p, NEW q, IsSeq(p), IsSeq(q)
  PROVE  /\ IsSeq(p \o q) /\ Len(p) \in Nat /\ Len(q) \in Nat /\ Len(p \o q) = Len(p) + Len(q)
         /\ \A k \in 1..Len(p) : k \in 1..Len(p \o q) /\ (p \o q)[k] = p[k]
         /\ \A k \in 1..Len(q) : Len(p) + k \in 1..Len(p \o q) /\ (p \o q)[Len(p) + k] = q[k]
         /\ \A k \in 1..Len(p \o q) : \/ k \in 1..Len(p) /\ (p \o q)[k] = p[k]
                                      \/ k - Len(p) \in 1..Len(q) /\ (p \o q)[k] = q[k - Len(p)]
<1>1. PICK S : p \in Seq(S)
  BY DEF IsSeq
<1>2. PICK T : q \in Seq(T)
  BY DEF IsSeq
<1>3. p \in Seq(S \cup T) /\ q \in Seq(S \cup T)
  BY <1>1, <1>2
<1>4. /\ p \o q \in Seq(S \cup T) /\ Len(p) \in Nat /\ Len(q) \in Nat
      /\ Len(p \o q) = Len(p) + Len(q)
      /\ \A k \in 1..(Len(p) + Len(q)) : (p \o q)[k] = IF k <= Len(p) THEN p[k] ELSE q[k - Len(p)]
  BY <1>3
<1>5. \A k \in 1..Len(q) : Len(p) + k \in 1..Len(p \o q) /\ (p \o q)[Len(p) + k] = q[k]
  <2> TAKE k \in 1..Len(q)
  <2>1. Len(p) + k \in 1..(Len(p) + Len(q)) /\ ~(Len(p) + k <= Len(p)) /\ (Len(p) + k) - Len(p) = k
    BY <1>4
  <2> QED
    BY <1>4, <2>1
<1> QED
  BY <1>4, <1>5 DEF IsSeq

LEMMA GatheredJoined ==
  ASSUME NEW p, NEW q, NEW ids, Gathered(p, ids), Gathered(q, ids)
  PROVE  Gathered(p \o q, ids)
  BY SeqsJoined DEF Gathered

LEMMA GathersThenVerifies ==
  ASSUME NEW p, NEW kept, Gathered(p, kept), NEW ids, NEW whole
  PROVE  Gathers(p \o Verify(ids, whole)) /\ (p \o Verify(ids, whole))[Len(p \o Verify(ids, whole))].ids = ids
<1>1. PICK i : i = [op |-> "verify", ids |-> ids, whole |-> whole]
  OBVIOUS
<1>2. PICK q : q = <<i>>
  OBVIOUS
<1>3. IsSeq(q) /\ Len(q) = 1 /\ q[1] = i
  <2>1. q \in Seq({i})
    BY <1>2
  <2> QED
    BY <1>2, <2>1 DEF IsSeq
<1>4. IsSeq(p)
  BY DEF Gathered
<1>5. PICK s : s = p \o q
  OBVIOUS
<1>6. /\ IsSeq(s) /\ Len(p) \in Nat /\ Len(s) = Len(p) + 1 /\ s[Len(p) + 1] = i
      /\ \A k \in 1..Len(p) : s[k] = p[k]
  <2>1. /\ IsSeq(s) /\ Len(p) \in Nat /\ Len(s) = Len(p) + Len(q)
        /\ \A k \in 1..Len(p) : s[k] = p[k]
        /\ \A k \in 1..Len(q) : s[Len(p) + k] = q[k]
    <3>1. /\ IsSeq(p \o q) /\ Len(p) \in Nat /\ Len(p \o q) = Len(p) + Len(q)
          /\ \A k \in 1..Len(p) : (p \o q)[k] = p[k]
          /\ \A k \in 1..Len(q) : (p \o q)[Len(p) + k] = q[k]
      <4>1. IsSeq(q)
        BY <1>3
      <4> QED
        BY <1>4, <4>1, SeqsJoined
    <3> QED
      BY <1>5, <3>1
  <2>2. 1 \in 1..Len(q)
    BY <1>3
  <2>3. s[Len(p) + 1] = i
    BY <1>3, <2>1, <2>2
  <2> QED
    BY <1>3, <2>1, <2>3
<1>7. s # << >>
  BY <1>6
<1>8. \A k \in 1..Len(s) : k # Len(s) => k \in 1..Len(p)
  BY <1>6
<1>9. Gathers(s) /\ s[Len(s)].ids = ids
  BY <1>1, <1>6, <1>7, <1>8 DEF Gathers, Gathered
<1> QED
  BY <1>1, <1>2, <1>5, <1>9 DEF Verify

LEMMA RowsGathered ==
  ASSUME NEW ids \in SUBSET Ids
  PROVE  /\ Gathered(<< >>, ids)
         /\ \A table : Gathered(SaveAll(table, ids), ids)
         /\ \A table : Gathered(SaveAll(table, {}), ids)
         /\ Gathered(SavePairs(ids), ids)
         /\ \A table, keep : Gathered(Prune(table, keep), ids)
         /\ \A kept : Gathered(Snapshot(kept), ids)
         /\ \A id \in ids : \E k \in 1..Len(SaveAll("records", ids)) : Saves(SaveAll("records", ids)[k], id)
<1>1. IsFiniteSet(ids) /\ IsFiniteSet({}) /\ Cardinality({}) = 0
  BY IdsAssumption, FS_Subset, FS_EmptySet
<1> DEFINE N == Cardinality(ids)
<1>2. /\ N \in Nat /\ SetToSeq(ids) \in [1..N -> ids]
      /\ \A x \in ids : \E i \in 1..N : SetToSeq(ids)[i] = x
  BY <1>1, SetToSeqCovers
<1>3. ASSUME NEW M \in Nat, NEW s, s = [k \in 1..M |-> s[k]],
             \A k \in 1..M : s[k].op \in Gathering /\ \A id : Saves(s[k], id) => id \in ids
      PROVE  Gathered(s, ids)
  <2>1. s \in Seq({s[k] : k \in 1..M}) /\ Len(s) = M
    BY <1>3
  <2> QED
    BY <1>3, <2>1 DEF Gathered, IsSeq
<1>4. ASSUME NEW i, i.op \in Gathering \ {"save"} PROVE Gathered(<<i>>, ids)
  <2>1. <<i>> \in Seq({i}) /\ Len(<<i>>) = 1 /\ \A k \in 1..1 : <<i>>[k] = i
    OBVIOUS
  <2> QED
    BY <1>4, <2>1 DEF Gathered, IsSeq, Saves
<1>5. ASSUME NEW table
      PROVE  /\ Gathered(SaveAll(table, ids), ids) /\ Gathered(SaveAll(table, {}), ids)
             /\ Len(SaveAll(table, ids)) = N
             /\ \A k \in 1..N : SaveAll(table, ids)[k] = [op |-> "save", table |-> table, id |-> SetToSeq(ids)[k]]
  <2>1. PICK s : s = SaveAll(table, ids)
    OBVIOUS
  <2>2. /\ s = [k \in 1..N |-> s[k]]
        /\ \A k \in 1..N : s[k] = [op |-> "save", table |-> table, id |-> SetToSeq(ids)[k]]
    BY <2>1 DEF SaveAll
  <2>3. \A k \in 1..N : s[k].op \in Gathering /\ \A id : Saves(s[k], id) => id \in ids
    BY <1>2, <2>2 DEF Gathering, Saves
  <2>4. PICK e : e = SaveAll(table, {})
    OBVIOUS
  <2>5. e = [k \in 1..0 |-> e[k]]
    BY <1>1, <2>4 DEF SaveAll
  <2>6. Gathered(e, ids)
    <3>1. \A k \in 1..0 : e[k].op \in Gathering /\ \A id : Saves(e[k], id) => id \in ids
      OBVIOUS
    <3> QED
      BY <1>3, <2>5, <3>1
  <2>7. Len(s) = N
    BY <1>2, <2>2
  <2> QED
    BY <1>2, <1>3, <2>1, <2>2, <2>3, <2>4, <2>6, <2>7
<1>6. Gathered(SavePairs(ids), ids)
  <2>1. PICK s : s = SavePairs(ids)
    OBVIOUS
  <2>2. PICK M \in Nat : M = 2 * N
    BY <1>2
  <2>3. /\ s = [k \in 1..M |-> s[k]]
        /\ \A k \in 1..M : s[k].op = "save" /\ s[k].id = SetToSeq(ids)[(k + 1) \div 2]
    BY <2>1, <2>2 DEF SavePairs
  <2>4. \A k \in 1..M : (k + 1) \div 2 \in 1..N
    BY <1>2, <2>2
  <2>5. \A k \in 1..M : s[k].op \in Gathering /\ \A id : Saves(s[k], id) => id \in ids
    BY <1>2, <2>3, <2>4 DEF Gathering, Saves
  <2> QED
    BY <1>3, <2>1, <2>3, <2>5
<1>7. \A table, keep : Gathered(Prune(table, keep), ids)
  BY <1>4 DEF Prune, Gathering
<1>8. \A kept : Gathered(Snapshot(kept), ids)
  BY <1>4 DEF Snapshot, Gathering
<1>9. Gathered(<< >>, ids)
  <2>1. << >> \in Seq({}) /\ Len(<< >>) = 0
    OBVIOUS
  <2> QED
    BY <2>1 DEF Gathered, IsSeq
<1>10. \A id \in ids : \E k \in 1..Len(SaveAll("records", ids)) : Saves(SaveAll("records", ids)[k], id)
  <2> TAKE id \in ids
  <2>1. PICK k \in 1..N : SetToSeq(ids)[k] = id
    BY <1>2
  <2>2. Saves(SaveAll("records", ids)[k], id)
    <3>1. PICK i : i = SaveAll("records", ids)[k]
      OBVIOUS
    <3>2. i = [op |-> "save", table |-> "records", id |-> id]
      BY <1>5, <2>1, <3>1
    <3> QED
      BY <3>1, <3>2 DEF Saves
  <2>3. k \in 1..Len(SaveAll("records", ids))
    BY <1>5
  <2> QED
    BY <2>2, <2>3
<1> QED
  BY <1>5, <1>6, <1>7, <1>8, <1>9, <1>10

(* The plans that are begun.                                               *)
Settling(p, n) ==
  \/ p = << >> \/ SettlesFrom(p, n)
  \/ feed \notin Imagery /\ Gathers(p) /\ (feed = "cyclone" => StormPlan(p))

LEMMA RowsSettling ==
  ASSUME feed \in Kinds \ (Imagery \cup {"cyclone"}), NEW n, NEW p, NEW kept, Gathered(p, kept), NEW ids, NEW whole
  PROVE  Settling(p \o Verify(ids, whole), n)
  BY GathersThenVerifies DEF Settling

LEMMA SavedSettling ==
  ASSUME feed \in Kinds \ (Imagery \cup {"cyclone"}), NEW n, NEW a, AnswerSound(a), a.outcome = "rows", NEW whole
  PROVE  /\ Settling(SaveAll("records", a.ids) \o Verify(a.ids, whole), n)
         /\ Settling(SavePairs(a.ids) \o Verify(a.ids, whole), n)
         /\ Settling(RegionsStored(a.ids) \o Verify(a.ids, whole), n)
<1>1. PICK ids : ids = a.ids
  OBVIOUS
<1>2. ids \in SUBSET Ids
  BY <1>1, TakenAnswers
<1>3. Gathered(SaveAll("records", ids), ids) /\ Gathered(SavePairs(ids), ids)
  BY <1>2, RowsGathered
<1>4. Gathered(RegionsStored(ids), ids)
  <2>1. Gathered(Prune("records", ids), ids) /\ Gathered(Prune("geometries", ids), ids)
    BY <1>2, RowsGathered
  <2>2. Gathered(SavePairs(ids) \o Prune("records", ids), ids)
    BY <1>3, <2>1, GatheredJoined
  <2> QED
    BY <2>1, <2>2, GatheredJoined DEF RegionsStored
<1> QED
  BY <1>1, <1>3, <1>4, RowsSettling

LEMMA StormsSettling ==
  ASSUME feed = "cyclone", NEW n, NEW ids \in SUBSET Ids, NEW geometry, NEW whole
  PROVE  Settling(StormsStored(ids, geometry) \o Verify(ids, whole), n)
<1>1. PICK records : records = SaveAll("records", ids)
  OBVIOUS
<1>2. PICK located : located = SaveAll("geometries", IF geometry THEN ids ELSE {})
  OBVIOUS
<1>3. PICK last : last = Snapshot(ids)
  OBVIOUS
<1>4. Gathered(records, ids) /\ Gathered(located, ids) /\ Gathered(last, ids)
  <2>1. Gathered(located, ids)
    <3>1. CASE geometry
      BY <1>2, <3>1, RowsGathered
    <3>2. CASE ~geometry
      BY <1>2, <3>2, RowsGathered
    <3> QED
      BY <3>1, <3>2
  <2> QED
    BY <1>1, <1>3, <2>1, RowsGathered
<1>5. PICK both : both = records \o located
  OBVIOUS
<1>6. PICK stored : stored = both \o last
  OBVIOUS
<1>7. PICK verify : verify = Verify(ids, whole)
  OBVIOUS
<1>8. PICK p : p = stored \o verify
  OBVIOUS
<1>9. Gathered(both, ids) /\ Gathered(stored, ids)
  BY <1>4, <1>5, <1>6, GatheredJoined
<1>10. Gathers(p) /\ p[Len(p)].ids = ids
  BY <1>7, <1>8, <1>9, GathersThenVerifies
<1>11. /\ IsSeq(records) /\ IsSeq(located) /\ IsSeq(both) /\ IsSeq(last) /\ IsSeq(stored) /\ IsSeq(verify)
       /\ Len(last) = 1 /\ last[1].op = "snapshot" /\ Len(verify) = 1 /\ verify[1].op = "verify"
  BY <1>3, <1>4, <1>7, <1>9, InstructionsAreSeqs DEF Gathered, Snapshot, Verify
<1>12. \A k \in 1..Len(stored) : k \in 1..Len(p) /\ p[k] = stored[k]
  BY <1>8, <1>11, SeqsJoined
<1>13. \A k \in 1..Len(records) : k \in 1..Len(stored) /\ stored[k] = records[k]
  <2>1. \A k \in 1..Len(records) : k \in 1..Len(both) /\ both[k] = records[k]
    BY <1>5, <1>11, SeqsJoined
  <2>2. \A k \in 1..Len(both) : k \in 1..Len(stored) /\ stored[k] = both[k]
    BY <1>6, <1>11, SeqsJoined
  <2> QED
    BY <2>1, <2>2
<1>14. \E k \in 1..Len(p) : p[k].op = "snapshot"
  <2>1. 1 \in 1..Len(last)
    BY <1>11
  <2>2. Len(both) + 1 \in 1..Len(stored) /\ stored[Len(both) + 1] = last[1]
    <3>1. IsSeq(both) /\ IsSeq(last)
      BY <1>11
    <3>2. \A k \in 1..Len(last) : Len(both) + k \in 1..Len(both \o last) /\ (both \o last)[Len(both) + k] = last[k]
      BY <3>1, SeqsJoined
    <3> QED
      BY <1>6, <2>1, <3>2
  <2> QED
    BY <1>11, <1>12, <2>2
<1>15. \A id \in ids : \E k \in 1..Len(p) : Saves(p[k], id)
  <2> TAKE id \in ids
  <2>1. PICK k \in 1..Len(records) : Saves(records[k], id)
    BY <1>1, RowsGathered
  <2> QED
    BY <1>12, <1>13, <2>1
<1>16. \A k \in 1..Len(p), id \in Ids : Saves(p[k], id) => id \in ids
  <2> TAKE k \in 1..Len(p), id \in Ids
  <2>1. \/ k \in 1..Len(stored) /\ p[k] = stored[k]
        \/ k - Len(stored) \in 1..Len(verify) /\ p[k] = verify[k - Len(stored)]
    <3>1. IsSeq(stored) /\ IsSeq(verify)
      BY <1>11
    <3>2. \A j \in 1..Len(stored \o verify) :
            \/ j \in 1..Len(stored) /\ (stored \o verify)[j] = stored[j]
            \/ j - Len(stored) \in 1..Len(verify) /\ (stored \o verify)[j] = verify[j - Len(stored)]
      BY <3>1, SeqsJoined
    <3> QED
      BY <1>8, <3>2
  <2>2. CASE k \in 1..Len(stored) /\ p[k] = stored[k]
    BY <1>9, <2>2 DEF Gathered
  <2>3. CASE k - Len(stored) \in 1..Len(verify) /\ p[k] = verify[k - Len(stored)]
    <3>1. k - Len(stored) = 1
      BY <1>11, <2>3
    <3> QED
      BY <1>11, <2>3, <3>1 DEF Saves
  <2> QED
    BY <2>1, <2>2, <2>3
<1>17. StormPlan(p)
  BY <1>10, <1>14, <1>15, <1>16 DEF StormPlan
<1>18. StormsStored(ids, geometry) \o Verify(ids, whole) = p
  BY <1>1, <1>2, <1>3, <1>5, <1>6, <1>7, <1>8 DEF StormsStored
<1> QED
  BY <1>10, <1>17, <1>18 DEF Settling, Imagery

LEMMA RegionsSettling ==
  ASSUME feed = "regions", NEW n, NEW a, AnswerSound(a)
  PROVE  Settling(IngestRegions(a), n)
<1>1. PICK taken : taken = RegionsTaken(a)
  OBVIOUS
<1>2. PICK evidence : evidence = Evidence("STATIC_PARTIAL", 0, 0)
  OBVIOUS
<1>3. IngestRegions(a) =
        CASE taken.outcome = "rows" -> RegionsStored(taken.ids) \o Verify(taken.ids, TRUE)
          [] taken.outcome = "refused" ->
               Remember("main", "STATIC_PARTIAL") \o Mark("main", "STATIC_PARTIAL", evidence, FALSE)
          [] OTHER -> Fails("regions")
  BY <1>1, <1>2 DEF IngestRegions
<1>4. taken.outcome = "rows" => Settling(RegionsStored(taken.ids) \o Verify(taken.ids, TRUE), n)
  <2>1. feed \in Kinds \ (Imagery \cup {"cyclone"}) /\ AnswerSound(taken)
    BY <1>1, TakenAnswers DEF Imagery, Kinds, Static, RegionsTaken
  <2> QED
    BY <2>1, SavedSettling
<1>5. SettlesFrom(Fails("regions"), n)
  BY FailsEnds DEF Kinds, Static
<1>6. SettlesFrom(Remember("main", "STATIC_PARTIAL") \o Mark("main", "STATIC_PARTIAL", evidence, FALSE), n)
  <2>1. ASSUME NEW before, NEW record
        PROVE  Agrees("main", Status("STATIC_PARTIAL", TimeOf("STATIC_PARTIAL", n, before)),
                      MarkedAs(record, "STATIC_PARTIAL", evidence, FALSE, n))
    <3>1. PICK marked : marked = MarkedAs(record, "STATIC_PARTIAL", evidence, FALSE, n)
      OBVIOUS
    <3>2. PICK state : state = Status("STATIC_PARTIAL", TimeOf("STATIC_PARTIAL", n, before))
      OBVIOUS
    <3>3. marked.fetch = "STATIC_PARTIAL"
      BY <3>1 DEF MarkedAs
    <3>4. Restored(feed, marked) = Status("STATIC_PARTIAL", 0)
      BY <3>3, RestoredKinds DEF RestoredRegions
    <3>5. Restored(feed, marked).status \notin VerifiedStatuses /\ state.status \notin VerifiedStatuses
      BY <3>2, <3>4 DEF Status, VerifiedStatuses
    <3>6. \A some : Listed(feed, some) = some.status
      BY ListedKinds DEF Bundles, Weather, Imagery
    <3> QED
      BY <3>1, <3>2, <3>5, <3>6, UnverifiedAgrees
  <2> QED
    BY <2>1, OneMarkEnds
<1> QED
  BY <1>3, <1>4, <1>5, <1>6 DEF Settling

LEMMA EndpointSettles ==
  ASSUME NEW n, n # 0, NEW a, feed \in Kinds, AnswerSound(a)
  PROVE  Settling(Endpoint(feed, a), n)
<1>1. Settling(<< >>, n) /\ (feed # "firms" => Settling(Fails(feed), n))
  BY FailsEnds DEF Settling
<1>2. CASE feed \in Observed
  <2>1. PICK taken : taken = AllOrNothing(a)
    OBVIOUS
  <2>2. Endpoint(feed, a) = IF taken.outcome = "rows" THEN SaveAll("records", taken.ids) \o Verify(taken.ids, TRUE)
                            ELSE Fails(feed)
    BY <1>2, <2>1 DEF Endpoint, Observed, IngestEarthquakes, IngestVessels, IngestAircraft,
                EarthquakesTaken, VesselsTaken, AircraftTaken, Observes
  <2>3. AnswerSound(taken) /\ feed \in Kinds \ (Imagery \cup {"cyclone"}) /\ feed # "firms"
    BY <1>2, <2>1, TakenAnswers DEF Observed, Imagery
  <2> QED
    BY <1>1, <2>2, <2>3, SavedSettling
<1>3. CASE feed = "firms"
  <2>1. Endpoint(feed, a) = IF a.outcome = "rows" THEN SaveAll("records", a.ids) \o Verify(a.ids, TRUE) ELSE << >>
    BY <1>3 DEF Endpoint, IngestFires, FiresTaken
  <2>2. feed \in Kinds \ (Imagery \cup {"cyclone"})
    BY <1>3 DEF Imagery
  <2> QED
    BY <1>1, <2>1, <2>2, SavedSettling
<1>4. CASE feed = "tomtom"
  <2>1. Endpoint(feed, a) =
          CASE a.outcome = "rows" -> SaveAll("records", a.ids) \o Verify(a.ids, TRUE)
            [] a.outcome = "down" -> Fails(feed)
            [] OTHER -> << >>
    BY <1>4 DEF Endpoint, IngestTraffic, SegmentsTaken
  <2>2. feed \in Kinds \ (Imagery \cup {"cyclone"}) /\ feed # "firms"
    BY <1>4 DEF Imagery
  <2>3. a.outcome = "rows" => Settling(SaveAll("records", a.ids) \o Verify(a.ids, TRUE), n)
    BY <2>2, SavedSettling
  <2> QED
    BY <1>1, <2>1, <2>2, <2>3
<1>5. CASE feed \in Weather
  <2>1. PICK taken : taken = WeatherTaken(a)
    OBVIOUS
  <2>2. PICK failures : Endpoint(feed, a) = IngestWeather(feed, a, failures)
    BY <1>5 DEF Endpoint, Weather, IngestWind, IngestOpenMeteo
  <2>3. IngestWeather(feed, a, failures) =
          CASE taken.outcome = "rows" -> SaveAll("records", taken.ids) \o Verify(taken.ids, TRUE)
            [] taken.outcome \in failures -> Fails(feed)
            [] OTHER -> << >>
    BY <2>1 DEF IngestWeather
  <2>4. feed \in Kinds \ (Imagery \cup {"cyclone"}) /\ feed # "firms" /\ AnswerSound(taken)
    BY <1>5, <2>1, TakenAnswers DEF Imagery, Weather, WeatherTaken
  <2>5. taken.outcome = "rows" => Settling(SaveAll("records", taken.ids) \o Verify(taken.ids, TRUE), n)
    BY <2>4, SavedSettling
  <2> QED
    BY <1>1, <2>2, <2>3, <2>4, <2>5
<1>6. CASE feed \in Imagery
  <2>1. Endpoint(feed, a) = RequestImagery(feed, a)
    BY <1>6 DEF Endpoint, Imagery, RequestRadar, RequestSatellite
  <2> QED
    BY <1>6, <2>1, ImageryEnds DEF Settling
<1>7. CASE feed \in Tiled
  <2>1. Endpoint(feed, a) = IF a.outcome = "rows" THEN Verify({}, TRUE) ELSE Fails(feed)
    BY <1>7 DEF Endpoint, Tiled, VerifyPhotoreal, VerifyImagery, VerifyTerrain, VerifyVector, VerifyTiles
  <2>2. feed \in Kinds \ (Imagery \cup {"cyclone"}) /\ feed # "firms"
    BY <1>7 DEF Tiled, Imagery
  <2>3. Settling(<< >> \o Verify({}, TRUE), n)
    BY <2>2, RowsSettling, RowsGathered
  <2>4. << >> \o Verify({}, TRUE) = Verify({}, TRUE)
    BY InstructionsAreSeqs, Associative
  <2> QED
    BY <1>1, <2>1, <2>2, <2>3, <2>4
<1>8. CASE feed = "cyclone"
  <2>1. PICK taken : taken = StormsTaken(a)
    OBVIOUS
  <2>2. Endpoint(feed, a) =
          CASE taken.outcome = "rows" -> StormsStored(taken.ids, taken.whole) \o Verify(taken.ids, taken.whole)
            [] taken.outcome = "refused" -> << >>
            [] OTHER -> Fails(feed)
    BY <1>8, <2>1 DEF Endpoint, IngestCyclones
  <2>3. taken.outcome = "rows" => Settling(StormsStored(taken.ids, taken.whole) \o Verify(taken.ids, taken.whole), n)
    BY <1>8, <2>1, TakenAnswers, StormsSettling DEF StormsTaken
  <2> QED
    BY <1>1, <1>8, <2>2, <2>3
<1>9. CASE feed = "regions"
  <2>1. Endpoint(feed, a) = IngestRegions(a)
    BY <1>9 DEF Endpoint
  <2> QED
    BY <1>9, <2>1, RegionsSettling
<1>10. CASE feed \in Bundles
  <2>1. PICK taken : taken = DamsTaken(a)
    OBVIOUS
  <2>2. Endpoint(feed, a) =
          CASE taken.outcome = "rows" -> SavePairs(taken.ids) \o Verify(taken.ids, taken.whole)
            [] taken.outcome = "down" -> Fails(feed)
            [] OTHER -> << >>
    BY <1>10, <2>1 DEF Endpoint, Bundles, IngestDams, IngestEvent, EventTaken, IngestBundle
  <2>3. feed \in Kinds \ (Imagery \cup {"cyclone"}) /\ feed # "firms" /\ AnswerSound(taken)
    BY <1>10, <2>1, TakenAnswers DEF Imagery, Bundles
  <2>4. taken.outcome = "rows" => Settling(SavePairs(taken.ids) \o Verify(taken.ids, taken.whole), n)
    BY <2>3, SavedSettling
  <2> QED
    BY <1>1, <2>2, <2>3, <2>4
<1> QED
  BY <1>2, <1>3, <1>4, <1>5, <1>6, <1>7, <1>8, <1>9, <1>10 DEF Kinds, Static
-----------------------------------------------------------------------------
(* A storm's rows carry the time of their request, which no other has.     *)
Dated ==
  feed = "cyclone" =>
    /\ \A t \in FThreads : Busy(t) => jobs[t].at \in 0..requests
    /\ \A v \in verified : v.at \in 0..requests
    /\ \A id \in Ids : rows[<<"records", id>>] \in 0..requests

(* The storms of the request of time n, stored or still to be stored.      *)
Storing(p, n) ==
  LET ids == p[Len(p)].ids
  IN /\ ids \in SUBSET Ids
     /\ \A v \in verified : v.at # n
     /\ snapshot.at = n \/ \E k \in 1..Len(p) : p[k].op = "snapshot"
     /\ \A id \in ids : rows[<<"records", id>>] = n \/ \E k \in 1..Len(p) : Saves(p[k], id)
     /\ \A id \in Ids : rows[<<"records", id>>] = n => id \in ids
     /\ \A k \in 1..Len(p), id \in Ids : Saves(p[k], id) => id \in ids

(* A request stores its rows, and then what follows from them settles.     *)
Phase(p, n, s) ==
  \/ feed \notin Imagery /\ Gathers(p) /\ (feed = "cyclone" => Storing(p, n))
  \/ Concludes(p, n, s)

Sole ==
  /\ (\A t \in FThreads : ~Busy(t)) => Settles(memory, registry)
  /\ \A t \in FThreads : Busy(t) =>
       /\ \A u \in FThreads : Busy(u) => u = t
       /\ Phase(jobs[t].todo, jobs[t].at, View(t))

AloneInv == Dated /\ (alone => Sole)

LEMMA NothingLeft ==
  ASSUME NEW n, NEW s, Phase(<< >>, n, s)
  PROVE  Settles(s.mem, s.reg)
<1>1. Concludes(<< >>, n, s)
  BY DEF Phase, Gathers
<1>2. \A q : ~Follows(<< >>, s, q, n)
  BY DEF Follows
<1> QED
  BY <1>1, <1>2, GoingOn

LEMMA NothingLeftNext ==
  (\A n, s : Phase(<< >>, n, s) => Settles(s.mem, s.reg))'
<1>1. \A n, s : Phase(<< >>, n, s) => Settles(s.mem, s.reg)
  BY NothingLeft
<1> QED
  BY <1>1, PTL

(* The only request that is left, and what it is to do next.               *)
LEMMA OnlyJob ==
  ASSUME jobs = [u \in FThreads |-> jobs[u]], NEW t \in FThreads, \A u \in FThreads : Busy(u) => u = t,
         NEW job, jobs' = [jobs EXCEPT ![t] = job], NEW q, q = job.todo,
         NEW s, s.mem = memory', s.reg = registry',
         q # << >> => s = [mem |-> memory', reg |-> registry', held |-> job.held],
         NEW n, q # << >> => job.at = n, Phase(q, n, s)'
  PROVE  Sole'
<1>1. jobs' = [u \in FThreads |-> IF u = t THEN job ELSE jobs[u]]
  OBVIOUS
<1>2. ASSUME NEW u \in FThreads PROVE u # t => jobs'[u].todo = << >>
  BY <1>1 DEF Busy
<1>3. jobs'[t] = job
  BY <1>1
<1>4. \A u \in FThreads : Busy(u)' => u = t /\ q # << >>
  BY <1>2, <1>3 DEF Busy
<1>5. CASE q = << >>
  <2>1. Settles(s.mem, s.reg)'
    BY <1>5, NothingLeftNext
  <2>2. PICK mem, reg : mem = memory' /\ reg = registry'
    OBVIOUS
  <2>3. Settles(mem, reg)'
    BY <2>1, <2>2
  <2>4. Settles(memory, registry)'
    BY <2>2, <2>3
  <2> QED
    BY <1>4, <1>5, <2>4 DEF Sole
<1>6. CASE q # << >>
  <2>1. Busy(t)'
    BY <1>3, <1>6 DEF Busy
  <2>2. PICK todo, at, view : todo = jobs'[t].todo /\ at = jobs'[t].at /\ view = View(t)'
    OBVIOUS
  <2>3. todo = q /\ at = n /\ view = s
    BY <1>3, <1>6, <2>2 DEF View
  <2>4. Phase(todo, at, view)'
    BY <2>3
  <2>5. Phase(jobs[t].todo, jobs[t].at, View(t))'
    BY <2>2, <2>4
  <2> QED
    BY <1>4, <2>1, <2>5 DEF Sole
<1> QED
  BY <1>5, <1>6

LEMMA GoesJob ==
  ASSUME NEW t \in FThreads, NEW plan, Goes(t, plan)
  PROVE  \E job : /\ jobs' = [jobs EXCEPT ![t] = job] /\ job.todo = plan
                  /\ plan # << >> => job.at = jobs[t].at /\ job.held = Unread
<1> DEFINE job == IF plan = << >> THEN NoJob ELSE [todo |-> plan, at |-> jobs[t].at, held |-> Unread]
<1>1. jobs' = [jobs EXCEPT ![t] = job]
  BY DEF Goes
<1>2. job.todo = plan /\ (plan # << >> => job.at = jobs[t].at /\ job.held = Unread)
  BY DEF NoJob
<1> HIDE DEF job
<1> QED
  BY <1>1, <1>2

LEMMA Tailed ==
  ASSUME NEW p, Gathers(p), p[1].op # "verify"
  PROVE  /\ Gathers(Tail(p)) /\ Tail(p)[Len(Tail(p))] = p[Len(p)]
         /\ \A k \in 1..Len(Tail(p)) : k + 1 \in 1..Len(p) /\ Tail(p)[k] = p[k + 1]
         /\ \A k \in 1..Len(p) : k = 1 \/ (k - 1 \in 1..Len(Tail(p)) /\ Tail(p)[k - 1] = p[k])
<1>1. PICK S : p \in Seq(S)
  BY DEF Gathers, IsSeq
<1>2. p # << >> /\ p[Len(p)].op = "verify" /\ \A k \in 1..Len(p) : k # Len(p) => p[k].op \in Gathering
  BY DEF Gathers
<1>3. PICK q : q = Tail(p)
  OBVIOUS
<1>4. q \in Seq(S) /\ Len(p) \in Nat \ {0} /\ Len(q) = Len(p) - 1 /\ \A k \in 1..Len(q) : q[k] = p[k + 1]
  BY <1>1, <1>2, <1>3
<1>5. Len(p) # 1
  BY <1>2
<1>6. Len(q) \in 1..Len(q) /\ q[Len(q)] = p[Len(p)] /\ q # << >>
  <2>1. Len(q) \in 1..Len(q) /\ Len(q) + 1 = Len(p) /\ Len(q) # 0
    BY <1>4, <1>5
  <2>2. q[Len(q)] = p[Len(q) + 1]
    BY <1>4, <2>1
  <2>3. q # << >>
    BY <2>1
  <2> QED
    BY <2>1, <2>2, <2>3
<1>7. \A k \in 1..Len(q) : k + 1 \in 1..Len(p) /\ (k # Len(q) => k + 1 # Len(p))
  BY <1>4
<1>8. Gathers(q)
  BY <1>2, <1>4, <1>6, <1>7 DEF Gathers, IsSeq
<1>9. \A k \in 1..Len(p) : k = 1 \/ (k - 1 \in 1..Len(q) /\ q[k - 1] = p[k])
  <2> TAKE k \in 1..Len(p)
  <2>1. k = 1 \/ k - 1 \in 1..Len(q)
    BY <1>4
  <2>2. (k - 1) + 1 = k
    BY <1>4
  <2> QED
    BY <1>4, <2>1, <2>2
<1> QED
  BY <1>3, <1>4, <1>6, <1>7, <1>8, <1>9

(* What a request that runs alone is at.                                   *)
LEMMA AtPhase ==
  ASSUME FeedInv, Sole, NEW t \in FThreads, Busy(t), NEW p, p = jobs[t].todo, NEW n, n = jobs[t].at,
         NEW s, s = View(t)
  PROVE  /\ \A u \in FThreads : Busy(u) => u = t
         /\ p[1] = Now(t) /\ Tail(p) = Rest(t) /\ p # << >> /\ n \in Nat \ {0} /\ Shaped(s)
         /\ jobs = [u \in FThreads |-> jobs[u]]
         /\ \/ feed \notin Imagery /\ Gathers(p) /\ (feed = "cyclone" => Storing(p, n))
            \/ \E q : Follows(p, s, q, n) /\ Concludes(q, n, Turned(p[1], n, s))
<1>1. p[1] = Now(t) /\ Tail(p) = Rest(t) /\ p # << >> /\ n \in Nat \ {0}
  BY AtHead DEF Rest, Busy
<1>2. jobs = [u \in FThreads |-> jobs[u]] /\ Shaped(s)
  BY DEF FeedInv, FeedType, Shaped, View
<1>3. (\A u \in FThreads : Busy(u) => u = t) /\ Phase(p, n, s)
  BY DEF Sole
<1> QED
  BY <1>1, <1>2, <1>3, GoingOn DEF Phase

LEMMA StillGathering ==
  ASSUME FeedInv, Sole, NEW t \in FThreads, Busy(t), NEW p, p = jobs[t].todo, NEW n, n = jobs[t].at,
         Now(t).op \in Gathering
  PROVE  feed \notin Imagery /\ Gathers(p) /\ p[1].op # "verify" /\ (feed = "cyclone" => Storing(p, n))
<1>1. PICK s : s = View(t)
  OBVIOUS
<1>2. p[1] = Now(t)
  BY <1>1, AtPhase
<1>3. \A q : ~Follows(p, s, q, n)
  BY <1>2 DEF Follows, Gathering, Plain
<1>4. p[1].op # "verify"
  BY <1>2 DEF Gathering
<1> QED
  BY <1>1, <1>3, <1>4, AtPhase

LEMMA Concluding ==
  ASSUME FeedInv, Sole, NEW t \in FThreads, Busy(t), NEW p, p = jobs[t].todo, NEW n, n = jobs[t].at,
         NEW s, s = View(t), Now(t).op \notin Gathering \cup {"verify"}
  PROVE  \E q : Follows(p, s, q, n) /\ Concludes(q, n, Turned(p[1], n, s))
<1>1. p[1] = Now(t) /\ p # << >>
  BY AtPhase
<1>2. ~Gathers(p)
  <2> SUFFICES ASSUME Gathers(p) PROVE FALSE
    OBVIOUS
  <2>1. PICK S : p \in Seq(S)
    BY DEF Gathers, IsSeq
  <2>2. 1 \in 1..Len(p)
    BY <1>1, <2>1
  <2>3. p[1].op \in Gathering \cup {"verify"}
    BY <2>2 DEF Gathers
  <2> QED
    BY <1>1, <2>3
<1> QED
  BY <1>2, AtPhase

(* The request goes on as its plan says.                                   *)
RowsStay == UNCHANGED <<feed, rows>> /\ (feed = "cyclone" => UNCHANGED <<snapshot, verified>>)

JobIs(t, job) == jobs' = [jobs EXCEPT ![t] = job]

LEMMA Onward ==
  ASSUME FeedInv, Sole, NEW t \in FThreads, Busy(t), NEW p, p = jobs[t].todo, NEW n, n = jobs[t].at,
         NEW s, s = View(t), RowsStay,
         NEW q, NEW u, u = Turned(p[1], n, s), Concludes(q, n, u),
         memory' = u.mem, registry' = u.reg,
         NEW job, JobIs(t, job), job.todo = q,
         q # << >> => job.at = n /\ job.held = u.held
  PROVE  Sole'
<1>1. Concludes(q, n, u)'
  BY ConcludesStays DEF RowsStay
<1>2. Phase(q, n, u)'
  BY <1>1 DEF Phase
<1>3. u = [mem |-> memory', reg |-> registry', held |-> u.held]
  BY DEF Turned
<1>4. \A v \in FThreads : Busy(v) => v = t
  BY AtPhase
<1>5. jobs = [v \in FThreads |-> jobs[v]]
  BY AtPhase
<1> QED
  BY <1>2, <1>3, <1>4, <1>5, OnlyJob DEF JobIs

LEMMA OnwardGoes ==
  ASSUME FeedInv, Sole, NEW t \in FThreads, Busy(t), NEW p, p = jobs[t].todo, NEW n, n = jobs[t].at,
         NEW s, s = View(t), RowsStay,
         NEW q, Concludes(q, n, Turned(p[1], n, s)), Goes(t, q), Now(t).op # "load",
         memory' = Turned(p[1], n, s).mem, registry' = Turned(p[1], n, s).reg
  PROVE  Sole'
<1>1. PICK u : u = Turned(p[1], n, s)
  OBVIOUS
<1>2. u.held = Unread
  BY <1>1, AtPhase DEF Turned
<1>3. PICK job : JobIs(t, job) /\ job.todo = q /\ (q # << >> => job.at = jobs[t].at /\ job.held = Unread)
  BY GoesJob DEF JobIs
<1>4. q # << >> => job.at = n /\ job.held = u.held
  BY <1>2, <1>3
<1>5. Concludes(q, n, u) /\ memory' = u.mem /\ registry' = u.reg
  BY <1>1
<1> QED
  BY <1>1, <1>3, <1>4, <1>5, Onward

LEMMA LoadAlone ==
  ASSUME FeedInv, Sole, NEW t \in FThreads, LoadSource(t)
  PROVE  Sole'
<1>1. PICK p, n, s : p = jobs[t].todo /\ n = jobs[t].at /\ s = View(t)
  OBVIOUS
<1>2. Busy(t) /\ Now(t).op = "load" /\ UNCHANGED <<feed, registry, memory, rows, snapshot, verified>>
  BY DEF LoadSource, Doing, Now
<1>3. p[1] = Now(t) /\ Tail(p) = Rest(t)
  BY <1>1, <1>2, AtPhase
<1>4. PICK q : Follows(p, s, q, n) /\ Concludes(q, n, Turned(p[1], n, s))
  BY <1>1, <1>2, Concluding DEF Gathering
<1>5. q = Rest(t)
  BY <1>2, <1>3, <1>4 DEF Follows, Plain
<1>6. PICK u : u = Turned(p[1], n, s)
  OBVIOUS
<1>7. u.mem = memory /\ u.reg = registry /\ u.held = registry[Now(t).part]
  BY <1>1, <1>2, <1>3, <1>6 DEF Turned, View
<1> DEFINE new == [todo |-> Rest(t), at |-> jobs[t].at, held |-> registry[Now(t).part]]
<1>8. jobs' = [jobs EXCEPT ![t] = new]
  BY DEF LoadSource
<1>9. new.todo = q /\ new.at = n /\ new.held = u.held
  BY <1>1, <1>5, <1>7
<1>10. PICK job : job = new
  OBVIOUS
<1>11. JobIs(t, job) /\ job.todo = q /\ job.at = n /\ job.held = u.held
  BY <1>8, <1>9, <1>10 DEF JobIs
<1>12. memory' = u.mem /\ registry' = u.reg /\ Concludes(q, n, u)
  BY <1>2, <1>4, <1>6, <1>7
<1>13. RowsStay
  BY <1>2 DEF RowsStay
<1> QED
  BY <1>1, <1>2, <1>6, <1>11, <1>12, <1>13, Onward

LEMMA StoreAlone ==
  ASSUME FeedInv, Sole, NEW t \in FThreads, StoreSource(t)
  PROVE  Sole'
<1>1. PICK p, n, s : p = jobs[t].todo /\ n = jobs[t].at /\ s = View(t)
  OBVIOUS
<1>2. Busy(t) /\ Now(t).op = "store" /\ Goes(t, Rest(t)) /\ UNCHANGED <<feed, memory, rows, snapshot, verified>>
  BY DEF StoreSource, Doing, Now
<1>3. p[1] = Now(t) /\ Tail(p) = Rest(t)
  BY <1>1, <1>2, AtPhase
<1>4. PICK q : Follows(p, s, q, n) /\ Concludes(q, n, Turned(p[1], n, s))
  BY <1>1, <1>2, Concluding DEF Gathering
<1>5. q = Rest(t)
  BY <1>2, <1>3, <1>4 DEF Follows, Plain
<1>6. registry' = [registry EXCEPT ![Now(t).part] = Marked(jobs[t].held, Now(t), jobs[t].at)]
  BY DEF StoreSource
<1>7. memory' = Turned(p[1], n, s).mem /\ registry' = Turned(p[1], n, s).reg
  BY <1>1, <1>2, <1>3, <1>6 DEF Turned, View
<1>8. Now(t).op # "load" /\ Goes(t, q)
  BY <1>2, <1>5
<1>9. RowsStay
  BY <1>2 DEF RowsStay
<1> QED
  BY <1>1, <1>2, <1>4, <1>7, <1>8, <1>9, OnwardGoes

LEMMA ListingAlone ==
  ASSUME FeedInv, Sole, NEW t \in FThreads, RememberStatus(t) \/ DowngradeStatus(t) \/ ListManifest(t)
  PROVE  Sole'
<1>1. PICK p, n, s : p = jobs[t].todo /\ n = jobs[t].at /\ s = View(t)
  OBVIOUS
<1>2. /\ Busy(t) /\ Now(t).op \in {"remember", "downgrade", "list"} /\ Goes(t, Rest(t))
      /\ UNCHANGED <<feed, registry, rows, snapshot, verified>>
  BY DEF RememberStatus, DowngradeStatus, ListManifest, Doing, Now
<1>3. p[1] = Now(t) /\ Tail(p) = Rest(t)
  BY <1>1, <1>2, AtPhase
<1>4. PICK q : Follows(p, s, q, n) /\ Concludes(q, n, Turned(p[1], n, s))
  BY <1>1, <1>2, Concluding DEF Gathering
<1>5. q = Rest(t)
  BY <1>2, <1>3, <1>4 DEF Follows, Plain
<1>6. memory' = Turned(p[1], n, s).mem
  <2>1. CASE RememberStatus(t)
    <3>1. Now(t).op = "remember"
      BY <2>1 DEF RememberStatus, Doing, Now
    <3>2. memory' = [memory EXCEPT ![Now(t).part] =
                       Status(Now(t).status,
                              IF Now(t).status \in VerifiedStatuses THEN jobs[t].at
                              ELSE IF feed = "regions" THEN memory[Now(t).part].at ELSE 0)]
      BY <2>1 DEF RememberStatus
    <3> QED
      BY <1>1, <1>3, <3>1, <3>2 DEF Turned, View
  <2>2. CASE DowngradeStatus(t)
    <3>1. Now(t).op = "downgrade"
      BY <2>2 DEF DowngradeStatus, Doing, Now
    <3>2. memory' = [memory EXCEPT ![Now(t).part] = Status("UNAVAILABLE", memory[Now(t).part].at)]
      BY <2>2 DEF DowngradeStatus
    <3> QED
      BY <1>1, <1>3, <3>1, <3>2 DEF Turned, View
  <2>3. CASE ListManifest(t)
    <3>1. Now(t).op = "list"
      BY <2>3 DEF ListManifest, Doing, Now
    <3>2. memory' = [memory EXCEPT !["main"] = Status(Now(t).status, memory["main"].at)]
      BY <2>3 DEF ListManifest
    <3> QED
      BY <1>1, <1>3, <3>1, <3>2 DEF Turned, View
  <2> QED
    BY <2>1, <2>2, <2>3
<1>7. registry' = Turned(p[1], n, s).reg
  BY <1>1, <1>2, <1>3 DEF Turned, View
<1>8. Now(t).op # "load" /\ Goes(t, q)
  BY <1>2, <1>5
<1>9. RowsStay
  BY <1>2 DEF RowsStay
<1> QED
  BY <1>1, <1>2, <1>4, <1>6, <1>7, <1>8, <1>9, OnwardGoes

LEMMA SkipAlone ==
  ASSUME FeedInv, Sole, NEW t \in FThreads, SkipIfUnavailable(t), alone'
  PROVE  Sole'
<1>1. PICK p, n, s : p = jobs[t].todo /\ n = jobs[t].at /\ s = View(t)
  OBVIOUS
<1>2. /\ Busy(t) /\ Now(t).op = "unless" /\ Goes(t, Rest(t))
      /\ UNCHANGED <<feed, registry, memory, rows, snapshot, verified>>
  BY DEF SkipIfUnavailable, Doing, Now
<1>3. p[1] = Now(t) /\ Tail(p) = Rest(t)
  BY <1>1, <1>2, AtPhase
<1>4. PICK q : Follows(p, s, q, n) /\ Concludes(q, n, Turned(p[1], n, s))
  BY <1>1, <1>2, Concluding DEF Gathering
<1>5. q = Rest(t)
  BY <1>2, <1>3, <1>4 DEF Follows, Plain
<1>6. memory' = Turned(p[1], n, s).mem /\ registry' = Turned(p[1], n, s).reg
  BY <1>1, <1>2, <1>3 DEF Turned, View
<1>7. Now(t).op # "load" /\ Goes(t, q)
  BY <1>2, <1>5
<1>8. RowsStay
  BY <1>2 DEF RowsStay
<1> QED
  BY <1>1, <1>2, <1>4, <1>6, <1>7, <1>8, OnwardGoes

LEMMA ManifestAlone ==
  ASSUME FeedInv, Sole, NEW t \in FThreads, StoreManifest(t)
  PROVE  Sole'
<1>1. PICK p, n, s : p = jobs[t].todo /\ n = jobs[t].at /\ s = View(t)
  OBVIOUS
<1>2. /\ Busy(t) /\ Now(t).op = "manifest"
      /\ UNCHANGED <<feed, registry, memory, rows, snapshot, verified>>
  BY DEF StoreManifest, Doing, Now
<1>3. p[1] = Now(t) /\ Tail(p) = Rest(t)
  BY <1>1, <1>2, AtPhase
<1>4. PICK q : Follows(p, s, q, n) /\ Concludes(q, n, Turned(p[1], n, s))
  BY <1>1, <1>2, Concluding DEF Gathering
<1>5. q = ManifestPlan(memory, n) \o Rest(t)
  BY <1>1, <1>2, <1>3, <1>4 DEF Follows, Plain, View
<1>6. Goes(t, ManifestPlan(memory, n) \o Rest(t))
  BY <1>1 DEF StoreManifest, ManifestPlan
<1>7. memory' = Turned(p[1], n, s).mem /\ registry' = Turned(p[1], n, s).reg
  BY <1>1, <1>2, <1>3 DEF Turned, View
<1>8. Now(t).op # "load" /\ Goes(t, q)
  BY <1>2, <1>5, <1>6
<1>9. RowsStay
  BY <1>2 DEF RowsStay
<1> QED
  BY <1>1, <1>2, <1>4, <1>7, <1>8, <1>9, OnwardGoes

LEMMA CompareAlone ==
  ASSUME FeedInv, Sole, NEW t \in FThreads, CompareEvidence(t)
  PROVE  Sole'
<1>1. PICK p, n, s : p = jobs[t].todo /\ n = jobs[t].at /\ s = View(t)
  OBVIOUS
<1>2. /\ Busy(t) /\ Now(t).op = "compare"
      /\ UNCHANGED <<feed, registry, memory, rows, snapshot, verified>>
  BY DEF CompareEvidence, Doing, Now
<1>3. p[1] = Now(t) /\ Tail(p) = Rest(t)
  BY <1>1, <1>2, AtPhase
<1>4. PICK q : Follows(p, s, q, n) /\ Concludes(q, n, Turned(p[1], n, s))
  BY <1>1, <1>2, Concluding DEF Gathering
<1>5. registry["main"].evidence = Now(t).evidence /\ q = Now(t).good
  BY <1>1, <1>2, <1>3, <1>4 DEF Follows, Plain, View
<1>6. Goes(t, Now(t).good)
  BY <1>5 DEF CompareEvidence
<1>7. memory' = Turned(p[1], n, s).mem /\ registry' = Turned(p[1], n, s).reg
  BY <1>1, <1>2, <1>3 DEF Turned, View
<1>8. Now(t).op # "load" /\ Goes(t, q)
  BY <1>2, <1>5, <1>6
<1>9. RowsStay
  BY <1>2 DEF RowsStay
<1> QED
  BY <1>1, <1>2, <1>4, <1>7, <1>8, <1>9, OnwardGoes

(* A plan that settles from wherever it begins.                            *)
LEMMA SettlesFromStays ==
  ASSUME RowsStay, NEW q, NEW n, SettlesFrom(q, n)
  PROVE  SettlesFrom(q, n)'
<1>1. \A s : Shaped(s)' <=> Shaped(s)
  BY DEF RowsStay, Shaped, Parts
<1>2. ASSUME NEW s, Shaped(s)' PROVE Concludes(q, n, s)'
  <2>1. Concludes(q, n, s)
    BY <1>1, <1>2 DEF SettlesFrom
  <2> QED
    BY <2>1, ConcludesStays DEF RowsStay
<1> QED
  BY <1>2 DEF SettlesFrom

LEMMA SettlingGoes ==
  ASSUME FeedInv, Sole, NEW t \in FThreads, Busy(t), UNCHANGED <<feed, registry, memory>>,
         NEW n, n = jobs[t].at, NEW q, SettlesFrom(q, n)', Goes(t, q)
  PROVE  Sole'
<1>1. PICK s : s = [mem |-> memory, reg |-> registry, held |-> Unread]
  OBVIOUS
<1>2. PICK job : /\ jobs' = [jobs EXCEPT ![t] = job] /\ job.todo = q
                 /\ q # << >> => job.at = jobs[t].at /\ job.held = Unread
  BY GoesJob
<1>3. Shaped(s)'
  BY <1>1 DEF FeedInv, FeedType, Shaped, Parts
<1>4. Phase(q, n, s)'
  BY <1>3 DEF SettlesFrom, Phase
<1>5. /\ q # << >> => job.at = n /\ s = [mem |-> memory', reg |-> registry', held |-> job.held]
      /\ s.mem = memory' /\ s.reg = registry'
  BY <1>1, <1>2
<1>6. jobs = [u \in FThreads |-> jobs[u]] /\ \A u \in FThreads : Busy(u) => u = t
  BY AtPhase
<1> QED
  BY <1>2, <1>4, <1>5, <1>6, OnlyJob

LEMMA CyclonesEndNext ==
  (\A n, ids, geometry : feed = "cyclone" /\ (\A v \in verified : v.at = n => ListedStorms = v.ids) =>
     SettlesFrom(CyclonesVerified(ids, geometry), n))'
<1>1. \A n, ids, geometry : feed = "cyclone" /\ (\A v \in verified : v.at = n => ListedStorms = v.ids) =>
        SettlesFrom(CyclonesVerified(ids, geometry), n)
  BY CyclonesEnd
<1> QED
  BY <1>1, PTL

(* At the read-back the rows are all stored, and the snapshot is of them.  *)
LEMMA StormsVerified ==
  ASSUME FeedInv, Sole, feed = "cyclone", NEW t \in FThreads, VerifyRows(t)
  PROVE  Sole'
<1>1. PICK p, n, ids, whole : p = jobs[t].todo /\ n = jobs[t].at /\ ids = Now(t).ids /\ whole = Now(t).whole
  OBVIOUS
<1>2. /\ Busy(t) /\ Now(t).op = "verify"
      /\ UNCHANGED <<feed, registry, memory, rows, snapshot>>
  BY DEF VerifyRows, Doing, Now
<1>3. p[1] = Now(t) /\ p # << >> /\ n \in Nat \ {0} /\ Gathers(p) /\ Storing(p, n)
  <2>1. PICK s : s = View(t)
    OBVIOUS
  <2>2. p[1] = Now(t) /\ p # << >> /\ n \in Nat \ {0}
    BY <1>1, <1>2, <2>1, AtPhase
  <2>3. \A q : ~Follows(p, s, q, n)
    BY <1>2, <2>2 DEF Follows, Plain, Imagery
  <2> QED
    BY <1>1, <1>2, <2>1, <2>2, <2>3, AtPhase
<1>4. Len(p) = 1
  <2>1. PICK S : p \in Seq(S)
    BY <1>3 DEF Gathers, IsSeq
  <2>2. 1 \in 1..Len(p)
    BY <1>3, <2>1
  <2>3. 1 # Len(p) => p[1].op \in Gathering
    BY <1>3, <2>2 DEF Gathers
  <2> QED
    BY <1>2, <1>3, <2>3 DEF Gathering
<1>5. \A k \in 1..Len(p) : k = 1
  BY <1>4
<1>6. /\ ids \in SUBSET Ids /\ (\A v \in verified : v.at # n) /\ snapshot.at = n
      /\ \A id \in ids : rows[<<"records", id>>] = n
      /\ \A id \in Ids : rows[<<"records", id>>] = n => id \in ids
  <2>1. p[Len(p)].ids = ids
    BY <1>1, <1>3, <1>4
  <2>2. \A k \in 1..Len(p) : p[k].op # "snapshot" /\ \A id : ~Saves(p[k], id)
    BY <1>2, <1>3, <1>5 DEF Saves
  <2> QED
    BY <1>3, <2>1, <2>2 DEF Storing
<1>7. RowsFound(ids)
  BY <1>3, <1>6 DEF RowsFound, Static, Bundles
<1>8. PICK plan : plan = CyclonesVerified(ids, whole)
  OBVIOUS
<1>9. Goes(t, plan) /\ \A v \in verified' : v \in verified \/ v.ids = ids
  BY <1>1, <1>7, <1>8 DEF VerifyRows, Verified, Observed, Tiled, Bundles, Imagery
<1>10. ListedStorms' = ids
  BY <1>2, <1>6 DEF ListedStorms
<1>11. (\A v \in verified : v.at = n => ListedStorms = v.ids)'
  BY <1>6, <1>9, <1>10
<1>12. feed' = "cyclone"
  BY <1>2
<1>13. SettlesFrom(plan, n)'
  BY <1>8, <1>11, <1>12, CyclonesEndNext
<1> QED
  BY <1>1, <1>2, <1>9, <1>13, SettlingGoes

LEMMA VerifyAlone ==
  ASSUME FeedInv, Sole, feed \in Kinds, NEW t \in FThreads, VerifyRows(t)
  PROVE  Sole'
<1>1. PICK p, n, s, ids : p = jobs[t].todo /\ n = jobs[t].at /\ s = View(t) /\ ids = Now(t).ids
  OBVIOUS
<1>2. /\ Busy(t) /\ Now(t).op = "verify"
      /\ UNCHANGED <<feed, registry, memory, rows, snapshot>>
  BY DEF VerifyRows, Doing, Now
<1>3. /\ p[1] = Now(t) /\ n \in Nat \ {0}
      /\ feed \notin Imagery \/ \E q : Follows(p, s, q, n) /\ Concludes(q, n, Turned(p[1], n, s))
  BY <1>1, <1>2, AtPhase
<1>4. CASE feed = "cyclone"
  BY <1>4, StormsVerified
<1>5. CASE feed # "cyclone" /\ feed \notin Imagery
  <2>1. RowsStay
    BY <1>2, <1>5 DEF RowsStay
  <2>2. PICK whole, stored : whole = Now(t).whole /\ stored = Stored("records")
    OBVIOUS
  <2>3. CASE RowsFound(ids)
    <3>1. PICK plan : plan = Verified(feed, ids, whole, stored, n)
      OBVIOUS
    <3>2. Goes(t, plan)
      BY <1>1, <2>2, <2>3, <3>1 DEF VerifyRows
    <3>3. feed = "regions" => stored = Stored("geometries")
      BY <2>2, <2>3 DEF RowsFound, Static
    <3>4. SettlesFrom(plan, n)
      BY <1>3, <1>5, <2>2, <3>1, <3>3, VerifiedEnds
    <3>5. SettlesFrom(plan, n)'
      BY <2>1, <3>4, SettlesFromStays
    <3> QED
      BY <1>1, <1>2, <3>2, <3>5, SettlingGoes
  <2>4. CASE ~RowsFound(ids)
    <3>1. PICK plan : plan = ReadbackFails(feed)
      OBVIOUS
    <3>2. Goes(t, plan)
      BY <1>1, <2>4, <3>1 DEF VerifyRows
    <3>3. feed # "firms"
      BY <2>4 DEF RowsFound, Static, Bundles
    <3>4. SettlesFrom(plan, n)
      BY <1>5, <3>1, <3>3, ReadbackEnds
    <3>5. SettlesFrom(plan, n)'
      BY <2>1, <3>4, SettlesFromStays
    <3> QED
      BY <1>1, <1>2, <3>2, <3>5, SettlingGoes
  <2> QED
    BY <2>3, <2>4
<1>6. CASE feed \in Imagery
  <2>1. PICK q : Follows(p, s, q, n) /\ Concludes(q, n, Turned(p[1], n, s))
    BY <1>3, <1>6
  <2>2. ids = {} /\ q = ImageVerified(n)
    BY <1>1, <1>2, <1>3, <2>1 DEF Follows, Plain
  <2>3. feed \notin Static /\ feed # "firms" /\ feed # "cyclone" /\ feed \notin Observed \cup Tiled \cup Bundles
    BY <1>6 DEF Imagery, Static, Bundles, Observed, Tiled
  <2>4. RowsFound(ids)
    BY <2>2, <2>3 DEF RowsFound
  <2>5. Verified(feed, ids, Now(t).whole, Stored("records"), n) = q
    BY <1>6, <2>2, <2>3 DEF Verified, Static
  <2>6. Goes(t, q)
    BY <1>1, <2>4, <2>5 DEF VerifyRows
  <2>7. memory' = Turned(p[1], n, s).mem /\ registry' = Turned(p[1], n, s).reg
    BY <1>1, <1>2, <1>3 DEF Turned, View
  <2>8. RowsStay
    BY <1>2, <2>3 DEF RowsStay
  <2>9. Now(t).op # "load"
    BY <1>2
  <2> QED
    BY <1>1, <1>2, <2>1, <2>6, <2>7, <2>8, <2>9, OnwardGoes
<1> QED
  BY <1>4, <1>5, <1>6

(* Rows, and last the snapshot, are stored; more remains to be done.       *)
LEMMA GatheringGoes ==
  ASSUME FeedInv, Sole, NEW t \in FThreads, Busy(t), UNCHANGED <<feed, registry, memory>>,
         Now(t).op \in Gathering, Goes(t, Rest(t)), NEW p, p = jobs[t].todo, NEW n, n = jobs[t].at,
         feed = "cyclone" => Storing(Tail(p), n)'
  PROVE  Sole'
<1>1. PICK q : q = Rest(t)
  OBVIOUS
<1>2. PICK s : s = [mem |-> memory, reg |-> registry, held |-> Unread]
  OBVIOUS
<1>3. PICK view : view = View(t)
  OBVIOUS
<1>4. PICK job : /\ jobs' = [jobs EXCEPT ![t] = job] /\ job.todo = q
                 /\ q # << >> => job.at = jobs[t].at /\ job.held = Unread
  BY <1>1, GoesJob
<1>5. q = Tail(p)
  BY <1>1, <1>3, AtPhase
<1>6. feed \notin Imagery /\ Gathers(q)
  BY <1>5, StillGathering, Tailed
<1>7. feed = "cyclone" => Storing(q, n)'
  BY <1>5
<1>8. Phase(q, n, s)'
  BY <1>6, <1>7 DEF Phase, Gathers, Gathering, IsSeq
<1>9. /\ q # << >> => job.at = n /\ s = [mem |-> memory', reg |-> registry', held |-> job.held]
      /\ s.mem = memory' /\ s.reg = registry'
  BY <1>2, <1>4
<1>10. jobs = [u \in FThreads |-> jobs[u]] /\ \A u \in FThreads : Busy(u) => u = t
  BY <1>3, AtPhase
<1> QED
  BY <1>4, <1>8, <1>9, <1>10, OnlyJob

LEMMA SaveAlone ==
  ASSUME FeedInv, Sole, NEW t \in FThreads, SaveRow(t)
  PROVE  Sole'
<1>1. PICK p, n : p = jobs[t].todo /\ n = jobs[t].at
  OBVIOUS
<1>2. /\ Busy(t) /\ Now(t).op = "save" /\ Goes(t, Rest(t))
      /\ UNCHANGED <<feed, registry, memory, snapshot, verified>>
  BY DEF SaveRow, Doing, Now
<1>3. ASSUME feed = "cyclone" PROVE Storing(Tail(p), n)'
  <2>1. Gathers(p) /\ p[1].op # "verify" /\ Storing(p, n)
    BY <1>1, <1>2, <1>3, StillGathering DEF Gathering
  <2>2. p[1] = Now(t)
    BY <1>1, <1>2, AtHead
  <2>3. PICK q, ids : q = Tail(p) /\ ids = p[Len(p)].ids
    OBVIOUS
  <2>4. /\ q[Len(q)].ids = ids
        /\ \A k \in 1..Len(q) : k + 1 \in 1..Len(p) /\ q[k] = p[k + 1]
        /\ \A k \in 1..Len(p) : k = 1 \/ (k - 1 \in 1..Len(q) /\ q[k - 1] = p[k])
    BY <2>1, <2>3, Tailed
  <2>5. Content(t) = n
    BY <1>1, <1>3 DEF Content, Static, Bundles
  <2>6. \A id \in Ids : rows'[<<"records", id>>] = IF Saves(Now(t), id) THEN n ELSE rows[<<"records", id>>]
    <3>1. rows = [row \in Tables \X Ids |-> rows[row]]
      BY DEF FeedInv, FeedType
    <3>2. PICK here : here = <<Now(t).table, Now(t).id>>
      OBVIOUS
    <3>3. rows' = [row \in Tables \X Ids |-> IF row = here THEN n ELSE rows[row]]
      BY <2>5, <3>1, <3>2 DEF SaveRow
    <3> TAKE id \in Ids
    <3>4. <<"records", id>> \in Tables \X Ids
      BY DEF Tables
    <3>5. Saves(Now(t), id) <=> <<"records", id>> = here
      BY <1>2, <3>2 DEF Saves
    <3> QED
      BY <3>3, <3>4, <3>5
  <2>7. 1 \in 1..Len(p)
    BY <1>1, <1>2, AtHead
  <2>8. ids \in SUBSET Ids /\ \A id \in Ids : Saves(Now(t), id) => id \in ids
    BY <2>1, <2>2, <2>3, <2>7 DEF Storing
  <2>9. \A v \in verified' : v.at # n
    BY <1>2, <2>1 DEF Storing
  <2>10. snapshot'.at = n \/ \E k \in 1..Len(q) : q[k].op = "snapshot"
    <3>1. ASSUME NEW k \in 1..Len(p), p[k].op = "snapshot" PROVE \E j \in 1..Len(q) : q[j].op = "snapshot"
      <4>1. k # 1
        BY <1>2, <2>2, <3>1
      <4> QED
        BY <2>4, <3>1, <4>1
    <3> QED
      BY <1>2, <2>1, <3>1 DEF Storing
  <2>11. \A id \in ids : rows'[<<"records", id>>] = n \/ \E k \in 1..Len(q) : Saves(q[k], id)
    <3> TAKE id \in ids
    <3>1. id \in Ids
      BY <2>8
    <3>2. CASE rows[<<"records", id>>] = n
      BY <2>6, <3>1, <3>2
    <3>3. ASSUME NEW k \in 1..Len(p), Saves(p[k], id)
          PROVE  rows'[<<"records", id>>] = n \/ \E j \in 1..Len(q) : Saves(q[j], id)
      <4>1. CASE k = 1
        BY <2>2, <2>6, <3>1, <3>3, <4>1
      <4>2. CASE k # 1
        BY <2>4, <3>3, <4>2
      <4> QED
        BY <4>1, <4>2
    <3>4. rows[<<"records", id>>] = n \/ \E k \in 1..Len(p) : Saves(p[k], id)
      BY <2>1, <2>3 DEF Storing
    <3> QED
      BY <3>2, <3>3, <3>4
  <2>12. \A id \in Ids : rows'[<<"records", id>>] = n => id \in ids
    BY <2>1, <2>3, <2>6, <2>8 DEF Storing
  <2>13. \A k \in 1..Len(q), id \in Ids : Saves(q[k], id) => id \in ids
    BY <2>1, <2>3, <2>4 DEF Storing
  <2>14. Storing(q, n)'
    BY <2>4, <2>8, <2>9, <2>10, <2>11, <2>12, <2>13 DEF Storing, Saves
  <2> QED
    BY <2>3, <2>14
<1> QED
  BY <1>1, <1>2, <1>3, GatheringGoes DEF Gathering

(* Steps that store no record.                                             *)
LEMMA PassAlone ==
  ASSUME FeedInv, Sole, NEW t \in FThreads, PrunesNone(t) \/ SaveSnapshot(t)
  PROVE  Sole'
<1>1. PICK p, n : p = jobs[t].todo /\ n = jobs[t].at
  OBVIOUS
<1>2. /\ Busy(t) /\ Now(t).op \in {"prune", "snapshot"} /\ Goes(t, Rest(t))
      /\ UNCHANGED <<feed, registry, memory, rows, verified>>
      /\ Now(t).op = "snapshot" => snapshot'.at = n
      /\ Now(t).op # "snapshot" => snapshot' = snapshot
  BY <1>1 DEF PrunesNone, SaveSnapshot, Doing, Now
<1>3. ASSUME feed = "cyclone" PROVE Storing(Tail(p), n)'
  <2>1. Gathers(p) /\ p[1].op # "verify" /\ Storing(p, n)
    BY <1>1, <1>2, <1>3, StillGathering DEF Gathering
  <2>2. p[1] = Now(t)
    BY <1>1, <1>2, AtHead
  <2>3. PICK q, ids : q = Tail(p) /\ ids = p[Len(p)].ids
    OBVIOUS
  <2>4. /\ q[Len(q)].ids = ids
        /\ \A k \in 1..Len(q) : k + 1 \in 1..Len(p) /\ q[k] = p[k + 1]
        /\ \A k \in 1..Len(p) : k = 1 \/ (k - 1 \in 1..Len(q) /\ q[k - 1] = p[k])
    BY <2>1, <2>3, Tailed
  <2>5. snapshot'.at = n \/ \E k \in 1..Len(q) : q[k].op = "snapshot"
    <3>1. CASE Now(t).op = "snapshot"
      BY <1>2, <3>1
    <3>2. CASE Now(t).op # "snapshot"
      <4>1. ASSUME NEW k \in 1..Len(p), p[k].op = "snapshot" PROVE \E j \in 1..Len(q) : q[j].op = "snapshot"
        <5>1. k # 1
          BY <2>2, <3>2, <4>1
        <5> QED
          BY <2>4, <4>1, <5>1
      <4> QED
        BY <1>2, <2>1, <3>2, <4>1 DEF Storing
    <3> QED
      BY <3>1, <3>2
  <2>6. \A id \in ids : rows[<<"records", id>>] = n \/ \E k \in 1..Len(q) : Saves(q[k], id)
    <3> TAKE id \in ids
    <3>1. ASSUME NEW k \in 1..Len(p), Saves(p[k], id) PROVE \E j \in 1..Len(q) : Saves(q[j], id)
      <4>1. k # 1
        BY <1>2, <2>2, <3>1 DEF Saves
      <4> QED
        BY <2>4, <3>1, <4>1
    <3> QED
      BY <2>1, <2>3, <3>1 DEF Storing
  <2>7. \A k \in 1..Len(q), id \in Ids : Saves(q[k], id) => id \in ids
    BY <2>1, <2>3, <2>4 DEF Storing
  <2>8. /\ ids \in SUBSET Ids /\ \A v \in verified : v.at # n
        /\ \A id \in Ids : rows[<<"records", id>>] = n => id \in ids
    BY <2>1, <2>3 DEF Storing
  <2>9. Storing(q, n)'
    BY <1>2, <2>4, <2>5, <2>6, <2>7, <2>8 DEF Storing, Saves
  <2> QED
    BY <2>3, <2>9
<1> QED
  BY <1>1, <1>2, <1>3, GatheringGoes DEF Gathering

LEMMA PruneAlone ==
  ASSUME FeedInv, Sole, NEW t \in FThreads, PruneRow(t)
  PROVE  Sole'
<1>1. PICK p, n, s, job : p = jobs[t].todo /\ n = jobs[t].at /\ s = View(t) /\ job = jobs[t]
  OBVIOUS
<1>2. Busy(t) /\ Now(t).op = "prune" /\ UNCHANGED <<feed, registry, memory, jobs>>
  BY DEF PruneRow, Doing, Now
<1>3. feed = "regions"
  BY <1>2, AtHead DEF InstructionSound, PlainSound
<1>4. feed \notin Imagery /\ Gathers(p)
  BY <1>1, <1>2, StillGathering DEF Gathering
<1>5. feed' \notin Imagery /\ feed' # "cyclone"
  BY <1>2, <1>3 DEF Imagery
<1>6. Phase(p, n, s)'
  BY <1>4, <1>5 DEF Phase, Gathers, Gathering, IsSeq
<1>7. jobs = [u \in FThreads |-> jobs[u]] /\ \A u \in FThreads : Busy(u) => u = t
  BY <1>1, <1>2, AtPhase
<1>8. jobs' = [jobs EXCEPT ![t] = job]
  BY <1>1, <1>2, <1>7
<1>9. s.mem = memory' /\ s.reg = registry' /\ s = [mem |-> memory', reg |-> registry', held |-> job.held]
  BY <1>1, <1>2 DEF View
<1> QED
  BY <1>1, <1>6, <1>7, <1>8, <1>9, OnlyJob

LEMMA RaisesAlone ==
  ASSUME FeedInv, Sole, NEW t \in FThreads, SaveRaises(t), alone'
  PROVE  Sole'
<1>1. PICK n, plan : n = jobs[t].at /\ plan = Raised(feed)
  OBVIOUS
<1>2. /\ Busy(t) /\ Goes(t, plan) /\ plan # << >>
      /\ UNCHANGED <<feed, registry, memory, rows, snapshot, verified>>
  BY <1>1 DEF SaveRaises, Doing
<1>3. feed = "usgs"
  BY <1>1, <1>2 DEF Raised
<1>4. SettlesFrom(plan, n)
  BY <1>1, <1>3, RaisedEnds
<1>5. RowsStay
  BY <1>2 DEF RowsStay
<1>6. SettlesFrom(plan, n)'
  BY <1>4, <1>5, SettlesFromStays
<1> QED
  BY <1>1, <1>2, <1>6, SettlingGoes

LEMMA BeginAlone ==
  ASSUME FeedInv, Dated, feed \in Kinds, NEW t \in FThreads, Fetch(t), alone'
  PROVE  Sole'
<1>1. PICK answer \in Answers : Begin(t, Endpoint(feed, answer))
  BY DEF Fetch
<1>2. PICK q, n : q = Endpoint(feed, answer) /\ n = requests + 1
  OBVIOUS
<1>3. PICK s : s = [mem |-> memory, reg |-> registry, held |-> Unread]
  OBVIOUS
<1>4. PICK job : job = [todo |-> q, at |-> n, held |-> Unread]
  OBVIOUS
<1>5. FeedType /\ requests \in Nat /\ n # 0
  BY <1>2 DEF FeedInv, FeedType
<1>6. /\ jobs' = [jobs EXCEPT ![t] = job] /\ q # << >> /\ \A u \in FThreads : ~Busy(u)
      /\ UNCHANGED <<feed, registry, memory, rows, snapshot, verified>>
  BY <1>1, <1>2, <1>4 DEF Begin
<1>7. Settling(q, n)
  <2>1. AnswerSound(answer)
    BY <1>5, AnswersAreSound DEF FeedType
  <2> QED
    BY <1>2, <1>5, <2>1, EndpointSettles
<1>8. Shaped(s)
  BY <1>3, <1>5 DEF FeedType, Shaped
<1>9. Phase(q, n, s)'
  <2>1. CASE SettlesFrom(q, n)
    <3>1. Concludes(q, n, s)
      BY <1>8, <2>1 DEF SettlesFrom
    <3>2. Concludes(q, n, s)'
      BY <1>6, <3>1, ConcludesStays
    <3> QED
      BY <3>2 DEF Phase
  <2>2. CASE feed \notin Imagery /\ Gathers(q) /\ (feed = "cyclone" => StormPlan(q))
    <3>1. ASSUME feed = "cyclone" PROVE Storing(q, n)'
      <4>1. StormPlan(q)
        BY <2>2, <3>1
      <4>2. \A v \in verified : v.at # n
        <5> TAKE v \in verified
        <5>1. PICK at : at = v.at
          OBVIOUS
        <5>2. at \in 0..requests
          BY <3>1, <5>1 DEF Dated
        <5>3. at # n
          BY <1>2, <1>5, <5>2
        <5> QED
          BY <5>1, <5>3
      <4>3. \A id \in Ids : rows[<<"records", id>>] # n
        <5> TAKE id \in Ids
        <5>1. PICK at : at = rows[<<"records", id>>]
          OBVIOUS
        <5>2. at \in 0..requests
          BY <3>1, <5>1 DEF Dated
        <5>3. at # n
          BY <1>2, <1>5, <5>2
        <5> QED
          BY <5>1, <5>3
      <4>4. Storing(q, n)
        BY <4>1, <4>2, <4>3 DEF StormPlan, Storing
      <4> QED
        BY <1>6, <4>4 DEF Storing, Saves
    <3> QED
      BY <1>6, <2>2, <3>1 DEF Phase, Gathers, Gathering, IsSeq
  <2> QED
    BY <1>6, <1>7, <2>1, <2>2 DEF Settling
<1>10. /\ q = job.todo /\ job.at = n /\ s.mem = memory' /\ s.reg = registry'
       /\ s = [mem |-> memory', reg |-> registry', held |-> job.held]
  BY <1>3, <1>4, <1>6
<1>11. jobs = [u \in FThreads |-> jobs[u]] /\ \A u \in FThreads : Busy(u) => u = t
  BY <1>5, <1>6 DEF FeedType
<1> QED
  BY <1>6, <1>9, <1>10, <1>11, OnlyJob

(* A corrected record is taken for what it was taken for before.           *)
LEMMA CorrectedAgrees ==
  ASSUME NEW record, record = [fetch |-> record.fetch, stamp |-> record.stamp, evidence |-> record.evidence],
         NEW part
  PROVE  Agrees(part, Restored(feed, record), Corrected(feed, record))
<1>1. PICK state : state = Restored(feed, record)
  OBVIOUS
<1>2. PICK fixed : fixed = Corrected(feed, record)
  OBVIOUS
<1>3. Restored(feed, fixed) = state
  <2>1. CASE ~(feed \in Observed /\ state.status # record.fetch)
    <3>1. fixed = record
      BY <1>1, <1>2, <2>1 DEF Corrected
    <3> QED
      BY <1>1, <3>1
  <2>2. CASE feed \in Observed /\ state.status # record.fetch
    <3>1. state = RestoredObservations(record)
      BY <1>1, <2>2, RestoredKinds
    <3>2. state = Status("PENDING", 0) /\ state.status = "PENDING"
      BY <2>2, <3>1 DEF RestoredObservations, Status
    <3>3. fixed = [record EXCEPT !.fetch = "PENDING", !.evidence = Evidence("PENDING", Stored("records"), 0)]
      BY <1>1, <1>2, <2>2, <3>2 DEF Corrected
    <3>4. fixed.fetch = "PENDING"
      BY <3>3
    <3>5. RestoredObservations(fixed) = Status("PENDING", 0)
      BY <3>4 DEF RestoredObservations
    <3> QED
      BY <2>2, <3>2, <3>5, RestoredKinds
  <2> QED
    BY <2>1, <2>2
<1> QED
  BY <1>1, <1>2, <1>3, SameAgrees

LEMMA RestartAlone ==
  ASSUME FeedInv, Sole, Restart, \A t \in FThreads : ~Busy(t)
  PROVE  Sole'
<1>1. PICK mem, reg : mem = memory' /\ reg = registry'
  OBVIOUS
<1>2. /\ UNCHANGED <<feed, rows, snapshot, verified>>
      /\ jobs' = [t \in FThreads |-> NoJob]
      /\ mem = [part \in Parts(feed) |-> Restored(feed, registry[part])]
      /\ reg = [part \in Parts(feed) |-> Corrected(feed, registry[part])]
  BY <1>1 DEF Restart
<1>3. Settles(memory, registry)
  BY DEF Sole
<1>4. \A part \in Parts(feed) : Agrees(part, mem[part], reg[part])
  <2> TAKE part \in Parts(feed)
  <2>1. PICK record : record = registry[part]
    OBVIOUS
  <2>2. record = [fetch |-> record.fetch, stamp |-> record.stamp, evidence |-> record.evidence]
    BY <2>1 DEF FeedInv, RecordsSound, RecordSound
  <2>3. mem[part] = Restored(feed, record) /\ reg[part] = Corrected(feed, record)
    BY <1>2, <2>1
  <2> QED
    BY <2>2, <2>3, CorrectedAgrees
<1>5. StormsKnown(mem)
  <2> SUFFICES ASSUME feed = "cyclone", Listed(feed, mem["storms"]) = "LIVE_VERIFIED",
                      NEW v \in verified, v.at = mem["storms"].at
               PROVE  ListedStorms = v.ids
    BY DEF StormsKnown
  <2>1. "storms" \in Parts(feed)
    BY StormsAreParts
  <2>2. mem["storms"] = Restored(feed, registry["storms"])
    BY <1>2, <2>1
  <2>3. Agrees("storms", memory["storms"], registry["storms"]) /\ StormsKnown(memory)
    BY <1>3, <2>1 DEF Settles
  <2>4. /\ Listed(feed, memory["storms"]) = "LIVE_VERIFIED"
        /\ memory["storms"].at = mem["storms"].at
    BY <2>2, <2>3 DEF Agrees, SameTime, Stamp, VerifiedStatuses, Imagery
  <2> QED
    BY <2>3, <2>4 DEF StormsKnown
<1>6. Settles(mem, reg)
  BY <1>4, <1>5 DEF Settles
<1>7. Settles(mem, reg)'
  BY <1>2, <1>6, SettlesStays
<1>8. Settles(memory, registry)'
  BY <1>1, <1>7
<1>9. \A t \in FThreads : ~Busy(t)'
  BY <1>2 DEF Busy, NoJob
<1> QED
  BY <1>8, <1>9 DEF Sole

LEMMA InitAlone ==
  ASSUME Init
  PROVE  AloneInv
<1>1. /\ \A part \in Parts(feed) : memory[part] = Restored(feed, registry[part])
      /\ jobs = [t \in FThreads |-> NoJob] /\ verified = {} /\ requests = 0
      /\ rows = [row \in Tables \X Ids |-> 0]
  BY DEF Init
<1>2. \A t \in FThreads : ~Busy(t)
  BY <1>1 DEF Busy, NoJob
<1>3. \A part \in Parts(feed) : Agrees(part, memory[part], registry[part])
  BY <1>1, SameAgrees
<1>4. Settles(memory, registry)
  BY <1>1, <1>3 DEF Settles, StormsKnown
<1>5. \A id \in Ids : rows[<<"records", id>>] = 0
  <2> TAKE id \in Ids
  <2>1. <<"records", id>> \in Tables \X Ids
    BY DEF Tables
  <2> QED
    BY <1>1, <2>1
<1>6. Dated
  BY <1>1, <1>2, <1>5 DEF Dated
<1> QED
  BY <1>2, <1>4, <1>6 DEF AloneInv, Sole

(* Rows and verifications are dated with the request that made them.       *)
LEMMA DatedAfter ==
  ASSUME Dated, FeedInv, feed' = feed, requests' \in Nat, requests <= requests',
         \A t \in FThreads : Busy(t)' => jobs'[t].at = requests' \/ (Busy(t) /\ jobs'[t].at = jobs[t].at),
         NEW n \in 0..requests,
         \A v \in verified' : v \in verified \/ v.at = n,
         feed = "cyclone" => \A id \in Ids : rows'[<<"records", id>>] \in {0, n, rows[<<"records", id>>]}
  PROVE  Dated'
<1> SUFFICES ASSUME feed = "cyclone"
             PROVE  /\ \A t \in FThreads : Busy(t)' => jobs'[t].at \in 0..requests'
                    /\ \A v \in verified' : v.at \in 0..requests'
                    /\ \A id \in Ids : rows'[<<"records", id>>] \in 0..requests'
  BY DEF Dated
<1>1. requests \in Nat
  BY DEF FeedInv, FeedType
<1>2. \A m \in 0..requests : m \in 0..requests'
  BY <1>1
<1>3. 0 \in 0..requests' /\ requests' \in 0..requests' /\ n \in 0..requests'
  BY <1>2
<1>4. /\ \A t \in FThreads : Busy(t) => jobs[t].at \in 0..requests
      /\ \A v \in verified : v.at \in 0..requests
      /\ \A id \in Ids : rows[<<"records", id>>] \in 0..requests
  BY DEF Dated
<1> QED
  BY <1>2, <1>3, <1>4

LEMMA GoesAt ==
  ASSUME FeedInv, NEW t \in FThreads, Busy(t), NEW job, jobs' = [jobs EXCEPT ![t] = job],
         job.todo # << >> => job.at = jobs[t].at
  PROVE  \A u \in FThreads : Busy(u)' => Busy(u) /\ jobs'[u].at = jobs[u].at
<1>1. jobs = [u \in FThreads |-> jobs[u]]
  BY DEF FeedInv, FeedType
<1>2. jobs' = [u \in FThreads |-> IF u = t THEN job ELSE jobs[u]]
  BY <1>1
<1> TAKE u \in FThreads
<1>3. CASE u = t
  <2>1. jobs'[u] = job
    BY <1>2, <1>3
  <2> QED
    BY <1>3, <2>1 DEF Busy
<1>4. CASE u # t
  <2>1. jobs'[u] = jobs[u]
    BY <1>2, <1>4
  <2> QED
    BY <2>1 DEF Busy
<1> QED
  BY <1>3, <1>4

LEMMA GoesDated ==
  ASSUME FeedInv, Dated, NEW t \in FThreads, Busy(t), NEW plan, Goes(t, plan),
         UNCHANGED <<feed, requests>>, \A v \in verified' : v \in verified \/ v.at = jobs[t].at,
         feed = "cyclone" =>
           \A id \in Ids : rows'[<<"records", id>>] \in {0, jobs[t].at, rows[<<"records", id>>]}
  PROVE  Dated'
<1>1. CASE feed # "cyclone"
  BY <1>1 DEF Dated
<1>2. CASE feed = "cyclone"
  <2>1. PICK n : n = jobs[t].at
    OBVIOUS
  <2>2. n \in 0..requests
    BY <1>2, <2>1 DEF Dated
  <2>3. PICK job : /\ jobs' = [jobs EXCEPT ![t] = job] /\ job.todo = plan
                   /\ plan # << >> => job.at = jobs[t].at /\ job.held = Unread
    BY GoesJob
  <2>4. \A u \in FThreads : Busy(u)' => Busy(u) /\ jobs'[u].at = jobs[u].at
    BY <2>3, GoesAt
  <2>5. requests' \in Nat /\ requests <= requests'
    BY DEF FeedInv, FeedType
  <2> QED
    BY <2>1, <2>2, <2>4, <2>5, DatedAfter
<1> QED
  BY <1>1, <1>2

LEMMA StepDated ==
  ASSUME FeedInv, Dated, feed \in Kinds, NEW t \in FThreads, FeedStep(t)
  PROVE  Dated'
<1>1. CASE Fetch(t)
  <2>1. PICK answer \in Answers : Begin(t, Endpoint(feed, answer))
    BY <1>1 DEF Fetch
  <2> DEFINE new == [todo |-> Endpoint(feed, answer), at |-> requests + 1, held |-> Unread]
  <2>2. /\ jobs' = [jobs EXCEPT ![t] = new] /\ requests' = requests + 1
        /\ UNCHANGED <<feed, rows, verified>>
    BY <2>1 DEF Begin
  <2>3. requests \in Nat /\ jobs = [u \in FThreads |-> jobs[u]]
    BY DEF FeedInv, FeedType
  <2>4. new.at = requests'
    BY <2>2
  <2> HIDE DEF new
  <2>5. jobs' = [u \in FThreads |-> IF u = t THEN new ELSE jobs[u]]
    BY <2>2, <2>3
  <2>6. ASSUME NEW u \in FThreads, Busy(u)'
        PROVE  jobs'[u].at = requests' \/ (Busy(u) /\ jobs'[u].at = jobs[u].at)
    <3>1. CASE u = t
      BY <2>4, <2>5, <3>1
    <3>2. CASE u # t
      <4>1. jobs'[u] = jobs[u]
        BY <2>5, <3>2
      <4> QED
        BY <2>6, <4>1 DEF Busy
    <3> QED
      BY <3>1, <3>2
  <2>7. PICK n : n = 0
    OBVIOUS
  <2>8. n \in 0..requests /\ requests' \in Nat /\ requests <= requests'
    BY <2>2, <2>3, <2>7
  <2>9. feed' = feed /\ rows' = rows /\ \A v \in verified' : v \in verified \/ v.at = n
    BY <2>2
  <2> QED
    BY <2>6, <2>8, <2>9, DatedAfter
<1>2. CASE SaveRow(t)
  <2>1. Busy(t) /\ Now(t).op = "save" /\ Goes(t, Rest(t)) /\ UNCHANGED <<feed, requests, verified>>
    BY <1>2 DEF SaveRow, Doing, Now
  <2>2. ASSUME feed = "cyclone", NEW id \in Ids
        PROVE  rows'[<<"records", id>>] \in {0, jobs[t].at, rows[<<"records", id>>]}
    <3>1. rows = [row \in Tables \X Ids |-> rows[row]] /\ Content(t) = jobs[t].at
      BY <2>2 DEF FeedInv, FeedType, Content, Static, Bundles
    <3>2. PICK here : here = <<Now(t).table, Now(t).id>>
      OBVIOUS
    <3>3. rows' = [row \in Tables \X Ids |-> IF row = here THEN jobs[t].at ELSE rows[row]]
      BY <1>2, <3>1, <3>2 DEF SaveRow
    <3>4. <<"records", id>> \in Tables \X Ids
      BY DEF Tables
    <3> QED
      BY <3>3, <3>4
  <2> QED
    BY <2>1, <2>2, GoesDated
<1>3. CASE PruneRow(t)
  <2>1. Busy(t) /\ Now(t).op = "prune" /\ feed' = feed
    BY <1>3 DEF PruneRow, Doing, Now
  <2>2. feed = "regions"
    BY <2>1, AtHead DEF InstructionSound, PlainSound
  <2> QED
    BY <2>1, <2>2 DEF Dated
<1>4. CASE LoadSource(t)
  <2> DEFINE new == [todo |-> Rest(t), at |-> jobs[t].at, held |-> registry[Now(t).part]]
  <2>1. /\ Busy(t) /\ UNCHANGED <<feed, requests, verified, rows>>
        /\ jobs' = [jobs EXCEPT ![t] = new]
    BY <1>4 DEF LoadSource, Doing
  <2>2. new.at = jobs[t].at
    OBVIOUS
  <2> HIDE DEF new
  <2>3. PICK job : job = new
    OBVIOUS
  <2>4. \A u \in FThreads : Busy(u)' => Busy(u) /\ jobs'[u].at = jobs[u].at
    BY <2>1, <2>2, <2>3, GoesAt
  <2>5. requests' \in Nat /\ requests <= requests' /\ requests \in Nat
    BY <2>1 DEF FeedInv, FeedType
  <2>6. PICK n : n = 0
    OBVIOUS
  <2>7. n \in 0..requests
    BY <2>5, <2>6
  <2> QED
    BY <2>1, <2>4, <2>5, <2>7, DatedAfter
<1>5. CASE VerifyRows(t)
  <2>1. Busy(t) /\ UNCHANGED <<feed, requests, rows>>
    BY <1>5 DEF VerifyRows, Doing
  <2>2. \E plan : Goes(t, plan)
    BY <1>5 DEF VerifyRows
  <2>3. \A v \in verified' : v \in verified \/ v.at = jobs[t].at
    BY <1>5 DEF VerifyRows
  <2> QED
    BY <2>1, <2>2, <2>3, GoesDated
<1>6. CASE \/ SaveRaises(t) \/ PrunesNone(t) \/ SaveSnapshot(t) \/ StoreSource(t) \/ RememberStatus(t)
           \/ DowngradeStatus(t) \/ SkipIfUnavailable(t) \/ StoreManifest(t) \/ ListManifest(t)
           \/ CompareEvidence(t) \/ RegistryRaises(t) \/ CompareRaises(t)
  <2>1. Busy(t) /\ UNCHANGED <<feed, requests, rows, verified>>
    BY <1>6 DEF SaveRaises, PrunesNone, SaveSnapshot, StoreSource, RememberStatus, DowngradeStatus,
         SkipIfUnavailable, StoreManifest, ListManifest, CompareEvidence, RegistryRaises, CompareRaises, Doing
  <2>2. \E plan : Goes(t, plan)
    BY <1>6 DEF SaveRaises, PrunesNone, SaveSnapshot, StoreSource, RememberStatus, DowngradeStatus,
         SkipIfUnavailable, StoreManifest, ListManifest, CompareEvidence, RegistryRaises, CompareRaises
  <2> QED
    BY <2>1, <2>2, GoesDated
<1> QED
  BY <1>1, <1>2, <1>3, <1>4, <1>5, <1>6 DEF FeedStep

LEMMA StepAlone ==
  ASSUME FeedInv, AloneInv, feed \in Kinds, NEW t \in FThreads, FeedStep(t), alone'
  PROVE  Sole'
<1>1. CASE Fetch(t)
  BY <1>1, BeginAlone DEF AloneInv
<1>2. CASE ~Fetch(t)
  <2>1. alone /\ ~RegistryRaises(t) /\ ~CompareRaises(t)
    BY <1>2 DEF FeedStep, RegistryRaises, CompareRaises, SaveRow, SaveRaises, PruneRow, PrunesNone,
         SaveSnapshot, LoadSource, StoreSource,
         RememberStatus, DowngradeStatus, SkipIfUnavailable, StoreManifest, ListManifest, VerifyRows,
         CompareEvidence
  <2>2. Sole
    BY <2>1 DEF AloneInv
  <2> QED
    BY <1>2, <2>1, <2>2, SaveAlone, RaisesAlone, PruneAlone, PassAlone, LoadAlone, StoreAlone, ListingAlone,
       SkipAlone, ManifestAlone, VerifyAlone, CompareAlone DEF FeedStep
<1> QED
  BY <1>1, <1>2

LEMMA NothingAlone ==
  ASSUME AloneInv, UNCHANGED feedVars
  PROVE  AloneInv'
<1>1. UNCHANGED <<feed, registry, memory, rows, snapshot, jobs, alone, verified, requests>>
  BY DEF feedVars
<1>2. Dated'
  BY <1>1 DEF AloneInv, Dated, Busy
<1>3. ASSUME alone PROVE Sole'
  <2>1. Sole
    BY <1>3 DEF AloneInv
  <2>2. (\A t \in FThreads : ~Busy(t))' => Settles(memory, registry)'
    <3>1. \A t \in FThreads : Busy(t)' <=> Busy(t)
      BY <1>1 DEF Busy
    <3>2. PICK mem, reg : mem = memory /\ reg = registry
      OBVIOUS
    <3>3. Settles(mem, reg) => Settles(mem, reg)'
      BY <1>1, SettlesStays
    <3>4. mem = memory' /\ reg = registry'
      BY <1>1, <3>2
    <3>5. Settles(mem, reg)' => Settles(memory, registry)'
      BY <3>4
    <3> QED
      BY <2>1, <3>1, <3>2, <3>3, <3>5 DEF Sole
  <2>3. ASSUME NEW t \in FThreads, Busy(t)'
        PROVE  (\A u \in FThreads : Busy(u)' => u = t) /\ Phase(jobs[t].todo, jobs[t].at, View(t))'
    <3>1. Busy(t) /\ \A u \in FThreads : Busy(u)' => Busy(u)
      BY <1>1, <2>3 DEF Busy
    <3>2. PICK p, n, s : p = jobs[t].todo /\ n = jobs[t].at /\ s = View(t)
      OBVIOUS
    <3>3. Phase(p, n, s) /\ \A u \in FThreads : Busy(u) => u = t
      BY <2>1, <3>1, <3>2 DEF Sole
    <3>4. p = jobs'[t].todo /\ n = jobs'[t].at /\ s = View(t)'
      BY <1>1, <3>2 DEF View
    <3>5. Phase(p, n, s)'
      <4>1. CASE Concludes(p, n, s)
        <5>1. Concludes(p, n, s)'
          BY <1>1, <4>1, ConcludesStays
        <5> QED
          BY <5>1 DEF Phase
      <4>2. CASE feed \notin Imagery /\ Gathers(p) /\ (feed = "cyclone" => Storing(p, n))
        <5>1. feed = "cyclone" => Storing(p, n)'
          BY <1>1, <4>2 DEF Storing, Saves
        <5> QED
          BY <1>1, <4>2, <5>1 DEF Phase, Gathers, Gathering, IsSeq
      <4> QED
        BY <3>3, <4>1, <4>2 DEF Phase
    <3>6. Phase(jobs[t].todo, jobs[t].at, View(t))'
      BY <3>4, <3>5
    <3> QED
      BY <3>1, <3>3, <3>6
  <2> QED
    BY <2>2, <2>3 DEF Sole
<1> QED
  BY <1>1, <1>2, <1>3 DEF AloneInv

LEMMA RestartDated ==
  ASSUME Dated, Restart
  PROVE  Dated'
<1>1. UNCHANGED <<feed, rows, verified, requests>> /\ \A t \in FThreads : ~Busy(t)'
  BY DEF Restart, Busy, NoJob
<1> QED
  BY <1>1 DEF Dated

(* A request that runs alone, and meets no exception of the registry,      *)
(* leads to where a restart would.                                         *)
THEOREM SpecAloneInv == Spec => []AloneInv
<1>1. SourcesInit => AloneInv
  BY InitAlone DEF SourcesInit
<1>2. FeedInv /\ AloneInv /\ [Next]_sourceVars => AloneInv'
  <2> SUFFICES ASSUME FeedInv, AloneInv, [Next]_sourceVars PROVE AloneInv'
    OBVIOUS
  <2>1. CASE UNCHANGED feedVars
    BY <2>1, NothingAlone
  <2>2. CASE feed # "registration" /\ FeedNext
    <3>1. feed \in Kinds /\ Dated
      BY <2>2 DEF FeedInv, FeedType, AloneInv
    <3>2. CASE Restart
      <4>1. alone' => alone /\ \A t \in FThreads : ~Busy(t)
        BY <3>2 DEF Restart
      <4> QED
        BY <3>1, <3>2, <4>1, RestartAlone, RestartDated DEF AloneInv
    <3>3. CASE \E t \in FThreads : FeedStep(t)
      BY <3>1, <3>3, StepAlone, StepDated DEF AloneInv
    <3> QED
      BY <2>2, <3>2, <3>3 DEF FeedNext
  <2> QED
    BY <2>1, <2>2 DEF Next, sourceVars, feedVars
<1> QED
  BY <1>1, <1>2, SpecFeedInv, PTL DEF Spec

(* After a request of any feed that ran alone to its end, without an       *)
(* exception of the registry, and however the requests before it           *)
(* overlapped, failed or died: a restart would restore from the registry   *)
(* the status, and the time of verification, that /live-datasets lists     *)
(* now; but for the bundled feeds, which stay listed after a failure, the  *)
(* time of imagery, and that of the regions, which becomes the time of the *)
(* save of their record.                                                   *)
THEOREM RestartKeepsListed == Spec => []RestartKeepsListing
<1>1. AloneInv => RestartKeepsListing
  <2> SUFFICES ASSUME AloneInv, Settled PROVE \A part \in Parts(feed) : Agrees(part, memory[part], registry[part])
    BY DEF RestartKeepsListing, Agrees
  <2> QED
    BY DEF Settled, AloneInv, Sole, Settles
<1> QED
  BY <1>1, SpecAloneInv, PTL

(* After a request of the cyclones that ran alone to its end, storms that  *)
(* are listed as verified are those of the answer that was verified: the   *)
(* rows of its time are the ids of its snapshot, all and no others, though *)
(* earlier requests died between their rows and their snapshot.            *)
THEOREM StormsStayListed == Spec => []StormsAreListed
<1>1. AloneInv => StormsAreListed
  BY DEF StormsAreListed, Settled, AloneInv, Sole, Settles, StormsKnown
<1> QED
  BY <1>1, SpecAloneInv, PTL
=============================================================================
