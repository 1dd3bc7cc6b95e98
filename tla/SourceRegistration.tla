-------------------------- MODULE SourceRegistration --------------------------
(***************************************************************************)
(* Sources and capabilities are registered by requests of main.py, by the  *)
(* geospatial connector (source, then package, then capability, each only  *)
(* if it is missing), and by the process that starts (the capabilities it  *)
(* knows).  Each registration reads, decides, and stores in steps; nothing *)
(* is locked, and nothing is undone when the process dies between them.    *)
(***************************************************************************)
EXTENDS Naturals, FiniteSets

CONSTANTS RThreads,    \* request threads
          Keys,        \* source ids, as stored
          Lower(_),    \* a source id in lower case
          Derived(_),  \* the id made of a name: its first twenty characters
          Names,       \* source names
          Prohibited,  \* the names that must not be registered
          Capabilities,
          Known,       \* the capability the service itself registers at its start
          Versions,    \* capability versions
          Startup,     \* the thread of the process that starts
          Nothing,     \* no record
          MaxCalls,    \* bound: requests that change anything
          MaxDeaths    \* bound: deaths of the process

VARIABLES sources,    \* the source records: the name stored under each id
          audited,    \* the registrations in the audit trail
          packaged,   \* the capabilities whose dataset has a package
          versions,   \* the version store
          current,    \* the capability store: the current version of each
          work,       \* what each thread, and the starting process, does
          serving,    \* the process has started
          clashed,    \* history: two requests were registering at a time
          died,       \* history: the process died during a registration
          derived,    \* history: the ids that were made of a name
          calls, deaths

registrationVars == <<sources, audited, packaged, versions, current, work, serving,
                      clashed, died, derived, calls, deaths>>

ASSUME KnownAssumption == Known \in Capabilities
ASSUME NothingAssumption == 1 \in Versions /\ Nothing \notin Versions \cup Names
ASSUME StartupAssumption == Startup \notin RThreads
ASSUME DerivedAssumption == \A name \in Names : Derived(name) \in Keys

Workers == RThreads \cup {Startup}
Free == [at |-> "free"]

(* The process starts by registering the capability it knows.              *)
Seeding == [at |-> "capability", cap |-> Known, version |-> 1]

RegistrationInit ==
  /\ sources = [key \in Keys |-> Nothing]
  /\ audited = {} /\ packaged = {} /\ versions = {}
  /\ current = [cap \in Capabilities |-> Nothing]
  /\ work = [w \in Workers |-> IF w = Startup THEN Seeding ELSE Free]
  /\ serving = FALSE /\ clashed = FALSE /\ died = FALSE /\ derived = {}
  /\ calls = 0 /\ deaths = 0

-----------------------------------------------------------------------------
Registered == {key \in Keys : sources[key] # Nothing}

NameTaken(name) == \E key \in Registered : sources[key] = name

(* register_source compares ids only if the request has one, in lower case *)
(* although the store tells "A" from "a".                                  *)
IdTaken(key) == \E other \in Registered : Lower(other) = Lower(key)

(* A defect: the names are not compared.                                   *)
IdFree(given, key, name) == name \notin Prohibited /\ (given => ~IdTaken(key))

MayRegister(given, key, name) ==
  name \notin Prohibited /\ (given => ~IdTaken(key)) /\ ~NameTaken(name)

Starts(t, job) ==
  /\ serving /\ work[t] = Free /\ calls < MaxCalls
  /\ calls' = calls + 1
  /\ work' = [work EXCEPT ![t] = job]
  /\ clashed' = (clashed \/ \E w \in Workers : work[w] # Free)

Becomes(w, at) == work' = [work EXCEPT ![w].at = at]
Ends(w) == work' = [work EXCEPT ![w] = Free]

(* POST /sources: the list is read once, and decides.                      *)
BeginSource(t, given, key, name) ==
  /\ ~given => key = Derived(name)
  /\ MayRegister(given, key, name)
  /\ Starts(t, [at |-> "save", key |-> key, name |-> name, cap |-> Nothing])
  /\ derived' = IF given THEN derived ELSE derived \cup {key}
  /\ UNCHANGED <<sources, audited, packaged, versions, current, serving, died, deaths>>

(* POST /connectors/geospatial/ingest: an id that exists is taken as it is. *)
BeginConnector(t, key, name, cap, version) ==
  /\ \/ sources[key] # Nothing
     \/ MayRegister(TRUE, key, name)
  /\ Starts(t, [at |-> IF sources[key] # Nothing THEN "package" ELSE "save",
                key |-> key, name |-> name, cap |-> cap, version |-> version])
  /\ UNCHANGED <<sources, audited, packaged, versions, current, serving, died, derived, deaths>>

(* POST /capabilities refuses a version that either store has.             *)
BeginCapability(t, cap, version) ==
  /\ current[cap] # version /\ <<cap, version>> \notin versions
  /\ Starts(t, [at |-> "find package", cap |-> cap, version |-> version])
  /\ UNCHANGED <<sources, audited, packaged, versions, current, serving, died, derived, deaths>>

-----------------------------------------------------------------------------
SaveSource(w) ==
  /\ work[w].at = "save"
  /\ sources' = [sources EXCEPT ![work[w].key] = work[w].name]
  /\ Becomes(w, "audit")
  /\ UNCHANGED <<audited, packaged, versions, current, serving, clashed, died, derived, calls, deaths>>

(* The audit entry, after which the connector goes on.                     *)
AuditSource(w) ==
  /\ work[w].at = "audit"
  /\ audited' = audited \cup {<<work[w].key, work[w].name>>}
  /\ IF work[w].cap = Nothing THEN Ends(w) ELSE Becomes(w, "package")
  /\ UNCHANGED <<sources, packaged, versions, current, serving, clashed, died, derived, calls, deaths>>

(* The connector's package, and the one of register_capability.            *)
EnsurePackage(w) ==
  /\ work[w].at \in {"package", "find package"}
  /\ packaged' = packaged \cup {work[w].cap}
  /\ Becomes(w, IF work[w].at = "package" THEN "capability" ELSE "version")
  /\ UNCHANGED <<sources, audited, versions, current, serving, clashed, died, derived, calls, deaths>>

(* get_capability, or else the version check of register_capability.       *)
FindCapability(w) ==
  LET cap == work[w].cap
      refused == <<cap, work[w].version>> \in versions
  IN /\ work[w].at = "capability"
     /\ IF current[cap] # Nothing \/ (refused /\ w # Startup) THEN Ends(w)
        ELSE Becomes(w, IF refused THEN "failed" ELSE "find package")
     /\ serving' = (serving \/ (w = Startup /\ current[cap] # Nothing))
     /\ UNCHANGED <<sources, audited, packaged, versions, current, clashed, died, derived, calls, deaths>>

(* A defect: the version is not kept.                                      *)
VersionNotKept(w) ==
  /\ work[w].at = "version"
  /\ Becomes(w, "current")
  /\ UNCHANGED <<sources, audited, packaged, versions, current, serving, clashed, died, derived, calls, deaths>>

(* version_store.save ...                                                  *)
SaveVersion(w) ==
  /\ work[w].at = "version"
  /\ versions' = versions \cup {<<work[w].cap, work[w].version>>}
  /\ Becomes(w, "current")
  /\ UNCHANGED <<sources, audited, packaged, current, serving, clashed, died, derived, calls, deaths>>

(* ... and store.save.                                                     *)
SaveCurrent(w) ==
  /\ work[w].at = "current"
  /\ current' = [current EXCEPT ![work[w].cap] = work[w].version]
  /\ Ends(w)
  /\ serving' = (serving \/ w = Startup)
  /\ UNCHANGED <<sources, audited, packaged, versions, clashed, died, derived, calls, deaths>>

(* The process dies and is started again.                                  *)
Dies ==
  /\ deaths < MaxDeaths
  /\ deaths' = deaths + 1
  /\ died' = (died \/ \E w \in Workers : work[w].at \notin {"free", "failed"})
  /\ work' = [w \in Workers |-> IF w = Startup THEN Seeding ELSE Free]
  /\ serving' = FALSE
  /\ UNCHANGED <<sources, audited, packaged, versions, current, clashed, derived, calls>>

RegistrationNext ==
  \/ Dies
  \/ \E t \in RThreads, name \in Names, key \in Keys :
       \/ \E given \in BOOLEAN : BeginSource(t, given, key, name)
       \/ \E cap \in Capabilities \ {Known}, version \in Versions : BeginConnector(t, key, name, cap, version)
  \/ \E t \in RThreads, cap \in Capabilities, version \in Versions : BeginCapability(t, cap, version)
  \/ \E w \in Workers :
       \/ SaveSource(w) \/ AuditSource(w) \/ EnsurePackage(w)
       \/ FindCapability(w) \/ SaveVersion(w) \/ SaveCurrent(w)

-----------------------------------------------------------------------------
Idle == \A w \in Workers : work[w].at \in {"free", "failed"}

(* Unless two registrations overlapped, no two sources have one name, and  *)
(* no two ids differ in case only (except where one was made of a name).   *)
(* A source that was audited is still stored under its id, unless another  *)
(* name has led to the same id; a stored one is audited, unless the        *)
(* process died.                                                           *)
SourcesAreUnique ==
  ~clashed =>
    /\ \A a, b \in Registered :
         a # b => /\ sources[a] # sources[b]
                  /\ Lower(a) = Lower(b) => derived \cap {a, b} # {}
    /\ \A entry \in audited : sources[entry[1]] = entry[2] \/ entry[1] \in derived
    /\ Idle /\ ~died => \A key \in Registered : <<key, sources[key]>> \in audited

(* Whatever overlapped or died: a current capability has its package and   *)
(* its entry in the version store.  Only a death between the two stores    *)
(* leaves a version of a capability that has no current record, and only   *)
(* then the process fails to start.                                        *)
Stranded(cap) == current[cap] = Nothing /\ \E version \in Versions : <<cap, version>> \in versions

CapabilitiesAreWhole ==
  /\ \A cap \in Capabilities :
       current[cap] # Nothing => cap \in packaged /\ <<cap, current[cap]>> \in versions
  /\ Idle /\ (\E cap \in Capabilities : Stranded(cap)) => died
  /\ work[Startup].at = "failed" => Stranded(Known)
=============================================================================
