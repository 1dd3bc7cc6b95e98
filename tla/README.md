# TLA+ models of the MASTERDB ingestion and certification service

MASTERDB validates datasets, certifies them, keeps a registry of knowledge
packages with a lifecycle, answers retrieval requests about the packages that
are certified, ingests uploads into target databases, keeps governed documents
and registries, lists verified feeds of observations, applies events of other
services to entity states, and keeps a hash-chained audit trail. It is one
FastAPI application (`main.py`) over stores of one JSON file per key. Most
endpoints are plain functions, which FastAPI runs in a thread pool: requests
overlap, hardly any service holds a lock, and a save first truncates its file.
These models are about what that does to the promises of the services.

`PROJECT.json` names, for every definition, the lines it models, and lists the
hazards and findings; this file explains the whole.

## 1. The system

| Component | State it keeps | Operations | Modelled in |
|---|---|---|---|
| Package registry (`services/package_registry_service.py`) | one file per package: dataset, status, history | register, promote, deprecate; replay and audit_completeness judge a history | `PackageRegistry`, `PackageLifecycle`, `Lifecycle` |
| File store (`services/artifact_store.py`) | a directory | save, load, list_all, delete | `RecordFiles` |
| Validation, certification | one report per dataset | validate, certify; a rejection deprecates the packages of the dataset | `Certification` |
| Retrieval readiness, retrieval | evidence per package | assess, query, export, stream | `Retrieval` |
| Pravah event pipeline (`services/event_pipeline.py`, `pravah_ledger.py`, `state_machine.py`) | ledger and entity states, both in memory (`main.py:304` gives the ledger no file) | process_event, execute_pipeline, replay | `PravahPipeline` |
| Audit chain (`services/crypto_audit_emitter.py`) | entry files, manifest, chain in memory | emit, load, verify | `AuditChain` |
| Uploads and ingestion (`upload/`, `database_targets/`) | upload jobs, staged files, ingestion jobs, idempotency records, target databases | initiate, receive, validate, cancel; ingest | `UploadIngest` |
| Access grants (`services/capability_registry_service.py`) | a file per token and per request id, a cache per worker process | request_access, get_access_contract, revoke_access_contract | `AccessGrants` |
| Canonical documents (`canonical_repository/`) | documents, versions and category index in memory; a record per document | register, publish_version, reload | `CanonicalRepository` |
| BCAES registry (`bcaes_registry/`) | objects in memory and a record each; convergence in memory | register, update, delete, convergence, dependency walk | `BcaesRegistry`, `DependencyGraph` |
| Snapshots (`services/backup_service.py`) | none of their own | export, restore, reload | `BackupState`, `BackupRestore` |
| Knowledge objects (`services/knowledge_object_service.py`) | each object under two keys | register_object, lineage | `KnowledgeObjects` |
| Shared records (`services/shared_record_store.py`) | a record with its history per id | register, update, deprecate, replay | `SharedRecords` |
| Source registry, capability catalogue (`services/source_registry_service.py`, `capability_registry_service.py`) | a record per source; capabilities and versions in two stores | register_source, register_capability, start-up | `SourceRegistration` |
| Observation feeds and connectors (`integrations/`, `services/*_observation_service.py`, `main.py`) | rows per feed, fetch status and evidence in the source's record and in memory | fetch, ingest, verify, list, restore at start | `Connectors`, `FeedPlans`, `ObservationFeeds` |
| Circuit breaker and the clients behind it (`middleware/circuit_breaker.py`) | state, failures, time of the last failure | call | `OutboundClients` |
| OpenSky flights (`services/opensky_service.py`) | cached flights, OAuth token, break | get_states | `OpenSky` |
| Authentication (`auth/`) | secret per process | authenticate, issue and decode tokens | `Authentication` |
| Request middleware (`middleware/rate_limiter.py`, `security/middleware.py`) | windows, replay table per process | dispatch | `RequestLimits` |
| Validators, discovery, operational sync, geo-quest import, SQL store, scripts | see section 6 | | not modelled |

How they interact: certification writes the reports that the registry's
`promote` and the readiness assessment read, and calls the registry to withdraw
packages. Retrieval reads packages, reports and knowledge objects. Ingestion
writes a target database; a router that is given the upload and certification
services also certifies a dataset that has no report, reads the staged file and
moves the linked upload, but the application makes its router without them
(`main.py:419`). The event pipeline records in its ledger, drives
the entity states and emits to the audit chain; so do grants. A restore writes
the stores of documents and registry objects under their feet and then has both
reload. A connector registers a source, a package and a capability in turn.
Every request passes both middlewares before its handler. All of these are
direct calls in one process; only the stores are shared between processes.

What is hard: read-modify-write without a lock (registry, reports, uploads,
knowledge objects, shared records, source records); decisions on a value read
some steps earlier (the certification gate, the readiness assessment, the grant
cache, a token's expiry); a call that raises between two changes of one object
(the metadata of an event); files torn by a death or by two writers at once;
several files, stores or services that have to be changed together (entry and
manifest, token and request id, job and idempotency record, report and packages,
ledger and entity state, the two keys of an object, version and capability,
registry record and process memory); retries by clients under the same and
under other keys; answers that come back late and out of order; tables at their
size and windows at their last moment.

## 2. The modules

**RecordFiles** gives a stored file four forms: absent, a record, `Partial`
(truncated by `open(path, "w")`, not yet written) and `Garbled` (two writers
that had both opened it). Modules that care save in two steps, open and write,
and read what a reader sees in between.

**PackageLifecycle** has `PACKAGE_LIFECYCLE_GRAPH` and the two judgements on a
history. **Lifecycle** is the abstract specification: a package is registered
once and then moves along the graph, one edge at a time. **PackageRegistry** is
the detailed one. Each thread has a `job`: `promote` loads a record and decides
(`LoadForPromote`), reads the report when it promotes into CERTIFIED or
RETRIEVAL_READY (`PassGate`, `StopAtGate`), then opens and writes the file.
`Crash` drops what threads hold and leaves the files. Reports are constant
here, over every value they may have. `committed` is a history variable: the
record the last completed save left; the refinement maps the abstract status to
it.

**Certification** adds `validate` and `certify`, which change the reports, and
each of the ways to call `certify` (by dataset, where there is a report or not,
and by file, which validates again over any report), and the withdrawal of
packages as certify performs it: list the registry file by file, then deprecate
one after another with calls into the registry's actions. **Retrieval** adds the
assessment (package, report, evidence read and saved in order) and the query
with its listing and selection. The three modules compose by extension: the
registry's steps are the same actions throughout.

**PravahPipeline** is one event loop: the handlers of `api/pravah.py` await
nothing that suspends, so a handler runs to its end, and is cut only where the
process may die or a call in it may raise. One is the audit emitter. Others come
from the event's metadata, which the state takes over in the middle of a
transition: an update with what is not a mapping raises after status, version
and `applied_events` have changed and before the log is appended to, and keys
that cannot be sorted make the hash of the state raise ever after.
`process_event` catches neither (`BreakOff`); a replay counts the error and goes
on. A payload is therefore three truth values: the rule passes, the metadata is
mappable, its keys are sortable. `Restart` loses ledger and states, which are in
memory only.

**AuditChain** cuts `emit` into its file operations: write the entry, write the
manifest, and remove the entry when the manifest fails. Each may fail or be cut
by a death, and one entry file may be lost from outside (`damage`).
Hashes are injective: a hash is the sequence of events below it.

**UploadIngest** has the endpoints on uploads, which load, work and save without
a lock, and `ingest`, which holds a lock for requests with an idempotency key.
Every effect of `ingest` is a step: gate, automatic certification, reading the
records, writing the target, the three moves of the upload, saving the job,
saving the key. `attached` says whether the router has the services for
certification and uploads; without them the gate demands a report, records are
read from `datasets/` only and no upload moves. An upload is linked by the
request's `upload_id`, or by a dataset of the same id. Saves are whole here, as
in all the modules below: torn files are the subject of the registry's, the
audit chain's and the grants' models.

**AccessGrants** has threads in several worker processes. A grant is cached,
saved under its token and then under its request id, each save an open and a
write. A lookup loads the key and decides in a later step, and `DELETE
/access/{id}` performs three lookups before it changes anything, all as in the
code. Left out: the checks that precede a grant, the actor it is bound to, and
expiry.

**CanonicalRepository** cuts `register` and `publish_version` where they read
and write the three dictionaries and the store; **BcaesRegistry** does the same
for objects that depend on each other, with the convergence records that no
store keeps. An update that gives no dependencies checks none, so it may leave
one that no longer resolves. **BackupState** is what both need to know of a
restore, and **BackupRestore** composes them with export (one store, then the
other; `export` is what has been read), restore (record by record, each of which
may raise), the two reloads, and a restart at any step. **DependencyGraph** is
the registry's recursive walk; TLC compares it with reachability over every
small graph, in the assumption `WalkAssumption` of `MCBackupRestore`.

**KnowledgeObjects** stores an object and its parent in four saves; any may
fail or be the last. **SharedRecords** loads, decides and saves one record.
**RecordRequests** puts the two side by side.

**Connectors** says what each connector makes of an upstream's rows: which are
skipped, which spoil the answer, what is tried again. **FeedPlans** writes the
ingestion and verification endpoints of `main.py` as sequences of instructions
(save a row, load and store the source record, remember a status, read back),
and **ObservationFeeds** runs the plans of concurrent requests, one instruction
of one plan at a time, with stores that raise, a registry that raises
(`RegistryRaises`, `CompareRaises`; what follows differs by endpoint) and
restarts that restore memory from the registry. A request has one time of
verification, except that the record of the regions is stamped with a later
reading of the clock (`Stamp`). Of the cyclones, tracks, points and cones are
one part of the listing, and an answer without current features counts as
unavailable. **SourceRegistration** is the registration of sources and
capabilities by request, by the geospatial connector and by the process that
starts. **SourceRequests** composes them.

**OutboundClients** has the breaker as a value with operators, and callers of
one client: they are admitted, send, and come back late, and each client differs
in what of an exchange its breaker hears. **OpenSky** has threads
over the shared cache, the OAuth token and the break after a failure.
**OutboundCalls** composes the two, with the fairness.

**Authentication** gives tokens to actors under every configuration of
passwords, secret and role mapping. **RequestLimits** has the two middlewares in
the order requests meet them. A request with a one-time token takes two steps
there, because the clock is read twice: `Verify` checks the expiry, `Register`
cleans the table up and looks the token up in it. No other request of the worker
comes in between, but time may pass. **InboundRequests** has the requests, the
clock and the restarts.

The `MC` modules give the constants their values.

## 3. What the runs check

Each `pass` run is exhaustive within its bounds.

| Run | Question | Bounds |
|---|---|---|
| `registry_races` | Can concurrency or a death produce a stored history that is illegal, incomplete, or past the gate unjustly? No: races lose whole records, they never mix two. | 3 threads, 1 package, 1 dataset with every report, any number of deaths |
| `retrieval_one_at_a_time` | With one request at a time and deaths anywhere, does the registry implement `Lifecycle`, does a rejection withdraw every package, is every grant current? Yes, except withdrawals that a death or a registry error cut short (`interrupted`). | 1 thread, 2 packages of 1 dataset |
| `pravah_ledger_and_states` | Do ledger, entity states and audit trail agree through retries, replays, pipelines and restarts? Yes, up to what a replay or an event whose metadata raises leaves. | 1 entity, 3 posted events, 2 pipelines, 2 events made by them, every replay slice |
| `audit_crashes` | Does every returned entry stay, and does an undamaged store load and verify, whatever fails? Yes. | 3 entries, 2 events |
| `upload_ingest_races` | Do keys, jobs, targets and uploads agree under concurrent requests and a death? Yes; the only way off the upload lifecycle is a lost update. | 2 threads, 1 upload, 2 datasets (1 has the upload's id), a router with or without the services, 2 contents, 2 jobs, 1 death |
| `grants_across_workers` | Does a confirmed revocation hold in every worker, by both credentials, and is a grant refused only for a reason? Yes, when request ids are not used twice. | 3 threads in 2 workers, 1 grant, 1 failure or death |
| `documents_and_restore` | Do chains verify, are categories unique, do deletions last, and do memory and store agree, through overlapping requests, exports, restores, failing saves and deaths? Yes, except where requests overlapped, a save failed or a restore ended early. | 2 threads on 2 documents of 1 category or on 2 objects, 3 versions, 5 requests and deaths |
| `objects_and_records` | Is a package a descendant of its first ancestor, do both keys of an object agree, do versions of shared records count their changes? Yes, unless requests overlapped, and for objects unless one was cut. | 2 threads; 3 packages of 2 schemas, 3 objects, one failure or death; 2 records, 5 changes |
| `observation_feeds` | Is what is listed as verified verified and stored, does a restart list the same, and are sources and capabilities whole and unique? Yes, with the exceptions the properties name. | 2 threads, each of 17 kinds of feed, 2 records, 3 requests, 1 restart; 3 ids, 3 names, 2 capabilities of 2 versions, 3 registrations, 1 death |
| `outbound_calls` | Is a service that is well used again, an outage cut off, and does the flight feed come back? Yes. Are bearers valid and answers whole? Yes, for requests that follow one another and are about a box. | 2 callers of each of 5 clients, threshold 2, recovery after 2 ticks; 2 askers, 2 boxes and everywhere, a cache of 2 ticks, a break of 3, tokens of 4 with a margin of 2 |
| `inbound_requests` | Are privileged roles earned, is Retry-After enough, does a worker let a one-time token pass twice only when its table was full, or when the token ran out between verification and registration? Yes. | 1 worker, 24 configurations, 5 moments, 2 requests per window of 1, 3 one-time tokens for a table of 2, 1 restart |

Why the bounds suffice. The registry's actions touch one package and one report
at a time, so races need one package; three threads give every pair of writers
an interfering third. The graph is walked to its end, so no history is cut short
by a bound. A withdrawal needs two packages to be cut between them. The three
events are one move by type, one that asks for nothing and one whose metadata
raises; of the pipelines one has two hops and one spoils the hash. On one entity
they reach every pair of overlapping effects, because events on different
entities share only the ledger's order. Three audit entries are one before, one
at and one after a fault. An ingestion interferes with one other request; jobs
are bounded by `MaxJobs`, which is one more than one retry needs. With request
ids of their own, grants share nothing but the worker's steps.

Documents and objects share nothing but the restore, which visits one store
after the other, so a behaviour makes the one or the other (`Mixed`). Two
documents of one category are what a duplicate takes, and two objects what a
dangling dependency takes; five requests are two of each, or a restore, around
an overlap. Feeds share no state, so a behaviour is about one of them; of two
records one is a storm, so every feed has a row to lose and a row to keep. Three
requests are one that leaves something behind, one that overlaps it and one
that runs alone after them. One failure is one more than the code survives in
most places, and the property names what it leaves.

For OpenSky a tick is fifteen seconds. The cache lives two ticks, the break is
longer than that, and a token lives for the margin and two ticks more, so that
a call is begun before, at and after each limit. Requests under an account ask
about one box (`BoxesFor`), because boxes and accounts have nothing to do with
each other. The time of the cached flights and their box are written in one
step, as two assignments that nothing can read in between without the lock of
the interpreter. A window of one and five moments put requests on both sides of
the window's last moment; a table of two overflows at the third token. One
worker is enough, as workers have no table in common, and a token of the other
process is one of before the restart.

Symmetry is used for thread names, and for package ids where no constant tells
them apart; never in the run with liveness.

`CHECK_DEADLOCK FALSE` is set where the system stops for good (the audit
service that cannot start over a torn manifest) or where a bound is used up
(uploads, requests, registrations, moments).

One run expects a violation: `registry_lost_update` (`SavesFollowTheGraph`): two
promotions load one record; the later save takes a deprecated package back to
an active status. `PROJECT.json` lists 33 more findings. Each is a place where
a property holds only with an exception that it spells out, or a line that
contradicts its documentation. The most far-reaching ones:

- the certification gate lets pass a dataset that has no report;
- an idempotency key sent again under a new event id is applied again;
- an event whose metadata is not a mapping is applied and then breaks off: no log
  entry, and its ledger entry stays `PENDING`;
- the application's ingestion neither certifies a dataset nor reads or moves an
  upload, since its router is made without those services;
- a manifest torn by a death keeps the audit service from starting, and a
  service that goes on over a gap rewrites it as if nothing were missing;
- a grant under a request id that was used before is answered from a worker's
  cache after it was revoked;
- a death between the two stores of capabilities leaves a version without a
  capability, over which the process cannot start when it is the default one;
- a restore that raises leaves memory and store apart until a restart;
- registering a parent again loses its children;
- a fetch status saved over a validation takes the validation back, and a dams
  ingestion that fails leaves the dams listed as verified;
- a restart lists the regions with another time of verification;
- an HTTP error counts as a success for the breakers of three clients, and a
  late success closes a breaker that has just opened;
- flights asked for without a box are those of the box asked about last;
- a request refused by the rate limiter has already used up its one-time token,
  and one that runs out between the two readings of the clock is accepted twice.

Properties worth reading first: `StoredHistoriesReplay`, `RejectionWithdraws`,
`GrantsAreCurrent`, `LifecyclePromise`, `LedgerAgreesWithStates`,
`KeyIngestsOnce`, `OffLifecycleOnlyIfStale`, `RefusalsAreExplained`,
`MemoryIsStored`, `DeletionsLast`, `LineageIsMutual`, `ClaimsAreBacked`,
`RestartKeepsListing`, `CapabilitiesAreWhole`, `BreakerRecovers`,
`FeedComesBack`, `RetryAfterIsEnough`. For every property of a passing run
`PROJECT.json` has a mutant of the code that TLC finds to violate it; the
mutants are the definitions commented "a defect".

## 4. Fairness

The properties of the stores are safety properties and assume none: a request
that stops half-way is not resumed, nothing is retried in the background, and a
death may come before any step.

`OutboundCalls` assumes weak fairness of the clock, of a caller that sends
again, and of the end of a call. The code justifies that calls end: every client
and OpenSkyService set a timeout on their requests, and the breaker is not
locked while one is on its way. That requests keep coming is an assumption about
the environment, since the breaker and the break after a failure are only looked
at by the next request; requests may be of any kind and about any box. Under it,
`BreakerRecovers`: a service that stays well is used again for good, whatever
late answers of the outage come back. `OutageOpensBreaker`: an outage that the
breaker can see keeps being cut off. `FeedComesBack`: OpenSky is asked again and
again once it answers, although every answer, also one of recorded flights, is
kept for the next requests.

## 5. What is proved

`tlapm` checks eight modules of proofs. A theorem holds for every value of the
constants that the assumptions at the end of this section allow; a hypothesis a
theorem has besides is named with it.

**PackageRegistryProofs** proves `Spec => []IInv` (`SpecIInv`), where

    IInv == TypeOK /\ FilesSound /\ JobsSound

`FilesSound` says that every record a reader can decode is a complete legal
walk to its status and, if it ever entered a certified status, is of a dataset
whose gate is open. This is not inductive by itself, since a thread saves a
record it prepared earlier: `JobsSound` says the same of what threads hold,
except that a record still at the gate need not have passed it. The proof has a
lemma per action; the two that carry it are `MovedWalks` (appending an edge of
the graph to a complete walk gives one) and the write, where `Overwritten`
leaves either the thread's record, or a file no reader can decode, or nothing.
`TypeCorrect`, `HistoriesReplay` and `CertificationGate` follow; the last two
are what `registry_races` checks.

The rest of the module is about one thread (`Threads = {one}` where the theorem
is about `RetrievalSpec`). The file holds the last record saved unless a save is
under way or was cut by a death (`OneWriterSaves`), and the registry then
implements `Lifecycle` (`OneWriterKeepsThePromise`): each write maps to one
promotion, each other step to a stutter. The invariant adds to `IInv` that the
record a thread holds follows by one edge from the one last saved.
`RejectionsWithdraw` needs `WithdrawalInv`: the packages certify() has yet to
visit include every certified one of the dataset (`ListIsComplete`), and a
rejected dataset that nobody is withdrawing and no death interrupted has none
(`RejectedAreWithdrawn`). `GrantsStayCurrent` adds `AccessInv`: what an access
has concluded of a package, in its evidence or among what it found, is
`NOT_RETRIEVABLE` or would be concluded of it now. With two threads the
promise fails (`registry_lost_update`); the run of the last two has one thread
as well.

**AuditChain**, in **StoreProofs**: the three invariants of `audit_crashes` from
one (`AuditIInv`), in the cases of a store that is undamaged and of one that
lost a file, until a load goes on over the loss:

    IInv == damage # "tolerated" => Kept
    Kept == AuditType /\ CallSound /\ ChainSound /\ StoreSound
            /\ (damage = "none" => Undamaged)

`ChainSound` ties the running service's chain to the files and to what emit has
returned; `StoreSound` says the same of the files under the manifest alone,
which is what is left when the service dies; `CallSound` says how far the emit
that is under way has come. A load re-establishes the first from the second, by
an induction over the loaded entries. None of the three is inductive without the
others, since a death turns one into the other at any step of emit.

**Documents and registry objects**, in the same module, are `BackupRestore`
under any threads. For objects (`RegistryObjInv`):

    ObjInv == ObjType /\ ObjAlone /\ FreshObj /\ Working /\ Deleting
              /\ DeletionsLast /\ NamesResolve /\ ObjSynced

`ObjAlone` turns the history variable into a fact: an object not in
`objOverlaps` is used by one request at a time and by none during a restore.
`DeletionsLast` is a property itself (`DeletionsStay`): nothing but an overlap,
a restore or a record that was not erased brings a deleted object back. It needs
`Working` and `Deleting`, which say what a request on an object may rely on
between its change of memory and its change of the store, and `FreshObj`, by
which an object nobody has registered is named nowhere. `NamesResolve` says of
every place a dependency can be named in (memory, store, a request, the
snapshot, an export) that the object named is stored or about to be, and in
memory unless a restore is between clearing and filling. An update that leaves
the dependencies alone takes them from memory, so it names nothing new.
`UnresolvedAreDeleted` reads it off the store. `ObjSynced` says where memory and
store may differ: at the save or removal under way, and while a restore fills.
For documents (`DocumentsInv`):

    DocInv == DocType /\ DocAlone /\ DocsSound /\ CategoriesSound

`DocsSound` is a conjunction per document: unmade documents are nowhere
(`FreshAt`); every list of versions, in memory, store, snapshot or a request, is
built on what it keeps, and so is what a thread is about to append to it
(`BuiltAt`); a request that no restore overlapped finds its document
(`EnteredAt`); chains of documents never overlapped are whole (`GoodAt`) and
memory is as stored (`SyncedAt`). `PredecessorsStay` needs only the first two,
for any interleaving; it is not inductive on the store alone since what is saved
was read from memory, and what is in memory from a store or a snapshot.
`CategoriesSound` says that a document has one category wherever it is found,
and that a document claiming a category nobody overlapped on is stored under it
or about to be, and is the one the index has; `CategoriesStayUnique` follows.
`MemoryStaysStored` takes `ObjSynced` and `SyncedAt` together.

**PravahProofs** proves four properties of the pipeline, under the hypothesis
`EventsApart`: events that differ share neither id nor idempotency key. Without
it the agreement fails, by the design of the ledger's lookup. The invariant:

    IInv == LedgerSound /\ StatesSound /\ PipelineSound /\ TaskSound
            /\ \A i \in Positions : Agrees(i) /\ IsAudited(i)

`StatesSound` gives `StatesExplained`. Of each state it says that the events
applied to it are recorded for it, each occurs once, and their targets are a
walk to its status (`AppliedSound`), and that its log tells this walk by
version, leaving out exactly the events whose metadata raised (`LogSound`).
`Agrees` and `IsAudited`, which speak of one entry, give `LedgerAgrees` and
`OutcomesAudited`. An applied event whose entry is not `COMMITTED` was applied
by a replay, or has metadata that raised, or its state can no longer be hashed.
They hold between steps only with `TaskSound`, which says what of the event
under way is settled and what is to be emitted, and with `LedgerSound`, by which
an id is at one place in the ledger. `CommitmentsStay` is an action property
from the same invariant.

**UploadProofs** proves the three properties of ingestion:

    IInv == UploadType /\ LockSound /\ KeySound /\ TargetSound

`LockSound`: a request with a key that is past the check holds the lock, and its
key is not recorded yet. From it `KeySound` counts: the jobs of a key are at
most one more than the deaths, the one more being the job whose key a thread is
about to record; so a key is recorded with one job (`KeysIngestOnce`).
`TargetSound` says that what a target holds is told of by a job or held by a
thread (`TargetIsAccountedFor`). None of them depends on `attached`, so all hold
of the application's router as of one with the services. `OffLifecycleIsStale`
is an action property: a method accepted the status it loaded (`CallSound`), so
a step off the lifecycle saves a job that changed since.

**RecordProofs** proves `ChangesCount`, and `RecordsReplay`, which no run
checks: each request's own computation gives it. Every record a thread holds is
as good as those in the store (`RecordsWhole`), and counts one change more than
were confirmed, or less when it was overtaken (`Counted`). Of knowledge objects
it proves `KeysStayTogether`: `KnowledgeInv` says that an id is of one package
(`IdsOwned`), that threads hold nothing in common on packages without an
overlap, and that the two files differ only under the thread that is between
them. `LineagesAgree` is proved over it from `LineageInv`: an object in view,
stored under its package or about to be saved, is listed by the parent it names,
except where a step of the same thread will list it.

**SourceProofs** proves `CapabilitiesStayWhole`: what a worker is about to make
current has its package and version, and a version without a current record is
in the hands of a worker at its last step unless the process died; that the
starting process fails only over such a version needs, in addition, that nobody
is served before it has started. It also proves `SourcesStayUnique`: while no
two registrations overlap at most one worker is busy, so what it found before
its first step (a new name, a new id) still holds when it saves.

Of the feeds it proves `ClaimsStayBacked`, for any interleaving, failure and
restart. A feed is claimed to be verified at one place of a plan and listed so
at another, perhaps after a restart, so the invariant speaks of all places a
claim can be at:

    FeedInv == FeedType /\ RecordsSound /\ ListingsSound /\ JobsSound

`RecordsSound` says what a registry record that a restart would believe may
claim, `ListingsSound` the same of the process's listing, and `JobsSound` of the
record a request holds and of every instruction it still has to do, those behind
a read-back included. A claim is backed when the verification it names was
recorded and its rows are still stored (`VerifiedAt`), which no step takes back
(`Grows`). The plans are not opened suffix by suffix: an instruction is sound by
itself (a save, a mark, a status to remember), what remains of a sound plan is
sound, and so are joined plans, so each endpoint's plan is evaluated once. Fires
are saved before they are verified and nobody looks for them, so of their plans
the invariant says in addition that what is about to be verified is stored or
still to be saved.

Two more theorems are about a request that runs alone: `RestartKeepsListed` and
`StormsStayListed`. A registry that raises ends that (`alone`), because the tile
endpoints then list what their record does not say. Times of verification are
kept except for imagery, and for the regions up to the second reading of the
clock (`SameTime`); a failed bundle stays listed until the restart. They do
speak of whole plans, of what their instructions make, one after the other, of
listing and registry, whatever these were before.

    Settles(mem, reg) == StormsKnown(mem) /\ \A part : Agrees(part, mem[part], reg[part])
    AloneInv == Dated /\ (alone => Sole)

`Settles` is what the two properties say of a listing and a registry at rest.
`Concludes(p, n, s)` says that the plan p of the request of time n, begun in the
state s, settles. It is not a recursion over plans, which could not be unfolded
here, but asks for a set that contains p and s, and with each plan and state the
next one (`Closed`); `OneMore` and `GoingOn` add and take off an instruction.
From them every continuation of every endpoint is shown to settle, by one lemma
per kind of plan that runs it symbolically (`FailsEnds`, `ValidatedEnds`,
`VerifiedEnds`, `CyclonesEnd`, `ImageryEnds`). Rows are stored first
(`Gathers`); what follows depends on their number and, for the storms, on their
stamps, so `Sole` says of the request that is busy that it is still storing, or
that its plan concludes from where it is. Of storms that are being stored it
says that rows and snapshot of the request's time are those of its answer, or
will be (`Storing`); that no older row or verification has that time is `Dated`.
A restart of an idle process reads off the registry what `Settles` says it
would. TLC evaluates the two properties but not `AloneInv`, whose sets of plans
and states it cannot enumerate.

**CallProofs** is about both directions. Inbound it proves
`PrivilegesAreEarned`, from what tokens are issued with, and `ReplaysHold`: a
token that a worker has let through is in its table, has run out, or was dropped
by the full table (`Remembered`), and one that it has verified had not run out
then (`CheckedInTime`). So if it is let through again, it was dropped, or it ran
out between its verification and its registration. Of OpenSky it proves
`BearersHold` for overlapping requests: a token is reused only while it lasts
for the margin, and a request takes it up and sends it within a call's time each
(`BearerInv`), so a margin of two calls suffices. That is the assumption `Margin
>= 2 * CallTicks`, which the code's 30 seconds and timeouts of one and two
seconds meet. `SequentialAnswersHold` is about requests that follow one another:
the cache then holds the flights it is said to hold, but for the one request
that is writing it (`AloneInv`). `RetryAfterSuffices` is about the rate limit: a
client that waits as long as a refusal told it to is not refused, unless its key
was used meanwhile. From a refusal on the window stays full, with the oldest
request that the refusal counted from at its head, until somebody is let through
(`WindowInv`); once that request is older than the window, there is room
(`LeftFirst`: what stays in a window is a tail of it).

**GrantProofs** proves `RevokedStayRefused` when every grant has a request id of
its own (`IdsOwned`, a hypothesis of its theorems; the finding on reused ids
says what happens without it). The property is about answers; what makes it hold
is about files and saves:

    IInv == GrantType /\ CacheSound /\ OneIssuer /\ StoreSound
            /\ \A t : SaveSound(t) /\ LookSound(t) /\ ReloadSound(t)

A revocation could be undone only by a save of request_access that comes after
it. `StoreSound` and `LookSound` say there is none: the request id is saved
last, so whoever reads a live record under it reads it after both saves, and a
token is known only once it was returned. So a revocation starts after them
(`Written`), from then on every save of the grant is of a revoked record, and
once confirmed neither file holds a live one. That the cache cannot bring it
back is `CacheSound`: it holds a grant only under the grant's own keys, so that
the live record the lookup demands is one of the same grant. The converse,
`RefusalsExplained`, adds `KeptInv`: both files of an issued grant hold its live
record, unless its revocation began to save or a save of it was cut short, and a
thread in the middle of a lookup has read one of them or will.

Assumptions on constants, all named and evaluated by TLC:
- files and absence: `MarksDistinct` (the marks of a file differ),
  `RecordsAreNotMarks`, `NeitherIsAMark` (no record is one), `NoRecordAssumption`,
  `NothingAssumption`, `NoneIsNoDocument`, `NoneIsNoObject`, `JobsAreSomething`
  (what stands for no record, version, name or job is none);
- requests: `KnownAssumption`, `GrantsAssumption`, `ContentsAssumption`,
  `KnowledgeAssumption`, `PreparedPackages`, `EventsAreEvents`,
  `PipelinesAreRequests` (what is asked for is of the kind the endpoint takes),
  `DerivedAssumption` (a name gives a key), `FeedKindsAssumption`, `MintedIdsAreNew` (an id made for a
  hop is new, as a UUID is), `StartupAssumption` (the starting process is no
  request thread);
- feeds: `IdsAssumption` (ids are finitely many, storms have ids);
- numbers: `MaxEntriesIsNat`, `AuthAssumption`, `LimitsAssumption`,
  `BreakerAssumption`, `OpenSkyAssumption` (the margin, above).

The other modules' assumptions constrain the constants TLC gives them.

## 6. What is only model-checked, and what is not modelled

Only model-checked:

- Liveness (`BreakerRecovers`, `OutageOpensBreaker`, `FeedComesBack`), which is
  out of the prover's reach. Every other property of a passing run is stated by
  a theorem.
- The recursive walk of `DependencyGraph`, which no module with a theorem uses.
- Reports that change, in the interleavings of several threads: reports are
  constant in `CertificationGate`, and `RejectionsWithdraw` is for one thread.

Not modelled, and why:

- Scores, risk flags and validators are the verdict they lead to. Text, times
  and checksums are opaque values; rows have a quality, a place and the answer
  they are of.
- The SQL store: its saves are transactions, so the races on whole records that
  the models show remain and torn files do not.
- Operational sync, task selection, discovery, and the interfaces that combine
  other services' answers keep nothing that two requests could get wrong.
- The geo-quest import validates one bundle by its content; what it stores it
  stores with the saves modelled elsewhere.
- Tile, grid and image decoding in the connectors, the contents of what other
  services answer, RS256 tokens beyond the actor they name, ownership checks,
  and what each endpoint demands of an identity.
- `UPLOAD_LIFECYCLE_GRAPH` is consulted by no code: each upload method has
  guards of its own, so the model has those, and the graph only in a property.
- Scripts, recorded evidence, fixtures and bundled data are no part of the
  running service.

`PROJECT.json` says the same for each component.

## 7. Left to do

1. Abstract specifications: an append-only ledger for `AuditChain` and for the
   Pravah ledger, and an ingestion that happens once per key for
   `UploadIngest`, as refinements.
2. The SQL store under `CanonicalRepository`, the policy checks that precede a
   grant, and expiry of grants and uploads against the clock.
