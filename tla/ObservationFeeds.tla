--------------------------- MODULE ObservationFeeds ---------------------------
(***************************************************************************)
(* The feeds of main.py: requests fetch from an upstream, store its rows,  *)
(* and record that they are verified, twice: in the source's registry      *)
(* record, which is loaded, changed and saved whole, and in the process's  *)
(* memory, which /live-datasets lists.  Memory is restored from the        *)
(* registry when the process starts.  Nothing is locked.                   *)
(*                                                                         *)
(* Feeds share no state, so a behaviour is about one of them.  The plans   *)
(* of FeedPlans are run one instruction at a time.  A time is the number   *)
(* of the request that read the clock when its rows were found; a later    *)
(* reading of the same request is a time of its own (Stamp).               *)
(***************************************************************************)
EXTENDS FeedPlans, FiniteSetsExt

CONSTANTS FeedKinds,    \* the kinds of feed to look at
          FThreads,     \* request threads
          MaxRequests,  \* bound: requests that change anything
          MaxRestarts   \* bound: restarts

VARIABLES feed,      \* the kind of feed this behaviour is about
          registry,  \* the source records: fetch status, validation time, evidence
          memory,    \* what the process lists: status and time of verification
          rows,      \* per table and id, what was stored: 0 is absent
          snapshot,  \* the last storms: the ids, and the answer they are of
          bundle,    \* the bundled file of a static feed: its ids and the valid ones
          jobs,      \* what is left to do of each thread's request
          alone,     \* history: the last request was alone, and ran to its end
          verified,  \* history: the verifications that succeeded
          requests, restarts

feedVars == <<feed, registry, memory, rows, snapshot, bundle, jobs, alone, verified, requests, restarts>>

Unread == [fetch |-> "none"]
NoJob == [todo |-> <<>>, at |-> 0, held |-> Unread]

-----------------------------------------------------------------------------
(* The seeds.  A source without a status is stamped as validated now.      *)
Seeded == MaxRequests + 1

Seed(kind) ==
  [fetch |-> CASE kind \in Observed -> "PENDING" [] kind \in {"firms", "tomtom"} -> "none" [] OTHER -> "NOT VERIFIED",
   stamp |-> IF kind \in {"firms", "tomtom"} THEN Seeded ELSE 0,
   evidence |-> NoEvidence]

Stored(table) == Cardinality({id \in Ids : rows[<<table, id>>] # 0})

Status(status, at) == [status |-> status, at |-> at]

(* What a starting process takes for the state of a feed: each kind reads  *)
(* other fields of its source record.                                      *)
RestoredObservations(record) ==
  IF /\ record.fetch = "LIVE_VERIFIED" /\ record.evidence.status = "LIVE_VERIFIED"
     /\ record.evidence.stored = Stored("records")
  THEN Status("LIVE_VERIFIED", record.evidence.at)
  ELSE Status(IF record.fetch = "UNAVAILABLE" THEN "UNAVAILABLE" ELSE "PENDING", 0)

RestoredRegions(record) ==
  IF record.fetch = "STATIC_VERIFIED"
  THEN IF record.evidence.stored = Stored("records") /\ record.evidence.stored = Stored("geometries")
       THEN Status("STATIC_VERIFIED", record.stamp)
       ELSE Status("UNAVAILABLE", 0)
  ELSE Status(IF record.fetch \in {"STATIC_PARTIAL", "UNAVAILABLE"} THEN record.fetch ELSE "UNVERIFIED", 0)

RestoredTiles(record) ==
  IF record.evidence # NoEvidence THEN Status(record.evidence.status, record.evidence.at)
  ELSE Status(IF record.fetch = "UNAVAILABLE" THEN "UNAVAILABLE" ELSE "CONFIGURED", 0)

RestoredBundle(record) ==
  IF record.fetch = "STATIC_VERIFIED" THEN Status("STATIC_VERIFIED", record.stamp) ELSE Status("UNVERIFIED", 0)

(* Fires and traffic are live once there is a validation time.             *)
RestoredByStamp(kind, record) ==
  Status(IF kind = "tomtom" /\ record.fetch = "UNAVAILABLE" THEN "UNAVAILABLE"
         ELSE IF record.stamp # 0 THEN "LIVE_VERIFIED" ELSE "CONFIGURED", record.stamp)

RestoredByStatus(record) ==
  Status(record.fetch, IF record.fetch = "LIVE_VERIFIED" THEN record.stamp ELSE 0)

Restored(kind, record) ==
  CASE kind \in Observed -> RestoredObservations(record)
    [] kind = "regions" -> RestoredRegions(record)
    [] kind \in Tiled -> RestoredTiles(record)
    [] kind \in Bundles -> RestoredBundle(record)
    [] kind \in {"firms", "tomtom"} -> RestoredByStamp(kind, record)
    [] OTHER -> RestoredByStatus(record)

(* What /live-datasets shows of a status.  Some are listed by their time   *)
(* alone, and some as configured until they are verified or fail.          *)
ListedByTime(kind, state) ==
  CASE state.at = 0 -> IF kind = "firms" THEN "CONFIGURED" ELSE "UNVERIFIED"
    [] OTHER -> Success(kind)

ListedOnceVerified(state) ==
  IF state.status \in {"UNAVAILABLE", "LIVE_VERIFIED"} THEN state.status ELSE "CONFIGURED"

Listed(kind, state) ==
  CASE kind \in Bundles \cup {"firms"} -> ListedByTime(kind, state)
    [] kind \in Weather \cup Imagery -> ListedOnceVerified(state)
    [] OTHER -> state.status

(* The observation feeds also correct the record they do not believe.      *)
Corrected(kind, record) ==
  LET status == Restored(kind, record).status
  IN IF kind \in Observed /\ status # record.fetch
     THEN [record EXCEPT !.fetch = status, !.evidence = Evidence(status, Stored("records"), 0)]
     ELSE record

Init ==
  /\ feed \in FeedKinds
  /\ rows = [row \in Tables \X Ids |-> 0]
  /\ registry = [part \in Parts(feed) |-> Seed(feed)]
  /\ memory = [part \in Parts(feed) |-> Restored(feed, registry[part])]
  /\ snapshot = [ids |-> {}, at |-> 0]
  /\ bundle \in IF feed \in Static THEN [ids : {Ids}, valid : {Ids}, version : {1}]
                ELSE {[ids |-> {}, valid |-> {}, version |-> 0]}
  /\ jobs = [t \in FThreads |-> NoJob]
  /\ alone = TRUE /\ verified = {} /\ requests = 0 /\ restarts = 0

-----------------------------------------------------------------------------
Busy(t) == jobs[t].todo # <<>>

(* A request whose plan is empty changes nothing.                          *)
Begin(t, plan) ==
  /\ ~Busy(t) /\ requests < MaxRequests /\ plan # <<>>
  /\ requests' = requests + 1
  /\ jobs' = [jobs EXCEPT ![t] = [todo |-> plan, at |-> requests + 1, held |-> Unread]]
  /\ alone' = \A u \in FThreads : ~Busy(u)
  /\ UNCHANGED <<feed, registry, memory, rows, snapshot, bundle, verified, restarts>>

(* What the connector may make of the upstream.  A static feed reads the   *)
(* bundled file.                                                           *)
FetchAnswers == [kind \in Kinds \ Static |-> AnswersOf(kind)]

Answers == IF feed \in Static THEN BundleAnswers(feed, bundle) ELSE FetchAnswers[feed]

Fetch(t) == \E answer \in Answers : Begin(t, Endpoint(feed, answer))

-----------------------------------------------------------------------------
(* One instruction of a thread's plan; what is left of the plan follows.   *)
Doing(t, op) == Busy(t) /\ Head(jobs[t].todo).op = op

Goes(t, plan) ==
  jobs' = [jobs EXCEPT ![t] = IF plan = <<>> THEN NoJob ELSE [todo |-> plan, at |-> @.at, held |-> Unread]]

Now(t) == Head(jobs[t].todo)
Rest(t) == Tail(jobs[t].todo)

Content(t) == IF feed \in Static THEN bundle.version ELSE jobs[t].at

SaveRow(t) ==
  /\ Doing(t, "save")
  /\ rows' = [rows EXCEPT ![<<Now(t).table, Now(t).id>>] = Content(t)]
  /\ Goes(t, Rest(t))
  /\ UNCHANGED <<feed, registry, memory, snapshot, bundle, alone, verified, requests, restarts>>

(* The store raises instead, and the endpoint's handlers decide.           *)
SaveRaises(t) ==
  /\ Doing(t, "save")
  /\ Goes(t, Raised(feed))
  /\ alone' = (alone /\ Raised(feed) # <<>>)
  /\ UNCHANGED <<feed, registry, memory, rows, snapshot, bundle, verified, requests, restarts>>

Stale(t) == {id \in Ids \ Now(t).keep : rows[<<Now(t).table, id>>] # 0}

PruneRow(t) ==
  /\ Doing(t, "prune") /\ Stale(t) # {}
  /\ rows' = [rows EXCEPT ![<<Now(t).table, Min(Stale(t))>>] = 0]
  /\ UNCHANGED <<feed, registry, memory, snapshot, bundle, jobs, alone, verified, requests, restarts>>

PrunesNone(t) ==
  /\ Doing(t, "prune") /\ Stale(t) = {}
  /\ Goes(t, Rest(t))
  /\ UNCHANGED <<feed, registry, memory, rows, snapshot, bundle, alone, verified, requests, restarts>>

SaveSnapshot(t) ==
  /\ Doing(t, "snapshot")
  /\ snapshot' = [ids |-> Now(t).ids, at |-> jobs[t].at]
  /\ Goes(t, Rest(t))
  /\ UNCHANGED <<feed, registry, memory, rows, bundle, alone, verified, requests, restarts>>

(* mark_fetch_status and mark_validated: get_source ...                    *)
LoadSource(t) ==
  /\ Doing(t, "load")
  /\ jobs' = [jobs EXCEPT ![t] = [todo |-> Rest(t), at |-> @.at, held |-> registry[Now(t).part]]]
  /\ UNCHANGED <<feed, registry, memory, rows, snapshot, bundle, alone, verified, requests, restarts>>

(* mark_validated stores the time it is given.  The regions give none, and *)
(* it reads the clock again.                                               *)
Stamp(at) == IF feed = "regions" THEN at + Seeded ELSE at

(* A defect: the time of the validation is not stored.                     *)
MarkedUntimed(held, mark, at) ==
  [fetch |-> IF mark.status = "SAME" THEN held.fetch ELSE mark.status,
   stamp |-> held.stamp,
   evidence |-> IF mark.evidence = NoEvidence THEN held.evidence ELSE mark.evidence]

Marked(held, mark, at) ==
  [fetch |-> IF mark.status = "SAME" THEN held.fetch ELSE mark.status,
   stamp |-> IF mark.validated THEN Stamp(at) ELSE held.stamp,
   evidence |-> IF mark.evidence = NoEvidence THEN held.evidence ELSE mark.evidence]

(* ... and store.save of the whole record.                                 *)
StoreSource(t) ==
  /\ Doing(t, "store")
  /\ registry' = [registry EXCEPT ![Now(t).part] = Marked(jobs[t].held, Now(t), jobs[t].at)]
  /\ Goes(t, Rest(t))
  /\ UNCHANGED <<feed, memory, rows, snapshot, bundle, alone, verified, requests, restarts>>

(* Or get_source or the save raises, and the handlers decide.              *)
RegistryRaises(t) ==
  /\ Doing(t, "store")
  /\ Goes(t, RegistryRaised(feed, Now(t)))
  /\ alone' = FALSE
  /\ UNCHANGED <<feed, registry, memory, rows, snapshot, bundle, verified, requests, restarts>>

RememberStatus(t) ==
  /\ Doing(t, "remember")
  /\ memory' = [memory EXCEPT ![Now(t).part] =
       Status(Now(t).status,
              IF Now(t).status \in VerifiedStatuses THEN jobs[t].at
              ELSE IF feed = "regions" THEN @.at ELSE 0)]
  /\ Goes(t, Rest(t))
  /\ UNCHANGED <<feed, registry, rows, snapshot, bundle, alone, verified, requests, restarts>>

DowngradeStatus(t) ==
  /\ Doing(t, "downgrade")
  /\ memory' = [memory EXCEPT ![Now(t).part] = Status("UNAVAILABLE", @.at)]
  /\ Goes(t, Rest(t))
  /\ UNCHANGED <<feed, registry, rows, snapshot, bundle, alone, verified, requests, restarts>>

(* A feed that is listed as unavailable is not marked again.               *)
SkipIfUnavailable(t) ==
  LET known == memory["main"].status = "UNAVAILABLE"
  IN /\ Doing(t, "unless")
     /\ Goes(t, IF known THEN <<>> ELSE Rest(t))
     /\ alone' = (alone /\ ~known)
     /\ UNCHANGED <<feed, registry, memory, rows, snapshot, bundle, verified, requests, restarts>>

(* The manifest keeps a verified status, or makes it CONFIGURED.           *)
StoreManifest(t) ==
  LET status == IF memory["main"].status = "LIVE_VERIFIED" THEN "LIVE_VERIFIED" ELSE "CONFIGURED"
  IN /\ Doing(t, "manifest")
     /\ Goes(t, Mark("main", status, Evidence("metadata", 0, jobs[t].at), FALSE)
                \o <<[op |-> "list", status |-> status]>> \o Rest(t))
     /\ UNCHANGED <<feed, registry, memory, rows, snapshot, bundle, alone, verified, requests, restarts>>

(* radar_source_state.update: the time of the last verification stays.     *)
ListManifest(t) ==
  /\ Doing(t, "list")
  /\ memory' = [memory EXCEPT !["main"] = Status(Now(t).status, @.at)]
  /\ Goes(t, Rest(t))
  /\ UNCHANGED <<feed, registry, rows, snapshot, bundle, alone, verified, requests, restarts>>

(* The rows of the request are there, and of a bundle no others; fires are *)
(* not looked for.                                                         *)
RowsFound(ids) ==
  /\ feed # "firms" => \A id \in ids : rows[<<"records", id>>] # 0
  /\ feed \in Static => Stored("records") = Cardinality(ids) /\ Stored("geometries") = Cardinality(ids)

VerifyRows(t) ==
  LET ids == Now(t).ids
  IN /\ Doing(t, "verify")
     /\ IF RowsFound(ids)
        THEN /\ Goes(t, Verified(feed, ids, Now(t).whole, Stored("records"), jobs[t].at))
             /\ verified' = verified \cup
                  IF feed \in Observed /\ ids = {} THEN {}
                  ELSE {[part |-> part, at |-> jobs[t].at, ids |-> ids] : part \in Parts(feed)}
        ELSE Goes(t, ReadbackFails(feed)) /\ UNCHANGED verified
     /\ UNCHANGED <<feed, registry, memory, rows, snapshot, bundle, alone, requests, restarts>>

(* The registry's record is read back.  Two images may be of one time, so  *)
(* that another's metadata passes for the request's own.                   *)
CompareEvidence(t) ==
  LET same == registry["main"].evidence = Now(t).evidence
  IN /\ Doing(t, "compare")
     /\ \/ (same \/ feed \in Imagery) /\ Goes(t, Now(t).good)
        \/ ~same /\ Goes(t, Now(t).bad)
     /\ UNCHANGED <<feed, registry, memory, rows, snapshot, bundle, alone, verified, requests, restarts>>

CompareRaises(t) ==
  /\ Doing(t, "compare")
  /\ Goes(t, ReadRaised(feed))
  /\ alone' = FALSE
  /\ UNCHANGED <<feed, registry, memory, rows, snapshot, bundle, verified, requests, restarts>>

(* The process dies, or is stopped, and starts again, with a bundle of     *)
(* another release perhaps: requests are gone, memory is restored.         *)
Restart ==
  /\ restarts < MaxRestarts
  /\ restarts' = restarts + 1
  /\ alone' = (alone /\ \A t \in FThreads : ~Busy(t))
  /\ jobs' = [t \in FThreads |-> NoJob]
  /\ memory' = [part \in Parts(feed) |-> Restored(feed, registry[part])]
  /\ registry' = [part \in Parts(feed) |-> Corrected(feed, registry[part])]
  /\ \/ UNCHANGED bundle
     \/ /\ feed \in Static
        /\ \E ids \in SUBSET Ids \ {{}}, valid \in SUBSET Ids :
             valid \subseteq ids /\ bundle' = [ids |-> ids, valid |-> valid, version |-> bundle.version + 1]
  /\ UNCHANGED <<feed, rows, snapshot, verified, requests>>

FeedStep(t) ==
  \/ Fetch(t) \/ SaveRow(t) \/ SaveRaises(t) \/ PruneRow(t) \/ PrunesNone(t) \/ SaveSnapshot(t)
  \/ LoadSource(t) \/ StoreSource(t) \/ RegistryRaises(t) \/ RememberStatus(t) \/ DowngradeStatus(t)
  \/ SkipIfUnavailable(t) \/ StoreManifest(t) \/ ListManifest(t)
  \/ VerifyRows(t) \/ CompareEvidence(t) \/ CompareRaises(t)

FeedNext == Restart \/ \E t \in FThreads : FeedStep(t)

-----------------------------------------------------------------------------
(* Whatever overlapped, failed or died: a feed that is listed as verified  *)
(* was verified at the listed time, and every record of that verification  *)
(* is still stored.  Fires and traffic are listed with the time of their   *)
(* seeding; a new bundle may have replaced the regions since; and a        *)
(* manifest that was stored over a validation leaves imagery listed as     *)
(* verified, as it was, with another time or none.  The regions may be     *)
(* listed with the time of the record, that of the save.                   *)
ClaimsAreBacked ==
  \A part \in Parts(feed) :
    Listed(feed, memory[part]) \in VerifiedStatuses =>
      \/ feed \in {"firms", "tomtom"} /\ memory[part].at = Seeded
      \/ \E v \in verified :
           /\ v.part = part
           /\ memory[part].at \in {v.at, Stamp(v.at)} \/ (feed \in Imagery /\ memory[part].at = 0)
           /\ feed # "regions" => \A id \in v.ids : rows[<<"records", id>>] # 0

Settled == alone /\ \A t \in FThreads : ~Busy(t)

(* After a request that ran alone to its end, without an exception of the  *)
(* registry, and whatever went before it, a restart would list each feed   *)
(* as it is listed now, with the same time of verification; imagery with   *)
(* any, and the regions with the time of the save of their record, if not  *)
(* already.  The dams and Bhote Koshi stay listed as verified after a      *)
(* failure, until the restart.                                             *)
SameTime(now, then) ==
  \/ feed \in Imagery
  \/ then.at \in {now.at, Stamp(now.at)}

RestartKeepsListing ==
  Settled =>
    \A part \in Parts(feed) :
      LET now == memory[part]
          then == Restored(feed, registry[part])
          agree == Listed(feed, then) = Listed(feed, now) /\ SameTime(now, then)
      IN /\ Listed(feed, then) \in VerifiedStatuses => agree
         /\ Listed(feed, now) \in VerifiedStatuses => feed \in Bundles \/ agree

(* The listing shows the rows that are of the snapshot's answer.  When     *)
(* storms are listed as verified, after a request that ran alone to its    *)
(* end, they are the storms of the answer that was verified, though an     *)
(* earlier request died or overlapped with another.                        *)
ListedStorms == {id \in Ids : rows[<<"records", id>>] = snapshot.at}

StormsAreListed ==
  Settled /\ feed = "cyclone" /\ Listed(feed, memory["storms"]) = "LIVE_VERIFIED" =>
    \A v \in verified : v.at = memory["storms"].at => ListedStorms = v.ids
=============================================================================
