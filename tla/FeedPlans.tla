------------------------------ MODULE FeedPlans ------------------------------
(***************************************************************************)
(* What the ingestion and verification endpoints of main.py do, as plans:  *)
(* the sequence of stores, registry writes and status updates that follows *)
(* once the upstream has answered.  ObservationFeeds runs the plans of     *)
(* concurrent requests, one instruction of one plan at a time.             *)
(***************************************************************************)
EXTENDS Connectors, Sequences, SequencesExt

Observed == {"usgs", "aisstream", "adsb"}
Weather == {"wind", "open-meteo"}
Imagery == {"radar", "satellite"}
Tiled == {"photoreal", "imagery", "terrain", "vector"}
Bundles == {"dams", "bhote koshi"}
Static == {"regions"} \cup Bundles
Kinds == Observed \cup Weather \cup Imagery \cup Tiled \cup Static \cup {"firms", "tomtom", "cyclone"}

(* A source record per part: the registry's and the process's status of it. *)
Parts(kind) == IF kind = "cyclone" THEN {"storms", "tracks"} ELSE {"main"}

Tables == {"records", "geometries"}

VerifiedStatuses == {"LIVE_VERIFIED", "STATIC_VERIFIED"}
Success(kind) == IF kind \in Static THEN "STATIC_VERIFIED" ELSE "LIVE_VERIFIED"

NoEvidence == [status |-> "none", stored |-> 0, at |-> 0]

-----------------------------------------------------------------------------
(* Instructions.                                                           *)
Prune(table, keep) == <<[op |-> "prune", table |-> table, keep |-> keep]>>

(* mark_fetch_status and mark_validated load the record, change it, and    *)
(* save it whole.  "SAME" leaves the status, NoEvidence the evidence.      *)
Mark(part, status, evidence, validated) ==
  << [op |-> "load", part |-> part],
     [op |-> "store", part |-> part, status |-> status, evidence |-> evidence,
      validated |-> validated] >>

MarkStatus(part, status) == Mark(part, status, NoEvidence, FALSE)

Remember(part, status) == <<[op |-> "remember", part |-> part, status |-> status]>>

(* Sets the status in memory and leaves the time of the last verification. *)
Downgrade(part) == <<[op |-> "downgrade", part |-> part]>>

(* Goes on only if the feed is not already listed as unavailable.          *)
UnlessUnavailable == <<[op |-> "unless"]>>

(* Reads the registry record back: success if it holds the evidence.       *)
Compare(evidence, good, bad) ==
  <<[op |-> "compare", evidence |-> evidence, good |-> good, bad |-> bad]>>

(* Reads the rows back and continues as what it finds demands; "whole":    *)
(* no part of the answer was missing.                                      *)
Verify(ids, whole) == <<[op |-> "verify", ids |-> ids, whole |-> whole]>>

(* The storms of the last answer, which the listing is filtered by.        *)
Snapshot(ids) == <<[op |-> "snapshot", ids |-> ids]>>

(* The capabilities of an imagery service: its status stays LIVE_VERIFIED  *)
(* if the process lists it so (_fetch_store_radar_manifest).               *)
Manifest == <<[op |-> "manifest"]>>

-----------------------------------------------------------------------------
SaveAll(table, ids) ==
  [i \in 1..Cardinality(ids) |-> [op |-> "save", table |-> table, id |-> SetToSeq(ids)[i]]]

(* Attributes and geometry of each row, one after the other.               *)
SavePairs(ids) ==
  [i \in 1..(2 * Cardinality(ids)) |->
     [op |-> "save", table |-> IF i % 2 = 1 THEN "records" ELSE "geometries",
      id |-> SetToSeq(ids)[(i + 1) \div 2]]]

Evidence(status, stored, at) == [status |-> status, stored |-> stored, at |-> at]

MarkUnavailable == Mark("main", "UNAVAILABLE", Evidence("UNAVAILABLE", 0, 0), FALSE)

PartFails(part) == Downgrade(part) \o MarkStatus(part, "UNAVAILABLE")

(* What the handlers of an upstream failure do.                            *)
Fails(kind) ==
  CASE kind \in Observed -> MarkUnavailable \o Remember("main", "UNAVAILABLE")
    [] kind \in Tiled -> Remember("main", "UNAVAILABLE") \o MarkUnavailable
    [] kind = "regions" -> Remember("main", "UNAVAILABLE") \o MarkStatus("main", "UNAVAILABLE")
    [] kind \in Bundles -> MarkStatus("main", "UNAVAILABLE")
    [] kind = "firms" -> <<>>
    [] kind = "cyclone" -> PartFails("storms") \o PartFails("tracks")
    [] OTHER -> PartFails("main")

(* A store that raises: usgs alone catches every exception.                *)
Raised(kind) == IF kind = "usgs" THEN UnlessUnavailable \o Fails("usgs") ELSE <<>>

(* The handlers of the tile endpoints, of whatever the registry does: the  *)
(* last evidence stays in the record.                                      *)
TilesUnconfirmed == MarkStatus("main", "UNAVAILABLE") \o Remember("main", "UNAVAILABLE")

(* The registry raises where a record is to be marked.  An observation     *)
(* feed that was to be marked as unavailable is still listed so.           *)
RegistryRaised(kind, mark) ==
  CASE kind \in Observed /\ mark.status = "UNAVAILABLE" -> Remember("main", "UNAVAILABLE")
    [] kind \in Tiled /\ mark.validated -> TilesUnconfirmed
    [] OTHER -> Raised(kind)

(* ... or where it is read back.                                           *)
ReadRaised(kind) == IF kind \in Tiled THEN TilesUnconfirmed ELSE Raised(kind)

(* A defect: a feed is listed as verified though its read-back fails.      *)
ReadbackIgnored(kind) == Remember(CHOOSE part \in Parts(kind) : TRUE, Success(kind))

(* A read-back that does not find what was stored: the feed is marked, and *)
(* for the observation feeds once more by the handler of RuntimeError; of  *)
(* the cyclones, the storms alone.                                         *)
ReadbackFails(kind) ==
  CASE kind = "usgs" -> Fails(kind) \o Fails("usgs")
    [] kind \in {"aisstream", "adsb"} -> Fails(kind) \o UnlessUnavailable \o Fails("aisstream")
    [] kind = "cyclone" -> PartFails("storms")
    [] OTHER -> Fails(kind)

-----------------------------------------------------------------------------
(* _verify_observation_ingestion: the registry is written first and read   *)
(* back, and the status in memory changes last.                            *)
ObservationVerified(kind, ids, stored, at) ==
  LET live == Evidence("LIVE_VERIFIED", stored, at)
      pending == Evidence("PENDING", stored, at)
  IN IF ids = {}
     THEN Mark("main", "PENDING", pending, FALSE)
          \o Compare(pending, Remember("main", "PENDING"),
                     Remember("main", "PENDING") \o IF kind = "usgs" THEN Fails(kind)
                                                    ELSE UnlessUnavailable \o Fails(kind))
     ELSE Mark("main", "LIVE_VERIFIED", live, TRUE)
          \o Compare(live, Remember("main", "LIVE_VERIFIED"), ReadbackFails(kind))

(* The tile services and natural earth: likewise.                          *)
ReadBackFromRegistry(kind, stored, at, bad) ==
  LET evidence == Evidence(Success(kind), stored, at)
  IN Mark("main", Success(kind), evidence, TRUE)
     \o Compare(evidence, Remember("main", Success(kind)), bad)

(* ingest_noaa_cyclones after the rows: the storms, then their geometries, *)
(* of which "tracks" stands for points, tracks and cones.  Storms without  *)
(* geometries are UNAVAILABLE; the code has NO_CURRENT_FEATURES as well,   *)
(* which no one tells from it.                                             *)
CyclonesVerified(ids, geometry) ==
  Remember("storms", "LIVE_VERIFIED") \o Mark("storms", "LIVE_VERIFIED", NoEvidence, TRUE)
  \o IF ids # {} /\ geometry
     THEN Remember("tracks", "LIVE_VERIFIED") \o Mark("tracks", "LIVE_VERIFIED", NoEvidence, TRUE)
     ELSE LET status == IF ids = {} THEN "NO_ACTIVE_STORMS" ELSE "UNAVAILABLE"
          IN Remember("tracks", status) \o MarkStatus("tracks", status)

(* _mark_radar_imagery_verified; a mismatch raises and marks nothing.      *)
ImageVerified(at) ==
  LET metadata == Evidence("metadata", 0, at)
  IN Mark("main", "CONFIGURED", metadata, FALSE)
     \o Compare(metadata, Mark("main", "LIVE_VERIFIED", metadata, TRUE) \o Remember("main", "LIVE_VERIFIED"), <<>>)

(* The dams and Bhote Koshi: a bundle with rejected features is partial.   *)
BundleVerified(whole) ==
  IF whole THEN Remember("main", "STATIC_VERIFIED") \o Mark("main", "STATIC_VERIFIED", NoEvidence, TRUE)
  ELSE MarkStatus("main", "STATIC_PARTIAL")

(* What the services keep of an answer, in which rows may be bad: all or   *)
(* nothing, or the valid rows.                                             *)
AllOrNothing(a) == IF a.outcome = "rows" /\ a.bad THEN Refused ELSE a

EarthquakesTaken(a) == AllOrNothing(a)
VesselsTaken(a) == AllOrNothing(a)
AircraftTaken(a) == AllOrNothing(a)
WeatherTaken(a) == AllOrNothing(a)
StormsTaken(a) == AllOrNothing(a)
FiresTaken(a) == a
SegmentsTaken(a) == a

(* The dams and the event keep the valid features of a bundle, and report  *)
(* the others; natural earth keeps none, and leaves the last snapshot.     *)
DamsTaken(a) == IF a.outcome = "rows" THEN [a EXCEPT !.whole = ~a.bad] ELSE a
EventTaken(a) == DamsTaken(a)
RegionsTaken(a) == AllOrNothing(a)

-----------------------------------------------------------------------------
(* The endpoints.  An answer has rows, or is a failure of the upstream, a  *)
(* missing configuration, or rows that the service refuses.                *)
Observes(kind, a) ==
  IF a.outcome = "rows" THEN SaveAll("records", a.ids) \o Verify(a.ids, TRUE) ELSE Fails(kind)

IngestEarthquakes(a) == Observes("usgs", EarthquakesTaken(a))
IngestVessels(a) == Observes("aisstream", VesselsTaken(a))
IngestAircraft(a) == Observes("adsb", AircraftTaken(a))

IngestFires(a) ==
  LET taken == FiresTaken(a)
  IN IF taken.outcome = "rows" THEN SaveAll("records", taken.ids) \o Verify(taken.ids, TRUE) ELSE <<>>

IngestTraffic(a) ==
  LET taken == SegmentsTaken(a)
  IN CASE taken.outcome = "rows" -> SaveAll("records", taken.ids) \o Verify(taken.ids, TRUE)
       [] taken.outcome = "down" -> Fails("tomtom")
       [] OTHER -> <<>>

IngestWeather(kind, a, failures) ==
  LET taken == WeatherTaken(a)
  IN CASE taken.outcome = "rows" -> SaveAll("records", taken.ids) \o Verify(taken.ids, TRUE)
       [] taken.outcome \in failures -> Fails(kind)
       [] OTHER -> <<>>

IngestWind(a) == IngestWeather("wind", a, {"down", "misconfigured"})
IngestOpenMeteo(a) == IngestWeather("open-meteo", a, {"down"})

(* The manifest, and then an image or a tile unless the time is refused.   *)
(* The upstream may answer the first question and fail the second.         *)
RequestImagery(kind, a) ==
  CASE a.outcome # "rows" -> Fails(kind)
    [] a.bad -> Manifest \o Fails(kind)
    [] a.whole -> Manifest \o Verify({}, TRUE)
    [] OTHER -> Manifest

RequestRadar(a) == RequestImagery("radar", a)
RequestSatellite(a) == RequestImagery("satellite", a)

VerifyTiles(kind, a) == IF a.outcome = "rows" THEN Verify({}, TRUE) ELSE Fails(kind)

VerifyPhotoreal(a) == VerifyTiles("photoreal", a)
VerifyImagery(a) == VerifyTiles("imagery", a)
VerifyTerrain(a) == VerifyTiles("terrain", a)
VerifyVector(a) == VerifyTiles("vector", a)

(* A defect: an answer without storms leaves the snapshot as it was.       *)
SnapshotUnlessEmpty(ids, geometry) ==
  SaveAll("records", ids) \o SaveAll("geometries", IF geometry THEN ids ELSE {})
  \o IF ids = {} THEN <<>> ELSE Snapshot(ids)

(* The rows of all storms, of their geometries, and last the snapshot.     *)
StormsStored(ids, geometry) ==
  SaveAll("records", ids) \o SaveAll("geometries", IF geometry THEN ids ELSE {}) \o Snapshot(ids)

IngestCyclones(a) ==
  LET taken == StormsTaken(a)
  IN CASE taken.outcome = "rows" -> StormsStored(taken.ids, taken.whole) \o Verify(taken.ids, taken.whole)
       [] taken.outcome = "refused" -> <<>>
       [] OTHER -> Fails("cyclone")

(* Attributes and geometry of each feature, then what is stale of either.  *)
RegionsStored(ids) == SavePairs(ids) \o Prune("records", ids) \o Prune("geometries", ids)

IngestRegions(a) ==
  LET taken == RegionsTaken(a)
  IN CASE taken.outcome = "rows" -> RegionsStored(taken.ids) \o Verify(taken.ids, TRUE)
       [] taken.outcome = "refused" ->
            Remember("main", "STATIC_PARTIAL")
            \o Mark("main", "STATIC_PARTIAL", Evidence("STATIC_PARTIAL", 0, 0), FALSE)
       [] OTHER -> Fails("regions")

IngestBundle(kind, a) ==
  CASE a.outcome = "rows" -> SavePairs(a.ids) \o Verify(a.ids, a.whole)
    [] a.outcome = "down" -> Fails(kind)
    [] OTHER -> <<>>

IngestDams(a) == IngestBundle("dams", DamsTaken(a))
IngestEvent(a) == IngestBundle("bhote koshi", EventTaken(a))

Endpoint(kind, a) ==
  CASE kind = "usgs" -> IngestEarthquakes(a)
    [] kind = "aisstream" -> IngestVessels(a)
    [] kind = "adsb" -> IngestAircraft(a)
    [] kind = "firms" -> IngestFires(a)
    [] kind = "tomtom" -> IngestTraffic(a)
    [] kind = "wind" -> IngestWind(a)
    [] kind = "open-meteo" -> IngestOpenMeteo(a)
    [] kind = "radar" -> RequestRadar(a)
    [] kind = "satellite" -> RequestSatellite(a)
    [] kind = "photoreal" -> VerifyPhotoreal(a)
    [] kind = "imagery" -> VerifyImagery(a)
    [] kind = "terrain" -> VerifyTerrain(a)
    [] kind = "vector" -> VerifyVector(a)
    [] kind = "cyclone" -> IngestCyclones(a)
    [] kind = "regions" -> IngestRegions(a)
    [] kind = "dams" -> IngestDams(a)
    [] kind = "bhote koshi" -> IngestEvent(a)

-----------------------------------------------------------------------------
(* The continuation of a successful read-back.                             *)
Verified(kind, ids, whole, stored, at) ==
  CASE kind \in Observed -> ObservationVerified(kind, ids, stored, at)
    [] kind \in Tiled -> ReadBackFromRegistry(kind, stored, at, TilesUnconfirmed)
    [] kind = "regions" -> ReadBackFromRegistry(kind, stored, at, Fails(kind))
    [] kind \in Bundles -> BundleVerified(whole)
    [] kind \in Imagery -> ImageVerified(at)
    [] kind = "cyclone" -> CyclonesVerified(ids, whole)
    [] kind = "firms" -> Remember("main", "LIVE_VERIFIED") \o Mark("main", "SAME", NoEvidence, TRUE)
    [] OTHER -> Remember("main", "LIVE_VERIFIED") \o Mark("main", "LIVE_VERIFIED", NoEvidence, TRUE)
=============================================================================
