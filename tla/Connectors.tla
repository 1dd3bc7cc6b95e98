------------------------------ MODULE Connectors ------------------------------
(***************************************************************************)
(* The connectors of integrations/: what an endpoint gets to see of what   *)
(* its upstream does.  A row that the upstream sends may be broken, which  *)
(* the connector notices, or odd, which the service behind it notices.     *)
(* Each connector decides otherwise what becomes of the other rows, of     *)
(* several requests of which one fails, and of a second provider.          *)
(***************************************************************************)
EXTENDS Naturals, FiniteSets

CONSTANTS Ids,      \* record ids of a feed
          Storms,   \* those of the storms
          Attempts  \* how often AISStream is connected to: reconnect_attempts + 1

ASSUME AttemptsAssumption == Attempts \in Nat \ {0}
ASSUME IdsAssumption == IsFiniteSet(Ids) /\ Storms \subseteq Ids

Rows(ids, whole, bad) == [outcome |-> "rows", ids |-> ids, whole |-> whole, bad |-> bad]
Down == [outcome |-> "down"]
Misconfigured == [outcome |-> "misconfigured"]
Refused == [outcome |-> "refused"]

(* The rows of a reply: the quality of each id.                            *)
Batches(ids) == [ids -> {"absent", "broken", "odd", "sound"}]

With(batch, quality) == {id \in DOMAIN batch : batch[id] = quality}

Replies(ids) == [reached : {TRUE}, rows : Batches(ids)] \cup [reached : {FALSE}]

(* Of one batch or of several: broken rows are left out.                   *)
Kept(batches) ==
  Rows(UNION {With(batch, "sound") : batch \in batches}, TRUE, \E batch \in batches : With(batch, "odd") # {})

Single(reply) == IF reply.reached THEN Kept({reply.rows}) ELSE Down

(* One request each.                                                       *)
FetchEarthquakes(reply) == Single(reply)
FetchMilitaryAircraft(reply) == Single(reply)

(* An attempt to listen may raise after some positions, which are kept for *)
(* the next.  The first attempt that does not raise, with any position at  *)
(* all, is the last; if the last of all raises, they are lost.             *)
FetchPositions(configured, tries) ==
  LET Heard(n) == {tries[i].rows : i \in 1..n}
      Any(n) == \E batch \in Heard(n) : With(batch, "sound") \cup With(batch, "odd") # {}
      Ends(n) == n = Attempts \/ (~tries[n].raises /\ Any(n))
      last == CHOOSE n \in 1..Attempts : Ends(n) /\ \A m \in 1..(n - 1) : ~Ends(m)
  IN CASE ~configured -> Misconfigured
       [] tries[last].raises -> Down
       [] OTHER -> Kept(Heard(last))

(* Every satellite's file must be there, but not each of its rows.         *)
FetchFires(configured, files) ==
  CASE ~configured -> Misconfigured
    [] \E file \in files : ~file.reached -> Down
    [] OTHER -> Kept({file.rows : file \in files})

(* A tile that is missing or cannot be decoded fails the request.          *)
FetchFlowTiles(configured, valid, tiles) ==
  CASE ~configured -> Misconfigured
    [] ~valid -> Refused
    [] \E tile \in tiles : ~tile.reached -> Down
    [] OTHER -> Kept({tile.rows : tile \in tiles})

(* Both grids of the forecast, of the same cycle, and a value at each of   *)
(* the points that were asked for.                                         *)
FetchWind(configured, temperature, pressure, points) ==
  CASE ~configured -> Misconfigured
    [] \/ ~temperature.reached \/ ~pressure.reached
       \/ temperature.cycle # pressure.cycle
       \/ With(points, "broken") # {} -> Down
    [] OTHER -> Kept({points})

(* One request per location; one that fails is enough.                     *)
FetchOpenMeteo(locations) == IF With(locations, "broken") # {} THEN Down ELSE Kept({locations})

(* A manifest that is there, fresh and whole, and then an image, if it is  *)
(* asked for with a time and a size that exist.                            *)
FetchManifest(reply) == reply = "current"
FetchImage(manifest, asked, valid, image) ==
  IF ~FetchManifest(manifest) THEN Down
  ELSE Rows({}, asked /\ valid /\ image, asked /\ valid /\ ~image)

(* Stale storms are no answer, and one broken storm spoils all.            *)
FetchCyclones(reply, fresh, geometry) ==
  CASE ~reply.reached \/ ~fresh -> Down
    [] With(reply.rows, "broken") # {} -> Refused
    [] OTHER -> [Kept({reply.rows}) EXCEPT !.whole = geometry]

(* Providers are tried in turn.  Without a key one is left out.            *)
Serves(provider) == provider = "serves"

VerifyPhotorealTiles(google, ion) == IF Serves(google) \/ Serves(ion) THEN Rows({}, TRUE, FALSE) ELSE Down

VerifySatelliteImagery(esri, ion, osm) ==
  IF Serves(esri) \/ Serves(ion) \/ Serves(osm) THEN Rows({}, TRUE, FALSE) ELSE Down

(* The terrain has one provider: the keyless one only if there is no key.  *)
VerifyWorldTerrain(ion, reearth) ==
  IF Serves(IF ion = "no key" THEN reearth ELSE ion) THEN Rows({}, TRUE, FALSE) ELSE Down

VerifyVectorBasemap(openfreemap) == IF Serves(openfreemap) THEN Rows({}, TRUE, FALSE) ELSE Down

(* The files of a release: features, of which some are valid.              *)
ReadBundle(bundle, readable) ==
  IF readable THEN Rows(bundle.valid, TRUE, bundle.valid # bundle.ids) ELSE Down

LoadNaturalEarth(bundle, readable) == ReadBundle(bundle, readable)
FetchDams(bundle, readable) == ReadBundle(bundle, readable)
FetchBhoteKoshi(bundle, readable, wellFormed) ==
  IF readable /\ ~wellFormed THEN Refused ELSE ReadBundle(bundle, readable)

-----------------------------------------------------------------------------
(* All that an endpoint may get.                                           *)
Providers == {"serves", "fails", "no key"}
Grids == [reached : {TRUE}, cycle : {1, 2}] \cup [reached : {FALSE}]
Points == {batch \in Batches(Ids) : With(batch, "absent") # Ids}

ReplyPairs == {{f, g} : f \in Replies(Ids), g \in Replies(Ids)}

AnswersOf(kind) ==
  CASE kind = "usgs" -> {FetchEarthquakes(r) : r \in Replies(Ids)}
    [] kind = "adsb" -> {FetchMilitaryAircraft(r) : r \in Replies(Ids)}
    [] kind = "aisstream" ->
         {FetchPositions(c, tries) : c \in BOOLEAN, tries \in [1..Attempts -> [raises : BOOLEAN, rows : Batches(Ids)]]}
    [] kind = "firms" -> {FetchFires(c, files) : c \in BOOLEAN, files \in ReplyPairs}
    [] kind = "tomtom" ->
         {FetchFlowTiles(c, v, tiles) : c \in BOOLEAN, v \in BOOLEAN, tiles \in ReplyPairs}
    [] kind = "wind" -> {FetchWind(c, t, p, points) : c \in BOOLEAN, t \in Grids, p \in Grids, points \in Points}
    [] kind = "open-meteo" -> {FetchOpenMeteo(locations) : locations \in Points}
    [] kind \in {"radar", "satellite"} ->
         {FetchImage(m, a, v, i) :
            m \in {"current", "stale", "none"}, a \in BOOLEAN, v \in BOOLEAN, i \in BOOLEAN}
    [] kind = "cyclone" -> {FetchCyclones(r, f, g) : r \in Replies(Storms), f \in BOOLEAN, g \in BOOLEAN}
    [] kind = "photoreal" -> {VerifyPhotorealTiles(g, i) : g \in Providers, i \in Providers}
    [] kind = "imagery" -> {VerifySatelliteImagery(e, i, o) : e \in Providers, i \in Providers, o \in Providers}
    [] kind = "terrain" -> {VerifyWorldTerrain(i, r) : i \in Providers, r \in Providers}
    [] kind = "vector" -> {VerifyVectorBasemap(o) : o \in Providers}

BundleAnswers(kind, bundle) ==
  CASE kind = "regions" -> {LoadNaturalEarth(bundle, r) : r \in BOOLEAN}
    [] kind = "dams" -> {FetchDams(bundle, r) : r \in BOOLEAN}
    [] kind = "bhote koshi" -> {FetchBhoteKoshi(bundle, r, w) : r \in BOOLEAN, w \in BOOLEAN}
=============================================================================
