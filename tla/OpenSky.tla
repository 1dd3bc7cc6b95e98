-------------------------------- MODULE OpenSky --------------------------------
(* OpenSkyService, asked by overlapping threads of the flight endpoints.    *)
(* The flights of one answer are kept in the process for the next, with the *)
(* time they were asked for and the box they were asked about, written one  *)
(* after the other (the time and the box in one step here), as are the      *)
(* OAuth token and its expiry, with no lock.  Times are counted in ticks:   *)
(* ages up to Ttl, where cached flights are stale, and what is left of the  *)
(* break and of the tokens.                                                 *)
EXTENDS Naturals, FiniteSets

CONSTANTS
  Askers,     \* threads
  Flights,    \* flights in the sky now
  AreaOf,     \* flight -> the box it is in
  Boxes,      \* boxes that are asked about
  BoxesFor(_), \* a bound: those asked about under an account
  Everywhere, \* asking without coordinates
  Recorded,   \* the flights of the governed file
  Nowhere,    \* no flights were fetched, no box was asked about
  Ttl, Backoff, Life, Margin, CallTicks

ASSUME OpenSkyAssumption ==
  /\ {Ttl, Backoff, Life, Margin, CallTicks} \subseteq Nat \ {0}
  /\ AreaOf \in [Flights -> Boxes]
  /\ Life > Margin + CallTicks
  /\ Margin >= 2 * CallTicks
  /\ \A live, credentials \in BOOLEAN :
       BoxesFor([live |-> live, credentials |-> credentials]) \subseteq Boxes \cup {Everywhere}
  /\ Everywhere \notin Boxes
  /\ Nowhere \notin Boxes \cup {Everywhere} \cup Nat

VARIABLES
  account,    \* whether live fetching, and an account, are configured
  sky,        \* whether OpenSky answers
  cache,      \* _cached_states, _cache_timestamp and _cached_meta
  broken,     \* what is left of the break after a failure
  token,      \* what is left of the life of _oauth_token
  reuse,      \* for how long _oauth_token_expiry lets the token be used again
  asked,      \* asker -> its request
  overlapped  \* whether a request began while another was under way

skyVars == <<account, sky, cache, broken, token, reuse, asked, overlapped>>

Less(life) == IF life = Nowhere \/ life = 0 THEN life ELSE life - 1
Until(age, end) == IF age < end THEN age ELSE end

Waiting == [phase |-> "idle", box |-> Nowhere, age |-> 0, bearer |-> Nowhere,
            rows |-> {}, label |-> "none"]

SkyInit ==
  /\ account \in [live : BOOLEAN, credentials : BOOLEAN]
  /\ sky \in BOOLEAN
  /\ cache = [rows |-> Nowhere, age |-> Ttl, box |-> Nowhere, label |-> "none"]
  /\ broken = 0 /\ token = Nowhere /\ reuse = 0
  /\ asked = [c \in Askers |-> Waiting]
  /\ overlapped = FALSE

At(c, phase) == asked[c].phase = phase
Busy == \E c \in Askers : ~At(c, "idle")
To(c, phase) == asked' = [asked EXCEPT ![c].phase = phase]

GiveUp(c) == asked' = [asked EXCEPT ![c].phase = "fallback", ![c].bearer = Nowhere]

FlightsIn(box) == IF box = Everywhere THEN Flights ELSE {f \in Flights : AreaOf[f] = box}

FreshForAny(box) == cache.rows # Nowhere /\ cache.age < Ttl \* a defect

FreshFor(box) ==
  /\ cache.rows # Nowhere
  /\ cache.age < Ttl
  /\ box = Everywhere \/ cache.box = box

TokenUsable == token # Nowhere /\ reuse > 0

(* Where a request goes that the cache does not answer: fetch_upstream_states *)
(* and _get_oauth_token, up to the first call of OpenSky.                     *)
FirstCall ==
  IF ~account.live \/ broken > 0 THEN "fallback"
  ELSE IF account.credentials /\ ~TokenUsable THEN "mint"
  ELSE "get"

(* get_states, from its beginning to its first call or to the cached flights. *)
AskAfresh(c, box) ==
  /\ ~FreshFor(box)
  /\ asked' = [asked EXCEPT ![c] =
       [Waiting EXCEPT !.phase = FirstCall, !.box = box,
          !.bearer = IF FirstCall = "get" /\ account.credentials THEN token ELSE Nowhere]]
  /\ UNCHANGED cache

AskAndRenew(c, box) == \* a defect: use prolongs the cached flights
  /\ FreshFor(box)
  /\ asked' = [asked EXCEPT ![c] =
       [Waiting EXCEPT !.phase = "label", !.box = box, !.rows = cache.rows]]
  /\ cache' = [cache EXCEPT !.age = 0]

AskCache(c, box) ==
  /\ FreshFor(box)
  /\ asked' = [asked EXCEPT ![c] =
       [Waiting EXCEPT !.phase = "label", !.box = box, !.rows = cache.rows]]
  /\ UNCHANGED cache

Ask(c) ==
  /\ At(c, "idle")
  /\ \E box \in BoxesFor(account) : AskAfresh(c, box) \/ AskCache(c, box)
  /\ overlapped' = (overlapped \/ Busy)
  /\ UNCHANGED <<account, sky, broken, token, reuse>>

(* A request answered from the cache reads the label after the flights. *)
ReadLabel(c) ==
  /\ At(c, "label")
  /\ asked' = [asked EXCEPT ![c].phase = "answer", ![c].label = cache.label]
  /\ UNCHANGED <<account, sky, cache, broken, token, reuse, overlapped>>

(* _get_oauth_token: the token, then its expiry, counted from when it was   *)
(* asked for; or the break, after which the flights are asked for anyway.   *)
MintToken(c) ==
  /\ At(c, "mint") /\ sky
  /\ token' = Life - asked[c].age
  /\ To(c, "expiry")
  /\ UNCHANGED <<account, sky, cache, broken, reuse, overlapped>>

SetExpiryExactly(c) == \* a defect: used to the end of its life
  /\ At(c, "expiry")
  /\ reuse' = Life - asked[c].age
  /\ asked' = [asked EXCEPT ![c].phase = "get", ![c].bearer = token]
  /\ UNCHANGED <<account, sky, cache, broken, token, overlapped>>

SetExpiry(c) ==
  /\ At(c, "expiry")
  /\ reuse' = Life - Margin - asked[c].age
  /\ asked' = [asked EXCEPT ![c].phase = "get", ![c].bearer = token]
  /\ UNCHANGED <<account, sky, cache, broken, token, overlapped>>

MintFails(c) ==
  /\ At(c, "mint") /\ ~sky
  /\ broken' = Backoff
  /\ To(c, "get")
  /\ UNCHANGED <<account, sky, cache, token, reuse, overlapped>>

(* fetch_upstream_states: an answer without a list of flights, as for a box *)
(* that has none, is not taken, and breaks nothing.                         *)
Keep(c, rows, label) ==
  /\ cache' = [cache EXCEPT !.rows = rows]
  /\ asked' = [asked EXCEPT ![c] = [@ EXCEPT !.phase = "meta", !.rows = rows,
                                             !.label = label, !.bearer = Nowhere]]

GetFlights(c) ==
  /\ At(c, "get") /\ sky
  /\ \/ Keep(c, FlightsIn(asked[c].box), "LIVE")
     \/ GiveUp(c) /\ UNCHANGED cache
  /\ UNCHANGED <<account, sky, broken, token, reuse, overlapped>>

GetFails(c) ==
  /\ At(c, "get") /\ ~sky
  /\ broken' = Backoff
  /\ GiveUp(c)
  /\ UNCHANGED <<account, sky, cache, token, reuse, overlapped>>

(* load_governed_fallback_states, whose file comes with the program. *)
Fallback(c) ==
  /\ At(c, "fallback")
  /\ Keep(c, Recorded, "GOVERNED")
  /\ UNCHANGED <<account, sky, broken, token, reuse, overlapped>>

KeepMeta(c) ==
  /\ At(c, "meta")
  /\ cache' = [cache EXCEPT !.age = Until(asked[c].age, Ttl),
                            !.box = asked[c].box, !.label = asked[c].label]
  /\ To(c, "answer")
  /\ UNCHANGED <<account, sky, broken, token, reuse, overlapped>>

(* The filter of get_states keeps the flights of the circle asked about. *)
Answer(c) == asked[c].rows \cap FlightsIn(asked[c].box)

Reply(c) ==
  /\ At(c, "answer")
  /\ asked' = [asked EXCEPT ![c] = Waiting]
  /\ UNCHANGED <<account, sky, cache, broken, token, reuse, overlapped>>

SkyChanges ==
  /\ sky' = ~sky
  /\ UNCHANGED <<account, cache, broken, token, reuse, asked, overlapped>>

(* The timeouts of its two calls end a request within CallTicks. *)
SkyTick ==
  /\ \A c \in Askers : At(c, "idle") \/ asked[c].age < CallTicks
  /\ cache' = [cache EXCEPT !.age = Until(@ + 1, Ttl)]
  /\ broken' = Less(broken)
  /\ token' = Less(token)
  /\ reuse' = Less(reuse)
  /\ asked' = [c \in Askers |->
       IF At(c, "idle") THEN asked[c]
       ELSE [asked[c] EXCEPT !.age = @ + 1, !.bearer = Less(@)]]
  /\ UNCHANGED <<account, sky, overlapped>>

Step(c) ==
  \/ ReadLabel(c) \/ MintToken(c) \/ SetExpiry(c) \/ MintFails(c)
  \/ GetFlights(c) \/ GetFails(c) \/ Fallback(c)
  \/ KeepMeta(c) \/ Reply(c)

SkyNext ==
  \/ \E c \in Askers : Ask(c) \/ Step(c)
  \/ SkyChanges
  \/ SkyTick

------------------------------------------------------------------------------
(* The feed goes back to OpenSky: whatever failed before, and although      *)
(* every answer, the recorded flights too, is kept for the next requests,   *)
(* OpenSky is asked again and again once it answers.                        *)
FeedComesBack == (account.live /\ <>[]sky) => []<>(\E c \in Askers : At(c, "get"))

(* No request carries a token that has run out: the token and its expiry    *)
(* are written apart and checked before a call that takes its time.         *)
BearersAreValid ==
  \A c \in Askers : At(c, "get") /\ asked[c].bearer # Nowhere => asked[c].bearer > 0

(* As long as requests follow one another, one about a box that is labelled *)
(* live has all the flights of the box, whatever boxes were asked about     *)
(* before, and one that is not has recorded flights only.                   *)
SequentialAnswersAreWhole ==
  \A c \in Askers : At(c, "answer") /\ ~overlapped =>
    IF asked[c].label = "LIVE"
    THEN asked[c].box \in Boxes => Answer(c) = FlightsIn(asked[c].box)
    ELSE Answer(c) \subseteq Recorded
=============================================================================
