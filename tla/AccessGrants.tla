---------------------------- MODULE AccessGrants ----------------------------
(***************************************************************************)
(* Access grants (services/capability_registry_service.py), issued, looked *)
(* up and revoked by concurrent requests in several worker processes.      *)
(* The workers share the files of the grant store, where a grant has one   *)
(* file under its access token and one under its request id; each worker   *)
(* keeps a cache of contracts in memory besides, and holds no lock.        *)
(*                                                                         *)
(* A grant stands for its token.  The requests are those of one actor who  *)
(* is entitled to them, and contracts do not expire.                       *)
(***************************************************************************)
EXTENDS Naturals, RecordFiles

CONSTANTS
  Threads,      \* request threads
  WorkerOf,     \* the worker process of each thread
  Grants,       \* access tokens
  Ids,          \* request ids
  IdOf,         \* the request id of each grant
  MaxTroubles,  \* bound: loads and saves that raise, and deaths of a worker
  None

Record == [grant : Grants \cup {None}, revoked : BOOLEAN]

ASSUME GrantsAssumption ==
  /\ Grants \cap Ids = {}
  /\ IdOf \in [Grants -> Ids]
  /\ MaxTroubles \in Nat
  /\ None \notin Grants \cup Ids \cup Marks
  /\ Record \cap (Marks \cup {None}) = {}

VARIABLES
  file,      \* the grant store: key to contents
  cache,     \* _access_contracts of each worker
  handler,   \* the request each thread is in
  troubles,  \* how many loads and saves raised and workers died
  requested, \* history variable: the tokens request_access made
  issued,    \* history variable: the grants request_access returned
  revoked,   \* history variable: the grants whose revocation was confirmed
  begun,     \* history variable: the grants whose revocation began to save
  troubled   \* history variable: the grants one of whose saves was cut short

grantVars == <<file, cache, handler, troubles, requested, issued, revoked, begun,
  troubled>>

Workers == {WorkerOf[t] : t \in Threads}
Keys == Grants \cup Ids

(* The two credentials of a grant.                                         *)
KeysOf(g) == {g, IdOf[g]}

Idle == [at |-> "idle"]

(* The cache with the contract of g under its two keys.                    *)
Cached(w, g) == [cache EXCEPT ![w] = [key \in Keys |-> IF key \in KeysOf(g) THEN g ELSE @[key]]]

(* The cache without the given keys.                                       *)
Evicted(w, keys) == [cache EXCEPT ![w] = [key \in Keys |-> IF key \in keys THEN None ELSE @[key]]]

Init ==
  /\ file = [k \in Keys |-> Absent]
  /\ cache = [w \in Workers |-> [k \in Keys |-> None]]
  /\ handler = [t \in Threads |-> Idle]
  /\ troubles = 0
  /\ requested = {} /\ issued = {} /\ revoked = {} /\ begun = {} /\ troubled = {}

-----------------------------------------------------------------------------
(* Saving a record under the two keys of a grant                           *)

(* The token is saved first.                                               *)
FirstKey(g) == g

Saving(op, g, record) ==
  [at |-> "open", op |-> op, grant |-> g, key |-> FirstKey(g), record |-> record]

(* A defect: the record is saved under one key only.                       *)
OneKeySaved(h) == [h EXCEPT !.at = "saved"]

(* What follows a save: the other key's, or the end of the saves.          *)
AfterSave(h) ==
  IF h.key = FirstKey(h.grant)
  THEN [h EXCEPT !.at = "open", !.key = CHOOSE k \in KeysOf(h.grant) : k # h.key]
  ELSE [h EXCEPT !.at = "saved"]

OpenFile(t) ==
  /\ handler[t].at = "open"
  /\ file' = [file EXCEPT ![handler[t].key] = Partial]
  /\ begun' = IF handler[t].op = "revoke" THEN begun \cup {handler[t].grant} ELSE begun
  /\ handler' = [handler EXCEPT ![t].at = "write"]
  /\ UNCHANGED <<cache, troubles, requested, issued, revoked, troubled>>

WriteFile(t) ==
  /\ handler[t].at = "write"
  /\ \E contents \in Overwritten(file[handler[t].key], handler[t].record) :
       file' = [file EXCEPT ![handler[t].key] = contents]
  /\ handler' = [handler EXCEPT ![t] = AfterSave(@)]
  /\ UNCHANGED <<cache, troubles, requested, issued, revoked, begun, troubled>>

(* A save raises.  request_access logs it and issues the grant all the     *)
(* same; revoke_access_contract raises RuntimeError.                       *)
SaveFails(t) ==
  /\ handler[t].at \in {"open", "write"} /\ troubles < MaxTroubles
  /\ troubles' = troubles + 1
  /\ troubled' = troubled \cup {handler[t].grant}
  /\ handler' = [handler EXCEPT ![t] = IF @.op = "issue" THEN [@ EXCEPT !.at = "saved"] ELSE Idle]
  /\ UNCHANGED <<file, cache, requested, issued, revoked, begun>>

-----------------------------------------------------------------------------
(* request_access                                                          *)

(* The contract is made under a fresh token and cached before it is saved. *)
RequestAccess(t, g) ==
  /\ handler[t] = Idle
  /\ g \notin requested
  /\ requested' = requested \cup {g}
  /\ cache' = Cached(WorkerOf[t], g)
  /\ handler' = [handler EXCEPT ![t] = Saving("issue", g, [grant |-> g, revoked |-> FALSE])]
  /\ UNCHANGED <<file, troubles, issued, revoked, begun, troubled>>

(* request_access returns the contract.                                    *)
ReturnGrant(t) ==
  /\ handler[t].at = "saved" /\ handler[t].op = "issue"
  /\ issued' = issued \cup {handler[t].grant}
  /\ handler' = [handler EXCEPT ![t] = Idle]
  /\ UNCHANGED <<file, cache, troubles, requested, revoked, begun, troubled>>

-----------------------------------------------------------------------------
(* get_access_contract                                                     *)

(* A request looks a key up: to retrieve data (once), or to revoke the     *)
(* grant (for its contract, for its actor, and in revoke_access_contract). *)
(* A token is known once it was returned; request ids are the clients' own. *)
Lookup(t, k, purpose) ==
  /\ handler[t] = Idle
  /\ k \in issued \cup Ids
  /\ handler' = [handler EXCEPT ![t] =
       [at |-> "load", purpose |-> purpose, left |-> IF purpose = "use" THEN 1 ELSE 3,
        key |-> k, seen |-> None, grant |-> None,
        issuedBefore |-> IF purpose = "use" THEN issued ELSE {},
        revokedBefore |-> IF purpose = "use" THEN revoked ELSE {}]]
  /\ UNCHANGED <<file, cache, troubles, requested, issued, revoked, begun, troubled>>

Looking(t, seen) == [handler EXCEPT ![t] = [@ EXCEPT !.at = "decide", !.seen = seen]]

(* grant_store.load returns, or raises on what it reads.                   *)
LoadGrant(t) ==
  /\ handler[t].at = "load"
  /\ handler' = Looking(t, file[handler[t].key])
  /\ UNCHANGED <<file, cache, troubles, requested, issued, revoked, begun, troubled>>

(* grant_store.load raises for a reason of its own.                        *)
LoadRaises(t) ==
  /\ handler[t].at = "load" /\ troubles < MaxTroubles
  /\ troubles' = troubles + 1
  /\ handler' = Looking(t, None)
  /\ UNCHANGED <<file, cache, requested, issued, revoked, begun, troubled>>

(* The contents are a record; None is a load that raised.                  *)
Decoded(contents) == contents # None /\ Readable(contents)

(* A defect: a revoked grant is honoured.                                  *)
IgnoresRevocation(contents, k) == Decoded(contents) /\ contents.grant # None /\ k \in KeysOf(contents.grant)

(* The stored grant may be used under the key.                             *)
Live(contents, k) ==
  /\ Decoded(contents)
  /\ ~contents.revoked
  /\ contents.grant # None
  /\ k \in KeysOf(contents.grant)

(* The keys a lookup evicts when the stored grant may not be used.         *)
Dropped(contents, k) ==
  {k} \cup IF Decoded(contents) /\ contents.revoked /\ contents.grant # None
            THEN KeysOf(contents.grant) ELSE {}

(* What a request does with the contract it got, or with None.  Without a  *)
(* contract for the actor check, the request may still be an admin's.      *)
Continuations(h, g) ==
  IF h.purpose = "use" THEN {[h EXCEPT !.at = "answered", !.grant = g]}
  ELSE IF g # None /\ h.left = 1 THEN {[at |-> "reload", grant |-> g, key |-> g]}
  ELSE (IF g # None \/ h.left = 2
        THEN {[h EXCEPT !.at = "load", !.left = @ - 1, !.seen = None]} ELSE {})
       \cup (IF g = None THEN {Idle} ELSE {})

(* No stored grant to use: the cache is evicted, the answer is None.       *)
RefuseGrant(t) ==
  LET h == handler[t] IN
    /\ h.at = "decide"
    /\ ~Live(h.seen, h.key)
    /\ cache' = Evicted(WorkerOf[t], Dropped(h.seen, h.key))
    /\ \E next \in Continuations(h, None) : handler' = [handler EXCEPT ![t] = next]
    /\ UNCHANGED <<file, troubles, requested, issued, revoked, begun, troubled>>

(* The store vouches for the key: the cached contract is returned, or the  *)
(* stored one is cached and returned.                                      *)
AcceptGrant(t) ==
  LET h == handler[t]
      w == WorkerOf[t]
      known == cache[w][h.key] IN
    /\ h.at = "decide"
    /\ Live(h.seen, h.key)
    /\ cache' = IF known = None THEN Cached(w, h.seen.grant) ELSE cache
    /\ \E next \in Continuations(h, IF known = None THEN h.seen.grant ELSE known) :
         handler' = [handler EXCEPT ![t] = next]
    /\ UNCHANGED <<file, troubles, requested, issued, revoked, begun, troubled>>

(* The request that used the grant, or was refused it, ends.               *)
Respond(t) ==
  /\ handler[t].at = "answered"
  /\ handler' = [handler EXCEPT ![t] = Idle]
  /\ UNCHANGED <<file, cache, troubles, requested, issued, revoked, begun, troubled>>

-----------------------------------------------------------------------------
(* revoke_access_contract, once it has the contract                        *)

(* The record is loaded by its token, else by its request id, else it is   *)
(* an empty one; it is marked and saved again under both keys.             *)
LoadForRevoke(t) ==
  LET h == handler[t]
      contents == file[h.key] IN
    /\ h.at = "reload"
    /\ ~Undecodable(contents)
    /\ handler' = [handler EXCEPT ![t] =
         IF Readable(contents) THEN Saving("revoke", h.grant, [contents EXCEPT !.revoked = TRUE])
         ELSE IF h.key = h.grant THEN [h EXCEPT !.key = IdOf[h.grant]]
         ELSE Saving("revoke", h.grant, [grant |-> None, revoked |-> TRUE])]
    /\ UNCHANGED <<file, cache, troubles, requested, issued, revoked, begun, troubled>>

(* Either load raises, and so does revoke_access_contract.                 *)
LoadForRevokeRaises(t) ==
  /\ handler[t].at = "reload"
  /\ \/ Undecodable(file[handler[t].key]) /\ UNCHANGED troubles
     \/ troubles < MaxTroubles /\ troubles' = troubles + 1
  /\ handler' = [handler EXCEPT ![t] = Idle]
  /\ UNCHANGED <<file, cache, requested, issued, revoked, begun, troubled>>

(* The cache forgets the grant and the revocation is confirmed.            *)
ConfirmRevocation(t) ==
  LET g == handler[t].grant IN
    /\ handler[t].at = "saved" /\ handler[t].op = "revoke"
    /\ cache' = Evicted(WorkerOf[t], KeysOf(g))
    /\ revoked' = revoked \cup {g}
    /\ handler' = [handler EXCEPT ![t] = Idle]
    /\ UNCHANGED <<file, troubles, requested, issued, begun, troubled>>

-----------------------------------------------------------------------------

(* A worker process dies and is started again with an empty cache.         *)
Crash(w) ==
  LET dead == {t \in Threads : WorkerOf[t] = w} IN
    /\ troubles < MaxTroubles
    /\ troubles' = troubles + 1
    /\ cache' = [cache EXCEPT ![w] = [k \in Keys |-> None]]
    /\ handler' = [t \in Threads |-> IF t \in dead THEN Idle ELSE handler[t]]
    /\ troubled' = troubled \cup {handler[t].grant : t \in {u \in dead : handler[u].at \in {"open", "write"}}}
    /\ UNCHANGED <<file, requested, issued, revoked, begun>>

Step(t) ==
  \/ \E g \in Grants : RequestAccess(t, g)
  \/ \E k \in Keys, purpose \in {"use", "revoke"} : Lookup(t, k, purpose)
  \/ OpenFile(t) \/ WriteFile(t) \/ SaveFails(t) \/ ReturnGrant(t)
  \/ LoadGrant(t) \/ LoadRaises(t) \/ RefuseGrant(t) \/ AcceptGrant(t) \/ Respond(t)
  \/ LoadForRevoke(t) \/ LoadForRevokeRaises(t) \/ ConfirmRevocation(t)

Next == (\E w \in Workers : Crash(w)) \/ \E t \in Threads : Step(t)

Spec == Init /\ [][Next]_grantVars

-----------------------------------------------------------------------------
(* Properties                                                              *)

(* The grant store is authoritative: a request that began after the        *)
(* revocation of a grant was confirmed does not get the grant, by either   *)
(* credential, in any worker, whatever its cache holds.                    *)
RevokedIsRefused ==
  \A t \in Threads :
    handler[t].at = "answered" => handler[t].grant \notin handler[t].revokedBefore

(* An issued grant is refused only when its revocation has begun, one of   *)
(* its saves was cut short, or the load raised: neither another worker nor *)
(* another grant takes it away.                                            *)
RefusalsAreExplained ==
  \A t \in Threads : handler[t].at = "answered" /\ handler[t].grant = None /\ handler[t].seen # None =>
    \A g \in handler[t].issuedBefore :
      handler[t].key \in KeysOf(g) => g \in begun \cup troubled
=============================================================================
